------------------------------ MODULE AccessGate ------------------------------
(***************************************************************************)
(* The access-code gate of the Streamlit page, app/app.py: one browser     *)
(* session, whose script runs from the top at every click.  A run during a *)
(* lockout ends before a code is read, so it is not a step of the model.   *)
(***************************************************************************)
EXTENDS Integers, Sequences

CONSTANTS
    MaxAttempts,     \* _MAX_ATTEMPTS_BEFORE_LOCKOUT
    LockoutSeconds,  \* _LOCKOUT_SECONDS
    MaxTime,         \* bound on the clock
    MaxWrong         \* bound on the wrong codes entered

ASSUME GateAssumption ==
    /\ MaxAttempts \in Nat \ {0}
    /\ {LockoutSeconds, MaxTime, MaxWrong} \subseteq Nat

VARIABLES
    now,              \* time.monotonic()
    unlocked,         \* the session state of the gate
    failed_attempts,
    locked_until,
    wrong             \* when each wrong code was compared, oldest first

vars == <<now, unlocked, failed_attempts, locked_until, wrong>>

Init ==
    /\ now \in 0..MaxTime
    /\ unlocked = FALSE
    /\ failed_attempts = 0
    /\ locked_until = 0
    /\ wrong = <<>>

\* The script gets past the lockout check and shows the code field.
Open == ~unlocked /\ locked_until - now <= 0

EnterRight ==
    /\ Open
    /\ unlocked' = TRUE
    /\ failed_attempts' = 0
    /\ UNCHANGED <<now, locked_until, wrong>>

LateLockout ==
    /\ Open
    /\ Len(wrong) < MaxWrong
    /\ wrong' = Append(wrong, now)
    /\ IF failed_attempts >= MaxAttempts
       THEN failed_attempts' = 0 /\ locked_until' = now + LockoutSeconds
       ELSE failed_attempts' = failed_attempts + 1 /\ UNCHANGED locked_until
    /\ UNCHANGED <<now, unlocked>>

EnterWrong ==
    /\ Open
    /\ Len(wrong) < MaxWrong
    /\ wrong' = Append(wrong, now)
    /\ IF failed_attempts + 1 >= MaxAttempts
       THEN failed_attempts' = 0 /\ locked_until' = now + LockoutSeconds
       ELSE failed_attempts' = failed_attempts + 1 /\ UNCHANGED locked_until
    /\ UNCHANGED <<now, unlocked>>

Tick ==
    /\ now < MaxTime
    /\ now' = now + 1
    /\ UNCHANGED <<unlocked, failed_attempts, locked_until, wrong>>

Next == EnterRight \/ EnterWrong \/ Tick

Spec == Init /\ [][Next]_vars

-----------------------------------------------------------------------------
(* Properties *)

\* Type correctness; a lockout starts before the count of failures fills.
TypeOK ==
    /\ now \in Nat
    /\ unlocked \in BOOLEAN
    /\ failed_attempts \in 0..(MaxAttempts - 1)
    /\ locked_until \in Nat
    /\ wrong \in Seq(Nat)

\* What the lockout is for, an upper bound on the rate of guessing: however a
\* session spreads its attempts over the clock, with the counter surviving
\* between lockouts, k * MaxAttempts more wrong codes after one of them take
\* k times LockoutSeconds or more.
GuessesAreSpread ==
    \A i \in 1..Len(wrong), k \in 0..Len(wrong) :
        i + k * MaxAttempts <= Len(wrong) =>
            wrong[i + k * MaxAttempts] - wrong[i] >= k * LockoutSeconds
=============================================================================

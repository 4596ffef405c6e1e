--------------------------- MODULE CredentialStore ---------------------------
(***************************************************************************)
(* What auth/credential_store.py promises of any backend: one record of    *)
(* tokens that load() returns as the last save() or clear() left it.  Any  *)
(* operation may raise.  A write that fails or is cut short has happened,  *)
(* or not, or, if it was a save, has left a record no load can read.       *)
(***************************************************************************)
CONSTANTS
    Tokens,
    NoTokens, Unreadable, NoWrite  \* three distinct values outside Tokens

VARIABLES
    value,    \* the record
    writing,  \* what the save or clear under way will make of it, or NoWrite
    reply     \* what the last step returned to the caller, if it returned

vars == <<value, writing, reply>>

Pending == "pending"
Raised  == "raised"
Done    == "done"

Init ==
    /\ value \in Tokens \cup {NoTokens}
    /\ writing = NoWrite
    /\ reply = Pending

Load ==
    /\ writing = NoWrite
    /\ value # Unreadable
    /\ reply' = value
    /\ UNCHANGED <<value, writing>>

\* save(v), or clear() when v is NoTokens.
BeginWrite(v) ==
    /\ writing = NoWrite
    /\ writing' = v
    /\ reply' = Pending
    /\ UNCHANGED value

Overwrite ==
    /\ writing \in Tokens
    /\ value' = Unreadable
    /\ reply' = Pending
    /\ UNCHANGED writing

Apply ==
    /\ writing # NoWrite
    /\ value' = writing
    /\ reply' = Pending
    /\ UNCHANGED writing

EndWrite ==
    /\ writing # NoWrite
    /\ value' = writing
    /\ writing' = NoWrite
    /\ reply' = Done

\* The operation raises, or its process stops before it returns.
Fail ==
    /\ writing' = NoWrite
    /\ reply' \in {Raised, Pending}
    /\ UNCHANGED value

\* Steps between the call and the return.
Internal ==
    /\ reply' = Pending
    /\ UNCHANGED <<value, writing>>

Next ==
    \/ Load \/ Overwrite \/ Apply \/ EndWrite \/ Fail \/ Internal
    \/ \E v \in Tokens \cup {NoTokens} : BeginWrite(v)

Spec == Init /\ [][Next]_vars
=============================================================================

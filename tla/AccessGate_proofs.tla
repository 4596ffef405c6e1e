-------------------------- MODULE AccessGate_proofs --------------------------
(***************************************************************************)
(* Proofs about AccessGate, for any number of attempts and any lockout.    *)
(***************************************************************************)
EXTENDS AccessGate, SequenceTheorems, TLAPS

\* Every reachable state is well typed and the count stays below the limit.
THEOREM TypeCorrect == Spec => []TypeOK
<1>1. Init => TypeOK
  <2>1. MaxAttempts \in Nat /\ MaxAttempts > 0 /\ MaxTime \in Nat
    BY GateAssumption
  <2>2. ASSUME Init PROVE TypeOK
    <3>1. now \in Nat /\ failed_attempts \in 0..(MaxAttempts - 1) /\ locked_until \in Nat
      BY <2>1, <2>2 DEF Init
    <3>2. unlocked \in BOOLEAN /\ wrong \in Seq(Nat)
      BY <2>2, EmptySeq DEF Init
    <3> QED BY <3>1, <3>2 DEF TypeOK
  <2> QED BY <2>2
<1>2. ASSUME TypeOK, [Next]_vars PROVE TypeOK'
  <2>0. MaxAttempts \in Nat /\ LockoutSeconds \in Nat
    BY GateAssumption
  <2> USE <1>2, <2>0, GateAssumption DEF TypeOK
  <2>1. CASE EnterRight
    BY <2>1 DEF EnterRight
  <2>2. CASE EnterWrong
    BY <2>2 DEF EnterWrong
  <2>3. CASE Tick
    BY <2>3 DEF Tick
  <2>4. CASE UNCHANGED vars
    BY <2>4 DEF vars
  <2> QED BY <2>1, <2>2, <2>3, <2>4 DEF Next
<1> QED BY <1>1, <1>2, PTL DEF Spec

\* The last lockout began with wrong code number Len(wrong) - failed_attempts,
\* if any, and no later code was compared before it ended.
Block == Len(wrong) - failed_attempts

Blocks ==
    /\ \A i, j \in 1..Len(wrong) : i <= j => wrong[i] <= wrong[j]
    /\ \A i \in 1..Len(wrong) : wrong[i] <= now
    /\ ~unlocked => /\ Block >= 0
                    /\ Block > 0 => locked_until >= wrong[Block] + LockoutSeconds

\* Any MaxAttempts wrong codes have a lockout among them.
OneLockoutApart ==
    \A i \in 1..(Len(wrong) - MaxAttempts) :
        wrong[i + MaxAttempts] - wrong[i] >= LockoutSeconds

LEMMA BlocksInductive ==
    ASSUME TypeOK, Blocks, OneLockoutApart, [Next]_vars
    PROVE  Blocks' /\ OneLockoutApart'
<1>0. MaxAttempts \in Nat /\ LockoutSeconds \in Nat
  BY GateAssumption
<1> USE <1>0, GateAssumption DEF TypeOK
<1>1. CASE EnterWrong
  <2>1. /\ wrong' = Append(wrong, now) /\ Len(wrong') = Len(wrong) + 1
        /\ \A i \in 1..Len(wrong) : wrong'[i] = wrong[i]
        /\ wrong'[Len(wrong) + 1] = now
    BY <1>1 DEF EnterWrong
  <2>2. /\ ~unlocked /\ unlocked' = unlocked /\ now' = now /\ locked_until <= now
        /\ Block >= 0 /\ (Block > 0 => locked_until >= wrong[Block] + LockoutSeconds)
    BY <1>1 DEF EnterWrong, Open, Blocks
  <2>3. \A i, j \in 1..Len(wrong') : i <= j => wrong'[i] <= wrong'[j]
    BY <2>1 DEF Blocks
  <2>4. \A i \in 1..Len(wrong') : wrong'[i] <= now'
    BY <2>1, <2>2 DEF Blocks
  <2>5. Block' >= 0 /\ (Block' > 0 => locked_until' >= wrong'[Block'] + LockoutSeconds)
    <3>1. CASE failed_attempts + 1 >= MaxAttempts
      BY <1>1, <2>1, <2>2, <3>1 DEF EnterWrong, Block
    <3>2. CASE ~(failed_attempts + 1 >= MaxAttempts)
      <4>1. Block' = Block /\ locked_until' = locked_until
        BY <1>1, <2>1, <3>2 DEF EnterWrong, Block
      <4>2. Block \in Int /\ Block <= Len(wrong)
        BY DEF Block
      <4> QED BY <2>1, <2>2, <4>1, <4>2
    <3> QED BY <3>1, <3>2
  <2>6. ASSUME NEW i \in 1..(Len(wrong') - MaxAttempts)
        PROVE  wrong'[i + MaxAttempts] - wrong'[i] >= LockoutSeconds
    <3>0. i \in Nat /\ i >= 1 /\ i + MaxAttempts <= Len(wrong) + 1
          /\ MaxAttempts >= 1 /\ Len(wrong) \in Nat
      BY <2>1
    <3>1. CASE i + MaxAttempts <= Len(wrong)
      <4>1. i \in 1..(Len(wrong) - MaxAttempts) /\ i \in 1..Len(wrong)
            /\ i + MaxAttempts \in 1..Len(wrong)
        BY <3>0, <3>1
      <4> QED BY <2>1, <4>1 DEF OneLockoutApart
    <3>2. CASE i + MaxAttempts = Len(wrong) + 1
      <4>1. i <= Block /\ Block \in 1..Len(wrong) /\ i \in 1..Len(wrong)
        BY <3>0, <3>2 DEF Block
      <4>2. wrong[i] <= wrong[Block] /\ wrong[i] \in Nat /\ wrong[Block] \in Nat
        BY <4>1 DEF Blocks
      <4>3. wrong'[i + MaxAttempts] = now /\ wrong'[i] = wrong[i]
        BY <2>1, <3>2, <4>1
      <4>4. now >= wrong[Block] + LockoutSeconds
        BY <2>2, <4>1, <4>2
      <4>5. now - wrong[i] >= LockoutSeconds
        <5>1. now \in Nat /\ wrong[Block] \in Nat /\ wrong[i] \in Nat
          BY <4>2
        <5> QED BY ONLY <1>0, <4>2, <4>4, <5>1
      <4> QED BY ONLY <4>3, <4>5
    <3> QED BY <3>0, <3>1, <3>2
  <2> QED BY <2>2, <2>3, <2>4, <2>5, <2>6 DEF Blocks, OneLockoutApart
<1>2. CASE EnterRight
  BY <1>2 DEF EnterRight, Blocks, OneLockoutApart
<1>3. CASE Tick
  BY <1>3 DEF Tick, Blocks, Block, OneLockoutApart
<1>4. CASE UNCHANGED vars
  BY <1>4 DEF vars, Blocks, Block, OneLockoutApart
<1> QED BY <1>1, <1>2, <1>3, <1>4 DEF Next

\* A new wrong code comes a lockout later than the one MaxAttempts before it,
\* which is k - 1 lockouts later than the first.
LEMMA SpreadInductive ==
    ASSUME TypeOK, GuessesAreSpread, OneLockoutApart', [Next]_vars
    PROVE  GuessesAreSpread'
<1>0. MaxAttempts \in Nat /\ MaxAttempts > 0 /\ LockoutSeconds \in Nat
  BY GateAssumption
<1>1. CASE EnterWrong
  <2>1. /\ Len(wrong) \in Nat /\ Len(wrong') = Len(wrong) + 1
        /\ \A i \in 1..Len(wrong) : wrong'[i] = wrong[i] /\ wrong[i] \in Nat
        /\ wrong'[Len(wrong) + 1] = now /\ now \in Nat
    BY <1>1 DEF EnterWrong, TypeOK
  <2>2. SUFFICES ASSUME NEW i \in 1..Len(wrong'), NEW k \in 0..Len(wrong'),
                        i + k * MaxAttempts <= Len(wrong')
                 PROVE  wrong'[i + k * MaxAttempts] - wrong'[i] >= k * LockoutSeconds
    BY DEF GuessesAreSpread
  <2>3. k * MaxAttempts \in Nat /\ k \in Nat /\ i \in Nat /\ i > 0 /\ k * LockoutSeconds \in Nat
    BY <1>0, <2>1, <2>2
  <2>4. CASE k = 0
    <3>1. k * MaxAttempts = 0 /\ k * LockoutSeconds = 0
      BY <1>0, <2>4
    <3>2. wrong'[i] \in Nat
      BY <2>1, <2>2
    <3> QED BY <2>3, <3>1, <3>2
  <2>5. CASE k # 0 /\ i + k * MaxAttempts <= Len(wrong)
    <3>1. k <= k * MaxAttempts
      BY <1>0, <2>3
    <3>2. i \in 1..Len(wrong) /\ k \in 0..Len(wrong) /\ i + k * MaxAttempts \in 1..Len(wrong)
      BY <2>1, <2>3, <2>5, <3>1
    <3>3. wrong[i + k * MaxAttempts] - wrong[i] >= k * LockoutSeconds
      BY <2>5, <3>2 DEF GuessesAreSpread
    <3> QED BY <2>1, <3>2, <3>3
  <2>6. CASE k # 0 /\ i + k * MaxAttempts = Len(wrong) + 1
    <3> DEFINE m == i + (k - 1) * MaxAttempts
    <3>1. /\ (k - 1) * MaxAttempts = k * MaxAttempts - MaxAttempts
          /\ (k - 1) * LockoutSeconds = k * LockoutSeconds - LockoutSeconds
          /\ (k - 1) * MaxAttempts \in Nat /\ k - 1 \in Nat
          /\ k - 1 <= (k - 1) * MaxAttempts
      BY <1>0, <2>3, <2>6
    <3>2. /\ m \in 1..Len(wrong) /\ i \in 1..Len(wrong) /\ k - 1 \in 0..Len(wrong)
          /\ m + MaxAttempts = Len(wrong) + 1
      BY <1>0, <2>1, <2>3, <2>6, <3>1
    <3>3. wrong[m] - wrong[i] >= (k - 1) * LockoutSeconds
      BY <3>2 DEF GuessesAreSpread
    <3>4. wrong'[m + MaxAttempts] - wrong'[m] >= LockoutSeconds
      <4>1. m \in 1..(Len(wrong') - MaxAttempts)
        BY <1>0, <2>1, <3>2
      <4> QED BY <4>1 DEF OneLockoutApart
    <3>5. /\ wrong'[m] = wrong[m] /\ wrong'[i] = wrong[i]
          /\ wrong[m] \in Nat /\ wrong[i] \in Nat
          /\ wrong'[m + MaxAttempts] = now /\ wrong'[i + k * MaxAttempts] = now
      BY <2>1, <2>6, <3>2
    <3> HIDE DEF m
    <3> QED BY <1>0, <2>1, <2>3, <3>1, <3>3, <3>4, <3>5
  <2> QED BY <2>1, <2>2, <2>3, <2>4, <2>5, <2>6
<1>2. CASE UNCHANGED wrong
  BY <1>2 DEF GuessesAreSpread
<1> QED BY <1>1, <1>2 DEF Next, EnterRight, Tick, vars

\* In every session, for any limit and any lockout, the wrong codes are bounded
\* by the time they take: MaxAttempts to a lockout.
THEOREM GuessesAreSpreadHolds == Spec => []GuessesAreSpread
<1> DEFINE IInv == Blocks /\ OneLockoutApart /\ GuessesAreSpread
<1>1. Init => IInv
  BY GateAssumption DEF Init, Blocks, Block, OneLockoutApart, GuessesAreSpread
<1>2. TypeOK /\ IInv /\ [Next]_vars => IInv'
  BY BlocksInductive, SpreadInductive
<1>3. IInv => GuessesAreSpread
  OBVIOUS
<1> QED BY <1>1, <1>2, <1>3, TypeCorrect, PTL DEF Spec
=============================================================================

---------------------------- MODULE Policy_proofs ----------------------------
(***************************************************************************)
(* Proofs about Policy, for any sets of amounts, days and close dates.     *)
(***************************************************************************)
EXTENDS Policy, TLAPS

\* The bounds of a score: no combination of facts scores below 0 or above
\* the maximum that get_policy_rules publishes.
LEMMA ScoreBounded ==
    ASSUME NEW f \in Facts, NEW day \in Int
    PROVE  ScoreOpportunity(f, day) \in 0..MAX_POSSIBLE_SCORE \cup {Invalid}
BY DEF ScoreOpportunity, TotalScore, Points, MAX_POSSIBLE_SCORE, AMOUNT_THRESHOLD_POINTS,
   CLOSE_DATE_POINTS, STRATEGIC_ACCOUNT_POINTS, STALE_ACTIVITY_POINTS, PRIORITY_STAGE_POINTS

\* Adding urgency never lowers what the four rules give that the day does not
\* decide.
LEMMA ScoreMonotone ==
    ASSUME NEW f \in Facts, NEW g \in Facts, AtLeastAsUrgent(f, g),
           NEW d \in Int, NEW e \in Int
    PROVE  TotalScore(f, d) - Points(CloseDateApplies(f, d), CLOSE_DATE_POINTS) >=
               TotalScore(g, e) - Points(CloseDateApplies(g, e), CLOSE_DATE_POINTS)
<1>1. AmountApplies(g) => AmountApplies(f)
  <2>1. CASE g.amount = NaN
    BY <2>1 DEF AmountApplies, Above
  <2>2. CASE NaN \notin {f.amount, g.amount} /\ f.amount >= g.amount
    <3>1. f.amount \in Int /\ g.amount \in Int
      BY <2>2, FactsAssumption DEF Facts
    <3> QED BY <2>2, <3>1 DEF AmountApplies, Above, AMOUNT_THRESHOLD_USD
  <2> QED BY <2>1, <2>2 DEF AtLeastAsUrgent
<1>2. StaleApplies(g) => StaleApplies(f)
  <2>1. f.days_since_activity \in Int /\ g.days_since_activity \in Int
    BY FactsAssumption DEF Facts
  <2> QED BY <2>1 DEF StaleApplies, AtLeastAsUrgent, STALE_ACTIVITY_THRESHOLD_DAYS
<1>4. /\ g.is_strategic_account => f.is_strategic_account
      /\ g.stage = "priority" => f.stage = "priority"
  BY DEF AtLeastAsUrgent
<1>5. ASSUME NEW n \in Nat, NEW a \in BOOLEAN, NEW b \in BOOLEAN, b => a
      PROVE  Points(a, n) \in Nat /\ Points(b, n) \in Nat /\ Points(a, n) >= Points(b, n)
  BY <1>5 DEF Points
<1>6. \A x \in Facts : x.is_strategic_account \in BOOLEAN
  BY DEF Facts
<1> USE DEF AMOUNT_THRESHOLD_POINTS, CLOSE_DATE_POINTS, STRATEGIC_ACCOUNT_POINTS,
            STALE_ACTIVITY_POINTS, PRIORITY_STAGE_POINTS
<1>7. /\ Points(AmountApplies(f), AMOUNT_THRESHOLD_POINTS) \in Nat
      /\ Points(AmountApplies(g), AMOUNT_THRESHOLD_POINTS) \in Nat
      /\ Points(AmountApplies(f), AMOUNT_THRESHOLD_POINTS)
           >= Points(AmountApplies(g), AMOUNT_THRESHOLD_POINTS)
  BY <1>1 DEF Points
<1>8. /\ Points(StaleApplies(f), STALE_ACTIVITY_POINTS) \in Nat
      /\ Points(StaleApplies(g), STALE_ACTIVITY_POINTS) \in Nat
      /\ Points(StaleApplies(f), STALE_ACTIVITY_POINTS)
           >= Points(StaleApplies(g), STALE_ACTIVITY_POINTS)
  BY <1>2 DEF Points
<1>9. /\ Points(CloseDateApplies(f, d), CLOSE_DATE_POINTS) \in Nat
      /\ Points(CloseDateApplies(g, e), CLOSE_DATE_POINTS) \in Nat
  BY DEF Points
<1>10. /\ Points(f.is_strategic_account, STRATEGIC_ACCOUNT_POINTS) \in Nat
       /\ Points(g.is_strategic_account, STRATEGIC_ACCOUNT_POINTS) \in Nat
       /\ Points(f.is_strategic_account, STRATEGIC_ACCOUNT_POINTS)
            >= Points(g.is_strategic_account, STRATEGIC_ACCOUNT_POINTS)
  BY <1>4, <1>5, <1>6
<1>11. /\ Points(f.stage = "priority", PRIORITY_STAGE_POINTS) \in Nat
       /\ Points(g.stage = "priority", PRIORITY_STAGE_POINTS) \in Nat
       /\ Points(f.stage = "priority", PRIORITY_STAGE_POINTS)
            >= Points(g.stage = "priority", PRIORITY_STAGE_POINTS)
  BY <1>4 DEF Points
<1> HIDE DEF AMOUNT_THRESHOLD_POINTS, CLOSE_DATE_POINTS, STRATEGIC_ACCOUNT_POINTS,
             STALE_ACTIVITY_POINTS, PRIORITY_STAGE_POINTS
<1> QED BY <1>7, <1>8, <1>9, <1>10, <1>11 DEF TotalScore

-----------------------------------------------------------------------------
\* Every call made holds the score of its facts on its day.
Faithful ==
    \A c \in Calls : calls[c] # NotMade =>
        /\ calls[c].facts \in Facts /\ calls[c].day \in 0..LastDay
        /\ calls[c].score = ScoreOpportunity(calls[c].facts, calls[c].day)

\* Reachable states are well typed, scores within 0 and the maximum.
THEOREM TypeCorrect == Spec => [](TypeOK /\ Faithful)
<1>1. Init => TypeOK /\ Faithful
  BY FactsAssumption DEF Init, TypeOK, Faithful
<1>2. ASSUME TypeOK, Faithful, [Next]_vars PROVE (TypeOK /\ Faithful)'
  <2>1. ASSUME NEW c \in Calls, NEW f \in Facts, CallScore(c, f) PROVE (TypeOK /\ Faithful)'
    <3> DEFINE call == [facts |-> f, day |-> today, score |-> ScoreOpportunity(f, today)]
    <3>1. today \in 0..LastDay /\ today \in Int /\ today' = today
      BY <1>2, <2>1, FactsAssumption DEF TypeOK, CallScore
    <3>2. call \in Call
      BY <3>1, ScoreBounded DEF Call
    <3>3. calls' = [calls EXCEPT ![c] = call]
      BY <2>1 DEF CallScore
    <3>4. TypeOK'
      BY <1>2, <3>1, <3>2, <3>3 DEF TypeOK
    <3>5. ASSUME NEW d \in Calls, calls'[d] # NotMade
          PROVE  /\ calls'[d].facts \in Facts /\ calls'[d].day \in 0..LastDay
                 /\ calls'[d].score = ScoreOpportunity(calls'[d].facts, calls'[d].day)
      <4>1. CASE d = c
        BY <1>2, <3>1, <3>3, <4>1 DEF TypeOK
      <4>2. CASE d # c
        BY <1>2, <3>3, <3>5, <4>2 DEF TypeOK, Faithful
      <4> QED BY <4>1, <4>2
    <3> QED BY <3>4, <3>5 DEF Faithful
  <2>2. CASE Midnight
    BY <1>2, <2>2, FactsAssumption DEF Midnight, TypeOK, Faithful
  <2>3. CASE UNCHANGED vars
    BY <1>2, <2>3 DEF vars, TypeOK, Faithful
  <2> QED BY <1>2, <2>1, <2>2, <2>3 DEF Next
<1> QED BY <1>1, <1>2, PTL DEF Spec

\* The scores of a ranking never put the less urgent of two comparable
\* opportunities first, whatever the facts, and midnight costs at most the
\* points of the close date.
THEOREM RankingRespectsUrgencyHolds == Spec => []RankingRespectsUrgency
<1>1. ASSUME TypeOK, Faithful PROVE RankingRespectsUrgency
  <2>1. SUFFICES ASSUME NEW c \in Calls, NEW d \in Calls, Scored(c), Scored(d),
                        AtLeastAsUrgent(calls[c].facts, calls[d].facts)
                 PROVE  calls[c].score + Drift(c, d) >= calls[d].score
    BY DEF RankingRespectsUrgency
  <2> DEFINE f == calls[c].facts
             g == calls[d].facts
             x == calls[c].day
             y == calls[d].day
             p == Points(CloseDateApplies(f, x), CLOSE_DATE_POINTS)
             q == Points(CloseDateApplies(g, y), CLOSE_DATE_POINTS)
  <2>2. /\ f \in Facts /\ g \in Facts /\ x \in Int /\ y \in Int
        /\ calls[c].score = TotalScore(f, x) /\ calls[d].score = TotalScore(g, y)
    BY <1>1, <2>1 DEF Faithful, Scored, ScoreOpportunity
  <2>3. TotalScore(f, x) - p >= TotalScore(g, y) - q
    BY <2>1, <2>2, ScoreMonotone
  <2>4. p \in 0..CLOSE_DATE_POINTS /\ q \in 0..CLOSE_DATE_POINTS
    BY DEF Points, CLOSE_DATE_POINTS
  <2>5. x = y \/ f.close_date = NoDate => p = q
    BY <2>1 DEF CloseDateApplies, AtLeastAsUrgent
  <2>6. p + Drift(c, d) >= q
    BY <2>4, <2>5 DEF Drift, CLOSE_DATE_POINTS
  <2>7. TotalScore(f, x) \in Int /\ TotalScore(g, y) \in Int /\ Drift(c, d) \in Int
    BY <1>1, <2>1, <2>2, ScoreBounded DEF TypeOK, Call, Scored, Drift, CLOSE_DATE_POINTS,
       MAX_POSSIBLE_SCORE, AMOUNT_THRESHOLD_POINTS, STRATEGIC_ACCOUNT_POINTS,
       STALE_ACTIVITY_POINTS, PRIORITY_STAGE_POINTS
  <2> HIDE DEF f, g, x, y, p, q
  <2> QED BY <2>2, <2>3, <2>4, <2>6, <2>7 DEF CLOSE_DATE_POINTS
<1> QED BY <1>1, TypeCorrect, PTL
=============================================================================

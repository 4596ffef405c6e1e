-------------------------------- MODULE Policy --------------------------------
(***************************************************************************)
(* The scoring rules of policy_mcp/policy.py and the tool of               *)
(* policy_mcp/server.py that applies them.  The agent calls the tool once  *)
(* per opportunity while it ranks them; the tool passes no as_of_date, so  *)
(* the close-date rule reads the day off the wall clock at every call, and *)
(* the day may change between two calls of one ranking.                    *)
(*                                                                         *)
(* Dates are day numbers.  An amount is a number or NaN, which a float     *)
(* argument may be and which compares false with every number.             *)
(***************************************************************************)
EXTENDS Integers

CONSTANTS
    Calls,      \* the calls of one ranking
    Amounts,    \* amounts, days and close dates the agent may pass
    Days,
    CloseDates,
    NaN, NoDate, BadDate,  \* no close date given; a string that is no ISO date
    Invalid,    \* InvalidOpportunityFactsError
    NotMade,    \* a call of the ranking that is yet to come
    LastDay     \* bound on the clock

ASSUME FactsAssumption ==
    /\ Amounts \subseteq Int \cup {NaN}
    /\ Days \subseteq Int
    /\ CloseDates \subseteq Int \cup {NoDate, BadDate}
    /\ {NaN, NoDate, BadDate, Invalid} \cap Int = {}
    /\ NoDate # BadDate
    /\ LastDay \in Nat

\* Stage names by their meaning, after strip() and lower().
Stages == {"priority", "other", "blank"}

Facts == [amount : Amounts, stage : Stages, days_since_activity : Days,
          is_strategic_account : BOOLEAN, close_date : CloseDates]

ASSUME NotMadeAssumption == NotMade \notin [facts : Facts, day : 0..LastDay,
                                            score : Int \cup {Invalid}]

VARIABLES
    today,  \* datetime.date.today()
    calls   \* for each call its facts, its day and what it returned

vars == <<today, calls>>

-----------------------------------------------------------------------------
AMOUNT_THRESHOLD_USD == 250000
CLOSE_DATE_WINDOW_DAYS == 30
STALE_ACTIVITY_THRESHOLD_DAYS == 14

AMOUNT_THRESHOLD_POINTS == 3
CLOSE_DATE_POINTS == 2
STRATEGIC_ACCOUNT_POINTS == 2
STALE_ACTIVITY_POINTS == 2
PRIORITY_STAGE_POINTS == 1

MAX_POSSIBLE_SCORE ==
    AMOUNT_THRESHOLD_POINTS + CLOSE_DATE_POINTS + STRATEGIC_ACCOUNT_POINTS
      + STALE_ACTIVITY_POINTS + PRIORITY_STAGE_POINTS

Points(applies, points) == IF applies THEN points ELSE 0

Below(amount, bound) == amount # NaN /\ amount < bound
Above(amount, bound) == amount # NaN /\ amount > bound

IsInvalid(f) ==
    \/ Below(f.amount, 0)
    \/ f.stage = "blank"
    \/ f.days_since_activity < 0
    \/ f.close_date = BadDate

AmountAppliesUnlessBelow(f) ==
    ~(f.amount = AMOUNT_THRESHOLD_USD \/ Below(f.amount, AMOUNT_THRESHOLD_USD))

AmountApplies(f) == Above(f.amount, AMOUNT_THRESHOLD_USD)

CloseDateApplies(f, day) ==
    /\ f.close_date # NoDate
    /\ 0 <= f.close_date - day
    /\ f.close_date - day <= CLOSE_DATE_WINDOW_DAYS

StaleApplies(f) == f.days_since_activity > STALE_ACTIVITY_THRESHOLD_DAYS

TotalScoreStaleTwice(f, day) ==
    Points(AmountApplies(f), AMOUNT_THRESHOLD_POINTS)
      + Points(CloseDateApplies(f, day), CLOSE_DATE_POINTS)
      + Points(f.is_strategic_account, STRATEGIC_ACCOUNT_POINTS)
      + Points(StaleApplies(f), STALE_ACTIVITY_POINTS)
      + Points(StaleApplies(f), STALE_ACTIVITY_POINTS)
      + Points(f.stage = "priority", PRIORITY_STAGE_POINTS)

TotalScore(f, day) ==
    Points(AmountApplies(f), AMOUNT_THRESHOLD_POINTS)
      + Points(CloseDateApplies(f, day), CLOSE_DATE_POINTS)
      + Points(f.is_strategic_account, STRATEGIC_ACCOUNT_POINTS)
      + Points(StaleApplies(f), STALE_ACTIVITY_POINTS)
      + Points(f.stage = "priority", PRIORITY_STAGE_POINTS)

ScoreOpportunity(f, day) == IF IsInvalid(f) THEN Invalid ELSE TotalScore(f, day)

-----------------------------------------------------------------------------
Init == today = 0 /\ calls = [c \in Calls |-> NotMade]

CallScore(c, f) ==
    /\ calls[c] = NotMade
    /\ calls' = [calls EXCEPT ![c] =
          [facts |-> f, day |-> today, score |-> ScoreOpportunity(f, today)]]
    /\ UNCHANGED today

Midnight ==
    /\ today < LastDay
    /\ today' = today + 1
    /\ UNCHANGED calls

Next ==
    \/ \E c \in Calls, f \in Facts : CallScore(c, f)
    \/ Midnight

Spec == Init /\ [][Next]_vars

-----------------------------------------------------------------------------
(* Properties *)

Call == [facts : Facts, day : 0..LastDay, score : 0..MAX_POSSIBLE_SCORE \cup {Invalid}]

\* Type correctness; a score is between 0 and the published maximum.
TypeOK ==
    /\ today \in 0..LastDay
    /\ calls \in [Calls -> Call \cup {NotMade}]

Scored(c) == calls[c] # NotMade /\ calls[c].score # Invalid

\* Facts f call for at least as much attention as facts g, and close no
\* differently.  An amount that is NaN, which passes the validation, is no
\* reason for attention.
AtLeastAsUrgent(f, g) ==
    /\ g.amount = NaN \/ (f.amount # NaN /\ f.amount >= g.amount)
    /\ f.days_since_activity >= g.days_since_activity
    /\ g.is_strategic_account => f.is_strategic_account
    /\ g.stage = "priority" => f.stage = "priority"
    /\ f.close_date = g.close_date

\* What midnight between two calls may cost: the day decides the close-date
\* rule and no other.
Drift(c, d) ==
    IF calls[c].day = calls[d].day \/ calls[c].facts.close_date = NoDate THEN 0
    ELSE CLOSE_DATE_POINTS

\* The scores of one ranking order the opportunities as the rules mean it: an
\* opportunity that is at least as urgent by every fact never ranks below the
\* other, or, where midnight came between the calls, by no more than the
\* points of the close date.
RankingRespectsUrgency ==
    \A c, d \in Calls :
        /\ Scored(c) /\ Scored(d)
        /\ AtLeastAsUrgent(calls[c].facts, calls[d].facts)
        => calls[c].score + Drift(c, d) >= calls[d].score
=============================================================================

-------------------------- MODULE AskService_proofs --------------------------
(***************************************************************************)
(* Proofs about AskService: its broker is the broker of TokenBroker, so    *)
(* what is proved there holds inside the service; the order of the event   *)
(* loop; and that a cure lasts.                                            *)
(***************************************************************************)
EXTENDS AskService, TokenBroker_proofs, SequenceTheorems

LEMMA ServerThreads ==
    /\ Loop \in AskThreads /\ Loop \in Threads /\ Loop \notin AuthThreads
    /\ Callback \in AuthThreads /\ Callback \in Threads
    /\ Loop # Callback
  BY ServerAssumption DEF Loop, Callback, Threads, AskThreads, AuthThreads

-----------------------------------------------------------------------------
(* The broker inside the service *)

\* Every step of the service is a step of the token broker, or leaves it alone.
LEMMA StepRefinesBroker == [AskNext]_askVars => [Next]_vars
  <1> SUFFICES ASSUME [AskNext]_askVars PROVE Next \/ UNCHANGED vars
    OBVIOUS
  <1> USE ServerThreads, ServerAssumption
  <1>1. ASSUME NEW e \in Environments, Start(e) PROVE UNCHANGED vars
    BY <1>1 DEF Start, brokerVars
  <1>2. CASE Stop
    BY <1>2 DEF Stop, brokerVars, Next
  <1>3. CASE BeCalm
    BY <1>3 DEF BeCalm, brokerVars
  <1>4. ASSUME NEW u \in Pages, Authorize(u) PROVE Next
    BY <1>4 DEF Authorize, Next, AuthStep
  <1>5. ASSUME NEW u \in Pages, NEW j \in Jobs, Ask(u, j) PROVE UNCHANGED vars
    BY <1>5 DEF Ask, brokerVars
  <1>6. ASSUME NEW u \in Pages, AskInVain(u) \/ GiveUp(u) \/ AuthorizeInVain(u)
        PROVE  UNCHANGED vars
    BY <1>6 DEF AskInVain, GiveUp, AuthorizeInVain, brokerVars
  <1>7. ASSUME NEW j \in Jobs, CallBroker(j) PROVE Next
    BY <1>7 DEF CallBroker, Next, AskStep
  <1>8. ASSUME NEW j \in Jobs, ContinueCall(j) PROVE Next
    BY <1>8 DEF ContinueCall, Next, AskStep, ClientStep
  <1>9. ASSUME NEW j \in Jobs, Finalize(j) \/ Resume(j) PROVE UNCHANGED vars
    BY <1>9 DEF Finalize, Resume, brokerVars
  <1>10. CASE ProbeArrives \/ ProbeTurn \/ ProbeReturns
    BY <1>10 DEF ProbeArrives, ProbeTurn, ProbeReturns, brokerVars
  <1>11. CASE ContinueAuthorization
    BY <1>11 DEF ContinueAuthorization, Next, AuthStep, ClientStep
  <1>12. CASE Elsewhere
    BY <1>12 DEF Elsewhere, Next
  <1>13. CASE UNCHANGED askVars
    BY <1>13 DEF askVars, brokerVars
  <1> QED
    BY <1>1, <1>2, <1>3, <1>4, <1>5, <1>6, <1>7, <1>8, <1>9, <1>10, <1>11, <1>12, <1>13
    DEF AskNext, UserStep, LoopTurn

\* The service implements the token broker's specification.
THEOREM BrokerInside == AskSpec => Spec
  <1>1. AskInit => Init
    BY DEF AskInit
  <1> QED
    BY <1>1, StepRefinesBroker, PTL DEF AskSpec, Spec

\* Inside the service, too, a stored refresh token is dead only after a
\* revocation, with its successor in hand, or with its successor lost; and
\* no save goes back in the rotation chain.
THEOREM DeadTokenExplainedInside == AskSpec => []DeadTokenExplained
  BY BrokerInside, DeadTokenExplainedHolds, PTL

-----------------------------------------------------------------------------
(* The event loop *)

NoDuplicates ==
    \A i, k \in 1..Len(ready) : ready[i] = ready[k] => i = k

\* A question that called the broker since the probe came is behind it, unless
\* its call goes on.
ProbeOrder ==
    /\ ~Waiting(Probe) => passed = {}
    /\ \A i, k \in 1..Len(ready) :
          ready[i] \in passed /\ ready[k] = Probe =>
             k < i \/ (i = 1 /\ pc[Loop] # "idle")

LoopInv == AskTypeOK /\ NoDuplicates /\ ProbeOrder

LEMMA EnqueueKeepsOrder ==
    ASSUME LoopInv, NEW x \in Jobs \cup {Probe}, ~Waiting(x),
           ready' = Append(ready, x), passed' = passed, pc' = pc
    PROVE  /\ ready' \in Seq(Jobs \cup {Probe}) /\ NoDuplicates' /\ ProbeOrder'
           /\ ready # <<>> => ready' # <<>> /\ ready'[1] = ready[1]
           /\ \A y : Waiting(y)' <=> Waiting(y) \/ y = x
  <1>1. /\ ready \in Seq(Jobs \cup {Probe}) /\ Len(ready) \in Nat
        /\ ready' \in Seq(Jobs \cup {Probe}) /\ Len(ready') = Len(ready) + 1
        /\ \A i \in 1..Len(ready) : ready'[i] = ready[i]
        /\ ready'[Len(ready) + 1] = x
    BY DEF LoopInv, AskTypeOK
  <1>2. \A i \in 1..Len(ready') : i \in 1..Len(ready) \/ i = Len(ready) + 1
    BY <1>1
  <1>3. \A y : Waiting(y)' <=> Waiting(y) \/ y = x
    BY <1>1, <1>2 DEF Waiting
  <1>4. NoDuplicates'
    BY <1>1, <1>2 DEF LoopInv, NoDuplicates, Waiting
  <1>5. ASSUME NEW i \in 1..Len(ready'), NEW k \in 1..Len(ready'),
               ready'[i] \in passed', ready'[k] = Probe
        PROVE  k < i \/ (i = 1 /\ pc'[Loop] # "idle")
    <2>1. CASE x = Probe
      BY <2>1, <1>5 DEF LoopInv, ProbeOrder
    <2>2. CASE x # Probe
      <3>1. k \in 1..Len(ready)
        BY <2>2, <1>1, <1>2, <1>5
      <3> QED
        BY <3>1, <1>1, <1>2, <1>5 DEF LoopInv, ProbeOrder
    <2> QED
      BY <2>1, <2>2
  <1>6. ~Waiting(Probe)' => passed' = {}
    BY <1>3 DEF LoopInv, ProbeOrder
  <1>7. ready # <<>> => ready' # <<>> /\ ready'[1] = ready[1]
    BY <1>1
  <1> QED
    BY <1>1, <1>3, <1>4, <1>5, <1>6, <1>7 DEF ProbeOrder

LEMMA DequeueKeepsOrder ==
    ASSUME LoopInv, ready # <<>>, ready' = Tail(ready), pc'[Loop] = "idle",
           \/ passed' = {}
           \/ /\ ready[1] # Probe
              /\ passed' \subseteq passed \cup {ready[1]}
              /\ ~Waiting(Probe) => passed' = passed
    PROVE  /\ ready' \in Seq(Jobs \cup {Probe}) /\ NoDuplicates' /\ ProbeOrder'
           /\ \A y : Waiting(y)' <=> Waiting(y) /\ y # ready[1]
  <1>1. /\ ready \in Seq(Jobs \cup {Probe}) /\ Len(ready) \in Nat \ {0}
        /\ ready' \in Seq(Jobs \cup {Probe}) /\ Len(ready') = Len(ready) - 1
        /\ \A i \in 1..Len(ready') : ready'[i] = ready[i + 1]
    BY DEF LoopInv, AskTypeOK
  <1>2. \A i \in 1..Len(ready') : i + 1 \in 1..Len(ready) /\ ready'[i] # ready[1]
    BY <1>1 DEF LoopInv, NoDuplicates
  <1>3. \A i \in 1..Len(ready) : i = 1 \/ (i - 1 \in 1..Len(ready') /\ ready'[i - 1] = ready[i])
    BY <1>1
  <1>4. \A y : Waiting(y)' <=> Waiting(y) /\ y # ready[1]
    BY <1>1, <1>2, <1>3 DEF Waiting
  <1>5. NoDuplicates'
    BY <1>1, <1>2 DEF LoopInv, NoDuplicates
  <1>6. ASSUME NEW i \in 1..Len(ready'), NEW k \in 1..Len(ready'),
               ready'[i] \in passed', ready'[k] = Probe
        PROVE  k < i
    <2>1. /\ i + 1 \in 1..Len(ready) /\ k + 1 \in 1..Len(ready)
          /\ ready[i + 1] \in passed /\ ready[k + 1] = Probe
      BY <1>1, <1>2, <1>6
    <2>2. k + 1 < i + 1 \/ i + 1 = 1
      BY <2>1 DEF LoopInv, ProbeOrder
    <2> QED
      BY <1>1, <2>1, <2>2
  <1>7. ~Waiting(Probe)' => passed' = {}
    BY <1>4 DEF LoopInv, ProbeOrder
  <1> QED
    BY <1>1, <1>4, <1>5, <1>6, <1>7 DEF ProbeOrder

\* A step that leaves the loop alone.
LEMMA QuietKeepsLoopInv ==
    ASSUME LoopInv, UNCHANGED <<ready, passed>>, pc'[Loop] = pc[Loop],
           service' \in {"up", "down"}, env' \in Environments,
           foreign' \in BOOLEAN, calm' \in BOOLEAN, turn' = turn,
           job' \in [Jobs -> Job], page' \in [Pages -> Shown],
           \A j \in Jobs : job'[j].stage = job[j].stage
    PROVE  LoopInv'
  BY DEF LoopInv, AskTypeOK, NoDuplicates, ProbeOrder, Waiting

LEMMA AdviceIsShown ==
    ASSUME NEW error
    PROVE  Advice(error) \in Shown
  BY DEF Advice, Shown

LEMMA EndShape ==
    ASSUME LoopInv, NEW j \in Jobs, NEW outcome \in Shown, End(j, outcome)
    PROVE  /\ ready' = Tail(ready)
           /\ job' \in [Jobs -> Job]
           /\ \A i \in Jobs : job'[i].stage = IF i = j THEN "free" ELSE job[i].stage
           /\ page' \in [Pages -> Shown]
  BY DEF End, LoopInv, AskTypeOK, Job, Free

\* What a broker call leaves behind when it ends, and while it goes on.
LEMMA SettleShape ==
    ASSUME LoopInv, TypeOK, NEW j \in Jobs, Settle(j),
           answer' = "served" => held[Loop] # NoTokens
    PROVE  \/ pc'[Loop] # "idle" /\ UNCHANGED <<ready, job, page>>
           \/ /\ pc'[Loop] = "idle" /\ ready' = Tail(ready)
              /\ job' \in [Jobs -> Job] /\ page' \in [Pages -> Shown]
              /\ \A i \in Jobs \ {j} : job'[i].stage = job[i].stage
              /\ job'[j].stage \in {"free", "awaiting"}
  <1>1. CASE pc'[Loop] # "idle"
    BY <1>1 DEF Settle
  <1>2. CASE pc'[Loop] = "idle" /\ answer' = "served"
    <2>1. Await(j)
      BY <1>2 DEF Settle
    <2>2. held[Loop].refresh.grant \in Nat
      BY <1>2, ServerThreads DEF TypeOK, StoredTokens, RefreshToken
    <2>3. job[j] \in Job
      BY DEF LoopInv, AskTypeOK
    <2> QED
      BY <1>2, <2>1, <2>2, <2>3 DEF Await, LoopInv, AskTypeOK, Job
  <1>3. CASE pc'[Loop] = "idle" /\ answer' # "served"
    BY <1>3, EndShape, AdviceIsShown DEF Settle
  <1> QED
    BY <1>1, <1>2, <1>3

\* A broker call begins, goes on or ends.
LEMMA CallKeepsLoopInv ==
    ASSUME LoopInv, TypeOK, NEW j \in Jobs, AtLoop(j), Settle(j),
           answer' = "served" => held[Loop] # NoTokens,
           UNCHANGED <<service, env, turn, calm>>, foreign' \in BOOLEAN,
           \/ passed' = passed
           \/ passed' = passed \cup {j} /\ Waiting(Probe) /\ pc[Loop] = "idle"
    PROVE  LoopInv'
  <1>1. /\ ready # <<>> /\ ready[1] = j /\ j # Probe
        /\ ready \in Seq(Jobs \cup {Probe}) /\ 1 \in 1..Len(ready)
        /\ Waiting(j) /\ passed' \subseteq Jobs
    BY NamesAssumption DEF AtLoop, LoopInv, AskTypeOK, Waiting
  <1>2. CASE pc'[Loop] # "idle" /\ UNCHANGED <<ready, job, page>>
    <2>1. ProbeOrder'
      BY <1>1, <1>2 DEF LoopInv, ProbeOrder, NoDuplicates, Waiting
    <2> QED
      BY <1>1, <1>2, <2>1 DEF LoopInv, AskTypeOK, NoDuplicates, Waiting
  <1>3. CASE /\ pc'[Loop] = "idle" /\ ready' = Tail(ready)
             /\ job' \in [Jobs -> Job] /\ page' \in [Pages -> Shown]
             /\ \A i \in Jobs \ {j} : job'[i].stage = job[i].stage
             /\ job'[j].stage \in {"free", "awaiting"}
    <2>1. /\ ready' \in Seq(Jobs \cup {Probe}) /\ NoDuplicates' /\ ProbeOrder'
          /\ \A y : Waiting(y)' <=> Waiting(y) /\ y # ready[1]
      BY <1>1, <1>3, DequeueKeepsOrder
    <2>2. AskTypeOK'
      BY <1>1, <1>3, <2>1 DEF LoopInv, AskTypeOK
    <2> QED
      BY <2>1, <2>2 DEF LoopInv
  <1> QED
    BY <1>2, <1>3, SettleShape

\* A step that changes the broker's part of the state by its callback thread,
\* the clock or the authorization server.
LEMMA OthersLeaveLoop ==
    ASSUME TypeOK,
           \/ StartExchange(Callback) \/ GrantExchange(Callback)
           \/ RejectExchange(Callback) \/ LoseResponse(Callback)
           \/ Receive(Callback) \/ Save(Callback) \/ SaveFails(Callback)
           \/ Tick \/ (\E r \in abandoned : GrantAbandoned(r))
           \/ (\E g \in (1..grants) \ revoked : Revoke(g))
    PROVE  pc'[Loop] = pc[Loop]
  BY ServerThreads
  DEF StartExchange, GrantExchange, RejectExchange, LoseResponse, Receive, Save,
      SaveFails, Tick, GrantAbandoned, Revoke, Goto, Finish, TypeOK

LEMMA LoopStep ==
    ASSUME LoopInv, TypeOK, [AskNext]_askVars
    PROVE  LoopInv'
  <1> USE NamesAssumption
  <1>1. ASSUME NEW e \in Environments, Start(e) PROVE LoopInv'
    <2>1. foreign' \in BOOLEAN
      BY <1>1 DEF Start
    <2> QED
      BY <1>1, <2>1, QuietKeepsLoopInv DEF Start, LoopInv, AskTypeOK, brokerVars, vars, clientVars
  <1>2. CASE Stop
    <2>1. pc'[Loop] = "idle"
      BY <1>2, ServerThreads, ServerAssumption
      DEF Stop, Crash, Loop, brokerVars, vars, clientVars
    <2>2. turn' \in 0..ProbeTurns /\ foreign' \in BOOLEAN
      BY <1>2, TurnsAssumption DEF Stop, LoopInv, AskTypeOK
    <2> QED
      BY <1>2, <2>1, <2>2
      DEF Stop, LoopInv, AskTypeOK, NoDuplicates, ProbeOrder, Waiting, Shown, Job, Free
  <1>3. CASE BeCalm
    BY <1>3, QuietKeepsLoopInv DEF BeCalm, LoopInv, AskTypeOK, brokerVars, vars, clientVars
  <1>4. ASSUME NEW u \in Pages, Authorize(u) PROVE LoopInv'
    BY <1>4, OthersLeaveLoop, QuietKeepsLoopInv DEF Authorize, LoopInv, AskTypeOK, Shown
  <1>5. ASSUME NEW u \in Pages, NEW j \in Jobs, Ask(u, j) PROVE LoopInv'
    <2>1. /\ job' = [job EXCEPT ![j] = [stage |-> "new", asker |-> u,
                                        grant |-> 0, rounds |-> 0]]
          /\ job[j].stage = "free" /\ ready' = Append(ready, j)
          /\ page' = [page EXCEPT ![u] = "waiting"]
          /\ UNCHANGED <<service, env, foreign, turn, passed, calm, pc>>
      BY <1>5 DEF Ask, brokerVars, vars, clientVars
    <2>2. ~Waiting(j)
      BY <2>1 DEF LoopInv, AskTypeOK
    <2>3. /\ ready' \in Seq(Jobs \cup {Probe}) /\ NoDuplicates' /\ ProbeOrder'
          /\ ready # <<>> => ready' # <<>> /\ ready'[1] = ready[1]
          /\ \A y : Waiting(y)' <=> Waiting(y) \/ y = j
      BY <2>1, <2>2, EnqueueKeepsOrder
    <2>4. AskTypeOK'
      BY <2>1, <2>3 DEF LoopInv, AskTypeOK, Job, Shown
    <2> QED
      BY <2>3, <2>4 DEF LoopInv
  <1>6. ASSUME NEW u \in Pages, AskInVain(u) \/ AuthorizeInVain(u) PROVE LoopInv'
    BY <1>6, QuietKeepsLoopInv
    DEF AskInVain, AuthorizeInVain, LoopInv, AskTypeOK, Shown, brokerVars, vars, clientVars
  <1>7. ASSUME NEW u \in Pages, GiveUp(u) PROVE LoopInv'
    <2>1. job' \in [Jobs -> Job] /\ \A j \in Jobs : job'[j].stage = job[j].stage
      BY <1>7 DEF GiveUp, LoopInv, AskTypeOK, Job
    <2> QED
      BY <1>7, <2>1, QuietKeepsLoopInv
      DEF GiveUp, LoopInv, AskTypeOK, Shown, brokerVars, vars, clientVars
  <1>8. ASSUME NEW j \in Jobs, CallBroker(j) PROVE LoopInv'
    <2>1. pc[Loop] = "idle" /\ answer' # "served"
      BY <1>8 DEF CallBroker, Load, LoadNothing, LoadFails, Goto, Finish
    <2> QED
      BY <1>8, <2>1, CallKeepsLoopInv DEF CallBroker, LoopInv, AskTypeOK
  <1>9. ASSUME NEW j \in Jobs, ContinueCall(j) PROVE LoopInv'
    <2>1. answer' = "served" => held[Loop] # NoTokens
      BY <1>9, ServerThreads
      DEF ContinueCall, UseStored, StartRefresh, Receive, Save, GrantRefresh,
          RejectRefresh, LoseResponse, SaveFails, Goto, Finish, TypeOK
    <2> QED
      BY <1>9, <2>1, CallKeepsLoopInv DEF ContinueCall, Reencrypt
  <1>10. ASSUME NEW j \in Jobs, Finalize(j) PROVE LoopInv'
    <2>1. PICK outcome \in Shown : End(j, outcome)
      BY <1>10, AdviceIsShown DEF Finalize, Shown
    <2>2. /\ ready # <<>> /\ ready[1] = j /\ pc'[Loop] = "idle"
          /\ UNCHANGED <<service, env, foreign, turn, passed, calm>>
      BY <1>10 DEF Finalize, AtLoop, brokerVars, vars, clientVars
    <2>3. /\ ready' = Tail(ready)
          /\ job' \in [Jobs -> Job]
          /\ \A i \in Jobs : job'[i].stage = IF i = j THEN "free" ELSE job[i].stage
          /\ page' \in [Pages -> Shown]
      BY <2>1, EndShape
    <2>4. /\ ready' \in Seq(Jobs \cup {Probe}) /\ NoDuplicates' /\ ProbeOrder'
          /\ \A y : Waiting(y)' <=> Waiting(y) /\ y # ready[1]
      BY <2>2, <2>3, DequeueKeepsOrder
    <2>5. AskTypeOK'
      BY <2>2, <2>3, <2>4 DEF LoopInv, AskTypeOK
    <2> QED
      BY <2>4, <2>5 DEF LoopInv
  <1>11. ASSUME NEW j \in Jobs, Resume(j) PROVE LoopInv'
    <2>1. /\ job[j].stage = "awaiting" /\ job' = [job EXCEPT ![j].stage = "resumed"]
          /\ ready' = Append(ready, j)
          /\ UNCHANGED <<service, env, foreign, page, turn, passed, calm, pc>>
      BY <1>11 DEF Resume, brokerVars, vars, clientVars
    <2>2. ~Waiting(j)
      BY <2>1 DEF LoopInv, AskTypeOK
    <2>3. /\ ready' \in Seq(Jobs \cup {Probe}) /\ NoDuplicates' /\ ProbeOrder'
          /\ ready # <<>> => ready' # <<>> /\ ready'[1] = ready[1]
          /\ \A y : Waiting(y)' <=> Waiting(y) \/ y = j
      BY <2>1, <2>2, EnqueueKeepsOrder
    <2>4. /\ job' \in [Jobs -> Job]
          /\ \A i \in Jobs : job'[i].stage = IF i = j THEN "resumed" ELSE job[i].stage
      BY <2>1 DEF LoopInv, AskTypeOK, Job
    <2>5. AskTypeOK'
      BY <2>1, <2>3, <2>4 DEF LoopInv, AskTypeOK
    <2> QED
      BY <2>3, <2>5 DEF LoopInv
  <1>12. CASE ProbeArrives \/ ProbeReturns
    <2>1. /\ ~Waiting(Probe) /\ ready' = Append(ready, Probe)
          /\ turn' \in 0..ProbeTurns /\ turn' > 0
          /\ UNCHANGED <<service, env, foreign, job, page, passed, calm, pc>>
      BY <1>12, TurnsAssumption
      DEF ProbeArrives, ProbeReturns, LoopInv, AskTypeOK, brokerVars, vars, clientVars
    <2>2. /\ ready' \in Seq(Jobs \cup {Probe}) /\ NoDuplicates' /\ ProbeOrder'
          /\ ready # <<>> => ready' # <<>> /\ ready'[1] = ready[1]
          /\ \A y : Waiting(y)' <=> Waiting(y) \/ y = Probe
      BY <2>1, EnqueueKeepsOrder
    <2>3. AskTypeOK'
      BY <2>1, <2>2 DEF LoopInv, AskTypeOK
    <2> QED
      BY <2>2, <2>3 DEF LoopInv
  <1>13. CASE ProbeTurn
    <2>1. /\ ready # <<>> /\ ready[1] = Probe /\ ready' = Tail(ready) /\ passed' = {}
          /\ turn' \in 0..ProbeTurns
          /\ UNCHANGED <<service, env, foreign, job, page, calm, pc>>
      BY <1>13, TurnsAssumption
      DEF ProbeTurn, LoopInv, AskTypeOK, brokerVars, vars, clientVars
    <2>2. pc'[Loop] = "idle"
      BY <2>1 DEF LoopInv, AskTypeOK
    <2>3. /\ ready' \in Seq(Jobs \cup {Probe}) /\ NoDuplicates' /\ ProbeOrder'
          /\ \A y : Waiting(y)' <=> Waiting(y) /\ y # ready[1]
      BY <2>1, <2>2, DequeueKeepsOrder
    <2>4. AskTypeOK'
      BY <2>1, <2>2, <2>3 DEF LoopInv, AskTypeOK
    <2> QED
      BY <2>3, <2>4 DEF LoopInv
  <1>14. CASE ContinueAuthorization
    <2>1. pc'[Loop] = pc[Loop]
      BY <1>14, OthersLeaveLoop DEF ContinueAuthorization
    <2>2. page' \in [Pages -> Shown]
      BY <1>14 DEF ContinueAuthorization, LoopInv, AskTypeOK, Shown
    <2> QED
      BY <1>14, <2>1, <2>2, QuietKeepsLoopInv
      DEF ContinueAuthorization, Reencrypt, LoopInv, AskTypeOK
  <1>15. CASE Elsewhere
    <2>1. pc'[Loop] = pc[Loop]
      BY <1>15, OthersLeaveLoop DEF Elsewhere
    <2> QED
      BY <1>15, <2>1, QuietKeepsLoopInv DEF Elsewhere, serviceVars, LoopInv, AskTypeOK
  <1>16. CASE UNCHANGED askVars
    BY <1>16, QuietKeepsLoopInv
    DEF askVars, serviceVars, brokerVars, vars, clientVars, LoopInv, AskTypeOK
  <1> QED
    BY <1>1, <1>2, <1>3, <1>4, <1>5, <1>6, <1>7, <1>8, <1>9, <1>10, <1>11, <1>12,
       <1>13, <1>14, <1>15, <1>16
    DEF AskNext, UserStep, LoopTurn

LEMMA LoopInvHolds == AskSpec => [](LoopInv /\ TypeOK)
  <1>1. ASSUME AskInit PROVE LoopInv
    <2>1. /\ pc[Loop] = "idle" /\ ready = <<>> /\ passed = {} /\ turn = 0
          /\ service = "down" /\ env \in Environments
          /\ foreign = FALSE /\ calm = FALSE
          /\ job = [j \in Jobs |-> Free] /\ page = [u \in Pages |-> "blank"]
      BY <1>1, ServerThreads DEF AskInit, Init
    <2>2. \A y : ~Waiting(y)
      BY <2>1 DEF Waiting
    <2>3. NoDuplicates /\ ProbeOrder
      BY <2>1 DEF NoDuplicates, ProbeOrder
    <2>4. Free \in Job /\ Free.stage = "free" /\ "blank" \in Shown
      BY DEF Free, Job, Shown
    <2>5. ready \in Seq(Jobs \cup {Probe})
      BY <2>1
    <2>6. job \in [Jobs -> Job] /\ \A j \in Jobs : job[j].stage = "free"
      BY <2>1, <2>4
    <2>7. page \in [Pages -> Shown]
      BY <2>1, <2>4
    <2>8. /\ turn \in 0..ProbeTurns
          /\ foreign \in BOOLEAN /\ calm \in BOOLEAN
      <3>1. turn \in 0..ProbeTurns
        BY <2>1, TurnsAssumption
      <3> QED
        BY <2>1, <3>1
    <2>9. AskTypeOK
      BY <2>1, <2>2, <2>5, <2>6, <2>7, <2>8 DEF AskTypeOK
    <2> QED
      BY <2>3, <2>9 DEF LoopInv
  <1> QED
    BY <1>1, LoopStep, BrokerInside, TypeCorrect, PTL DEF AskSpec

\* Type correctness of the service: in particular a broker call is under way
\* only for the question whose turn it is, and the loop has exactly those
\* questions to go on with that wait for nothing else.
THEOREM AskTypeCorrect == AskSpec => []AskTypeOK
  BY LoopInvHolds, PTL DEF LoopInv

\* However many turns on the loop a health check takes, in none of them does a
\* question make it wait for a second broker call.
THEOREM NobodyOvertakesTwiceHolds == AskSpec => NobodyOvertakesTwice
  <1>1. ASSUME LoopInv, NEW j \in Jobs, Waiting(Probe), CallBroker(j), j \in passed
        PROVE  FALSE
    <2>1. ready[1] = j /\ pc[Loop] = "idle"
      BY <1>1 DEF CallBroker, AtLoop, Load, LoadNothing, LoadFails
    <2>2. PICK k \in 1..Len(ready) : ready[k] = Probe
      BY <1>1 DEF Waiting
    <2>3. 1 \in 1..Len(ready)
      BY <2>2
    <2> QED
      BY <1>1, <2>1, <2>2, <2>3 DEF LoopInv, ProbeOrder
  <1>2. LoopInv => \A j \in Jobs : Waiting(Probe) /\ CallBroker(j) => j \notin passed
    BY <1>1
  <1> QED
    BY <1>2, LoopInvHolds, PTL DEF NobodyOvertakesTwice

-----------------------------------------------------------------------------
(* The cure lasts *)

\* In calm times the service is up.
CalmIsUp == calm => service = "up"

LEMMA CalmIsUpInductive ==
    /\ AskInit => CalmIsUp
    /\ CalmIsUp /\ [AskNext]_askVars => CalmIsUp'
  <1>1. AskInit => CalmIsUp
    BY DEF AskInit, CalmIsUp
  <1>2. ASSUME CalmIsUp, [AskNext]_askVars PROVE CalmIsUp'
    <2>1. ASSUME UNCHANGED <<service, env, calm>> PROVE CalmIsUp'
      BY <1>2, <2>1 DEF CalmIsUp
    <2>2. ASSUME NEW e \in Environments, Start(e) PROVE CalmIsUp'
      BY <2>2 DEF Start, CalmIsUp
    <2>3. CASE Stop
      BY <2>3 DEF Stop, CalmIsUp
    <2>4. CASE BeCalm
      BY <2>4 DEF BeCalm, CalmIsUp
    <2> QED
      BY <1>2, <2>1, <2>2, <2>3, <2>4
      DEF AskNext, UserStep, Authorize, AuthorizeInVain, Ask, AskInVain, GiveUp,
          LoopTurn, CallBroker, ContinueCall, Finalize, Resume, ProbeArrives,
          ProbeTurn, ProbeReturns, ContinueAuthorization, Elsewhere, serviceVars,
          askVars
  <1> QED
    BY <1>1, <1>2

\* The threads of the one process.
LEMMA TwoThreads == Threads = {Loop, Callback}
  BY ServerAssumption DEF Threads, AskThreads, AuthThreads, Loop, Callback

\* What a thread carries of an authorization that is not revoked is accepted.
LEMMA CarriedIsLive ==
    ASSUME TypeOK, Chain, HealthyRecord, NEW t \in Threads, Carries(t)
    PROVE  held[t] # NoTokens /\ held[t].refresh \in live
  BY KnownTypes DEF Chain, HealthyRecord

\* The loop's part of a call, with nothing failing, leaves the record healthy
\* and ends, when it ends, with a token of an authorization that is not revoked.
LEMMA HealthyCall ==
    ASSUME TypeOK, Chain, HealthyRecord,
           \/ Load(Loop) \/ LoadNothing(Loop) \/ UseStored(Loop) \/ StartRefresh(Loop)
           \/ Receive(Loop) \/ Save(Loop) \/ GrantRefresh(Loop) \/ RejectRefresh(Loop)
    PROVE  /\ HealthyRecord' /\ UNCHANGED revoked
           /\ pc'[Loop] = "idle" => /\ answer' = "served" /\ held[Loop] # NoTokens
                                    /\ held[Loop].refresh.grant \notin revoked
  <1> USE ServerThreads, TwoThreads
  <1>1. CASE Load(Loop)
    <2>1. stored.refresh \in live
      BY <1>1 DEF Load, HealthyRecord, Carries
    <2> QED
      BY <1>1, <2>1 DEF Load, Goto, HealthyRecord, Carries, TypeOK, serverVars
  <1>2. CASE LoadNothing(Loop)
    BY <1>2 DEF LoadNothing, HealthyRecord
  <1>3. CASE UseStored(Loop)
    BY <1>3 DEF UseStored, Finish, HealthyRecord, Carries, TypeOK, serverVars
  <1>4. CASE StartRefresh(Loop)
    BY <1>4 DEF StartRefresh, Goto, HealthyRecord, Carries, TypeOK, serverVars
  <1>5. CASE GrantRefresh(Loop)
    <2>1. held[Loop] # NoTokens /\ held[Loop].refresh \in RefreshToken
      BY <1>5, KnownTypes DEF GrantRefresh, TypeOK
    <2>2. held'[Loop].refresh.grant = held[Loop].refresh.grant /\ held'[Callback] = held[Callback]
      BY <1>5, <2>1, SuccessorType DEF GrantRefresh, Issue, TypeOK
    <2> QED
      BY <1>5, <2>1, <2>2 DEF GrantRefresh, Goto, HealthyRecord, Carries, TypeOK
  <1>6. CASE RejectRefresh(Loop)
    BY <1>6 DEF RejectRefresh, HealthyRecord
  <1>7. CASE Receive(Loop)
    <2>1. held[Loop] \in StoredTokens
      BY <1>7 DEF Receive, TypeOK
    <2>2. held'[Loop].refresh = held[Loop].refresh /\ held'[Callback] = held[Callback]
      BY <1>7, <2>1 DEF Receive, StoredTokens, TypeOK
    <2> QED
      BY <1>7, <2>1, <2>2, NoTokensAssumption
      DEF Receive, Goto, HealthyRecord, Carries, TypeOK, serverVars
  <1>8. CASE Save(Loop)
    <2>1. held[Loop] # NoTokens /\ held[Loop].refresh \in live
      BY <1>8, CarriedIsLive DEF Save, Carries
    <2> QED
      BY <1>8, <2>1 DEF Save, Finish, Success, HealthyRecord, Carries, TypeOK, serverVars
  <1> QED
    BY <1>1, <1>2, <1>3, <1>4, <1>5, <1>6, <1>7, <1>8

\* Nor does a re-authorization beside it, with nothing failing, do any harm: it
\* brings and saves an authorization that is new.
LEMMA HealthyAuthorization ==
    ASSUME TypeOK, Chain, HealthyRecord,
           \/ StartExchange(Callback) \/ GrantExchange(Callback)
           \/ Receive(Callback) \/ Save(Callback)
    PROVE  HealthyRecord' /\ UNCHANGED revoked
  <1> USE ServerThreads, TwoThreads
  <1>1. CASE StartExchange(Callback)
    BY <1>1 DEF StartExchange, Goto, HealthyRecord, Carries, TypeOK, serverVars
  <1>2. CASE GrantExchange(Callback)
    <2>1. grants + 1 \notin revoked
      BY DEF Chain, TypeOK
    <2>2. held'[Callback].refresh.grant = grants + 1 /\ held'[Loop] = held[Loop]
      BY <1>2 DEF GrantExchange, Issue, TypeOK
    <2> QED
      BY <1>2, <2>1, <2>2 DEF GrantExchange, Goto, HealthyRecord, Carries, TypeOK
  <1>3. CASE Receive(Callback)
    <2>1. held[Callback] \in StoredTokens
      BY <1>3 DEF Receive, TypeOK
    <2>2. held'[Callback].refresh = held[Callback].refresh /\ held'[Loop] = held[Loop]
      BY <1>3, <2>1 DEF Receive, StoredTokens, TypeOK
    <2> QED
      BY <1>3, <2>1, <2>2, NoTokensAssumption
      DEF Receive, Goto, HealthyRecord, Carries, TypeOK, serverVars
  <1>4. CASE Save(Callback)
    <2>1. held[Callback] # NoTokens /\ held[Callback].refresh \in live
      BY <1>4, CarriedIsLive DEF Save, Carries
    <2> QED
      BY <1>4, <2>1 DEF Save, Finish, HealthyRecord, Carries, TypeOK, serverVars
  <1> QED
    BY <1>1, <1>2, <1>3, <1>4

\* No page is told of an error by this step.
NoNewError ==
    \A u \in Pages :
        page'[u] \in {"reauthorize", "retry", "failed"} => page'[u] = page[u]

\* In calm times the environment stays, and so does the key of the record.
LEMMA CurableStep ==
    ASSUME CalmIsUp, calm, Curable, [AskNext]_askVars
    PROVE  Curable'
  <1>1. service = "up" /\ ~foreign
    BY DEF CalmIsUp, Curable, Readable
  <1>2. ASSUME env' = env, foreign' = foreign \/ Reencrypt PROVE Curable'
    <2>1. ~foreign'
      BY <1>1, <1>2 DEF Reencrypt
    <2> QED
      BY <1>2, <2>1 DEF Curable, Readable, KeyConfigured, AuthorizationConfigured
  <1>3. \A e \in Environments : ~Start(e)
    BY <1>1 DEF Start
  <1>4. ASSUME Stop \/ BeCalm \/ ProbeArrives \/ ProbeTurn \/ ProbeReturns
        PROVE  env' = env /\ foreign' = foreign
    BY <1>4 DEF Stop, BeCalm, ProbeArrives, ProbeTurn, ProbeReturns
  <1>5. ASSUME NEW u \in Pages, AskInVain(u) \/ GiveUp(u) \/ UserStep(u)
        PROVE  env' = env /\ foreign' = foreign
    BY <1>5 DEF AskInVain, GiveUp, UserStep, Authorize, AuthorizeInVain, Ask
  <1>6. ASSUME NEW j \in Jobs, CallBroker(j) \/ Finalize(j) \/ Resume(j)
        PROVE  env' = env /\ foreign' = foreign
    BY <1>6 DEF CallBroker, Finalize, Resume
  <1>7. ASSUME NEW j \in Jobs, ContinueCall(j)
        PROVE  env' = env /\ Reencrypt
    BY <1>7 DEF ContinueCall
  <1>8. CASE ContinueAuthorization
    BY <1>2, <1>8 DEF ContinueAuthorization
  <1>9. ASSUME Elsewhere \/ UNCHANGED askVars PROVE env' = env /\ foreign' = foreign
    BY <1>9 DEF Elsewhere, askVars, serviceVars
  <1> QED
    BY <1>2, <1>3, <1>4, <1>5, <1>6, <1>7, <1>8, <1>9 DEF AskNext, LoopTurn

LEMMA CureStep ==
    ASSUME LoopInv, TypeOK, Chain, CalmIsUp, calm, Curable, HealthyRecord,
           HealthySessions, [AskNext]_askVars
    PROVE  HealthyRecord' /\ HealthySessions' /\ NoNewError
  <1>0. /\ job \in [Jobs -> Job] /\ page \in [Pages -> Shown]
        /\ service = "up" /\ Readable
        /\ KeyConfigured(env) /\ AuthorizationConfigured(env)
    BY DEF LoopInv, AskTypeOK, CalmIsUp, Curable
  <1>1. ASSUME UNCHANGED vars PROVE HealthyRecord' /\ UNCHANGED revoked
    BY <1>1 DEF vars, serverVars, clientVars, HealthyRecord, Carries
  <1>2. ASSUME UNCHANGED <<revoked, job>> PROVE HealthySessions'
    BY <1>2 DEF HealthySessions, SessionAccepted
  <1>3. ASSUME NEW j \in Jobs, NEW outcome \in {"answer"}, End(j, outcome),
               UNCHANGED revoked
        PROVE  HealthySessions' /\ NoNewError
    BY <1>0, <1>3 DEF End, HealthySessions, SessionAccepted, NoNewError, Free
  <1>4. ASSUME NEW j \in Jobs, CallBroker(j) \/ ContinueCall(j)
        PROVE  HealthyRecord' /\ HealthySessions' /\ NoNewError
    <2>1. /\ \/ Load(Loop) \/ LoadNothing(Loop) \/ UseStored(Loop) \/ StartRefresh(Loop)
             \/ Receive(Loop) \/ Save(Loop) \/ GrantRefresh(Loop) \/ RejectRefresh(Loop)
          /\ Settle(j)
      BY <1>0, <1>4 DEF CallBroker, ContinueCall
    <2>2. /\ HealthyRecord' /\ UNCHANGED revoked
          /\ pc'[Loop] = "idle" => /\ answer' = "served" /\ held[Loop] # NoTokens
                                   /\ held[Loop].refresh.grant \notin revoked
      BY <2>1, HealthyCall
    <2>3. CASE pc'[Loop] # "idle"
      BY <1>2, <2>1, <2>2, <2>3 DEF Settle, NoNewError
    <2>4. CASE pc'[Loop] = "idle"
      <3>1. Await(j)
        BY <2>1, <2>2, <2>4 DEF Settle
      <3>2. job'[j].grant \notin revoked /\ \A i \in Jobs \ {j} : job'[i] = job[i]
        BY <1>0, <2>2, <2>4, <3>1 DEF Await
      <3> QED
        BY <2>2, <3>1, <3>2 DEF Await, HealthySessions, SessionAccepted, NoNewError
    <2> QED
      BY <2>3, <2>4
  <1>5. ASSUME NEW j \in Jobs, Finalize(j)
        PROVE  HealthyRecord' /\ HealthySessions' /\ NoNewError
    <2>1. SessionAccepted(j)
      BY <1>5 DEF Finalize, HealthySessions
    <2> QED
      BY <1>1, <1>3, <1>5, <2>1 DEF Finalize, brokerVars
  <1>6. ASSUME NEW j \in Jobs, Resume(j)
        PROVE  HealthyRecord' /\ HealthySessions' /\ NoNewError
    <2>1. \A i \in Jobs : job'[i].grant = job[i].grant
                           /\ (i # j => job'[i].stage = job[i].stage)
      BY <1>0, <1>6 DEF Resume, Job
    <2> QED
      BY <1>1, <1>6, <2>1 DEF Resume, brokerVars, HealthySessions, SessionAccepted, NoNewError
  <1>7. ASSUME NEW u \in Pages, NEW j \in Jobs, Ask(u, j)
        PROVE  HealthyRecord' /\ HealthySessions' /\ NoNewError
    <2>1. /\ \A i \in Jobs : IF i = j THEN job'[i].stage = "new" ELSE job'[i] = job[i]
          /\ \A v \in Pages : page'[v] = IF v = u THEN "waiting" ELSE page[v]
      BY <1>0, <1>7 DEF Ask
    <2> QED
      BY <1>1, <1>7, <2>1 DEF Ask, brokerVars, HealthySessions, SessionAccepted, NoNewError
  <1>8. ASSUME NEW u \in Pages, Authorize(u)
        PROVE  HealthyRecord' /\ HealthySessions' /\ NoNewError
    BY <1>0, <1>2, <1>8, HealthyAuthorization DEF Authorize, NoNewError
  <1>9. CASE ContinueAuthorization
    <2>1. /\ GrantExchange(Callback) \/ Receive(Callback) \/ Save(Callback)
          /\ UNCHANGED job
      BY <1>9 DEF ContinueAuthorization
    <2>2. HealthyRecord' /\ HealthySessions'
      BY <1>2, <2>1, HealthyAuthorization
    <2>3. pc'[Callback] = "idle" => answer' = "authorized"
      <3>1. Callback \notin AskThreads /\ Callback \in Threads
        BY ServerThreads, ThreadKinds
      <3> QED
        BY <2>1, <3>1 DEF GrantExchange, Receive, Save, Goto, Finish, Success, TypeOK
    <2>4. NoNewError
      BY <1>9, <2>3 DEF ContinueAuthorization, NoNewError
    <2> QED
      BY <2>2, <2>4
  <1>10. CASE Elsewhere
    <2>1. Tick /\ UNCHANGED <<job, page>>
      BY <1>10 DEF Elsewhere, serviceVars
    <2> QED
      BY <1>2, <2>1 DEF Tick, serverVars, HealthyRecord, Carries, NoNewError
  <1>11. CASE ProbeArrives \/ ProbeTurn \/ ProbeReturns \/ UNCHANGED askVars
    BY <1>1, <1>2, <1>11
    DEF ProbeArrives, ProbeTurn, ProbeReturns, askVars, brokerVars, serviceVars,
        NoNewError
  <1>12. /\ \A e \in Environments : ~Start(e)
         /\ ~Stop /\ ~BeCalm
         /\ \A u \in Pages : ~AskInVain(u) /\ ~GiveUp(u) /\ ~AuthorizeInVain(u)
    BY <1>0 DEF Start, Stop, BeCalm, AskInVain, GiveUp, AuthorizeInVain
  <1> QED
    BY <1>4, <1>5, <1>6, <1>7, <1>8, <1>9, <1>10, <1>11, <1>12
    DEF AskNext, UserStep, LoopTurn

\* For any number of pages, questions and authorizations: in a configured
\* service, once record and sessions are healthy and nothing fails any more they
\* stay so, whatever
\* refreshes, questions and re-authorizations go on beside one another, and no
\* page shows an error it did not show before.
THEOREM CureLastsHolds == AskSpec => CureLasts
  <1>1. CalmIsUp /\ LoopInv /\ TypeOK /\ Chain /\ [AskNext]_askVars =>
            [calm /\ Curable /\ HealthyRecord /\ HealthySessions =>
                Curable' /\ HealthyRecord' /\ HealthySessions' /\ NoNewError]_askVars
    BY CureStep, CurableStep
  <1>2. AskSpec => []CalmIsUp
    BY CalmIsUpInductive, PTL DEF AskSpec
  <1>3. AskSpec => [](TypeOK /\ Chain)
    BY BrokerInside, ChainCorrect, PTL
  <1> QED
    BY <1>1, <1>2, <1>3, LoopInvHolds, PTL DEF AskSpec, CureLasts, NoNewError
=============================================================================

-------------------------- MODULE HostedOAuth_proofs --------------------------
(***************************************************************************)
(* Proofs about HostedOAuth, for any sets of flows, codes and handlers.    *)
(***************************************************************************)
EXTENDS HostedOAuth, TLAPS

\* Every reachable state is well typed, and a handler serves a redirect that
\* Salesforce sent.
THEOREM TypeCorrect == Spec => []TypeOK
<1>1. Init => TypeOK
  BY DEF Init, TypeOK
<1>2. ASSUME TypeOK, [Next]_vars PROVE TypeOK'
  <2> USE <1>2, NothingAssumption DEF TypeOK, redis, remote
  <2>1. ASSUME NEW f \in Flows, StartAuthorization(f) PROVE TypeOK'
    BY <2>1 DEF StartAuthorization
  <2>2. ASSUME NEW f \in Flows, Expire(f) PROVE TypeOK'
    BY <2>2 DEF Expire
  <2>3. ASSUME NEW f \in Flows, NEW c \in Codes, Consent(f, c) PROVE TypeOK'
    BY <2>3 DEF Consent, Redirect
  <2>4. ASSUME NEW h \in Handlers, NEW r \in redirects, GetVerifier(h, r) PROVE TypeOK'
    BY <2>4 DEF GetVerifier, Goto
  <2>5. ASSUME NEW h \in Handlers, DeleteState(h) PROVE TypeOK'
    BY <2>5 DEF DeleteState, Goto, Respond
  <2>6. ASSUME NEW h \in Handlers, BeginExchange(h) PROVE TypeOK'
    BY <2>6 DEF BeginExchange, Goto, Redirect
  <2>7. ASSUME NEW h \in Handlers, GrantExchange(h) PROVE TypeOK'
    BY <2>7 DEF GrantExchange, Goto
  <2>8. ASSUME NEW h \in Handlers, ExchangeFails(h) PROVE TypeOK'
    BY <2>8 DEF ExchangeFails, Respond
  <2>9. ASSUME NEW h \in Handlers, SaveTokens(h) PROVE TypeOK'
    BY <2>9 DEF SaveTokens, Respond, Redirect
  <2>10. ASSUME NEW h \in Handlers, Crash(h) PROVE TypeOK'
    BY <2>10 DEF Crash, Respond
  <2>11. CASE UNCHANGED vars
    BY <2>11 DEF vars
  <2> QED
    BY <2>1, <2>2, <2>3, <2>4, <2>5, <2>6, <2>7, <2>8, <2>9, <2>10, <2>11
    DEF Next, HandlerStep
<1> QED BY <1>1, <1>2, PTL DEF Spec

-----------------------------------------------------------------------------
\* A state whose verifier was deleted on the way to an exchange is not in
\* Redis, and never will be: /authorize issues new states only.
Consumed ==
    /\ exchanged \subseteq started
    /\ exchanged \cap pending = {}
    /\ \A r \in redirects : r.flow \in started
    /\ \A h \in Handlers :
          pc[h] \in {"deleted", "posting", "granted"} => req[h].flow \notin pending

LEMMA ConsumedInductive ==
    /\ Init => Consumed
    /\ TypeOK /\ Consumed /\ [Next]_vars => Consumed'
<1>1. Init => Consumed
  BY DEF Init, Consumed
<1>2. ASSUME TypeOK, Consumed, [Next]_vars PROVE Consumed'
  <2> USE <1>2 DEF TypeOK, Consumed, redis, remote
  <2>1. ASSUME NEW f \in Flows, StartAuthorization(f) PROVE Consumed'
    BY <2>1 DEF StartAuthorization
  <2>2. ASSUME NEW f \in Flows, Expire(f) PROVE Consumed'
    BY <2>2 DEF Expire
  <2>3. ASSUME NEW f \in Flows, NEW c \in Codes, Consent(f, c) PROVE Consumed'
    BY <2>3 DEF Consent
  <2>4. ASSUME NEW h \in Handlers, NEW r \in redirects, GetVerifier(h, r) PROVE Consumed'
    BY <2>4 DEF GetVerifier, Goto
  <2>5. ASSUME NEW h \in Handlers, DeleteState(h) PROVE Consumed'
    BY <2>5 DEF DeleteState, Goto, Respond
  <2>6. ASSUME NEW h \in Handlers, BeginExchange(h) PROVE Consumed'
    BY <2>6 DEF BeginExchange, Goto
  <2>7. ASSUME NEW h \in Handlers, GrantExchange(h) PROVE Consumed'
    BY <2>7 DEF GrantExchange, Goto
  <2>8. ASSUME NEW h \in Handlers, ExchangeFails(h) PROVE Consumed'
    BY <2>8 DEF ExchangeFails, Respond
  <2>9. ASSUME NEW h \in Handlers, SaveTokens(h) PROVE Consumed'
    BY <2>9 DEF SaveTokens, Respond
  <2>10. ASSUME NEW h \in Handlers, Crash(h) PROVE Consumed'
    BY <2>10 DEF Crash, Respond
  <2>11. CASE UNCHANGED vars
    BY <2>11 DEF vars
  <2> QED
    BY <2>1, <2>2, <2>3, <2>4, <2>5, <2>6, <2>7, <2>8, <2>9, <2>10, <2>11
    DEF Next, HandlerStep
<1> QED BY <1>1, <1>2

\* A callback that arrives after an exchange for its state began is turned
\* away: the get finds nothing, for any number of handlers and repeats.
THEOREM LateCallbackRejectedHolds == Spec => LateCallbackRejected
<1> DEFINE Rejected ==
      \A h \in Handlers :
         pc[h] = "idle" /\ pc'[h] = "got" => req'[h].flow \notin exchanged
<1>1. ASSUME TypeOK, Consumed, [Next]_vars PROVE [Rejected]_vars
  <2>1. ASSUME NEW h \in Handlers, pc[h] = "idle", pc'[h] = "got"
        PROVE  req'[h].flow \in pending
    BY <1>1, <2>1 DEF TypeOK, Next, HandlerStep, StartAuthorization, Expire, Consent,
       GetVerifier, DeleteState, BeginExchange, GrantExchange, ExchangeFails, SaveTokens,
       Crash, Goto, Respond, vars, redis, remote
  <2> QED BY <1>1, <2>1 DEF Consumed
<1>2. Init => Consumed
  BY ConsumedInductive
<1>3. TypeOK /\ Consumed /\ [Next]_vars => Consumed'
  BY ConsumedInductive
<1> QED BY <1>1, <1>2, <1>3, TypeCorrect, PTL DEF Spec, LateCallbackRejected

-----------------------------------------------------------------------------
\* No two callbacks that bring one state are between their GET and their
\* DELETE at once.
NoOverlap ==
    \A h, k \in Handlers :
        pc[h] = "got" /\ pc[k] = "got" /\ req[h].flow = req[k].flow => h = k

\* On the way to an exchange: past the GET and not yet begun.
Entering(h) == pc[h] \in {"got", "deleted"}

\* Without overlap a callback on the way to an exchange is the only one with its
\* state, and no exchange for it has begun.
OneEnters ==
    \A h \in Handlers : Entering(h) =>
        /\ req[h].flow \notin exchanged
        /\ \A k \in Handlers : Entering(k) /\ req[k].flow = req[h].flow => k = h

LEMMA OneEntersInductive ==
    /\ Init => OneEnters
    /\ TypeOK /\ Consumed /\ OneEnters /\ NoOverlap' /\ [Next]_vars => OneEnters'
<1>1. Init => OneEnters
  BY DEF Init, OneEnters, Entering
<1>2. ASSUME TypeOK, Consumed, OneEnters, NoOverlap', [Next]_vars PROVE OneEnters'
  \* A handler that answers, or goes on with its exchange, is out of the way.
  <2>1. ASSUME NEW h \in Handlers, UNCHANGED exchanged,
               pc'[h] \notin {"got", "deleted"},
               \A k \in Handlers \ {h} : pc'[k] = pc[k] /\ req'[k] = req[k]
        PROVE  OneEnters'
    BY <1>2, <2>1 DEF OneEnters, Entering
  <2> USE <1>2 DEF TypeOK, redis, remote
  <2>2. ASSUME NEW h \in Handlers, NEW r \in redirects, GetVerifier(h, r) PROVE OneEnters'
    <3>1. r.flow \in pending /\ r.flow \notin exchanged /\ UNCHANGED exchanged
      BY <2>2 DEF GetVerifier, Consumed
    <3>2. /\ pc'[h] = "got" /\ req'[h] = r
          /\ \A k \in Handlers \ {h} : pc'[k] = pc[k] /\ req'[k] = req[k]
      BY <2>2 DEF GetVerifier, Goto
    <3>3. ASSUME NEW k \in Handlers \ {h}, Entering(k) PROVE req[k].flow # r.flow
      <4>1. CASE pc[k] = "got"
        BY <3>2, <4>1 DEF NoOverlap
      <4>2. CASE pc[k] = "deleted"
        BY <3>1, <4>2 DEF Consumed
      <4> QED BY <3>3, <4>1, <4>2 DEF Entering
    <3> QED BY <3>1, <3>2, <3>3 DEF OneEnters, Entering
  <2>3. ASSUME NEW h \in Handlers, DeleteState(h) PROVE OneEnters'
    <3>1. /\ pc[h] = "got" /\ UNCHANGED exchanged
          /\ \A k \in Handlers \ {h} : pc'[k] = pc[k] /\ req'[k] = req[k]
          /\ (pc'[h] = "deleted" /\ req' = req) \/ pc'[h] = "idle"
      BY <2>3 DEF DeleteState, Goto, Respond
    <3> QED BY <2>1, <3>1 DEF OneEnters, Entering
  <2>4. ASSUME NEW h \in Handlers, BeginExchange(h) PROVE OneEnters'
    <3>1. /\ pc[h] = "deleted" /\ pc'[h] = "posting" /\ UNCHANGED req
          /\ exchanged' = exchanged \cup {req[h].flow}
          /\ \A k \in Handlers \ {h} : pc'[k] = pc[k]
      BY <2>4 DEF BeginExchange, Goto
    <3> QED BY <3>1 DEF OneEnters, Entering
  <2>5. ASSUME NEW h \in Handlers, GrantExchange(h) \/ ExchangeFails(h)
                                       \/ SaveTokens(h) \/ Crash(h)
        PROVE  OneEnters'
    BY <2>1, <2>5 DEF GrantExchange, ExchangeFails, SaveTokens, Crash, Goto, Respond
  <2>6. CASE UNCHANGED <<pc, req, exchanged>>
    BY <2>6 DEF OneEnters, Entering
  <2> QED
    BY <2>2, <2>3, <2>4, <2>5, <2>6 DEF Next, HandlerStep, StartAuthorization, Expire,
       Consent, vars
<1> QED BY <1>1, <1>2

\* The race of two callbacks is all that can use a state twice: in every
\* behaviour in which no two callbacks with one state are between their GET and
\* their DELETE at once, whatever else they repeat, lose or outlive, a state
\* is used once.
THEOREM SingleUseUnlessOverlap == Spec /\ []NoOverlap => StateIsSingleUse
<1> DEFINE Fresh ==
      \A h \in Handlers :
         pc[h] = "deleted" /\ pc'[h] = "posting" => req[h].flow \notin exchanged
<1>1. OneEnters => [Fresh]_vars
  BY DEF OneEnters, Entering
<1>2. Init => Consumed /\ OneEnters
  BY ConsumedInductive, OneEntersInductive
<1>3. TypeOK /\ Consumed /\ [Next]_vars => Consumed'
  BY ConsumedInductive
<1>4. TypeOK /\ Consumed /\ OneEnters /\ NoOverlap' /\ [Next]_vars => OneEnters'
  BY OneEntersInductive
<1> QED BY <1>1, <1>2, <1>3, <1>4, TypeCorrect, PTL DEF Spec, StateIsSingleUse
=============================================================================

-------------------------- MODULE TokenBroker_proofs --------------------------
(***************************************************************************)
(* Proofs about TokenBroker, for any number of processes and any values of *)
(* the timing constants that satisfy TimingAssumption.                     *)
(***************************************************************************)
EXTENDS TokenBroker, TLAPS

-----------------------------------------------------------------------------
(* Type correctness *)

LEMMA ThreadKinds ==
    /\ AskThreads \cap AuthThreads = {}
    /\ \A t \in AskThreads : t \in Threads
    /\ \A t \in AuthThreads : t \in Threads
BY DEF AskThreads, AuthThreads, Threads

LEMMA SuccessorType ==
    ASSUME NEW r \in RefreshToken
    PROVE  /\ Successor(r) \in RefreshToken
           /\ Successor(r).grant = r.grant
           /\ Successor(r).serial = r.serial + 1
BY DEF Successor, RefreshToken

LEMMA IssueType ==
    ASSUME NEW r \in RefreshToken, now \in Nat
    PROVE  /\ Issue(r) \in StoredTokens
           /\ Issue(r).refresh = r
           /\ Issue(r).access_until = now + Lifetime
BY TimingAssumption DEF Issue, StoredTokens

\* Every reachable state is well typed, and a call works on a real record
\* from the moment it passed the check for None.
THEOREM TypeCorrect == Spec => []TypeOK
<1>1. Init => TypeOK
  BY ThreadKinds DEF Init, TypeOK, Answers
<1>2. ASSUME TypeOK, [Next]_vars PROVE TypeOK'
  <2> USE <1>2, NoTokensAssumption, TimingAssumption, ThreadKinds DEF TypeOK, Answers
  <2>1. ASSUME NEW t \in AskThreads, UseStored(t) PROVE TypeOK'
    BY <2>1 DEF UseStored, Finish, serverVars
  <2>2. ASSUME NEW t \in AskThreads, StartRefresh(t) PROVE TypeOK'
    BY <2>2 DEF StartRefresh, Goto, serverVars
  <2>3. ASSUME NEW t \in Threads, LoseResponse(t) PROVE TypeOK'
    <3>1. pc[t] = "granted" \/ t \in AskThreads => held[t].refresh \in RefreshToken
      BY <2>3 DEF LoseResponse, StoredTokens
    <3> QED BY <3>1, <2>3 DEF LoseResponse, Finish
  <2>4. ASSUME NEW t \in Threads, Receive(t) PROVE TypeOK'
    BY <2>4 DEF Receive, Goto, StoredTokens, serverVars
  <2>5. ASSUME NEW t \in Threads, Save(t) PROVE TypeOK'
    BY <2>5 DEF Save, Finish, Success, serverVars
  <2>6. ASSUME NEW t \in Threads, SaveFails(t) PROVE TypeOK'
    <3>1. held[t].refresh \in RefreshToken
      BY <2>6 DEF SaveFails, StoredTokens
    <3> QED BY <3>1, <2>6 DEF SaveFails, Finish, serverVars
  <2>7. ASSUME NEW t \in AskThreads, Load(t) PROVE TypeOK'
    BY <2>7 DEF Load, Goto, serverVars
  <2>8. ASSUME NEW t \in AskThreads, LoadNothing(t) \/ LoadFails(t) PROVE TypeOK'
    <3>1. CASE LoadNothing(t)
      BY <3>1 DEF LoadNothing, Finish, serverVars
    <3>2. CASE LoadFails(t)
      BY <3>2 DEF LoadFails, Finish, serverVars
    <3> QED BY <2>8, <3>1, <3>2
  <2>9. ASSUME NEW t \in AskThreads, GrantRefresh(t) PROVE TypeOK'
    <3>1. held[t].refresh \in RefreshToken
      BY <2>9 DEF GrantRefresh, StoredTokens
    <3> QED BY <3>1, <2>9, SuccessorType, IssueType DEF GrantRefresh, Goto
  <2>10. ASSUME NEW t \in AskThreads, RejectRefresh(t) PROVE TypeOK'
    BY <2>10 DEF RejectRefresh, Finish, serverVars
  <2>11. ASSUME NEW t \in AuthThreads, StartExchange(t) PROVE TypeOK'
    BY <2>11 DEF StartExchange, Goto, serverVars
  <2>12. ASSUME NEW t \in AuthThreads, GrantExchange(t) PROVE TypeOK'
    <3>1. [grant |-> grants + 1, serial |-> 0] \in RefreshToken
      BY DEF RefreshToken
    <3> QED BY <3>1, <2>12, IssueType DEF GrantExchange, Goto
  <2>13. ASSUME NEW t \in AuthThreads, RejectExchange(t) PROVE TypeOK'
    BY <2>13 DEF RejectExchange, Finish, serverVars
  <2>14. ASSUME NEW r \in abandoned, GrantAbandoned(r) PROVE TypeOK'
    BY <2>14, SuccessorType DEF GrantAbandoned
  <2>15. ASSUME NEW g \in (1..grants) \ revoked, Revoke(g) PROVE TypeOK'
    BY <2>15 DEF Revoke
  <2>16. ASSUME NEW p \in Processes, Crash(p) PROVE TypeOK'
    <3>1. \A t \in Threads : Carries(t) \/ (t \in AskThreads /\ pc[t] = "posting") =>
             held[t].refresh \in RefreshToken
      BY DEF Carries, StoredTokens
    <3>2. {p} \X {"ask", "auth"} \subseteq Threads
      BY DEF Threads, AskThreads, AuthThreads
    <3> QED BY <3>1, <3>2, <2>16 DEF Crash
  <2>17. CASE Tick
    BY <2>17 DEF Tick, serverVars
  <2>18. CASE UNCHANGED vars
    BY <2>18 DEF vars, serverVars, clientVars
  <2> QED
    BY <2>1, <2>2, <2>3, <2>4, <2>5, <2>6, <2>7, <2>8, <2>9, <2>10, <2>11,
       <2>12, <2>13, <2>14, <2>15, <2>16, <2>17, <2>18
    DEF Next, ClientStep, AskStep, AuthStep
<1> QED BY <1>1, <1>2, PTL DEF Spec
-----------------------------------------------------------------------------
(* Timing *)

\* The client's expires_at is late by no more than one request, and what is
\* in flight was issued within the bounds of the request and the save.
Timing ==
    /\ stored # NoTokens => stored.expires_at <= stored.access_until + RequestTimeout
    /\ \A t \in Threads :
          /\ pc[t] \in {"loaded", "saving"} =>
                held[t].expires_at <= held[t].access_until + RequestTimeout
          /\ pc[t] \in {"posting", "granted"} =>
                since[t] <= now /\ now <= since[t] + RequestTimeout
          /\ pc[t] = "granted" => held[t].access_until >= since[t] + Lifetime
          /\ pc[t] = "saving" =>
                /\ since[t] <= now /\ now <= since[t] + StoreDelay
                /\ held[t].access_until >= since[t] + Lifetime - RequestTimeout

LEMMA TimingInductive ==
    /\ Init => Timing
    /\ TypeOK /\ Timing /\ [Next]_vars => Timing'
<1>1. Init => Timing
  BY DEF Init, Timing
<1>2. ASSUME TypeOK, Timing, [Next]_vars PROVE Timing'
  <2> USE <1>2, NoTokensAssumption, TimingAssumption, ThreadKinds
  <2>1. ASSUME NEW t \in AskThreads, UseStored(t) PROVE Timing'
    BY <2>1 DEF UseStored, Finish, serverVars, TypeOK, Timing
  <2>2. ASSUME NEW t \in AskThreads, StartRefresh(t) PROVE Timing'
    BY <2>2 DEF StartRefresh, Goto, serverVars, TypeOK, Timing
  <2>3. ASSUME NEW t \in Threads, LoseResponse(t) PROVE Timing'
    BY <2>3 DEF LoseResponse, Finish, TypeOK, Timing
  <2>4. ASSUME NEW t \in Threads, Receive(t) PROVE Timing'
    BY <2>4 DEF Receive, Goto, serverVars, TypeOK, Timing, StoredTokens
  <2>5. ASSUME NEW t \in Threads, Save(t) PROVE Timing'
    BY <2>5 DEF Save, Finish, serverVars, TypeOK, Timing
  <2>6. ASSUME NEW t \in Threads, SaveFails(t) PROVE Timing'
    BY <2>6 DEF SaveFails, Finish, serverVars, TypeOK, Timing
  <2>7. ASSUME NEW t \in AskThreads, Load(t) PROVE Timing'
    BY <2>7 DEF Load, Goto, serverVars, TypeOK, Timing
  <2>8. ASSUME NEW t \in AskThreads, LoadNothing(t) PROVE Timing'
    BY <2>8 DEF LoadNothing, Finish, serverVars, TypeOK, Timing
  <2>9. ASSUME NEW t \in AskThreads, LoadFails(t) PROVE Timing'
    BY <2>9 DEF LoadFails, Finish, serverVars, TypeOK, Timing
  <2>10. ASSUME NEW t \in AskThreads, GrantRefresh(t) PROVE Timing'
    <3>1. Successor(held[t].refresh) \in RefreshToken
      BY <2>10, SuccessorType DEF GrantRefresh, TypeOK, StoredTokens
    <3>2. held' = [held EXCEPT ![t] = Issue(Successor(held[t].refresh))]
      BY <2>10 DEF GrantRefresh
    <3>3. Issue(Successor(held[t].refresh)).access_until = now + Lifetime
      BY <3>1, IssueType DEF TypeOK
    <3> QED BY <3>2, <3>3, <2>10 DEF GrantRefresh, Goto, TypeOK, Timing
  <2>11. ASSUME NEW t \in AskThreads, RejectRefresh(t) PROVE Timing'
    BY <2>11 DEF RejectRefresh, Finish, serverVars, TypeOK, Timing
  <2>12. ASSUME NEW t \in AuthThreads, StartExchange(t) PROVE Timing'
    BY <2>12 DEF StartExchange, Goto, serverVars, TypeOK, Timing
  <2>13. ASSUME NEW t \in AuthThreads, GrantExchange(t) PROVE Timing'
    BY <2>13 DEF GrantExchange, Goto, Issue, TypeOK, Timing
  <2>14. ASSUME NEW t \in AuthThreads, RejectExchange(t) PROVE Timing'
    BY <2>14 DEF RejectExchange, Finish, serverVars, TypeOK, Timing
  <2>15. ASSUME NEW r \in abandoned, GrantAbandoned(r) PROVE Timing'
    BY <2>15 DEF GrantAbandoned, Timing
  <2>16. ASSUME NEW g \in (1..grants) \ revoked, Revoke(g) PROVE Timing'
    BY <2>16 DEF Revoke, Timing
  <2>17. ASSUME NEW p \in Processes, Crash(p) PROVE Timing'
    BY <2>17 DEF Crash, TypeOK, Timing
  <2>18. CASE Tick
    BY <2>18 DEF Tick, serverVars, TypeOK, Timing
  <2>19. CASE UNCHANGED vars
    BY <2>19 DEF vars, serverVars, clientVars, Timing
  <2> QED
    BY <2>1, <2>2, <2>3, <2>4, <2>5, <2>6, <2>7, <2>8, <2>9, <2>10, <2>11,
       <2>12, <2>13, <2>14, <2>15, <2>16, <2>17, <2>18, <2>19
    DEF Next, ClientStep, AskStep, AuthStep
<1> QED BY <1>1, <1>2

\* The token handed to a caller is one the server accepts for at least the
\* skew less one request time-out: whatever the interleaving.
THEOREM ReturnedTokenCoversCallHolds == Spec => ReturnedTokenCoversCall
<1> DEFINE Covered ==
      \A t \in AskThreads :
         pc[t] # "idle" /\ pc'[t] = "idle" /\ answer' = "served" =>
            held[t].access_until >= now + Skew - RequestTimeout
<1>1. ASSUME TypeOK, Timing, [Next]_vars PROVE [Covered]_vars
  <2> USE <1>1, NoTokensAssumption, TimingAssumption, ThreadKinds
  <2>1. ASSUME NEW t \in AskThreads, UseStored(t) PROVE Covered
    BY <2>1 DEF UseStored, NeedsRefresh, Finish, TypeOK, Timing, StoredTokens
  <2>2. ASSUME NEW t \in Threads, Save(t) PROVE Covered
    BY <2>2 DEF Save, Success, Finish, TypeOK, Timing, StoredTokens
  <2>3. ASSUME answer' # "served" PROVE Covered
    BY <2>3
  <2>4. CASE UNCHANGED vars
    BY <2>4
  <2>5. \/ answer' # "served"
        \/ \E t \in AskThreads : UseStored(t)
        \/ \E t \in Threads : Save(t)
        \/ UNCHANGED vars
    BY DEF Next, ClientStep, AskStep, AuthStep, StartRefresh, LoseResponse, Receive,
       SaveFails, Load, LoadNothing, LoadFails, GrantRefresh, RejectRefresh,
       StartExchange, GrantExchange, RejectExchange, GrantAbandoned, Revoke, Crash,
       Tick, Goto, Finish
  <2> QED BY <2>1, <2>2, <2>3, <2>4, <2>5
<1>2. Spec => []TypeOK /\ []Timing
  BY TypeCorrect, TimingInductive, PTL DEF Spec
<1>3. [Next]_vars /\ TypeOK /\ Timing => [Covered]_vars
  BY <1>1
<1> QED BY <1>2, <1>3, PTL DEF Spec, ReturnedTokenCoversCall

-----------------------------------------------------------------------------
(* The rotation chain *)

\* Every refresh token some part of the system still has.
Records == ({stored} \cup {held[t] : t \in Threads}) \ {NoTokens}
Known   == live \cup lost \cup abandoned \cup {s.refresh : s \in Records}

\* A token a thread carries is the newest of its grant and only that thread
\* has it: everything else the system knows of the grant is older.
Chain ==
    /\ revoked \subseteq 1..grants
    /\ \A x \in Known : x.grant \in 1..grants
    /\ \A r \in live : r.grant \notin revoked
    /\ \A r \in live, x \in Known : x.grant = r.grant => x.serial <= r.serial
    /\ \A t \in Threads : Carries(t) =>
          /\ held[t].refresh \in live \/ held[t].refresh.grant \in revoked
          /\ stored # NoTokens /\ stored.refresh.grant = held[t].refresh.grant =>
                stored.refresh.serial < held[t].refresh.serial
          /\ \A u \in Threads \ {t} :
                held[u] # NoTokens /\ held[u].refresh.grant = held[t].refresh.grant =>
                   held[u].refresh.serial < held[t].refresh.serial
          /\ \A x \in abandoned :
                x.grant = held[t].refresh.grant => x.serial < held[t].refresh.serial

\* What Known is made of, before and after a step.
LEMMA KnownTypes ==
    ASSUME TypeOK
    PROVE  /\ Known \subseteq RefreshToken
           /\ stored # NoTokens => stored.refresh \in Known
           /\ \A t \in Threads : held[t] # NoTokens => held[t].refresh \in Known
           /\ \A t \in Threads : Carries(t) => held[t] # NoTokens
BY NoTokensAssumption DEF TypeOK, Known, Records, StoredTokens, Carries

\* A step that issues, invalidates and saves nothing, after which a thread
\* holds what it held or what is stored and carries nothing new, and only
\* requests that carried nothing are given up.
LEMMA QuietStep ==
    ASSUME TypeOK, TypeOK', Chain, UNCHANGED <<live, grants, revoked, stored>>,
           lost' \subseteq Known,
           \A x \in abandoned' : x \in abandoned \/
              \E u \in Threads : held[u] # NoTokens /\ ~Carries(u) /\ x = held[u].refresh,
           \A t \in Threads :
              \/ held'[t] = NoTokens /\ ~Carries(t)'
              \/ /\ held[t] # NoTokens /\ held'[t] # NoTokens
                 /\ held'[t].refresh = held[t].refresh
                 /\ Carries(t)' => Carries(t)
              \/ /\ stored # NoTokens /\ held'[t] = stored /\ ~Carries(t)'
    PROVE  Chain'
<1>1. Known' \subseteq Known
  <2>1. abandoned' \subseteq Known
    BY KnownTypes DEF Known
  <2>2. \A s \in Records' : s.refresh \in Known
    BY KnownTypes DEF Records
  <2> QED BY <2>1, <2>2 DEF Known
<1>2. \A x \in Known' : x.grant \in (1..grants)'
  BY <1>1 DEF Chain
<1>3. \A r \in live', x \in Known' : x.grant = r.grant => x.serial <= r.serial
  BY <1>1 DEF Chain
<1>4. ASSUME NEW t \in Threads, Carries(t)'
      PROVE  /\ Carries(t) /\ held[t] # NoTokens
             /\ held'[t].refresh = held[t].refresh
  BY <1>4, KnownTypes DEF Carries
<1>5. ASSUME NEW t \in Threads, Carries(t)', NEW u \in Threads \ {t},
             held'[u] # NoTokens, held'[u].refresh.grant = held'[t].refresh.grant
      PROVE  held'[u].refresh.serial < held'[t].refresh.serial
  <2>1. CASE held[u] # NoTokens /\ held'[u].refresh = held[u].refresh
    BY <1>4, <1>5, <2>1 DEF Chain
  <2>2. CASE stored # NoTokens /\ held'[u] = stored
    BY <1>4, <1>5, <2>2 DEF Chain
  <2> QED BY <1>5, <2>1, <2>2
<1> QED BY <1>2, <1>3, <1>4, <1>5 DEF Chain
\* Saving the carried tokens, which ends the carrying.
LEMMA SaveStep ==
    ASSUME TypeOK, TypeOK', Chain, NEW t \in Threads, NEW result, Carries(t), Finish(t, result),
           stored' = held[t], UNCHANGED <<live, grants, revoked, abandoned, lost>>
    PROVE  Chain'
<1> USE KnownTypes, NoTokensAssumption DEF Finish
<1>1. held[t] # NoTokens /\ stored'.refresh = held[t].refresh
  OBVIOUS
<1>2. \A u \in Threads : held'[u] = IF u = t THEN NoTokens ELSE held[u]
  BY DEF TypeOK
<1>3. Known' \subseteq Known
  <2>1. Records' \subseteq Records
    BY <1>2 DEF Records
  <2> QED BY <2>1 DEF Known
<1>4. ASSUME NEW u \in Threads, Carries(u)'
      PROVE  u # t /\ Carries(u) /\ held[u] # NoTokens /\ held'[u] = held[u]
  BY <1>2, <1>4 DEF Carries, TypeOK
<1>5. \A u \in Threads : Carries(u)' =>
         held'[u].refresh \in live' \/ held'[u].refresh.grant \in revoked'
  BY <1>4 DEF Chain
<1>6. \A u \in Threads : Carries(u)' =>
         (stored'.refresh.grant = held'[u].refresh.grant =>
            stored'.refresh.serial < held'[u].refresh.serial)
  BY <1>1, <1>4 DEF Chain
<1>7. \A u \in Threads : Carries(u)' =>
         \A v \in Threads \ {u} :
            held'[v] # NoTokens /\ held'[v].refresh.grant = held'[u].refresh.grant =>
               held'[v].refresh.serial < held'[u].refresh.serial
  BY <1>2, <1>4 DEF Chain
<1> QED BY <1>3, <1>4, <1>5, <1>6, <1>7 DEF Chain

LEMMA ChainInductive ==
    /\ Init => Chain
    /\ TypeOK /\ TypeOK' /\ Chain /\ [Next]_vars => Chain'
<1>1. Init => Chain
  BY DEF Init, Chain, Known, Records, Carries
<1>2. ASSUME TypeOK, TypeOK', Chain, [Next]_vars PROVE Chain'
  <2> USE <1>2, NoTokensAssumption, ThreadKinds, KnownTypes
  <2>1. ASSUME NEW t \in AskThreads, UseStored(t) PROVE Chain'
    BY <2>1, QuietStep DEF UseStored, Finish, serverVars, TypeOK, Carries, Known
  <2>2. ASSUME NEW t \in AskThreads, StartRefresh(t) PROVE Chain'
    BY <2>2, QuietStep DEF StartRefresh, Goto, serverVars, TypeOK, Carries, Known
  <2>3. ASSUME NEW t \in Threads, LoseResponse(t) PROVE Chain'
    BY <2>3, QuietStep DEF LoseResponse, Finish, TypeOK, Carries, Known
  <2>4. ASSUME NEW t \in Threads, Receive(t) PROVE Chain'
    BY <2>4, QuietStep DEF Receive, Goto, serverVars, TypeOK, Carries, Known
  <2>5. ASSUME NEW t \in AskThreads, Load(t) PROVE Chain'
    BY <2>5, QuietStep DEF Load, Goto, serverVars, TypeOK, Carries, Known
  <2>6. ASSUME NEW t \in AskThreads, LoadNothing(t) PROVE Chain'
    BY <2>6, QuietStep DEF LoadNothing, Finish, serverVars, TypeOK, Carries, Known
  <2>7. ASSUME NEW t \in AskThreads, LoadFails(t) PROVE Chain'
    BY <2>7, QuietStep DEF LoadFails, Finish, serverVars, TypeOK, Carries, Known
  <2>8. ASSUME NEW t \in AskThreads, RejectRefresh(t) PROVE Chain'
    BY <2>8, QuietStep DEF RejectRefresh, Finish, serverVars, TypeOK, Carries, Known
  <2>9. ASSUME NEW t \in AuthThreads, StartExchange(t) PROVE Chain'
    BY <2>9, QuietStep DEF StartExchange, Goto, serverVars, TypeOK, Carries, Known
  <2>10. ASSUME NEW t \in AuthThreads, RejectExchange(t) PROVE Chain'
    BY <2>10, QuietStep DEF RejectExchange, Finish, serverVars, TypeOK, Carries, Known
  <2>11. ASSUME NEW p \in Processes, Crash(p) PROVE Chain'
    <3> DEFINE gone == {t \in {p} \X {"ask", "auth"} : pc[t] # "idle"}
    <3>1. gone \subseteq Threads
      BY DEF Threads, AskThreads, AuthThreads
    <3>2. /\ \A t \in gone : held'[t] = NoTokens /\ ~Carries(t)'
          /\ \A t \in Threads \ gone : held'[t] = held[t] /\ (Carries(t)' <=> Carries(t))
          /\ UNCHANGED <<live, grants, revoked, stored>>
      BY <2>11, <3>1 DEF Crash, Carries
    <3>3. \A x \in lost' : x \in lost \/ \E t \in gone : Carries(t) /\ x = held[t].refresh
      BY <2>11 DEF Crash
    <3>4. lost' \subseteq Known
      BY <3>1, <3>3 DEF Known
    <3>5. \A x \in abandoned' : x \in abandoned \/
             \E t \in gone \cap AskThreads : pc[t] = "posting" /\ x = held[t].refresh
      BY <2>11 DEF Crash
    <3>6. \A x \in abandoned' : x \in abandoned \/
             \E t \in Threads : held[t] # NoTokens /\ ~Carries(t) /\ x = held[t].refresh
      BY <3>5 DEF Carries, TypeOK
    <3>7. \A t \in Threads \ gone :
             \/ held'[t] = NoTokens /\ ~Carries(t)'
             \/ /\ held[t] # NoTokens /\ held'[t] # NoTokens
                /\ held'[t].refresh = held[t].refresh
                /\ Carries(t)' => Carries(t)
      BY <3>2
    <3> HIDE DEF gone
    <3> QED BY <3>2, <3>4, <3>6, <3>7, QuietStep
  <2>12. CASE Tick
    BY <2>12, QuietStep DEF Tick, serverVars, TypeOK, Carries, Known
  <2>13. CASE UNCHANGED vars
    BY <2>13, QuietStep DEF vars, serverVars, clientVars, TypeOK, Carries, Known  <2>14. ASSUME NEW t \in Threads, Save(t) PROVE Chain'
    BY <2>14, SaveStep DEF Save, serverVars, Carries
  <2>15. ASSUME NEW t \in Threads, SaveFails(t) PROVE Chain'
    <3>1. CASE stored' = held[t] /\ lost' = lost
      BY <2>15, <3>1, SaveStep DEF SaveFails, serverVars, Carries
    <3>2. CASE stored' = stored /\ lost' = lost \cup {held[t].refresh}
      BY <2>15, <3>2, QuietStep DEF SaveFails, Finish, serverVars, TypeOK, Carries, Known
    <3> QED BY <2>15, <3>1, <3>2 DEF SaveFails
  <2>16. ASSUME NEW t \in AskThreads, GrantRefresh(t) PROVE Chain'
    <3> DEFINE r == held[t].refresh
               s == Successor(r)
    <3>1. /\ r \in RefreshToken /\ r \in live /\ r \in Known /\ held[t] # NoTokens
          /\ s \in RefreshToken /\ s.grant = r.grant /\ s.serial = r.serial + 1
      BY <2>16, SuccessorType DEF GrantRefresh, TypeOK
    <3>2. /\ live' = (live \ {r}) \cup {s} /\ pc[t] = "posting"
          /\ UNCHANGED <<grants, revoked, abandoned, stored, lost>>
      BY <2>16 DEF GrantRefresh
    <3>3. /\ held'[t].refresh = s
          /\ \A u \in Threads \ {t} : held'[u] = held[u] /\ (Carries(u)' => Carries(u))
      BY <2>16, <3>1, IssueType DEF GrantRefresh, Goto, TypeOK, Carries
    <3>4. \A x \in Known' : x \in Known \/ x = s
      BY <3>2, <3>3 DEF Known, Records
    <3>5. \A x \in Known : x.grant = r.grant => x.serial <= r.serial
      BY <3>1 DEF Chain
    <3>6. ASSUME NEW u \in Threads \ {t}, Carries(u)
          PROVE  held[u] # NoTokens /\ held[u].refresh.grant # r.grant
      BY <3>1, <3>5, <3>6 DEF Chain, RefreshToken
    <3>7. \A l \in live', x \in Known' : x.grant = l.grant => x.serial <= l.serial
      <4>1. \A l \in live \ {r} : l.grant # r.grant
        BY <3>1, <3>5 DEF Chain, RefreshToken, Known
      <4>2. \A l \in live', x \in Known' : l = s /\ x.grant = l.grant => x.serial <= l.serial
        BY <3>1, <3>4, <3>5 DEF RefreshToken
      <4>3. \A l \in live \ {r}, x \in Known' : x.grant = l.grant => x.serial <= l.serial
        BY <3>1, <3>4, <4>1 DEF Chain
      <4> QED BY <3>2, <4>2, <4>3
    <3>8. \A u \in Threads \ {t} : Carries(u)' =>
             held'[u].refresh \in live' \/ held'[u].refresh.grant \in revoked'
      BY <3>1, <3>2, <3>3, <3>6 DEF Chain
    <3>9. \A u \in Threads \ {t} : \A v \in Threads \ {u} :
             Carries(u)' /\ held'[v] # NoTokens
                /\ held'[v].refresh.grant = held'[u].refresh.grant =>
                   held'[v].refresh.serial < held'[u].refresh.serial
      BY <3>1, <3>3, <3>6 DEF Chain
    <3>10. \A v \in Threads \ {t} :
             held'[v] # NoTokens /\ held'[v].refresh.grant = s.grant =>
                held'[v].refresh.serial < s.serial
      BY <3>1, <3>3, <3>5 DEF RefreshToken
    <3>11. \A x \in Known' : x.grant \in 1..grants'
      BY <3>1, <3>2, <3>4 DEF Chain
    <3>12. \A l \in live' : l.grant \notin revoked'
      BY <3>1, <3>2 DEF Chain
    <3>13. \A u \in Threads \ {t} : Carries(u)' =>
             /\ stored' # NoTokens /\ stored'.refresh.grant = held'[u].refresh.grant =>
                   stored'.refresh.serial < held'[u].refresh.serial
             /\ \A x \in abandoned' : x.grant = held'[u].refresh.grant =>
                   x.serial < held'[u].refresh.serial
      BY <3>2, <3>3 DEF Chain
    <3>14. /\ stored' # NoTokens /\ stored'.refresh.grant = s.grant =>
                 stored'.refresh.serial < s.serial
           /\ \A x \in abandoned' : x.grant = s.grant => x.serial < s.serial
      BY <3>1, <3>2, <3>5 DEF Known, RefreshToken
    <3>15. held'[t].refresh \in live' /\ revoked' \subseteq 1..grants'
      BY <3>2, <3>3 DEF Chain
    <3> QED BY <3>3, <3>7, <3>8, <3>9, <3>10, <3>11, <3>12, <3>13, <3>14, <3>15 DEF Chain
  <2>17. ASSUME NEW t \in AuthThreads, GrantExchange(t) PROVE Chain'
    <3> DEFINE s == [grant |-> grants + 1, serial |-> 0]
    <3>1. s \in RefreshToken /\ s.grant = grants + 1 /\ s.serial = 0
      BY DEF RefreshToken, TypeOK
    <3>2. /\ live' = live \cup {s} /\ grants' = grants + 1
          /\ UNCHANGED <<revoked, abandoned, stored, lost>>
      BY <2>17 DEF GrantExchange
    <3>3. /\ held'[t].refresh = s
          /\ \A u \in Threads \ {t} : held'[u] = held[u] /\ (Carries(u)' => Carries(u))
      BY <2>17, <3>1, IssueType DEF GrantExchange, Goto, TypeOK, Carries
    <3>4. \A x \in Known' : x \in Known \/ x = s
      BY <3>2, <3>3 DEF Known, Records
    <3>5. \A x \in Known : x.grant \in 1..grants /\ x.grant # s.grant
      BY <3>1 DEF Chain, TypeOK
    <3>6. grants \in Nat /\ 1..grants \subseteq 1..grants' /\ s.grant \in 1..grants'
      BY <3>1, <3>2 DEF TypeOK
    <3>7. \A l \in live', x \in Known' : x.grant = l.grant => x.serial <= l.serial
      BY <3>1, <3>2, <3>4, <3>5 DEF Chain, Known
    <3>8. /\ \A x \in Known' : x.grant \in 1..grants'
          /\ revoked' \subseteq 1..grants'
          /\ \A l \in live' : l.grant \notin revoked'
      BY <3>1, <3>2, <3>4, <3>5, <3>6 DEF Chain
    <3>9. \A u \in Threads \ {t} : Carries(u)' =>
             /\ held'[u].refresh \in live' \/ held'[u].refresh.grant \in revoked'
             /\ held'[u].refresh.grant # s.grant
             /\ stored' # NoTokens /\ stored'.refresh.grant = held'[u].refresh.grant =>
                   stored'.refresh.serial < held'[u].refresh.serial
             /\ \A x \in abandoned' : x.grant = held'[u].refresh.grant =>
                   x.serial < held'[u].refresh.serial
      BY <3>2, <3>3, <3>5 DEF Chain
    <3>10. \A u \in Threads \ {t} : \A v \in Threads \ {u} :
             Carries(u)' /\ held'[v] # NoTokens
                /\ held'[v].refresh.grant = held'[u].refresh.grant =>
                   held'[v].refresh.serial < held'[u].refresh.serial
      BY <3>3, <3>9 DEF Chain
    <3>11. /\ \A v \in Threads \ {t} : held'[v] # NoTokens => held'[v].refresh.grant # s.grant
           /\ \A x \in abandoned' : x.grant # s.grant
           /\ stored' # NoTokens => stored'.refresh.grant # s.grant
      BY <3>2, <3>3, <3>5 DEF Known
    <3> QED BY <3>2, <3>3, <3>7, <3>8, <3>9, <3>10, <3>11 DEF Chain
  <2>18. ASSUME NEW r \in abandoned, GrantAbandoned(r) PROVE Chain'
    <3> DEFINE s == Successor(r)
    <3>1. /\ r \in RefreshToken /\ r \in live /\ r \in Known
          /\ s \in RefreshToken /\ s.grant = r.grant /\ s.serial = r.serial + 1
      BY <2>18, SuccessorType DEF GrantAbandoned, TypeOK, Known
    <3>2. /\ live' = (live \ {r}) \cup {s}
          /\ abandoned' \subseteq abandoned /\ lost' = lost \cup {s}
          /\ UNCHANGED <<grants, revoked, stored, pc, held>>
      BY <2>18 DEF GrantAbandoned
    <3>3. \A x \in Known' : x \in Known \/ x = s
      BY <3>2 DEF Known, Records
    <3>4. \A x \in Known : x.grant = r.grant => x.serial <= r.serial
      BY <3>1 DEF Chain
    <3>5. \A l \in live', x \in Known' : x.grant = l.grant => x.serial <= l.serial
      <4>1. \A l \in live \ {r} : l.grant # r.grant
        BY <3>1, <3>4 DEF Chain, RefreshToken, Known
      <4>2. \A l \in live', x \in Known' : l = s /\ x.grant = l.grant => x.serial <= l.serial
        BY <3>1, <3>3, <3>4 DEF RefreshToken
      <4>3. \A l \in live \ {r}, x \in Known' : x.grant = l.grant => x.serial <= l.serial
        BY <3>1, <3>3, <4>1 DEF Chain
      <4> QED BY <3>2, <4>2, <4>3
    <3>6. \A u \in Threads : Carries(u) => held[u].refresh # r
      BY <3>1 DEF Chain, RefreshToken
    <3>7. \A u \in Threads : Carries(u)' =>
             held'[u].refresh \in live' \/ held'[u].refresh.grant \in revoked'
      BY <3>2, <3>6 DEF Chain, Carries
    <3>8. /\ \A x \in Known' : x.grant \in 1..grants'
          /\ \A l \in live' : l.grant \notin revoked'
      BY <3>1, <3>2, <3>3 DEF Chain
    <3> QED BY <3>2, <3>5, <3>7, <3>8 DEF Chain, Carries
  <2>19. ASSUME NEW g \in (1..grants) \ revoked, Revoke(g) PROVE Chain'
    <3>1. /\ live' = {r \in live : r.grant # g} /\ revoked' = revoked \cup {g}
          /\ UNCHANGED <<grants, abandoned, stored, pc, held, lost>>
      BY <2>19 DEF Revoke
    <3>2. Known' \subseteq Known
      BY <3>1 DEF Known, Records
    <3>3. \A u \in Threads : Carries(u)' =>
             held'[u].refresh \in live' \/ held'[u].refresh.grant \in revoked'
      BY <3>1 DEF Chain, Carries
    <3> QED BY <3>1, <3>2, <3>3 DEF Chain, Carries
  <2> QED
    BY <2>1, <2>2, <2>3, <2>4, <2>5, <2>6, <2>7, <2>8, <2>9, <2>10, <2>11,
       <2>12, <2>13, <2>14, <2>15, <2>16, <2>17, <2>18, <2>19
    DEF Next, ClientStep, AskStep, AuthStep
<1> QED BY <1>1, <1>2
-----------------------------------------------------------------------------
(* What the chain gives *)

LEMMA ChainCorrect == Spec => [](TypeOK /\ Chain)
<1>1. Init => Chain
  BY ChainInductive
<1>2. TypeOK /\ TypeOK' /\ Chain /\ [Next]_vars => Chain'
  BY ChainInductive
<1> QED BY <1>1, <1>2, TypeCorrect, PTL DEF Spec

\* Only the end of a save writes the record, with the tokens carried there.
LEMMA WritersCarry ==
    ASSUME TypeOK, [Next]_vars, stored' # stored
    PROVE  \E t \in Threads : Carries(t) /\ stored' = held[t]
                               /\ UNCHANGED <<live, revoked>>
BY DEF Next, ClientStep, AskStep, AuthStep, UseStored, StartRefresh, LoseResponse, Receive,
       Save, SaveFails, Load, LoadNothing, LoadFails, GrantRefresh, RejectRefresh,
       StartExchange, GrantExchange, RejectExchange, GrantAbandoned, Revoke, Crash,
       Tick, vars, serverVars, Carries

\* Without a lock, no save puts back an older member of the rotation chain.
THEOREM SavesMoveForwardHolds == Spec => SavesMoveForward
<1> DEFINE Forward ==
      stored # NoTokens /\ stored' # stored
         /\ stored'.refresh.grant = stored.refresh.grant =>
            stored'.refresh.serial > stored.refresh.serial
<1>1. ASSUME TypeOK, Chain, [Next]_vars PROVE [Forward]_vars
  <2>1. SUFFICES ASSUME stored # NoTokens, stored' # stored,
                        stored'.refresh.grant = stored.refresh.grant
                 PROVE  stored'.refresh.serial > stored.refresh.serial
    OBVIOUS
  <2>2. PICK t \in Threads : Carries(t) /\ stored' = held[t]
    BY <1>1, <2>1, WritersCarry
  <2>3. stored.refresh.serial \in Nat /\ held[t].refresh.serial \in Nat
    BY <1>1, <2>1, <2>2, KnownTypes DEF RefreshToken
  <2> QED BY <1>1, <2>1, <2>2, <2>3 DEF Chain
<1> QED BY <1>1, ChainCorrect, PTL DEF Spec, SavesMoveForward

\* Every refresh token saved is accepted next time or was revoked.
THEOREM SavedTokensAreUsableHolds == Spec => SavedTokensAreUsable
<1> DEFINE Usable ==
      stored' # stored =>
         \/ stored'.refresh \in live'
         \/ stored'.refresh.grant \in revoked'
<1>1. ASSUME TypeOK, Chain, [Next]_vars PROVE [Usable]_vars
  <2>1. ASSUME stored' # stored PROVE Usable
    BY <1>1, <2>1, WritersCarry DEF Chain
  <2> QED BY <2>1
<1> QED BY <1>1, ChainCorrect, PTL DEF Spec, SavedTokensAreUsable

\* Successors that explain a dead record.
Explained == lost \cup {held[t].refresh : t \in {u \in Threads : Carries(u)}}

LEMMA ExplanationsLast ==
    ASSUME TypeOK, DeadTokenExplained, UNCHANGED stored, revoked \subseteq revoked',
           lost \subseteq lost',
           \A t \in Threads : Carries(t) =>
              (Carries(t)' /\ held'[t].refresh = held[t].refresh) \/ held[t].refresh \in lost',
           \A r \in live : r \in live' \/ r.grant \in revoked'
                            \/ Successor(r) \in Explained'
    PROVE  DeadTokenExplained'
BY DEF DeadTokenExplained, Explained

\* A stored refresh token the server refuses was revoked, or its successor
\* is being carried or was lost on the way: also an inductive step.
THEOREM DeadTokenExplainedHolds == Spec => []DeadTokenExplained
<1>1. Init => DeadTokenExplained
  BY DEF Init, DeadTokenExplained
<1>2. ASSUME TypeOK, Chain, DeadTokenExplained, [Next]_vars PROVE DeadTokenExplained'
  <2> USE <1>2, ThreadKinds, ExplanationsLast
  <2>1. ASSUME stored' # stored PROVE DeadTokenExplained'
    BY <2>1, WritersCarry DEF Chain, DeadTokenExplained
  <2>2. ASSUME NEW t \in Threads, UNCHANGED stored, Save(t) \/ SaveFails(t)
        PROVE  DeadTokenExplained'
    <3>1. stored' = held[t] \/ lost' = lost \cup {held[t].refresh}
      BY <2>2 DEF Save, SaveFails
    <3>2. CASE stored' = held[t]
      BY <2>2, <3>2 DEF Save, SaveFails, serverVars, Carries, Chain, DeadTokenExplained
    <3>3. CASE lost' = lost \cup {held[t].refresh}
      BY <2>2, <3>3 DEF Save, SaveFails, Finish, serverVars, Carries, TypeOK
    <3> QED BY <3>1, <3>2, <3>3
  <2>3. ASSUME NEW t \in AskThreads, UseStored(t) \/ StartRefresh(t) PROVE DeadTokenExplained'
    BY <2>3 DEF UseStored, StartRefresh, Finish, Goto, serverVars, Carries, TypeOK
  <2>4. ASSUME NEW t \in Threads, LoseResponse(t) PROVE DeadTokenExplained'
    BY <2>4 DEF LoseResponse, Finish, Carries, TypeOK
  <2>5. ASSUME NEW t \in Threads, Receive(t) PROVE DeadTokenExplained'
    BY <2>5 DEF Receive, Goto, serverVars, Carries, TypeOK
  <2>6. ASSUME NEW t \in AskThreads, Load(t) \/ LoadNothing(t) \/ LoadFails(t)
        PROVE  DeadTokenExplained'
    BY <2>6 DEF Load, LoadNothing, LoadFails, Finish, Goto, serverVars, Carries, TypeOK
  <2>7. ASSUME NEW t \in AskThreads, RejectRefresh(t) PROVE DeadTokenExplained'
    BY <2>7 DEF RejectRefresh, Finish, serverVars, Carries, TypeOK
  <2>8. ASSUME NEW t \in AskThreads, GrantRefresh(t) PROVE DeadTokenExplained'
    <3> DEFINE s == Successor(held[t].refresh)
    <3>1. /\ live' = (live \ {held[t].refresh}) \cup {s}
          /\ pc[t] = "posting" /\ pc' = [pc EXCEPT ![t] = "granted"]
          /\ held' = [held EXCEPT ![t] = Issue(s)]
          /\ UNCHANGED <<revoked, stored, lost>>
      BY <2>8 DEF GrantRefresh, Goto
    <3>2. s \in RefreshToken
      BY <2>8, SuccessorType DEF GrantRefresh, TypeOK
    <3>3. held'[t].refresh = s /\ Carries(t)'
      BY <3>1, <3>2, IssueType DEF Carries, TypeOK
    <3>4. s \in Explained'
      BY <3>3 DEF Explained
    <3> QED BY <3>1, <3>4 DEF Carries, TypeOK
  <2>9. ASSUME NEW t \in AuthThreads,
               StartExchange(t) \/ GrantExchange(t) \/ RejectExchange(t)
        PROVE  DeadTokenExplained'
    BY <2>9 DEF StartExchange, GrantExchange, RejectExchange, Finish, Goto, serverVars,
                Carries, TypeOK
  <2>10. ASSUME NEW r \in abandoned, GrantAbandoned(r) PROVE DeadTokenExplained'
    BY <2>10 DEF GrantAbandoned, Carries, Explained
  <2>11. ASSUME NEW g \in (1..grants) \ revoked, Revoke(g) PROVE DeadTokenExplained'
    BY <2>11 DEF Revoke, Carries
  <2>12. ASSUME NEW p \in Processes, Crash(p) PROVE DeadTokenExplained'
    BY <2>12 DEF Crash, Carries, TypeOK
  <2>13. CASE Tick
    BY <2>13 DEF Tick, serverVars, Carries
  <2>14. CASE UNCHANGED vars
    BY <2>14 DEF vars, serverVars, clientVars, Carries
  <2> QED
    BY <2>1, <2>2, <2>3, <2>4, <2>5, <2>6, <2>7, <2>8, <2>9, <2>10, <2>11,
       <2>12, <2>13, <2>14
    DEF Next, ClientStep, AskStep, AuthStep
<1> QED BY <1>1, <1>2, ChainCorrect, PTL DEF Spec

-----------------------------------------------------------------------------
(* When a re-authorization sticks *)

\* No other call is under way while an authorization saves its tokens.
SavesAlone ==
    \A t \in AuthThreads : pc[t] = "saving" => \A u \in Threads \ {t} : pc[u] = "idle"

\* Then a refresh works on the authorization that is stored, and one that waits
\* to be stored is newer.
Current ==
    /\ \A t \in AskThreads : pc[t] # "idle" =>
          stored # NoTokens /\ held[t].refresh.grant = stored.refresh.grant
    /\ \A t \in AuthThreads : Carries(t) /\ stored # NoTokens =>
          held[t].refresh.grant > stored.refresh.grant

\* A step that saves nothing, after which a refresh works on what it worked on
\* or on the record, and an authorization brings what it brought or a new grant.
LEMMA QuietCurrent ==
    ASSUME TypeOK, Chain, Current, UNCHANGED stored,
           \A t \in AskThreads :
              \/ pc'[t] = "idle"
              \/ pc[t] # "idle" /\ held'[t].refresh.grant = held[t].refresh.grant
              \/ stored # NoTokens /\ held'[t] = stored,
           \A t \in AuthThreads : Carries(t)' =>
              \/ Carries(t) /\ held'[t].refresh.grant = held[t].refresh.grant
              \/ held'[t].refresh.grant = grants + 1
    PROVE  Current'
<1>1. ASSUME stored # NoTokens PROVE stored.refresh.grant < grants + 1
  <2>1. stored.refresh.grant \in 1..grants
    BY <1>1, KnownTypes DEF Chain
  <2> QED BY <2>1 DEF TypeOK
<1> QED BY <1>1 DEF Current

\* The save of a refresh keeps the grant, and that of an authorization meets
\* nobody on the way.
LEMMA SaveCurrent ==
    ASSUME TypeOK, Current, SavesAlone, NEW t \in Threads, pc[t] = "saving",
           NEW result, Finish(t, result), stored' \in {stored, held[t]}
    PROVE  Current'
<1>1. /\ pc'[t] = "idle" /\ ~Carries(t)' /\ Carries(t)
      /\ \A u \in Threads \ {t} : pc'[u] = pc[u] /\ held'[u] = held[u]
      /\ \A u \in Threads \ {t} : Carries(u)' <=> Carries(u)
  BY DEF Finish, TypeOK, Carries
<1>2. CASE stored' = stored
  BY <1>1, <1>2, ThreadKinds DEF Current
<1>3. CASE stored' = held[t] /\ t \in AskThreads
  <2>1. stored # NoTokens /\ stored'.refresh.grant = stored.refresh.grant
    BY <1>3 DEF Current
  <2>2. stored' # NoTokens
    BY <1>1, <1>3, KnownTypes
  <2> QED BY <1>1, <1>3, <2>1, <2>2, ThreadKinds DEF Current
<1>4. CASE t \in AuthThreads
  <2>1. \A u \in Threads \ {t} : pc[u] = "idle"
    BY <1>4 DEF SavesAlone
  <2> QED BY <1>1, <1>4, <2>1, ThreadKinds DEF Current, Carries
<1> QED BY <1>2, <1>3, <1>4 DEF Threads

LEMMA CurrentInductive ==
    /\ Init => Current
    /\ TypeOK /\ Chain /\ Current /\ SavesAlone /\ [Next]_vars => Current'
<1>1. Init => Current
  BY ThreadKinds DEF Init, Current, Carries
<1>2. ASSUME TypeOK, Chain, Current, SavesAlone, [Next]_vars PROVE Current'
  <2> USE <1>2, ThreadKinds
  <2>1. ASSUME NEW t \in Threads, Save(t) \/ SaveFails(t) PROVE Current'
    BY <2>1, SaveCurrent DEF Save, SaveFails
  <2>2. ASSUME NEW t \in AskThreads,
               \/ UseStored(t) \/ StartRefresh(t) \/ LoadNothing(t)
               \/ LoadFails(t) \/ RejectRefresh(t)
        PROVE  Current'
    BY <2>2, QuietCurrent DEF UseStored, StartRefresh, LoadNothing, LoadFails, RejectRefresh,
       Finish, Goto, Carries, TypeOK
  <2>3. ASSUME NEW t \in AskThreads, Load(t) PROVE Current'
    BY <2>3, QuietCurrent DEF Load, Goto, Carries, TypeOK
  <2>4. ASSUME NEW t \in AskThreads, GrantRefresh(t) PROVE Current'
    <3>1. held[t].refresh \in RefreshToken
      BY <2>4, KnownTypes DEF GrantRefresh, TypeOK
    <3>2. held'[t].refresh.grant = held[t].refresh.grant
      BY <2>4, <3>1, SuccessorType DEF GrantRefresh, Issue, TypeOK
    <3> QED BY <2>4, <3>2, QuietCurrent DEF GrantRefresh, Goto, Carries, TypeOK
  <2>5. ASSUME NEW t \in Threads, LoseResponse(t) PROVE Current'
    BY <2>5, QuietCurrent DEF LoseResponse, Finish, Carries, TypeOK
  <2>6. ASSUME NEW t \in Threads, Receive(t) PROVE Current'
    <3>1. /\ pc[t] = "granted" /\ Carries(t) /\ UNCHANGED stored
          /\ \A u \in Threads \ {t} : pc'[u] = pc[u] /\ held'[u] = held[u]
      BY <2>6 DEF Receive, Goto, Carries, TypeOK
    <3>2. held'[t].refresh = held[t].refresh
      <4>1. held[t] \in StoredTokens
        BY <3>1 DEF TypeOK
      <4> QED BY <2>6, <4>1 DEF Receive, StoredTokens, TypeOK
    <3> QED BY <3>1, <3>2, QuietCurrent DEF Carries
  <2>7. ASSUME NEW t \in AuthThreads, StartExchange(t) \/ RejectExchange(t) PROVE Current'
    BY <2>7, QuietCurrent DEF StartExchange, RejectExchange, Finish, Goto, Carries, TypeOK
  <2>8. ASSUME NEW t \in AuthThreads, GrantExchange(t) PROVE Current'
    <3>1. held'[t].refresh.grant = grants + 1
      BY <2>8 DEF GrantExchange, Issue, TypeOK
    <3> QED BY <2>8, <3>1, QuietCurrent DEF GrantExchange, Goto, Carries, TypeOK
  <2>9. ASSUME NEW p \in Processes, Crash(p) PROVE Current'
    BY <2>9, QuietCurrent DEF Crash, Carries, TypeOK
  <2>10. CASE \/ \E r \in abandoned : GrantAbandoned(r)
              \/ \E g \in (1..grants) \ revoked : Revoke(g)
              \/ Tick \/ UNCHANGED vars
    BY <2>10 DEF GrantAbandoned, Revoke, Tick, vars, clientVars, Current, Carries
  <2> QED
    BY <2>1, <2>2, <2>3, <2>4, <2>5, <2>6, <2>7, <2>8, <2>9, <2>10
    DEF Next, ClientStep, AskStep, AuthStep
<1> QED BY <1>1, <1>2

\* Only a call that overlaps the save of an authorization can take the fresh
\* tokens back: where no other call is under way while an authorization saves,
\* the record never goes back to an older one, whatever is lost, revoked,
\* refused or stopped.
THEOREM SticksUnlessOverlap == Spec /\ []SavesAlone => ReauthorizationSticks
<1> DEFINE Sticks ==
      stored # NoTokens /\ stored.refresh \in live
         /\ stored'.refresh.grant < stored.refresh.grant =>
            stored'.refresh \in live'
<1>1. ASSUME TypeOK, Chain, Current, [Next]_vars PROVE [Sticks]_vars
  <2>1. SUFFICES ASSUME stored # NoTokens, stored' # stored
                 PROVE  ~(stored'.refresh.grant < stored.refresh.grant)
    BY <1>1, KnownTypes DEF Chain
  <2>2. PICK t \in Threads : Carries(t) /\ stored' = held[t]
    BY <1>1, <2>1, WritersCarry
  <2>3. stored.refresh.grant \in Nat /\ held[t].refresh.grant \in Nat
    BY <1>1, <2>1, <2>2, KnownTypes DEF RefreshToken
  <2>4. held[t].refresh.grant >= stored.refresh.grant
    BY <1>1, <2>1, <2>2, <2>3 DEF Current, Threads, Carries
  <2> QED BY <2>2, <2>3, <2>4
<1>2. Init => Current
  BY CurrentInductive
<1>3. TypeOK /\ Chain /\ Current /\ SavesAlone /\ [Next]_vars => Current'
  BY CurrentInductive
<1> QED BY <1>1, <1>2, <1>3, ChainCorrect, PTL DEF Spec, ReauthorizationSticks

-----------------------------------------------------------------------------
(* The rotation as a lock *)

\* An accepted token that is older than whatever is carried of its grant: then
\* nothing of its grant is carried, for what is carried is the one accepted.
LEMMA UnsavedLocks ==
    ASSUME TypeOK, Chain, NEW r \in live,
           \A t \in Threads : Carries(t) /\ held[t].refresh.grant = r.grant =>
              r.serial < held[t].refresh.serial
    PROVE  \A x \in Unsaved : x.grant # r.grant
<1>1. ASSUME NEW t \in Threads, Carries(t) PROVE held[t].refresh.grant # r.grant
  <2>1. r \in RefreshToken /\ held[t].refresh \in RefreshToken /\ held[t].refresh \in Known
    BY <1>1, KnownTypes DEF TypeOK
  <2>2. held[t].refresh.grant = r.grant => held[t].refresh.serial <= r.serial
    BY <2>1 DEF Chain
  <2> QED BY <1>1, <2>1, <2>2 DEF RefreshToken
<1> QED BY <1>1 DEF Unsaved

\* A step that issues and saves nothing, after which no thread carries a
\* token it did not carry, loses tokens at most.
LEMMA QuietRotation ==
    ASSUME UNCHANGED <<live, grants, revoked, stored>>,
           \A t \in Threads : Carries(t)' => Carries(t) /\ held'[t].refresh = held[t].refresh
    PROVE  Rotation!Lose
<1>1. Unsaved' \subseteq Unsaved
  BY DEF Unsaved
<1> QED BY <1>1 DEF Rotation!Lose, StoredRefresh

\* The end of a save is the abstract Save of what the thread carries.
LEMMA SaveRotation ==
    ASSUME TypeOK, Chain, NEW t \in Threads, Carries(t), stored' = held[t],
           NEW result, Finish(t, result), UNCHANGED <<live, grants, revoked>>
    PROVE  Rotation!Save(held[t].refresh) /\ held[t].refresh \in Unsaved
<1> DEFINE r == held[t].refresh
<1>1. /\ held[t] # NoTokens /\ r \in RefreshToken /\ stored' # NoTokens
      /\ StoredRefresh' = r
  BY KnownTypes DEF StoredRefresh
<1>2. r \in live \/ r.grant \in revoked
  BY DEF Chain
<1>3. StoredRefresh # NoTokens /\ StoredRefresh.grant = r.grant => StoredRefresh.serial < r.serial
  BY DEF Chain, StoredRefresh
<1>4. \A u \in Threads \ {t} : Carries(u) => held[u].refresh # r
  BY <1>1, KnownTypes DEF Chain, RefreshToken
<1>5. \A u \in Threads : Carries(u)' <=> Carries(u) /\ u # t
  BY DEF Finish, Carries, TypeOK
<1>6. \A u \in Threads \ {t} : held'[u] = held[u]
  BY DEF Finish, TypeOK
<1>7. Unsaved' = Unsaved \ {r}
  BY <1>4, <1>5, <1>6 DEF Unsaved
<1>8. r \in Unsaved
  BY DEF Unsaved
<1> HIDE DEF r
<1>9. Rotation!Save(r)
  BY <1>1, <1>2, <1>3, <1>7 DEF Rotation!Save
<1> QED BY <1>8, <1>9 DEF r

\* Every step of the broker is a step of TokenRotation or changes nothing there.
LEMMA RotationStep ==
    ASSUME TypeOK, Chain, [Next]_vars
    PROVE  [Rotation!Next]_(Rotation!rotationVars)
<1> USE ThreadKinds
<1>1. ASSUME Rotation!Lose PROVE Rotation!Next
  BY <1>1 DEF Rotation!Next
<1>2. ASSUME NEW t \in Threads, Save(t) PROVE Rotation!Next
  BY <1>2, SaveRotation DEF Save, serverVars, Carries, Rotation!Next
<1>3. ASSUME NEW t \in Threads, SaveFails(t) PROVE Rotation!Next
  <2>1. CASE stored' = held[t]
    BY <1>3, <2>1, SaveRotation DEF SaveFails, serverVars, Carries, Rotation!Next
  <2>2. CASE stored' = stored
    BY <1>1, <1>3, <2>2, QuietRotation DEF SaveFails, Finish, serverVars, Carries, TypeOK
  <2> QED BY <1>3, <2>1, <2>2 DEF SaveFails
<1>4. ASSUME NEW t \in AskThreads,
             \/ UseStored(t) \/ StartRefresh(t) \/ Load(t) \/ LoadNothing(t)
             \/ LoadFails(t) \/ RejectRefresh(t)
      PROVE  Rotation!Next
  BY <1>1, <1>4, QuietRotation DEF UseStored, StartRefresh, Load, LoadNothing, LoadFails,
     RejectRefresh, Finish, Goto, serverVars, Carries, TypeOK
<1>5. ASSUME NEW t \in AuthThreads, StartExchange(t) \/ RejectExchange(t) PROVE Rotation!Next
  BY <1>1, <1>5, QuietRotation DEF StartExchange, RejectExchange, Finish, Goto, serverVars,
     Carries, TypeOK
<1>6. ASSUME NEW t \in Threads, LoseResponse(t) PROVE Rotation!Next
  BY <1>1, <1>6, QuietRotation DEF LoseResponse, Finish, Carries, TypeOK
<1>7. ASSUME NEW t \in Threads, Receive(t) PROVE Rotation!Next
  <2>1. held[t] \in StoredTokens
    BY <1>7 DEF Receive, TypeOK
  <2>2. \A u \in Threads : held'[u].refresh = held[u].refresh /\ (Carries(u)' => Carries(u))
    BY <1>7, <2>1 DEF Receive, Goto, Carries, StoredTokens, TypeOK
  <2> QED BY <1>1, <1>7, <2>2, QuietRotation DEF Receive, serverVars
<1>8. ASSUME NEW p \in Processes, Crash(p) PROVE Rotation!Next
  BY <1>1, <1>8, QuietRotation DEF Crash, Carries, TypeOK
<1>9. ASSUME Tick PROVE Rotation!Next
  BY <1>1, <1>9, QuietRotation DEF Tick, serverVars, Carries
<1>10. ASSUME NEW t \in AskThreads, GrantRefresh(t) PROVE Rotation!Next
  <2> DEFINE r == held[t].refresh
             s == Successor(r)
  <2>1. /\ pc[t] = "posting" /\ r \in live /\ r \in RefreshToken /\ held[t] # NoTokens
        /\ s \in RefreshToken
    BY <1>10, SuccessorType DEF GrantRefresh, TypeOK
  <2>2. s = [grant |-> r.grant, serial |-> r.serial + 1]
    BY <2>1 DEF Successor, RefreshToken
  <2>3. \A u \in Threads : Carries(u) /\ held[u].refresh.grant = r.grant =>
           r.serial < held[u].refresh.serial
    BY <2>1 DEF Chain, Carries
  <2>4. \A x \in Unsaved : x.grant # r.grant
    BY <2>1, <2>3, UnsavedLocks, KnownTypes
  <2>5. /\ held'[t].refresh = s /\ Carries(t)'
        /\ \A u \in Threads \ {t} : held'[u] = held[u] /\ (Carries(u)' <=> Carries(u))
    BY <1>10, <2>1, IssueType DEF GrantRefresh, Goto, TypeOK, Carries
  <2>6. ~Carries(t)
    BY <2>1 DEF Carries
  <2>7. Unsaved' = Unsaved \cup {s}
    BY <2>5, <2>6 DEF Unsaved
  <2>8. Rotation!Rotate(r)
    BY <1>10, <2>2, <2>4, <2>7 DEF GrantRefresh, Rotation!Rotate, StoredRefresh
  <2> QED BY <2>1, <2>8 DEF Rotation!Next
<1>11. ASSUME NEW r \in abandoned, GrantAbandoned(r) PROVE Rotation!Next
  <2>1. /\ r \in live /\ r \in RefreshToken /\ r \in Known
    BY <1>11 DEF GrantAbandoned, TypeOK, Known
  <2>2. Successor(r) = [grant |-> r.grant, serial |-> r.serial + 1]
    BY <2>1 DEF Successor, RefreshToken
  <2>3. \A u \in Threads : Carries(u) /\ held[u].refresh.grant = r.grant =>
           r.serial < held[u].refresh.serial
    BY <1>11 DEF Chain
  <2>4. \A x \in Unsaved : x.grant # r.grant
    BY <2>1, <2>3, UnsavedLocks
  <2>5. Unsaved' = Unsaved
    BY <1>11 DEF GrantAbandoned, Unsaved, Carries
  <2>6. Rotation!Rotate(r)
    BY <1>11, <2>2, <2>4, <2>5 DEF GrantAbandoned, Rotation!Rotate, StoredRefresh
  <2> QED BY <2>1, <2>6 DEF Rotation!Next
<1>12. ASSUME NEW t \in AuthThreads, GrantExchange(t) PROVE Rotation!Next
  <2> DEFINE s == [grant |-> grants + 1, serial |-> 0]
  <2>1. s \in RefreshToken
    BY DEF RefreshToken, TypeOK
  <2>2. /\ held'[t].refresh = s /\ Carries(t)' /\ ~Carries(t)
        /\ \A u \in Threads \ {t} : held'[u] = held[u] /\ (Carries(u)' <=> Carries(u))
    BY <1>12, <2>1, IssueType DEF GrantExchange, Goto, TypeOK, Carries
  <2>3. Unsaved' = Unsaved \cup {s}
    BY <2>2 DEF Unsaved
  <2>4. Rotation!Authorize
    BY <1>12, <2>3 DEF GrantExchange, Rotation!Authorize, StoredRefresh
  <2> QED BY <2>4 DEF Rotation!Next
<1>13. ASSUME NEW g \in (1..grants) \ revoked, Revoke(g) PROVE Rotation!Next
  <2>1. Unsaved' = Unsaved
    BY <1>13 DEF Revoke, Unsaved, Carries
  <2>2. Rotation!Revoke(g)
    BY <1>13, <2>1 DEF Revoke, Rotation!Revoke, StoredRefresh
  <2> QED BY <2>2 DEF Rotation!Next
<1>14. CASE UNCHANGED vars
  BY <1>14 DEF vars, serverVars, clientVars, Rotation!rotationVars, StoredRefresh, Unsaved,
     Carries
<1> QED
  BY <1>2, <1>3, <1>4, <1>5, <1>6, <1>7, <1>8, <1>9, <1>10, <1>11, <1>12, <1>13, <1>14
  DEF Next, ClientStep, AskStep, AuthStep

\* The broker implements TokenRotation: a refresh token that was issued and
\* not saved locks its grant against another rotation, in any number of
\* processes that take no lock of their own.
THEOREM ImplementsRotationHolds == Spec => ImplementsRotation
<1>1. Init => Rotation!Init
  BY DEF Init, Rotation!Init, StoredRefresh, Unsaved, Carries
<1>2. TypeOK /\ Chain /\ [Next]_vars => [Rotation!Next]_(Rotation!rotationVars)
  BY RotationStep
<1> QED BY <1>1, <1>2, ChainCorrect, PTL DEF Spec, ImplementsRotation, Rotation!Spec
=============================================================================

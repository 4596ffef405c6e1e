----------------------------- MODULE TokenBroker -----------------------------
(***************************************************************************)
(* The Salesforce token lifecycle of auth/token_broker.py: get, refresh    *)
(* and (re)authorize, run by several server processes that share one       *)
(* CredentialStore record, against an authorization server that rotates    *)
(* refresh tokens.                                                         *)
(*                                                                         *)
(* A process has two threads that use the broker.  "ask" is the event loop,*)
(* where the MCP header provider calls get_valid_access_token one call at  *)
(* a time; "auth" is the thread of an authorization callback, which calls  *)
(* exchange_code_for_tokens.  Nothing in the code keeps the two, or two    *)
(* processes, from running at once.                                        *)
(*                                                                         *)
(* Time is a global clock in ticks.  A request may be lost, answered late, *)
(* or decided by the server after the client has given up on it.           *)
(***************************************************************************)
EXTENDS Integers

CONSTANTS
    Processes,       \* the processes that share the credential store
    NoTokens,        \* what load() returns when nothing is stored
    Skew,            \* _REFRESH_SKEW_SECONDS
    RequestTimeout,  \* the longest a token request takes before it is given up
    StoreDelay,      \* the longest a save takes once the response is received
    Lifetime,        \* how long the server really accepts an access token
    StatedLifetime,  \* the expires_in it states, or the default of 7200
    MaxTime,         \* bound on the clock
    MaxGrants        \* bound on the number of authorizations

RefreshToken == [grant : Nat, serial : Nat]

\* access_until, the time the server stops accepting the access token, is
\* known to the server only; expires_at is the client's estimate of it.
StoredTokens == [refresh : RefreshToken, access_until : Int, expires_at : Int]

ASSUME NoTokensAssumption == NoTokens \notin StoredTokens

ASSUME BoundsAssumption == MaxTime \in Nat /\ MaxGrants \in Nat

ASSUME TimingAssumption ==
    /\ {Skew, RequestTimeout, StoreDelay, Lifetime, StatedLifetime} \subseteq Nat
    /\ StatedLifetime <= Lifetime
    /\ StoreDelay + Skew <= Lifetime

AskThreads  == Processes \X {"ask"}
AuthThreads == Processes \X {"auth"}
Threads     == AskThreads \cup AuthThreads

VARIABLES
    now,        \* the clock
    live,       \* refresh tokens the server accepts
    grants,     \* authorizations the server has made so far
    revoked,    \* authorizations it has revoked since
    abandoned,  \* refresh tokens of given-up requests that may yet reach it
    stored,     \* the one record of the credential store
    pc,         \* where each thread stands in its call
    held,       \* the tokens each thread works on
    since,      \* when its current request, or its save, began
    answer,     \* what the last step returned or raised to a caller, if it did
    lost        \* refresh tokens the server issued and nobody will ever save

serverVars == <<live, grants, revoked, abandoned>>
clientVars == <<pc, held, since, answer>>
vars == <<now, serverVars, stored, clientVars, lost>>

Answers == {"none", "served", "no_tokens", "rejected", "no_response",
            "store_error", "authorized", "code_rejected"}

-----------------------------------------------------------------------------
\* The step ends the call of thread t with the given answer.
Finish(t, result) ==
    /\ pc'     = [pc    EXCEPT ![t] = "idle"]
    /\ held'   = [held  EXCEPT ![t] = NoTokens]
    /\ since'  = [since EXCEPT ![t] = 0]
    /\ answer' = result

\* The step takes thread t to another point of its call.
Goto(t, label) ==
    /\ pc'     = [pc EXCEPT ![t] = label]
    /\ answer' = "none"

Successor(r) == [r EXCEPT !.serial = @ + 1]

\* What the server issues at this moment; the client has yet to date it.
Issue(r) == [refresh |-> r, access_until |-> now + Lifetime, expires_at |-> 0]

\* Threads whose tokens the server has issued and the store does not hold.
Carries(t) == pc[t] \in {"granted", "saving"}

NeedsRefreshNoSkew(tokens) == tokens.expires_at <= now

NeedsRefresh(tokens) == tokens.expires_at - Skew <= now

-----------------------------------------------------------------------------
(* get_valid_access_token *)

LoadUnchecked(t) ==
    /\ pc[t] = "idle"
    /\ held' = [held EXCEPT ![t] = stored]
    /\ Goto(t, "loaded")
    /\ UNCHANGED <<now, serverVars, stored, since, lost>>

Load(t) ==
    /\ pc[t] = "idle"
    /\ stored # NoTokens
    /\ held' = [held EXCEPT ![t] = stored]
    /\ Goto(t, "loaded")
    /\ UNCHANGED <<now, serverVars, stored, since, lost>>

LoadNothing(t) ==
    /\ pc[t] = "idle"
    /\ stored = NoTokens
    /\ Finish(t, "no_tokens")
    /\ UNCHANGED <<now, serverVars, stored, lost>>

LoadFails(t) ==
    /\ pc[t] = "idle"
    /\ Finish(t, "store_error")
    /\ UNCHANGED <<now, serverVars, stored, lost>>

UseStored(t) ==
    /\ pc[t] = "loaded"
    /\ ~NeedsRefresh(held[t])
    /\ Finish(t, "served")
    /\ UNCHANGED <<now, serverVars, stored, lost>>

StartRefresh(t) ==
    /\ pc[t] = "loaded"
    /\ NeedsRefresh(held[t])
    /\ since' = [since EXCEPT ![t] = now]
    /\ Goto(t, "posting")
    /\ UNCHANGED <<now, serverVars, stored, held, lost>>

-----------------------------------------------------------------------------
(* The authorization server's side of a refresh.  It decides once: a live  *)
(* token is replaced by its successor, any other is refused.               *)

GrantRefresh(t) ==
    LET r == held[t].refresh IN
    /\ pc[t] = "posting"
    /\ r \in live
    /\ live' = (live \ {r}) \cup {Successor(r)}
    /\ held' = [held EXCEPT ![t] = Issue(Successor(r))]
    /\ Goto(t, "granted")
    /\ UNCHANGED <<now, grants, revoked, abandoned, stored, since, lost>>

RejectRefresh(t) ==
    /\ pc[t] = "posting"
    /\ held[t].refresh \notin live
    /\ Finish(t, "rejected")
    /\ UNCHANGED <<now, serverVars, stored, lost>>

\* A request the client gave up on reaches the server after all.
GrantAbandoned(r) ==
    /\ r \in live
    /\ live'      = (live \ {r}) \cup {Successor(r)}
    /\ abandoned' = abandoned \ {r}
    /\ lost'      = lost \cup {Successor(r)}
    /\ answer'    = "none"
    /\ UNCHANGED <<now, grants, revoked, stored, pc, held, since>>

\* The user, an administrator or the inactivity policy withdraws grant g.
Revoke(g) ==
    /\ revoked' = revoked \cup {g}
    /\ live'    = {r \in live : r.grant # g}
    /\ answer'  = "none"
    /\ UNCHANGED <<now, grants, abandoned, stored, pc, held, since, lost>>

-----------------------------------------------------------------------------
(* exchange_code_for_tokens *)

StartExchange(t) ==
    /\ pc[t] = "idle"
    /\ since' = [since EXCEPT ![t] = now]
    /\ Goto(t, "posting")
    /\ UNCHANGED <<now, serverVars, stored, held, lost>>

GrantExchange(t) ==
    LET first == [grant |-> grants + 1, serial |-> 0] IN
    /\ pc[t] = "posting"
    /\ grants < MaxGrants
    /\ grants' = grants + 1
    /\ live'   = live \cup {first}
    /\ held'   = [held EXCEPT ![t] = Issue(first)]
    /\ Goto(t, "granted")
    /\ UNCHANGED <<now, revoked, abandoned, stored, since, lost>>

RejectExchange(t) ==
    /\ pc[t] = "posting"
    /\ Finish(t, "code_rejected")
    /\ UNCHANGED <<now, serverVars, stored, lost>>

-----------------------------------------------------------------------------
(* _post_token_request as both callers see it, and the save that follows.  *)

LoseResponseOnlyIfSent(t) ==
    /\ pc[t] = "granted"
    /\ lost' = lost \cup {held[t].refresh}
    /\ UNCHANGED <<now, serverVars, stored>>
    /\ Finish(t, "no_response")

\* A time-out, a broken connection or an unusable answer.  What the server
\* had issued is lost; a refresh it had not seen yet may still reach it.
LoseResponse(t) ==
    /\ pc[t] \in {"posting", "granted"}
    /\ lost' = IF pc[t] = "granted" THEN lost \cup {held[t].refresh} ELSE lost
    /\ abandoned' = IF pc[t] = "posting" /\ t \in AskThreads
                    THEN abandoned \cup {held[t].refresh} ELSE abandoned
    /\ Finish(t, "no_response")
    /\ UNCHANGED <<now, live, grants, revoked, stored>>

ReceiveKeepingRefreshToken(t) ==
    /\ pc[t] = "granted"
    /\ held' = [held EXCEPT ![t].expires_at = now + StatedLifetime,
                            ![t].refresh = IF stored = NoTokens THEN @
                                           ELSE stored.refresh]
    /\ since' = [since EXCEPT ![t] = now]
    /\ Goto(t, "saving")
    /\ UNCHANGED <<now, serverVars, stored, lost>>

Receive(t) ==
    /\ pc[t] = "granted"
    /\ held'  = [held EXCEPT ![t].expires_at = now + StatedLifetime]
    /\ since' = [since EXCEPT ![t] = now]
    /\ Goto(t, "saving")
    /\ UNCHANGED <<now, serverVars, stored, lost>>

Success(t) == IF t \in AskThreads THEN "served" ELSE "authorized"

SaveOnlyIfNew(t) ==
    /\ pc[t] = "saving"
    /\ stored' = IF stored = NoTokens THEN held[t] ELSE stored
    /\ Finish(t, Success(t))
    /\ UNCHANGED <<now, serverVars, lost>>

Save(t) ==
    /\ pc[t] = "saving"
    /\ stored' = held[t]
    /\ Finish(t, Success(t))
    /\ UNCHANGED <<now, serverVars, lost>>

\* The store raises, having written the record or not.
SaveFails(t) ==
    /\ pc[t] = "saving"
    /\ \/ stored' = held[t] /\ lost' = lost
       \/ stored' = stored  /\ lost' = lost \cup {held[t].refresh}
    /\ Finish(t, "store_error")
    /\ UNCHANGED <<now, serverVars>>

-----------------------------------------------------------------------------
\* A process stops with both its threads, wherever they are, and restarts.
Crash(p) ==
    LET gone == {t \in {p} \X {"ask", "auth"} : pc[t] # "idle"} IN
    /\ gone # {}
    /\ lost' = lost \cup {held[t].refresh : t \in {u \in gone : Carries(u)}}
    /\ abandoned' = abandoned \cup
          {held[t].refresh : t \in {u \in gone \cap AskThreads : pc[u] = "posting"}}
    /\ pc'     = [t \in Threads |-> IF t \in gone THEN "idle" ELSE pc[t]]
    /\ held'   = [t \in Threads |-> IF t \in gone THEN NoTokens ELSE held[t]]
    /\ since'  = [t \in Threads |-> IF t \in gone THEN 0 ELSE since[t]]
    /\ answer' = "none"
    /\ UNCHANGED <<now, live, grants, revoked, stored>>

\* Time passes, but never past the moment a request or a save must end.
Tick ==
    /\ now < MaxTime
    /\ \A t \in Threads :
          /\ pc[t] \in {"posting", "granted"} => now < since[t] + RequestTimeout
          /\ pc[t] = "saving" => now < since[t] + StoreDelay
    /\ now' = now + 1
    /\ answer' = "none"
    /\ UNCHANGED <<serverVars, stored, pc, held, since, lost>>

-----------------------------------------------------------------------------
Init ==
    /\ now = 0
    /\ live = {} /\ grants = 0 /\ revoked = {} /\ abandoned = {}
    /\ stored = NoTokens
    /\ pc    = [t \in Threads |-> "idle"]
    /\ held  = [t \in Threads |-> NoTokens]
    /\ since = [t \in Threads |-> 0]
    /\ answer = "none"
    /\ lost = {}

\* What a thread does by itself once its call has begun.
ClientStep(t) ==
    \/ t \in AskThreads /\ (UseStored(t) \/ StartRefresh(t))
    \/ LoseResponse(t) \/ Receive(t) \/ Save(t) \/ SaveFails(t)

AskStep(t) ==
    \/ Load(t) \/ LoadNothing(t) \/ LoadFails(t)
    \/ GrantRefresh(t) \/ RejectRefresh(t)

AuthStep(t) == StartExchange(t) \/ GrantExchange(t) \/ RejectExchange(t)

Next ==
    \/ \E t \in Threads : ClientStep(t)
    \/ \E t \in AskThreads : AskStep(t)
    \/ \E t \in AuthThreads : AuthStep(t)
    \/ \E r \in abandoned : GrantAbandoned(r)
    \/ \E g \in (1..grants) \ revoked : Revoke(g)
    \/ \E p \in Processes : Crash(p)
    \/ Tick

Spec == Init /\ [][Next]_vars

\* The server owes the client nothing; the client runs, and its socket
\* time-out ends a request that stays unanswered.
FairSpec == Spec /\ \A t \in Threads : WF_vars(ClientStep(t))

-----------------------------------------------------------------------------
(* Properties *)

\* Type correctness; in particular a call works on a real record from the
\* moment load() is checked for None until it ends.
TypeOK ==
    /\ now \in Nat /\ grants \in Nat
    /\ live \subseteq RefreshToken /\ lost \subseteq RefreshToken
    /\ abandoned \subseteq RefreshToken
    /\ revoked \subseteq Nat
    /\ stored \in StoredTokens \cup {NoTokens}
    /\ pc \in [Threads -> {"idle", "loaded", "posting", "granted", "saving"}]
    /\ held \in [Threads -> StoredTokens \cup {NoTokens}]
    /\ since \in [Threads -> Nat]
    /\ answer \in Answers
    /\ \A t \in Threads : pc[t] \in {"loaded", "granted", "saving"} => held[t] # NoTokens
    /\ \A t \in AskThreads : pc[t] = "posting" => held[t] # NoTokens
    /\ \A t \in AuthThreads : pc[t] # "loaded"

\* The promise of get_valid_access_token and the purpose of
\* _REFRESH_SKEW_SECONDS: a token handed to a caller is one the server goes
\* on accepting for the skew less the time a token request may have taken
\* (the client dates expires_at when the response arrives, later than the
\* server dated the token), whoever refreshed, saved or failed meanwhile.
ReturnedTokenCoversCall ==
    [][\A t \in AskThreads :
          pc[t] # "idle" /\ pc'[t] = "idle" /\ answer' = "served" =>
             held[t].access_until >= now + Skew - RequestTimeout]_vars

\* Processes refresh and save without any lock, yet a save never puts back
\* an older member of the rotation chain: a second refresh from the same
\* record is refused by the server, so only one process carries a successor.
SavesMoveForward ==
    [][stored # NoTokens /\ stored' # stored
          /\ stored'.refresh.grant = stored.refresh.grant =>
             stored'.refresh.serial > stored.refresh.serial]_vars

\* What refresh_access_token and exchange_code_for_tokens save is a refresh
\* token the server will accept next time, unless its grant was revoked.
SavedTokensAreUsable ==
    [][stored' # stored =>
          \/ stored'.refresh \in live'
          \/ stored'.refresh.grant \in revoked']_vars

\* The store holds a refresh token the server no longer accepts only if the
\* grant was revoked, a thread is about to save the successor, or the
\* successor died between the rotation and the save.
DeadTokenExplained ==
    stored # NoTokens =>
        \/ stored.refresh \in live
        \/ stored.refresh.grant \in revoked
        \/ Successor(stored.refresh) \in
              lost \cup {held[t].refresh : t \in {u \in Threads : Carries(u)}}

\* Every call ends with a token or an error: the token request has a
\* time-out, so neither a silent server nor another process can hang it.
CallsFinish == \A t \in Threads : (pc[t] # "idle") ~> (pc[t] = "idle")

\* server/app.py:159-161 offers re-authorization as the cure: "Re-authorize
\* ..., then retry".  Once its tokens are stored and accepted, no save puts an
\* older, dead authorization back in their place.
ReauthorizationSticks ==
    [][stored # NoTokens /\ stored.refresh \in live
          /\ stored'.refresh.grant < stored.refresh.grant =>
             stored'.refresh \in live']_vars

-----------------------------------------------------------------------------
(* The abstract specification *)

StoredRefresh == IF stored = NoTokens THEN NoTokens ELSE stored.refresh

Unsaved == {held[t].refresh : t \in {u \in Threads : Carries(u)}}

Rotation == INSTANCE TokenRotation
    WITH NoToken <- NoTokens, record <- StoredRefresh, accepted <- live,
         unsaved <- Unsaved, revoked <- revoked, issued <- grants

\* The module comment of TokenRotation: however many processes refresh one
\* record without a lock, whatever is lost, given up, revoked or stopped, a
\* grant has one unsaved successor at most, the server rotates it again only
\* once that one is saved or lost, and each save moves its grant forward.
ImplementsRotation == Rotation!Spec
=============================================================================

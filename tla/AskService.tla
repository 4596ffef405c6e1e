------------------------------ MODULE AskService ------------------------------
(***************************************************************************)
(* server/app.py over the token broker: one server process, its start, its *)
(* event loop, the questions it answers, and the pages (app/app.py) of the *)
(* users who ask them and do what the error messages say.                  *)
(*                                                                         *)
(* The module extends TokenBroker: the thread <<Server, "ask">> is the     *)
(* event loop, which a question occupies for the whole of a broker call,   *)
(* since the header provider calls the broker synchronously.  The loop     *)
(* serves what is ready to run first come, first served.  The service runs *)
(* as deployed, over the hosted store.                                     *)
(***************************************************************************)
EXTENDS TokenBroker, Settings, Sequences

CONSTANTS
    Server,        \* the one process of the deployment
    Environments,  \* the environments it may be started with
    Pages,         \* the users' pages
    Jobs,          \* questions the service works on at once
    Probe,         \* a health check
    ProbeTurns,    \* the turns on the loop that one takes
    Nobody,        \* in place of a page: nobody waits for the question
    MaxRounds,     \* bound on the sessions with Salesforce for one question
    Reserve        \* authorizations MaxGrants keeps for calm times

ASSUME ServerAssumption ==
    /\ Processes = {Server}
    /\ Environments \subseteq {e \in Environment : Backend(e) # "local"}
ASSUME NamesAssumption == Probe \notin Jobs /\ Nobody \notin Pages
ASSUME RoundsAssumption == MaxRounds \in Nat /\ Reserve \in Nat
ASSUME TurnsAssumption == ProbeTurns \in Nat \ {0}

VARIABLES
    service,  \* "up" or "down"
    env,      \* the environment of the last start
    foreign,  \* the record is encrypted with a key that is not the process's
    ready,    \* what waits for its turn on the loop; the first runs
    job,      \* what each question is doing, for whom, and with whose grant
    page,     \* what each page shows
    turn,     \* the turn the probe waits for, or has had; 0 without a probe
    passed,   \* questions that have called the broker since it waits
    calm      \* nothing fails any more, and users follow the advice given

brokerVars  == vars
serviceVars == <<service, env, foreign, ready, job, page, turn, passed, calm>>
askVars     == <<brokerVars, serviceVars>>

Loop     == <<Server, "ask">>
Callback == <<Server, "auth">>

Job == [stage : {"free", "new", "awaiting", "resumed"},
        asker : Pages \cup {Nobody}, grant : Nat, rounds : Nat]

Free == [stage |-> "free", asker |-> Nobody, grant |-> 0, rounds |-> 0]

Shown == {"blank", "waiting", "answer", "reauthorize", "retry", "failed",
          "authorizing"}

Waiting(x) == \E i \in 1..Len(ready) : ready[i] = x

\* What the loop does next belongs to question j.
AtLoop(j) == service = "up" /\ ready # <<>> /\ ready[1] = j /\ j \in Jobs

-----------------------------------------------------------------------------
(* Starting and stopping *)

\* Render restarts a service that exits, and one whose start failed, which
\* changes nothing; someone may change its environment.  That may be the key,
\* to another than that of the record, or back.
Start(e) ==
    /\ service = "down" /\ ~calm
    /\ Starts(e)
    /\ service' = "up" /\ env' = e
    /\ foreign' \in IF stored = NoTokens THEN {FALSE} ELSE BOOLEAN
    /\ UNCHANGED <<brokerVars, ready, job, page, turn, passed, calm>>

\* The process stops with all it was doing; the pages see the connection go.
Stop ==
    /\ service = "up" /\ ~calm
    /\ \/ Crash(Server)
       \/ pc[Loop] = "idle" /\ pc[Callback] = "idle" /\ UNCHANGED brokerVars
    /\ service' = "down"
    /\ ready'   = <<>>
    /\ job'     = [j \in Jobs |-> Free]
    /\ page'    = [u \in Pages |->
                     IF page[u] \in {"waiting", "authorizing"} THEN "failed" ELSE page[u]]
    /\ turn' = 0 /\ passed' = {}
    /\ UNCHANGED <<env, foreign, calm>>

-----------------------------------------------------------------------------
(* The page: ask_agent *)

\* A user asks, the first time or again; in calm times one who was told to
\* re-authorize does so first.
Ask(u, j) ==
    /\ page[u] \notin {"waiting", "authorizing"}
    /\ calm => page[u] # "reauthorize"
    /\ service = "up" /\ KeyConfigured(env)
    /\ job[j].stage = "free"
    /\ page'  = [page EXCEPT ![u] = "waiting"]
    /\ job'   = [job EXCEPT ![j] = [stage |-> "new", asker |-> u,
                                    grant |-> 0, rounds |-> 0]]
    /\ ready' = Append(ready, j)
    /\ UNCHANGED <<brokerVars, service, env, foreign, turn, passed, calm>>

\* The page sends the key the service has; a service without one answers 500
\* to every question.
AskInVain(u) ==
    /\ page[u] \notin {"waiting", "authorizing", "failed"}
    /\ ~(service = "up" /\ KeyConfigured(env))
    /\ page' = [page EXCEPT ![u] = "failed"]
    /\ UNCHANGED <<brokerVars, service, env, foreign, ready, job, turn, passed, calm>>

\* After _REQUEST_TIMEOUT_SECONDS the page gives up.  The service goes on with
\* the question; the user may ask it again, beside the first.
GiveUp(u) ==
    /\ page[u] = "waiting" /\ ~calm
    /\ page' = [page EXCEPT ![u] = "failed"]
    /\ job'  = [j \in Jobs |->
                  IF job[j].asker = u THEN [job[j] EXCEPT !.asker = Nobody] ELSE job[j]]
    /\ UNCHANGED <<brokerVars, service, env, foreign, ready, turn, passed, calm>>

-----------------------------------------------------------------------------
(* ask *)

\* Loading decrypts the record, and cannot if it is under another key.
Readable == ~foreign

\* Whoever writes the record encrypts it with the key of the process.
Reencrypt == foreign' = (foreign /\ stored' = stored)

\* What the broker's failures raise.  urllib raises HTTPError for a refusal
\* and for a server error, URLError while it connects, and what the socket
\* raises while it waits; the answer may also be no JSON, or lack a field.
Raises(result) ==
    CASE result = "no_tokens"   -> {"RuntimeError"}
      [] result = "rejected"    -> {"HTTPError"}
      [] result = "no_response" -> {"HTTPError", "TimeoutError", "ConnectionError",
                                    "URLError", "ValueError"}
      [] result = "store_error" ->
             (IF Readable THEN {} ELSE {"InvalidToken"})
                \cup (IF calm THEN {} ELSE {"RuntimeError", "RedisError"})

CaughtWithoutHTTPError == {"RuntimeError", "ConnectionError", "TimeoutError"}

\* The first except clause: "re-authorize".  Any other error: "retry shortly".
Caught == {"RuntimeError", "ConnectionError", "TimeoutError", "HTTPError"}

Advice(error) == IF error \in Caught THEN "reauthorize" ELSE "retry"

\* The question ends and the loop turns to what is next; the page, if it
\* still waits, shows the outcome.
End(j, outcome) ==
    /\ ready' = Tail(ready)
    /\ job'   = [job EXCEPT ![j] = Free]
    /\ page'  = [u \in Pages |-> IF u = job[j].asker THEN outcome ELSE page[u]]

\* A session with Salesforce begins with a token, of this grant.
Await(j) ==
    /\ ready' = Tail(ready)
    /\ job'   = [job EXCEPT ![j] = [stage  |-> "awaiting",
                                    asker  |-> @.asker,
                                    grant  |-> held[Loop].refresh.grant,
                                    rounds |-> @.rounds + 1]]
    /\ UNCHANGED page

\* The question leaves the loop to others while its broker call goes on.
SettleWithoutBlocking(j) ==
    IF pc'[Loop] # "idle" THEN ready' = Tail(ready) /\ UNCHANGED <<job, page>>
    ELSE IF answer' = "served" THEN Await(j)
    ELSE \E error \in Raises(answer') : End(j, Advice(error))

\* A token endpoint that does not answer is tried again at once.
SettleRetrying(j) ==
    IF pc'[Loop] # "idle" \/ answer' = "no_response"
    THEN UNCHANGED <<ready, job, page>>
    ELSE IF answer' = "served" THEN Await(j)
    ELSE \E error \in Raises(answer') : End(j, Advice(error))

\* The broker call ends, with this step, or goes on.
Settle(j) ==
    IF pc'[Loop] # "idle" THEN UNCHANGED <<ready, job, page>>
    ELSE IF answer' = "served" THEN Await(j)
    ELSE \E error \in Raises(answer') : End(j, Advice(error))

\* The header provider calls get_valid_access_token: before the first answer
\* of the model, and again before each further session.
CallBroker(j) ==
    /\ AtLoop(j)
    /\ \/ job[j].stage = "new"
       \/ job[j].stage = "resumed" /\ job[j].rounds < MaxRounds
    /\ \/ Readable /\ (Load(Loop) \/ LoadNothing(Loop))
       \/ (~Readable \/ ~calm) /\ LoadFails(Loop)
    /\ Settle(j)
    /\ passed' = IF Waiting(Probe) THEN passed \cup {j} ELSE passed
    /\ UNCHANGED <<service, env, foreign, turn, calm>>

ContinueCall(j) ==
    /\ AtLoop(j)
    /\ \/ UseStored(Loop) \/ StartRefresh(Loop) \/ Receive(Loop) \/ Save(Loop)
       \/ GrantRefresh(Loop) \/ RejectRefresh(Loop)
       \/ ~calm /\ (LoseResponse(Loop) \/ SaveFails(Loop))
    /\ Settle(j) /\ Reencrypt
    /\ UNCHANGED <<service, env, turn, passed, calm>>

\* Salesforce accepts the access token of a grant that is not revoked.
SessionAccepted(j) == job[j].grant \notin revoked

\* What the question waited for, a session with an MCP server or an answer of
\* the model, has come, or failed; it queues up for the loop.
Resume(j) ==
    /\ job[j].stage = "awaiting"
    /\ job'   = [job EXCEPT ![j].stage = "resumed"]
    /\ ready' = Append(ready, j)
    /\ UNCHANGED <<brokerVars, service, env, foreign, page, turn, passed, calm>>

\* The question ends without another call of the broker.
Finalize(j) ==
    /\ AtLoop(j) /\ pc[Loop] = "idle"
    /\ job[j].stage = "resumed"
    /\ \/ SessionAccepted(j) /\ End(j, "answer")
       \/ (~SessionAccepted(j) \/ ~calm) /\ End(j, Advice("ConnectionError"))
       \/ ~calm /\ End(j, Advice("ResourceExhausted"))
    /\ UNCHANGED <<brokerVars, service, env, foreign, turn, passed, calm>>

-----------------------------------------------------------------------------
(* health *)

\* A health check takes several turns on the loop: to take the connection, to
\* start its task, and, since health is a plain function that runs in a thread
\* of the pool, to go on once that has ended.  The loop notices it:
ProbeArrives ==
    /\ service = "up" /\ turn = 0
    /\ turn'  = 1
    /\ ready' = Append(ready, Probe)
    /\ UNCHANGED <<brokerVars, service, env, foreign, job, page, passed, calm>>

\* It has its turn; after the last one it is answered.
ProbeTurn ==
    /\ service = "up" /\ ready # <<>> /\ ready[1] = Probe
    /\ ready'  = Tail(ready)
    /\ turn'   = IF turn = ProbeTurns THEN 0 ELSE turn
    /\ passed' = {}
    /\ UNCHANGED <<brokerVars, service, env, foreign, job, page, calm>>

\* What it waited for outside the loop has come; it queues up again.
ProbeReturns ==
    /\ turn \in 1..(ProbeTurns - 1) /\ ~Waiting(Probe)
    /\ turn'  = turn + 1
    /\ ready' = Append(ready, Probe)
    /\ UNCHANGED <<brokerVars, service, env, foreign, job, page, passed, calm>>

-----------------------------------------------------------------------------
(* Re-authorization through the service: server/oauth.py *)

Authorize(u) ==
    /\ service = "up" /\ AuthorizationConfigured(env)
    /\ page[u] \notin {"waiting", "authorizing"}
    /\ calm => page[u] = "reauthorize"
    /\ StartExchange(Callback)
    /\ page' = [page EXCEPT ![u] = "authorizing"]
    /\ UNCHANGED <<service, env, foreign, ready, job, turn, passed, calm>>

\* /authorize, or /callback after a restart, ends in 500; the advice stands.
AuthorizeInVain(u) ==
    /\ service = "up" /\ ~AuthorizationConfigured(env)
    /\ page[u] \notin {"waiting", "authorizing"}
    /\ calm => page[u] = "reauthorize"
    /\ page' = [page EXCEPT ![u] = "reauthorize"]
    /\ UNCHANGED <<brokerVars, service, env, foreign, ready, job, turn, passed, calm>>

\* The user whose authorization ends sees it: when it failed, an error page,
\* and the advice stands.
ContinueAuthorization ==
    /\ \/ GrantExchange(Callback) /\ (calm \/ grants + Reserve < MaxGrants)
       \/ Receive(Callback) \/ Save(Callback)
       \/ ~calm /\ (RejectExchange(Callback) \/ LoseResponse(Callback)
                       \/ SaveFails(Callback))
    /\ page' = IF pc'[Callback] # "idle" THEN page
               ELSE [u \in Pages |->
                       IF page[u] # "authorizing" THEN page[u]
                       ELSE IF answer' = "authorized" THEN "blank" ELSE "reauthorize"]
    /\ Reencrypt
    /\ UNCHANGED <<service, env, ready, job, turn, passed, calm>>

-----------------------------------------------------------------------------
(* The rest of the world *)

\* The clock and the authorization server.
Elsewhere ==
    /\ \/ Tick
       \/ ~calm /\ \E r \in abandoned : GrantAbandoned(r)
       \/ ~calm /\ \E g \in (1..grants) \ revoked : Revoke(g)
    /\ UNCHANGED serviceVars

\* From now on Salesforce, Redis and Gemini work, and the service stays up.
BeCalm ==
    /\ ~calm /\ service = "up"
    /\ calm' = TRUE
    /\ UNCHANGED <<brokerVars, service, env, foreign, ready, job, page, turn, passed>>

AskInit ==
    /\ Init
    /\ service = "down" /\ env \in Environments
    /\ foreign = FALSE /\ calm = FALSE
    /\ ready = <<>> /\ turn = 0 /\ passed = {}
    /\ job  = [j \in Jobs |-> Free]
    /\ page = [u \in Pages |-> "blank"]

\* What is first in the queue has the loop.
LoopTurn ==
    \/ \E j \in Jobs : CallBroker(j) \/ ContinueCall(j) \/ Finalize(j)
    \/ ProbeTurn

UserStep(u) ==
    Authorize(u) \/ AuthorizeInVain(u) \/ \E j \in Jobs : Ask(u, j)

AskNext ==
    \/ \E e \in Environments : Start(e)
    \/ Stop \/ BeCalm
    \/ \E u \in Pages : UserStep(u) \/ AskInVain(u) \/ GiveUp(u)
    \/ LoopTurn
    \/ \E j \in Jobs : Resume(j)
    \/ ProbeArrives \/ ProbeReturns
    \/ ContinueAuthorization
    \/ Elsewhere

AskSpec == AskInit /\ [][AskNext]_askVars

\* The loop and the callback thread run, what a question awaits comes (the
\* model and the MCP sessions have time-outs of their own), and in calm times
\* users do as they are told.
AskFairSpec ==
    /\ AskSpec
    /\ WF_askVars(LoopTurn) /\ \A j \in Jobs : WF_askVars(Resume(j))
    /\ WF_askVars(ContinueAuthorization)
    /\ \A u \in Pages : WF_askVars(calm /\ UserStep(u))

-----------------------------------------------------------------------------
(* Properties *)

AskTypeOK ==
    /\ service \in {"up", "down"} /\ env \in Environments
    /\ foreign \in BOOLEAN /\ calm \in BOOLEAN
    /\ ready \in Seq(Jobs \cup {Probe})
    /\ job \in [Jobs -> Job]
    /\ page \in [Pages -> Shown]
    /\ turn \in 0..ProbeTurns /\ passed \subseteq Jobs
    /\ Waiting(Probe) => turn > 0
    /\ pc[Loop] # "idle" => ready # <<>> /\ ready[1] \in Jobs
    /\ \A j \in Jobs : Waiting(j) <=> job[j].stage \in {"new", "resumed"}

\* server/app.py:95 and agent/mcp_config.py:48: a broker call blocks the loop,
\* so a health check waits, in each of its turns, for the calls ahead of it,
\* each ended by its time-out: but for no question more than once a turn,
\* however often questions come back to the loop.
NobodyOvertakesTwice ==
    [][\A j \in Jobs : Waiting(Probe) /\ CallBroker(j) => j \notin passed]_askVars

\* What is stored and held is of no revoked authorization, and what the loop
\* would present to Salesforce is what Salesforce expects.
HealthyRecord ==
    /\ stored # NoTokens /\ stored.refresh.grant \notin revoked
    /\ stored.refresh \in live \/ Carries(Loop)
    /\ \A t \in Threads : held[t] # NoTokens => held[t].refresh.grant \notin revoked
    /\ pc[Loop] \in {"loaded", "posting"} => held[Loop].refresh \in live

HealthySessions ==
    \A j \in Jobs : job[j].stage \in {"awaiting", "resumed"} => SessionAccepted(j)

\* The service has what questions and re-authorizations need, and a key that
\* decrypts the record.
Curable == KeyConfigured(env) /\ AuthorizationConfigured(env) /\ Readable

\* The cure of server/app.py:159-161 lasts: once record and sessions are healthy and
\* nothing fails any more, the refreshes, questions and re-authorizations that
\* go on beside one another keep it so, and nobody is told of an error again.
CureLasts ==
    [][calm /\ Curable /\ HealthyRecord /\ HealthySessions =>
          /\ Curable' /\ HealthyRecord' /\ HealthySessions'
          /\ \A u \in Pages : page'[u] \in {"reauthorize", "retry", "failed"} =>
                                page'[u] = page[u]]_askVars

\* server/app.py:159-161 and 186, docs/deployment-guide.md:82-85: whatever
\* went wrong before (revocation, a rotated token lost, a failed save, a
\* failed re-authorization, a restart), once things work again a user who
\* does what the error messages say gets an answer.  Not so in a service without
\* DEMO_API_KEY or OAUTH_REDIRECT_URI, which answers 500 for ever, nor while the
\* record is under another key, which is answered "retry shortly" for ever.
AdviceLeadsToAnswer ==
    \A u \in Pages : calm /\ Curable ~> page[u] = "answer"
=============================================================================

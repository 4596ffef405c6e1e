# Verification of the Revenue Prioritisation Agent

TLA+ models of the Salesforce/Gemini MCP proof of concept in `src/`, model-checked with TLC and, for
the properties that matter most, proved with TLAPS for every value of the constants. Every definition is
translated from the source; `PROJECT.json` gives its lines (`map`), the runs, the faults each property
catches (`mutants`), the disagreements between code and docs (`findings`) and the hazards.

## 1. The system

A user asks a question on a Streamlit page; a FastAPI service runs it through a Google ADK agent; the
agent calls two MCP servers, Salesforce's hosted one (CRM facts, with an OAuth bearer token) and a local
one (scoring policy). The program's own logic is the care of the OAuth tokens, and around it a few small
components.

| Component | Source | State | Operations | Talks to |
|---|---|---|---|---|
| Token broker | `auth/token_broker.py`, `agent/mcp_config.py` | none of its own: the stored token pair | `get_valid_access_token`, `refresh_access_token`, `exchange_code_for_tokens`, the local CLI flow | credential store; Salesforce token endpoint |
| Credential store (interface, factory) | `auth/credential_store.py` | one record | `load`, `save`, `clear`, choice of backend | - |
| Local credential store | `auth/local_credential_store.py` | two keyring entries, a token file, an older version's key file | the same, with fallback and key migration | OS keyring, file system |
| Hosted credential store | `auth/hosted_credential_store.py` | one encrypted value in Redis | the same, one Redis command each | Redis |
| Hosted OAuth routes | `server/oauth.py` | pending state/verifier pairs in Redis, with a time to live | `/authorize`, `/callback` | Redis, browser, token broker |
| `/ask` service | `server/app.py` | none between requests | `/ask`, `/health`, start-up checks | agent, token broker (through the header provider) |
| Policy scoring, Policy MCP server | `policy_mcp/` | none; reads the date | `score_opportunity`, `get_scoring_policy` | the agent |
| Page | `app/app.py` | session state of the access gate | unlock, ask | `/ask` |
| Seeding | `scripts/seed_data.py` | the org's sample records | a run, dry or not | `sf` CLI |
| Settings | `agent/config.py` | none; reads the environment | `get_settings` | start of the service |
| Environment verification | `scripts/verify_environment.py` | none; reads the environment and runs tools | the script's checks | - |
| Log redaction | `server/log_redaction.py` | none | `redact` | - |
| Agent, prompts; metadata, docs | `agent/`, `salesforce/`, `docs/` | none | - | - |

What makes each component correct, and what is hard about it:

* **Token broker.** Salesforce rotates refresh tokens: a refresh spends the stored token, and only its
  answer holds the next one. The code reads the record, posts for up to 30 s and saves, without a lock;
  several server processes, or a server and a developer's CLI run, share one record; an authorization callback
  runs in a thread beside the event loop. Correct means: a token handed to a caller lasts long enough to be used, a save
  never puts a spent token back, the stored token dies only where that cannot be helped, calls end.
* **`/ask` service and page.** Questions share one event loop, which a broker call blocks; the page gives up while the service
  goes on; a table of exceptions decides what the user is told. Correct means: advice that is followed leads to an answer wherever
  the service is configured to give one, and a health check is not starved.
* **Local CLI flow.** One port takes one request, and browsers send others: an icon, the tab of an earlier run, a page
  loaded again. Correct means: a run sends its own code only, and ends.
* **Local credential store.** Two places for the tokens and two for the key, each call of which can fail
  or be the last. Correct means: it behaves as one record, and a file once encrypted can be decrypted.
* **Hosted OAuth routes.** GET and DELETE of the pending state are two Redis calls; browsers repeat
  callbacks; exchanges fail half way. Correct means: a state is used once, and pending states end.
* **Policy.** Five thresholds, a clock that may pass midnight between the calls of a ranking, NaN.
* **Access gate.** A counter and a deadline that have to bound guessing over any schedule.
* **Seeding.** Query and create are two calls; runs stop anywhere and are repeated by hand.

`PROJECT.json` "hazards" lists each hard behaviour at its line, with the properties that cover it or why none does.

## 2. Modules

| Module | Models | Runs | Proofs |
|---|---|---|---|
| `TokenBroker` | broker, token endpoint, shared record, clock | `broker_*` via `MCTokenBroker` | `TokenBroker_proofs` |
| `TokenRotation` | abstract specification of the record under rotation | as a PROPERTY of `broker_safety`, `broker_reauthorize` | in `TokenBroker_proofs` |
| `Settings` | required variables, backend choice, what the start checks and what requests look up; operators only | in `ask_service` | |
| `AskService` | service, page and re-authorization; EXTENDS `TokenBroker` and `Settings` | `ask_service` via `MCAskService` | `AskService_proofs` |
| `LocalFlow` | command line authorization, port, browser | `local_flow` | `LocalFlow_proofs` |
| `CredentialStore` | abstract register: what the interface promises | as a PROPERTY of `store_register` | |
| `LocalCredentialStore` | the local store, one step per keyring or file call | `store_*` via `MCLocalCredentialStore` | `LocalCredentialStore_proofs` |
| `HostedOAuth` | `/authorize`, `/callback`, Redis, browsers | `oauth_*` | `HostedOAuth_proofs` |
| `Policy` | validation, rules, a ranking's tool calls | `policy_ranking` via `MCPolicy` | `Policy_proofs` |
| `AccessGate` | the page's lockout | `gate_rate` | `AccessGate_proofs` |
| `SeedData` | series of runs of the script | `seed_runs` via `MCSeedData` | `SeedData_proofs` |

Definitions that no action uses (`LoadUnchecked`, `LateLockout`, ...) are the plausible faults of
`PROJECT.json` "mutants": each stands before the definition it would replace, and with it TLC finds the property
violated.

### TokenBroker

A thread `<<p, "ask">>` is process `p`'s event loop, on which the MCP header provider calls
`get_valid_access_token` synchronously, hence one call at a time; `<<p, "auth">>` is the thread of a `/callback`,
or the CLI flow. A call goes through `pc`: idle, loaded (record read, expiry checked next), posting (request
sent), granted (the server has decided, the answer is on its way), saving. `held` is the `stored` /`tokens`
local of the code, `stored` the record. A refresh token is a grant and a serial number: `Successor` is
rotation. The server's side (`live`, `revoked`, `GrantRefresh`, `Revoke`, ...) is external and modelled as
the code relies on it: `Revoke` stands for a revocation by a user or administrator, the inactivity limit and
the reuse policy alike. `LoseResponse` covers every failure of `_post_token_request` (time-out, broken
connection, unusable body): the client cannot tell whether the server has decided, and an `abandoned` request
may still reach it. `Crash` stops a process with both threads.

Time is a counter of ticks. `RequestTimeout` bounds a request from sending to answer: `urlopen(timeout=30)` bounds each socket
operation, so for one small answer this is an idealisation. `StoreDelay` bounds a save; the
redis client has no time-out of its own, so it is an assumption about the deployment. `TimingAssumption` says that the server
accepts a token for at least the `expires_in` it states (the code's default is 7200 s) and that a save and the skew fit in a lifetime.
The numbers of the code (skew 60 s, time-out 30 s, lifetime 2 h) satisfy it.

Left out: rotation being off (the ECA metadata turns it on, so `token_response.get("refresh_token", ...)` always finds one), the
grant of an abandoned code exchange (its tokens reach nobody), and a save that lands after its client gave up.

### TokenRotation

What the broker promises about refresh tokens, without processes, requests and clock: a record, the tokens the server accepts, and those that were issued and not
saved yet. A grant that has an unsaved successor is not rotated again; a save brings an accepted token (or one of a revoked grant) and moves its grant
forward; calls may end without a save at any time. `unsaved` is what the threads past `granted` hold. The specification deliberately lets
a save replace the record of another grant, because the code does (`broker_sticks`).

### AskService and Settings

`AskService` composes the broker with its caller. There is one process, and its thread `<<Server, "ask">>` is the event loop: `ready` is the
loop's queue, whose head runs until it awaits something. A question (`job`) is new, then has the loop for the whole of a broker
call (`CallBroker`, `ContinueCall`: the actions of `TokenBroker`, taken by the question at the head), awaits a session or the
model, resumes at the end of the queue, and calls the broker again for the next session or ends (`Finalize`). `Settle` is the end of a
broker call: a token, or an exception, which `Raises` and `Caught` turn into advice as the `except` clauses of `ask` do. The model, the MCP servers and what ADK
does in between are external: a question makes up to `MaxRounds` sessions. The page may give up (`GiveUp`): its question goes on with `Nobody`
waiting, and the user may ask again beside it. `Authorize` and `ContinueAuthorization` are a user's way through `server/oauth.py` as the broker sees it
(`HostedOAuth` has its state handling); without `OAUTH_REDIRECT_URI` that way ends in 500 (`AuthorizeInVain`), as every question does without `DEMO_API_KEY`
(`AskInVain`).

A health check (`Probe`) takes `ProbeTurns` turns on the loop: `/health` is a plain function, so the loop accepts the connection, starts
the task, which hands the function to the thread pool, and runs the completion once the thread has ended. Each turn is an entry of `ready`, behind what is
there when the loop notices that it is due; `ProbeReturns`, the time spent outside the loop, may take as long as it likes.

`Start(e)` needs `Starts(e)`: settings and store. The environment has the variables that are
set, the backend, `RENDER`, and whether the key is a Fernet key; it changes at a restart only. `DEMO_API_KEY` and `OAUTH_REDIRECT_URI` are looked up on request and not at the start. The backend is
hosted, as deployed (`ServerAssumption`): the local one is for development, and the broker's steps of this composition are those over Redis.
`foreign` says that the record is encrypted with a key other than the process's: a restart may change the key, or change it back, and a write re-encrypts the record (`Reencrypt`). While
`foreign` holds, every `load` raises InvalidToken, calm or not.

`calm` begins at any moment and ends all failures: it is how the model says "once things work again". Of `MaxGrants` authorizations, a constant of the
instance and no limit of the code, `Reserve` are kept for calm times. Two are needed: a refresh of the old grant may still overwrite the first re-authorization (`broker_sticks`).
Calm ends what fails, not what is configured wrong: the liveness property has `Curable` as its premise (the service has its `DEMO_API_KEY` and `OAUTH_REDIRECT_URI`, and its key decrypts the record). None of the
three can be left out: without any one of them TLC finds a user who follows the advice for ever (section 5).

`AskTypeOK` also carries the tie between the two modules (the broker is in a call only while a question heads the queue), which the refinement below rests on.

### LocalFlow

A run stands for its state, verifier and challenge; a code belongs to the run it was issued for. `OpenBrowser` precedes `Bind`, as in the code. `Serve` is `handle_request`
and `server_close`: any request, then no more. `Request` is the browser's side, with the page it is shown: "Authorized" unless
the request has an error, whatever `Check` finds afterwards. `Misdirected` are runs whose `OAUTH_REDIRECT_URI` leads to the hosted service.

### CredentialStore and LocalCredentialStore

`CredentialStore` is a register: `load` returns the value; a write that fails or is cut short has happened or
not, or, being a save, has left a record that cannot be read. `LocalCredentialStore` has one action per external call
of the code, in its order, including the fallback that `load` runs inside its `try` (a failure of it starts it once
more, from the `except`), the truncation that precedes a write, and the key migration. The refinement maps
`value` to what a load by itself would return (`Readable`). It holds for one process when no pair fits the
keyring, however unreliable, and when every pair fits the reliable keyring of a new installation (`OnePlace`). Outside these cases it does not: section 5;
what remains then is `NewestIsKept`, about the pair the last completed save reported stored (`newest`, a history variable).

### HostedOAuth

A flow stands for its state, its verifier and the browser that carries it. A handler goes idle, got (verifier
read), deleted, posting, granted. Callbacks that report an error, lack a parameter or bring an unknown state
change nothing and are not steps; which page or status is answered is left out. `Expire` is the Redis time to live.

### Policy, AccessGate, SeedData

`Policy` keeps the code's thresholds and points as definitions and takes the facts from constant sets; stages
are abstracted to the three classes the code tells apart. `AccessGate` has one action per outcome of the Unlock button, a clock and
the history of wrong codes. `SeedData` walks through the rows of a sheet: accounts, opportunities, then the
tasks of the opportunities it resolved; records have ids and parents, `LIMIT 1` picks any match, and the script stops at the
first error (`Fail`, `LoseReply`, `Abandon`). Before the first run the org holds at most one record for a row; two of the same
name made by hand would make `LIMIT 1` ambiguous and are not modelled.

## 3. Runs

| Run | Instance | Shows |
|---|---|---|
| `broker_safety` | 2 processes, 1 grant, 4 ticks, skew 2, lifetime 3 | the broker's safety and action properties and the refinement of `TokenRotation`, with overlapping refreshes, losses, crashes, revocation |
| `broker_reauthorize` | 1 process, 2 grants, 3 ticks, fairness | the same record replaced by a new authorization, within the rules of `TokenRotation` for each grant; every call ends |
| `broker_sticks` | as above | finding |
| `ask_service` | 1 user, 2 questions of up to 2 sessions, a probe of 2 turns, 3 grants, a clock in which a token expires, the complete environment, two incomplete ones that start and three that do not, changes of the key, fairness | advice leads to an answer, and a healthy record stays healthy, in a service that is `Curable`; no question overtakes a health check twice in one of its turns |
| `local_flow` | 3 runs, one of them misdirected, fairness | runs send their own code; waiting ends |
| `store_register` | 1 process, 2 pairs, 3 keys, 18 installations | refinement of the register; the file stays decryptable; stored pairs are kept |
| `store_migration` | 2 processes, a legacy installation | finding |
| `oauth_flows` | 2 flows, 2 codes, 2 handlers, fairness | late callbacks are rejected; pending states end |
| `oauth_single_use` | 1 flow, 2 handlers | finding |
| `policy_ranking` | 2 calls, both sides of each threshold, 1 midnight | bounds; ranking respects urgency, to within the close date's points across midnight |
| `gate_rate` | 3 attempts, lockout 3, 8 ticks, 9 wrong codes | guessing is bounded, over one lockout and over several |
| `seed_runs` | a sound sheet of 8 rows and one with a dangling account, 3 initial orgs | idempotence, completeness, parents |

Why the bounds are enough to meet the interesting cases. Broker: two processes are what a race needs; four ticks
exceed a lifetime, so tokens age, are refreshed, and age again; one grant per run of two processes keeps the state space small, and the
second grant is in the one-process run, where ask and auth threads race; the theorems then hold for all bounds. Store: a migration, a
save and a load need one pair of each kind and a key to lose. Service: two questions are what a page that
gives up needs, and what it takes to overtake a probe twice or not, and two of its turns are a first and a last one; two sessions make a question come back to the loop; skew and save delay 0 keep the clock short, since
`broker_*` covers timing. Local flow: a listening run, the tab of another, and a third whose redirect never comes. Gate: nine wrong codes are three lockouts. Policy: the rules compare a
fact with one constant each, so a value on either side is all the code tells apart; property over two calls needs two.
Seeding: an account with two opportunities and one with one, a record of each kind made by hand.
Symmetry (of processes, of a ranking's calls) is used in safety runs only: `broker_safety`, `policy_ranking`.

Deadlock is checked except in `ask_service` (answered, nothing left to do), `local_flow` (runs ended), `oauth_*` (flows used up), `policy_ranking` (calls used up) and `gate_rate` (unlocked), where the instance
comes to rest.

**Fairness.** `TokenBroker!FairSpec` asks weak fairness of a thread's own steps: the code runs, and its socket time-out
ends a request, so `LoseResponse` stays enabled until something happens. Nothing is asked of the server, of saves succeeding or of other processes.
`AskService!AskFairSpec` asks it of the loop (`LoopTurn`: what heads the queue runs), of what a question awaits (ADK's and the MCP client's own time-outs end it) and of the callback thread,
and of the user only in calm times: who is told to re-authorize does, and asks again. Nothing is asked of the probe's thread nor of failures ending: `AdviceLeadsToAnswer` starts from `calm`. `LocalFlow!FairSpec` asks it of the
command, of the user's decision at the login page, and of loading a page again that the browser could not connect to; a tab that was never opened owes nothing.
`HostedOAuth!FairSpec` asks weak fairness of the handlers' steps and of `Expire`, Redis's promise for a key with a time to live.

## 4. Proofs

All by TLAPS, with no bound on sets, times, grants or calls beyond the named assumptions.

* `TokenBroker_proofs`: `TypeCorrect` (TypeOK is inductive). `ReturnedTokenCoversCallHolds` rests on `Timing`: a
  thread in a request or a save is within its limit, what it carries was issued within these limits, and every `expires_at` is late by at
  most one request time. `SavesMoveForwardHolds`, `SavedTokensAreUsableHolds` and `DeadTokenExplainedHolds` rest on `Chain`, the
  key of the module: a refresh token the server accepts is the newest anybody knows of its grant, and what a thread carries to its save is
  accepted (or its grant revoked) and newer than what the store, every other thread and every abandoned request have of that grant. So although nothing
  locks the record, the rotation itself orders the writers: the second of two refreshes of one record is refused. None of the properties is
  inductive without it, since each speaks of one token and the steps depend on who else holds what. `ImplementsRotationHolds` maps each step to a step of `TokenRotation`, again from `Chain`: what a
  thread carries of a grant is what the server accepts of it, so the token of another request for that grant is not accepted. `SticksUnlessOverlap` assumes `SavesAlone` (no other call is under way while an
  authorization saves) and concludes `ReauthorizationSticks`, by `Current`: a refresh then works on the stored authorization, and an authorization brings a newer one.
* `HostedOAuth_proofs`: `LateCallbackRejectedHolds` from `Consumed`: a flow for which an exchange has begun, or is about
  to, has left `pending` and never returns. `SingleUseUnlessOverlap` assumes `NoOverlap` (no two callbacks of one state between their GET and their DELETE) and concludes
  `StateIsSingleUse`, by `OneEnters`: a callback on the way to an exchange is the only one with its state.
* `Policy_proofs`: scores stay in bounds, and the score is monotone in urgency, a NaN amount ranking below every number, up to the close date's points when the day changes (`ScoreMonotone`), carried to the calls by an invariant that
  each recorded score is the score of its facts on its day.
* `AccessGate_proofs`: `GuessesAreSpreadHolds` from `Blocks`: the wrong codes are in the order of time, and the last lockout
  began with number `Len(wrong) - failed_attempts`. `OneLockoutApart` is the fact for codes `MaxAttempts` apart; `SpreadInductive` adds k of them up, step by step with the
  history, since induction over k by itself is not available to the prover.
* `AskService_proofs`: `BrokerInside` shows that every behaviour of the service is one of the broker (each step is a broker step or leaves the broker alone),
  so the broker's theorems hold inside it: `DeadTokenExplainedInside`. `AskTypeCorrect` and `NobodyOvertakesTwiceHolds` rest on `LoopInv`: the queue holds each
  question that is ready once, and those that have passed the probe in its present turn stand behind it, so none can reach the head again before it, for any number of turns. `CureLastsHolds` uses the broker's `Chain` inside the service:
  in calm times a refresh posts an accepted token, or none is posted, so nothing is refused, and every session a question opens is accepted. By `CurableStep` a calm step leaves the service configured and the record readable. It is the safety half of `AdviceLeadsToAnswer`.
* `LocalFlow_proofs`: `ExchangesOwnCodeHolds` from `IInv`: what a run was served is the redirect of some tab, with the state and the code of one and the same run, so the
  check of the state is a check of the code.
* `LocalCredentialStore_proofs`: `TypeCorrect` for any number of processes. For one process, `AloneInv` says that the key in its hand is the one on record, or about to be, at each place
  of the migration: hence `DecryptableAloneHolds` and `NewestIsKeptHolds`. `ImplementsRegisterHolds` adds `PlaceInv` (where all pairs go to one place the other stays empty) and maps every step
  to a step of the register or a stutter. `DecryptableWhenMigrated`, for any number of processes, rests on `Settled`: with a key in the keyring nobody makes or moves one.
* `SeedData_proofs`, from `SheetAssumption` (a sheet lists different names, tasks after their opportunities) and `InitialOrgAssumption` (the org starts with one record
  of a name at most, and one named like a row is the row's). `OneRecordPerRowHolds` rests on `OneOfEachName`: the query finds by name, so while no create
  has outlived its script no two records share a name, and a create that is sent and unanswered is of a name the org does not hold. `CompleteWhenFinishedHolds` rests on `CompleteInv`: a run that is not
  dry has resolved every row it has passed. `RerunAddsNothingHolds` puts the two together.

The two conditional theorems say that the races of `broker_sticks` and `oauth_single_use` are the only ways to violate these properties: the conditions are those
a lock around a refresh and its save, and an atomic GETDEL, would establish (the code has neither).

Only model-checked: the liveness properties (`CallsFinish`, `AbandonedFlowsEnd`, `AdviceLeadsToAnswer`, `ListeningEnds`), since fairness is outside the prover's reach.

## 5. Disagreements between code and docs

Each is a `violation` run with a short counterexample, or, where marked *, follows from a modelled step and has no run.

* A refresh that is still saving overwrites a fresh re-authorization (`broker_sticks`).
* Two concurrent migrations orphan the token file (`store_migration`).
* Two concurrent callbacks both use a single-use state (`oauth_single_use`).
* \* A refused refresh is reported as a need to re-authorize (`server/app.py:147-149`), also to the loser of a race of two refreshes, whose record is good.
* \* So is a Redis outage: the constructor's failed ping is a RuntimeError, one of `Caught`, and `server/app.py:144-149` counts it as "the Salesforce side".
* \* A record under another `CREDENTIAL_ENCRYPTION_KEY` raises InvalidToken (`auth/hosted_credential_store.py:96`), which `server/app.py:184-187` answers with "retry shortly"
  for as long as the record is there, although re-authorizing would cure it. `server/app.py:67-68` says that a misconfigured key "fails at startup, not on the first real request"; a
  well-formed key that does not fit the record passes the start (`foreign`).
* \* `_validate_startup_configuration` "Fails fast if this process cannot possibly serve a real request" (`server/app.py:63`), but `DEMO_API_KEY`, without which every
  question is refused, is not checked, nor is `OAUTH_REDIRECT_URI`, without which `/authorize` and `/callback` end in 500 (`server/oauth.py:67-75`) and the advice to re-authorize cannot be followed
  (`KeyConfigured` and `AuthorizationConfigured` are no part of `Starts`). `CREDENTIAL_STORE_BACKEND=local` is accepted on Render, where `auth/credential_store.py:62-64`
  says hosted is required "(and enforced below)".
* \* An older pair in the keyring hides a newer one in the file (`auth/local_credential_store.py:64-67`), against `auth/credential_store.py:50`. A failing keyring makes `load`
  return None and `clear` keep the tokens, against `:46` and `:54`. A process stopped between `set_password` and `unlink` leaves the key file for good
  (`auth/local_credential_store.py:132-133`).
* \* The local callback page says "Authorized" before the state is checked and the code exchanged (`auth/token_broker.py:176`), also when either fails.
* \* Facts with a close date score differently after midnight (`policy_mcp/policy.py:148` against `:179`), and a NaN amount is scored (`:61` against `:159`).
* \* A create that outlives its script is made twice (`scripts/seed_data.py:3`).

## 6. Not modelled, and the plan

Not modelled: the language model and ADK (no logic of this repository) and the agent's construction and prompts; log redaction, a pure substitution in strings whose result nothing reads;
`verify_environment.py`, whose checks nothing in the program depends on (its lists of variables repeat those of `agent/config.py` by hand); the hosted store's `clear`, which nothing calls; a service deployed over the local store; metadata and docs.

Of the plan nothing is left.

## 7. Running

    tlc -workers 2 -config TokenBroker_safety.cfg MCTokenBroker
    tlapm TokenBroker_proofs.tla

The run's module and configuration are in `PROJECT.json`.

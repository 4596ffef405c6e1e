----------------------------- MODULE HostedOAuth -----------------------------
(***************************************************************************)
(* The hosted authorization flow of server/oauth.py: /authorize leaves a   *)
(* state/verifier pair in Redis, the user's browser comes back from        *)
(* Salesforce to /callback, which consumes the pair and exchanges the code *)
(* for tokens.  A flow stands for its state, its verifier and the browser  *)
(* that carries it.  A browser may repeat any callback (reload, back,      *)
(* restored tab), and the callbacks of one flow may run at once, in the    *)
(* thread pool of one process or in two processes.                         *)
(***************************************************************************)
CONSTANTS
    Flows,     \* one per call of /authorize
    Codes,     \* authorization codes Salesforce issues
    Handlers,  \* threads that serve /authorize and /callback
    Nothing

Redirect == [flow : Flows, code : Codes]

ASSUME NothingAssumption == Nothing \notin Codes \cup Redirect

VARIABLES
    started,    \* flows /authorize has begun; a state is never issued twice
    pending,    \* flows whose verifier Redis holds
    with_ttl,   \* those of them stored with a time to live
    browsers,   \* flows whose authorize URL reached a browser
    redirects,  \* redirects back from Salesforce, each sent once or more
    unspent,    \* codes the token endpoint still accepts
    pc, req,    \* where each handler stands, and the redirect it serves
    exchanged,  \* flows for which a token exchange has begun
    stored      \* the code whose tokens the credential store holds

redis  == <<pending, with_ttl>>
remote == <<browsers, redirects, unspent>>
vars   == <<started, redis, remote, pc, req, exchanged, stored>>

Init ==
    /\ started = {} /\ pending = {} /\ with_ttl = {}
    /\ browsers = {} /\ redirects = {} /\ unspent = {}
    /\ pc  = [h \in Handlers |-> "idle"]
    /\ req = [h \in Handlers |-> Nothing]
    /\ exchanged = {}
    /\ stored = Nothing

\* The handler answers its request: which page or status is left out.
Respond(h) ==
    /\ pc'  = [pc  EXCEPT ![h] = "idle"]
    /\ req' = [req EXCEPT ![h] = Nothing]

Goto(h, label) ==
    pc' = [pc EXCEPT ![h] = label]

-----------------------------------------------------------------------------
(* start_authorization *)

StashForever(f) ==
    /\ f \notin started
    /\ started' = started \cup {f}
    /\ pending' = pending \cup {f}
    /\ browsers' = browsers \cup {f}
    /\ UNCHANGED <<with_ttl, redirects, unspent, pc, req, exchanged, stored>>

\* SET may fail, having written the key or not, and the redirect may not
\* reach the browser.
StartAuthorization(f) ==
    /\ f \notin started
    /\ started' = started \cup {f}
    /\ \/ UNCHANGED <<redis, browsers>>
       \/ /\ pending'  = pending \cup {f}
          /\ with_ttl' = with_ttl \cup {f}
          /\ browsers' \in {browsers, browsers \cup {f}}
    /\ UNCHANGED <<redirects, unspent, pc, req, exchanged, stored>>

\* Redis drops the key when its time is over: at any moment, for the model.
Expire(f) ==
    /\ f \in with_ttl
    /\ pending'  = pending \ {f}
    /\ with_ttl' = with_ttl \ {f}
    /\ UNCHANGED <<started, remote, pc, req, exchanged, stored>>

-----------------------------------------------------------------------------
(* Salesforce and the user *)

\* The user consents, perhaps more than once: each time with a new code.
Consent(f, c) ==
    /\ f \in browsers
    /\ \A r \in redirects : r.code # c
    /\ redirects' = redirects \cup {[flow |-> f, code |-> c]}
    /\ unspent' = unspent \cup {c}
    /\ UNCHANGED <<started, redis, browsers, pc, req, exchanged, stored>>

-----------------------------------------------------------------------------
(* handle_callback *)

GetVerifierOnly(h, r) ==
    /\ pc[h] = "idle"
    /\ r.flow \in pending
    /\ Goto(h, "got")
    /\ UNCHANGED <<started, redis, remote, req, exchanged, stored>>

\* Every other callback is answered without any effect: one that reports an
\* error or lacks its code or state, one whose state Redis does not hold, and
\* one for which Redis cannot be asked.
GetVerifier(h, r) ==
    /\ pc[h] = "idle"
    /\ r.flow \in pending
    /\ req' = [req EXCEPT ![h] = r]
    /\ Goto(h, "got")
    /\ UNCHANGED <<started, redis, remote, exchanged, stored>>

DeleteLater(h) ==
    /\ pc[h] = "got"
    /\ Goto(h, "deleted")
    /\ UNCHANGED <<started, redis, remote, req, exchanged, stored>>

\* The result of the DELETE is not looked at; it may fail, done or not done.
DeleteState(h) ==
    /\ pc[h] = "got"
    /\ \/ /\ pending'  = pending \ {req[h].flow}
          /\ with_ttl' = with_ttl \ {req[h].flow}
          /\ \/ UNCHANGED req /\ Goto(h, "deleted")
             \/ Respond(h)
       \/ UNCHANGED redis /\ Respond(h)
    /\ UNCHANGED <<started, remote, exchanged, stored>>

BeginExchange(h) ==
    /\ pc[h] = "deleted"
    /\ exchanged' = exchanged \cup {req[h].flow}
    /\ Goto(h, "posting")
    /\ UNCHANGED <<started, redis, remote, req, stored>>

\* Salesforce takes a code once, with the verifier of its own flow; it also
\* refuses a code that is too old.
GrantExchange(h) ==
    /\ pc[h] = "posting"
    /\ req[h].code \in unspent
    /\ unspent' = unspent \ {req[h].code}
    /\ Goto(h, "granted")
    /\ UNCHANGED <<started, redis, browsers, redirects, req, exchanged, stored>>

\* The exchange fails: refused, timed out, or unanswered after the grant.
ExchangeFails(h) ==
    /\ pc[h] \in {"posting", "granted"}
    /\ Respond(h)
    /\ UNCHANGED <<started, redis, remote, exchanged, stored>>

\* The save may raise, having stored the tokens or not.
SaveTokens(h) ==
    /\ pc[h] = "granted"
    /\ stored' \in {stored, req[h].code}
    /\ Respond(h)
    /\ UNCHANGED <<started, redis, remote, exchanged>>

Crash(h) ==
    /\ pc[h] # "idle"
    /\ Respond(h)
    /\ UNCHANGED <<started, redis, remote, exchanged, stored>>

-----------------------------------------------------------------------------
HandlerStep(h) ==
    \/ DeleteState(h) \/ BeginExchange(h) \/ GrantExchange(h)
    \/ ExchangeFails(h) \/ SaveTokens(h)

Next ==
    \/ \E f \in Flows : StartAuthorization(f) \/ Expire(f)
    \/ \E f \in Flows, c \in Codes : Consent(f, c)
    \/ \E h \in Handlers, r \in redirects : GetVerifier(h, r)
    \/ \E h \in Handlers : HandlerStep(h) \/ Crash(h)

Spec == Init /\ [][Next]_vars

\* Redis honours a time to live, and a handler that has begun runs.
FairSpec ==
    /\ Spec
    /\ \A f \in Flows : WF_vars(Expire(f))
    /\ \A h \in Handlers : WF_vars(HandlerStep(h))

-----------------------------------------------------------------------------
(* Properties *)

TypeOK ==
    /\ started \subseteq Flows
    /\ with_ttl \subseteq pending /\ pending \subseteq started
    /\ browsers \subseteq started
    /\ redirects \subseteq Redirect
    /\ unspent \subseteq Codes
    /\ pc \in [Handlers -> {"idle", "got", "deleted", "posting", "granted"}]
    /\ req \in [Handlers -> Redirect \cup {Nothing}]
    /\ \A h \in Handlers : pc[h] # "idle" => req[h] \in redirects
    /\ exchanged \subseteq Flows
    /\ stored \in Codes \cup {Nothing}

\* "consume before the token exchange, not after" (server/oauth.py:118): a
\* callback that arrives once an exchange for its state has begun is turned
\* away, whether that exchange succeeded, failed or died half way.
LateCallbackRejected ==
    [][\A h \in Handlers :
          pc[h] = "idle" /\ pc'[h] = "got" => req'[h].flow \notin exchanged]_vars

\* "a short TTL so an abandoned flow self-cleans" (server/oauth.py:23): no
\* pending verifier stays in Redis for ever, whatever became of its flow.
AbandonedFlowsEnd == \A f \in Flows : (f \in pending) ~> (f \notin pending)

\* "single-use" (server/oauth.py:118, tests/test_server_oauth.py:126): of the
\* callbacks that bring one state, at most one goes on to an exchange.
StateIsSingleUse ==
    [][\A h \in Handlers :
          pc[h] = "deleted" /\ pc'[h] = "posting" => req[h].flow \notin exchanged]_vars
=============================================================================

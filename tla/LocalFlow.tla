------------------------------ MODULE LocalFlow ------------------------------
(***************************************************************************)
(* The authorization from the command line, python -m auth.token_broker:   *)
(* a run opens the browser at Salesforce's login page, then binds a port,  *)
(* takes exactly one request there and exchanges the code it brought.      *)
(*                                                                         *)
(* Runs follow or overlap one another; their tabs stay open in the         *)
(* browser.  All redirects lead to the one port, and so may other requests *)
(* of a browser: for an icon, a speculative connection, an old tab that is *)
(* loaded again.                                                           *)
(***************************************************************************)

CONSTANTS
    Runs,         \* runs of the command
    Misdirected,  \* those with an OAUTH_REDIRECT_URI that is not this port
    Nothing       \* None: no code, no state, no owner of the port, no tokens

ASSUME RunsAssumption == Misdirected \subseteq Runs /\ Nothing \notin Runs

VARIABLES
    run,       \* how far each run is
    callback,  \* the _CallbackResult of each run
    port,      \* the run that listens on the port
    tab,       \* what the browser shows in the tab of each run
    consent,   \* what the user decided there
    sent,      \* <<run, code>> for each code sent to the token endpoint
    stored     \* the run whose tokens the credential store holds

vars == <<run, callback, port, tab, consent, sent, stored>>

Stages == {"idle", "opened", "listening", "served", "exchanging", "done",
           "failed", "crashed"}

Ended(r) == run[r] \in {"done", "failed", "crashed"}

\* A run's state and verifier are fresh, so the run stands for both; and a
\* code belongs to the run whose challenge it was issued for.
CallbackResult == [code : Runs \cup {Nothing}, state : Runs \cup {Nothing},
                   error : BOOLEAN]

NoCallback == [code |-> Nothing, state |-> Nothing, error |-> FALSE]

Goto(r, stage) == run' = [run EXCEPT ![r] = stage]

-----------------------------------------------------------------------------
(* run_interactive_authorization *)

\* webbrowser.open may find no browser; its result is not looked at.
OpenBrowser(r) ==
    /\ run[r] = "idle"
    /\ \E shown \in {"login", "none"} : tab' = [tab EXCEPT ![r] = shown]
    /\ Goto(r, "opened")
    /\ UNCHANGED <<callback, port, consent, sent, stored>>

\* The port may be taken by another run: OSError.
Bind(r) ==
    /\ run[r] = "opened"
    /\ IF port = Nothing
       THEN port' = r /\ Goto(r, "listening")
       ELSE port' = port /\ Goto(r, "crashed")
    /\ UNCHANGED <<callback, tab, consent, sent, stored>>

ServeUntilCode(request) ==
    /\ callback' = [callback EXCEPT ![port] = request]
    /\ IF request.code = Nothing
       THEN UNCHANGED <<run, port>>
       ELSE Goto(port, "served") /\ port' = Nothing

ServeWithoutClosing(request) ==
    /\ callback' = [callback EXCEPT ![port] = request]
    /\ Goto(port, "served")
    /\ port' = port

\* handle_request takes one request, whatever it is, and server_close resets
\* those that wait behind it.
Serve(request) ==
    /\ callback' = [callback EXCEPT ![port] = request]
    /\ Goto(port, "served")
    /\ port' = Nothing

CheckWithoutState(r) ==
    /\ run[r] = "served"
    /\ IF callback[r].error \/ callback[r].code = Nothing
       THEN Goto(r, "failed") /\ UNCHANGED sent
       ELSE Goto(r, "exchanging") /\ sent' = sent \cup {<<r, callback[r].code>>}
    /\ UNCHANGED <<callback, port, tab, consent, stored>>

Check(r) ==
    /\ run[r] = "served"
    /\ IF callback[r].error \/ callback[r].code = Nothing \/ callback[r].state # r
       THEN Goto(r, "failed") /\ UNCHANGED sent
       ELSE Goto(r, "exchanging") /\ sent' = sent \cup {<<r, callback[r].code>>}
    /\ UNCHANGED <<callback, port, tab, consent, stored>>

\* Salesforce redeems a code once, for the verifier of its challenge.
Exchange(r) ==
    /\ run[r] = "exchanging"
    /\ callback[r].code = r
    /\ stored' = r
    /\ Goto(r, "done")
    /\ UNCHANGED <<callback, port, tab, consent, sent>>

\* The request or the save raises, and nothing catches it.
ExchangeFails(r) ==
    /\ run[r] = "exchanging"
    /\ Goto(r, "crashed")
    /\ UNCHANGED <<callback, port, tab, consent, sent, stored>>

\* The user stops the command.
Interrupt(r) ==
    /\ run[r] # "idle" /\ ~Ended(r)
    /\ port' = IF port = r THEN Nothing ELSE port
    /\ Goto(r, "crashed")
    /\ UNCHANGED <<callback, tab, consent, sent, stored>>

-----------------------------------------------------------------------------
(* The browser *)

Decide(r) ==
    /\ tab[r] = "login"
    /\ \E decision \in {"given", "denied"} : consent' = [consent EXCEPT ![r] = decision]
    /\ tab' = [tab EXCEPT ![r] = "redirect"]
    /\ UNCHANGED <<run, callback, port, sent, stored>>

\* The redirect of run r's tab.
Answer(r) ==
    [code  |-> IF consent[r] = "given" THEN r ELSE Nothing,
     state |-> r,
     error |-> consent[r] = "denied"]

\* The tab requests the redirect URI: the first time, or when it is loaded
\* again.  The page it is served only tells whether there was an error.
Request(r) ==
    /\ IF r \in Misdirected
       THEN /\ tab' = [tab EXCEPT ![r] = "elsewhere"]
            /\ UNCHANGED <<run, callback, port>>
       ELSE IF port = Nothing
       THEN /\ tab' = [tab EXCEPT ![r] = "refused"]
            /\ UNCHANGED <<run, callback, port>>
       ELSE /\ tab' = [tab EXCEPT ![r] = IF Answer(r).error THEN "failed"
                                         ELSE "authorized"]
            /\ Serve(Answer(r))
    /\ UNCHANGED <<consent, sent, stored>>

FollowRedirect(r) == tab[r] \in {"redirect", "refused"} /\ Request(r)

ReloadAnswered(r) == tab[r] \in {"authorized", "failed"} /\ Request(r)

StrayRequest ==
    /\ port # Nothing
    /\ Serve(NoCallback)
    /\ UNCHANGED <<tab, consent, sent, stored>>

-----------------------------------------------------------------------------
Init ==
    /\ run      = [r \in Runs |-> "idle"]
    /\ callback = [r \in Runs |-> NoCallback]
    /\ port     = Nothing
    /\ tab      = [r \in Runs |-> "none"]
    /\ consent  = [r \in Runs |-> "none"]
    /\ sent     = {}
    /\ stored   = Nothing

Proceed(r) == Bind(r) \/ Check(r) \/ Exchange(r) \/ ExchangeFails(r)

Next ==
    \/ \E r \in Runs : OpenBrowser(r) \/ Proceed(r) \/ Interrupt(r)
    \/ \E r \in Runs : Decide(r) \/ FollowRedirect(r) \/ ReloadAnswered(r)
    \/ StrayRequest

Spec == Init /\ [][Next]_vars

\* The command runs, and the user decides at the login page and loads a page
\* again that the browser could not connect to.
FairSpec ==
    /\ Spec
    /\ \A r \in Runs : /\ WF_vars(Proceed(r))
                       /\ WF_vars(Decide(r))
                       /\ WF_vars(FollowRedirect(r))

-----------------------------------------------------------------------------
(* Properties *)

TypeOK ==
    /\ run \in [Runs -> Stages]
    /\ callback \in [Runs -> CallbackResult]
    /\ port \in Runs \cup {Nothing}
    /\ tab \in [Runs -> {"none", "login", "redirect", "refused", "authorized",
                         "failed", "elsewhere"}]
    /\ consent \in [Runs -> {"none", "given", "denied"}]
    /\ sent \subseteq Runs \X Runs
    /\ stored \in Runs \cup {Nothing}
    /\ \A r \in Runs : run[r] = "listening" <=> port = r

\* auth/token_broker.py:186-187: whatever tabs of other runs are finished,
\* answered or loaded again while a run listens, it only ever sends the code
\* its own user consented to; so no code is sent twice, a replay for which an
\* authorization server may withdraw the tokens of the first exchange.
ExchangesOwnCode ==
    \A pair \in sent : pair[1] = pair[2] /\ consent[pair[2]] = "given"

\* The port has no time-out: a run ends because some request ends it, if its
\* tab was opened and has not yet spent its redirect on another run's port,
\* and if the redirect leads here at all.
ListeningEnds ==
    \A r \in Runs \ Misdirected :
        run[r] = "listening" /\ tab[r] \in {"login", "redirect", "refused"}
            ~> Ended(r)
=============================================================================

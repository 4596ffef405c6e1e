--------------------------- MODULE LocalFlow_proofs ---------------------------
(***************************************************************************)
(* A run of the command line authorization sends only the code its own     *)
(* user consented to, for any number of runs that overlap, follow one      *)
(* another or are stopped, and any requests to the port.                   *)
(***************************************************************************)
EXTENDS LocalFlow, TLAPS

\* A callback with a code comes from the redirect of one tab: its code and
\* its state belong together, and that tab's user consented.
CallbacksFromTabs ==
    \A r \in Runs : callback[r].code # Nothing =>
        /\ callback[r].state = callback[r].code
        /\ consent[callback[r].code] = "given"

\* Nobody has decided in a tab that still shows the login, or is not open yet.
UndecidedBefore ==
    \A r \in Runs :
        /\ tab[r] = "login" => consent[r] = "none"
        /\ run[r] = "idle" => tab[r] = "none" /\ consent[r] = "none"

IInv == TypeOK /\ CallbacksFromTabs /\ UndecidedBefore /\ ExchangesOwnCode

\* A served request keeps the invariant if it comes from a tab: the part of
\* the step that Request and StrayRequest share.
LEMMA ServePreservesInvariant ==
    ASSUME IInv, NEW request \in CallbackResult, port # Nothing, Serve(request),
           request.code # Nothing => /\ request.state = request.code
                                     /\ consent[request.code] = "given",
           tab' \in [Runs -> {"none", "login", "redirect", "refused", "authorized",
                              "failed", "elsewhere"}],
           \A r \in Runs : /\ tab'[r] = "login" => tab[r] = "login"
                           /\ tab[r] = "none" => tab'[r] = "none",
           UNCHANGED <<consent, sent, stored>>
    PROVE  IInv'
  <1> USE RunsAssumption DEF IInv, TypeOK, Serve, Goto
  <1>1. port \in Runs /\ port' = Nothing
    OBVIOUS
  <1>2. run' \in [Runs -> Stages] /\ callback' \in [Runs -> CallbackResult]
    BY <1>1 DEF Stages
  <1>3. \A r \in Runs : run'[r] = (IF r = port THEN "served" ELSE run[r])
    BY <1>1
  <1>4. TypeOK'
    BY <1>1, <1>2, <1>3
  <1>5. CallbacksFromTabs'
    BY <1>1 DEF CallbacksFromTabs
  <1>6. UndecidedBefore'
    BY <1>1, <1>3 DEF UndecidedBefore
  <1>7. ExchangesOwnCode'
    BY DEF ExchangesOwnCode
  <1> QED
    BY <1>4, <1>5, <1>6, <1>7

LEMMA AnswerComesFromTab ==
    ASSUME IInv, NEW r \in Runs
    PROVE  /\ Answer(r) \in CallbackResult
           /\ Answer(r).code # Nothing =>
                 Answer(r).state = Answer(r).code /\ consent[Answer(r).code] = "given"
  BY RunsAssumption DEF Answer, CallbackResult, IInv

LEMMA RequestPreservesInvariant ==
    ASSUME IInv, NEW r \in Runs, tab[r] # "none", Request(r)
    PROVE  IInv'
  <1> DEFINE pages == {"none", "login", "redirect", "refused", "authorized",
                       "failed", "elsewhere"}
  <1>1. /\ tab' \in [Runs -> pages]
        /\ \A s \in Runs : /\ tab'[s] = "login" => tab[s] = "login"
                           /\ tab[s] = "none" => tab'[s] = "none"
    BY DEF Request, IInv, TypeOK
  <1>2. CASE r \in Misdirected \/ port = Nothing
    <2>1. UNCHANGED <<run, callback, port, consent, sent, stored>>
      BY <1>2 DEF Request
    <2> QED
      BY <1>1, <2>1 DEF IInv, TypeOK, CallbacksFromTabs, UndecidedBefore, ExchangesOwnCode
  <1>3. CASE ~(r \in Misdirected \/ port = Nothing)
    <2>1. Serve(Answer(r)) /\ UNCHANGED <<consent, sent, stored>>
      BY <1>3 DEF Request
    <2> QED
      BY <1>1, <1>3, <2>1, AnswerComesFromTab, ServePreservesInvariant
  <1> QED
    BY <1>2, <1>3

LEMMA StepPreservesInvariant ==
    ASSUME IInv, [Next]_vars
    PROVE  IInv'
  <1> USE RunsAssumption
  <1>1. ASSUME NEW r \in Runs, OpenBrowser(r) PROVE IInv'
    BY <1>1 DEF OpenBrowser, Goto, Stages, IInv, TypeOK, CallbacksFromTabs,
                UndecidedBefore, ExchangesOwnCode
  <1>2. ASSUME NEW r \in Runs, Bind(r) PROVE IInv'
    BY <1>2 DEF Bind, Goto, Stages, IInv, TypeOK, CallbacksFromTabs,
                UndecidedBefore, ExchangesOwnCode
  <1>3. ASSUME NEW r \in Runs, Check(r) PROVE IInv'
    <2>1. run'[r] \in {"failed", "exchanging"} /\ run[r] = "served"
          /\ run' = [run EXCEPT ![r] = run'[r]]
          /\ UNCHANGED <<callback, port, tab, consent, stored>>
      BY <1>3 DEF Check, Goto, IInv, TypeOK
    <2>2. CASE UNCHANGED sent
      BY <2>1, <2>2 DEF Stages, IInv, TypeOK, CallbacksFromTabs,
                        UndecidedBefore, ExchangesOwnCode
    <2>3. CASE ~UNCHANGED sent
      <3>1. /\ callback[r].code # Nothing /\ callback[r].state = r
            /\ sent' = sent \cup {<<r, callback[r].code>>}
        BY <1>3, <2>3 DEF Check
      <3>2. callback[r].code = r /\ consent[r] = "given"
        BY <3>1 DEF IInv, CallbacksFromTabs
      <3>3. TypeOK' /\ CallbacksFromTabs' /\ UndecidedBefore'
        BY <2>1, <3>1, <3>2 DEF Stages, IInv, TypeOK, CallbacksFromTabs, UndecidedBefore
      <3>4. ExchangesOwnCode'
        BY <2>1, <3>1, <3>2 DEF IInv, ExchangesOwnCode
      <3> QED
        BY <3>3, <3>4 DEF IInv
    <2> QED
      BY <2>2, <2>3
  <1>4. ASSUME NEW r \in Runs, Exchange(r) PROVE IInv'
    BY <1>4 DEF Exchange, Goto, Stages, IInv, TypeOK, CallbacksFromTabs,
                UndecidedBefore, ExchangesOwnCode
  <1>5. ASSUME NEW r \in Runs, ExchangeFails(r) PROVE IInv'
    BY <1>5 DEF ExchangeFails, Goto, Stages, IInv, TypeOK, CallbacksFromTabs,
                UndecidedBefore, ExchangesOwnCode
  <1>6. ASSUME NEW r \in Runs, Interrupt(r) PROVE IInv'
    BY <1>6 DEF Interrupt, Ended, Goto, Stages, IInv, TypeOK, CallbacksFromTabs,
                UndecidedBefore, ExchangesOwnCode
  <1>7. ASSUME NEW r \in Runs, Decide(r) PROVE IInv'
    <2>1. tab[r] = "login" /\ consent[r] = "none"
          /\ (\E decision \in {"given", "denied"} :
                 consent' = [consent EXCEPT ![r] = decision])
          /\ tab' = [tab EXCEPT ![r] = "redirect"]
          /\ UNCHANGED <<run, callback, port, sent, stored>>
      BY <1>7 DEF Decide, IInv, UndecidedBefore
    <2>2. run[r] # "idle"
      BY <2>1 DEF IInv, UndecidedBefore
    <2> QED
      BY <2>1, <2>2 DEF IInv, TypeOK, CallbacksFromTabs, UndecidedBefore, ExchangesOwnCode
  <1>8. ASSUME NEW r \in Runs, FollowRedirect(r) PROVE IInv'
    BY <1>8, RequestPreservesInvariant DEF FollowRedirect
  <1>9. ASSUME NEW r \in Runs, ReloadAnswered(r) PROVE IInv'
    BY <1>9, RequestPreservesInvariant DEF ReloadAnswered
  <1>10. CASE StrayRequest
    BY <1>10, ServePreservesInvariant DEF StrayRequest, NoCallback, CallbackResult,
                                          IInv, TypeOK
  <1>11. CASE UNCHANGED vars
    BY <1>11 DEF vars, IInv, TypeOK, CallbacksFromTabs, UndecidedBefore, ExchangesOwnCode
  <1> QED
    BY <1>1, <1>2, <1>3, <1>4, <1>5, <1>6, <1>7, <1>8, <1>9, <1>10, <1>11
    DEF Next, Proceed

THEOREM InvariantHolds == Spec => []IInv
  <1>1. Init => IInv
    BY RunsAssumption DEF Init, IInv, TypeOK, Stages, CallbackResult, NoCallback,
                          CallbacksFromTabs, UndecidedBefore, ExchangesOwnCode
  <1> QED
    BY <1>1, StepPreservesInvariant, PTL DEF Spec

\* Type correctness: in particular a run listens if and only if the port is
\* its own.
THEOREM TypeCorrect == Spec => []TypeOK
  BY InvariantHolds, PTL DEF IInv

\* A run sends only the code its own user consented to in its own tab.
THEOREM ExchangesOwnCodeHolds == Spec => []ExchangesOwnCode
  BY InvariantHolds, PTL DEF IInv
=============================================================================

---------------------------- MODULE TokenRotation ----------------------------
(***************************************************************************)
(* What the system as a whole promises about refresh tokens, without its   *)
(* processes, threads, requests and clock: a grant has at most one         *)
(* successor that the server issued and the record does not hold yet, and  *)
(* while there is one the server will not rotate that grant again.  The    *)
(* rotation is the lock that the code does not take.                       *)
(*                                                                         *)
(* Two grants are not kept apart: a save may replace a newer one.          *)
(***************************************************************************)
EXTENDS Naturals

CONSTANT NoToken

VARIABLES
    record,     \* the refresh token of the credential store
    accepted,   \* refresh tokens the server accepts
    unsaved,    \* tokens the server issued and a call has yet to save
    revoked,    \* grants the server has revoked
    issued      \* grants made so far

rotationVars == <<record, accepted, unsaved, revoked, issued>>

Init ==
    /\ record = NoToken
    /\ accepted = {} /\ unsaved = {} /\ revoked = {}
    /\ issued = 0

\* A new authorization; exchange_code_for_tokens has its tokens to save.
Authorize ==
    LET first == [grant |-> issued + 1, serial |-> 0] IN
    /\ issued'   = issued + 1
    /\ accepted' = accepted \cup {first}
    /\ unsaved'  = unsaved \cup {first}
    /\ UNCHANGED <<record, revoked>>

\* The server replaces r, for a call that will save the successor or for a
\* request whose client is gone.
Rotate(r) ==
    LET next == [grant |-> r.grant, serial |-> r.serial + 1] IN
    /\ \A x \in unsaved : x.grant # r.grant
    /\ accepted' = (accepted \ {r}) \cup {next}
    /\ unsaved' \in {unsaved, unsaved \cup {next}}
    /\ UNCHANGED <<record, revoked, issued>>

\* The save of a token: accepted unless revoked, and newer than the one of
\* the same grant that it replaces.
Save(r) ==
    /\ r \in accepted \/ r.grant \in revoked
    /\ record # NoToken /\ record.grant = r.grant => record.serial < r.serial
    /\ record'  = r
    /\ unsaved' = unsaved \ {r}
    /\ UNCHANGED <<accepted, revoked, issued>>

\* Calls end without having saved their tokens.
Lose ==
    /\ unsaved' \subseteq unsaved
    /\ UNCHANGED <<record, accepted, revoked, issued>>

Revoke(g) ==
    /\ revoked'  = revoked \cup {g}
    /\ accepted' = {r \in accepted : r.grant # g}
    /\ UNCHANGED <<record, unsaved, issued>>

Next ==
    \/ Authorize
    \/ \E r \in accepted : Rotate(r)
    \/ \E r \in unsaved : Save(r)
    \/ Lose
    \/ \E g \in (1..issued) \ revoked : Revoke(g)

Spec == Init /\ [][Next]_rotationVars
=============================================================================

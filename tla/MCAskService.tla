---------------------------- MODULE MCAskService ----------------------------
(* A small instance of AskService for TLC. *)
EXTENDS AskService

Complete ==
    [present |-> CoreVars \cup GeminiVars \cup StoreVars \cup {DemoApiKey, RedirectUri},
     backend |-> "hosted", on_render |-> TRUE, fernet_key |-> TRUE]

Without(names) == [Complete EXCEPT !.present = @ \ names]

\* The complete environment of the deployment, and one flaw at a time: two the
\* start lets pass, and three it does not.
OneFlaw ==
    {Complete, Without({DemoApiKey}), Without({RedirectUri}),
     Without({"GOOGLE_API_KEY"}), Without({"REDIS_URL"}),
     [Complete EXCEPT !.backend = "", !.fernet_key = FALSE]}
=============================================================================

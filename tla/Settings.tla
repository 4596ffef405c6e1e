------------------------------- MODULE Settings -------------------------------
(***************************************************************************)
(* What the process environment must hold: agent/config.py, the choice of  *)
(* the backend in auth/credential_store.py, the constructor of the hosted  *)
(* store, the start of server/app.py, and what server/app.py and           *)
(* server/oauth.py look up on each request.                                *)
(***************************************************************************)

CoreVars    == {"SF_MY_DOMAIN_URL", "SF_ECA_CONSUMER_KEY", "SF_MCP_SERVER_URL"}
GeminiVars  == {"GOOGLE_API_KEY", "GOOGLE_GENAI_MODEL"}
StoreVars   == {"REDIS_URL", "CREDENTIAL_ENCRYPTION_KEY"}
DemoApiKey  == "DEMO_API_KEY"
RedirectUri == "OAUTH_REDIRECT_URI"

\* The variables that are set and not empty, CREDENTIAL_STORE_BACKEND and
\* RENDER as they are read, and whether the encryption key is a Fernet key.
Environment ==
    [present    : SUBSET (CoreVars \cup GeminiVars \cup StoreVars
                            \cup {DemoApiKey, RedirectUri}),
     backend    : {"", "local", "hosted", "other"},
     on_render  : BOOLEAN,
     fernet_key : BOOLEAN]

-----------------------------------------------------------------------------
(* agent/config.py *)

HasCoreSettings(env) == CoreVars \subseteq env.present

HasSettings(env) == HasCoreSettings(env) /\ GeminiVars \subseteq env.present

(* auth/credential_store.py and auth/hosted_credential_store.py *)

\* Off Render an unset backend means local; on Render it is an error.
Backend(env) ==
    IF env.backend # "" THEN env.backend
    ELSE IF env.on_render THEN "error" ELSE "local"

HostedStoreConfigured(env) == StoreVars \subseteq env.present /\ env.fernet_key

\* get_credential_store() returns a store, if Redis answers its ping.
StoreConfigured(env) ==
    \/ Backend(env) = "local"
    \/ Backend(env) = "hosted" /\ HostedStoreConfigured(env)

-----------------------------------------------------------------------------
(* server/app.py *)

\* _validate_startup_configuration finds nothing wrong, if Redis answers.
Starts(env) == HasSettings(env) /\ StoreConfigured(env)

\* What a question needs besides, and the start does not look at.
KeyConfigured(env) == DemoApiKey \in env.present

(* server/oauth.py *)

\* What /authorize and /callback need, and the start does not look at either.
AuthorizationConfigured(env) == {"REDIS_URL", RedirectUri} \subseteq env.present
=============================================================================

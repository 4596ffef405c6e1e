------------------------ MODULE MCLocalCredentialStore ------------------------
(* Small instances of LocalCredentialStore for TLC. *)
EXTENDS LocalCredentialStore

Setup(first, fits, fails) == [first |-> first, fits |-> fits, fails |-> fails]

\* No pair, one of them or all fit the keyring.
AnyInstallation ==
    {Setup(first, fits, fails) :
        first \in {"new", "legacy", "migrated"}, fails \in BOOLEAN,
        fits \in {{}, {CHOOSE t \in Tokens : TRUE}, Tokens}}

LegacyKey == {Setup("legacy", {}, FALSE)}
=============================================================================

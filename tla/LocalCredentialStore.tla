------------------------- MODULE LocalCredentialStore -------------------------
(***************************************************************************)
(* auth/local_credential_store.py step by step: the OS keyring first, an   *)
(* encrypted file when the keyring refuses the tokens, and the file's key  *)
(* in the keyring, migrated there from the key file of an older version.   *)
(* Each step is one keyring or file-system call; processes interleave      *)
(* between them, a call may raise, and a process may stop anywhere.        *)
(***************************************************************************)
EXTENDS FiniteSets

CONSTANTS
    Processes,
    Tokens,        \* token pairs, abstracted to their identity
    NoTokens,
    Unreadable,    \* a record that cannot be decrypted
    NoWrite,       \* no save or clear is under way
    Keys,          \* Fernet keys
    NoKey,
    Absent, Torn,  \* a token file that is not there, or cut short in writing
    Setups         \* the installations a history may be about

\* An installation: whether it is new or has the older version's key on disk
\* or in the keyring, which pairs are small enough for a keyring entry, and
\* whether a keyring call may raise for any other reason.
ASSUME SetupAssumption ==
    Setups \subseteq [first : {"new", "legacy", "migrated"},
                     fits : SUBSET Tokens, fails : BOOLEAN]
ASSUME MarkersAssumption ==
    /\ {NoTokens, Unreadable, NoWrite} \cap Tokens = {}
    /\ NoTokens # Unreadable /\ NoTokens # NoWrite
    /\ NoKey \notin Keys
    /\ {Absent, Torn} \cap [key : Keys, tokens : Tokens] = {} /\ Absent # Torn

VARIABLES
    setup,      \* the installation; it does not change
    entry,      \* keyring entry of the token pair
    key_entry,  \* keyring entry of the fallback key
    file,       \* token_store.enc: absent, torn, or tokens under a key
    legacy,     \* token_key.bin of the older version
    pc, op,     \* the next call each process makes, and for which operation
    arg,        \* the tokens it saves
    key,        \* the key it has in hand
    last_try,   \* a failure of the fallback read is final
    reply,      \* what the last step returned to a caller, if it returned
    newest      \* the pair a save reported stored, with no write begun since

disk == <<setup, entry, key_entry, file, legacy>>
vars == <<disk, pc, op, arg, key, last_try, reply, newest>>

Ciphertext == [key : Keys, tokens : Tokens]

Pending == "pending"
Raised  == "raised"
Done    == "done"

KeyOnRecord == IF key_entry # NoKey THEN key_entry ELSE legacy

\* What a load by itself would return now.
Readable ==
    IF entry # NoTokens THEN entry
    ELSE IF file = Absent THEN NoTokens
    ELSE IF file # Torn /\ file.key = KeyOnRecord THEN file.tokens
    ELSE Unreadable

Init ==
    \E k \in Keys, t \in Tokens :
        /\ setup \in Setups
        /\ entry = NoTokens
        /\ key_entry = (IF setup.first = "migrated" THEN k ELSE NoKey)
        /\ legacy = (IF setup.first = "legacy" THEN k ELSE NoKey)
        /\ file \in (IF setup.first = "new" THEN {Absent}
                     ELSE {Absent, [key |-> k, tokens |-> t]})
        /\ pc = [p \in Processes |-> "idle"]
        /\ op = [p \in Processes |-> "none"]
        /\ arg = [p \in Processes |-> NoTokens]
        /\ key = [p \in Processes |-> NoKey]
        /\ last_try = [p \in Processes |-> FALSE]
        /\ reply = Pending
        /\ newest = NoTokens

-----------------------------------------------------------------------------
\* A process goes on to its next call, keeping what it has.
Goto(p, label) ==
    /\ pc' = [pc EXCEPT ![p] = label]
    /\ reply' = Pending
    /\ UNCHANGED <<op, arg, last_try, newest>>

\* It leaves the operation, with everything it had.
Leave(p, out) ==
    /\ pc' = [pc EXCEPT ![p] = "idle"]
    /\ op' = [op EXCEPT ![p] = "none"]
    /\ arg' = [arg EXCEPT ![p] = NoTokens]
    /\ key' = [key EXCEPT ![p] = NoKey]
    /\ last_try' = [last_try EXCEPT ![p] = FALSE]
    /\ reply' = out
    /\ newest' = IF op[p] = "save" /\ out = Done THEN arg[p] ELSE newest

\* The call raises.  load() runs its fallback read inside the try, so the
\* first failure of it starts the read once more, from the except clause.
CallRaises(p) ==
    IF op[p] = "load" /\ ~last_try[p]
    THEN /\ pc' = [pc EXCEPT ![p] = "file_exists"]
         /\ key' = [key EXCEPT ![p] = NoKey]
         /\ last_try' = [last_try EXCEPT ![p] = TRUE]
         /\ reply' = Pending
         /\ UNCHANGED <<op, arg, newest>>
    ELSE Leave(p, Raised)

Begin(p, operation, label, tokens) ==
    /\ pc[p] = "idle"
    /\ pc' = [pc EXCEPT ![p] = label]
    /\ op' = [op EXCEPT ![p] = operation]
    /\ arg' = [arg EXCEPT ![p] = tokens]
    /\ reply' = Pending
    /\ newest' = IF operation = "load" THEN newest ELSE NoTokens
    /\ UNCHANGED <<disk, key, last_try>>

-----------------------------------------------------------------------------
(* load *)

GetEntry(p) ==
    /\ pc[p] = "get_entry"
    /\ UNCHANGED disk
    /\ \/ entry # NoTokens /\ Leave(p, entry)
       \/ entry = NoTokens /\ Goto(p, "file_exists") /\ UNCHANGED key
       \/ setup.fails /\ CallRaises(p)

FileExists(p) ==
    /\ pc[p] = "file_exists"
    /\ UNCHANGED disk
    /\ \/ file = Absent /\ Leave(p, NoTokens)
       \/ file # Absent /\ Goto(p, "get_key") /\ UNCHANGED key

ReadFile(p) ==
    /\ pc[p] = "read_file"
    /\ UNCHANGED disk
    /\ IF file \notin {Absent, Torn} /\ file.key = key[p]
       THEN Leave(p, file.tokens)
       ELSE CallRaises(p)

(* save *)

SetEntry(p) ==
    /\ pc[p] = "set_entry"
    /\ UNCHANGED <<setup, key_entry, file, legacy>>
    /\ \/ /\ arg[p] \in setup.fits
          /\ entry' = arg[p]
          /\ Leave(p, Done)
       \/ /\ arg[p] \notin setup.fits \/ setup.fails
          /\ Goto(p, "get_key")
          /\ UNCHANGED <<setup, entry, key>>

\* write_bytes truncates the file and then writes it.
TruncateFile(p) ==
    /\ pc[p] = "truncate"
    /\ file' = Torn
    /\ Goto(p, "write")
    /\ UNCHANGED <<setup, entry, key_entry, legacy, key>>

WriteFile(p) ==
    /\ pc[p] = "write"
    /\ \/ file' = [key |-> key[p], tokens |-> arg[p]] /\ Leave(p, Done)
       \/ file' = Torn /\ Leave(p, Raised)
    /\ UNCHANGED <<setup, entry, key_entry, legacy>>

(* clear *)

\* Any error of the deletion is ignored, the expected one (no such entry)
\* like a real one.
DeleteEntry(p) ==
    /\ pc[p] = "delete_entry"
    /\ entry' \in {NoTokens} \cup (IF setup.fails THEN {entry} ELSE {})
    /\ Goto(p, "unlink_file")
    /\ UNCHANGED <<setup, key_entry, file, legacy, key>>

ForgetEntryOnly(p) ==
    /\ pc[p] = "unlink_file"
    /\ Leave(p, Done)
    /\ UNCHANGED disk

UnlinkFile(p) ==
    /\ pc[p] = "unlink_file"
    /\ file' = Absent
    /\ Leave(p, Done)
    /\ UNCHANGED <<setup, entry, key_entry, legacy>>

-----------------------------------------------------------------------------
(* _fallback_key, called by both fallbacks *)

HaveKey(p, k) ==
    /\ key' = [key EXCEPT ![p] = k]
    /\ Goto(p, IF op[p] = "load" THEN "read_file" ELSE "truncate")

GetKeyAnew(p) ==
    /\ pc[p] = "get_key"
    /\ Goto(p, "choose_key")
    /\ UNCHANGED <<disk, key>>

GetKey(p) ==
    /\ pc[p] = "get_key"
    /\ UNCHANGED disk
    /\ \/ key_entry # NoKey /\ HaveKey(p, key_entry)
       \/ key_entry = NoKey /\ Goto(p, "choose_key") /\ UNCHANGED key
       \/ setup.fails /\ CallRaises(p)

\* A key nobody has: secrets never repeat.
FreshKeys ==
    Keys \ ({key_entry, legacy} \cup {key[q] : q \in Processes}
            \cup {c.key : c \in {file} \ {Absent, Torn}})

ChooseKeyUnchecked(p) ==
    /\ pc[p] = "choose_key"
    /\ key' = [key EXCEPT ![p] = legacy]
    /\ Goto(p, "set_key")
    /\ UNCHANGED disk

ChooseFreshKey(p) ==
    /\ pc[p] = "choose_key"
    /\ \E k \in FreshKeys : key' = [key EXCEPT ![p] = k]
    /\ Goto(p, "set_key")
    /\ UNCHANGED disk

ChooseKey(p) ==
    /\ pc[p] = "choose_key"
    /\ \E k \in (IF legacy # NoKey THEN {legacy} ELSE FreshKeys) :
          key' = [key EXCEPT ![p] = k]
    /\ Goto(p, "set_key")
    /\ UNCHANGED disk

SetKey(p) ==
    /\ pc[p] = "set_key"
    /\ \/ /\ key_entry' = key[p]
          /\ Goto(p, "unlink_key")
          /\ UNCHANGED <<setup, entry, file, legacy, key>>
       \/ /\ setup.fails
          /\ UNCHANGED disk
          /\ CallRaises(p)

UnlinkKey(p) ==
    /\ pc[p] = "unlink_key"
    /\ legacy' = NoKey
    /\ HaveKey(p, key[p])
    /\ UNCHANGED <<setup, entry, key_entry, file>>

-----------------------------------------------------------------------------
Crash(p) ==
    /\ pc[p] # "idle"
    /\ Leave(p, Pending)
    /\ UNCHANGED disk

Load(p)    == Begin(p, "load", "get_entry", NoTokens)
Save(p, t) == Begin(p, "save", "set_entry", t)
Clear(p)   == Begin(p, "clear", "delete_entry", NoTokens)

Next ==
    \E p \in Processes :
        \/ Load(p) \/ Clear(p)
        \/ \E t \in Tokens : Save(p, t)
        \/ GetEntry(p) \/ FileExists(p) \/ ReadFile(p)
        \/ SetEntry(p) \/ TruncateFile(p) \/ WriteFile(p)
        \/ DeleteEntry(p) \/ UnlinkFile(p)
        \/ GetKey(p) \/ ChooseKey(p) \/ SetKey(p) \/ UnlinkKey(p)
        \/ Crash(p)

Spec == Init /\ [][Next]_vars

-----------------------------------------------------------------------------
(* Properties *)

TypeOK ==
    /\ setup \in Setups
    /\ entry \in Tokens \cup {NoTokens}
    /\ key_entry \in Keys \cup {NoKey} /\ legacy \in Keys \cup {NoKey}
    /\ file \in {Absent, Torn} \cup Ciphertext
    /\ arg \in [Processes -> Tokens \cup {NoTokens}]
    /\ key \in [Processes -> Keys \cup {NoKey}]
    /\ last_try \in [Processes -> BOOLEAN]
    /\ newest \in Tokens \cup {NoTokens}
    /\ \A p \in Processes :
          /\ op[p] = "none" <=> pc[p] = "idle"
          /\ arg[p] # NoTokens <=> op[p] = "save"
          /\ pc[p] \in {"set_key", "unlink_key", "read_file", "truncate", "write"} =>
                key[p] # NoKey

\* The tokens in the fallback file can be decrypted with the key on record:
\* neither the migration of the older version's key, nor a failed or cut
\* short operation, orphans a token file that is already encrypted.
DecryptableAtRest == file \in Ciphertext => file.key = KeyOnRecord

\* A process alone sees the register of CredentialStore.
Writers == {p \in Processes : op[p] \in {"save", "clear"}}

\* What the save or clear under way will make of the record.
Written == IF Writers = {} THEN NoWrite ELSE arg[CHOOSE p \in Writers : TRUE]

Register == INSTANCE CredentialStore WITH value <- Readable, writing <- Written

\* The pairs go to one place only: all are too large for the keyring, however
\* unreliable, or all fit the reliable keyring of a new installation.
OnePlace ==
    \/ setup.fits = {}
    \/ setup.first = "new" /\ setup.fits = Tokens /\ ~setup.fails

\* In those installations load returns what the last save or clear left,
\* through key migration, failures and restarts; only a save cut short in
\* mid-write costs the record.
ImplementsRegister ==
    /\ OnePlace => Register!Init
    /\ [][OnePlace => Register!Next]_(Register!vars)

\* In every installation, whichever keyring calls fail: a pair a save reported
\* stored is still there, and can be decrypted if it is in the file, until
\* the next save or clear.  Failing reads (which make load return None) and
\* the loads' own key migration lose nothing; an older pair may hide it.
NewestIsKept ==
    newest # NoTokens =>
        \/ entry = newest
        \/ file \in Ciphertext /\ file.tokens = newest /\ file.key = KeyOnRecord
=============================================================================

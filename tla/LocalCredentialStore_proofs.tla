---------------------- MODULE LocalCredentialStore_proofs ----------------------
(***************************************************************************)
(* Proofs about LocalCredentialStore, for any token pairs, keys and        *)
(* installations: type correctness for any number of processes, what holds *)
(* of one process by itself, and what migration leaves to many.            *)
(***************************************************************************)
EXTENDS LocalCredentialStore, TLAPS

\* The operations whose calls a place in the code belongs to.
Places == [idle |-> {"none"},
           get_entry |-> {"load"}, file_exists |-> {"load"}, read_file |-> {"load"},
           set_entry |-> {"save"}, truncate |-> {"save"}, write |-> {"save"},
           delete_entry |-> {"clear"}, unlink_file |-> {"clear"},
           get_key |-> {"load", "save"}, choose_key |-> {"load", "save"},
           set_key |-> {"load", "save"}, unlink_key |-> {"load", "save"}]

WithKey == {"set_key", "unlink_key", "read_file", "truncate", "write"}

DiskOK ==
    /\ setup \in Setups
    /\ entry \in Tokens \cup {NoTokens}
    /\ key_entry \in Keys \cup {NoKey} /\ legacy \in Keys \cup {NoKey}
    /\ file \in {Absent, Torn} \cup Ciphertext

ProcessesOK ==
    /\ pc \in [Processes -> DOMAIN Places]
    /\ op \in [Processes -> {"none", "load", "save", "clear"}]
    /\ arg \in [Processes -> Tokens \cup {NoTokens}]
    /\ key \in [Processes -> Keys \cup {NoKey}]
    /\ last_try \in [Processes -> BOOLEAN]
    /\ newest \in Tokens \cup {NoTokens}
    /\ \A p \in Processes :
          /\ op[p] \in Places[pc[p]]
          /\ arg[p] # NoTokens <=> op[p] = "save"
          /\ pc[p] \in WithKey => key[p] # NoKey

TypeInv == DiskOK /\ ProcessesOK

LEMMA TypeInvImpliesTypeOK == TypeInv => TypeOK
  BY DEF TypeInv, DiskOK, ProcessesOK, TypeOK, Places, WithKey

LEMMA LeaveKeepsProcesses ==
    ASSUME ProcessesOK, NEW p \in Processes, NEW out, Leave(p, out)
    PROVE  ProcessesOK'
  BY MarkersAssumption DEF Leave, ProcessesOK, Places, WithKey

LEMMA GotoKeepsProcesses ==
    ASSUME ProcessesOK, NEW p \in Processes, NEW label \in DOMAIN Places,
           Goto(p, label), op[p] \in Places[label],
           NEW k \in Keys \cup {NoKey}, key' = [key EXCEPT ![p] = k],
           label \in WithKey => k # NoKey
    PROVE  ProcessesOK'
  BY DEF Goto, ProcessesOK

LEMMA GotoKeepingKey ==
    ASSUME ProcessesOK, NEW p \in Processes, NEW label \in DOMAIN Places,
           Goto(p, label), op[p] \in Places[label], UNCHANGED key,
           label \in WithKey => key[p] # NoKey
    PROVE  ProcessesOK'
  BY DEF Goto, ProcessesOK

LEMMA CallRaisesKeepsProcesses ==
    ASSUME ProcessesOK, NEW p \in Processes, CallRaises(p)
    PROVE  ProcessesOK'
  <1>1. CASE op[p] = "load" /\ ~last_try[p]
    <2>1. /\ pc' = [pc EXCEPT ![p] = "file_exists"] /\ key' = [key EXCEPT ![p] = NoKey]
          /\ last_try' = [last_try EXCEPT ![p] = TRUE]
          /\ UNCHANGED <<op, arg, newest>>
      BY <1>1 DEF CallRaises
    <2>2. "file_exists" \in DOMAIN Places /\ Places["file_exists"] = {"load"}
          /\ "file_exists" \notin WithKey
      BY DEF Places, WithKey
    <2> QED
      BY <1>1, <2>1, <2>2 DEF ProcessesOK
  <1>2. CASE ~(op[p] = "load" /\ ~last_try[p])
    BY <1>2, LeaveKeepsProcesses DEF CallRaises
  <1> QED
    BY <1>1, <1>2

LEMMA HaveKeyKeepsProcesses ==
    ASSUME ProcessesOK, NEW p \in Processes, NEW k \in Keys, HaveKey(p, k),
           op[p] \in {"load", "save"}
    PROVE  ProcessesOK'
  <1> DEFINE label == IF op[p] = "load" THEN "read_file" ELSE "truncate"
  <1>1. label \in DOMAIN Places /\ op[p] \in Places[label]
    BY DEF Places
  <1>2. Goto(p, label) /\ key' = [key EXCEPT ![p] = k]
    BY DEF HaveKey
  <1> QED
    BY <1>1, <1>2, GotoKeepsProcesses, MarkersAssumption

LEMMA BeginKeepsProcesses ==
    ASSUME ProcessesOK, NEW p \in Processes, NEW tokens \in Tokens \cup {NoTokens},
           NEW operation \in {"load", "save", "clear"},
           NEW label \in DOMAIN Places \ WithKey,
           operation \in Places[label], tokens # NoTokens <=> operation = "save",
           Begin(p, operation, label, tokens)
    PROVE  ProcessesOK'
  BY DEF Begin, ProcessesOK

LEMMA TypeInductive ==
    /\ Init => TypeInv
    /\ TypeInv /\ [Next]_vars => TypeInv'
  <1> USE MarkersAssumption
  <1>1. Init => TypeInv
    BY DEF Init, TypeInv, DiskOK, ProcessesOK, Places, WithKey, Ciphertext
  <1>2. ASSUME TypeInv, [Next]_vars PROVE TypeInv'
    <2> USE <1>2 DEF TypeInv
    <2>1. ASSUME NEW p \in Processes, Load(p) PROVE TypeInv'
      <3>1. ProcessesOK'
        BY <2>1, BeginKeepsProcesses DEF Load, Places, WithKey
      <3> QED
        BY <2>1, <3>1 DEF Load, Begin, DiskOK, disk
    <2>2. ASSUME NEW p \in Processes, Clear(p) PROVE TypeInv'
      <3>1. ProcessesOK'
        BY <2>2, BeginKeepsProcesses DEF Clear, Places, WithKey
      <3> QED
        BY <2>2, <3>1 DEF Clear, Begin, DiskOK, disk
    <2>3. ASSUME NEW p \in Processes, NEW t \in Tokens, Save(p, t) PROVE TypeInv'
      <3>1. ProcessesOK'
        BY <2>3, BeginKeepsProcesses DEF Save, Places, WithKey
      <3> QED
        BY <2>3, <3>1 DEF Save, Begin, DiskOK, disk
    <2>4. ASSUME NEW p \in Processes, GetEntry(p) PROVE TypeInv'
      <3>1. op[p] = "load"
        BY <2>4 DEF GetEntry, ProcessesOK, Places
      <3>2. ProcessesOK'
        BY <2>4, <3>1, LeaveKeepsProcesses, GotoKeepingKey, CallRaisesKeepsProcesses
        DEF GetEntry, Places, WithKey
      <3> QED
        BY <2>4, <3>2 DEF GetEntry, DiskOK, disk
    <2>5. ASSUME NEW p \in Processes, FileExists(p) PROVE TypeInv'
      <3>1. op[p] = "load"
        BY <2>5 DEF FileExists, ProcessesOK, Places
      <3>2. ProcessesOK'
        BY <2>5, <3>1, LeaveKeepsProcesses, GotoKeepingKey DEF FileExists, Places, WithKey
      <3> QED
        BY <2>5, <3>2 DEF FileExists, DiskOK, disk
    <2>6. ASSUME NEW p \in Processes, ReadFile(p) PROVE TypeInv'
      <3>1. ProcessesOK'
        BY <2>6, LeaveKeepsProcesses, CallRaisesKeepsProcesses DEF ReadFile
      <3> QED
        BY <2>6, <3>1 DEF ReadFile, DiskOK, disk
    <2>7. ASSUME NEW p \in Processes, SetEntry(p) PROVE TypeInv'
      <3>1. op[p] = "save"
        BY <2>7 DEF SetEntry, ProcessesOK, Places
      <3>2. ProcessesOK'
        BY <2>7, <3>1, LeaveKeepsProcesses, GotoKeepingKey DEF SetEntry, Places, WithKey
      <3> QED
        BY <2>7, <3>2 DEF SetEntry, DiskOK, ProcessesOK
    <2>8. ASSUME NEW p \in Processes, TruncateFile(p) PROVE TypeInv'
      <3>1. op[p] = "save" /\ key[p] # NoKey
        BY <2>8 DEF TruncateFile, ProcessesOK, Places, WithKey
      <3>2. ProcessesOK'
        BY <2>8, <3>1, GotoKeepingKey DEF TruncateFile, Places, WithKey
      <3> QED
        BY <2>8, <3>2 DEF TruncateFile, DiskOK
    <2>9. ASSUME NEW p \in Processes, WriteFile(p) PROVE TypeInv'
      <3>1. ProcessesOK'
        BY <2>9, LeaveKeepsProcesses DEF WriteFile
      <3>2. key[p] \in Keys /\ arg[p] \in Tokens
        BY <2>9 DEF WriteFile, ProcessesOK, Places, WithKey
      <3> QED
        BY <2>9, <3>1, <3>2 DEF WriteFile, DiskOK, Ciphertext
    <2>10. ASSUME NEW p \in Processes, DeleteEntry(p) PROVE TypeInv'
      <3>1. op[p] = "clear"
        BY <2>10 DEF DeleteEntry, ProcessesOK, Places
      <3>2. ProcessesOK'
        BY <2>10, <3>1, GotoKeepingKey DEF DeleteEntry, Places, WithKey
      <3> QED
        BY <2>10, <3>2 DEF DeleteEntry, DiskOK
    <2>11. ASSUME NEW p \in Processes, UnlinkFile(p) PROVE TypeInv'
      <3>1. ProcessesOK'
        BY <2>11, LeaveKeepsProcesses DEF UnlinkFile
      <3> QED
        BY <2>11, <3>1 DEF UnlinkFile, DiskOK
    <2>12. ASSUME NEW p \in Processes, GetKey(p) PROVE TypeInv'
      <3>1. op[p] \in {"load", "save"}
        BY <2>12 DEF GetKey, ProcessesOK, Places
      <3>2. ProcessesOK'
        BY <2>12, <3>1, HaveKeyKeepsProcesses, GotoKeepingKey, CallRaisesKeepsProcesses
        DEF GetKey, DiskOK, Places, WithKey
      <3> QED
        BY <2>12, <3>2 DEF GetKey, DiskOK, disk
    <2>13. ASSUME NEW p \in Processes, ChooseKey(p) PROVE TypeInv'
      <3>1. op[p] \in {"load", "save"}
        BY <2>13 DEF ChooseKey, ProcessesOK, Places
      <3>2. PICK k \in Keys : key' = [key EXCEPT ![p] = k]
        BY <2>13 DEF ChooseKey, FreshKeys, DiskOK
      <3>3. ProcessesOK'
        BY <2>13, <3>1, <3>2, GotoKeepsProcesses DEF ChooseKey, Places
      <3> QED
        BY <2>13, <3>3 DEF ChooseKey, DiskOK, disk
    <2>14. ASSUME NEW p \in Processes, SetKey(p) PROVE TypeInv'
      <3>1. op[p] \in {"load", "save"} /\ key[p] \in Keys
        BY <2>14 DEF SetKey, ProcessesOK, Places, WithKey
      <3>2. ProcessesOK'
        BY <2>14, <3>1, GotoKeepingKey, CallRaisesKeepsProcesses DEF SetKey, Places
      <3> QED
        BY <2>14, <3>1, <3>2 DEF SetKey, DiskOK, disk
    <2>15. ASSUME NEW p \in Processes, UnlinkKey(p) PROVE TypeInv'
      <3>1. op[p] \in {"load", "save"} /\ key[p] \in Keys
        BY <2>15 DEF UnlinkKey, ProcessesOK, Places, WithKey
      <3>2. ProcessesOK'
        BY <2>15, <3>1, HaveKeyKeepsProcesses DEF UnlinkKey
      <3> QED
        BY <2>15, <3>2 DEF UnlinkKey, DiskOK
    <2>16. ASSUME NEW p \in Processes, Crash(p) PROVE TypeInv'
      <3>1. ProcessesOK'
        BY <2>16, LeaveKeepsProcesses DEF Crash
      <3> QED
        BY <2>16, <3>1 DEF Crash, DiskOK, disk
    <2>17. CASE UNCHANGED vars
      BY <2>17 DEF vars, disk, DiskOK, ProcessesOK
    <2> QED
      BY <2>1, <2>2, <2>3, <2>4, <2>5, <2>6, <2>7, <2>8, <2>9, <2>10, <2>11,
         <2>12, <2>13, <2>14, <2>15, <2>16, <2>17
      DEF Next
  <1> QED
    BY <1>1, <1>2

\* Type correctness for any number of processes: no process comes to use a key
\* it does not have, or to save tokens it was not given.
THEOREM TypeCorrect == Spec => []TypeOK
  BY TypeInductive, TypeInvImpliesTypeOK, PTL DEF Spec

-----------------------------------------------------------------------------
(* One process by itself *)

\* What its place tells about the fallback key: the key it has in hand is the
\* one on record, or about to be; and a write has made any report of a stored
\* pair obsolete.
KeyInHand(p) ==
    /\ pc[p] \in {"read_file", "truncate", "write", "unlink_key"} =>
          key_entry # NoKey /\ key[p] = key_entry
    /\ pc[p] \in {"choose_key", "set_key"} => key_entry = NoKey
    /\ pc[p] = "set_key" => legacy \in {NoKey, key[p]}
    /\ op[p] \in {"save", "clear"} => newest = NoTokens

\* DecryptableAtRest and NewestIsKept, as conjuncts that a step keeps or not.
FileOK   == DecryptableAtRest
NewestOK == newest # NoTokens =>
                entry = newest \/ (file \in Ciphertext /\ file.tokens = newest)

AloneInv(p) == FileOK /\ NewestOK /\ KeyInHand(p)

\* Leaving keeps what is known of the key, and newest unless a save is done.
LEMMA LeaveAlone ==
    ASSUME TypeInv, NEW p \in Processes, NEW out, Leave(p, out)
    PROVE  /\ pc'[p] = "idle" /\ op'[p] = "none"
           /\ newest' = IF op[p] = "save" /\ out = Done THEN arg[p] ELSE newest
  BY DEF Leave, TypeInv, ProcessesOK

LEMMA GotoAlone ==
    ASSUME TypeInv, NEW p \in Processes, NEW label, Goto(p, label)
    PROVE  pc'[p] = label /\ op'[p] = op[p] /\ newest' = newest
  BY DEF Goto, TypeInv, ProcessesOK

LEMMA CallRaisesAlone ==
    ASSUME TypeInv, NEW p \in Processes, CallRaises(p)
    PROVE  /\ pc'[p] \in {"idle", "file_exists"} /\ op'[p] \in {"none", "load"}
           /\ newest' = newest
  BY LeaveAlone DEF CallRaises, Raised, Done, TypeInv, ProcessesOK

LEMMA HaveKeyAlone ==
    ASSUME TypeInv, NEW p \in Processes, NEW k, HaveKey(p, k)
    PROVE  /\ pc'[p] \in {"read_file", "truncate"} /\ op'[p] = op[p]
           /\ newest' = newest /\ key'[p] = k
  BY GotoAlone DEF HaveKey, TypeInv, ProcessesOK

\* The disk stays as it is and the process does not come to hold the key.
LEMMA DiskUnchanged ==
    ASSUME NEW p \in Processes, AloneInv(p), UNCHANGED disk,
           newest' \in {newest, NoTokens},
           pc'[p] \notin {"read_file", "truncate", "write", "unlink_key",
                          "choose_key", "set_key"},
           op'[p] \in {"save", "clear"} => newest' = NoTokens
    PROVE  AloneInv(p)'
  BY DEF AloneInv, FileOK, NewestOK, KeyInHand, DecryptableAtRest, KeyOnRecord,
         Ciphertext, disk

LEMMA AloneInductive ==
    ASSUME NEW p \in Processes, Processes = {p}
    PROVE  /\ Init => AloneInv(p)
           /\ TypeInv /\ AloneInv(p) /\ [Next]_vars => AloneInv(p)'
  <1> USE MarkersAssumption
  <1>1. ASSUME Init PROVE AloneInv(p)
    <2>1. PICK k \in Keys, t \in Tokens :
            /\ key_entry = (IF setup.first = "migrated" THEN k ELSE NoKey)
            /\ legacy = (IF setup.first = "legacy" THEN k ELSE NoKey)
            /\ file \in (IF setup.first = "new" THEN {Absent}
                         ELSE {Absent, [key |-> k, tokens |-> t]})
      BY <1>1 DEF Init
    <2>2. /\ setup.first \in {"new", "legacy", "migrated"}
          /\ pc[p] = "idle" /\ op[p] = "none" /\ newest = NoTokens
      BY <1>1, SetupAssumption DEF Init
    <2>3. file \in Ciphertext => file = [key |-> k, tokens |-> t] /\ KeyOnRecord = k
      BY <2>1, <2>2 DEF Ciphertext, KeyOnRecord
    <2> QED
      BY <2>2, <2>3 DEF AloneInv, FileOK, NewestOK, KeyInHand, DecryptableAtRest
  <1>2. ASSUME TypeInv, AloneInv(p), [Next]_vars PROVE AloneInv(p)'
    <2> USE <1>2
    <2>1. CASE Load(p) \/ Clear(p) \/ \E t \in Tokens : Save(p, t)
      <3>1. /\ UNCHANGED disk /\ newest' \in {newest, NoTokens}
            /\ pc'[p] \in {"get_entry", "set_entry", "delete_entry"}
            /\ op'[p] \in {"save", "clear"} => newest' = NoTokens
        BY <2>1 DEF Load, Clear, Save, Begin, TypeInv, ProcessesOK
      <3> QED
        BY <3>1, DiskUnchanged
    <2>2. CASE GetEntry(p)
      <3>1. op[p] = "load"
        BY <2>2 DEF GetEntry, TypeInv, ProcessesOK, Places
      <3>2. /\ UNCHANGED disk /\ newest' = newest
            /\ pc'[p] \in {"idle", "file_exists"} /\ op'[p] \in {"none", "load"}
        BY <2>2, <3>1, LeaveAlone, GotoAlone, CallRaisesAlone DEF GetEntry
      <3> QED
        BY <3>2, DiskUnchanged
    <2>3. CASE FileExists(p)
      <3>1. op[p] = "load"
        BY <2>3 DEF FileExists, TypeInv, ProcessesOK, Places
      <3>2. /\ UNCHANGED disk /\ newest' = newest
            /\ pc'[p] \in {"idle", "get_key"} /\ op'[p] \in {"none", "load"}
        BY <2>3, <3>1, LeaveAlone, GotoAlone DEF FileExists
      <3> QED
        BY <3>2, DiskUnchanged
    <2>4. CASE ReadFile(p)
      <3>1. op[p] = "load"
        BY <2>4 DEF ReadFile, TypeInv, ProcessesOK, Places
      <3>2. /\ UNCHANGED disk /\ newest' = newest
            /\ pc'[p] \in {"idle", "file_exists"} /\ op'[p] \in {"none", "load"}
        BY <2>4, <3>1, LeaveAlone, CallRaisesAlone DEF ReadFile
      <3> QED
        BY <3>2, DiskUnchanged
    <2>5. CASE SetEntry(p)
      <3>1. op[p] = "save" /\ newest = NoTokens
        BY <2>5 DEF SetEntry, AloneInv, KeyInHand, TypeInv, ProcessesOK, Places
      <3>2. CASE entry' = arg[p] /\ Leave(p, Done)
        <4>1. pc'[p] = "idle" /\ op'[p] = "none" /\ newest' = arg[p]
          BY <3>1, <3>2, LeaveAlone
        <4> QED
          BY <2>5, <3>2, <4>1
          DEF SetEntry, AloneInv, FileOK, NewestOK, KeyInHand, DecryptableAtRest,
              KeyOnRecord, Ciphertext
      <3>3. CASE Goto(p, "get_key") /\ UNCHANGED entry
        <4>1. pc'[p] = "get_key" /\ op'[p] = "save" /\ newest' = NoTokens
          BY <3>1, <3>3, GotoAlone
        <4> QED
          BY <2>5, <3>3, <4>1, DiskUnchanged, <3>1 DEF SetEntry, disk
      <3> QED
        BY <2>5, <3>2, <3>3 DEF SetEntry
    <2>6. CASE TruncateFile(p)
      <3>1. op[p] = "save" /\ newest = NoTokens /\ key_entry # NoKey /\ key[p] = key_entry
        BY <2>6 DEF TruncateFile, AloneInv, KeyInHand, TypeInv, ProcessesOK, Places
      <3>2. pc'[p] = "write" /\ op'[p] = "save" /\ newest' = NoTokens
        BY <2>6, <3>1, GotoAlone DEF TruncateFile
      <3>3. file' = Torn /\ file' \notin Ciphertext
        BY <2>6 DEF TruncateFile, Ciphertext
      <3> QED
        BY <2>6, <3>1, <3>2, <3>3
        DEF TruncateFile, AloneInv, FileOK, NewestOK, KeyInHand, DecryptableAtRest,
            Ciphertext
    <2>7. CASE WriteFile(p)
      <3>1. op[p] = "save" /\ newest = NoTokens /\ key_entry # NoKey /\ key[p] = key_entry
            /\ key[p] \in Keys /\ arg[p] \in Tokens
        BY <2>7 DEF WriteFile, AloneInv, KeyInHand, TypeInv, DiskOK, ProcessesOK, Places
      <3>2. CASE file' = [key |-> key[p], tokens |-> arg[p]] /\ Leave(p, Done)
        <4>1. pc'[p] = "idle" /\ op'[p] = "none" /\ newest' = arg[p]
          BY <3>1, <3>2, LeaveAlone
        <4> QED
          BY <2>7, <3>1, <3>2, <4>1
          DEF WriteFile, AloneInv, FileOK, NewestOK, KeyInHand, DecryptableAtRest,
              KeyOnRecord, Ciphertext
      <3>3. CASE file' = Torn /\ Leave(p, Raised)
        <4>1. pc'[p] = "idle" /\ op'[p] = "none" /\ newest' = NoTokens
          BY <3>1, <3>3, LeaveAlone DEF Raised, Done
        <4>2. file' \notin Ciphertext
          BY <3>3 DEF Ciphertext
        <4> QED
          BY <2>7, <4>1, <4>2
          DEF WriteFile, AloneInv, FileOK, NewestOK, KeyInHand, DecryptableAtRest,
              Ciphertext
      <3> QED
        BY <2>7, <3>2, <3>3 DEF WriteFile
    <2>8. CASE DeleteEntry(p)
      <3>1. op[p] = "clear" /\ newest = NoTokens
        BY <2>8 DEF DeleteEntry, AloneInv, KeyInHand, TypeInv, ProcessesOK, Places
      <3>2. pc'[p] = "unlink_file" /\ op'[p] = "clear" /\ newest' = NoTokens
        BY <2>8, <3>1, GotoAlone DEF DeleteEntry
      <3> QED
        BY <2>8, <3>2
        DEF DeleteEntry, AloneInv, FileOK, NewestOK, KeyInHand, DecryptableAtRest,
            KeyOnRecord, Ciphertext
    <2>9. CASE UnlinkFile(p)
      <3>1. op[p] = "clear" /\ newest = NoTokens
        BY <2>9 DEF UnlinkFile, AloneInv, KeyInHand, TypeInv, ProcessesOK, Places
      <3>2. pc'[p] = "idle" /\ op'[p] = "none" /\ newest' = NoTokens
        BY <2>9, <3>1, LeaveAlone DEF UnlinkFile
      <3>3. file' \notin Ciphertext
        BY <2>9 DEF UnlinkFile, Ciphertext
      <3> QED
        BY <3>2, <3>3
        DEF AloneInv, FileOK, NewestOK, KeyInHand, DecryptableAtRest, Ciphertext
    <2>10. CASE GetKey(p)
      <3>1. CASE key_entry # NoKey /\ HaveKey(p, key_entry)
        BY <2>10, <3>1, HaveKeyAlone
        DEF GetKey, disk, AloneInv, FileOK, NewestOK, KeyInHand, DecryptableAtRest,
            KeyOnRecord, Ciphertext
      <3>2. CASE key_entry = NoKey /\ Goto(p, "choose_key") /\ UNCHANGED key
        BY <2>10, <3>2, GotoAlone
        DEF GetKey, disk, AloneInv, FileOK, NewestOK, KeyInHand, DecryptableAtRest,
            KeyOnRecord, Ciphertext
      <3>3. CASE CallRaises(p)
        BY <2>10, <3>3, CallRaisesAlone, DiskUnchanged DEF GetKey
      <3> QED
        BY <2>10, <3>1, <3>2, <3>3 DEF GetKey
    <2>11. CASE ChooseKey(p)
      <3>1. PICK k : /\ key' = [key EXCEPT ![p] = k]
                     /\ legacy \in {NoKey, k}
        BY <2>11 DEF ChooseKey
      <3>2. key'[p] = k /\ pc'[p] = "set_key" /\ op'[p] = op[p] /\ newest' = newest
        BY <2>11, <3>1, GotoAlone DEF ChooseKey, TypeInv, ProcessesOK
      <3> QED
        BY <2>11, <3>1, <3>2
        DEF ChooseKey, disk, AloneInv, FileOK, NewestOK, KeyInHand, DecryptableAtRest,
            KeyOnRecord, Ciphertext
    <2>12. CASE SetKey(p)
      <3>1. CASE key_entry' = key[p] /\ Goto(p, "unlink_key")
                 /\ UNCHANGED <<setup, entry, file, legacy, key>>
        <4>1. /\ key_entry = NoKey /\ legacy \in {NoKey, key[p]} /\ key[p] # NoKey
              /\ pc'[p] = "unlink_key" /\ op'[p] = op[p] /\ newest' = newest
          BY <2>12, <3>1, GotoAlone
          DEF SetKey, AloneInv, KeyInHand, TypeInv, ProcessesOK, WithKey
        <4>2. file \in Ciphertext => file.key = key[p]
          BY <4>1 DEF AloneInv, FileOK, DecryptableAtRest, KeyOnRecord, Ciphertext
        <4> QED
          BY <3>1, <4>1, <4>2
          DEF AloneInv, FileOK, NewestOK, KeyInHand, DecryptableAtRest, KeyOnRecord,
              Ciphertext
      <3>2. CASE UNCHANGED disk /\ CallRaises(p)
        BY <3>2, CallRaisesAlone, DiskUnchanged
      <3> QED
        BY <2>12, <3>1, <3>2 DEF SetKey
    <2>13. CASE UnlinkKey(p)
      <3>1. key_entry # NoKey /\ key[p] = key_entry
        BY <2>13 DEF UnlinkKey, AloneInv, KeyInHand
      <3> QED
        BY <2>13, <3>1, HaveKeyAlone
        DEF UnlinkKey, AloneInv, FileOK, NewestOK, KeyInHand, DecryptableAtRest,
            KeyOnRecord, Ciphertext
    <2>14. CASE Crash(p)
      BY <2>14, LeaveAlone, DiskUnchanged DEF Crash, Pending, Done
    <2>15. CASE UNCHANGED vars
      BY <2>15
      DEF vars, disk, AloneInv, FileOK, NewestOK, KeyInHand, DecryptableAtRest,
          KeyOnRecord, Ciphertext
    <2> QED
      BY <2>1, <2>2, <2>3, <2>4, <2>5, <2>6, <2>7, <2>8, <2>9, <2>10, <2>11,
         <2>12, <2>13, <2>14, <2>15
      DEF Next
  <1> QED
    BY <1>1, <1>2

\* One process never orphans its token file, whatever its installation and
\* wherever its calls fail or it stops.
THEOREM DecryptableAloneHolds ==
    ASSUME NEW p \in Processes, Processes = {p}
    PROVE  Spec => []DecryptableAtRest
  <1>1. AloneInv(p) => DecryptableAtRest
    BY DEF AloneInv, FileOK
  <1> QED
    BY <1>1, AloneInductive, TypeInductive, PTL DEF Spec

\* One process loses no pair that a save reported stored.
THEOREM NewestIsKeptHolds ==
    ASSUME NEW p \in Processes, Processes = {p}
    PROVE  Spec => []NewestIsKept
  <1>1. AloneInv(p) => NewestIsKept
    BY DEF AloneInv, FileOK, NewestOK, NewestIsKept, DecryptableAtRest
  <1> QED
    BY <1>1, AloneInductive, TypeInductive, PTL DEF Spec

-----------------------------------------------------------------------------
(* Any number of processes once the key is in the keyring *)

\* Nobody has a reason to make or move a key, and all use the one on record.
Settled ==
    setup.first = "migrated" =>
        /\ key_entry # NoKey
        /\ DecryptableAtRest
        /\ \A p \in Processes :
              /\ pc[p] \notin {"choose_key", "set_key", "unlink_key"}
              /\ pc[p] \in {"read_file", "truncate", "write"} => key[p] = key_entry

\* The parts of a step that move one process and nothing else it is about.
LEMMA LeaveSettled ==
    ASSUME TypeInv, NEW p \in Processes, NEW out, Leave(p, out)
    PROVE  /\ pc' = [pc EXCEPT ![p] = "idle"]
           /\ \A q \in Processes \ {p} : key'[q] = key[q]
  BY DEF Leave, TypeInv, ProcessesOK

LEMMA GotoSettled ==
    ASSUME NEW p \in Processes, NEW label, Goto(p, label)
    PROVE  pc' = [pc EXCEPT ![p] = label]
  BY DEF Goto

LEMMA CallRaisesSettled ==
    ASSUME TypeInv, NEW p \in Processes, CallRaises(p)
    PROVE  /\ \/ pc' = [pc EXCEPT ![p] = "idle"]
              \/ pc' = [pc EXCEPT ![p] = "file_exists"]
           /\ \A q \in Processes \ {p} : key'[q] = key[q]
  BY LeaveSettled DEF CallRaises, TypeInv, ProcessesOK

\* The process goes somewhere it needs no key, and the token file, if any, is
\* encrypted as before.
LEMMA KeylessMove ==
    ASSUME TypeInv, Settled, NEW p \in Processes, UNCHANGED <<setup, key_entry, legacy>>,
           file' = file \/ file' \notin Ciphertext,
           NEW label \in {"idle", "get_entry", "file_exists", "set_entry",
                          "delete_entry", "unlink_file", "get_key"},
           pc' = [pc EXCEPT ![p] = label],
           \A q \in Processes \ {p} : key'[q] = key[q]
    PROVE  Settled'
  BY DEF Settled, DecryptableAtRest, KeyOnRecord, Ciphertext, TypeInv, ProcessesOK

LEMMA SettledInductive ==
    /\ Init => Settled
    /\ TypeInv /\ Settled /\ [Next]_vars => Settled'
  <1> USE MarkersAssumption
  <1>1. ASSUME Init PROVE Settled
    <2>1. PICK k \in Keys, t \in Tokens :
            /\ key_entry = (IF setup.first = "migrated" THEN k ELSE NoKey)
            /\ file \in (IF setup.first = "new" THEN {Absent}
                         ELSE {Absent, [key |-> k, tokens |-> t]})
            /\ pc = [p \in Processes |-> "idle"]
      BY <1>1 DEF Init
    <2> QED
      BY <2>1 DEF Settled, DecryptableAtRest, KeyOnRecord, Ciphertext
  <1>2. ASSUME TypeInv, Settled, [Next]_vars PROVE Settled'
    <2> SUFFICES ASSUME setup.first = "migrated", setup' = setup PROVE Settled'
      BY <1>2 DEF Settled, Next, vars, disk, Load, Clear, Save, Begin, GetEntry,
                  FileExists, ReadFile, SetEntry, TruncateFile, WriteFile,
                  DeleteEntry, UnlinkFile, GetKey, ChooseKey, SetKey, UnlinkKey, Crash
    <2> USE <1>2
    <2>1. ASSUME NEW p \in Processes,
                 Load(p) \/ Clear(p) \/ \E t \in Tokens : Save(p, t)
          PROVE  Settled'
      BY <2>1, KeylessMove DEF Load, Clear, Save, Begin, disk
    <2>2. ASSUME NEW p \in Processes, GetEntry(p) PROVE Settled'
      BY <2>2, LeaveSettled, GotoSettled, CallRaisesSettled, KeylessMove DEF GetEntry, disk
    <2>3. ASSUME NEW p \in Processes, FileExists(p) PROVE Settled'
      BY <2>3, LeaveSettled, GotoSettled, KeylessMove DEF FileExists, disk
    <2>4. ASSUME NEW p \in Processes, ReadFile(p) PROVE Settled'
      BY <2>4, LeaveSettled, CallRaisesSettled, KeylessMove DEF ReadFile, disk
    <2>5. ASSUME NEW p \in Processes, SetEntry(p) PROVE Settled'
      BY <2>5, LeaveSettled, GotoSettled, KeylessMove DEF SetEntry
    <2>6. ASSUME NEW p \in Processes, TruncateFile(p) PROVE Settled'
      <3>1. key[p] = key_entry /\ pc' = [pc EXCEPT ![p] = "write"]
        BY <2>6, GotoSettled DEF TruncateFile, Settled
      <3>2. file' \notin Ciphertext
        BY <2>6 DEF TruncateFile, Ciphertext
      <3> QED
        BY <2>6, <3>1, <3>2
        DEF TruncateFile, Settled, DecryptableAtRest, TypeInv, ProcessesOK
    <2>7. ASSUME NEW p \in Processes, WriteFile(p) PROVE Settled'
      <3>1. key[p] = key_entry /\ key_entry # NoKey
        BY <2>7 DEF WriteFile, Settled
      <3>2. /\ pc' = [pc EXCEPT ![p] = "idle"]
            /\ \A q \in Processes \ {p} : key'[q] = key[q]
        BY <2>7, LeaveSettled DEF WriteFile
      <3>3. file' \in Ciphertext => file'.key = key_entry
        BY <2>7, <3>1 DEF WriteFile, Ciphertext
      <3> QED
        BY <2>7, <3>1, <3>2, <3>3
        DEF WriteFile, Settled, DecryptableAtRest, KeyOnRecord, TypeInv, ProcessesOK
    <2>8. ASSUME NEW p \in Processes, DeleteEntry(p) PROVE Settled'
      BY <2>8, GotoSettled, KeylessMove DEF DeleteEntry
    <2>9. ASSUME NEW p \in Processes, UnlinkFile(p) PROVE Settled'
      <3>1. file' \notin Ciphertext
        BY <2>9 DEF UnlinkFile, Ciphertext
      <3> QED
        BY <2>9, <3>1, LeaveSettled, KeylessMove DEF UnlinkFile
    <2>10. ASSUME NEW p \in Processes, GetKey(p) PROVE Settled'
      <3>1. CASE HaveKey(p, key_entry)
        <4>1. key' = [key EXCEPT ![p] = key_entry]
              /\ \/ pc' = [pc EXCEPT ![p] = "read_file"]
                 \/ pc' = [pc EXCEPT ![p] = "truncate"]
          BY <3>1 DEF HaveKey, Goto
        <4> QED
          BY <2>10, <4>1
          DEF GetKey, disk, Settled, DecryptableAtRest, KeyOnRecord, Ciphertext,
              TypeInv, ProcessesOK
      <3>2. CASE CallRaises(p)
        BY <2>10, <3>2, CallRaisesSettled, KeylessMove DEF GetKey, disk
      <3> QED
        BY <2>10, <3>1, <3>2 DEF GetKey, Settled
    <2>11. ASSUME NEW p \in Processes, ChooseKey(p) \/ SetKey(p) \/ UnlinkKey(p)
           PROVE  Settled'
      BY <2>11 DEF Settled, ChooseKey, SetKey, UnlinkKey
    <2>12. ASSUME NEW p \in Processes, Crash(p) PROVE Settled'
      BY <2>12, LeaveSettled, KeylessMove DEF Crash, disk
    <2>13. CASE UNCHANGED vars
      BY <2>13 DEF vars, disk, Settled, DecryptableAtRest, KeyOnRecord, Ciphertext
    <2> QED
      BY <2>1, <2>2, <2>3, <2>4, <2>5, <2>6, <2>7, <2>8, <2>9, <2>10, <2>11, <2>12, <2>13
      DEF Next
  <1> QED
    BY <1>1, <1>2

\* Any number of processes share a migrated installation without orphaning
\* its token file: the race of the migration run needs an empty keyring.
THEOREM DecryptableWhenMigrated ==
    Spec => [](setup.first = "migrated" => DecryptableAtRest)
  <1>1. Settled => (setup.first = "migrated" => DecryptableAtRest)
    BY DEF Settled
  <1> QED
    BY <1>1, SettledInductive, TypeInductive, PTL DEF Spec

-----------------------------------------------------------------------------
(* The register, implemented by one process whose pairs go to one place *)

\* The calls of the two fallbacks behind the keyring's answer.
Fallback == {"get_key", "choose_key", "set_key", "unlink_key", "read_file", "truncate",
             "write"}

\* The other place stays empty, and a write overwrites the torn file.
PlaceInv(p) ==
    OnePlace =>
        /\ setup.fits = {} => entry = NoTokens
        /\ setup.fits # {} => file = Absent /\ pc[p] \notin Fallback
        /\ pc[p] = "write" => file = Torn
        /\ pc[p] \in {"file_exists", "unlink_file"} => entry = NoTokens

LEMMA SetupStays == [Next]_vars => UNCHANGED setup
  BY DEF Next, vars, disk, Load, Clear, Save, Begin, GetEntry, FileExists, ReadFile,
         SetEntry, TruncateFile, WriteFile, DeleteEntry, UnlinkFile, GetKey, ChooseKey,
         SetKey, UnlinkKey, Crash

LEMMA WrittenAlone ==
    ASSUME NEW p \in Processes, Processes = {p}
    PROVE  Written = IF op[p] \in {"save", "clear"} THEN arg[p] ELSE NoWrite
  <1>1. CASE op[p] \in {"save", "clear"}
    <2>1. Writers = {p}
      BY <1>1 DEF Writers
    <2> QED
      BY <1>1, <2>1 DEF Written
  <1>2. CASE op[p] \notin {"save", "clear"}
    BY <1>2 DEF Written, Writers
  <1> QED
    BY <1>1, <1>2

LEMMA WrittenAloneNext ==
    ASSUME NEW p \in Processes, Processes = {p}
    PROVE  Written' = IF op'[p] \in {"save", "clear"} THEN arg'[p] ELSE NoWrite
  <1>1. CASE op'[p] \in {"save", "clear"}
    <2>1. Writers' = {p}
      BY <1>1 DEF Writers
    <2> QED
      BY <1>1, <2>1 DEF Written
  <1>2. CASE op'[p] \notin {"save", "clear"}
    BY <1>2 DEF Written, Writers
  <1> QED
    BY <1>1, <1>2

\* How a process leaves a call of the register: it returns, fails, or goes on.
LEMMA LeaveRegister ==
    ASSUME TypeInv, NEW p \in Processes, Processes = {p}, NEW out, Leave(p, out)
    PROVE  Written' = NoWrite /\ reply' = out
  BY WrittenAloneNext DEF Leave, TypeInv, ProcessesOK

LEMMA GotoRegister ==
    ASSUME TypeInv, NEW p \in Processes, Processes = {p}, NEW label, Goto(p, label)
    PROVE  Written' = Written /\ reply' = Pending
  BY WrittenAlone, WrittenAloneNext DEF Goto

LEMMA CallRaisesRegister ==
    ASSUME TypeInv, NEW p \in Processes, Processes = {p}, CallRaises(p),
           Readable' = Readable
    PROVE  Register!Internal \/ Register!Fail
  <1>1. CASE op[p] = "load" /\ ~last_try[p]
    <2>1. Written' = Written /\ reply' = Pending
      BY <1>1, WrittenAlone, WrittenAloneNext DEF CallRaises
    <2> QED
      BY <2>1 DEF Register!Internal, Register!Pending, Pending
  <1>2. CASE ~(op[p] = "load" /\ ~last_try[p])
    <2>1. Written' = NoWrite /\ reply' = Raised
      BY <1>2, LeaveRegister DEF CallRaises
    <2> QED
      BY <2>1 DEF Register!Fail, Register!Raised, Raised
  <1> QED
    BY <1>1, <1>2

LEMMA PlaceInductive ==
    ASSUME NEW p \in Processes, Processes = {p}
    PROVE  /\ Init => PlaceInv(p)
           /\ TypeInv /\ PlaceInv(p) /\ [Next]_vars => PlaceInv(p)'
  <1>1. Init => PlaceInv(p)
    BY DEF Init, PlaceInv, OnePlace, Fallback
  <1>2. ASSUME TypeInv, PlaceInv(p), [Next]_vars PROVE PlaceInv(p)'
    <2>1. SUFFICES ASSUME OnePlace, UNCHANGED setup PROVE PlaceInv(p)'
      BY <1>2, SetupStays DEF PlaceInv, OnePlace
    <2> USE <1>2, <2>1 DEF PlaceInv
    <2>2. CASE Load(p) \/ Clear(p) \/ \E t \in Tokens : Save(p, t)
      <3>1. /\ UNCHANGED disk
            /\ pc'[p] \in {"get_entry", "set_entry", "delete_entry"}
        BY <2>2 DEF Load, Clear, Save, Begin, TypeInv, ProcessesOK
      <3> QED
        BY <3>1 DEF disk, Fallback
    <2>3. CASE GetEntry(p)
      <3>1. CASE CallRaises(p) /\ setup.fails
        <4>1. setup.fits = {} /\ entry = NoTokens
          BY <3>1 DEF OnePlace
        <4> QED
          BY <2>3, <3>1, <4>1, CallRaisesAlone DEF GetEntry, disk
      <3>2. CASE ~(CallRaises(p) /\ setup.fails)
        BY <2>3, <3>2, LeaveAlone, GotoAlone DEF GetEntry, disk, Fallback
      <3> QED
        BY <3>1, <3>2
    <2>4. CASE FileExists(p)
      BY <2>4, LeaveAlone, GotoAlone DEF FileExists, disk, Fallback
    <2>5. CASE SetEntry(p)
      <3>1. CASE arg[p] \in setup.fits /\ entry' = arg[p] /\ Leave(p, Done)
        <4>1. pc'[p] = "idle"
          BY <3>1, LeaveAlone
        <4> QED
          BY <2>5, <3>1, <4>1 DEF SetEntry, Fallback
      <3>2. CASE /\ arg[p] \notin setup.fits \/ setup.fails
                 /\ Goto(p, "get_key") /\ UNCHANGED <<setup, entry, key>>
        <4>1. arg[p] \in Tokens
          BY <2>5 DEF SetEntry, TypeInv, ProcessesOK, Places
        <4>2. setup.fits = {}
          BY <3>2, <4>1 DEF OnePlace
        <4>3. pc'[p] = "get_key"
          BY <3>2, GotoAlone
        <4> QED
          BY <2>5, <3>2, <4>2, <4>3 DEF SetEntry
      <3> QED
        BY <2>5, <3>1, <3>2 DEF SetEntry
    <2>6. CASE DeleteEntry(p)
      <3>1. entry' = NoTokens
        BY <2>6 DEF DeleteEntry, OnePlace
      <3>2. pc'[p] = "unlink_file"
        BY <2>6, GotoAlone DEF DeleteEntry
      <3> QED
        BY <2>6, <3>1, <3>2 DEF DeleteEntry, Fallback
    <2>7. CASE UnlinkFile(p)
      BY <2>7, LeaveAlone DEF UnlinkFile, Fallback
    <2>8. CASE pc[p] \in Fallback
      <3>1. setup.fits = {} /\ entry = NoTokens
        BY <2>8
      <3>2. CASE TruncateFile(p)
        BY <3>1, <3>2, GotoAlone DEF TruncateFile
      <3>3. CASE WriteFile(p)
        BY <3>1, <3>3, LeaveAlone DEF WriteFile
      <3>4. CASE ReadFile(p) \/ GetKey(p) \/ ChooseKey(p) \/ SetKey(p) \/ UnlinkKey(p)
        <4>1. UNCHANGED <<entry, file>> /\ pc'[p] # "write"
          BY <3>4, LeaveAlone, GotoAlone, CallRaisesAlone, HaveKeyAlone
          DEF ReadFile, GetKey, ChooseKey, SetKey, UnlinkKey, disk
        <4> QED
          BY <3>1, <4>1
      <3>5. CASE Crash(p)
        BY <3>1, <3>5, LeaveAlone DEF Crash, disk
      <3>6. CASE UNCHANGED vars
        BY <3>6 DEF vars, disk
      <3> QED
        BY <2>8, <3>2, <3>3, <3>4, <3>5, <3>6
        DEF Next, Fallback, Load, Clear, Save, Begin, GetEntry, FileExists, SetEntry,
            DeleteEntry, UnlinkFile
    <2>9. CASE Crash(p)
      BY <2>9, LeaveAlone DEF Crash, disk, Fallback
    <2>10. CASE UNCHANGED vars
      BY <2>10 DEF vars, disk
    <2> QED
      BY <2>2, <2>3, <2>4, <2>5, <2>6, <2>7, <2>8, <2>9, <2>10
      DEF Next, Fallback, ReadFile, TruncateFile, WriteFile, GetKey, ChooseKey, SetKey,
          UnlinkKey
  <1> QED
    BY <1>1, <1>2

\* The record read, in an installation whose pairs go to the file, or to the keyring.
LEMMA ReadableInPlace ==
    ASSUME TypeInv, NEW p \in Processes, AloneInv(p), PlaceInv(p), OnePlace
    PROVE  Readable = IF file \in Ciphertext THEN file.tokens
                      ELSE IF file = Torn THEN Unreadable ELSE entry
  BY MarkersAssumption
  DEF Readable, TypeInv, DiskOK, AloneInv, FileOK, DecryptableAtRest, PlaceInv, Ciphertext

LEMMA RegisterInit ==
    ASSUME NEW p \in Processes, Processes = {p}, Init
    PROVE  OnePlace => Register!Init
  <1>1. TypeInv /\ AloneInv(p) /\ PlaceInv(p)
    BY TypeInductive, AloneInductive, PlaceInductive
  <1>2. SUFFICES ASSUME OnePlace PROVE Register!Init
    OBVIOUS
  <1>3. entry = NoTokens /\ file # Torn /\ Written = NoWrite /\ reply = Pending
    BY MarkersAssumption, WrittenAlone DEF Init
  <1>4. Readable \in Tokens \cup {NoTokens}
    BY <1>1, <1>2, <1>3, ReadableInPlace DEF Ciphertext
  <1> QED
    BY <1>3, <1>4 DEF Register!Init, Register!Pending, Pending

LEMMA RegisterStep ==
    ASSUME NEW p \in Processes, Processes = {p},
           TypeInv, AloneInv(p), PlaceInv(p), [Next]_vars
    PROVE  [OnePlace => Register!Next]_(Register!vars)
  <1>1. TypeInv' /\ AloneInv(p)' /\ PlaceInv(p)' /\ UNCHANGED setup
    BY TypeInductive, AloneInductive, PlaceInductive, SetupStays
  <1>2. SUFFICES ASSUME OnePlace PROVE Register!Next \/ UNCHANGED Register!vars
    OBVIOUS
  <1> DEFINE Record(f, e) == IF f \in Ciphertext THEN f.tokens
                             ELSE IF f = Torn THEN Unreadable ELSE e
  <1>3. Readable = Record(file, entry)
    BY <1>2, ReadableInPlace
  <1>4. Readable' = Record(file', entry')
    <2>1. OnePlace'
      BY <1>1, <1>2 DEF OnePlace
    <2> QED
      BY <1>1, <2>1, MarkersAssumption
      DEF Readable, TypeInv, DiskOK, AloneInv, FileOK, DecryptableAtRest, PlaceInv,
          Ciphertext
  <1>5. UNCHANGED <<entry, file>> => Readable' = Readable
    BY <1>3, <1>4
  <1> HIDE DEF Record
  <1>6. op[p] = "none" <=> pc[p] = "idle"
    BY DEF TypeInv, ProcessesOK, Places
  <1>7. op[p] = "load" => Written = NoWrite
    BY WrittenAlone
  <1>8. op[p] \in {"save", "clear"} => Written = arg[p] /\ Written # NoWrite
    BY WrittenAlone, MarkersAssumption DEF TypeInv, ProcessesOK
  <1>9. CASE Load(p) \/ Clear(p) \/ \E t \in Tokens : Save(p, t)
    <2>1. Written = NoWrite /\ reply' = Pending /\ Readable' = Readable
      BY <1>5, <1>6, <1>9, WrittenAlone DEF Load, Clear, Save, Begin, disk
    <2>2. CASE Load(p)
      <3>1. Written' = NoWrite
        BY <2>2, WrittenAloneNext DEF Load, Begin, TypeInv, ProcessesOK
      <3> QED
        BY <2>1, <3>1 DEF Register!Next, Register!Internal, Register!Pending, Pending
    <2>3. CASE Clear(p)
      <3>1. Written' = NoTokens
        BY <2>3, WrittenAloneNext DEF Clear, Begin, TypeInv, ProcessesOK
      <3> QED
        BY <2>1, <3>1 DEF Register!Next, Register!BeginWrite, Register!Pending, Pending
    <2>4. CASE \E t \in Tokens : Save(p, t)
      <3>1. PICK t \in Tokens : Save(p, t)
        BY <2>4
      <3>2. Written' = t
        BY <3>1, WrittenAloneNext DEF Save, Begin, TypeInv, ProcessesOK
      <3> QED
        BY <2>1, <3>2 DEF Register!Next, Register!BeginWrite, Register!Pending, Pending
    <2> QED
      BY <1>9, <2>2, <2>3, <2>4
  <1>10. CASE GetEntry(p)
    <2>1. op[p] = "load" /\ Readable' = Readable
      BY <1>5, <1>10 DEF GetEntry, disk, TypeInv, ProcessesOK, Places
    <2>2. CASE entry # NoTokens /\ Leave(p, entry)
      <3>1. Readable = entry /\ entry # Unreadable
        BY <2>2, MarkersAssumption DEF Readable, TypeInv, DiskOK
      <3> QED
        BY <1>7, <2>1, <2>2, <3>1, LeaveRegister DEF Register!Next, Register!Load
    <2>3. CASE Goto(p, "file_exists")
      BY <2>1, <2>3, GotoRegister
      DEF Register!Next, Register!Internal, Register!Pending, Pending
    <2>4. CASE CallRaises(p)
      BY <2>1, <2>4, CallRaisesRegister DEF Register!Next
    <2> QED
      BY <1>10, <2>2, <2>3, <2>4 DEF GetEntry
  <1>11. CASE FileExists(p)
    <2>1. op[p] = "load" /\ Readable' = Readable /\ entry = NoTokens
      BY <1>2, <1>5, <1>11
      DEF FileExists, disk, TypeInv, ProcessesOK, Places, PlaceInv
    <2>2. CASE file = Absent /\ Leave(p, NoTokens)
      <3>1. Readable = NoTokens
        BY <2>1, <2>2 DEF Readable
      <3> QED
        BY <1>7, <2>1, <2>2, <3>1, LeaveRegister, MarkersAssumption
        DEF Register!Next, Register!Load
    <2>3. CASE Goto(p, "get_key")
      BY <2>1, <2>3, GotoRegister
      DEF Register!Next, Register!Internal, Register!Pending, Pending
    <2> QED
      BY <1>11, <2>2, <2>3 DEF FileExists
  <1>12. CASE ReadFile(p)
    <2>1. op[p] = "load" /\ Readable' = Readable /\ entry = NoTokens
      BY <1>2, <1>5, <1>12
      DEF ReadFile, disk, TypeInv, ProcessesOK, Places, PlaceInv, Fallback
    <2>2. CASE file \notin {Absent, Torn} /\ Leave(p, file.tokens)
      <3>1. file \in Ciphertext
        BY <2>2 DEF TypeInv, DiskOK
      <3>2. Readable = file.tokens /\ file.tokens # Unreadable
        BY <1>3, <3>1, MarkersAssumption DEF Record, Ciphertext
      <3> QED
        BY <1>7, <2>1, <2>2, <3>2, LeaveRegister DEF Register!Next, Register!Load
    <2>3. CASE CallRaises(p)
      BY <2>1, <2>3, CallRaisesRegister DEF Register!Next
    <2> QED
      BY <1>12, <2>2, <2>3 DEF ReadFile
  <1>13. CASE SetEntry(p)
    <2>1. op[p] = "save" /\ arg[p] \in Tokens
      BY <1>13 DEF SetEntry, TypeInv, ProcessesOK, Places
    <2>2. CASE arg[p] \in setup.fits /\ entry' = arg[p] /\ Leave(p, Done)
      <3>1. Readable' = arg[p]
        BY <2>1, <2>2, MarkersAssumption DEF Readable
      <3> QED
        BY <1>8, <2>1, <2>2, <3>1, LeaveRegister
        DEF Register!Next, Register!EndWrite, Register!Done, Done
    <2>3. CASE Goto(p, "get_key") /\ UNCHANGED entry
      BY <1>5, <1>13, <2>3, GotoRegister
      DEF SetEntry, Register!Next, Register!Internal, Register!Pending, Pending
    <2> QED
      BY <1>13, <2>2, <2>3 DEF SetEntry
  <1>14. CASE TruncateFile(p)
    <2>1. op[p] = "save" /\ arg[p] \in Tokens
      BY <1>14 DEF TruncateFile, TypeInv, ProcessesOK, Places
    <2>2. Readable' = Unreadable
      BY <1>4, <1>14, MarkersAssumption DEF TruncateFile, Record, Ciphertext
    <2> QED
      BY <1>8, <1>14, <2>1, <2>2, GotoRegister
      DEF TruncateFile, Register!Next, Register!Overwrite, Register!Pending, Pending
  <1>15. CASE WriteFile(p)
    <2>1. op[p] = "save" /\ arg[p] \in Tokens /\ key[p] \in Keys /\ file = Torn
      BY <1>2, <1>15 DEF WriteFile, TypeInv, ProcessesOK, Places, WithKey, PlaceInv
    <2>2. CASE file' = [key |-> key[p], tokens |-> arg[p]] /\ Leave(p, Done)
      <3>1. Readable' = arg[p]
        BY <1>4, <2>1, <2>2 DEF Record, Ciphertext
      <3> QED
        BY <1>8, <2>1, <2>2, <3>1, LeaveRegister
        DEF Register!Next, Register!EndWrite, Register!Done, Done
    <2>3. CASE file' = Torn /\ Leave(p, Raised)
      BY <1>5, <1>15, <2>1, <2>3, LeaveRegister
      DEF WriteFile, Register!Next, Register!Fail, Register!Raised, Raised
    <2> QED
      BY <1>15, <2>2, <2>3 DEF WriteFile
  <1>16. CASE DeleteEntry(p)
    <2>1. op[p] = "clear" /\ arg[p] = NoTokens
      BY <1>16 DEF DeleteEntry, TypeInv, ProcessesOK, Places
    <2>2. Written' = Written /\ reply' = Pending
      BY <1>16, GotoRegister DEF DeleteEntry
    <2>3. CASE UNCHANGED entry
      BY <1>5, <1>16, <2>2, <2>3
      DEF DeleteEntry, Register!Next, Register!Internal, Register!Pending, Pending
    <2>4. CASE entry' = NoTokens /\ entry # NoTokens
      <3>1. file' = Absent
        BY <1>2, <1>16, <2>4 DEF DeleteEntry, PlaceInv
      <3>2. Readable' = NoTokens
        BY <2>4, <3>1 DEF Readable
      <3> QED
        BY <1>8, <2>1, <2>2, <3>2
        DEF Register!Next, Register!Apply, Register!Pending, Pending
    <2> QED
      BY <1>16, <2>3, <2>4 DEF DeleteEntry
  <1>17. CASE UnlinkFile(p)
    <2>1. op[p] = "clear" /\ arg[p] = NoTokens /\ entry = NoTokens
      BY <1>2, <1>17 DEF UnlinkFile, TypeInv, ProcessesOK, Places, PlaceInv
    <2>2. Readable' = NoTokens
      BY <1>17, <2>1 DEF UnlinkFile, Readable
    <2> QED
      BY <1>8, <1>17, <2>1, <2>2, LeaveRegister
      DEF UnlinkFile, Register!Next, Register!EndWrite, Register!Done, Done
  <1>18. CASE GetKey(p) \/ ChooseKey(p) \/ SetKey(p) \/ UnlinkKey(p)
    <2>1. Readable' = Readable
      BY <1>5, <1>18 DEF GetKey, ChooseKey, SetKey, UnlinkKey, disk
    <2>2. CASE CallRaises(p)
      BY <2>1, <2>2, CallRaisesRegister DEF Register!Next
    <2>3. CASE \E label \in {"choose_key", "set_key", "unlink_key", "read_file",
                             "truncate"} : Goto(p, label)
      BY <2>1, <2>3, GotoRegister
      DEF Register!Next, Register!Internal, Register!Pending, Pending
    <2> QED
      BY <1>18, <2>2, <2>3 DEF GetKey, ChooseKey, SetKey, UnlinkKey, HaveKey
  <1>19. CASE Crash(p)
    BY <1>5, <1>19, LeaveRegister
    DEF Crash, disk, Register!Next, Register!Fail, Register!Pending, Pending
  <1>20. CASE UNCHANGED vars
    <2>1. Written' = Written
      BY <1>20, WrittenAlone, WrittenAloneNext DEF vars
    <2> QED
      BY <1>5, <1>20, <2>1 DEF vars, disk, Register!vars
  <1> QED
    BY <1>9, <1>10, <1>11, <1>12, <1>13, <1>14, <1>15, <1>16, <1>17, <1>18, <1>19, <1>20
    DEF Next

\* One process implements the register, in every installation whose pairs all
\* go to one place, whatever its calls do and wherever it stops.
THEOREM ImplementsRegisterHolds ==
    ASSUME NEW p \in Processes, Processes = {p}
    PROVE  Spec => ImplementsRegister
  <1>1. Init => (OnePlace => Register!Init)
    BY RegisterInit
  <1>2. TypeInv /\ AloneInv(p) /\ PlaceInv(p) /\ [Next]_vars =>
            [OnePlace => Register!Next]_(Register!vars)
    BY RegisterStep
  <1> QED
    BY <1>1, <1>2, TypeInductive, AloneInductive, PlaceInductive, PTL
    DEF Spec, ImplementsRegister
=============================================================================

--------------------------- MODULE SeedData_proofs ---------------------------
(***************************************************************************)
(* Proofs about SeedData, for any sheet of different names, any org with   *)
(* one record of a name at most, and any number of runs and bounds.        *)
(***************************************************************************)
EXTENDS SeedData, SequenceTheorems, TLAPS

\* A record that a run of this sheet may create.
Creatable(c) ==
    /\ c \in Record
    /\ \E k \in DOMAIN sheet : c.row = sheet[k]
    /\ c.row.kind # "Account" =>
          c.parent \in DOMAIN org /\ IsParent(org[c.parent].row, c.row)

\* What a record is named is what it is.
NamesOK ==
    \A i \in DOMAIN org, k \in DOMAIN sheet :
        SameName(org[i].row, sheet[k]) => org[i].row = sheet[k]

IdsOK ==
    \A r \in DOMAIN ids :
        /\ \E k \in 1..(at - 1) : r = sheet[k]
        /\ ids[r] \in DOMAIN org /\ org[ids[r]].row = r

SentOK == sent # Nothing => running /\ at <= Len(sheet) /\ Creatable(sent) /\ sent.row = Row

TypeInv ==
    /\ sheet \in Sheets
    /\ {running, dry, outlived, finished} \subseteq BOOLEAN
    /\ at \in 1..(Len(sheet) + 1)
    /\ org \in Seq(Record) /\ ParentsOK(org)
    /\ NamesOK /\ IdsOK /\ SentOK
    /\ \A c \in late : Creatable(c)

\* A sheet is a sequence of rows.
LEMMA SheetRows ==
    ASSUME sheet \in Sheets
    PROVE  /\ sheet \in Seq(SheetRow) /\ Len(sheet) \in Nat
           /\ \A k \in 1..Len(sheet) : sheet[k] \in SheetRow
           /\ DOMAIN sheet = 1..Len(sheet)
  BY SheetAssumption

\* The org only grows, and what is known of it stays true.
LEMMA OrgGrows ==
    ASSUME TypeInv, NEW c, Creatable(c), org' = Append(org, c)
    PROVE  /\ org' \in Seq(Record) /\ ParentsOK(org')
           /\ Len(org') = Len(org) + 1 /\ org'[Len(org) + 1] = c
           /\ DOMAIN org' = 1..(Len(org) + 1) /\ DOMAIN org = 1..Len(org)
           /\ \A i \in DOMAIN org : i \in DOMAIN org' /\ org'[i] = org[i]
           /\ \A i \in DOMAIN org', k \in DOMAIN sheet :
                 SameName(org'[i].row, sheet[k]) => org'[i].row = sheet[k]
  <1>1. org \in Seq(Record) /\ c \in Record
    BY DEF TypeInv, Creatable
  <1>2. /\ org' \in Seq(Record)
        /\ Len(org') = Len(org) + 1 /\ org'[Len(org) + 1] = c
        /\ DOMAIN org' = 1..(Len(org) + 1) /\ DOMAIN org = 1..Len(org)
        /\ \A i \in DOMAIN org : i \in DOMAIN org' /\ org'[i] = org[i]
        /\ Len(org) \in Nat
    BY <1>1
  <1>3. ParentsOK(org')
    <2>1. SUFFICES ASSUME NEW i \in DOMAIN org', org'[i].row.kind # "Account"
                   PROVE  /\ org'[i].parent \in 1..(i - 1)
                          /\ IsParent(org'[org'[i].parent].row, org'[i].row)
      BY DEF ParentsOK
    <2>2. CASE i \in DOMAIN org
      <3>1. /\ org[i].parent \in 1..(i - 1)
            /\ IsParent(org[org[i].parent].row, org[i].row)
        BY <1>2, <2>1, <2>2 DEF TypeInv, ParentsOK
      <3>2. org[i].parent \in DOMAIN org
        BY <1>2, <2>2, <3>1
      <3> QED
        BY <1>2, <2>2, <3>1, <3>2
    <2>3. CASE i = Len(org) + 1
      <3>1. c.parent \in DOMAIN org /\ IsParent(org[c.parent].row, c.row)
        BY <1>2, <2>1, <2>3 DEF Creatable
      <3> QED
        BY <1>2, <2>3, <3>1
    <2> QED
      BY <1>2, <2>2, <2>3
  <1>4. ASSUME NEW i \in DOMAIN org', NEW k \in DOMAIN sheet,
               SameName(org'[i].row, sheet[k])
        PROVE  org'[i].row = sheet[k]
    <2>1. CASE i \in DOMAIN org
      BY <1>2, <1>4, <2>1 DEF TypeInv, NamesOK
    <2>2. CASE i = Len(org) + 1
      <3>1. PICK l \in DOMAIN sheet : c.row = sheet[l]
        BY DEF Creatable
      <3>2. k = l
        BY <1>2, <1>4, <2>2, <3>1, SheetAssumption DEF TypeInv, SameName
      <3> QED
        BY <1>2, <2>2, <3>1, <3>2
    <2> QED
      BY <1>2, <2>1, <2>2
  <1> QED
    BY <1>2, <1>3, <1>4

\* So what could be created still can, and the ids a run has still lead to
\* their rows.
LEMMA CreatableStays ==
    ASSUME TypeInv, NEW c, Creatable(c), org' = Append(org, c), UNCHANGED sheet
    PROVE  /\ org' \in Seq(Record) /\ ParentsOK(org') /\ NamesOK'
           /\ \A d : Creatable(d) => Creatable(d)'
           /\ \A r \in DOMAIN ids : ids[r] \in DOMAIN org' /\ org'[ids[r]].row = r
  <1>1. NamesOK'
    BY OrgGrows DEF NamesOK
  <1>2. ASSUME NEW d, Creatable(d) PROVE Creatable(d)'
    BY <1>2, OrgGrows DEF Creatable
  <1>3. ASSUME NEW r \in DOMAIN ids PROVE ids[r] \in DOMAIN org' /\ org'[ids[r]].row = r
    BY OrgGrows DEF TypeInv, IdsOK
  <1> QED
    BY <1>1, <1>2, <1>3, OrgGrows DEF ParentsOK

\* A run that ends forgets what it resolved, which leaves nothing to break.
LEMMA StopKeeps ==
    ASSUME TypeInv, Stop, UNCHANGED sheet
    PROVE  /\ {running'} \subseteq BOOLEAN
           /\ at' \in 1..(Len(sheet') + 1) /\ IdsOK' /\ SentOK'
  <1>1. running' = FALSE /\ at' = 1 /\ ids' = NoIds /\ sent' = Nothing
    BY DEF Stop
  <1>2. Len(sheet') \in Nat
    BY SheetRows DEF TypeInv
  <1>3. DOMAIN NoIds = {}
    BY DEF NoIds
  <1> QED
    <2>1. IdsOK'
      BY <1>1, <1>3 DEF IdsOK
    <2>2. at' \in 1..(Len(sheet') + 1)
      BY <1>1, <1>2
    <2> QED
      BY <1>1, <2>1, <2>2 DEF SentOK

\* Nothing of the org changes, nor what is on its way to it.
LEMMA OrgStays ==
    ASSUME TypeInv, UNCHANGED <<sheet, org, late>>
    PROVE  /\ sheet' \in Sheets /\ org' \in Seq(Record) /\ ParentsOK(org') /\ NamesOK'
           /\ \A c \in late' : Creatable(c)'
           /\ \A d : Creatable(d) => Creatable(d)'
  BY DEF TypeInv, NamesOK, Creatable

\* The row a run looks at is there, and a step further is within bounds.
LEMMA NextRow ==
    ASSUME TypeInv, Looking
    PROVE  /\ Row \in SheetRow /\ at \in DOMAIN sheet /\ at + 1 \in 1..(Len(sheet) + 1)
           /\ Row = sheet[at]
  BY SheetRows DEF TypeInv, Looking, Row

\* A row gets the id of a record that is its own.
LEMMA ResolveKeeps ==
    ASSUME TypeInv, NEW r, r = sheet[at], at <= Len(sheet), NEW id, Resolve(r, id),
           UNCHANGED sheet, id \in DOMAIN org', org'[id].row = r,
           \A q \in DOMAIN ids : ids[q] \in DOMAIN org' /\ org'[ids[q]].row = q
    PROVE  IdsOK' /\ at' \in 1..(Len(sheet') + 1)
  BY SheetRows DEF TypeInv, IdsOK, Resolve

\* The parent of a row the run is about to create.
LEMMA ParentFound ==
    ASSUME TypeInv, NEW r, HasParent(r), r.kind # "Account"
    PROVE  Parent(r) \in DOMAIN org /\ IsParent(org[Parent(r)].row, r)
  <1> DEFINE p == CHOOSE q \in ParentRows(r) : TRUE
  <1>1. p \in ParentRows(r)
    BY DEF HasParent
  <1>2. p \in DOMAIN ids /\ IsParent(p, r) /\ Parent(r) = ids[p]
    BY <1>1 DEF ParentRows, Parent
  <1> QED
    BY <1>2 DEF TypeInv, IdsOK

\* TypeInv is an invariant.
LEMMA TypeInductive ==
    /\ Init => TypeInv
    /\ TypeInv /\ [Next]_vars => TypeInv'
  <1>1. ASSUME Init PROVE TypeInv
    <2>1. sheet \in Sheets /\ org \in InitialOrgs /\ at = 1 /\ DOMAIN ids = {}
          /\ {running, dry, outlived, finished} \subseteq BOOLEAN
          /\ sent = Nothing /\ late = {}
      BY <1>1 DEF Init, NoIds
    <2>2. org \in Seq(Record) /\ ParentsOK(org) /\ NamesOK
      BY <2>1, InitialOrgAssumption DEF NamesOK
    <2>3. at \in 1..(Len(sheet) + 1)
      BY <2>1, SheetRows
    <2> QED
      BY <2>1, <2>2, <2>3 DEF TypeInv, IdsOK, SentOK
  <1>2. ASSUME TypeInv, [Next]_vars PROVE TypeInv'
    <2> USE <1>2
    <2>1. CASE \E d \in BOOLEAN : Start(d)
      <3>1. UNCHANGED <<sheet, org, late, at, ids, sent, outlived, finished>>
            /\ running' = TRUE /\ dry' \in BOOLEAN
        BY <2>1 DEF Start
      <3> QED
        BY <3>1, OrgStays DEF TypeInv, IdsOK, SentOK, Row
    <2>2. CASE Skip
      <3>1. PICK i \in Matches(Row) : Resolve(Row, i)
        BY <2>2 DEF Skip
      <3>2. i \in DOMAIN org /\ org[i].row = Row
        BY <2>2, <3>1, NextRow DEF Matches, Skip, TypeInv, NamesOK
      <3>3. UNCHANGED <<sheet, org, running, dry, sent, late, outlived, finished>>
            /\ sent = Nothing /\ at <= Len(sheet)
        BY <2>2 DEF Skip, Looking
      <3>4. IdsOK' /\ at' \in 1..(Len(sheet') + 1)
        BY <3>1, <3>2, <3>3, ResolveKeeps DEF TypeInv, IdsOK, Row
      <3> QED
        BY <3>3, <3>4, OrgStays DEF TypeInv, SentOK
    <2>3. CASE NotListed \/ DryMiss
      <3>1. UNCHANGED <<sheet, org, running, dry, ids, sent, late, outlived, finished>>
            /\ sent = Nothing /\ at' = at + 1 /\ Looking
        BY <2>3 DEF NotListed, DryMiss, Looking
      <3>2. at' \in 1..(Len(sheet') + 1) /\ IdsOK'
        BY <3>1, NextRow DEF TypeInv, IdsOK
      <3> QED
        BY <3>1, <3>2, OrgStays DEF TypeInv, SentOK
    <2>4. CASE MissingAccount \/ Fail
      <3>1. Stop /\ UNCHANGED <<sheet, org, dry, late, outlived, finished>>
        BY <2>4 DEF MissingAccount, Fail
      <3> QED
        BY <3>1, StopKeeps, OrgStays DEF TypeInv
    <2>5. CASE Send
      <3>1. /\ UNCHANGED <<sheet, org, running, dry, at, ids, late, outlived, finished>>
            /\ running /\ at <= Len(sheet) /\ Looking /\ HasParent(Row)
            /\ sent' = [row |-> Row, parent |-> Parent(Row)]
        BY <2>5 DEF Send, Looking
      <3>2. Row.kind = "Account" => Parent(Row) = 0
        BY DEF Parent
      <3>3. DOMAIN org \subseteq Nat
        BY DEF TypeInv
      <3>4. Parent(Row) \in Nat
        BY <3>1, <3>2, <3>3, ParentFound
      <3>5. Creatable(sent')
        BY <3>1, <3>4, NextRow, ParentFound DEF Creatable, Record
      <3>6. SentOK'
        BY <3>1, <3>5 DEF SentOK, Creatable, Row
      <3> QED
        BY <3>1, <3>6, OrgStays DEF TypeInv, IdsOK
    <2>6. CASE Create
      <3>1. /\ Creatable(sent) /\ sent.row = Row /\ org' = Append(org, sent)
            /\ Resolve(Row, Len(org) + 1) /\ sent' = Nothing /\ at <= Len(sheet)
            /\ UNCHANGED <<sheet, running, dry, late, outlived, finished>>
        BY <2>6 DEF Create, TypeInv, SentOK
      <3>2. Len(org) + 1 \in DOMAIN org' /\ org'[Len(org) + 1].row = Row
        BY <3>1, OrgGrows
      <3>3. IdsOK' /\ at' \in 1..(Len(sheet') + 1)
        BY <3>1, <3>2, CreatableStays, ResolveKeeps DEF Row
      <3> QED
        BY <3>1, <3>3, CreatableStays DEF TypeInv, SentOK
    <2>7. CASE LoseReply
      <3>1. /\ Creatable(sent) /\ org' = Append(org, sent) /\ Stop
            /\ UNCHANGED <<sheet, dry, late, outlived, finished>>
        BY <2>7 DEF LoseReply, TypeInv, SentOK
      <3> QED
        BY <3>1, CreatableStays, StopKeeps DEF TypeInv
    <2>8. CASE Abandon
      <3>1. /\ Creatable(sent) /\ late' = late \cup {sent} /\ outlived' = TRUE /\ Stop
            /\ UNCHANGED <<sheet, org, dry, finished>>
        BY <2>8 DEF Abandon, TypeInv, SentOK
      <3> QED
        BY <3>1, StopKeeps DEF TypeInv, NamesOK, Creatable
    <2>9. CASE \E c \in late : CreateLate(c)
      <3>1. PICK c \in late : CreateLate(c)
        BY <2>9
      <3>2. /\ Creatable(c) /\ org' = Append(org, c) /\ late' \subseteq late
            /\ UNCHANGED <<sheet, running, dry, at, ids, sent, outlived, finished>>
        BY <3>1 DEF CreateLate, script, TypeInv
      <3>3. IdsOK' /\ SentOK'
        BY <3>2, CreatableStays DEF TypeInv, IdsOK, SentOK, Row
      <3> QED
        BY <3>2, <3>3, CreatableStays DEF TypeInv
    <2>10. CASE Finish
      <3>1. Stop /\ finished' \in BOOLEAN /\ UNCHANGED <<sheet, org, dry, late, outlived>>
        BY <2>10 DEF Finish, TypeInv
      <3> QED
        BY <3>1, StopKeeps, OrgStays DEF TypeInv
    <2>11. CASE UNCHANGED vars
      <3>1. UNCHANGED <<sheet, org, running, dry, at, ids, sent, late, outlived, finished>>
        BY <2>11 DEF vars, script
      <3> QED
        BY <3>1, OrgStays DEF TypeInv, IdsOK, SentOK, Row
    <2> QED
      BY <2>1, <2>2, <2>3, <2>4, <2>5, <2>6, <2>7, <2>8, <2>9, <2>10, <2>11 DEF Next
  <1> QED
    BY <1>1, <1>2

\* Type correctness: in any org the children hang from the parents their rows
\* name, whatever runs stop or overlap a late create.
THEOREM TypeCorrect == Spec => []TypeOK
  <1>1. TypeInv => TypeOK
    BY DEF TypeInv, IdsOK, TypeOK
  <1> QED
    BY <1>1, TypeInductive, PTL DEF Spec

-----------------------------------------------------------------------------
(* As long as no create outlives its script *)

NoSuchRecord(r) == \A i \in DOMAIN org : ~SameName(org[i].row, r)

\* A name has one record, and what is on its way to the org is not there yet.
OneOfEachName ==
    ~outlived =>
        /\ late = {}
        /\ \A i, j \in DOMAIN org : SameName(org[i].row, org[j].row) => i = j
        /\ sent # Nothing => NoSuchRecord(sent.row)

\* The query finds the one record there is: a task's by its opportunity, which
\* is the record that this run has resolved.
LEMMA QueryFinds ==
    ASSUME TypeInv, OneOfEachName, ~outlived, NEW k \in DOMAIN sheet, HasParent(sheet[k]),
           Matches(sheet[k]) = {}
    PROVE  NoSuchRecord(sheet[k])
  <1> DEFINE r == sheet[k]
  <1>1. SUFFICES ASSUME NEW i \in DOMAIN org, SameName(org[i].row, r) PROVE FALSE
    BY DEF NoSuchRecord
  <1>2. r.kind = "Task"
    BY <1>1 DEF Matches
  <1>3. org[i].row = r
    BY <1>1 DEF TypeInv, NamesOK
  <1>4. /\ org[i].parent \in 1..(i - 1)
        /\ IsParent(org[org[i].parent].row, r)
    BY <1>2, <1>3 DEF TypeInv, ParentsOK
  <1>5. Parent(r) \in DOMAIN org /\ IsParent(org[Parent(r)].row, r)
    BY <1>2, ParentFound
  <1>6. org[i].parent \in DOMAIN org
    <2>1. org \in Seq(Record)
      BY DEF TypeInv
    <2> QED
      BY <1>4, <2>1
  <1>7. org[i].parent = Parent(r)
    BY <1>4, <1>5, <1>6 DEF OneOfEachName, SameName, IsParent
  <1> QED
    BY <1>1, <1>2, <1>7 DEF Matches

\* A create of which there is no record yet.
LEMMA AppendNew ==
    ASSUME TypeInv, OneOfEachName, ~outlived, sent # Nothing, org' = Append(org, sent)
    PROVE  \A i, j \in DOMAIN org' : SameName(org'[i].row, org'[j].row) => i = j
  <1>1. Creatable(sent) /\ NoSuchRecord(sent.row)
    BY DEF TypeInv, SentOK, OneOfEachName
  <1>2. org \in Seq(Record) /\ Len(org) \in Nat
    BY DEF TypeInv
  <1>3. /\ DOMAIN org' = 1..(Len(org) + 1) /\ DOMAIN org = 1..Len(org)
        /\ org'[Len(org) + 1] = sent
        /\ \A i \in DOMAIN org : org'[i] = org[i]
    BY <1>1, <1>2 DEF Creatable
  <1>4. SUFFICES ASSUME NEW i \in DOMAIN org', NEW j \in DOMAIN org',
                        SameName(org'[i].row, org'[j].row)
                 PROVE  i = j
    OBVIOUS
  <1>5. CASE i \in DOMAIN org /\ j \in DOMAIN org
    BY <1>3, <1>4, <1>5 DEF OneOfEachName
  <1>6. CASE i = Len(org) + 1 /\ j \in DOMAIN org
    BY <1>1, <1>3, <1>4, <1>6 DEF NoSuchRecord, SameName
  <1>7. CASE i \in DOMAIN org /\ j = Len(org) + 1
    BY <1>1, <1>3, <1>4, <1>7 DEF NoSuchRecord
  <1> QED
    BY <1>2, <1>3, <1>4, <1>5, <1>6, <1>7

\* The names of the records stay different until a create outlives its script.
LEMMA OneOfEachNameInductive ==
    /\ Init => OneOfEachName
    /\ TypeInv /\ OneOfEachName /\ [Next]_vars => OneOfEachName'
  <1>1. ASSUME Init PROVE OneOfEachName
    BY <1>1, InitialOrgAssumption DEF Init, OneOfEachName
  <1>2. ASSUME TypeInv, OneOfEachName, [Next]_vars PROVE OneOfEachName'
    <2> USE <1>2
    <2>1. CASE \/ \E d \in BOOLEAN : Start(d)
               \/ Skip \/ NotListed \/ DryMiss \/ MissingAccount \/ Fail \/ Finish
               \/ UNCHANGED vars
      <3>1. UNCHANGED <<org, late, outlived>> /\ sent' \in {sent, Nothing}
        BY <2>1 DEF Start, Skip, NotListed, DryMiss, MissingAccount, Fail, Finish, Stop,
                    vars, script
      <3> QED
        BY <3>1 DEF OneOfEachName, NoSuchRecord
    <2>2. CASE Send
      <3>1. /\ UNCHANGED <<org, late, outlived>> /\ sent'.row = sheet[at]
            /\ at \in DOMAIN sheet /\ HasParent(sheet[at]) /\ Matches(sheet[at]) = {}
        BY <2>2, NextRow DEF Send, Row
      <3>2. ~outlived => NoSuchRecord(sheet[at])
        BY <3>1, QueryFinds
      <3> QED
        BY <3>1, <3>2 DEF OneOfEachName, NoSuchRecord
    <2>3. CASE Create \/ LoseReply
      <3>1. /\ UNCHANGED <<late, outlived>> /\ sent' = Nothing
            /\ sent # Nothing /\ org' = Append(org, sent)
        BY <2>3 DEF Create, LoseReply, Stop
      <3> QED
        BY <3>1, AppendNew DEF OneOfEachName
    <2>4. CASE Abandon
      BY <2>4 DEF Abandon, OneOfEachName
    <2>5. CASE \E c \in late : CreateLate(c)
      BY <2>5 DEF CreateLate, OneOfEachName
    <2> QED
      BY <2>1, <2>2, <2>3, <2>4, <2>5 DEF Next
  <1> QED
    BY <1>1, <1>2

\* Idempotence of the seeding: over any series of runs, stopped anywhere, a
\* row has at most one record until a create outlives its script.
THEOREM OneRecordPerRowHolds == Spec => []OneRecordPerRow
  <1>1. OneOfEachName => OneRecordPerRow
    BY DEF OneOfEachName, OneRecordPerRow, SameName
  <1> QED
    BY <1>1, TypeInductive, OneOfEachNameInductive, PTL DEF Spec

-----------------------------------------------------------------------------
(* Completeness *)

InOrg(r) == \E i \in DOMAIN org : org[i].row = r

\* A run that is not dry has resolved every row it has passed.
CompleteInv ==
    /\ ~running => at = 1
    /\ running /\ ~dry => \A k \in 1..(at - 1) : sheet[k] \in DOMAIN ids
    /\ CompleteWhenFinished

\* The org only grows, and what it holds stays.
LEMMA RecordsStay ==
    ASSUME TypeInv, [Next]_vars, NEW i \in DOMAIN org
    PROVE  i \in DOMAIN org' /\ org'[i] = org[i]
  <1>1. CASE UNCHANGED org
    BY <1>1
  <1>2. CASE org' = Append(org, sent) /\ sent # Nothing
    BY <1>2, OrgGrows DEF TypeInv, SentOK
  <1>3. CASE \E c \in late : org' = Append(org, c)
    BY <1>3, OrgGrows DEF TypeInv
  <1> QED
    BY <1>1, <1>2, <1>3
    DEF Next, Start, Skip, NotListed, DryMiss, MissingAccount, Send, Create, LoseReply,
        Fail, Abandon, CreateLate, Finish, vars

\* What a run has passed it has resolved, and what is in the org stays there.
LEMMA CompleteInductive ==
    /\ Init => CompleteInv
    /\ TypeInv /\ CompleteInv /\ [Next]_vars => CompleteInv'
  <1>1. ASSUME Init PROVE CompleteInv
    BY <1>1 DEF Init, CompleteInv, CompleteWhenFinished
  <1>2. ASSUME TypeInv, CompleteInv, [Next]_vars PROVE CompleteInv'
    <2> USE <1>2
    <2>1. ASSUME finished' = finished, UNCHANGED sheet PROVE CompleteWhenFinished'
      <3>1. SUFFICES ASSUME finished, NEW k \in DOMAIN sheet
                     PROVE  \E i \in DOMAIN org' : org'[i].row = sheet[k]
        BY <2>1 DEF CompleteWhenFinished
      <3>2. PICK i \in DOMAIN org : org[i].row = sheet[k]
        BY <3>1 DEF CompleteInv, CompleteWhenFinished
      <3> QED
        BY <3>2, RecordsStay
    <2>2. CASE \E d \in BOOLEAN : Start(d)
      <3>1. at' = 1 /\ running' /\ UNCHANGED <<sheet, finished>>
        BY <2>2 DEF Start, CompleteInv
      <3> QED
        BY <2>1, <3>1 DEF CompleteInv
    <2>3. CASE Skip \/ Create
      <3>1. PICK id : Resolve(Row, id)
        BY <2>3 DEF Skip, Create
      <3>2. /\ UNCHANGED <<sheet, running, dry, finished>>
            /\ running /\ at' = at + 1 /\ DOMAIN ids' = DOMAIN ids \cup {sheet[at]}
        BY <2>3, <3>1 DEF Skip, Create, Looking, Resolve, Row, TypeInv, SentOK
      <3>3. at \in Nat
        BY SheetRows DEF TypeInv
      <3> QED
        BY <2>1, <3>2, <3>3 DEF CompleteInv
    <2>4. CASE NotListed
      <3>1. /\ UNCHANGED <<sheet, running, dry, ids, finished>> /\ running /\ at' = at + 1
            /\ at \in DOMAIN sheet
        BY <2>4, NextRow DEF NotListed, Looking
      <3>2. sheet[at].kind = "Task" /\ ParentRows(sheet[at]) = {}
        BY <2>4 DEF NotListed, Listed, HasParent, Row
      <3>3. PICK l \in 1..(at - 1) : IsParent(sheet[l], sheet[at])
        BY <3>1, <3>2, SheetAssumption DEF TypeInv
      <3>4. sheet[l] \notin DOMAIN ids
        BY <3>2, <3>3 DEF ParentRows
      <3>5. dry
        BY <3>1, <3>3, <3>4 DEF CompleteInv
      <3> QED
        BY <2>1, <3>1, <3>5 DEF CompleteInv
    <2>5. CASE DryMiss
      BY <2>1, <2>5 DEF DryMiss, Looking, CompleteInv
    <2>6. CASE MissingAccount \/ Fail \/ LoseReply \/ Abandon
      <3>1. Stop /\ UNCHANGED <<sheet, finished>>
        BY <2>6 DEF MissingAccount, Fail, LoseReply, Abandon
      <3> QED
        BY <2>1, <3>1 DEF Stop, CompleteInv
    <2>7. CASE Send
      BY <2>1, <2>7 DEF Send, Looking, CompleteInv
    <2>8. CASE \E c \in late : CreateLate(c)
      <3>1. UNCHANGED <<sheet, running, dry, at, ids, finished>>
        BY <2>8 DEF CreateLate, script
      <3> QED
        BY <2>1, <3>1 DEF CompleteInv
    <2>9. CASE Finish
      <3>1. /\ Stop /\ UNCHANGED <<sheet, org>> /\ finished' = (finished \/ ~dry)
            /\ running /\ at > Len(sheet)
        BY <2>9 DEF Finish
      <3>2. CASE finished
        BY <3>1, <3>2, <2>1 DEF Stop, CompleteInv
      <3>3. CASE ~dry
        <4>1. ASSUME NEW k \in DOMAIN sheet PROVE InOrg(sheet[k])
          <5>1. k \in 1..(at - 1)
            BY <3>1, SheetRows DEF TypeInv
          <5>2. sheet[k] \in DOMAIN ids
            BY <3>1, <3>3, <5>1 DEF CompleteInv
          <5> QED
            BY <5>2 DEF TypeInv, IdsOK, InOrg
        <4> QED
          BY <3>1, <4>1 DEF Stop, CompleteInv, CompleteWhenFinished, InOrg
      <3>4. CASE dry /\ ~finished
        BY <3>1, <3>4 DEF Stop, CompleteInv, CompleteWhenFinished, TypeInv
      <3> QED
        BY <3>2, <3>3, <3>4
    <2>10. CASE UNCHANGED vars
      <3>1. UNCHANGED <<sheet, running, dry, at, ids, finished>>
        BY <2>10 DEF vars, script
      <3> QED
        BY <2>1, <3>1 DEF CompleteInv
    <2> QED
      BY <2>2, <2>3, <2>4, <2>5, <2>6, <2>7, <2>8, <2>9, <2>10 DEF Next
  <1> QED
    BY <1>1, <1>2

\* A run that prints Done has left a record for every row of any sheet.
THEOREM CompleteWhenFinishedHolds == Spec => []CompleteWhenFinished
  <1>1. CompleteInv => CompleteWhenFinished
    BY DEF CompleteInv
  <1> QED
    BY <1>1, TypeInductive, CompleteInductive, PTL DEF Spec

\* Once a run has finished no later run writes, until a create outlives its script.
THEOREM RerunAddsNothingHolds == Spec => RerunAddsNothing
  <1>1. ASSUME TypeInv, OneOfEachName, CompleteInv, [Next]_vars, finished, ~outlived',
               org' # org
        PROVE  FALSE
    <2>1. CASE Create \/ LoseReply
      <3> ~outlived
        BY <1>1, <2>1 DEF Create, LoseReply
      <3>1. sent # Nothing /\ Creatable(sent) /\ NoSuchRecord(sent.row)
        BY <1>1, <2>1 DEF Create, LoseReply, TypeInv, SentOK, OneOfEachName
      <3>2. PICK i \in DOMAIN org : org[i].row = sent.row
        BY <1>1, <3>1 DEF CompleteInv, CompleteWhenFinished, Creatable
      <3> QED
        BY <3>1, <3>2 DEF NoSuchRecord, SameName
    <2>2. CASE \E c \in late : CreateLate(c)
      BY <1>1, <2>2 DEF CreateLate, OneOfEachName
    <2>3. CASE \/ \E d \in BOOLEAN : Start(d)
               \/ Skip \/ NotListed \/ DryMiss \/ MissingAccount \/ Send
               \/ Fail \/ Abandon \/ Finish \/ UNCHANGED vars
      BY <1>1, <2>3
      DEF Start, Skip, NotListed, DryMiss, MissingAccount, Send, Fail, Abandon, Finish, vars
    <2> QED
      BY <1>1, <2>1, <2>2, <2>3 DEF Next
  <1>2. TypeInv /\ OneOfEachName /\ CompleteInv /\ [Next]_vars =>
            [finished /\ ~outlived' => org' = org]_vars
    BY <1>1
  <1> QED
    BY <1>2, TypeInductive, OneOfEachNameInductive, CompleteInductive, PTL
    DEF Spec, RerunAddsNothing
=============================================================================

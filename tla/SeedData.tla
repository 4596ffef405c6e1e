------------------------------- MODULE SeedData -------------------------------
(***************************************************************************)
(* scripts/seed_data.py: one pass over accounts.csv, opportunities.csv and *)
(* the tasks of the opportunities, each row looked up in the org and       *)
(* created when the query finds nothing.  The script stops at the first    *)
(* error and is run again by hand, over whatever the last run left.        *)
(***************************************************************************)
EXTENDS Naturals, Sequences, FiniteSets

CONSTANTS
    Sheets,       \* the sample files a history may be about
    InitialOrgs,  \* the sample records the org may hold before the first run
    MaxOrg,       \* bound on the records of the org
    MaxLate,      \* bound on the creates that outlive their script
    Nothing

Kinds == {"Account", "Opportunity", "Task"}

\* A row of the files: under is the AccountName of an opportunity, the
\* opportunity a task is about (a task is named after it), and Nothing for an
\* account.
SheetRow == [kind : Kinds, name : STRING, under : STRING \cup {Nothing}]

SameName(r, q) == r.kind = q.kind /\ r.name = q.name

\* The row of the parent, by the name the child carries.
ParentKind(r) == IF r.kind = "Task" THEN "Opportunity" ELSE "Account"
IsParent(p, r) == p.kind = ParentKind(r) /\ p.name = r.under

\* A sheet lists rows of different names in the order of the files, so that
\* the tasks come after their opportunities.
ASSUME SheetAssumption ==
    \A s \in Sheets :
        /\ s \in Seq(SheetRow)
        /\ \A k, l \in DOMAIN s : SameName(s[k], s[l]) => k = l
        /\ \A k \in DOMAIN s : s[k].kind = "Task" =>
              \E l \in 1..(k - 1) : IsParent(s[l], s[k])

Record == [row : SheetRow, parent : Nat]

\* Children hang from older records that their rows name.
ParentsOK(records) ==
    \A i \in DOMAIN records : records[i].row.kind # "Account" =>
        /\ records[i].parent \in 1..(i - 1)
        /\ IsParent(records[records[i].parent].row, records[i].row)

\* Before the first run the org has one record of a name at most, and one
\* named like a row of a sheet is the row's.
ASSUME InitialOrgAssumption ==
    \A o \in InitialOrgs :
        /\ o \in Seq(Record) /\ ParentsOK(o)
        /\ \A i, j \in DOMAIN o : SameName(o[i].row, o[j].row) => i = j
        /\ \A s \in Sheets : \A i \in DOMAIN o, k \in DOMAIN s :
              SameName(o[i].row, s[k]) => o[i].row = s[k]

VARIABLES
    sheet,     \* the rows; they do not change between runs
    org,       \* records [row, parent] in the order of their ids; 0: no parent
    running,   \* a run is under way
    dry,       \* --dry-run
    at,        \* the row it has come to
    ids,       \* name_to_id and created: the ids it has resolved, by row
    sent,      \* the create sent to Salesforce and not answered
    late,      \* creates sent by runs that were killed, in transit
    outlived,  \* there has been such a create
    finished   \* a run that was not dry has printed Done

script == <<running, dry, at, ids, sent>>
vars   == <<sheet, org, script, late, outlived, finished>>

NoIds == [r \in {} |-> 0]

Init ==
    /\ sheet \in Sheets
    /\ org \in InitialOrgs
    /\ running = FALSE /\ dry = FALSE /\ at = 1 /\ ids = NoIds /\ sent = Nothing
    /\ late = {} /\ outlived = FALSE /\ finished = FALSE

Row == sheet[at]

ParentRows(r) == {p \in DOMAIN ids : IsParent(p, r)}
HasParent(r)  == r.kind = "Account" \/ ParentRows(r) # {}

LastParent(r) ==
    IF r.kind = "Account" THEN 0 ELSE Len(org)

Parent(r) ==
    IF r.kind = "Account" THEN 0 ELSE ids[CHOOSE p \in ParentRows(r) : TRUE]

MatchesOfThisRun(r) ==
    {i \in DOMAIN org : r \in DOMAIN ids /\ i = ids[r]}

\* The records the query of row r matches: by kind and Name, or, for a task,
\* by WhatId and Subject.
Matches(r) ==
    {i \in DOMAIN org : /\ SameName(org[i].row, r)
                        /\ r.kind = "Task" => org[i].parent = Parent(r)}

Looking == running /\ sent = Nothing /\ at <= Len(sheet)

\* seed_tasks loops over the opportunities this run has resolved.
Listed(r) == r.kind = "Task" => HasParent(r)

Resolve(r, id) ==
    /\ ids' = [p \in DOMAIN ids \cup {r} |-> IF p = r THEN id ELSE ids[p]]
    /\ at' = at + 1

Stop == running' = FALSE /\ at' = 1 /\ ids' = NoIds /\ sent' = Nothing

-----------------------------------------------------------------------------
(* Runs of the script *)

Start(d) ==
    /\ ~running
    /\ running' = TRUE
    /\ dry' = d
    /\ UNCHANGED <<sheet, org, at, ids, sent, late, outlived, finished>>

\* The query returns any one of the matches (LIMIT 1), and the row is skipped.
Skip ==
    /\ Looking /\ Listed(Row)
    /\ \E i \in Matches(Row) : Resolve(Row, i)
    /\ UNCHANGED <<sheet, org, running, dry, sent, late, outlived, finished>>

NotListed ==
    /\ Looking /\ ~Listed(Row)
    /\ at' = at + 1
    /\ UNCHANGED <<sheet, org, running, dry, ids, sent, late, outlived, finished>>

DryMiss ==
    /\ Looking /\ Listed(Row) /\ Matches(Row) = {} /\ dry
    /\ at' = at + 1
    /\ UNCHANGED <<sheet, org, running, dry, ids, sent, late, outlived, finished>>

\* No Account id resolved: the run ends with an error.
MissingAccount ==
    /\ Looking /\ Listed(Row) /\ Matches(Row) = {} /\ ~dry
    /\ ~HasParent(Row)
    /\ Stop
    /\ UNCHANGED <<sheet, org, dry, late, outlived, finished>>

Send ==
    /\ Looking /\ Listed(Row) /\ Matches(Row) = {} /\ ~dry
    /\ HasParent(Row) /\ Len(org) + Cardinality(late) < MaxOrg
    /\ sent' = [row |-> Row, parent |-> Parent(Row)]
    /\ UNCHANGED <<sheet, org, running, dry, at, ids, late, outlived, finished>>

\* Salesforce creates the record and the script reads its id.
Create ==
    /\ sent # Nothing
    /\ org' = Append(org, sent)
    /\ Resolve(Row, Len(org) + 1)
    /\ sent' = Nothing
    /\ UNCHANGED <<sheet, running, dry, late, outlived, finished>>

\* The record exists, but the CLI's answer is no answer, or the script dies
\* before it reads it.
LoseReply ==
    /\ sent # Nothing
    /\ org' = Append(org, sent)
    /\ Stop
    /\ UNCHANGED <<sheet, dry, late, outlived, finished>>

FailAndGoOn ==
    /\ running
    /\ IF sent = Nothing THEN Stop
       ELSE at' = at + 1 /\ sent' = Nothing /\ UNCHANGED <<running, ids>>
    /\ UNCHANGED <<sheet, org, dry, late, outlived, finished>>

\* A query or a create fails, or the script is stopped: run_sf raises and
\* nothing catches it.
Fail ==
    /\ running
    /\ Stop
    /\ UNCHANGED <<sheet, org, dry, late, outlived, finished>>

\* The script is killed while its create is on the way.
Abandon ==
    /\ sent # Nothing /\ Cardinality(late) < MaxLate
    /\ late' = late \cup {sent}
    /\ outlived' = TRUE
    /\ Stop
    /\ UNCHANGED <<sheet, org, dry, finished>>

CreateLate(c) ==
    /\ c \in late
    /\ late' = late \ {c}
    /\ org' = Append(org, c)
    /\ UNCHANGED <<sheet, script, outlived, finished>>

Finish ==
    /\ running /\ at > Len(sheet)
    /\ Stop
    /\ finished' = (finished \/ ~dry)
    /\ UNCHANGED <<sheet, org, dry, late, outlived>>

Next ==
    \/ \E d \in BOOLEAN : Start(d)
    \/ Skip \/ NotListed \/ DryMiss \/ MissingAccount \/ Send
    \/ Create \/ LoseReply \/ Fail \/ Abandon \/ Finish
    \/ \E c \in late : CreateLate(c)

Spec == Init /\ [][Next]_vars

-----------------------------------------------------------------------------
(* Properties *)

\* Type correctness; a record's parent is an older record, and it is the
\* account or the opportunity its row names.
TypeOK ==
    /\ sheet \in Sheets
    /\ {running, dry, outlived, finished} \subseteq BOOLEAN
    /\ at \in 1..(Len(sheet) + 1)
    /\ \A r \in DOMAIN ids : ids[r] \in DOMAIN org /\ org[ids[r]].row = r
    /\ ParentsOK(org)

\* The docstring's promise: over any series of runs, dry or not, that fail
\* anywhere, a row has at most one record.  It ends with the first create that
\* outlives its script, which the query of the next run does not see.
OneRecordPerRow ==
    ~outlived => \A i, j \in DOMAIN org : i # j => org[i].row # org[j].row

\* A run that prints Done has left a record for every row, however many
\* runs before it stopped half way.
CompleteWhenFinished ==
    finished => \A k \in DOMAIN sheet : \E i \in DOMAIN org : org[i].row = sheet[k]

\* Idempotence: once a run has finished, no later run writes to the org, as
\* long as no create outlives its script.
RerunAddsNothing ==
    [][finished /\ ~outlived' => org' = org]_vars
=============================================================================

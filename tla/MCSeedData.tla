------------------------------ MODULE MCSeedData ------------------------------
EXTENDS SeedData

A(n) == [kind |-> "Account", name |-> n, under |-> Nothing]
O(n, a) == [kind |-> "Opportunity", name |-> n, under |-> a]
T(o) == [kind |-> "Task", name |-> o, under |-> o]

Sample == <<A("a1"), A("a2"), O("o1", "a1"), O("o2", "a1"), O("o3", "a2"),
            T("o1"), T("o2"), T("o3")>>

\* o2 names an account that accounts.csv does not have.
Dangling == <<A("a1"), O("o1", "a1"), O("o2", "a9"), T("o1"), T("o2")>>

MCSheets == {Sample, Dangling}

\* Before the first run the org may hold an account, an opportunity of the
\* sample, and its task, made by hand.
Rec(r, p) == [row |-> r, parent |-> p]
ByHand == <<Rec(A("a1"), 0), Rec(O("o1", "a1"), 1), Rec(T("o1"), 2)>>
MCInitialOrgs == {<<>>, SubSeq(ByHand, 1, 2), ByHand}
=============================================================================

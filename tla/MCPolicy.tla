------------------------------- MODULE MCPolicy -------------------------------
(* Small instances of Policy for TLC: facts on both sides of every threshold. *)
EXTENDS Policy, TLC

EdgeAmounts    == {-1, 250000, 250001, NaN}
EdgeDays       == {-1, 14, 15}
EdgeCloseDates == {0, 30, 31, NoDate, BadDate}
Interchangeable == Permutations(Calls)
=============================================================================

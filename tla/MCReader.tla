------------------------------ MODULE MCReader ------------------------------
(* The readers of one partition for TLC. *)
EXTENDS Reader, TLC

CONSTANTS m1, m2
MCMembers == {m1, m2}
MCOne == {m1}
MCSymmetry == Permutations(MCMembers)

Args(limits, expects) == [limit : limits, expectTimeout : expects]
AnyArgs  == Args({1, 2}, BOOLEAN)
PairArgs == Args({2}, {TRUE})
MCDirect == {-1, 0, 1}
=============================================================================

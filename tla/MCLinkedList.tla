---------------------------- MODULE MCLinkedList ----------------------------
(***************************************************************************)
(* Instances of LinkedList for TLC: two lists in a memory of a few cells,  *)
(* which are alike.                                                        *)
(***************************************************************************)
EXTENDS LinkedList, TLC

MCTopics == {<<1, 1>>, <<2, 2>>}
MCSymmetry == Permutations(Cells)
=============================================================================

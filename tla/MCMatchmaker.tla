---------------------------- MODULE MCMatchmaker ----------------------------
(* Matchmaker on small sets of model values.  Requests, cells and servers   *)
(* that cannot stop are interchangeable within their sets.                  *)
EXTENDS Matchmaker, TLC

CONSTANT MaxListed

MCSymmetry == Permutations(Requests) \cup Permutations(Servers \ Mortal)
                \cup Permutations(Cells)

(* A server that stops can be allocated and recorded again and again; the   *)
(* runs with such a server follow a behaviour until a list is longer than   *)
(* this.                                                                    *)
ShortLists == \A c \in Cells : Len(entity[c]) <= MaxListed

(* ... or until every cell has lost a server: one that has and one that has *)
(* not are the cases to compare.                                            *)
OneCellUnhurt == spoiled # Cells
=============================================================================

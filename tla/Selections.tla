------------------------------ MODULE Selections ------------------------------
(***************************************************************************)
(* The elements of a sequence at some of its positions, and those that     *)
(* pass a test, in their order: SelectSeq, with a definition a proof can   *)
(* open.                                                                   *)
(***************************************************************************)
EXTENDS Integers, Sequences, Folds, FiniteSetsExt

(* The elements of s at the positions I.                                   *)
At(s, I) == MapThenFoldSet(LAMBDA i, t : Append(t, s[i]), <<>>, LAMBDA i : i, Max, I)

Select(s, Test(_)) == At(s, {i \in 1..Len(s) : Test(s[i])})
===============================================================================

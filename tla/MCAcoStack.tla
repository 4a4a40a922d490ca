---------------------------- MODULE MCAcoStack ----------------------------
(***************************************************************************)
(* AcoStack on small instances.  Coroutines, share stacks and words are    *)
(* interchangeable, except that a fresh stack is filled with FirstWord.    *)
(***************************************************************************)
EXTENDS AcoStack, TLC

CONSTANTS c1, c2, c3, s1, s2, w1, w2  \* model values

Symmetry == Permutations(Cos) \cup Permutations(Stacks)
===========================================================================

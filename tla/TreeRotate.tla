----------------------------- MODULE TreeRotate -----------------------------
(***************************************************************************)
(* leftRotate and rightRotate of codes/algorithm/overflow_uint64.c: the    *)
(* pointers they rewire in a binary search tree.                           *)
(***************************************************************************)
EXTENDS Naturals

CONSTANT Size     \* nodes of the tree; a node is its key, 0 is NULL

ASSUME TreeAssumption == Size \in Nat \ {0}

VARIABLE tree     \* root, and left, right and parent of each node

Keys == 1..Size

(* The right child takes the place of the node; the code changes nothing
   when there is none.  down and up are the sides, mirrored by rightRotate. *)
Rotated(t, n, down, up) ==
    LET c == t[up][n]
        p == t.parent[n]
        inner == t[down][c]
        hooked == [k \in Keys |-> IF k = n THEN c
                                  ELSE IF k = inner THEN n
                                  ELSE IF k = c THEN p ELSE t.parent[k]]
        at(side) == IF p # 0 /\ (t.left[p] = n <=> side = "left") THEN p ELSE 0
    IN  IF c = 0 THEN t
        ELSE [t EXCEPT
                !.root = IF p = 0 THEN c ELSE @,
                !.parent = hooked,
                ![up] = [k \in Keys |-> IF k = n THEN inner
                                        ELSE IF k = at(up) THEN c ELSE @[k]],
                ![down] = [k \in Keys |-> IF k = c THEN n
                                          ELSE IF k = at(down) THEN c ELSE @[k]]]

LeftRotate(t, n) == Rotated(t, n, "left", "right")

(* A rotation that leaves the parent of the node that moves over.          *)
RightRotateNoParent(t, n) ==
    [Rotated(t, n, "right", "left") EXCEPT
        !.parent = [k \in Keys |-> IF t.left[n] # 0 /\ k = t.right[t.left[n]]
                                   THEN t.left[n] ELSE @[k]]]

RightRotate(t, n) == Rotated(t, n, "right", "left")

(* Any tree comes from a chain by rotations.                               *)
TreeInit == tree = [root |-> 1,
                    left |-> [k \in Keys |-> 0],
                    right |-> [k \in Keys |-> IF k = Size THEN 0 ELSE k + 1],
                    parent |-> [k \in Keys |-> k - 1]]

Rotate == \E n \in Keys : tree' \in {LeftRotate(tree, n), RightRotate(tree, n)}

-----------------------------------------------------------------------------
(* The nodes of which n is a descendant, and n itself.                     *)
Line(n) == LET up[i \in 0..Size] ==
                 IF i = 0 THEN n
                 ELSE IF up[i - 1] = 0 THEN 0 ELSE tree.parent[up[i - 1]]
           IN  {up[i] : i \in 0..Size} \ {0}

(* Whatever has been rotated, the pointers of parents and children agree,
   every node hangs below the root, a node is larger than all to its left
   and smaller than all to its right, and a rotation of the child that went
   up takes the last one back.                                             *)
RotationsKeepOrder ==
    /\ \A n \in Keys :
         /\ tree.root \in Line(n)
         /\ tree.parent[n] = 0 <=> n = tree.root
         /\ \A c \in Keys : tree.parent[c] = n <=> c \in {tree.left[n], tree.right[n]}
         /\ \A m \in Keys : tree.left[n] \in Line(m) => m < n
         /\ \A m \in Keys : tree.right[n] \in Line(m) => m > n
    /\ \A n \in Keys : tree.right[n] # 0 =>
         RightRotate(LeftRotate(tree, n), tree.right[n]) = tree
=============================================================================

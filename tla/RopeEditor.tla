----------------------------- MODULE RopeEditor -----------------------------
(***************************************************************************)
(* The editor over its rope: RopeBuffer is Rope, and what editing does to  *)
(* the tree.                                                               *)
(***************************************************************************)
EXTENDS Editor, Rope

(* What a rope holds and whether it is balanced, as functions that call    *)
(* themselves do in Rope.                                                  *)
CONSTANTS text(_), avl(_)

-----------------------------------------------------------------------------
(* Properties *)

(* The text in the leaves of a rope from left to right, whatever the       *)
(* branches have cached.                                                   *)
Text(n) == IF IsLeaf(n) THEN n.buf ELSE text(n.left) \o text(n.right)

(* Taking out any range and putting text in at any offset do to the text   *)
(* what they do to a plain sequence.                                       *)
EditsAsText ==
    LET t == text(buffer)
        n == Len(t)
    IN \A p \in 0..n :
          /\ \A c \in Typed : text(Insert(buffer, p, <<c>>)) = InsertAt(t, p + 1, c)
          /\ \A q \in p..n : text(Delete(buffer, p, q - p))
                               = SubSeq(t, 1, p) \o SubSeq(t, q + 1, n)

(* Every lookup finds the character and the line that the text has there,  *)
(* and line and column name an offset uniquely.                            *)
ReadsAsText ==
    LET t == text(buffer)
    IN /\ ToSlice(buffer) = t
       /\ \A p \in 0..(Len(t) - 1) : char_at_node(buffer, p) = t[p + 1]
       /\ \A p \in 0..Len(t) :
             LET lc     == OffsetToLineCol(buffer, p)
                 earlier == {i \in 1..p : t[i] = Newline}
             IN /\ lc[1] = Cardinality(earlier)
                /\ \A i \in earlier : lc[2] <= p - i
                /\ lc[2] = p \/ p - lc[2] \in earlier
                /\ LineColToOffset(buffer, lc[1], lc[2]) = p

(* rope_buffer.rs: every rope that editing can leave behind, for all the   *)
(* splitting, merging and rotating, is edited and read like the text it    *)
(* stands for, whose lengths and newline counts its branches have cached.  *)
ActsAsText == EditsAsText /\ ReadsAsText

AVL(n) == \/ IsLeaf(n)
          \/ BalanceFactor(n) \in -1..1 /\ avl(n.left) /\ avl(n.right)

(* rope_buffer.rs, join_nodes: if no text put in at once fills more than   *)
(* four leaves, every sequence of splits and joins leaves a rope that is   *)
(* an AVL tree.  build_rope_from_slice pairs five leaves into a tree that  *)
(* is none, and joining never repairs it.                                  *)
Balanced == longest <= 4 * LeafMax => avl(buffer)
=============================================================================

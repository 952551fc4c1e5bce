-------------------------------- MODULE Rope --------------------------------
(***************************************************************************)
(* The text buffer of the editor (crates/igui/src/rope_buffer.rs): a       *)
(* binary tree over leaves of at most LeafMax code points, rebuilt by      *)
(* splitting and joining, with lengths, newline counts and heights cached  *)
(* in its branches.  Offsets count code points from 0.                     *)
(***************************************************************************)
EXTENDS Integers, Sequences, FiniteSets, SequencesExt

CONSTANT LeafMax     \* LEAF_MAX: code points in a leaf

(* The functions that call themselves, as they are called.  What a call    *)
(* does is defined below under the name in capitals, which a configuration *)
(* gives to it.                                                            *)
CONSTANTS join_nodes(_, _), split_node(_, _), pair(_), collect_range(_, _, _),
          char_at_node(_, _), count_newlines_before(_, _),
          nth_newline_pos_raw(_, _)

ASSUME LeafMaxAssumption == LeafMax \in Nat \ {0}

Newline == "nl"

CountNewlines(s) == Cardinality({i \in DOMAIN s : s[i] = Newline})

-----------------------------------------------------------------------------
(* Nodes.  A branch caches what its children hold.                         *)

Leaf(buf) == [kind |-> "leaf", buf |-> buf, newline_count |-> CountNewlines(buf)]

EmptyLeaf == Leaf(<< >>)

IsLeaf(n) == n.kind = "leaf"

TextLen(n) == IF IsLeaf(n) THEN Len(n.buf) ELSE n.total_len
NewlineCount(n) == IF IsLeaf(n) THEN n.newline_count ELSE n.total_newlines
LineCount(n) == NewlineCount(n) + 1
Height(n) == IF IsLeaf(n) THEN 0 ELSE n.height

Taller(a, b) == IF a >= b THEN a ELSE b

(* Slip: the right subtree's newlines are forgotten.                       *)
MutBranch(l, r) ==
    [kind |-> "branch", left |-> l, right |-> r,
     left_len |-> TextLen(l), total_len |-> TextLen(l) + TextLen(r),
     total_newlines |-> NewlineCount(l),
     height |-> 1 + Taller(Height(l), Height(r))]

Branch(l, r) ==
    [kind |-> "branch", left |-> l, right |-> r,
     left_len |-> TextLen(l), total_len |-> TextLen(l) + TextLen(r),
     total_newlines |-> NewlineCount(l) + NewlineCount(r),
     height |-> 1 + Taller(Height(l), Height(r))]

BalanceFactor(n) == IF IsLeaf(n) THEN 0 ELSE Height(n.left) - Height(n.right)

-----------------------------------------------------------------------------
(* Balancing                                                               *)

RotateRight(n) ==
    IF IsLeaf(n.left) THEN Branch(n.left, n.right)
    ELSE Branch(n.left.left, Branch(n.left.right, n.right))

RotateLeft(n) ==
    IF IsLeaf(n.right) THEN Branch(n.left, n.right)
    ELSE Branch(Branch(n.left, n.right.left), n.right.right)

(* Slip: the inner grandchild is not looked at before rotating.            *)
MutBalance(n) ==
    CASE BalanceFactor(n) > 1  -> RotateRight(n)
      [] BalanceFactor(n) < -1 -> RotateLeft(n)
      [] OTHER -> n

Balance(n) ==
    CASE BalanceFactor(n) > 1 ->
           RotateRight(IF BalanceFactor(n.left) < 0
                       THEN Branch(RotateLeft(n.left), n.right) ELSE n)
      [] BalanceFactor(n) < -1 ->
           RotateLeft(IF BalanceFactor(n.right) > 0
                      THEN Branch(n.left, RotateRight(n.right)) ELSE n)
      [] OTHER -> n

-----------------------------------------------------------------------------
(* Join and split                                                          *)

JoinNodes(l, r) ==
    IF TextLen(l) = 0 THEN r
    ELSE IF TextLen(r) = 0 THEN l
    ELSE IF IsLeaf(l) /\ IsLeaf(r) /\ TextLen(l) + TextLen(r) <= LeafMax
    THEN Leaf(l.buf \o r.buf)
    ELSE IF Height(l) - Height(r) \in -1..1 THEN Branch(l, r)
    ELSE IF Height(l) > Height(r)
    THEN Balance(Branch(l.left, join_nodes(l.right, r)))
    ELSE Balance(Branch(join_nodes(l, r.left), r.right))

SplitNode(n, pos) ==
    IF pos = 0 THEN <<EmptyLeaf, n>>
    ELSE IF pos >= TextLen(n) THEN <<n, EmptyLeaf>>
    ELSE IF IsLeaf(n)
    THEN <<Leaf(SubSeq(n.buf, 1, pos)), Leaf(SubSeq(n.buf, pos + 1, Len(n.buf)))>>
    ELSE IF pos = n.left_len THEN <<n.left, n.right>>
    ELSE IF pos < n.left_len
    THEN LET s == split_node(n.left, pos) IN <<s[1], join_nodes(s[2], n.right)>>
    ELSE LET s == split_node(n.right, pos - n.left_len)
         IN <<join_nodes(n.left, s[1]), s[2]>>

(* build_rope_from_slice: one leaf per LeafMax code points, then pairs of  *)
(* neighbours are joined, round after round; an odd last node moves up.    *)
Pair(nodes) ==
    IF Len(nodes) = 1 THEN nodes[1]
    ELSE pair([i \in 1..((Len(nodes) + 1) \div 2) |->
                 IF 2 * i <= Len(nodes) THEN Branch(nodes[2 * i - 1], nodes[2 * i])
                 ELSE nodes[2 * i - 1]])

LesserOf(a, b) == IF a <= b THEN a ELSE b

BuildRope(text) ==
    IF text = << >> THEN EmptyLeaf
    ELSE pair([i \in 1..((Len(text) + LeafMax - 1) \div LeafMax) |->
                 Leaf(SubSeq(text, (i - 1) * LeafMax + 1,
                             LesserOf(i * LeafMax, Len(text))))])

-----------------------------------------------------------------------------
(* The operations of RopeBuffer, on its root                               *)

Insert(root, pos, text) ==
    IF text = << >> THEN root
    ELSE LET s == split_node(root, pos)
         IN join_nodes(join_nodes(s[1], BuildRope(text)), s[2])

Delete(root, pos, count) ==
    IF count = 0 \/ pos >= TextLen(root) THEN root
    ELSE LET s == split_node(root, pos)
         IN join_nodes(s[1], split_node(s[2], LesserOf(count, TextLen(root) - pos))[2])

CollectRange(n, start, end) ==
    IF start >= end THEN << >>
    ELSE IF IsLeaf(n) THEN SubSeq(n.buf, start + 1, LesserOf(end, Len(n.buf)))
    ELSE collect_range(n.left, start, LesserOf(end, n.left_len))
         \o collect_range(n.right, Taller(start - n.left_len, 0), end - n.left_len)

Slice(root, start, end) ==
    collect_range(root, LesserOf(start, TextLen(root)), LesserOf(end, TextLen(root)))

ToSlice(root) == Slice(root, 0, TextLen(root))

CharAtNode(n, pos) ==
    IF IsLeaf(n) THEN n.buf[pos + 1]
    ELSE IF pos < n.left_len THEN char_at_node(n.left, pos)
    ELSE char_at_node(n.right, pos - n.left_len)

(* Newlines at offsets below pos.                                          *)
CountNewlinesBefore(n, pos) ==
    IF pos = 0 THEN 0
    ELSE IF IsLeaf(n) THEN CountNewlines(SubSeq(n.buf, 1, LesserOf(pos, Len(n.buf))))
    ELSE IF pos <= n.left_len THEN count_newlines_before(n.left, pos)
    ELSE NewlineCount(n.left) + count_newlines_before(n.right, pos - n.left_len)

None == -1

(* The offset of newline k, counted from 0.                                *)
NthNewlinePosRaw(n, k) ==
    IF IsLeaf(n)
    THEN LET at == {i \in DOMAIN n.buf : /\ n.buf[i] = Newline
                                         /\ CountNewlines(SubSeq(n.buf, 1, i)) = k + 1}
         IN IF at = {} THEN None ELSE (CHOOSE i \in at : TRUE) - 1
    ELSE IF k < NewlineCount(n.left) THEN nth_newline_pos_raw(n.left, k)
    ELSE LET right_pos == nth_newline_pos_raw(n.right, k - NewlineCount(n.left))
         IN IF right_pos = None THEN None ELSE n.left_len + right_pos

(* line_start and line_range of a line that exists.                        *)
LineStart(root, line) ==
    IF line = 0 THEN 0 ELSE nth_newline_pos_raw(root, line - 1) + 1

LineEnd(root, line) ==
    IF line + 1 < LineCount(root) THEN nth_newline_pos_raw(root, line) ELSE TextLen(root)

OffsetToLineCol(root, offset) ==
    LET pos  == LesserOf(offset, TextLen(root))
        line == count_newlines_before(root, pos)
    IN <<line, pos - LineStart(root, line)>>

LineColToOffset(root, line, col) ==
    IF line >= LineCount(root) THEN TextLen(root)
    ELSE LineStart(root, line)
         + LesserOf(col, LineEnd(root, line) - LineStart(root, line))
=============================================================================

------------------------------ MODULE MCEditor ------------------------------
(* A file of two code points that starts with a BOM and ends its lines     *)
(* the way Windows does.  Two characters tell the places of a text apart   *)
(* well enough; one of them also stands for the blank.                     *)
EXTENDS RopeEditor

MCFiles == {<<"bom", "a", "cr", "nl">>}
MCBlanks == {<< >>, <<"a">>}
MCClips == {<<"cr", "nl">>}

(* Every rope over a text, balanced or not, with no empty leaf below a     *)
(* branch: where the contract that Editor states is to hold.               *)
RECURSIVE RopesOver(_)
RopesOver(t) ==
    (IF Len(t) <= LeafMax THEN {Leaf(t)} ELSE {})
    \cup UNION {{Branch(l, r) : l \in RopesOver(SubSeq(t, 1, i)),
                               r \in RopesOver(SubSeq(t, i + 1, Len(t)))}
               : i \in 1..(Len(t) - 1)}

Ropes == UNION {RopesOver(t) : t \in Texts}

(* The functions that call themselves.  The LETs keep TLC, when it counts  *)
(* what was evaluated, from following each call into the next one.         *)
MCJoinNodes(l, r) == LET node == JoinNodes(l, r) IN node
MCSplitNode(n, pos) == LET halves == SplitNode(n, pos) IN halves
MCPair(nodes) == LET root == Pair(nodes) IN root
MCCollectRange(n, start, end) == LET part == CollectRange(n, start, end) IN part
MCCharAtNode(n, pos) == LET char == CharAtNode(n, pos) IN char
MCCountNewlinesBefore(n, pos) == LET count == CountNewlinesBefore(n, pos) IN count
MCNthNewlinePosRaw(n, k) == LET pos == NthNewlinePosRaw(n, k) IN pos
MCText(n) == LET chars == Text(n) IN chars
MCAVL(n) == LET ok == AVL(n) IN ok
=============================================================================

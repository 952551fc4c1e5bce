------------------------- MODULE ImageInflateProofs -------------------------
(***************************************************************************)
(* One process at a time inflates the image: for every image size, every   *)
(* layout and any number of starts, crashes and I/O errors, the file under *)
(* the image's name is whole, and so is what the VM loads.  (Two processes *)
(* that inflate into one directory share its .tmp, and the code has        *)
(* nothing to keep them apart: the hypothesis AloneAtATime is needed.)     *)
(*                                                                         *)
(* NoHalfImage is not inductive: a rename makes the .tmp the image, so the *)
(* .tmp must be whole by then (WriterInv), and a left-over .tmp that is    *)
(* truncated must not be an image's file (ApartInv); that a new file is    *)
(* none of the old ones needs that there are as many nodes as starts       *)
(* allow (CountInv).                                                       *)
(***************************************************************************)
EXTENDS ImageInflate, FiniteSetTheorems, TLAPS

(* At most one process works on the two directories.                       *)
AloneAtATime == \A p, q \in Procs : p = q

States == {"down", "find", "inflate", "create", "copy", "rename", "load",
           "up", "failed"}

FileInv ==
    /\ have \in [Dirs -> SUBSET Shipped]
    /\ image \in [Dirs -> 0..nodes] /\ tmp \in [Dirs -> 0..nodes]
    /\ data \in [Nodes -> SUBSET Whole]

ProcInv ==
    /\ pc \in [Procs -> States] /\ dir \in [Procs -> Dirs]
    /\ handle \in [Procs -> 0..nodes] /\ loaded \in [Procs -> SUBSET Whole]
    /\ starts \in [Procs -> 0..MaxStarts]
    /\ copied \in [Procs -> 0..Blocks] /\ flushed \in [Procs -> 0..Blocks]
    /\ \A p \in Procs : copied[p] = flushed[p] \/ copied[p] = flushed[p] + 1
    /\ errors \in 0..MaxErrors

(* Every attempt creates at most one file.                                 *)
Unspent(p) == IF pc[p] \in {"find", "inflate", "create"} THEN 1 ELSE 0
CountInv ==
    /\ nodes \in Nat /\ nodes >= 2 /\ nodes <= Cardinality(Nodes)
    /\ \A p \in Procs : nodes + Unspent(p) <= 2 + starts[p]

(* A .tmp is no image, and the two directories' are two files.             *)
ApartInv ==
    /\ \A d, e \in Dirs : tmp[d] # NoNode => tmp[d] # image[e]
    /\ \A d, e \in Dirs : tmp[d] = tmp[e] /\ tmp[d] # NoNode => d = e

(* The writer writes the .tmp of its directory, and has written what it    *)
(* says; it renames it when it is whole.                                   *)
WriterInv ==
    \A p \in Procs :
        /\ pc[p] = "copy" => /\ handle[p] = tmp[dir[p]] /\ handle[p] # NoNode
                             /\ data[handle[p]] = 1..flushed[p]
        /\ pc[p] = "rename" => /\ tmp[dir[p]] # NoNode
                               /\ data[tmp[dir[p]]] = Whole

(* What the VM of a running process has read is a whole image.             *)
LoadsWhole ==
    \A p \in Procs : /\ pc[p] = "load" => image[dir[p]] # NoNode
                     /\ pc[p] = "up" => loaded[p] = Whole

IInv == /\ FileInv /\ ProcInv /\ CountInv /\ ApartInv /\ WriterInv
        /\ NoHalfImage /\ LoadsWhole

-----------------------------------------------------------------------------
(* Files *)

LEMMA DirFacts == /\ "exe" \in Dirs /\ "crate" \in Dirs /\ Whole # {}
                  /\ Blocks \in Nat /\ 0 \in 0..Blocks
  <1>1. 1 \in 1..Blocks
    BY InflateAssumption
  <1> QED
    BY <1>1, InflateAssumption DEF Dirs, Whole

(* With one process there are nodes for all its starts.                    *)
LEMMA NodeFacts ==
    ASSUME NEW p \in Procs, Procs = {p}
    PROVE  Nodes = 1..(2 + MaxStarts) /\ Cardinality(Nodes) = 2 + MaxStarts
  <1>1. Cardinality(Procs) = 1
    BY FS_Singleton
  <1>2. MaxStarts * Cardinality(Procs) = MaxStarts
    BY <1>1, InflateAssumption
  <1>3. Nodes = 1..(2 + MaxStarts) /\ 2 + MaxStarts \in Nat
    BY <1>2, InflateAssumption DEF Nodes
  <1>4. Cardinality(1..(2 + MaxStarts)) = 2 + MaxStarts
    BY <1>3, FS_Interval
  <1> QED
    BY <1>3, <1>4

LEMMA InitIInv == ASSUME AloneAtATime PROVE Init => IInv
  <1> SUFFICES ASSUME Init PROVE IInv
    OBVIOUS
  <1>1. 2 <= Cardinality(Nodes) /\ 1 \in Nodes /\ 2 \in Nodes
    <2>1. CASE Procs = {}
      <3>1. MaxStarts * Cardinality(Procs) = 0
        BY <2>1, FS_EmptySet, InflateAssumption
      <3>2. Nodes = 1..2
        BY <3>1 DEF Nodes
      <3>3. Cardinality(1..2) = 2
        <4>1. ~(1 > 2) /\ 2 - 1 + 1 = 2
          OBVIOUS
        <4>2. Cardinality(1..2) = IF 1 > 2 THEN 0 ELSE 2 - 1 + 1
          BY FS_Interval, 1 \in Int, 2 \in Int, Zenon
        <4> QED
          BY <4>1, <4>2
      <3> QED
        BY <3>2, <3>3
    <2>2. ASSUME NEW p \in Procs PROVE 2 <= Cardinality(Nodes) /\ 1 \in Nodes /\ 2 \in Nodes
      <3>1. Procs = {p}
        BY DEF AloneAtATime
      <3>2. Nodes = 1..(2 + MaxStarts) /\ Cardinality(Nodes) = 2 + MaxStarts
        BY <3>1, NodeFacts
      <3> QED
        BY <3>2, InflateAssumption
    <2> QED
      BY <2>1, <2>2
  <1>2. nodes = 2 /\ 0 \in 0..nodes /\ 1 \in 0..nodes /\ 2 \in 0..nodes
    BY DEF Init
  <1>3. FileInv
    <2>1. have \in [Dirs -> SUBSET Shipped]
      BY InflateAssumption DEF Init
    <2>2. image \in [Dirs -> 0..nodes] /\ tmp \in [Dirs -> 0..nodes]
      BY <1>2 DEF Init, NoNode
    <2>3. data \in [Nodes -> SUBSET Whole]
      BY DEF Init
    <2> QED
      BY <2>1, <2>2, <2>3 DEF FileInv
  <1>4. ProcInv
    <2>1. 0 \in 0..MaxStarts /\ 0 \in 0..Blocks /\ 0 \in 0..MaxErrors
      BY InflateAssumption
    <2> QED
      BY <1>2, <2>1, DirFacts DEF Init, ProcInv, States, NoNode
  <1>5. CountInv
    <2>1. \A p \in Procs : Unspent(p) = 0 /\ starts[p] = 0
      BY DEF Init, Unspent
    <2> QED
      BY <1>1, <1>2, <2>1 DEF CountInv
  <1>6. ApartInv /\ WriterInv /\ LoadsWhole
    BY DEF Init, ApartInv, WriterInv, LoadsWhole, NoNode
  <1>7. NoHalfImage
    <2>1. data[1] = Whole /\ data[2] = Whole
      BY <1>1 DEF Init
    <2> QED
      BY <2>1 DEF Init, NoHalfImage, NoNode
  <1> QED
    BY <1>3, <1>4, <1>5, <1>6, <1>7 DEF IInv

-----------------------------------------------------------------------------
(* Steps *)

(* A step of the only process that leaves the files alone.                 *)
LEMMA QuietStep ==
    ASSUME IInv, NEW p \in Procs, Procs = {p}, NEW s \in States,
           UNCHANGED fileVars, pc' = [pc EXCEPT ![p] = s],
           ProcInv', Unspent(p)' + starts[p] <= Unspent(p) + starts'[p],
           s \notin {"copy", "rename"},
           s = "load" => image[dir'[p]] # NoNode,
           s = "up" => loaded'[p] = Whole
    PROVE  IInv'
  <1> USE DEF fileVars
  <1>1. pc'[p] = s
    BY DEF IInv, ProcInv
  <1>2. FileInv' /\ ApartInv' /\ NoHalfImage'
    BY DEF IInv, FileInv, ApartInv, NoHalfImage
  <1>3. CountInv'
    <2>1. /\ nodes \in Nat /\ starts[p] \in Nat /\ starts'[p] \in Nat
          /\ nodes + Unspent(p) <= 2 + starts[p]
          /\ Unspent(p) \in Nat /\ Unspent(p)' \in Nat
      BY DEF IInv, CountInv, ProcInv, Unspent
    <2>2. nodes + Unspent(p)' <= 2 + starts'[p]
      BY <2>1
    <2> QED
      BY <2>2 DEF IInv, CountInv
  <1>4. WriterInv' /\ LoadsWhole'
    BY <1>1 DEF WriterInv, LoadsWhole
  <1> QED
    BY <1>2, <1>3, <1>4 DEF IInv

LEMMA CreateStep ==
    ASSUME IInv, NEW p \in Procs, Procs = {p}, Create(p)
    PROVE  IInv'
  <1> DEFINE d == dir[p]
             old == tmp[d]
             n == IF old = NoNode THEN nodes + 1 ELSE old
  <1>0. /\ image \in [Dirs -> 0..nodes] /\ tmp \in [Dirs -> 0..nodes]
        /\ data \in [Nodes -> SUBSET Whole] /\ nodes \in Nat /\ d \in Dirs
        /\ nodes >= 2 /\ starts[p] \in 0..MaxStarts
    BY DEF IInv, FileInv, ProcInv, CountInv
  <1>1. /\ pc[p] = "create" /\ pc' = [pc EXCEPT ![p] = "copy"]
        /\ nodes' = IF old = NoNode THEN nodes + 1 ELSE nodes
        /\ tmp' = [tmp EXCEPT ![d] = n] /\ data' = [data EXCEPT ![n] = {}]
        /\ handle' = [handle EXCEPT ![p] = n]
        /\ copied' = [copied EXCEPT ![p] = 0]
        /\ flushed' = [flushed EXCEPT ![p] = 0]
        /\ UNCHANGED <<have, image, dir, loaded, starts, errors>>
    BY DEF Create, Goto
  <1>2. nodes + 1 <= 2 + starts[p]
    BY <1>1 DEF IInv, CountInv, Unspent
  <1>3. /\ nodes' \in Nat /\ nodes' >= nodes /\ nodes' <= 2 + starts[p]
        /\ nodes' <= 2 + MaxStarts /\ n \in 1..nodes'
    <2>1. old \in 0..nodes
      BY <1>0
    <2> QED
      BY <1>0, <1>1, <1>2, <2>1, InflateAssumption DEF NoNode
  <1>4. n \in Nodes /\ nodes' <= Cardinality(Nodes)
    BY <1>3, NodeFacts, InflateAssumption
  <1>5. n # NoNode /\ \A e \in Dirs : n # image[e] /\ (n = tmp[e] => e = d)
    <2>1. CASE old = NoNode
      <3>1. \A e \in Dirs : image[e] <= nodes /\ tmp[e] <= nodes
            /\ image[e] \in Nat /\ tmp[e] \in Nat
        BY <1>0
      <3>2. n = nodes + 1
        BY <2>1
      <3> HIDE DEF n
      <3> QED
        BY <1>0, <3>1, <3>2 DEF NoNode
    <2>2. CASE old # NoNode
      BY <1>0, <2>2 DEF IInv, ApartInv
    <2> QED
      BY <2>1, <2>2
  <1> HIDE DEF n, d, old
  <1>6. 0..nodes \subseteq 0..nodes' /\ n \in 0..nodes'
    BY <1>0, <1>3
  <1>7. FileInv'
    BY <1>0, <1>1, <1>6 DEF FileInv, IInv
  <1>8. ProcInv'
    <2>1. pc' \in [Procs -> States]
      BY <1>1 DEF IInv, ProcInv, States
    <2>2. handle' \in [Procs -> 0..nodes']
      BY <1>1, <1>6 DEF IInv, ProcInv
    <2>3. /\ copied' \in [Procs -> 0..Blocks] /\ flushed' \in [Procs -> 0..Blocks]
          /\ copied'[p] = flushed'[p]
      BY <1>1, DirFacts DEF IInv, ProcInv
    <2> QED
      BY <1>1, <2>1, <2>2, <2>3 DEF IInv, ProcInv
  <1>9. CountInv'
    <2>1. pc'[p] = "copy"
      BY <1>1 DEF IInv, ProcInv
    <2>2. Unspent(p)' = 0
      BY <2>1 DEF Unspent
    <2> QED
      BY <1>0, <1>1, <1>3, <1>4, <2>2 DEF CountInv
  <1>10. ApartInv'
    BY <1>0, <1>1, <1>5 DEF IInv, ApartInv
  <1>11. WriterInv'
    <2>1. /\ pc'[p] = "copy" /\ handle'[p] = n /\ tmp'[dir'[p]] = n
          /\ flushed'[p] = 0
      BY <1>0, <1>1 DEF IInv, ProcInv, d
    <2>2. data'[n] = {} /\ 1..0 = {}
      BY <1>0, <1>1, <1>4
    <2> QED
      BY <1>5, <2>1, <2>2 DEF WriterInv
  <1>12. NoHalfImage'
    BY <1>0, <1>1, <1>5 DEF IInv, NoHalfImage
  <1>13. LoadsWhole'
    BY <1>1 DEF IInv, LoadsWhole, ProcInv
  <1> QED
    BY <1>7, <1>8, <1>9, <1>10, <1>11, <1>12, <1>13 DEF IInv

LEMMA WriteStep ==
    ASSUME IInv, NEW p \in Procs, Procs = {p}, Write(p)
    PROVE  IInv'
  <1> DEFINE h == handle[p]
  <1>0. /\ image \in [Dirs -> 0..nodes] /\ tmp \in [Dirs -> 0..nodes]
        /\ data \in [Nodes -> SUBSET Whole] /\ nodes \in Nat /\ dir[p] \in Dirs
        /\ nodes <= Cardinality(Nodes) /\ copied[p] \in 0..Blocks
        /\ flushed[p] \in 0..Blocks
    BY DEF IInv, FileInv, ProcInv, CountInv
  <1>1. /\ pc[p] = "copy" /\ flushed[p] < copied[p]
        /\ data' = [data EXCEPT ![h] = data[h] \cup {copied[p]}]
        /\ flushed' = [flushed EXCEPT ![p] = copied[p]]
        /\ UNCHANGED <<have, image, tmp, nodes, pc, dir, handle, copied,
                       loaded, starts, errors>>
    BY DEF Write
  <1>2. h = tmp[dir[p]] /\ h # NoNode /\ data[h] = 1..flushed[p]
    BY <1>1 DEF IInv, WriterInv
  <1>3. h \in Nodes
    <2>1. h \in 0..nodes
      BY <1>0, <1>2
    <2> QED
      BY <1>0, <1>2, <2>1, NodeFacts, InflateAssumption DEF NoNode
  <1>4. copied[p] = flushed[p] + 1 /\ copied[p] \in Whole
    <2>1. copied[p] = flushed[p] \/ copied[p] = flushed[p] + 1
      BY DEF IInv, ProcInv
    <2> QED
      BY <1>0, <1>1, <2>1, InflateAssumption DEF Whole
  <1>5. data[h] \cup {copied[p]} = 1..copied[p]
    BY <1>0, <1>2, <1>4
  <1> HIDE DEF h
  <1>6. FileInv'
    BY <1>0, <1>1, <1>3, <1>4 DEF IInv, FileInv
  <1>7. ProcInv'
    BY <1>0, <1>1 DEF IInv, ProcInv
  <1>8. CountInv' /\ ApartInv'
    BY <1>1 DEF IInv, CountInv, ApartInv, Unspent
  <1>9. WriterInv'
    <2>1. data'[h] = 1..copied[p] /\ flushed'[p] = copied[p]
      BY <1>0, <1>1, <1>3, <1>5 DEF IInv, ProcInv
    <2> QED
      BY <1>1, <1>2, <2>1 DEF WriterInv, h
  <1>10. NoHalfImage'
    <2>1. \A e \in Dirs : image[e] # h
      BY <1>0, <1>2 DEF IInv, ApartInv
    <2> QED
      BY <1>0, <1>1, <2>1 DEF IInv, NoHalfImage
  <1>11. LoadsWhole'
    BY <1>1 DEF IInv, LoadsWhole
  <1> QED
    BY <1>6, <1>7, <1>8, <1>9, <1>10, <1>11 DEF IInv

LEMMA CopyStep ==
    ASSUME IInv, NEW p \in Procs, Procs = {p}, Copy(p)
    PROVE  IInv'
  <1>1. /\ copied' = [copied EXCEPT ![p] = copied[p] + 1]
        /\ copied[p] < Blocks /\ flushed[p] = copied[p]
        /\ UNCHANGED <<have, image, tmp, nodes, data, pc, dir, handle, flushed,
                       loaded, starts, errors>>
    BY DEF Copy, fileVars
  <1>2. copied[p] + 1 \in 0..Blocks
    BY <1>1, InflateAssumption DEF IInv, ProcInv
  <1>3. ProcInv'
    BY <1>1, <1>2 DEF IInv, ProcInv
  <1> QED
    BY <1>1, <1>3 DEF IInv, FileInv, CountInv, Unspent, ApartInv, WriterInv,
       NoHalfImage, LoadsWhole

LEMMA FlushStep ==
    ASSUME IInv, NEW p \in Procs, Procs = {p}, Flush(p)
    PROVE  IInv'
  <1>1. /\ pc[p] = "copy" /\ flushed[p] = Blocks
        /\ handle' = [handle EXCEPT ![p] = NoNode]
        /\ pc' = [pc EXCEPT ![p] = "rename"]
        /\ UNCHANGED <<have, image, tmp, nodes, data, dir, copied, flushed,
                       loaded, starts, errors>>
    BY DEF Flush, Goto, fileVars
  <1>2. pc'[p] = "rename" /\ pc' \in [Procs -> States]
    BY <1>1 DEF IInv, ProcInv, States
  <1>3. handle' \in [Procs -> 0..nodes]
    BY <1>1 DEF IInv, ProcInv, CountInv, NoNode
  <1>4. ProcInv'
    BY <1>1, <1>2, <1>3 DEF IInv, ProcInv
  <1>5. WriterInv'
    BY <1>1, <1>2 DEF IInv, WriterInv, Whole
  <1>6. FileInv' /\ ApartInv' /\ NoHalfImage' /\ LoadsWhole'
    BY <1>1, <1>2 DEF IInv, FileInv, ApartInv, NoHalfImage, LoadsWhole
  <1>7. CountInv'
    BY <1>1, <1>2 DEF IInv, CountInv, Unspent
  <1> QED
    BY <1>4, <1>5, <1>6, <1>7 DEF IInv

LEMMA RenameStep ==
    ASSUME IInv, NEW p \in Procs, Procs = {p}, Rename(p)
    PROVE  IInv'
  <1> DEFINE d == dir[p]
  <1>0. /\ image \in [Dirs -> 0..nodes] /\ tmp \in [Dirs -> 0..nodes]
        /\ nodes \in Nat /\ d \in Dirs
    BY DEF IInv, FileInv, ProcInv, CountInv
  <1>1. pc[p] = "rename" /\ tmp[d] # NoNode /\ data[tmp[d]] = Whole
    BY DEF Rename, IInv, WriterInv
  <1>2. /\ image' = [image EXCEPT ![d] = tmp[d]]
        /\ tmp' = [tmp EXCEPT ![d] = NoNode]
        /\ pc' = [pc EXCEPT ![p] = "load"]
        /\ UNCHANGED <<have, nodes, data, dir, handle, copied, flushed, loaded,
                       starts, errors>>
    BY <1>1 DEF Rename, Goto, procVars
  <1> HIDE DEF d
  <1>3. pc'[p] = "load" /\ pc' \in [Procs -> States]
    BY <1>2 DEF IInv, ProcInv, States
  <1>4. FileInv'
    BY <1>0, <1>2 DEF IInv, FileInv, NoNode
  <1>5. ProcInv'
    BY <1>2, <1>3 DEF IInv, ProcInv
  <1>6. CountInv'
    BY <1>1, <1>2, <1>3 DEF IInv, CountInv, Unspent
  <1>7. ApartInv'
    BY <1>0, <1>1, <1>2 DEF IInv, ApartInv
  <1>8. WriterInv'
    BY <1>3 DEF WriterInv
  <1>9. NoHalfImage'
    BY <1>0, <1>1, <1>2 DEF IInv, NoHalfImage
  <1>10. LoadsWhole'
    BY <1>0, <1>1, <1>2, <1>3 DEF LoadsWhole, d
  <1> QED
    BY <1>4, <1>5, <1>6, <1>7, <1>8, <1>9, <1>10 DEF IInv

LEMMA NextIInv == ASSUME AloneAtATime PROVE IInv /\ [Next]_vars => IInv'
  <1> SUFFICES ASSUME IInv, [Next]_vars PROVE IInv'
    OBVIOUS
  <1> USE DEF procVars, fileVars
  <1>1. CASE UNCHANGED vars
    BY <1>1 DEF vars, IInv, FileInv, ProcInv, CountInv, Unspent, ApartInv,
       WriterInv, NoHalfImage, LoadsWhole
  <1>2. CASE Next
    <2>1. PICK p \in Procs : Step(p) \/ Start(p) \/ IoError(p) \/ Crash(p)
      BY <1>2 DEF Next
    <2>2. Procs = {p}
      BY DEF AloneAtATime
    <2>3. /\ pc \in [Procs -> States] /\ dir[p] \in Dirs
          /\ starts \in [Procs -> 0..MaxStarts] /\ starts[p] \in Nat
          /\ handle \in [Procs -> 0..nodes] /\ 0 \in 0..nodes
      BY DEF IInv, ProcInv, CountInv
    <2>4. CASE Start(p)
      <3>1. /\ pc' = [pc EXCEPT ![p] = "find"]
            /\ starts' = [starts EXCEPT ![p] = starts[p] + 1]
            /\ starts[p] < MaxStarts /\ pc[p] \in {"down", "failed"}
            /\ UNCHANGED <<fileVars, handle, copied, flushed, loaded, errors>>
        BY <2>4 DEF Start, Goto
      <3>2. dir' \in [Procs -> Dirs]
        BY <2>4, DirFacts DEF Start, IInv, ProcInv
      <3>3. starts[p] + 1 \in 0..MaxStarts
        BY <2>3, <3>1, InflateAssumption
      <3>4. starts' \in [Procs -> 0..MaxStarts] /\ starts'[p] = starts[p] + 1
        BY <2>3, <3>1, <3>3
      <3>5. pc' \in [Procs -> States] /\ pc'[p] = "find"
        BY <2>3, <3>1 DEF States
      <3>6. ProcInv'
        BY <3>1, <3>2, <3>4, <3>5 DEF IInv, ProcInv
      <3>7. Unspent(p)' = 1 /\ Unspent(p) = 0
        BY <3>1, <3>5 DEF Unspent
      <3>8. Unspent(p)' + starts[p] <= Unspent(p) + starts'[p]
        BY <2>3, <3>4, <3>7
      <3> QED
        BY <2>2, <3>1, <3>6, <3>8, QuietStep DEF States
    <2>5. ASSUME NEW s \in States, pc' = [pc EXCEPT ![p] = s], UNCHANGED fileVars,
                 UNCHANGED <<dir, copied, flushed, starts>>,
                 handle' = handle \/ handle' = [handle EXCEPT ![p] = NoNode],
                 errors' \in 0..MaxErrors,
                 loaded' \in [Procs -> SUBSET Whole],
                 s \in {"find", "inflate", "create"}
                    => pc[p] \in {"find", "inflate", "create"},
                 s \notin {"copy", "rename"},
                 s = "load" => image[dir[p]] # NoNode,
                 s = "up" => loaded'[p] = Whole
          PROVE  IInv'
      <3>1. pc' \in [Procs -> States] /\ pc'[p] = s
        BY <2>3, <2>5
      <3>2. handle' \in [Procs -> 0..nodes]
        BY <2>3, <2>5 DEF NoNode
      <3>3. ProcInv'
        BY <2>5, <3>1, <3>2 DEF IInv, ProcInv
      <3>4. Unspent(p)' + starts[p] <= Unspent(p) + starts'[p]
        <4>1. /\ Unspent(p)' \in {0, 1} /\ Unspent(p) \in {0, 1}
              /\ Unspent(p)' = 1 => Unspent(p) = 1
              /\ starts'[p] = starts[p]
          BY <2>5, <3>1 DEF Unspent
        <4> QED
          BY <2>3, <4>1
      <3> QED
        BY <2>2, <2>5, <3>3, <3>4, QuietStep
    <2>6. errors \in 0..MaxErrors /\ loaded \in [Procs -> SUBSET Whole]
      BY DEF IInv, ProcInv
    <2>7. CASE Find(p)
      BY <2>5, <2>6, <2>7 DEF Find, Goto, States
    <2>8. CASE OpenArchive(p)
      BY <2>5, <2>6, <2>8 DEF OpenArchive, Goto, States
    <2>9. CASE Load(p)
      <3>1. data[image[dir[p]]] = Whole
        BY <2>3, <2>9 DEF Load, IInv, LoadsWhole, NoHalfImage
      <3>2. loaded' = [loaded EXCEPT ![p] = Whole]
        BY <2>9, <3>1 DEF Load
      <3>3. loaded' \in [Procs -> SUBSET Whole] /\ loaded'[p] = Whole
        BY <2>6, <3>2
      <3> QED
        BY <2>5, <2>6, <2>9, <3>3 DEF Load, Goto, States
    <2>10. CASE IoError(p)
      <3>1. errors + 1 \in 0..MaxErrors
        BY <2>6, <2>10, InflateAssumption DEF IoError
      <3> QED
        BY <2>5, <2>6, <2>10, <3>1 DEF IoError, Goto, States
    <2>11. CASE Crash(p)
      BY <2>5, <2>6, <2>11 DEF Crash, Goto, States
    <2> QED
      BY <2>1, <2>2, <2>4, <2>7, <2>8, <2>9, <2>10, <2>11, CreateStep,
         WriteStep, CopyStep, FlushStep, RenameStep DEF Step
  <1> QED
    BY <1>1, <1>2

LEMMA Always == ASSUME AloneAtATime PROVE Spec => []IInv
  <1>1. Init => IInv
    BY InitIInv
  <1>2. IInv /\ [Next]_vars => IInv'
    BY NextIInv
  <1> QED
    BY <1>1, <1>2, PTL DEF Spec

(* With one process at a time, no crash, I/O error or left-over .tmp of    *)
(* session.rs inflate_image ever leaves part of an image under the image's *)
(* name.                                                                   *)
THEOREM ImageWhole == ASSUME AloneAtATime PROVE Spec => []NoHalfImage
  <1>1. IInv => NoHalfImage
    BY DEF IInv
  <1> QED
    BY <1>1, Always, PTL

(* With one process at a time, a Session that is up has loaded the whole   *)
(* image: the file is not changed between the check of Session::new and    *)
(* the VM's reading it.                                                    *)
THEOREM VmLoadsWhole == ASSUME AloneAtATime PROVE Spec => []LoadsWhole
  <1>1. IInv => LoadsWhole
    BY DEF IInv
  <1> QED
    BY <1>1, Always, PTL
=============================================================================

-------------------------- MODULE HostInputProofs --------------------------
(***************************************************************************)
(* Proofs about HostInput, for any number of host threads and any bounds.  *)
(***************************************************************************)
EXTENDS HostInput, SequenceTheorems, TLAPS

LEMMA Bounds ==
    MaxFed \in Nat /\ MaxChunk \in Nat /\ MaxLine \in Nat /\ MaxCalls \in Nat
  BY HostInputAssumption

(* What a feed_input call appends is a sequence of input bytes.            *)
LEMMA ChunkIsSeq ==
  ASSUME NEW n \in Nat, NEW bs \in Chunks(n)
  PROVE  bs \in Seq(Input)
  <1>1. PICK k \in 0..n : bs \in [1..k -> Input]
    BY DEF Chunks
  <1>2. QED
    BY <1>1, SeqDef

(* Moving the head of q to the end of read leaves their concatenation.     *)
LEMMA MoveHead ==
  ASSUME NEW S, NEW s \in Seq(S), NEW t \in Seq(S), t # << >>
  PROVE  Append(s, Head(t)) \o Tail(t) = s \o t
  <1>1. Head(t) \in S /\ Tail(t) \in Seq(S)
    BY HeadTailProperties
  <1>2. t = <<Head(t)>> \o Tail(t)
    BY <1>1
  <1>3. Append(s, Head(t)) = s \o <<Head(t)>>
    BY <1>1, AppendIsConcat
  <1>4. QED
    BY <1>1, <1>2, <1>3, ConcatAssociative

(* Feeding bs extends what was fed and what is queued alike.               *)
LEMMA FeedBoth ==
  ASSUME NEW r \in Seq(Input), NEW s \in Seq(Input), NEW bs \in Seq(Input)
  PROVE  (r \o s) \o bs = r \o (s \o bs)
  BY ConcatAssociative

LEMMA InitType == Init => TypeOK
  <1> SUFFICES ASSUME Init PROVE TypeOK
    OBVIOUS
  <1>1. q \in Seq(Input)
    <2>1. CASE q = << >>
      BY <2>1, EmptySeq
    <2>2. CASE q \in Chunks(MaxFed)
      BY <2>2, ChunkIsSeq, Bounds
    <2>3. QED
      BY <2>1, <2>2 DEF Init
  <1>2. read \in Seq(Input) /\ line \in Seq(Bytes)
    BY EmptySeq DEF Init
  <1>3. QED
    <2>1. closed \in BOOLEAN
      BY DEF Init
    <2>2. /\ rpc \in ReaderPcs /\ want \in 0..MaxLine /\ calls \in 0..MaxCalls
          /\ fpc \in [Feeders -> {"idle", "notify"}]
          /\ fed = q
      BY Bounds DEF Init, ReaderPcs
    <2>3. QED
      BY <1>1, <1>2, <2>1, <2>2 DEF TypeOK

LEMMA NextType == TypeOK /\ [Next]_vars => TypeOK'
  <1> SUFFICES ASSUME TypeOK, [Next]_vars PROVE TypeOK'
    OBVIOUS
  <1> USE Bounds DEF TypeOK, ReaderPcs
  <1>1. CASE Key
    BY <1>1 DEF Key
  <1>2. ASSUME NEW n \in 0..MaxLine, Accept(n) PROVE TypeOK'
    BY <1>2 DEF Accept
  <1>3. CASE TakeByte
    <2>1. Head(q) \in Input /\ Tail(q) \in Seq(Input)
      BY <1>3, HeadTailProperties DEF TakeByte
    <2>2. read' \in Seq(Input)
      BY <1>3, <2>1, AppendProperties DEF TakeByte
    <2>3. CASE want > 1 /\ Head(q) # NL
      <3>1. line' \in Seq(Bytes)
        <4>1. Head(q) \in Bytes
          BY <2>1, <2>3 DEF Input
        <4>2. line' = Append(line, Head(q))
          BY <1>3, <2>3 DEF TakeByte
        <4>3. QED
          BY <4>1, <4>2, AppendProperties
      <3>2. QED
        BY <1>3, <2>1, <2>2, <2>3, <3>1 DEF TakeByte
    <2>4. CASE ~(want > 1 /\ Head(q) # NL)
      <3>1. line' \in Seq(Bytes)
        BY <1>3, <2>4, EmptySeq DEF TakeByte
      <3>2. QED
        BY <1>3, <2>1, <2>2, <2>4, <3>1 DEF TakeByte
    <2>5. QED
      BY <2>3, <2>4
  <1>4. CASE SeeEmpty
    BY <1>4 DEF SeeEmpty
  <1>5. CASE CheckClosed
    <2>1. line' \in Seq(Bytes)
      BY <1>5, EmptySeq DEF CheckClosed
    <2>2. QED
      BY <1>5, <2>1 DEF CheckClosed
  <1>6. CASE Sleep
    BY <1>6 DEF Sleep
  <1>7. CASE SpuriousWake
    BY <1>7 DEF SpuriousWake
  <1>8. ASSUME NEW f \in Feeders, Feed(f) PROVE TypeOK'
    <2>1. PICK bs \in Chunks(MaxChunk) :
             q' = q \o bs /\ fed' = fed \o bs
      BY <1>8 DEF Feed
    <2>2. bs \in Seq(Input)
      BY <2>1, ChunkIsSeq
    <2>3. q' \in Seq(Input) /\ fed' \in Seq(Input)
      BY <2>1, <2>2, ConcatProperties
    <2>4. QED
      BY <1>8, <2>3 DEF Feed, Woken
  <1>9. ASSUME NEW f \in Feeders, CloseStore(f) PROVE TypeOK'
    BY <1>9 DEF CloseStore
  <1>10. ASSUME NEW f \in Feeders, CloseNotify(f) PROVE TypeOK'
    BY <1>10 DEF CloseNotify, Woken
  <1>11. CASE UNCHANGED vars
    BY <1>11 DEF vars
  <1>12. QED
    BY <1>1, <1>2, <1>3, <1>4, <1>5, <1>6, <1>7, <1>8, <1>9, <1>10, <1>11
    DEF Next, Reader

(* Every variable of the input queue keeps its type, for any bounds.       *)
THEOREM TypeCorrect == Spec => []TypeOK
  BY InitType, NextType, PTL DEF Spec

-----------------------------------------------------------------------------
LEMMA InitOrder == Init => BytesInOrder
  <1> SUFFICES ASSUME Init PROVE BytesInOrder
    OBVIOUS
  <1>1. q \in Seq(Input)
    <2>1. CASE q = << >>
      BY <2>1, EmptySeq
    <2>2. CASE q \in Chunks(MaxFed)
      BY <2>2, ChunkIsSeq, Bounds
    <2>3. QED
      BY <2>1, <2>2 DEF Init
  <1>2. read \o q = fed
    BY <1>1, ConcatEmptySeq DEF Init
  <1>3. QED
    BY <1>2 DEF Init, BytesInOrder

LEMMA NextOrder == TypeOK /\ BytesInOrder /\ [Next]_vars => BytesInOrder'
  <1> SUFFICES ASSUME TypeOK, BytesInOrder, [Next]_vars PROVE BytesInOrder'
    OBVIOUS
  <1> USE DEF BytesInOrder
  <1>0. /\ q \in Seq(Input) /\ read \in Seq(Input) /\ fed \in Seq(Input)
        /\ line \in Seq(Bytes)
    BY DEF TypeOK
  <1>1. CASE Key
    BY <1>0, <1>1 DEF Key
  <1>2. ASSUME NEW n \in 0..MaxLine, Accept(n) PROVE BytesInOrder'
    BY <1>0, <1>2 DEF Accept
  <1>3. CASE TakeByte
    <2>1. Head(q) \in Input
      BY <1>0, <1>3, HeadTailProperties DEF TakeByte
    <2>2. read' \o q' = fed'
      BY <1>0, <1>3, MoveHead DEF TakeByte
    <2>3. CASE want > 1 /\ Head(q) # NL
      <3>1. line' = Append(line, Head(q)) /\ read' = Append(read, Head(q))
        BY <1>3, <2>3 DEF TakeByte
      <3>2. Head(q) \in Bytes
        BY <2>1, <2>3 DEF Input
      <3>3. Len(line') = Len(line) + 1 /\ Len(read') = Len(read) + 1
        BY <1>0, <2>1, <3>1, <3>2, AppendProperties
      <3>4. ASSUME NEW i \in 1..Len(line')
            PROVE  line'[i] = read'[Len(read') - Len(line') + i]
        <4>1. CASE i = Len(line) + 1
          BY <1>0, <2>1, <3>1, <3>2, <3>3, <4>1, AppendProperties
        <4>2. CASE i \in 1..Len(line)
          BY <1>0, <2>1, <3>1, <3>2, <3>3, <4>2, AppendProperties
        <4>3. QED
          BY <1>0, <3>3, <4>1, <4>2
      <3>5. QED
        BY <1>0, <2>2, <3>3, <3>4
    <2>4. CASE ~(want > 1 /\ Head(q) # NL)
      <3>1. line' = << >>
        BY <1>3, <2>4 DEF TakeByte
      <3>2. read' \in Seq(Input)
        BY <1>0, <1>3, <2>1, AppendProperties DEF TakeByte
      <3>3. QED
        BY <2>2, <3>1, <3>2
    <2>5. QED
      BY <2>3, <2>4
  <1>4. CASE SeeEmpty
    BY <1>4 DEF SeeEmpty
  <1>5. CASE CheckClosed
    <2>1. CASE closed
      <3>1. line' = << >> /\ UNCHANGED <<q, fed, read>>
        BY <1>5, <2>1 DEF CheckClosed
      <3>2. QED
        BY <1>0, <3>1
    <2>2. CASE ~closed
      BY <1>5, <2>2 DEF CheckClosed
    <2>3. QED
      BY <2>1, <2>2
  <1>6. CASE Sleep
    BY <1>6 DEF Sleep
  <1>7. CASE SpuriousWake
    BY <1>7 DEF SpuriousWake
  <1>8. ASSUME NEW f \in Feeders, Feed(f) PROVE BytesInOrder'
    <2>1. PICK bs \in Chunks(MaxChunk) :
             q' = q \o bs /\ fed' = fed \o bs
      BY <1>8 DEF Feed
    <2>2. bs \in Seq(Input)
      BY <2>1, ChunkIsSeq, Bounds
    <2>3. (read \o q) \o bs = read \o (q \o bs)
      BY ZenonT(30), <1>0, <2>2, FeedBoth
    <2>4. QED
      BY <1>8, <2>1, <2>3 DEF Feed
  <1>9. ASSUME NEW f \in Feeders, CloseStore(f) PROVE BytesInOrder'
    BY <1>9 DEF CloseStore
  <1>10. ASSUME NEW f \in Feeders, CloseNotify(f) PROVE BytesInOrder'
    BY <1>10 DEF CloseNotify
  <1>11. CASE UNCHANGED vars
    BY <1>11 DEF vars
  <1>12. QED
    BY <1>1, <1>2, <1>3, <1>4, <1>5, <1>6, <1>7, <1>8, <1>9, <1>10, <1>11
    DEF Next, Reader

(* However many host threads feed, and whatever mixture of KEY and ACCEPT  *)
(* reads: the bytes read and those still queued are the bytes fed, in the  *)
(* order of feeding, and a line in progress is the last bytes read.        *)
THEOREM InputInOrder == Spec => []BytesInOrder
  <1>1. Init => TypeOK /\ BytesInOrder
    BY InitType, InitOrder
  <1>2. (TypeOK /\ BytesInOrder) /\ [Next]_vars => (TypeOK /\ BytesInOrder)'
    BY NextType, NextOrder
  <1>3. QED
    BY <1>1, <1>2, PTL DEF Spec

-----------------------------------------------------------------------------
(* From the reader's look at an empty queue to the end of its wait nobody  *)
(* fills the queue without waking it.                                      *)
EmptyInv == rpc \in {"held", "towait", "wait"} => q = << >>

LEMMA InitEmpty == Init => EmptyInv
  BY DEF Init, EmptyInv

LEMMA NextEmpty == EmptyInv /\ [Next]_vars => EmptyInv'
  <1> SUFFICES ASSUME EmptyInv, [Next]_vars PROVE EmptyInv'
    OBVIOUS
  <1> USE DEF EmptyInv
  <1>1. CASE Key \/ \E n \in 0..MaxLine : Accept(n)
    BY <1>1 DEF Key, Accept
  <1>2. CASE Reader
    BY <1>2 DEF Reader, TakeByte, SeeEmpty, CheckClosed, Sleep
  <1>3. CASE SpuriousWake
    BY <1>3 DEF SpuriousWake
  <1>4. ASSUME NEW f \in Feeders, Feed(f) PROVE EmptyInv'
    BY <1>4 DEF Feed, QueueFree, Woken
  <1>5. ASSUME NEW f \in Feeders, CloseStore(f) \/ CloseNotify(f)
        PROVE  EmptyInv'
    BY <1>5 DEF CloseStore, CloseNotify, Woken
  <1>6. CASE UNCHANGED vars
    BY <1>6 DEF vars
  <1>7. QED
    BY <1>1, <1>2, <1>3, <1>4, <1>5, <1>6 DEF Next

(* The reader never sleeps on a queue that holds something: feed_input     *)
(* extends and notifies under the mutex the reader gives up only in its    *)
(* wait.                                                                   *)
THEOREM FeedsNotMissed == Spec => []NoLostFeed
  <1>1. EmptyInv => NoLostFeed
    BY DEF EmptyInv, NoLostFeed
  <1>2. QED
    BY <1>1, InitEmpty, NextEmpty, PTL DEF Spec

(* A read that ends early at end of input has left nothing unread.         *)
THEOREM EofIsDrained == Spec => EofMeansDrained
  <1>1. ASSUME TypeOK, BytesInOrder, EmptyInv, rpc = "held"
        PROVE  read = fed
    BY <1>1, ConcatEmptySeq DEF TypeOK, BytesInOrder, EmptyInv
  <1>2. TypeOK /\ BytesInOrder /\ EmptyInv /\ [Next]_vars
           => [rpc = "held" /\ rpc' = "idle" => read = fed]_vars
    BY <1>1
  <1>3. Spec => []EmptyInv
    BY InitEmpty, NextEmpty, PTL DEF Spec
  <1>4. QED
    BY <1>2, <1>3, TypeCorrect, InputInOrder, PTL DEF Spec, EofMeansDrained
=============================================================================

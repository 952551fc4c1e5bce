--------------------------- MODULE MailboxProofs ---------------------------
(***************************************************************************)
(* Proofs about Mailbox, for any consumers, windows, event kinds, channel  *)
(* capacity and number of events.                                          *)
(***************************************************************************)
EXTENDS Mailbox, SequenceTheorems, TLAPS

-----------------------------------------------------------------------------
(* The inductive invariant *)

Increasing(s) == \A i, j \in DOMAIN s : i < j => s[i] < s[j]

(* Consumer c has the Receiver locked.                                     *)
Receiving(c) == cpc[c] \in {"recv", "park"}

(* The Receiver is locked by one consumer at a time, and an event is in a  *)
(* hand exactly between its reception and its parking.                     *)
ReceiverInv ==
    /\ \A c, d \in Consumers : Receiving(c) /\ Receiving(d) => c = d
    /\ \A c \in Consumers : hand[c] # NoEvent <=> cpc[c] = "park"

(* Events wait in the order they were pushed: the stash, then the event in *)
(* a hand, then the channel.                                               *)
OrderInv ==
    /\ Increasing(chan) /\ Increasing(stash)
    /\ \A x \in ToSet(stash), y \in ToSet(chan) : x < y
    /\ \A c \in Consumers : hand[c] # NoEvent =>
          /\ \A x \in ToSet(stash) : x < hand[c]
          /\ \A y \in ToSet(chan) : hand[c] < y

(* Events that have left the mailbox.                                      *)
Gone(e) == Taken(e) \/ e \in dropped \/ e \in removed

(* Where an event can be: pushed events are in the mailbox or gone, never  *)
(* both, and the others are nowhere.                                       *)
PlaceInv ==
    \A e \in Events :
        /\ e > pushed => ~InChan(e) /\ ~InStash(e) /\ ~InHand(e) /\ ~Gone(e)
        /\ e <= pushed => (Gone(e) <=> ~InChan(e) /\ ~InStash(e) /\ ~InHand(e))

(* A call past its look at the stash wants nothing there, if no other      *)
(* thread can have parked anything since.                                  *)
MissInv ==
    \A c \in Consumers :
        cpc[c] \in {"lock", "recv", "park"} /\ Consumers = {c} =>
            \A e \in Events : InStash(e) \/ InHand(e) => ~Wants(c, e)

IInv == TypeOK /\ ReceiverInv /\ OrderInv /\ PlaceInv /\ MissInv

-----------------------------------------------------------------------------
(* Lemmas about the operators *)

LEMMA Bounds ==
    /\ MaxEvents \in Nat /\ Capacity \in Nat
    /\ Events = 1..MaxEvents /\ NoEvent \notin Events
  BY MailboxAssumption DEF Events, NoEvent

LEMMA Places ==
    \A e : /\ InChan(e) <=> e \in ToSet(chan)
           /\ InStash(e) <=> e \in ToSet(stash)
  BY DEF InChan, InStash, ToSet

(* A newer event at the end of an ordered queue.                           *)
LEMMA AppendFacts ==
    ASSUME NEW s \in Seq(Events), NEW e \in Events
    PROVE  /\ Append(s, e) \in Seq(Events)
           /\ Len(Append(s, e)) = Len(s) + 1
           /\ ToSet(Append(s, e)) = ToSet(s) \cup {e}
           /\ Increasing(s) /\ (\A x \in ToSet(s) : x < e)
                 => Increasing(Append(s, e))
  <1>1. /\ Append(s, e) \in Seq(Events) /\ Len(Append(s, e)) = Len(s) + 1
        /\ \A i \in 1..Len(s) : Append(s, e)[i] = s[i]
        /\ Append(s, e)[Len(s) + 1] = e
    BY AppendProperties
  <1>2. /\ DOMAIN s = 1..Len(s) /\ Len(s) \in Nat
        /\ DOMAIN Append(s, e) = 1..(Len(s) + 1)
    BY <1>1, LenProperties
  <1>3. 1..(Len(s) + 1) = 1..Len(s) \cup {Len(s) + 1}
    BY <1>2
  <1>4. ToSet(Append(s, e)) = ToSet(s) \cup {e}
    BY <1>1, <1>2, <1>3 DEF ToSet
  <1>5. ASSUME Increasing(s), \A x \in ToSet(s) : x < e
        PROVE  Increasing(Append(s, e))
    <2> SUFFICES ASSUME NEW i \in 1..(Len(s) + 1), NEW j \in 1..(Len(s) + 1), i < j
                 PROVE  Append(s, e)[i] < Append(s, e)[j]
      BY <1>2 DEF Increasing
    <2>1. i \in 1..Len(s) /\ Append(s, e)[i] = s[i] /\ s[i] \in ToSet(s)
      BY <1>1, <1>2 DEF ToSet
    <2>2. CASE j \in 1..Len(s)
      BY <2>1, <2>2, <1>1, <1>2, <1>5 DEF Increasing
    <2>3. CASE j = Len(s) + 1
      BY <2>1, <2>3, <1>1, <1>5
    <2>4. QED
      BY <1>3, <2>2, <2>3
  <1>6. QED
    BY <1>1, <1>4, <1>5

(* The head of an ordered queue is its oldest event.                       *)
LEMMA TailFacts ==
    ASSUME NEW s \in Seq(Events), s # << >>
    PROVE  /\ Head(s) \in Events /\ Head(s) \in ToSet(s)
           /\ Tail(s) \in Seq(Events) /\ Len(Tail(s)) = Len(s) - 1
           /\ ToSet(s) = ToSet(Tail(s)) \cup {Head(s)}
           /\ Increasing(s) => /\ Increasing(Tail(s))
                               /\ \A x \in ToSet(Tail(s)) : Head(s) < x
  <1> DEFINE t == Tail(s)
  <1>1. /\ Head(s) \in Events /\ t \in Seq(Events) /\ Len(t) = Len(s) - 1
        /\ \A i \in 1..Len(t) : t[i] = s[i + 1]
    BY HeadTailProperties
  <1>2. /\ DOMAIN s = 1..Len(s) /\ Len(s) \in Nat \ {0}
        /\ DOMAIN t = 1..(Len(s) - 1) /\ Head(s) = s[1]
    BY <1>1, LenProperties, EmptySeq
  <1> HIDE DEF t
  <1>3. ToSet(t) \subseteq ToSet(s) /\ Head(s) \in ToSet(s)
    <2>1. \A i \in 1..(Len(s) - 1) : i + 1 \in 1..Len(s) /\ t[i] = s[i + 1]
      BY <1>1, <1>2
    <2>2. QED
      BY SMTT(30), <2>1, <1>2 DEF ToSet
  <1>4. ASSUME NEW i \in 1..Len(s), i # 1
        PROVE  s[i] \in ToSet(t)
    <2>1. i - 1 \in 1..(Len(s) - 1) /\ t[i - 1] = s[(i - 1) + 1] /\ (i - 1) + 1 = i
      BY <1>1, <1>2, <1>4
    <2>2. QED
      BY <2>1, <1>2 DEF ToSet
  <1>5. ToSet(s) = ToSet(t) \cup {Head(s)}
    BY <1>2, <1>3, <1>4 DEF ToSet
  <1>6. ASSUME Increasing(s)
        PROVE  Increasing(t) /\ \A x \in ToSet(t) : Head(s) < x
    <2>1. ASSUME NEW i \in 1..(Len(s) - 1), NEW j \in 1..(Len(s) - 1), i < j
          PROVE  t[i] < t[j]
      <3>1. i + 1 \in 1..Len(s) /\ j + 1 \in 1..Len(s) /\ i + 1 < j + 1
        BY <2>1, <1>2
      <3>2. s[i + 1] < s[j + 1]
        BY <3>1, <1>2, <1>6 DEF Increasing
      <3>3. QED
        BY <3>2, <1>1, <1>2
    <2>2. ASSUME NEW i \in 1..(Len(s) - 1)
          PROVE  s[1] < t[i]
      <3>1. i + 1 \in 1..Len(s) /\ 1 < i + 1 /\ 1 \in 1..Len(s)
        BY <1>2
      <3>2. s[1] < s[i + 1]
        BY <3>1, <1>2, <1>6 DEF Increasing
      <3>3. QED
        BY <3>2, <1>1, <1>2
    <2>3. QED
      BY <1>2, <2>1, <2>2 DEF Increasing, ToSet
  <1>7. QED
    BY <1>1, <1>3, <1>5, <1>6 DEF t

(* What is left of a sequence without its i-th element.                    *)
LEMMA RemoveAtFacts ==
    ASSUME NEW S, NEW s \in Seq(S), NEW i \in 1..Len(s)
    PROVE  /\ RemoveAt(s, i) \in Seq(S)
           /\ Len(RemoveAt(s, i)) = Len(s) - 1
           /\ \A j \in 1..(Len(s) - 1) :
                 RemoveAt(s, i)[j] = IF j < i THEN s[j] ELSE s[j + 1]
  <1>1. Len(s) \in Nat /\ \A j \in 1..Len(s) : s[j] \in S
    BY LenProperties, ElementOfSeq
  <1> DEFINE a == SubSeq(s, 1, i - 1)  b == SubSeq(s, i + 1, Len(s))
  <1>2. /\ a \in Seq(S) /\ Len(a) = i - 1
        /\ \A j \in 1..(i - 1) : a[j] = s[j]
    BY <1>1
  <1>3. /\ b \in Seq(S) /\ Len(b) = Len(s) - i
        /\ \A j \in 1..(Len(s) - i) : b[j] = s[i + j]
    BY <1>1
  <1>4. RemoveAt(s, i) = a \o b
    BY DEF RemoveAt
  <1> HIDE DEF a, b
  <1>5. /\ a \o b \in Seq(S) /\ Len(a \o b) = Len(a) + Len(b)
        /\ \A j \in 1..(Len(a) + Len(b)) :
              (a \o b)[j] = IF j <= Len(a) THEN a[j] ELSE b[j - Len(a)]
    BY <1>2, <1>3, ConcatProperties, Zenon
  <1>6. Len(a) + Len(b) = Len(s) - 1
    BY <1>1, <1>2, <1>3
  <1>7. ASSUME NEW j \in 1..(Len(s) - 1), j < i
        PROVE  (a \o b)[j] = s[j]
    <2>1. j <= Len(a) /\ j \in 1..(i - 1)
      BY <1>1, <1>2, <1>7
    <2>2. QED
      BY <1>2, <1>5, <1>6, <2>1, Zenon
  <1>8. ASSUME NEW j \in 1..(Len(s) - 1), ~(j < i)
        PROVE  (a \o b)[j] = s[j + 1]
    <2>1. /\ ~(j <= Len(a)) /\ j - Len(a) \in 1..(Len(s) - i)
          /\ i + (j - Len(a)) = j + 1
      BY <1>1, <1>2, <1>8
    <2>2. b[j - Len(a)] = s[i + (j - Len(a))]
      BY <1>3, <2>1, Zenon
    <2>3. QED
      BY <1>5, <1>6, <2>1, <2>2, Zenon
  <1>9. QED
    BY <1>4, <1>5, <1>6, <1>7, <1>8, Zenon

(* An event taken out of an ordered queue: the others stay, in order.      *)
LEMMA RemoveFacts ==
    ASSUME NEW s \in Seq(Events), Increasing(s), NEW i \in DOMAIN s
    PROVE  /\ RemoveAt(s, i) \in Seq(Events)
           /\ ToSet(RemoveAt(s, i)) = ToSet(s) \ {s[i]}
           /\ Increasing(RemoveAt(s, i))
  <1>1. DOMAIN s = 1..Len(s) /\ Len(s) \in Nat /\ \A j \in 1..Len(s) : s[j] \in Nat
    BY Bounds, LenProperties
  <1> DEFINE r == RemoveAt(s, i)
  <1>2. /\ r \in Seq(Events) /\ Len(r) = Len(s) - 1
        /\ \A j \in 1..(Len(s) - 1) : r[j] = IF j < i THEN s[j] ELSE s[j + 1]
    BY <1>1, RemoveAtFacts
  <1> HIDE DEF r
  <1>3. DOMAIN r = 1..(Len(s) - 1)
    BY <1>2, LenProperties
  <1>4. ASSUME NEW j \in 1..Len(s), j # i
        PROVE  \E k \in 1..(Len(s) - 1) : r[k] = s[j]
    <2>1. CASE j < i
      <3>1. j \in 1..(Len(s) - 1)
        BY <1>1, <2>1
      <3>2. QED
        BY <1>2, <2>1, <3>1
    <2>2. CASE j > i
      <3>1. j - 1 \in 1..(Len(s) - 1) /\ ~(j - 1 < i) /\ (j - 1) + 1 = j
        BY <1>1, <2>2
      <3>2. QED
        BY <1>2, <3>1
    <2>3. QED
      BY <1>1, <1>4, <2>1, <2>2
  <1>5. ASSUME NEW k \in 1..(Len(s) - 1)
        PROVE  \E j \in 1..Len(s) : j # i /\ r[k] = s[j]
    <2>1. k \in 1..Len(s) /\ k + 1 \in 1..Len(s) /\ (~(k < i) => k + 1 # i)
      BY <1>1
    <2>2. QED
      BY <1>1, <1>2, <2>1
  <1>6. \A j \in 1..Len(s) : j # i => s[j] # s[i]
    BY <1>1 DEF Increasing
  <1>7. ToSet(r) = ToSet(s) \ {s[i]}
    <2>1. ToSet(r) \subseteq ToSet(s) \ {s[i]}
      BY <1>1, <1>3, <1>5, <1>6 DEF ToSet
    <2>2. ToSet(s) \ {s[i]} \subseteq ToSet(r)
      BY <1>1, <1>3, <1>4 DEF ToSet
    <2>3. QED
      BY <2>1, <2>2
  <1>8. ASSUME NEW j \in 1..(Len(s) - 1), NEW k \in 1..(Len(s) - 1), j < k
        PROVE  r[j] < r[k]
    <2> DEFINE At(n) == IF n < i THEN n ELSE n + 1
    <2>1. At(j) \in 1..Len(s) /\ At(k) \in 1..Len(s) /\ At(j) < At(k)
      BY <1>1, <1>8
    <2>2. r[j] = s[At(j)] /\ r[k] = s[At(k)]
      BY <1>2
    <2> HIDE DEF At
    <2>3. QED
      BY <1>1, <2>1, <2>2 DEF Increasing
  <1>9. QED
    BY <1>2, <1>3, <1>7, <1>8 DEF Increasing, r

(* A pane consumer never wants what it could not show to Forth, so what it *)
(* finds is returned and not put back: a call that found an event ends     *)
(* with it, and leaves the stash as the reception or the removal made it.  *)
LEMMA ReturnEnds ==
    ASSUME NEW c, NEW e, NEW st, Wants(c, e), Return(c, e)
    PROVE  /\ Leave(c) /\ taken' = taken \cup {<<target[c], e>>}
           /\ StashAfter(c, e, st) = st
  <1>1. target[c] # Main => ~DecodesToNone(e)
    BY DEF Wants, matches_target, DecodesToNone, GlobalKinds, InfraKinds, PaneKinds
  <1>2. QED
    BY <1>1 DEF Return, StashAfter

(* What has left the mailbox after a call returned event x.                *)
LEMMA OneMoreTaken ==
    ASSUME TypeOK, NEW c \in Consumers, NEW x \in Events,
           taken' = taken \cup {<<target[c], x>>}, UNCHANGED <<dropped, removed>>
    PROVE  \A e : Gone(e)' <=> Gone(e) \/ e = x
  <1>1. target[c] \in Targets
    BY DEF TypeOK
  <1>2. \A e : Taken(e)' <=> Taken(e) \/ e = x
    BY <1>1 DEF Taken
  <1>3. QED
    BY <1>2 DEF Gone

(* A step that touches no event.                                           *)
LEMMA EventsUntouched ==
    ASSUME PlaceInv, OrderInv, UNCHANGED <<chanVars, stash, hand, removed, taken>>
    PROVE  PlaceInv' /\ OrderInv'
  BY DEF PlaceInv, OrderInv, chanVars, InChan, InStash, InHand, Gone, Taken

-----------------------------------------------------------------------------
(* The steps *)

LEMMA InitIInv == Init => IInv
  <1> SUFFICES ASSUME Init PROVE IInv
    OBVIOUS
  <1>1. TypeOK
    BY Bounds, EmptySeq DEF Init, TypeOK, AllKinds, CallPcs, Targets
  <1>2. ToSet(chan) = {} /\ ToSet(stash) = {}
    BY DEF Init, ToSet
  <1>3. ReceiverInv /\ MissInv
    BY DEF Init, ReceiverInv, MissInv, Receiving
  <1>4. OrderInv
    BY <1>2 DEF Init, OrderInv, Increasing
  <1>5. PlaceInv
    BY <1>2, Places, Bounds DEF Init, PlaceInv, Gone, Taken, InHand
  <1>6. QED
    BY <1>1, <1>3, <1>4, <1>5 DEF IInv

LEMMA PushStep ==
    ASSUME IInv, NEW k \in Kinds, NEW w \in Children \cup {NoChild}, Push(k, w)
    PROVE  IInv'
  <1> DEFINE x == pushed + 1
  <1>1. /\ x \in Events /\ pushed \in Nat /\ pushed' = x
        /\ UNCHANGED <<stash, filter, callVars, removed, taken>>
    BY Bounds DEF Push, IInv, TypeOK
  <1> HIDE DEF x
  <1>2. \A e \in Events : e <= pushed => kindOf'[e] = kindOf[e] /\ childOf'[e] = childOf[e]
    BY <1>1, Bounds DEF Push, IInv, TypeOK
  <1>3. /\ kindOf' \in [Events -> AllKinds]
        /\ childOf' \in [Events -> Children \cup {NoChild}]
    BY MailboxAssumption DEF Push, IInv, TypeOK
  <1>4. \A y \in ToSet(chan) \cup ToSet(stash) : y \in Events /\ y <= pushed
    BY <1>1, Places, Bounds DEF IInv, PlaceInv, TypeOK, ToSet
  <1>5. \A c \in Consumers : hand[c] # NoEvent => hand[c] \in Events /\ hand[c] <= pushed
    BY <1>1, Bounds DEF IInv, PlaceInv, TypeOK, InHand
  <1>6. \/ chan' = Append(chan, x) /\ Len(chan) < Capacity /\ dropped' = dropped
        \/ chan' = chan /\ dropped' = dropped \cup {x}
    BY DEF Push, x
  <1>7. /\ Append(chan, x) \in Seq(Events) /\ Len(Append(chan, x)) = Len(chan) + 1
        /\ ToSet(Append(chan, x)) = ToSet(chan) \cup {x}
        /\ Increasing(Append(chan, x))
    <2>1. \A y \in ToSet(chan) : y < x
      BY <1>1, <1>4, Bounds DEF x
    <2>2. QED
      BY <1>1, <2>1, AppendFacts DEF IInv, TypeOK, OrderInv
  <1>8. TypeOK'
    <2>1. chan' \in Seq(Events) /\ Len(chan') <= Capacity
      <3>1. chan \in Seq(Events) /\ Len(chan) <= Capacity /\ Len(chan) \in Nat
        BY LenProperties DEF IInv, TypeOK
      <3>2. CASE chan' = Append(chan, x) /\ Len(chan) < Capacity
        BY <1>7, <3>1, <3>2, Bounds
      <3>3. QED
        BY <1>6, <3>1, <3>2
    <2>2. dropped' \subseteq Events
      BY <1>1, <1>6 DEF IInv, TypeOK
    <2>3. pushed' \in 0..MaxEvents
      BY <1>1, Bounds
    <2>4. QED
      BY <1>1, <1>3, <2>1, <2>2, <2>3 DEF IInv, TypeOK, callVars
  <1>9. ReceiverInv'
    BY <1>1 DEF IInv, ReceiverInv, Receiving, callVars
  <1>10. OrderInv'
    <2>1. \A y \in ToSet(chan) \cup ToSet(stash) : y < x
      BY <1>1, <1>4, Bounds DEF x
    <2>2. \A c \in Consumers : hand[c] # NoEvent => hand[c] < x
      BY <1>1, <1>5, Bounds DEF x
    <2>3. QED
      BY <1>1, <1>6, <1>7, <2>1, <2>2 DEF IInv, OrderInv, callVars
  <1>11. PlaceInv'
    <2>1. (\A e : (InChan(e) <=> e \in ToSet(chan)) /\ (InStash(e) <=> e \in ToSet(stash)))'
      BY DEF InChan, InStash, ToSet
    <2>2. \A e : /\ InStash(e)' <=> InStash(e)
                 /\ InHand(e)' <=> InHand(e)
                 /\ Taken(e)' <=> Taken(e)
      BY <1>1 DEF InStash, InHand, Taken, callVars
    <2>3. ~InChan(x) /\ ~InStash(x) /\ ~InHand(x) /\ ~Gone(x)
      BY <1>1 DEF IInv, PlaceInv, x
    <2>4. \A e \in Events : (e <= x <=> e <= pushed \/ e = x) /\ (e > x => e > pushed)
                            /\ (e > x => e # x)
      BY <1>1, Bounds DEF x
    <2>5. CASE chan' = Append(chan, x) /\ dropped' = dropped
      <3>1. \A e : (InChan(e)' <=> InChan(e) \/ e = x) /\ (Gone(e)' <=> Gone(e))
        BY <1>1, <1>7, <2>1, <2>2, <2>5, Places DEF Gone
      <3>2. QED
        BY <1>1, <2>2, <2>3, <2>4, <3>1 DEF IInv, PlaceInv
    <2>6. CASE chan' = chan /\ dropped' = dropped \cup {x}
      <3>1. \A e : (InChan(e)' <=> InChan(e)) /\ (Gone(e)' <=> Gone(e) \/ e = x)
        BY <1>1, <2>1, <2>2, <2>6, Places DEF Gone
      <3>2. QED
        BY <1>1, <2>2, <2>3, <2>4, <3>1 DEF IInv, PlaceInv
    <2>7. QED
      BY <1>6, <2>5, <2>6
  <1>12. MissInv'
    <2>1. \A c \in Consumers, e \in Events : e <= pushed => (Wants(c, e)' <=> Wants(c, e))
      BY <1>1, <1>2 DEF Wants, matches_filter, matches_target, callVars
    <2>2. \A e \in Events : InStash(e) \/ InHand(e) => e <= pushed
      BY <1>1, Bounds DEF IInv, PlaceInv
    <2>3. \A e : (InStash(e)' <=> InStash(e)) /\ (InHand(e)' <=> InHand(e))
      BY <1>1 DEF InStash, InHand, callVars
    <2>4. QED
      BY <1>1, <2>1, <2>2, <2>3 DEF IInv, MissInv, callVars
  <1>13. QED
    BY <1>8, <1>9, <1>10, <1>11, <1>12 DEF IInv

(* A step of a call that touches no event: the call starts, copies the     *)
(* filter, finds nothing in the stash, locks the Receiver or times out.    *)
LEMMA QuietStep ==
    ASSUME IInv, NEW c \in Consumers,
           \/ \E u \in Targets, d \in BOOLEAN : Call(c, u, d)
           \/ Snapshot(c) \/ ScanMiss(c) \/ LockRx(c) \/ TimeOut(c)
    PROVE  IInv'
  <1> USE DEF IInv
  <1>1. UNCHANGED <<chanVars, stash, hand, removed, taken, filter>>
    BY DEF Call, Snapshot, ScanMiss, LockRx, TimeOut
  <1>2. TypeOK'
    <2>1. CASE \E u \in Targets, d \in BOOLEAN : Call(c, u, d)
      BY <2>1 DEF TypeOK, Call, chanVars, CallPcs
    <2>2. CASE Snapshot(c)
      BY <2>2 DEF TypeOK, Snapshot, chanVars, CallPcs
    <2>3. CASE ScanMiss(c) \/ LockRx(c)
      BY <2>3 DEF TypeOK, ScanMiss, LockRx, chanVars, CallPcs
    <2>4. CASE TimeOut(c)
      BY <2>4 DEF TypeOK, TimeOut, Leave, chanVars, CallPcs, Targets
    <2>5. QED
      BY <2>1, <2>2, <2>3, <2>4
  <1>3. ReceiverInv'
    BY <1>1 DEF ReceiverInv, Receiving, TypeOK, Call, Snapshot, ScanMiss, LockRx,
                TimeOut, Leave
  <1>4. PlaceInv' /\ OrderInv'
    BY <1>1, EventsUntouched
  <1>5. MissInv'
    <2> SUFFICES ASSUME Consumers = {c}, cpc'[c] \in {"lock", "recv", "park"},
                        NEW e \in Events, InStash(e)' \/ InHand(e)'
                 PROVE  ~Wants(c, e)'
      BY DEF MissInv
    <2>1. ScanMiss(c) \/ LockRx(c)
      BY DEF TypeOK, Call, Snapshot, TimeOut, Leave
    <2>2. (InStash(e) \/ InHand(e)) /\ (Wants(c, e)' <=> Wants(c, e))
      BY <1>1, <2>1 DEF InStash, InHand, Wants, matches_filter, matches_target,
                        chanVars, ScanMiss, LockRx
    <2>3. CASE ScanMiss(c)
      <3>1. ~InHand(e)
        BY <2>3, Bounds DEF ScanMiss, InHand, ReceiverInv
      <3>2. InStash(e) => ~Wants(c, e)
        BY <2>3 DEF ScanMiss, Wanted, InStash
      <3>3. QED
        BY <2>2, <3>1, <3>2
    <2>4. CASE LockRx(c)
      BY <2>2, <2>4 DEF LockRx, MissInv
    <2>5. QED
      BY <2>1, <2>3, <2>4
  <1>6. QED
    BY <1>2, <1>3, <1>4, <1>5

(* A call that ends with event x keeps the other calls as they are.        *)
LEMMA LeaveStep ==
    ASSUME TypeOK, ReceiverInv, NEW c \in Consumers, NEW x \in Events,
           cpc[c] # "park", Leave(c), UNCHANGED hand,
           taken' = taken \cup {<<target[c], x>>}
    PROVE  /\ cpc' \in [Consumers -> CallPcs] /\ target' \in [Consumers -> Targets]
           /\ snap' \in [Consumers -> SUBSET Children]
           /\ timed' \in [Consumers -> BOOLEAN]
           /\ taken' \subseteq (Targets \X Events)
           /\ ReceiverInv'
           /\ cpc'[c] = "idle"
  BY DEF TypeOK, ReceiverInv, Receiving, Leave, CallPcs, Targets

LEMMA ScanHitStep ==
    ASSUME IInv, NEW c \in Consumers, ScanHit(c)
    PROVE  IInv'
  <1> USE DEF IInv
  <1>1. PICK i \in Wanted(c) : /\ Return(c, stash[i])
                               /\ stash' = StashAfter(c, stash[i], RemoveAt(stash, i))
    BY DEF ScanHit
  <1> DEFINE x == stash[i]
  <1>2. i \in DOMAIN stash /\ x \in Events /\ Wants(c, x)
    BY DEF Wanted, TypeOK
  <1>3. /\ Leave(c) /\ taken' = taken \cup {<<target[c], x>>}
        /\ stash' = RemoveAt(stash, i)
    BY <1>1, <1>2, ReturnEnds
  <1>4. /\ stash' \in Seq(Events) /\ ToSet(stash') = ToSet(stash) \ {x}
        /\ Increasing(stash')
    BY <1>2, <1>3, RemoveFacts DEF TypeOK, OrderInv
  <1>5. x \in ToSet(stash)
    BY <1>2 DEF ToSet
  <1>6. UNCHANGED <<chanVars, filter, hand, removed>> /\ cpc[c] = "scan"
    BY DEF ScanHit
  <1> HIDE DEF x
  <1>7. ReceiverInv' /\ cpc'[c] = "idle" /\ TypeOK'
    BY <1>2, <1>3, <1>4, <1>6, LeaveStep DEF TypeOK, chanVars
  <1>8. OrderInv'
    BY <1>4, <1>6 DEF OrderInv, chanVars
  <1>9. PlaceInv'
    <2>1. (\A e : (InChan(e) <=> e \in ToSet(chan)) /\ (InStash(e) <=> e \in ToSet(stash)))'
      BY DEF InChan, InStash, ToSet
    <2>2. \A e : Gone(e)' <=> Gone(e) \/ e = x
      BY <1>2, <1>3, <1>6, OneMoreTaken DEF chanVars
    <2>3. ~InChan(x) /\ ~InHand(x)
      BY <1>2, <1>5, Bounds, Places DEF OrderInv, InHand, TypeOK
    <2>4. x <= pushed
      BY <1>2, <1>5, Bounds, Places DEF PlaceInv, TypeOK
    <2>5. \A e : /\ InChan(e)' <=> InChan(e)
                 /\ InHand(e)' <=> InHand(e)
                 /\ InStash(e)' <=> InStash(e) /\ e # x
      BY <1>4, <1>6, <2>1, Places DEF InHand, chanVars
    <2>6. QED
      BY <1>2, <1>6, <2>2, <2>3, <2>4, <2>5, Bounds DEF PlaceInv, chanVars, TypeOK
  <1>10. MissInv'
    BY <1>7 DEF MissInv
  <1>11. QED
    BY <1>7, <1>8, <1>9, <1>10

LEMMA RecvHitStep ==
    ASSUME IInv, NEW c \in Consumers, RecvHit(c)
    PROVE  IInv'
  <1> USE DEF IInv
  <1> DEFINE x == Head(chan)
  <1>1. /\ chan # << >> /\ chan' = Tail(chan) /\ cpc[c] = "recv"
        /\ UNCHANGED <<kindOf, childOf, pushed, dropped, filter, hand, removed>>
    BY DEF RecvHit
  <1>2. /\ Leave(c) /\ taken' = taken \cup {<<target[c], x>>} /\ stash' = stash
    BY ReturnEnds DEF RecvHit
  <1>3. /\ x \in Events /\ x \in ToSet(chan) /\ chan' \in Seq(Events)
        /\ Len(chan') = Len(chan) - 1
        /\ ToSet(chan) = ToSet(chan') \cup {x} /\ Increasing(chan')
        /\ \A y \in ToSet(chan') : x < y
    BY <1>1, TailFacts DEF TypeOK, OrderInv
  <1> HIDE DEF x
  <1>4. Len(chan') <= Capacity
    BY <1>3, Bounds, LenProperties DEF TypeOK
  <1>5. ReceiverInv' /\ cpc'[c] = "idle" /\ TypeOK'
    BY <1>1, <1>2, <1>3, <1>4, LeaveStep DEF TypeOK
  <1>6. OrderInv'
    BY <1>1, <1>2, <1>3 DEF OrderInv
  <1>7. PlaceInv'
    <2>1. (\A e : (InChan(e) <=> e \in ToSet(chan)) /\ (InStash(e) <=> e \in ToSet(stash)))'
      BY DEF InChan, InStash, ToSet
    <2>2. \A e : Gone(e)' <=> Gone(e) \/ e = x
      BY <1>1, <1>2, <1>3, OneMoreTaken
    <2>3. ~InStash(x) /\ ~InHand(x) /\ x \notin ToSet(chan')
      <3>1. x \in Nat
        BY <1>3, Bounds
      <3>2. x \notin ToSet(stash)
        BY <1>3, <3>1 DEF OrderInv
      <3>3. ~InHand(x)
        BY <1>3, <3>1, Bounds DEF OrderInv, InHand
      <3>4. x \notin ToSet(chan')
        BY <1>3, <3>1
      <3>5. QED
        BY <3>2, <3>3, <3>4, Places
    <2>4. x <= pushed
      BY <1>3, Bounds, Places DEF PlaceInv, TypeOK
    <2>5. \A e : /\ InStash(e)' <=> InStash(e)
                 /\ InHand(e)' <=> InHand(e)
                 /\ InChan(e)' <=> InChan(e) /\ e # x
      BY <1>1, <1>2, <1>3, <2>1, <2>3, Places DEF InHand
    <2>6. QED
      BY <1>1, <1>3, <2>2, <2>3, <2>4, <2>5, Bounds DEF PlaceInv, TypeOK
  <1>8. MissInv'
    BY <1>5 DEF MissInv
  <1>9. QED
    BY <1>5, <1>6, <1>7, <1>8

LEMMA RecvMissStep ==
    ASSUME IInv, NEW c \in Consumers, RecvMiss(c)
    PROVE  IInv'
  <1> USE DEF IInv
  <1> DEFINE x == Head(chan)
  <1>1. /\ chan # << >> /\ chan' = Tail(chan) /\ cpc[c] = "recv" /\ ~Wants(c, x)
        /\ hand' = [hand EXCEPT ![c] = x] /\ cpc' = [cpc EXCEPT ![c] = "park"]
        /\ UNCHANGED <<kindOf, childOf, pushed, dropped, stash, filter, target,
                       snap, timed, removed, taken>>
    BY DEF RecvMiss
  <1>2. /\ x \in Events /\ x \in ToSet(chan) /\ chan' \in Seq(Events)
        /\ Len(chan') = Len(chan) - 1
        /\ ToSet(chan) = ToSet(chan') \cup {x} /\ Increasing(chan')
        /\ \A y \in ToSet(chan') : x < y
    BY <1>1, TailFacts DEF TypeOK, OrderInv
  <1> HIDE DEF x
  <1>3. Len(chan') <= Capacity
    BY <1>2, Bounds, LenProperties DEF TypeOK
  <1>4. /\ hand'[c] = x /\ cpc'[c] = "park" /\ hand[c] = NoEvent
        /\ \A d \in Consumers \ {c} : hand'[d] = hand[d] /\ cpc'[d] = cpc[d]
        /\ \A d \in Consumers \ {c} : hand[d] = NoEvent
    BY <1>1 DEF TypeOK, ReceiverInv, Receiving
  <1>5. TypeOK'
    BY <1>1, <1>2, <1>3 DEF TypeOK, CallPcs
  <1>6. ReceiverInv'
    BY <1>1, <1>2, <1>4, Bounds DEF ReceiverInv, Receiving, TypeOK
  <1>7. OrderInv'
    BY <1>1, <1>2, <1>4 DEF OrderInv
  <1>8. PlaceInv'
    <2>1. (\A e : (InChan(e) <=> e \in ToSet(chan)) /\ (InStash(e) <=> e \in ToSet(stash)))'
      BY DEF InChan, InStash, ToSet
    <2>2. ~InStash(x) /\ ~InHand(x) /\ x \notin ToSet(chan')
      <3>1. x \in Nat
        BY <1>2, Bounds
      <3>2. x \notin ToSet(stash)
        BY <1>2, <3>1 DEF OrderInv
      <3>3. ~InHand(x)
        BY <1>2, <3>1, Bounds DEF OrderInv, InHand
      <3>4. x \notin ToSet(chan')
        BY <1>2, <3>1
      <3>5. QED
        BY <3>2, <3>3, <3>4, Places
    <2>3. \A e \in Events : InHand(e)' <=> e = x
      BY <1>4, Bounds DEF InHand
    <2>4. \A e \in Events : ~InHand(e)
      BY <1>4, Bounds DEF InHand
    <2>5. \A e : /\ InStash(e)' <=> InStash(e)
                 /\ Gone(e)' <=> Gone(e)
                 /\ InChan(e)' <=> InChan(e) /\ e # x
      BY <1>1, <1>2, <2>1, <2>2, Places DEF Gone, Taken
    <2>6. InChan(x)
      BY <1>2, Places
    <2>7. QED
      BY <1>1, <1>2, <2>2, <2>3, <2>4, <2>5, <2>6 DEF PlaceInv
  <1>9. MissInv'
    <2> SUFFICES ASSUME Consumers = {c}, NEW e \in Events, InStash(e)' \/ InHand(e)'
                 PROVE  ~Wants(c, e)'
      BY DEF MissInv
    <2>1. Wants(c, e)' <=> Wants(c, e)
      BY <1>1 DEF Wants, matches_filter, matches_target
    <2>2. InStash(e) \/ e = x
      BY <1>1, <1>4 DEF InStash, InHand
    <2>3. QED
      BY <1>1, <2>1, <2>2 DEF MissInv
  <1>10. QED
    BY <1>5, <1>6, <1>7, <1>8, <1>9

LEMMA ParkStep ==
    ASSUME IInv, NEW c \in Consumers, Park(c)
    PROVE  IInv'
  <1> USE DEF IInv
  <1> DEFINE x == hand[c]
  <1>1. /\ cpc[c] = "park" /\ stash' = Append(stash, x)
        /\ hand' = [hand EXCEPT ![c] = NoEvent] /\ cpc' = [cpc EXCEPT ![c] = "recv"]
        /\ UNCHANGED <<chanVars, filter, target, snap, timed, removed, taken>>
    BY DEF Park
  <1>2. x \in Events /\ x # NoEvent
    BY <1>1 DEF ReceiverInv, TypeOK
  <1>3. /\ stash' \in Seq(Events) /\ ToSet(stash') = ToSet(stash) \cup {x}
        /\ Increasing(stash')
    BY <1>1, <1>2, AppendFacts DEF TypeOK, OrderInv
  <1>4. /\ hand'[c] = NoEvent /\ cpc'[c] = "recv"
        /\ \A d \in Consumers \ {c} : hand'[d] = hand[d] /\ cpc'[d] = cpc[d]
        /\ \A d \in Consumers \ {c} : hand[d] = NoEvent
    BY <1>1 DEF TypeOK, ReceiverInv, Receiving
  <1>5. TypeOK'
    BY <1>1, <1>3 DEF TypeOK, CallPcs, chanVars
  <1>6. ReceiverInv'
    BY <1>1, <1>4 DEF ReceiverInv, Receiving, TypeOK
  <1>7. OrderInv'
    BY <1>1, <1>2, <1>3, <1>4 DEF OrderInv, chanVars
  <1>8. PlaceInv'
    <2>1. (\A e : (InChan(e) <=> e \in ToSet(chan)) /\ (InStash(e) <=> e \in ToSet(stash)))'
      BY DEF InChan, InStash, ToSet
    <2>2. \A e \in Events : ~InHand(e)'
      BY <1>4, Bounds DEF InHand
    <2>3. \A e \in Events : InHand(e) <=> e = x
      BY <1>4, Bounds DEF InHand
    <2>4. \A e : /\ InStash(e)' <=> InStash(e) \/ e = x
                 /\ Gone(e)' <=> Gone(e)
                 /\ InChan(e)' <=> InChan(e)
      BY <1>1, <1>3, <2>1, Places DEF Gone, Taken, chanVars
    <2>5. QED
      BY <1>1, <1>2, <2>2, <2>3, <2>4 DEF PlaceInv, chanVars
  <1>9. MissInv'
    <2> SUFFICES ASSUME Consumers = {c}, NEW e \in Events, InStash(e)' \/ InHand(e)'
                 PROVE  ~Wants(c, e)'
      BY DEF MissInv
    <2>1. Wants(c, e)' <=> Wants(c, e)
      BY <1>1 DEF Wants, matches_filter, matches_target, chanVars
    <2>2. (\A f : InStash(f) <=> f \in ToSet(stash))'
      BY DEF InStash, ToSet
    <2>3. InStash(e) \/ e = x
      BY <1>3, <1>4, <2>2, Bounds, Places DEF InHand
    <2>4. InStash(e) \/ InHand(e)
      BY <2>3 DEF InHand
    <2>5. QED
      BY <1>1, <2>1, <2>4 DEF MissInv
  <1>10. QED
    BY <1>5, <1>6, <1>7, <1>8, <1>9

(* Between two calls: the filter changes, or the stash is discarded.       *)
LEMMA BetweenStep ==
    ASSUME IInv, NEW c \in Consumers, SetFilter(c) \/ Discard(c)
    PROVE  IInv'
  <1> USE DEF IInv
  <1>1. CASE SetFilter(c)
    <2>1. TypeOK'
      BY <1>1 DEF SetFilter, TypeOK, chanVars, callVars
    <2>2. ReceiverInv' /\ MissInv'
      BY <1>1 DEF SetFilter, ReceiverInv, Receiving, MissInv, InStash, InHand, Wants,
                  matches_filter, matches_target, chanVars, callVars
    <2>3. PlaceInv' /\ OrderInv'
      BY <1>1, EventsUntouched DEF SetFilter, callVars
    <2>4. QED
      BY <2>1, <2>2, <2>3
  <1>2. CASE Discard(c)
    <2>1. /\ removed' = removed \cup ToSet(stash) /\ stash' = << >> /\ cpc[c] = "idle"
          /\ UNCHANGED <<chanVars, filter, callVars, taken>>
      BY <1>2 DEF Discard
    <2>2. ToSet(stash) \subseteq Events /\ ToSet(stash') = {} /\ Increasing(stash')
      BY <2>1 DEF TypeOK, ToSet, Increasing
    <2>3. TypeOK'
      BY <2>1, <2>2, EmptySeq DEF TypeOK, chanVars, callVars
    <2>4. ReceiverInv'
      BY <2>1 DEF ReceiverInv, Receiving, callVars
    <2>5. OrderInv'
      BY <2>1, <2>2 DEF OrderInv, chanVars, callVars
    <2>6. PlaceInv'
      <3>1. (\A e : (InChan(e) <=> e \in ToSet(chan)) /\ (InStash(e) <=> e \in ToSet(stash)))'
        BY DEF InChan, InStash, ToSet
      <3>2. \A e : /\ InHand(e)' <=> InHand(e)
                   /\ InChan(e)' <=> InChan(e)
                   /\ ~InStash(e)'
                   /\ Gone(e)' <=> Gone(e) \/ InStash(e)
        BY <2>1, <2>2, <3>1, Places DEF InHand, Gone, Taken, chanVars, callVars
      <3>3. \A e \in Events : InStash(e) => ~InChan(e) /\ ~InHand(e)
        BY Bounds, Places DEF OrderInv, InHand, TypeOK
      <3>4. \A e \in Events : InStash(e) => ~(e > pushed)
        BY DEF PlaceInv
      <3>5. QED
        BY <2>1, <3>2, <3>3, <3>4 DEF PlaceInv, chanVars
    <2>7. MissInv'
      BY <2>1 DEF MissInv, callVars
    <2>8. QED
      BY <2>3, <2>4, <2>5, <2>6, <2>7
  <1>3. QED
    BY <1>1, <1>2

LEMMA StutterStep == IInv /\ UNCHANGED vars => IInv'
  <1> SUFFICES ASSUME IInv, UNCHANGED vars PROVE IInv'
    OBVIOUS
  <1> USE DEF IInv, vars, callVars, chanVars
  <1>1. TypeOK' /\ ReceiverInv'
    BY DEF TypeOK, ReceiverInv, Receiving
  <1>2. PlaceInv' /\ OrderInv'
    BY EventsUntouched
  <1>3. MissInv'
    BY DEF MissInv, InStash, InHand, Wants, matches_filter, matches_target
  <1>4. QED
    BY <1>1, <1>2, <1>3

LEMMA IInvStep == IInv /\ [Next]_vars => IInv'
  <1> SUFFICES ASSUME IInv, Next PROVE IInv'
    BY StutterStep
  <1>1. CASE Input
    BY <1>1, PushStep DEF Input
  <1>2. ASSUME NEW c \in Consumers, Step(c) PROVE IInv'
    BY <1>2, QuietStep, ScanHitStep, RecvHitStep, RecvMissStep, ParkStep DEF Step
  <1>3. ASSUME NEW c \in Consumers, IdeCall(c) \/ Call(c, Main, FALSE) PROVE IInv'
    <2>1. \E u \in Targets, d \in BOOLEAN : Call(c, u, d)
      BY <1>3, MailboxAssumption DEF IdeCall, Targets
    <2>2. QED
      BY <2>1, QuietStep
  <1>4. ASSUME NEW c \in Consumers, SetFilter(c) \/ Discard(c) PROVE IInv'
    BY <1>4, BetweenStep
  <1>5. QED
    BY <1>1, <1>2, <1>3, <1>4 DEF Next

LEMMA AlwaysIInv == Spec => []IInv
  BY InitIInv, IInvStep, PTL DEF Spec

-----------------------------------------------------------------------------
(* Theorems *)

(* Type correctness of channels.rs' channel, stash, filter and calls.      *)
THEOREM TypesKept == Spec => []TypeOK
  <1>1. IInv => TypeOK
    BY DEF IInv
  <1>2. QED
    BY <1>1, AlwaysIInv, PTL

(* However consumers, filters and deadlines interleave in next_event and   *)
(* next_event_for, a pushed event is in the mailbox or accounted for.      *)
THEOREM EventsKept == Spec => []NothingLost
  <1>1. IInv => NothingLost
    <2> SUFFICES ASSUME IInv, NEW e \in 1..pushed
                 PROVE  \/ InChan(e) \/ InStash(e) \/ InHand(e)
                        \/ Taken(e) \/ e \in dropped \/ e \in removed
      BY DEF NothingLost
    <2>1. e \in Events /\ e <= pushed
      BY Bounds DEF IInv, TypeOK
    <2>2. QED
      BY <2>1 DEF IInv, PlaceInv, Gone
  <1>2. QED
    BY <1>1, AlwaysIInv, PTL

(* next_event and next_event_for hand out an event once: what was returned,*)
(* dropped or discarded is nowhere in the mailbox, and nothing is in it    *)
(* twice.                                                                  *)
THEOREM EventsOnce == Spec => []NothingTwice
  <1>1. IInv => NothingTwice
    <2> SUFFICES ASSUME IInv, NEW e \in 1..pushed
                 PROVE  /\ Taken(e) \/ e \in dropped \/ e \in removed
                              => ~InChan(e) /\ ~InStash(e) /\ ~InHand(e)
                        /\ InChan(e) => ~InStash(e) /\ ~InHand(e)
                        /\ InStash(e) => ~InHand(e)
                        /\ \A i, j \in DOMAIN stash :
                              stash[i] = e /\ stash[j] = e => i = j
      BY DEF NothingTwice
    <2>1. e \in Events /\ e <= pushed
      BY Bounds DEF IInv, TypeOK
    <2>2. Gone(e) => ~InChan(e) /\ ~InStash(e) /\ ~InHand(e)
      BY <2>1 DEF IInv, PlaceInv
    <2>3. InChan(e) => ~InStash(e)
      BY <2>1, Bounds, Places DEF IInv, OrderInv
    <2>4. InHand(e) => ~InStash(e) /\ ~InChan(e)
      BY <2>1, Bounds, Places DEF IInv, OrderInv, InHand
    <2>5. ASSUME NEW i \in DOMAIN stash, NEW j \in DOMAIN stash,
                 stash[i] = e, stash[j] = e
          PROVE  i = j
      <3>1. i \in Nat /\ j \in Nat
        BY LenProperties DEF IInv, TypeOK
      <3>2. QED
        BY <2>1, <2>5, <3>1, Bounds DEF IInv, OrderInv, Increasing
    <2>6. QED
      BY <2>2, <2>3, <2>4, <2>5 DEF Gone
  <1>2. QED
    BY <1>1, AlwaysIInv, PTL

(* The actions in which a call returns an event.                           *)
LEMMA TakenByHit ==
    ASSUME Next, taken' # taken
    PROVE  \E d \in Consumers : ScanHit(d) \/ RecvHit(d)
  <1>1. ~Input
    BY DEF Input, Push
  <1>2. PICK d \in Consumers : \/ Step(d) \/ IdeCall(d) \/ Call(d, Main, FALSE)
                               \/ SetFilter(d) \/ Discard(d)
    BY <1>1 DEF Next
  <1>3. QED
    BY <1>2 DEF Step, IdeCall, Call, SetFilter, Discard, Snapshot, ScanMiss, LockRx,
                RecvMiss, Park, TimeOut

(* What OldestFirst says of one step.                                      *)
TakesOldest(c, r) ==
    \A e \in 1..(r[2] - 1) :
        /\ InChan(e) => ~Wants(c, e)
        /\ InStash(e) /\ (cpc[c] = "scan" \/ Consumers = {c}) => ~Wants(c, e)

LEMMA HitIsOldest ==
    ASSUME IInv, NEW c \in Consumers, ScanHit(c) \/ RecvHit(c),
           NEW r \in taken' \ taken
    PROVE  TakesOldest(c, r)
  <1> USE DEF IInv
  <1>1. CASE ScanHit(c)
    <2>1. PICK i \in Wanted(c) : /\ \A j \in Wanted(c) : i <= j
                                 /\ Return(c, stash[i])
      BY <1>1 DEF ScanHit
    <2>2. i \in DOMAIN stash /\ stash[i] \in Events /\ Wants(c, stash[i])
      BY DEF Wanted, TypeOK
    <2>3. r = <<target[c], stash[i]>>
      <3>1. taken' = taken \cup {<<target[c], stash[i]>>}
        BY <2>1, <2>2, ReturnEnds, Zenon
      <3>2. QED
        BY <3>1
    <2> SUFFICES ASSUME NEW e \in 1..(stash[i] - 1)
                 PROVE  ~InChan(e) /\ (InStash(e) => ~Wants(c, e))
      BY <2>3 DEF TakesOldest
    <2>4. e \in Nat /\ stash[i] \in Nat /\ e < stash[i] /\ stash[i] \in ToSet(stash)
      BY <2>2, Bounds DEF ToSet
    <2>5. ~InChan(e)
      BY <2>4, Places DEF OrderInv
    <2>6. ASSUME NEW j \in DOMAIN stash, stash[j] = e, Wants(c, e)
          PROVE  FALSE
      <3>1. j \in Wanted(c) /\ i \in Nat /\ j \in Nat
        BY <2>2, <2>6, LenProperties DEF Wanted, TypeOK
      <3>2. i < j
        BY <2>1, <2>4, <2>6, <3>1
      <3>3. QED
        BY <2>2, <2>4, <2>6, <3>2 DEF OrderInv, Increasing
    <2>7. QED
      BY <2>5, <2>6 DEF InStash
  <1>2. CASE RecvHit(c)
    <2>1. /\ chan # << >> /\ cpc[c] = "recv"
          /\ Return(c, Head(chan)) /\ Wants(c, Head(chan))
      BY <1>2 DEF RecvHit
    <2>2. /\ Head(chan) \in Events
          /\ ToSet(chan) = ToSet(Tail(chan)) \cup {Head(chan)}
          /\ \A y \in ToSet(Tail(chan)) : Head(chan) < y
      BY <2>1, TailFacts DEF TypeOK, OrderInv
    <2>3. r = <<target[c], Head(chan)>>
      BY <2>1, ReturnEnds
    <2> SUFFICES ASSUME NEW e \in 1..(Head(chan) - 1)
                 PROVE  /\ ~InChan(e)
                        /\ InStash(e) /\ Consumers = {c} => ~Wants(c, e)
      BY <2>1, <2>3 DEF TakesOldest
    <2>4. e \in Nat /\ Head(chan) \in Nat /\ e < Head(chan)
      BY <2>2, Bounds
    <2>5. e \notin ToSet(chan)
      BY <2>2, <2>4
    <2>6. InStash(e) => e \in Events
      BY DEF InStash, TypeOK
    <2>7. QED
      BY <2>1, <2>5, <2>6, Places DEF MissInv
  <1>3. QED
    BY <1>1, <1>2

(* Every call of next_event and next_event_for returns the oldest event it *)
(* wants, among those it can see (channels.rs, the two scans).             *)
THEOREM OldestReturned == Spec => OldestFirst
  <1>1. ASSUME IInv, Next, NEW c \in Consumers, NEW r \in taken' \ taken,
               cpc[c] # "idle", cpc'[c] = "idle"
        PROVE  TakesOldest(c, r)
    <2>1. PICK d \in Consumers : ScanHit(d) \/ RecvHit(d)
      BY <1>1, TakenByHit
    <2>2. cpc' \in {[cpc EXCEPT ![d] = "idle"], [cpc EXCEPT ![d] = "scan"]}
      BY <2>1 DEF ScanHit, RecvHit, Return, Leave
    <2>3. c = d
      BY <1>1, <2>2 DEF IInv, TypeOK
    <2>4. QED
      BY <1>1, <2>1, <2>3, HitIsOldest
  <1>2. IInv /\ [Next]_vars =>
           [\A c \in Consumers : \A r \in taken' \ taken :
               cpc[c] # "idle" /\ cpc'[c] = "idle" =>
                  \A e \in 1..(r[2] - 1) :
                     /\ InChan(e) => ~Wants(c, e)
                     /\ InStash(e) /\ (cpc[c] = "scan" \/ Consumers = {c})
                           => ~Wants(c, e)]_vars
    BY <1>1 DEF TakesOldest
  <1>3. QED
    BY <1>2, AlwaysIInv, PTL DEF Spec, OldestFirst

(* The IDE's use of the mailbox, fairness and all, is a use of the mailbox:*)
(* what is proved of Spec holds there.                                     *)
THEOREM IdeIsMailbox == IdeSpec => Spec
  <1>1. IdeNext => Next
    BY DEF IdeNext, Next
  <1>2. QED
    BY <1>1, PTL DEF IdeSpec, Spec

=============================================================================

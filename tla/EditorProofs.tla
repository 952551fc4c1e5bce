---------------------------- MODULE EditorProofs ----------------------------
(***************************************************************************)
(* Proofs about Editor and the rope it edits (RopeEditor), for every       *)
(* alphabet, history cap, leaf size and bound, and for every set of files  *)
(* and clipboards.                                                         *)
(*                                                                         *)
(* The first part, up to FlagsStayTrue, is about the editor over any       *)
(* buffer that keeps its text (BufferAssumption).  The second part shows   *)
(* of Rope that it is such a buffer (RopeKeepsText), that editing leaves   *)
(* it balanced (EditingKeepsBalance) and that it is read as the text it    *)
(* holds (RopeActsAsText).  Ropes are of any depth: what holds of all of   *)
(* them is shown of the lowest rope it could fail for (RopeInduction).     *)
(***************************************************************************)
EXTENDS RopeEditor, SequenceTheorems, FiniteSetTheorems, WellFoundedInduction, TLAPS

(* do_insert takes a selection out before it looks at what it is to put    *)
(* in: pasting what decodes to nothing over a selection changes the text   *)
(* and keeps the redo history, whose entries no longer fit it.             *)
PastesText == \A c \in Clips : Pasted(c) # << >>

-----------------------------------------------------------------------------
(* The inductive invariant                                                 *)

Entries == [kind : {"Inserted", "Deleted"}, start : Nat, text : Seq(Chars),
            cursor_before : Nat, cursor_after : Nat]
Places == {<<t, p>> : t \in Texts, p \in 0..MaxLen}
Steps == [from : Places, to : Places]

(* Of the texts before and after the edits of an entry, the one that has   *)
(* the text of the entry and the one that lacks it.                        *)
With(e, l) == IF e.kind = "Inserted" THEN l.to[1] ELSE l.from[1]
Lacking(e, l) == IF e.kind = "Inserted" THEN l.from[1] ELSE l.to[1]

(* What an entry of a history has to do with its place in the log.         *)
Fits(e, l) ==
    /\ e.start \in 0..Len(Lacking(e, l))
    /\ With(e, l) = Spliced(Lacking(e, l), e.start, e.text)
    /\ e.cursor_before = l.from[2] /\ l.from[2] <= Len(l.from[1])
    /\ e.cursor_after = l.to[2] /\ l.to[2] <= Len(l.to[1])

Paired(u, l) ==
    /\ u \in Seq(Entries) /\ l \in Seq(Steps) /\ Len(u) = Len(l)
    /\ \A i \in 1..Len(u) : Fits(u[i], l[i])

(* The edits of the undo history lead one after the other to the text t,   *)
(* those of the redo history away from it.                                 *)
LeadsTo(l, t) ==
    \A i \in 1..Len(l) : l[i].to[1] = IF i = Len(l) THEN t ELSE l[i + 1].from[1]
LeadsFrom(l, t) ==
    \A i \in 1..Len(l) : l[i].from[1] = IF i = Len(l) THEN t ELSE l[i + 1].to[1]

Undoes(u, l, t) == Paired(u, l) /\ LeadsTo(l, t)
Redoes(u, l, t) == Paired(u, l) /\ LeadsFrom(l, t)

Shown == to_slice(buffer)

TypeInv ==
    /\ buffer \in Buffers
    /\ cursor \in 0..Len(Shown) /\ anchor \in 0..Len(Shown)

HistoryInv == Undoes(undo, log, Shown) /\ Redoes(redo, undone, Shown)

FileInv == ~dirty /\ file # NoFile => Decode(file) = Shown

IInv == TypeInv /\ HistoryInv

-----------------------------------------------------------------------------
(* Texts, put together and taken apart                                     *)

LEMMA TextsAre == Texts = {t \in Seq(Chars) : Len(t) <= MaxLen}
  <1>1. ASSUME NEW t \in Texts PROVE t \in Seq(Chars) /\ Len(t) <= MaxLen
    <2>1. PICK n \in 0..MaxLen : t \in [1..n -> Chars]
      BY EditorAssumption DEF Texts
    <2>2. n \in Nat /\ t \in Seq(Chars)
      BY <2>1, EditorAssumption, SeqDef
    <2>3. Len(t) = n
      BY <2>1, <2>2, LenProperties
    <2> QED
      BY <2>1, <2>2, <2>3
  <1>2. ASSUME NEW t \in Seq(Chars), Len(t) <= MaxLen PROVE t \in Texts
    <2>1. Len(t) \in 0..MaxLen /\ t \in [1..Len(t) -> Chars]
      BY <1>2, EditorAssumption, LenProperties
    <2> QED
      BY <2>1 DEF Texts
  <1> QED
    BY <1>1, <1>2

(* A part of a text, with its characters.                                  *)
LEMMA PartIs ==
    ASSUME NEW C, NEW t \in Seq(C), NEW p \in 0..Len(t), NEW q \in p..Len(t)
    PROVE  /\ SubSeq(t, p + 1, q) \in Seq(C)
           /\ Len(SubSeq(t, p + 1, q)) = q - p
           /\ \A i \in 1..(q - p) : SubSeq(t, p + 1, q)[i] = t[p + i]
  <1>1. Len(t) \in Nat /\ p \in Nat /\ q \in Nat
    BY LenProperties
  <1>2. \A i \in (p + 1)..q : t[i] \in C
    BY <1>1, ElementOfSeq
  <1>3. /\ SubSeq(t, p + 1, q) \in Seq(C)
        /\ Len(SubSeq(t, p + 1, q)) = IF p + 1 <= q THEN q - (p + 1) + 1 ELSE 0
        /\ \A i \in 1..(q - (p + 1) + 1) : SubSeq(t, p + 1, q)[i] = t[p + 1 + i - 1]
    BY <1>1, <1>2, SubSeqProperties
  <1>4. ASSUME NEW i \in 1..(q - p) PROVE SubSeq(t, p + 1, q)[i] = t[p + i]
    <2>1. i \in 1..(q - (p + 1) + 1) /\ p + 1 + i - 1 = p + i
      BY <1>1
    <2>2. SubSeq(t, p + 1, q)[i] = t[p + 1 + i - 1]
      BY <2>1, <1>3
    <2> QED
      BY <2>1, <2>2
  <1> QED
    BY <1>1, <1>3, <1>4

(* Three pieces one after the other.                                       *)
LEMMA ThreeParts ==
    ASSUME NEW C, NEW a \in Seq(C), NEW b \in Seq(C), NEW c \in Seq(C)
    PROVE  /\ a \o b \o c \in Seq(C)
           /\ Len(a \o b \o c) = Len(a) + Len(b) + Len(c)
           /\ \A i \in 1..(Len(a) + Len(b) + Len(c)) :
                 (a \o b \o c)[i] = IF i <= Len(a) THEN a[i]
                                    ELSE IF i <= Len(a) + Len(b) THEN b[i - Len(a)]
                                    ELSE c[i - Len(a) - Len(b)]
  <1>1. Len(a) \in Nat /\ Len(b) \in Nat /\ Len(c) \in Nat
    BY LenProperties
  <1>2. /\ a \o b \in Seq(C) /\ Len(a \o b) = Len(a) + Len(b)
        /\ \A i \in 1..(Len(a) + Len(b)) :
              (a \o b)[i] = IF i <= Len(a) THEN a[i] ELSE b[i - Len(a)]
    BY ConcatProperties
  <1>3. /\ a \o b \o c \in Seq(C) /\ Len(a \o b \o c) = Len(a \o b) + Len(c)
        /\ \A i \in 1..(Len(a \o b) + Len(c)) :
              (a \o b \o c)[i] = IF i <= Len(a \o b) THEN (a \o b)[i]
                                 ELSE c[i - Len(a \o b)]
    BY <1>2, ConcatProperties
  <1>4. ASSUME NEW i \in 1..(Len(a) + Len(b) + Len(c))
        PROVE  (a \o b \o c)[i] = IF i <= Len(a) THEN a[i]
                                  ELSE IF i <= Len(a) + Len(b) THEN b[i - Len(a)]
                                  ELSE c[i - Len(a) - Len(b)]
    <2>1. (a \o b \o c)[i] = IF i <= Len(a) + Len(b) THEN (a \o b)[i]
                             ELSE c[i - (Len(a) + Len(b))]
      BY <1>2, <1>3
    <2>2. i - (Len(a) + Len(b)) = i - Len(a) - Len(b)
      BY <1>1
    <2>3. i <= Len(a) + Len(b) => i \in 1..(Len(a) + Len(b))
      BY <1>1
    <2>4. i <= Len(a) => i <= Len(a) + Len(b)
      BY <1>1
    <2> QED
      BY <1>2, <2>1, <2>2, <2>3, <2>4
  <1> QED
    BY <1>1, <1>2, <1>3, <1>4

LEMMA SplicedIs ==
    ASSUME NEW C, NEW t \in Seq(C), NEW p \in 0..Len(t), NEW x \in Seq(C)
    PROVE  /\ Spliced(t, p, x) \in Seq(C)
           /\ Len(Spliced(t, p, x)) = Len(t) + Len(x)
           /\ \A i \in 1..(Len(t) + Len(x)) :
                 Spliced(t, p, x)[i] = IF i <= p THEN t[i]
                                       ELSE IF i <= p + Len(x) THEN x[i - p]
                                       ELSE t[i - Len(x)]
  <1> DEFINE a == SubSeq(t, 1, p)
             c == SubSeq(t, p + 1, Len(t))
  <1>1. Len(t) \in Nat /\ Len(x) \in Nat /\ p \in Nat
    BY LenProperties
  <1>2. /\ a \in Seq(C) /\ Len(a) = p
        /\ \A i \in 1..p : a[i] = t[i]
    <2>1. 0 \in 0..Len(t) /\ p \in 0..Len(t) /\ 0 + 1 = 1 /\ p - 0 = p
      BY <1>1
    <2>2. /\ SubSeq(t, 0 + 1, p) \in Seq(C) /\ Len(SubSeq(t, 0 + 1, p)) = p - 0
          /\ \A i \in 1..(p - 0) : SubSeq(t, 0 + 1, p)[i] = t[0 + i]
      BY <2>1, PartIs
    <2> QED
      BY <1>1, <2>1, <2>2
  <1>3. /\ c \in Seq(C) /\ Len(c) = Len(t) - p
        /\ \A i \in 1..(Len(t) - p) : c[i] = t[p + i]
    <2>1. Len(t) \in p..Len(t)
      BY <1>1
    <2> QED
      BY <2>1, PartIs
  <1>4. Spliced(t, p, x) = a \o x \o c
    BY DEF Spliced
  <1> HIDE DEF a, c
  <1>5. /\ a \o x \o c \in Seq(C)
        /\ Len(a \o x \o c) = Len(a) + Len(x) + Len(c)
        /\ \A i \in 1..(Len(a) + Len(x) + Len(c)) :
              (a \o x \o c)[i] = IF i <= Len(a) THEN a[i]
                                 ELSE IF i <= Len(a) + Len(x) THEN x[i - Len(a)]
                                 ELSE c[i - Len(a) - Len(x)]
    <2>1. a \in Seq(C) /\ x \in Seq(C) /\ c \in Seq(C)
      BY <1>2, <1>3
    <2> QED
      BY <2>1, ThreeParts, SMTT(30)
  <1>6. Len(a) + Len(x) + Len(c) = Len(t) + Len(x)
    BY <1>1, <1>2, <1>3
  <1>7. ASSUME NEW i \in 1..(Len(t) + Len(x))
        PROVE  (a \o x \o c)[i] = IF i <= p THEN t[i]
                                  ELSE IF i <= p + Len(x) THEN x[i - p]
                                  ELSE t[i - Len(x)]
    <2>1. (a \o x \o c)[i] = IF i <= p THEN a[i]
                             ELSE IF i <= p + Len(x) THEN x[i - p]
                             ELSE c[i - p - Len(x)]
      BY <1>5, <1>6, <1>2
    <2>2. i <= p => i \in 1..p
      BY <1>1
    <2>3. ~(i <= p + Len(x)) => /\ i - p - Len(x) \in 1..(Len(t) - p)
                                /\ p + (i - p - Len(x)) = i - Len(x)
      BY <1>1
    <2>4. ~(i <= p + Len(x)) => c[i - p - Len(x)] = t[i - Len(x)]
      BY <2>3, <1>3
    <2> QED
      BY <2>1, <2>2, <2>4, <1>2
  <1> QED
    BY <1>4, <1>5, <1>6, <1>7

LEMMA CutIs ==
    ASSUME NEW C, NEW t \in Seq(C), NEW p \in 0..Len(t), NEW n \in 0..(Len(t) - p)
    PROVE  /\ Cut(t, p, n) \in Seq(C)
           /\ Len(Cut(t, p, n)) = Len(t) - n
           /\ \A i \in 1..(Len(t) - n) :
                 Cut(t, p, n)[i] = IF i <= p THEN t[i] ELSE t[i + n]
  <1> DEFINE a == SubSeq(t, 1, p)
             c == SubSeq(t, p + n + 1, Len(t))
  <1>1. Len(t) \in Nat /\ n \in Nat /\ p \in Nat
    BY LenProperties
  <1>2. /\ a \in Seq(C) /\ Len(a) = p
        /\ \A i \in 1..p : a[i] = t[i]
    <2>1. 0 \in 0..Len(t) /\ p \in 0..Len(t) /\ 0 + 1 = 1 /\ p - 0 = p
      BY <1>1
    <2>2. /\ SubSeq(t, 0 + 1, p) \in Seq(C) /\ Len(SubSeq(t, 0 + 1, p)) = p - 0
          /\ \A i \in 1..(p - 0) : SubSeq(t, 0 + 1, p)[i] = t[0 + i]
      BY <2>1, PartIs
    <2> QED
      BY <1>1, <2>1, <2>2
  <1>3. /\ c \in Seq(C) /\ Len(c) = Len(t) - (p + n)
        /\ \A i \in 1..(Len(t) - (p + n)) : c[i] = t[p + n + i]
    <2>1. p + n \in 0..Len(t) /\ Len(t) \in (p + n)..Len(t)
      BY <1>1
    <2> QED
      BY <2>1, PartIs
  <1>4. Cut(t, p, n) = a \o c
    BY DEF Cut
  <1> HIDE DEF a, c
  <1>5. /\ a \o c \in Seq(C)
        /\ Len(a \o c) = Len(a) + Len(c)
        /\ \A i \in 1..(Len(a) + Len(c)) :
              (a \o c)[i] = IF i <= Len(a) THEN a[i] ELSE c[i - Len(a)]
    BY <1>2, <1>3, ConcatProperties
  <1>6. Len(a) + Len(c) = Len(t) - n
    BY <1>1, <1>2, <1>3
  <1>7. ASSUME NEW i \in 1..(Len(t) - n)
        PROVE  (a \o c)[i] = IF i <= p THEN t[i] ELSE t[i + n]
    <2>1. (a \o c)[i] = IF i <= p THEN a[i] ELSE c[i - p]
      BY <1>5, <1>6, <1>2
    <2>2. i <= p => i \in 1..p
      BY <1>1
    <2>3. ~(i <= p) => /\ i - p \in 1..(Len(t) - (p + n))
                       /\ p + n + (i - p) = i + n
      BY <1>1
    <2>4. ~(i <= p) => c[i - p] = t[i + n]
      BY <2>3, <1>3
    <2> QED
      BY <2>1, <2>2, <2>4, <1>2
  <1> QED
    BY <1>4, <1>5, <1>6, <1>7

(* Taking out what was put in.                                             *)
LEMMA CutSpliced ==
    ASSUME NEW C, NEW t \in Seq(C), NEW p \in 0..Len(t), NEW x \in Seq(C)
    PROVE  Cut(Spliced(t, p, x), p, Len(x)) = t
  <1> DEFINE s == Spliced(t, p, x)
  <1>1. Len(t) \in Nat /\ Len(x) \in Nat /\ p \in Nat
    BY LenProperties
  <1>2. /\ s \in Seq(C) /\ Len(s) = Len(t) + Len(x)
        /\ \A i \in 1..(Len(t) + Len(x)) :
              s[i] = IF i <= p THEN t[i]
                     ELSE IF i <= p + Len(x) THEN x[i - p] ELSE t[i - Len(x)]
    BY SplicedIs
  <1> HIDE DEF s
  <1>3. /\ Cut(s, p, Len(x)) \in Seq(C)
        /\ Len(Cut(s, p, Len(x))) = Len(s) - Len(x)
        /\ \A i \in 1..(Len(s) - Len(x)) :
              Cut(s, p, Len(x))[i] = IF i <= p THEN s[i] ELSE s[i + Len(x)]
    <2>1. p \in 0..Len(s) /\ Len(x) \in 0..(Len(s) - p)
      BY <1>1, <1>2
    <2> QED
      BY <1>2, <2>1, CutIs
  <1>4. Len(s) - Len(x) = Len(t)
    BY <1>1, <1>2
  <1>5. ASSUME NEW i \in 1..Len(t) PROVE Cut(s, p, Len(x))[i] = t[i]
    <2>1. Cut(s, p, Len(x))[i] = IF i <= p THEN s[i] ELSE s[i + Len(x)]
      BY <1>3, <1>4
    <2>2. /\ i \in 1..(Len(t) + Len(x)) /\ i + Len(x) \in 1..(Len(t) + Len(x))
          /\ (i + Len(x)) - Len(x) = i
          /\ ~(i <= p) => ~(i + Len(x) <= p) /\ ~(i + Len(x) <= p + Len(x))
      BY <1>1
    <2>3. i <= p => s[i] = t[i]
      BY <1>2, <2>2
    <2>4. ~(i <= p) => s[i + Len(x)] = t[i]
      BY <1>2, <2>2
    <2> QED
      BY <2>1, <2>3, <2>4
  <1>6. Cut(s, p, Len(x)) = t
    BY <1>3, <1>4, <1>5, SeqEqual
  <1> QED
    BY <1>6 DEF s

(* Putting back what was taken out.                                        *)
LEMMA SplicedCut ==
    ASSUME NEW C, NEW t \in Seq(C), NEW p \in 0..Len(t), NEW q \in p..Len(t)
    PROVE  Spliced(Cut(t, p, q - p), p, SubSeq(t, p + 1, q)) = t
  <1> DEFINE x == SubSeq(t, p + 1, q)
             s == Cut(t, p, q - p)
  <1>1. Len(t) \in Nat /\ p \in Nat /\ q \in Nat /\ q - p \in 0..(Len(t) - p)
    BY LenProperties
  <1>2. /\ x \in Seq(C) /\ Len(x) = q - p
        /\ \A i \in 1..(q - p) : x[i] = t[p + i]
    BY PartIs
  <1>3. /\ s \in Seq(C) /\ Len(s) = Len(t) - (q - p)
        /\ \A i \in 1..(Len(t) - (q - p)) :
              s[i] = IF i <= p THEN t[i] ELSE t[i + (q - p)]
    BY <1>1, CutIs
  <1> HIDE DEF x, s
  <1>4. /\ Spliced(s, p, x) \in Seq(C)
        /\ Len(Spliced(s, p, x)) = Len(s) + Len(x)
        /\ \A i \in 1..(Len(s) + Len(x)) :
              Spliced(s, p, x)[i] = IF i <= p THEN s[i]
                                    ELSE IF i <= p + Len(x) THEN x[i - p]
                                    ELSE s[i - Len(x)]
    <2>1. p \in 0..Len(s)
      BY <1>1, <1>3
    <2>2. s \in Seq(C) /\ x \in Seq(C)
      BY <1>2, <1>3
    <2> QED
      BY <2>1, <2>2, SplicedIs, SMTT(30)
  <1>5. Len(s) + Len(x) = Len(t)
    <2>1. Len(x) = q - p /\ Len(s) = Len(t) - (q - p)
      BY <1>2, <1>3
    <2> QED
      BY ONLY <1>1, <2>1
  <1>6. ASSUME NEW i \in 1..Len(t) PROVE Spliced(s, p, x)[i] = t[i]
    <2>1. Spliced(s, p, x)[i] = IF i <= p THEN s[i]
                                ELSE IF i <= q THEN x[i - p] ELSE s[i - (q - p)]
      <3>1. p + Len(x) = q
        BY <1>1, <1>2
      <3> QED
        BY <3>1, <1>2, <1>4, <1>5
    <2>2. CASE i <= p
      <3>1. i \in 1..(Len(t) - (q - p))
        BY <1>1, <2>2
      <3> QED
        BY <2>1, <2>2, <3>1, <1>3
    <2>3. CASE ~(i <= p) /\ i <= q
      <3>1. i - p \in 1..(q - p) /\ p + (i - p) = i
        BY <1>1, <2>3
      <3>2. x[i - p] = t[p + (i - p)]
        BY <3>1, <1>2
      <3> QED
        BY <2>1, <2>3, <3>1, <3>2
    <2>4. CASE ~(i <= p) /\ ~(i <= q)
      <3>1. /\ i - (q - p) \in 1..(Len(t) - (q - p)) /\ ~(i - (q - p) <= p)
            /\ (i - (q - p)) + (q - p) = i
        BY <1>1, <2>4
      <3>2. s[i - (q - p)] = t[(i - (q - p)) + (q - p)]
        BY <3>1, <1>3
      <3> QED
        BY <2>1, <2>4, <3>1, <3>2
    <2> QED
      BY <2>2, <2>3, <2>4
  <1>7. Spliced(s, p, x) = t
    BY <1>4, <1>5, <1>6, SeqEqual
  <1> QED
    BY <1>7 DEF s, x

(* Putting more in behind what was put in: how entries are coalesced.      *)
LEMMA SplicedTwice ==
    ASSUME NEW C, NEW t \in Seq(C), NEW p \in 0..Len(t), NEW x \in Seq(C),
           NEW y \in Seq(C)
    PROVE  Spliced(Spliced(t, p, x), p + Len(x), y) = Spliced(t, p, x \o y)
  <1> DEFINE s == Spliced(t, p, x)
             xy == x \o y
  <1>1. Len(t) \in Nat /\ Len(x) \in Nat /\ Len(y) \in Nat /\ p \in Nat
    BY LenProperties
  <1>2. /\ s \in Seq(C) /\ Len(s) = Len(t) + Len(x)
        /\ \A i \in 1..(Len(t) + Len(x)) :
              s[i] = IF i <= p THEN t[i]
                     ELSE IF i <= p + Len(x) THEN x[i - p] ELSE t[i - Len(x)]
    BY SplicedIs
  <1>3. /\ xy \in Seq(C) /\ Len(xy) = Len(x) + Len(y)
        /\ \A i \in 1..(Len(x) + Len(y)) :
              xy[i] = IF i <= Len(x) THEN x[i] ELSE y[i - Len(x)]
    BY ConcatProperties
  <1> HIDE DEF s, xy
  <1> DEFINE a == Spliced(s, p + Len(x), y)
             b == Spliced(t, p, xy)
             n == Len(t) + Len(x) + Len(y)
  <1>4. /\ a \in Seq(C) /\ Len(a) = Len(s) + Len(y)
        /\ \A i \in 1..(Len(s) + Len(y)) :
              a[i] = IF i <= p + Len(x) THEN s[i]
                     ELSE IF i <= p + Len(x) + Len(y) THEN y[i - (p + Len(x))]
                     ELSE s[i - Len(y)]
    <2>1. p + Len(x) \in 0..Len(s)
      BY <1>1, <1>2
    <2>2. s \in Seq(C) /\ y \in Seq(C)
      BY <1>2
    <2>3. ASSUME NEW z \in 0..Len(s)
          PROVE  /\ Spliced(s, z, y) \in Seq(C)
                 /\ Len(Spliced(s, z, y)) = Len(s) + Len(y)
                 /\ \A i \in 1..(Len(s) + Len(y)) :
                       Spliced(s, z, y)[i] = IF i <= z THEN s[i]
                                             ELSE IF i <= z + Len(y) THEN y[i - z]
                                             ELSE s[i - Len(y)]
      <3>1. z \in 0..Len(s)
        OBVIOUS
      <3> QED
        BY ONLY <2>2, <3>1, SplicedIs, SMTT(30)
    <2> QED
      BY <2>1, <2>3
  <1>5. /\ b \in Seq(C) /\ Len(b) = Len(t) + Len(xy)
        /\ \A i \in 1..(Len(t) + Len(xy)) :
              b[i] = IF i <= p THEN t[i]
                     ELSE IF i <= p + Len(xy) THEN xy[i - p] ELSE t[i - Len(xy)]
    BY <1>3, SplicedIs, ZenonT(60)
  <1> HIDE DEF a, b
  <1>6. n = Len(a) /\ n = Len(b) /\ n \in Nat
    BY <1>1, <1>2, <1>3, <1>4, <1>5
  <1>7. ASSUME NEW i \in 1..n PROVE a[i] = b[i]
    <2>1. a[i] = IF i <= p + Len(x) THEN s[i]
                 ELSE IF i <= p + Len(x) + Len(y) THEN y[i - (p + Len(x))]
                 ELSE s[i - Len(y)]
      BY <1>4, <1>6
    <2>2. b[i] = IF i <= p THEN t[i]
                 ELSE IF i <= p + Len(xy) THEN xy[i - p] ELSE t[i - Len(xy)]
      BY <1>5, <1>6
    <2>3. p + Len(xy) = p + Len(x) + Len(y) /\ i - Len(xy) = i - Len(x) - Len(y)
      BY <1>1, <1>3
    <2>4. CASE i <= p
      <3>1. i \in 1..(Len(t) + Len(x)) /\ i <= p + Len(x)
        BY <1>1, <2>4
      <3> QED
        BY <2>1, <2>2, <2>4, <3>1, <1>2
    <2>5. CASE ~(i <= p) /\ i <= p + Len(x)
      <3>1. /\ i \in 1..(Len(t) + Len(x)) /\ i - p \in 1..(Len(x) + Len(y))
            /\ i - p <= Len(x) /\ i <= p + Len(x) + Len(y)
        BY <1>1, <2>5
      <3>2. s[i] = x[i - p] /\ xy[i - p] = x[i - p]
        BY <2>5, <3>1, <1>2, <1>3
      <3> QED
        BY <2>1, <2>2, <2>3, <2>5, <3>1, <3>2
    <2>6. CASE ~(i <= p + Len(x)) /\ i <= p + Len(x) + Len(y)
      <3>1. /\ i - p \in 1..(Len(x) + Len(y)) /\ ~(i - p <= Len(x)) /\ ~(i <= p)
            /\ (i - p) - Len(x) = i - (p + Len(x))
        BY <1>1, <2>6
      <3>2. xy[i - p] = y[(i - p) - Len(x)]
        BY <3>1, <1>3
      <3> QED
        BY <2>1, <2>2, <2>3, <2>6, <3>1, <3>2
    <2>7. CASE ~(i <= p + Len(x) + Len(y))
      <3>1. /\ i - Len(y) \in 1..(Len(t) + Len(x)) /\ ~(i - Len(y) <= p)
            /\ ~(i - Len(y) <= p + Len(x)) /\ ~(i <= p) /\ ~(i <= p + Len(x))
            /\ (i - Len(y)) - Len(x) = i - Len(x) - Len(y)
        BY <1>1, <2>7
      <3>2. s[i - Len(y)] = t[(i - Len(y)) - Len(x)]
        BY <3>1, <1>2
      <3> QED
        BY <2>1, <2>2, <2>3, <2>7, <3>1, <3>2
    <2>8. i \in Nat /\ p \in Nat /\ Len(x) \in Nat
      BY <1>1, <1>6
    <2> QED
      BY <2>4, <2>5, <2>6, <2>7, <2>8
  <1>8. a = b
    <2>1. Len(a) = Len(b) /\ \A i \in 1..Len(a) : a[i] = b[i]
      BY <1>6, <1>7
    <2> QED
      BY <1>4, <1>5, <2>1, SeqEqual
  <1> QED
    BY <1>8 DEF a, b, s, xy

-----------------------------------------------------------------------------
(* The buffer                                                              *)

LEMMA BufferText ==
    ASSUME NEW b \in Buffers
    PROVE  /\ to_slice(b) \in Texts /\ to_slice(b) \in Seq(Chars)
           /\ len(b) = Len(to_slice(b)) /\ Len(to_slice(b)) \in 0..MaxLen
  <1>1. to_slice(b) \in Texts /\ len(b) = Len(to_slice(b))
    BY BufferAssumption DEF KeepsText
  <1>2. to_slice(b) \in Seq(Chars) /\ Len(to_slice(b)) <= MaxLen
    BY <1>1, TextsAre
  <1>3. Len(to_slice(b)) \in Nat
    BY <1>2, LenProperties
  <1> QED
    BY <1>1, <1>2, <1>3, EditorAssumption

LEMMA InsertKeeps ==
    ASSUME NEW b \in Buffers, NEW p \in 0..Len(to_slice(b)), NEW x \in Seq(Chars),
           Len(to_slice(b)) + Len(x) <= MaxLen
    PROVE  /\ insert(b, p, x) \in Buffers
           /\ to_slice(insert(b, p, x)) = Spliced(to_slice(b), p, x)
           /\ Len(to_slice(insert(b, p, x))) = Len(to_slice(b)) + Len(x)
  <1>1. Len(to_slice(b)) \in Nat /\ to_slice(b) \in Seq(Chars) /\ Len(x) \in Nat
    BY BufferText, LenProperties
  <1>2. x \in Texts
    <2>1. Len(x) <= MaxLen
      BY <1>1, EditorAssumption
    <2> QED
      BY <2>1, TextsAre
  <1>3. /\ insert(b, p, x) \in Buffers
        /\ to_slice(insert(b, p, x)) = Spliced(to_slice(b), p, x)
    BY <1>2, BufferAssumption DEF KeepsText
  <1>4. Len(Spliced(to_slice(b), p, x)) = Len(to_slice(b)) + Len(x)
    BY <1>1, SplicedIs
  <1> QED
    BY <1>3, <1>4

LEMMA DeleteKeeps ==
    ASSUME NEW b \in Buffers, NEW p \in 0..Len(to_slice(b)),
           NEW q \in p..Len(to_slice(b))
    PROVE  /\ delete(b, p, q - p) \in Buffers
           /\ to_slice(delete(b, p, q - p)) = Cut(to_slice(b), p, q - p)
           /\ Len(to_slice(delete(b, p, q - p))) = Len(to_slice(b)) - (q - p)
           /\ slice(b, p, q) \in Seq(Chars) /\ Len(slice(b, p, q)) = q - p
           /\ to_slice(b) = Spliced(to_slice(delete(b, p, q - p)), p, slice(b, p, q))
  <1> DEFINE t == to_slice(b)
  <1>1. t \in Seq(Chars) /\ Len(t) \in Nat
    BY BufferText, LenProperties
  <1>2. /\ delete(b, p, q - p) \in Buffers
        /\ to_slice(delete(b, p, q - p)) = Cut(t, p, q - p)
        /\ slice(b, p, q) = SubSeq(t, p + 1, q)
    BY BufferAssumption DEF KeepsText
  <1>3. p \in 0..Len(t) /\ q \in p..Len(t)
    OBVIOUS
  <1> HIDE DEF t
  <1>4. q - p \in 0..(Len(t) - p)
    BY <1>1, <1>3
  <1>5. Len(Cut(t, p, q - p)) = Len(t) - (q - p)
    BY <1>1, <1>3, <1>4, CutIs
  <1>6. SubSeq(t, p + 1, q) \in Seq(Chars) /\ Len(SubSeq(t, p + 1, q)) = q - p
    BY <1>1, <1>3, PartIs
  <1>7. Spliced(Cut(t, p, q - p), p, SubSeq(t, p + 1, q)) = t
    BY <1>1, <1>3, SplicedCut
  <1> QED
    BY <1>2, <1>5, <1>6, <1>7 DEF t

(* What a buffer shows after something that was put in is taken out.       *)
LEMMA DeleteUndoes ==
    ASSUME NEW b \in Buffers, NEW t \in Texts, NEW p \in 0..Len(t),
           NEW x \in Seq(Chars), to_slice(b) = Spliced(t, p, x)
    PROVE  /\ delete(b, p, Len(x)) \in Buffers
           /\ to_slice(delete(b, p, Len(x))) = t
  <1>1. t \in Seq(Chars) /\ Len(t) \in Nat /\ Len(x) \in Nat /\ p \in Nat
    BY TextsAre, LenProperties
  <1>2. Len(to_slice(b)) = Len(t) + Len(x)
    BY <1>1, SplicedIs
  <1>3. /\ p \in 0..Len(to_slice(b)) /\ p + Len(x) \in p..Len(to_slice(b))
        /\ (p + Len(x)) - p = Len(x)
    BY <1>1, <1>2
  <1>4. ASSUME NEW q \in p..Len(to_slice(b))
        PROVE  /\ delete(b, p, q - p) \in Buffers
               /\ to_slice(delete(b, p, q - p)) = Cut(to_slice(b), p, q - p)
    BY <1>3, DeleteKeeps
  <1>5. /\ delete(b, p, Len(x)) \in Buffers
        /\ to_slice(delete(b, p, Len(x))) = Cut(to_slice(b), p, Len(x))
    BY <1>3, <1>4
  <1>6. Cut(Spliced(t, p, x), p, Len(x)) = t
    BY <1>1, CutSpliced
  <1> QED
    BY <1>5, <1>6

-----------------------------------------------------------------------------
(* Histories                                                               *)

LEMMA EmptyHistory ==
    ASSUME NEW t
    PROVE  Undoes(<< >>, << >>, t) /\ Redoes(<< >>, << >>, t)
  <1>1. << >> \in Seq(Entries) /\ << >> \in Seq(Steps) /\ Len(<< >>) = 0
    BY EmptySeq
  <1>2. 1..0 = {}
    OBVIOUS
  <1> QED
    BY <1>1, <1>2 DEF Undoes, Redoes, Paired, LeadsTo, LeadsFrom

LEMMA PairedPush ==
    ASSUME NEW u, NEW l, Paired(u, l), NEW e \in Entries, NEW s \in Steps, Fits(e, s)
    PROVE  Paired(Append(u, e), Append(l, s))
  <1>1. u \in Seq(Entries) /\ l \in Seq(Steps) /\ Len(u) = Len(l) /\ Len(u) \in Nat
    BY LenProperties DEF Paired
  <1>2. /\ Append(u, e) \in Seq(Entries) /\ Len(Append(u, e)) = Len(u) + 1
        /\ \A i \in 1..Len(u) : Append(u, e)[i] = u[i]
        /\ Append(u, e)[Len(u) + 1] = e
    BY <1>1, AppendProperties
  <1>3. /\ Append(l, s) \in Seq(Steps) /\ Len(Append(l, s)) = Len(l) + 1
        /\ \A i \in 1..Len(l) : Append(l, s)[i] = l[i]
        /\ Append(l, s)[Len(l) + 1] = s
    BY <1>1, AppendProperties
  <1>4. ASSUME NEW i \in 1..Len(Append(u, e))
        PROVE  Fits(Append(u, e)[i], Append(l, s)[i])
    <2>1. CASE i = Len(u) + 1
      BY <2>1, <1>1, <1>2, <1>3
    <2>2. CASE i # Len(u) + 1
      <3>1. i \in 1..Len(u)
        BY <2>2, <1>1, <1>2
      <3>2. Fits(u[i], l[i])
        BY <3>1 DEF Paired
      <3> QED
        BY <3>1, <3>2, <1>1, <1>2, <1>3
    <2> QED
      BY <2>1, <2>2
  <1> QED
    BY <1>1, <1>2, <1>3, <1>4 DEF Paired

LEMMA UndoesPush ==
    ASSUME NEW u, NEW l, NEW t, Undoes(u, l, t),
           NEW e \in Entries, NEW s \in Steps, Fits(e, s), s.from[1] = t
    PROVE  Undoes(Append(u, e), Append(l, s), s.to[1])
  <1> DEFINE m == Append(l, s)
  <1>1. l \in Seq(Steps) /\ Len(l) \in Nat
    BY LenProperties DEF Undoes, Paired
  <1>2. /\ Len(m) = Len(l) + 1
        /\ \A i \in 1..Len(l) : m[i] = l[i]
        /\ m[Len(l) + 1] = s
    BY <1>1, AppendProperties
  <1> HIDE DEF m
  <1>3. ASSUME NEW i \in 1..Len(m)
        PROVE  m[i].to[1] = IF i = Len(m) THEN s.to[1] ELSE m[i + 1].from[1]
    <2>1. CASE i = Len(m)
      BY <2>1, <1>2
    <2>2. CASE i # Len(m)
      <3>1. /\ i \in 1..Len(l) /\ (i = Len(l) => i + 1 = Len(l) + 1)
            /\ (i # Len(l) => i + 1 \in 1..Len(l))
        BY <2>2, <1>1, <1>2
      <3>2. l[i].to[1] = IF i = Len(l) THEN t ELSE l[i + 1].from[1]
        BY <3>1 DEF Undoes, LeadsTo
      <3> QED
        BY <2>2, <3>1, <3>2, <1>2
    <2> QED
      BY <2>1, <2>2
  <1>4. LeadsTo(m, s.to[1])
    BY <1>3 DEF LeadsTo
  <1> QED
    BY <1>4, PairedPush DEF Undoes, m

LEMMA RedoesPush ==
    ASSUME NEW u, NEW l, NEW t, Redoes(u, l, t),
           NEW e \in Entries, NEW s \in Steps, Fits(e, s), s.to[1] = t
    PROVE  Redoes(Append(u, e), Append(l, s), s.from[1])
  <1> DEFINE m == Append(l, s)
  <1>1. l \in Seq(Steps) /\ Len(l) \in Nat
    BY LenProperties DEF Redoes, Paired
  <1>2. /\ Len(m) = Len(l) + 1
        /\ \A i \in 1..Len(l) : m[i] = l[i]
        /\ m[Len(l) + 1] = s
    BY <1>1, AppendProperties
  <1> HIDE DEF m
  <1>3. ASSUME NEW i \in 1..Len(m)
        PROVE  m[i].from[1] = IF i = Len(m) THEN s.from[1] ELSE m[i + 1].to[1]
    <2>1. CASE i = Len(m)
      BY <2>1, <1>2
    <2>2. CASE i # Len(m)
      <3>1. /\ i \in 1..Len(l) /\ (i = Len(l) => i + 1 = Len(l) + 1)
            /\ (i # Len(l) => i + 1 \in 1..Len(l))
        BY <2>2, <1>1, <1>2
      <3>2. l[i].from[1] = IF i = Len(l) THEN t ELSE l[i + 1].to[1]
        BY <3>1 DEF Redoes, LeadsFrom
      <3> QED
        BY <2>2, <3>1, <3>2, <1>2
    <2> QED
      BY <2>1, <2>2
  <1>4. LeadsFrom(m, s.from[1])
    BY <1>3 DEF LeadsFrom
  <1> QED
    BY <1>4, PairedPush DEF Redoes, m

LEMMA UndoesTail ==
    ASSUME NEW u, NEW l, NEW t, Undoes(u, l, t), u # << >>
    PROVE  Undoes(Tail(u), Tail(l), t)
  <1> DEFINE v == Tail(u)
             m == Tail(l)
  <1>1. /\ u \in Seq(Entries) /\ l \in Seq(Steps) /\ Len(u) = Len(l)
        /\ Len(u) \in Nat \ {0} /\ l # << >>
    <2>1. u \in Seq(Entries) /\ l \in Seq(Steps) /\ Len(u) = Len(l)
      BY DEF Undoes, Paired
    <2>2. Len(u) \in Nat \ {0} /\ Len(<< >>) = 0
      BY <2>1, EmptySeq
    <2> QED
      BY <2>1, <2>2
  <1>2. /\ v \in Seq(Entries) /\ Len(v) = Len(u) - 1
        /\ \A i \in 1..Len(v) : v[i] = u[i + 1]
    BY <1>1, HeadTailProperties
  <1>3. /\ m \in Seq(Steps) /\ Len(m) = Len(l) - 1
        /\ \A i \in 1..Len(m) : m[i] = l[i + 1]
    BY <1>1, HeadTailProperties
  <1> HIDE DEF v, m
  <1>4. ASSUME NEW i \in 1..Len(v) PROVE Fits(v[i], m[i])
    <2>1. i + 1 \in 1..Len(u) /\ i \in 1..Len(m)
      BY <1>1, <1>2, <1>3
    <2>2. Fits(u[i + 1], l[i + 1])
      BY <2>1 DEF Undoes, Paired
    <2> QED
      BY <2>1, <2>2, <1>2, <1>3
  <1>5. ASSUME NEW i \in 1..Len(m)
        PROVE  m[i].to[1] = IF i = Len(m) THEN t ELSE m[i + 1].from[1]
    <2>1. /\ i + 1 \in 1..Len(l) /\ (i = Len(m) <=> i + 1 = Len(l))
          /\ (i # Len(m) => i + 1 \in 1..Len(m))
      BY <1>1, <1>3
    <2>2. l[i + 1].to[1] = IF i + 1 = Len(l) THEN t ELSE l[i + 1 + 1].from[1]
      BY <2>1 DEF Undoes, LeadsTo
    <2> QED
      BY <2>1, <2>2, <1>3
  <1>6. Paired(v, m)
    BY <1>1, <1>2, <1>3, <1>4 DEF Paired
  <1>7. LeadsTo(m, t)
    BY <1>5 DEF LeadsTo
  <1> QED
    BY <1>6, <1>7 DEF Undoes, v, m

(* push_undo: dropping the oldest entry at the cap keeps the others true.  *)
LEMMA UndoesCapped ==
    ASSUME NEW u, NEW l, NEW t, Undoes(u, l, t),
           NEW e \in Entries, NEW s \in Steps, Fits(e, s), s.from[1] = t
    PROVE  Undoes(Capped(u, e), Capped(l, s), s.to[1])
  <1>1. Undoes(Append(u, e), Append(l, s), s.to[1])
    BY UndoesPush
  <1>2. Len(u) = Len(l) /\ u \in Seq(Entries)
    BY DEF Undoes, Paired
  <1>3. Append(u, e) # << >>
    BY <1>2, AppendProperties
  <1>4. Undoes(Tail(Append(u, e)), Tail(Append(l, s)), s.to[1])
    BY <1>1, <1>3, UndoesTail
  <1> QED
    BY <1>1, <1>2, <1>4 DEF Capped

(* The last entry of a history, and the history without it.                *)
LEMMA PairedFront ==
    ASSUME NEW u, NEW l, Paired(u, l), u # << >>
    PROVE  /\ Paired(Front(u), Front(l))
           /\ Len(l) \in Nat \ {0} /\ Len(u) = Len(l)
           /\ Last(u) \in Entries /\ Last(l) \in Steps /\ Fits(Last(u), Last(l))
           /\ Last(u) = u[Len(u)] /\ Last(l) = l[Len(l)]
           /\ Len(Front(l)) = Len(l) - 1
           /\ \A i \in 1..(Len(l) - 1) : Front(l)[i] = l[i]
  <1> DEFINE v == Front(u)
             m == Front(l)
             n == Len(l)
  <1>1. /\ u \in Seq(Entries) /\ l \in Seq(Steps) /\ Len(u) = n /\ n \in Nat \ {0}
    BY EmptySeq DEF Paired
  <1>2. \A i \in 1..n : u[i] \in Entries /\ l[i] \in Steps /\ Fits(u[i], l[i])
    BY <1>1, ElementOfSeq DEF Paired
  <1>3. Last(u) = u[n] /\ Last(l) = l[n]
    BY <1>1 DEF Last
  <1>4. Last(u) \in Entries /\ Last(l) \in Steps /\ Fits(Last(u), Last(l))
    BY <1>1, <1>2, <1>3
  <1>5. /\ v \in Seq(Entries) /\ Len(v) = n - 1
        /\ \A i \in 1..(n - 1) : v[i] = u[i]
    <2>1. /\ SubSeq(u, 0 + 1, n - 1) \in Seq(Entries)
          /\ Len(SubSeq(u, 0 + 1, n - 1)) = (n - 1) - 0
          /\ \A i \in 1..((n - 1) - 0) : SubSeq(u, 0 + 1, n - 1)[i] = u[0 + i]
      <3>1. 0 \in 0..Len(u) /\ n - 1 \in 0..Len(u)
        BY <1>1
      <3> QED
        BY <1>1, <3>1, PartIs
    <2>2. v = SubSeq(u, 0 + 1, n - 1)
      BY <1>1 DEF Front
    <2> QED
      BY <1>1, <2>1, <2>2
  <1>6. /\ m \in Seq(Steps) /\ Len(m) = n - 1
        /\ \A i \in 1..(n - 1) : m[i] = l[i]
    <2>1. /\ SubSeq(l, 0 + 1, n - 1) \in Seq(Steps)
          /\ Len(SubSeq(l, 0 + 1, n - 1)) = (n - 1) - 0
          /\ \A i \in 1..((n - 1) - 0) : SubSeq(l, 0 + 1, n - 1)[i] = l[0 + i]
      <3>1. 0 \in 0..Len(l) /\ n - 1 \in 0..Len(l)
        BY <1>1
      <3> QED
        BY <1>1, <3>1, PartIs
    <2>2. m = SubSeq(l, 0 + 1, n - 1)
      BY <1>1 DEF Front
    <2> QED
      BY <1>1, <2>1, <2>2
  <1> HIDE DEF v, m
  <1>7. \A i \in 1..(n - 1) : Fits(v[i], m[i])
    <2>1. \A i \in 1..(n - 1) : i \in 1..n
      BY <1>1
    <2> QED
      BY <2>1, <1>2, <1>5, <1>6
  <1>8. Paired(v, m)
    BY <1>5, <1>6, <1>7 DEF Paired
  <1> QED
    BY <1>1, <1>3, <1>4, <1>6, <1>8 DEF v, m

LEMMA UndoesFront ==
    ASSUME NEW u, NEW l, NEW t, Undoes(u, l, t), u # << >>
    PROVE  /\ Undoes(Front(u), Front(l), Last(l).from[1])
           /\ Last(u) \in Entries /\ Last(l) \in Steps /\ Fits(Last(u), Last(l))
           /\ Last(l).to[1] = t
  <1> DEFINE m == Front(l)
             n == Len(l)
  <1>1. /\ Paired(Front(u), m) /\ n \in Nat \ {0}
        /\ Last(u) \in Entries /\ Last(l) \in Steps /\ Fits(Last(u), Last(l))
        /\ Last(l) = l[n] /\ Len(m) = n - 1
        /\ \A i \in 1..(n - 1) : m[i] = l[i]
    BY PairedFront, ZenonT(60) DEF Undoes
  <1>2. \A i \in 1..n : l[i].to[1] = IF i = n THEN t ELSE l[i + 1].from[1]
    BY DEF Undoes, LeadsTo
  <1> HIDE DEF m
  <1>3. ASSUME NEW i \in 1..Len(m)
        PROVE  m[i].to[1] = IF i = Len(m) THEN l[n].from[1] ELSE m[i + 1].from[1]
    <2>1. /\ i \in 1..n /\ i # n /\ i \in 1..(n - 1) /\ (i = Len(m) => i + 1 = n)
          /\ (i # Len(m) => i + 1 \in 1..(n - 1))
      BY <1>1
    <2> QED
      BY <2>1, <1>1, <1>2
  <1>4. LeadsTo(m, Last(l).from[1])
    BY <1>1, <1>3 DEF LeadsTo
  <1>5. Last(l).to[1] = t
    BY <1>1, <1>2
  <1> QED
    BY <1>1, <1>4, <1>5 DEF Undoes, m

LEMMA RedoesFront ==
    ASSUME NEW u, NEW l, NEW t, Redoes(u, l, t), u # << >>
    PROVE  /\ Redoes(Front(u), Front(l), Last(l).to[1])
           /\ Last(u) \in Entries /\ Last(l) \in Steps /\ Fits(Last(u), Last(l))
           /\ Last(l).from[1] = t
  <1> DEFINE m == Front(l)
             n == Len(l)
  <1>1. /\ Paired(Front(u), m) /\ n \in Nat \ {0}
        /\ Last(u) \in Entries /\ Last(l) \in Steps /\ Fits(Last(u), Last(l))
        /\ Last(l) = l[n] /\ Len(m) = n - 1
        /\ \A i \in 1..(n - 1) : m[i] = l[i]
    BY PairedFront, ZenonT(60) DEF Redoes
  <1>2. \A i \in 1..n : l[i].from[1] = IF i = n THEN t ELSE l[i + 1].to[1]
    BY DEF Redoes, LeadsFrom
  <1> HIDE DEF m
  <1>3. ASSUME NEW i \in 1..Len(m)
        PROVE  m[i].from[1] = IF i = Len(m) THEN l[n].to[1] ELSE m[i + 1].to[1]
    <2>1. /\ i \in 1..n /\ i # n /\ i \in 1..(n - 1) /\ (i = Len(m) => i + 1 = n)
          /\ (i # Len(m) => i + 1 \in 1..(n - 1))
      BY <1>1
    <2> QED
      BY <2>1, <1>1, <1>2
  <1>4. LeadsFrom(m, Last(l).to[1])
    BY <1>1, <1>3 DEF LeadsFrom
  <1>5. Last(l).from[1] = t
    BY <1>1, <1>2
  <1> QED
    BY <1>1, <1>4, <1>5 DEF Redoes, m

(* Coalescing: the last entry is amended, and where it leads to with it.   *)
LEMMA UndoesAmended ==
    ASSUME NEW u, NEW l, NEW t, Undoes(u, l, t), u # << >>,
           NEW e \in Entries, NEW s \in Steps, Fits(e, s), s.from = Last(l).from
    PROVE  Undoes([u EXCEPT ![Len(u)] = e], [l EXCEPT ![Len(l)] = s], s.to[1])
  <1> DEFINE v == [u EXCEPT ![Len(u)] = e]
             m == [l EXCEPT ![Len(l)] = s]
             n == Len(l)
  <1>1. /\ u \in Seq(Entries) /\ l \in Seq(Steps) /\ Len(u) = n /\ n \in Nat \ {0}
    BY EmptySeq DEF Undoes, Paired
  <1>2. /\ v \in Seq(Entries) /\ Len(v) = n
        /\ \A i \in 1..n : v[i] = IF i = n THEN e ELSE u[i]
    <2>1. Len(u) \in 1..Len(u)
      BY <1>1
    <2> QED
      BY <1>1, <2>1, ExceptSeq
  <1>3. /\ m \in Seq(Steps) /\ Len(m) = n
        /\ \A i \in 1..n : m[i] = IF i = n THEN s ELSE l[i]
    <2>1. Len(l) \in 1..Len(l)
      BY <1>1
    <2> QED
      BY <1>1, <2>1, ExceptSeq
  <1> HIDE DEF v, m
  <1>4. ASSUME NEW i \in 1..n PROVE Fits(v[i], m[i])
    <2>1. Fits(u[i], l[i])
      BY <1>1 DEF Undoes, Paired
    <2> QED
      BY <2>1, <1>2, <1>3
  <1>5. ASSUME NEW i \in 1..n
        PROVE  m[i].to[1] = IF i = n THEN s.to[1] ELSE m[i + 1].from[1]
    <2>1. l[i].to[1] = IF i = n THEN t ELSE l[i + 1].from[1]
      BY DEF Undoes, LeadsTo
    <2>2. i # n => i + 1 \in 1..n
      BY <1>1
    <2>3. l[n].from = s.from
      BY <1>1 DEF Last
    <2> QED
      BY <2>1, <2>2, <2>3, <1>3
  <1>6. Paired(v, m)
    BY <1>2, <1>3, <1>4 DEF Paired
  <1>7. LeadsTo(m, s.to[1])
    BY <1>3, <1>5 DEF LeadsTo
  <1> QED
    BY <1>6, <1>7 DEF Undoes, v, m

-----------------------------------------------------------------------------
(* Steps                                                                   *)

LEMMA PlaceIs ==
    ASSUME NEW b \in Buffers, NEW p \in 0..Len(to_slice(b))
    PROVE  At(b, p) \in Places /\ At(b, p)[1] = to_slice(b) /\ At(b, p)[2] = p
  <1>1. to_slice(b) \in Texts /\ Len(to_slice(b)) \in 0..MaxLen
    BY BufferText
  <1>2. p \in 0..MaxLen
    BY <1>1, EditorAssumption
  <1> QED
    BY <1>1, <1>2 DEF At, Places

LEMMA StepIs ==
    ASSUME NEW b \in Buffers, NEW p \in 0..Len(to_slice(b)),
           NEW d \in Buffers, NEW q \in 0..Len(to_slice(d))
    PROVE  /\ Step(At(b, p), At(d, q)) \in Steps
           /\ Step(At(b, p), At(d, q)).from = At(b, p)
           /\ Step(At(b, p), At(d, q)).to = At(d, q)
           /\ At(b, p)[1] = to_slice(b) /\ At(b, p)[2] = p
           /\ At(d, q)[1] = to_slice(d) /\ At(d, q)[2] = q
  <1>1. At(b, p) \in Places /\ At(d, q) \in Places
    BY PlaceIs
  <1> QED
    BY <1>1, PlaceIs DEF Step, Steps

LEMMA InsertionFits ==
    ASSUME NEW b \in Buffers, NEW p \in 0..Len(to_slice(b)), NEW x \in Seq(Chars),
           NEW d \in Buffers, to_slice(d) = Spliced(to_slice(b), p, x),
           NEW j \in 0..Len(to_slice(b)), NEW k \in 0..Len(to_slice(d))
    PROVE  /\ Inserted(p, x, j, k) \in Entries
           /\ Fits(Inserted(p, x, j, k), Step(At(b, j), At(d, k)))
  <1>1. Len(to_slice(b)) \in Nat /\ Len(to_slice(d)) \in Nat
    BY BufferText, EditorAssumption
  <1>2. Inserted(p, x, j, k) \in Entries
    BY <1>1 DEF Inserted, Entries
  <1>3. Fits(Inserted(p, x, j, k), Step(At(b, j), At(d, k)))
    BY <1>1, StepIs DEF Inserted, Fits, With, Lacking
  <1> QED
    BY <1>2, <1>3

LEMMA DeletionFits ==
    ASSUME NEW b \in Buffers, NEW d \in Buffers, NEW p \in 0..Len(to_slice(d)),
           NEW x \in Seq(Chars), to_slice(b) = Spliced(to_slice(d), p, x),
           NEW j \in 0..Len(to_slice(b)), NEW k \in 0..Len(to_slice(d))
    PROVE  /\ Deleted(p, x, j, k) \in Entries
           /\ Fits(Deleted(p, x, j, k), Step(At(b, j), At(d, k)))
  <1>1. Len(to_slice(b)) \in Nat /\ Len(to_slice(d)) \in Nat
    BY BufferText, EditorAssumption
  <1>2. Deleted(p, x, j, k) \in Entries
    BY <1>1 DEF Deleted, Entries
  <1>3. Fits(Deleted(p, x, j, k), Step(At(b, j), At(d, k)))
    BY <1>1, StepIs DEF Deleted, Fits, With, Lacking
  <1> QED
    BY <1>2, <1>3

(* A deletion of p..q as an entry of its own.                              *)
LEMMA DeletionKeeps ==
    ASSUME NEW u, NEW l, NEW b \in Buffers, Undoes(u, l, to_slice(b)),
           NEW p \in 0..Len(to_slice(b)), NEW q \in p..Len(to_slice(b)),
           NEW j \in 0..Len(to_slice(b))
    PROVE  LET d == delete(b, p, q - p) IN
           /\ d \in Buffers /\ p \in 0..Len(to_slice(d))
           /\ Undoes(Capped(u, Deleted(p, slice(b, p, q), j, p)),
                     Capped(l, Step(At(b, j), At(d, p))), to_slice(d))
  <1> DEFINE d == delete(b, p, q - p)
             x == slice(b, p, q)
             e == Deleted(p, x, j, p)
             s == Step(At(b, j), At(d, p))
  <1>1. /\ d \in Buffers /\ x \in Seq(Chars)
        /\ Len(to_slice(d)) = Len(to_slice(b)) - (q - p)
        /\ to_slice(b) = Spliced(to_slice(d), p, x)
    BY DeleteKeeps
  <1> HIDE DEF d, x
  <1>2. Len(to_slice(b)) \in Nat /\ p \in 0..Len(to_slice(d))
    <2>1. Len(to_slice(b)) \in Nat
      BY BufferText, EditorAssumption
    <2> QED
      BY <2>1, <1>1
  <1>3. e \in Entries /\ Fits(e, s)
    BY <1>1, <1>2, DeletionFits
  <1>4. s \in Steps /\ s.from[1] = to_slice(b) /\ s.to[1] = to_slice(d)
    BY <1>1, <1>2, StepIs
  <1> HIDE DEF e, s
  <1>5. Undoes(Capped(u, e), Capped(l, s), s.to[1])
    BY <1>3, <1>4, UndoesCapped
  <1> QED
    BY <1>1, <1>2, <1>4, <1>5 DEF d, x, e, s

LEMMA SelectionIs ==
    ASSUME TypeInv
    PROVE  SelLo \in 0..Len(Shown) /\ SelHi \in SelLo..Len(Shown)
  <1>1. Len(Shown) \in Nat
    BY BufferText, EditorAssumption DEF TypeInv, Shown
  <1> QED
    BY <1>1 DEF TypeInv, SelLo, SelHi

(* delete_selection_to_undo                                                *)
LEMMA WithoutKeeps ==
    ASSUME IInv
    PROVE  /\ Without.buffer \in Buffers
           /\ Without.cursor \in 0..Len(to_slice(Without.buffer))
           /\ Undoes(Without.undo, Without.log, to_slice(Without.buffer))
           /\ Without.coalesce = "no"
  <1>1. /\ buffer \in Buffers /\ cursor \in 0..Len(to_slice(buffer))
        /\ Undoes(undo, log, to_slice(buffer))
    BY DEF IInv, TypeInv, HistoryInv, Shown
  <1>2. SelLo \in 0..Len(to_slice(buffer)) /\ SelHi \in SelLo..Len(to_slice(buffer))
    BY SelectionIs DEF IInv, Shown
  <1> DEFINE d == delete(buffer, SelLo, SelHi - SelLo)
  <1>3. /\ d \in Buffers /\ SelLo \in 0..Len(to_slice(d))
        /\ Undoes(Capped(undo, Deleted(SelLo, slice(buffer, SelLo, SelHi), cursor, SelLo)),
                  Capped(log, Step(At(buffer, cursor), At(d, SelLo))), to_slice(d))
    BY <1>1, <1>2, DeletionKeeps
  <1>4. /\ Without.buffer = d /\ Without.cursor = SelLo /\ Without.coalesce = "no"
        /\ Without.undo = Capped(undo, Deleted(SelLo, slice(buffer, SelLo, SelHi),
                                               cursor, SelLo))
        /\ Without.log = Capped(log, Step(At(buffer, cursor), At(d, SelLo)))
    BY DEF Without, SelectedText
  <1> QED
    BY <1>3, <1>4

LEMMA KeepsIInv ==
    ASSUME buffer' \in Buffers, cursor' \in 0..Len(to_slice(buffer')),
           anchor' \in 0..Len(to_slice(buffer')),
           Undoes(undo', log', to_slice(buffer')),
           Redoes(redo', undone', to_slice(buffer'))
    PROVE  IInv'
  BY DEF IInv, TypeInv, HistoryInv, Shown

LEMMA DeleteSelectionKeeps == IInv /\ DeleteSelection => IInv'
  <1> SUFFICES ASSUME IInv, DeleteSelection PROVE IInv'
    OBVIOUS
  <1>1. /\ buffer' = Without.buffer /\ cursor' = Without.cursor
        /\ anchor' = Without.cursor /\ undo' = Without.undo /\ log' = Without.log
        /\ redo' = << >> /\ undone' = << >>
    BY DEF DeleteSelection, EditOf, SetCursor, ClearRedo
  <1> QED
    BY <1>1, WithoutKeeps, EmptyHistory, KeepsIInv

LEMMA DeleteForwardKeeps == IInv /\ DeleteForward => IInv'
  <1> SUFFICES ASSUME IInv, DeleteForward PROVE IInv'
    OBVIOUS
  <1> DEFINE d == delete(buffer, cursor, 1)
  <1>1. /\ buffer' = d /\ cursor' = cursor /\ anchor' = cursor
        /\ redo' = << >> /\ undone' = << >>
        /\ undo' = Capped(undo, Deleted(cursor, slice(buffer, cursor, cursor + 1),
                                        cursor, cursor))
        /\ log' = Capped(log, Step(At(buffer, cursor), At(d, cursor)))
    BY DEF DeleteForward, EditOf, ClearRedo, Logged, Selected
  <1>2. /\ buffer \in Buffers /\ cursor \in 0..Len(to_slice(buffer))
        /\ Undoes(undo, log, to_slice(buffer))
    BY DEF IInv, TypeInv, HistoryInv, Shown
  <1>3. cursor + 1 \in cursor..Len(to_slice(buffer)) /\ (cursor + 1) - cursor = 1
    <2>1. cursor < Len(to_slice(buffer)) /\ Len(to_slice(buffer)) \in Nat
      BY <1>2, BufferText, EditorAssumption DEF DeleteForward
    <2> QED
      BY <1>2, <2>1
  <1>4. /\ d \in Buffers /\ cursor \in 0..Len(to_slice(d))
        /\ Undoes(Capped(undo, Deleted(cursor, slice(buffer, cursor, cursor + 1),
                                       cursor, cursor)),
                  Capped(log, Step(At(buffer, cursor), At(d, cursor))), to_slice(d))
    <2>1. ASSUME NEW q \in cursor..Len(to_slice(buffer))
          PROVE  LET c == delete(buffer, cursor, q - cursor) IN
                 /\ c \in Buffers /\ cursor \in 0..Len(to_slice(c))
                 /\ Undoes(Capped(undo, Deleted(cursor, slice(buffer, cursor, q),
                                                cursor, cursor)),
                           Capped(log, Step(At(buffer, cursor), At(c, cursor))),
                           to_slice(c))
      BY <1>2, DeletionKeeps
    <2> QED
      BY <1>3, <2>1
  <1> QED
    BY <1>1, <1>4, EmptyHistory, KeepsIInv

LEMMA LongerIs ==
    ASSUME NEW e \in Entries, NEW c \in Seq(Chars), NEW p \in Nat
    PROVE  /\ Longer(e, c, p) \in Entries
           /\ Longer(e, c, p).kind = e.kind /\ Longer(e, c, p).start = p
           /\ Longer(e, c, p).text = c \o e.text
           /\ Longer(e, c, p).cursor_before = e.cursor_before
           /\ Longer(e, c, p).cursor_after = p
  <1>1. c \o e.text \in Seq(Chars)
    BY ConcatProperties DEF Entries
  <1>2. Longer(e, c, p) \in Entries
    BY <1>1 DEF Longer, Entries
  <1> QED
    BY <1>2 DEF Longer, Entries

(* Backspace: the character goes in front of those its entry has.          *)
LEMMA BackspaceKeeps == IInv /\ Backspace => IInv'
  <1> SUFFICES ASSUME IInv, Backspace PROVE IInv'
    OBVIOUS
  <1> DEFINE p == cursor - 1
             c == slice(buffer, p, cursor)
             d == delete(buffer, p, 1)
             ext == /\ coalesce = "Backspace" /\ undo # << >>
                    /\ Last(undo).kind = "Deleted" /\ Last(undo).start = cursor
  <1>1. /\ buffer' = d /\ cursor' = p /\ anchor' = p
        /\ redo' = << >> /\ undone' = << >>
        /\ undo' = IF ext THEN [undo EXCEPT ![Len(undo)] = Longer(@, c, p)]
                   ELSE Capped(undo, Deleted(p, c, cursor, p))
        /\ log' = IF ext THEN [log EXCEPT ![Len(log)].to = At(d, p)]
                  ELSE Capped(log, Step(At(buffer, cursor), At(d, p)))
    BY DEF Backspace, EditOf, SetCursor, ClearRedo, Logged
  <1>2. /\ buffer \in Buffers /\ cursor \in 0..Len(to_slice(buffer))
        /\ Undoes(undo, log, to_slice(buffer))
    BY DEF IInv, TypeInv, HistoryInv, Shown
  <1>3. /\ p \in 0..Len(to_slice(buffer)) /\ cursor \in p..Len(to_slice(buffer))
        /\ cursor - p = 1 /\ p + 1 = cursor
    <2>1. cursor > 0 /\ Len(to_slice(buffer)) \in Nat
      BY <1>2, BufferText, EditorAssumption DEF Backspace
    <2> QED
      BY <1>2, <2>1
  <1>4. /\ d \in Buffers /\ p \in 0..Len(to_slice(d))
        /\ Undoes(Capped(undo, Deleted(p, c, cursor, p)),
                  Capped(log, Step(At(buffer, cursor), At(d, p))), to_slice(d))
    <2> HIDE DEF p
    <2>1. LET b == delete(buffer, p, cursor - p) IN
          /\ b \in Buffers /\ p \in 0..Len(to_slice(b))
          /\ Undoes(Capped(undo, Deleted(p, c, cursor, p)),
                    Capped(log, Step(At(buffer, cursor), At(b, p))), to_slice(b))
      BY <1>2, <1>3, DeletionKeeps
    <2> QED
      BY <1>3, <2>1
  <1>5. /\ c \in Seq(Chars) /\ Len(c) = 1
        /\ to_slice(buffer) = Spliced(to_slice(d), p, c)
    <2> HIDE DEF p
    <2>1. /\ c \in Seq(Chars) /\ Len(c) = cursor - p
          /\ to_slice(buffer) = Spliced(to_slice(delete(buffer, p, cursor - p)), p, c)
      BY <1>2, <1>3, DeleteKeeps
    <2> QED
      BY <1>3, <2>1
  <1>6. Undoes(undo', log', to_slice(d))
    <2>1. CASE ~ext
      BY <2>1, <1>1, <1>4
    <2>2. CASE ext
      <3> DEFINE e == Last(undo)
                 l == Last(log)
                 f == Longer(e, c, p)
                 s == Step(l.from, At(d, p))
      <3>1. /\ e \in Entries /\ l \in Steps /\ Fits(e, l)
            /\ l.to[1] = to_slice(buffer) /\ e.kind = "Deleted" /\ e.start = cursor
        BY <2>2, <1>2, UndoesFront
      <3>2. /\ e.text \in Seq(Chars) /\ l.from \in Places
            /\ e.cursor_before = l.from[2] /\ l.from[2] <= Len(l.from[1])
            /\ l.from[1] = Spliced(to_slice(buffer), cursor, e.text)
        BY <3>1 DEF Fits, With, Lacking, Entries, Steps
      <3> HIDE DEF e, l, c, d, p, ext
      <3>3. /\ At(d, p) \in Places /\ At(d, p)[1] = to_slice(d) /\ At(d, p)[2] = p
            /\ to_slice(d) \in Seq(Chars) /\ Len(to_slice(d)) \in Nat
        BY <1>4, PlaceIs, BufferText, EditorAssumption
      <3>4. l.from[1] = Spliced(to_slice(d), p, c \o e.text) /\ c \o e.text \in Seq(Chars)
        <4>1. Spliced(Spliced(to_slice(d), p, c), p + Len(c), e.text)
                = Spliced(to_slice(d), p, c \o e.text)
          <5>1. /\ to_slice(d) \in Seq(Chars) /\ p \in 0..Len(to_slice(d))
                /\ c \in Seq(Chars) /\ e.text \in Seq(Chars)
            BY <3>2, <3>3, <1>4, <1>5
          <5> QED
            BY ONLY <5>1, SplicedTwice
        <4>2. p + Len(c) = cursor
          BY <1>3, <1>5
        <4>3. c \o e.text \in Seq(Chars)
          BY <3>2, <1>5, ConcatProperties
        <4> QED
          BY <3>2, <4>1, <4>2, <4>3, <1>5
      <3>5. /\ f \in Entries /\ f.kind = "Deleted" /\ f.start = p /\ f.text = c \o e.text
            /\ f.cursor_before = e.cursor_before /\ f.cursor_after = p
        <4>1. p \in Nat
          BY <3>3, <1>4
        <4> QED
          BY <3>1, <1>5, <4>1, LongerIs
      <3> HIDE DEF f
      <3>6. s \in Steps /\ s.from = l.from /\ s.to = At(d, p) /\ s.to[1] = to_slice(d)
        BY <3>2, <3>3 DEF Step, Steps
      <3>7. Fits(f, s)
        <4>1. p <= Len(to_slice(d))
          BY <1>4, <3>3
        <4> QED
          BY <3>2, <3>3, <3>4, <3>5, <3>6, <1>4, <4>1 DEF Fits, With, Lacking
      <3>8. undo' = [undo EXCEPT ![Len(undo)] = f]
        <4>1. undo' = [undo EXCEPT ![Len(undo)] = Longer(undo[Len(undo)], c, p)]
          BY <1>1, <2>2
        <4>2. undo[Len(undo)] = e
          BY DEF Last, e
        <4> QED
          BY <4>1, <4>2 DEF f
      <3>9. log' = [log EXCEPT ![Len(log)] = s]
        <4>1. log' = [log EXCEPT ![Len(log)] = [log[Len(log)] EXCEPT !.to = At(d, p)]]
          BY <1>1, <2>2
        <4>2. log[Len(log)] = l
          BY DEF Last, l
        <4>3. [l EXCEPT !.to = At(d, p)] = s
          BY <3>1 DEF Step, Steps
        <4> QED
          BY <4>1, <4>2, <4>3
      <3> HIDE DEF s
      <3>10. Undoes([undo EXCEPT ![Len(undo)] = f], [log EXCEPT ![Len(log)] = s], s.to[1])
        <4>1. undo # << >>
          BY <2>2 DEF ext
        <4> QED
          BY <4>1, <3>5, <3>6, <3>7, <1>2, UndoesAmended DEF l
      <3> QED
        BY <3>6, <3>8, <3>9, <3>10
    <2> QED
      BY <2>1, <2>2
  <1> QED
    BY <1>1, <1>4, <1>6, EmptyHistory, KeepsIInv

(* What Longer is for Backspace, for an insertion.                         *)
PutBehind(e, x, k) == [e EXCEPT !.text = @ \o x, !.cursor_after = k]

LEMMA PutBehindIs ==
    ASSUME NEW e \in Entries, NEW x \in Seq(Chars), NEW k \in Nat
    PROVE  /\ PutBehind(e, x, k) \in Entries
           /\ PutBehind(e, x, k).kind = e.kind /\ PutBehind(e, x, k).start = e.start
           /\ PutBehind(e, x, k).text = e.text \o x
           /\ PutBehind(e, x, k).cursor_before = e.cursor_before
           /\ PutBehind(e, x, k).cursor_after = k
  <1>1. e.text \o x \in Seq(Chars)
    BY ConcatProperties DEF Entries
  <1>2. PutBehind(e, x, k) \in Entries
    BY <1>1 DEF PutBehind, Entries
  <1> QED
    BY <1>2 DEF PutBehind, Entries

(* do_insert, of something: the text goes behind what its entry has.       *)
LEMMA DoInsertKeeps ==
    ASSUME IInv, NEW x \in Seq(Chars), x # << >>, NEW kind, DoInsert(x, kind)
    PROVE  IInv'
  <1> DEFINE r == IF Selected THEN Without ELSE AsIs
             u == r.undo
             l == r.log
             b == r.buffer
             c == r.cursor
             k == c + Len(x)
             d == insert(b, c, x)
             ext == Extends(r, kind)
  <1>1. /\ buffer' = d /\ cursor' = k /\ anchor' = k
        /\ redo' = << >> /\ undone' = << >>
        /\ undo' = IF ext
                   THEN [u EXCEPT ![Len(u)].text = @ \o x, ![Len(u)].cursor_after = k]
                   ELSE Capped(u, Inserted(c, x, c, k))
        /\ log' = IF ext THEN [l EXCEPT ![Len(l)].to = At(d, k)]
                  ELSE Capped(l, Step(At(b, c), At(d, k)))
        /\ len(b) + Len(x) <= MaxLen
    BY DEF DoInsert, EditOf, SetCursor, ClearRedo, Logged
  <1>2. b \in Buffers /\ c \in 0..Len(to_slice(b)) /\ Undoes(u, l, to_slice(b))
    <2>1. CASE Selected
      BY <2>1, WithoutKeeps
    <2>2. CASE ~Selected
      BY <2>2 DEF AsIs, IInv, TypeInv, HistoryInv, Shown
    <2> QED
      BY <2>1, <2>2
  <1>3. ext => /\ u # << >> /\ Last(u).kind = "Inserted"
               /\ Last(u).start + Len(Last(u).text) = c
    BY DEF Extends
  <1> HIDE DEF r, u, l, b, c, d, ext
  <1>4. /\ to_slice(b) \in Seq(Chars) /\ Len(to_slice(b)) \in Nat
        /\ Len(x) \in Nat /\ Len(to_slice(b)) + Len(x) <= MaxLen
    BY <1>1, <1>2, BufferText, LenProperties
  <1>5. /\ d \in Buffers /\ to_slice(d) = Spliced(to_slice(b), c, x)
        /\ Len(to_slice(d)) = Len(to_slice(b)) + Len(x)
    BY <1>2, <1>4, InsertKeeps DEF d
  <1>6. k \in 0..Len(to_slice(d)) /\ k \in Nat
    BY <1>2, <1>4, <1>5
  <1> HIDE DEF k
  <1>7. CASE ~ext
    <2> DEFINE e == Inserted(c, x, c, k)
               s == Step(At(b, c), At(d, k))
    <2>1. e \in Entries /\ Fits(e, s)
      BY <1>2, <1>5, <1>6, InsertionFits
    <2>2. s \in Steps /\ s.from[1] = to_slice(b) /\ s.to[1] = to_slice(d)
      BY <1>2, <1>5, <1>6, StepIs
    <2>3. undo' = Capped(u, e) /\ log' = Capped(l, s)
      BY <1>1, <1>7
    <2> HIDE DEF e, s
    <2>4. Undoes(Capped(u, e), Capped(l, s), s.to[1])
      BY <1>2, <2>1, <2>2, UndoesCapped
    <2> QED
      BY <1>1, <1>5, <1>6, <2>2, <2>3, <2>4, EmptyHistory, KeepsIInv
  <1>8. CASE ext
    <2> DEFINE e == Last(u)
               m == Last(l)
               f == PutBehind(e, x, k)
               s == Step(m.from, At(d, k))
    <2>1. /\ e \in Entries /\ m \in Steps /\ Fits(e, m) /\ m.to[1] = to_slice(b)
          /\ e.kind = "Inserted" /\ e.start + Len(e.text) = c
      BY <1>2, <1>3, <1>8, UndoesFront
    <2>2. /\ e.text \in Seq(Chars) /\ m.from \in Places /\ m.from[1] \in Texts
          /\ e.cursor_before = m.from[2] /\ m.from[2] <= Len(m.from[1])
          /\ e.start \in 0..Len(m.from[1])
          /\ to_slice(b) = Spliced(m.from[1], e.start, e.text)
      BY <2>1 DEF Fits, With, Lacking, Entries, Steps, Places
    <2>3. /\ At(d, k) \in Places /\ At(d, k)[1] = to_slice(d) /\ At(d, k)[2] = k
      BY <1>5, <1>6, PlaceIs
    <2>4. /\ f \in Entries /\ f.kind = "Inserted" /\ f.start = e.start
          /\ f.text = e.text \o x
          /\ f.cursor_before = e.cursor_before /\ f.cursor_after = k
      BY <2>1, <1>6, PutBehindIs
    <2>5. undo' = [u EXCEPT ![Len(u)] = f]
      <3>1. u \in Seq(Entries) /\ Len(u) \in 1..Len(u) /\ u[Len(u)] = e
        <4>1. u \in Seq(Entries)
          BY <1>2 DEF Undoes, Paired
        <4>2. Len(u) \in Nat \ {0}
          BY <4>1, <1>3, <1>8, EmptySeq
        <4> QED
          BY <4>1, <4>2 DEF Last
      <3>2. undo' = [[u EXCEPT ![Len(u)] = [u[Len(u)] EXCEPT !.text = @ \o x]]
                        EXCEPT ![Len(u)] = [[u[Len(u)] EXCEPT !.text = @ \o x]
                                              EXCEPT !.cursor_after = k]]
        BY <1>1, <1>8, <3>1
      <3> QED
        BY <3>1, <3>2 DEF PutBehind
    <2> HIDE DEF e, m, f
    <2>6. to_slice(d) = Spliced(m.from[1], f.start, f.text)
      <3> DEFINE t == m.from[1]
                 y == e.text
                 p == e.start
      <3>1. t \in Seq(Chars) /\ p \in 0..Len(t) /\ y \in Seq(Chars)
        BY <2>2, TextsAre
      <3>2. to_slice(b) = Spliced(t, p, y) /\ c = p + Len(y)
        BY <2>1, <2>2
      <3> HIDE DEF t, y, p
      <3>3. Spliced(Spliced(t, p, y), p + Len(y), x) = Spliced(t, p, y \o x)
        BY <3>1, SplicedTwice
      <3>4. to_slice(d) = Spliced(t, p, y \o x)
        BY <3>2, <3>3, <1>5
      <3> QED
        BY <3>4, <2>4 DEF t, y, p
    <2>7. s \in Steps /\ s.from = m.from /\ s.to = At(d, k) /\ s.to[1] = to_slice(d)
      BY <2>2, <2>3 DEF Step, Steps
    <2>8. Fits(f, s)
      BY <2>2, <2>3, <2>4, <2>6, <2>7, <1>6 DEF Fits, With, Lacking
    <2>9. log' = [l EXCEPT ![Len(l)] = s]
      <3>1. log' = [l EXCEPT ![Len(l)] = [l[Len(l)] EXCEPT !.to = At(d, k)]]
        BY <1>1, <1>8
      <3>2. l[Len(l)] = m
        BY DEF Last, m
      <3>3. [m EXCEPT !.to = At(d, k)] = s
        BY <2>1 DEF Step, Steps
      <3> QED
        BY <3>1, <3>2, <3>3
    <2> HIDE DEF s
    <2>10. Undoes([u EXCEPT ![Len(u)] = f], [l EXCEPT ![Len(l)] = s], s.to[1])
      <3>1. u # << >>
        BY <1>3, <1>8
      <3> QED
        BY <3>1, <2>4, <2>7, <2>8, <1>2, UndoesAmended DEF m
    <2> QED
      BY <1>1, <1>5, <1>6, <2>5, <2>7, <2>9, <2>10, EmptyHistory, KeepsIInv
  <1> QED
    BY <1>7, <1>8

LEMMA TakesOut ==
    ASSUME buffer \in Buffers, NEW e \in Entries, NEW t \in Texts,
           e.start \in 0..Len(t), Shown = Spliced(t, e.start, e.text)
    PROVE  TakeOut(e) \in Buffers /\ to_slice(TakeOut(e)) = t
  <1>1. e.text \in Seq(Chars)
    BY DEF Entries
  <1> QED
    BY <1>1, DeleteUndoes DEF Shown, TakeOut

LEMMA PutsBack ==
    ASSUME buffer \in Buffers, NEW e \in Entries, NEW t \in Texts,
           e.start \in 0..Len(Shown), t = Spliced(Shown, e.start, e.text)
    PROVE  PutIn(e) \in Buffers /\ to_slice(PutIn(e)) = t
  <1>1. e.text \in Seq(Chars) /\ Shown \in Seq(Chars)
    BY BufferText DEF Entries, Shown
  <1>2. Len(Spliced(Shown, e.start, e.text)) = Len(Shown) + Len(e.text)
    <2>1. ASSUME NEW p \in 0..Len(Shown), NEW x \in Seq(Chars)
          PROVE  Len(Spliced(Shown, p, x)) = Len(Shown) + Len(x)
      BY <1>1, SplicedIs
    <2> QED
      BY <1>1, <2>1
  <1>3. Len(t) <= MaxLen
    BY TextsAre
  <1> QED
    BY <1>1, <1>2, <1>3, InsertKeeps DEF Shown, PutIn

(* A place of the log, and a buffer that shows its text.                   *)
LEMMA PlaceOf ==
    ASSUME NEW l \in Places, NEW b, to_slice(b) = l[1]
    PROVE  At(b, l[2]) = l /\ l[1] \in Texts /\ l[2] \in Nat
  <1>1. PICK t \in Texts, p \in 0..MaxLen : l = <<t, p>>
    BY DEF Places
  <1> QED
    BY <1>1, EditorAssumption DEF At

LEMMA CursorAt ==
    ASSUME NEW l \in Places, NEW b \in Buffers, to_slice(b) = l[1], l[2] <= Len(l[1])
    PROVE  l[2] \in 0..Len(to_slice(b))
  <1>1. l[2] \in Nat /\ Len(to_slice(b)) \in Nat
    BY PlaceOf, BufferText, EditorAssumption
  <1> QED
    BY <1>1

LEMMA UndoKeeps ==
    ASSUME IInv, Undo
    PROVE  IInv' /\ At(buffer', cursor') = Last(log).from
  <1> DEFINE e == Last(undo)
             l == Last(log)
  <1>1. /\ undo # << >> /\ undo' = Front(undo) /\ log' = Front(log)
        /\ redo' = Append(redo, e) /\ undone' = Append(undone, l)
        /\ cursor' = e.cursor_before /\ anchor' = e.cursor_before
        /\ buffer' = IF e.kind = "Inserted" THEN TakeOut(e) ELSE PutIn(e)
    BY DEF Undo, SetCursor, Replayed
  <1>2. buffer \in Buffers /\ Undoes(undo, log, Shown) /\ Redoes(redo, undone, Shown)
    BY DEF IInv, TypeInv, HistoryInv
  <1>3. /\ Undoes(Front(undo), Front(log), l.from[1])
        /\ e \in Entries /\ l \in Steps /\ Fits(e, l) /\ l.to[1] = Shown
    BY <1>1, <1>2, UndoesFront
  <1> HIDE DEF e, l
  <1>4. /\ l.from \in Places /\ l.from[1] \in Texts
        /\ e.cursor_before = l.from[2] /\ l.from[2] <= Len(l.from[1])
    BY <1>3 DEF Steps, Places, Fits
  <1>5. buffer' \in Buffers /\ to_slice(buffer') = l.from[1]
    <2>1. CASE e.kind = "Inserted"
      <3>1. e.start \in 0..Len(l.from[1]) /\ Shown = Spliced(l.from[1], e.start, e.text)
        BY <2>1, <1>3 DEF Fits, With, Lacking
      <3> QED
        BY <2>1, <3>1, <1>1, <1>2, <1>3, <1>4, TakesOut
    <2>2. CASE e.kind # "Inserted"
      <3>1. e.start \in 0..Len(Shown) /\ l.from[1] = Spliced(Shown, e.start, e.text)
        BY <2>2, <1>3 DEF Fits, With, Lacking
      <3> QED
        BY <2>2, <3>1, <1>1, <1>2, <1>3, <1>4, PutsBack
    <2> QED
      BY <2>1, <2>2
  <1>6. Redoes(Append(redo, e), Append(undone, l), l.from[1])
    BY <1>2, <1>3, RedoesPush
  <1>7. At(buffer', cursor') = l.from /\ cursor' \in 0..Len(to_slice(buffer'))
    BY <1>1, <1>4, <1>5, PlaceOf, CursorAt
  <1>8. IInv'
    BY <1>1, <1>3, <1>5, <1>6, <1>7, KeepsIInv
  <1> QED
    BY <1>7, <1>8 DEF l

LEMMA RedoKeeps ==
    ASSUME IInv, Redo
    PROVE  IInv' /\ At(buffer', cursor') = Last(undone).to
  <1> DEFINE e == Last(redo)
             l == Last(undone)
  <1>1. /\ redo # << >> /\ redo' = Front(redo) /\ undone' = Front(undone)
        /\ undo' = Append(undo, e) /\ log' = Append(log, l)
        /\ cursor' = e.cursor_after /\ anchor' = e.cursor_after
        /\ buffer' = IF e.kind = "Inserted" THEN PutIn(e) ELSE TakeOut(e)
    BY DEF Redo, SetCursor, Replayed
  <1>2. buffer \in Buffers /\ Undoes(undo, log, Shown) /\ Redoes(redo, undone, Shown)
    BY DEF IInv, TypeInv, HistoryInv
  <1>3. /\ Redoes(Front(redo), Front(undone), l.to[1])
        /\ e \in Entries /\ l \in Steps /\ Fits(e, l) /\ l.from[1] = Shown
    BY <1>1, <1>2, RedoesFront
  <1> HIDE DEF e, l
  <1>4. /\ l.to \in Places /\ l.to[1] \in Texts
        /\ e.cursor_after = l.to[2] /\ l.to[2] <= Len(l.to[1])
    BY <1>3 DEF Steps, Places, Fits
  <1>5. buffer' \in Buffers /\ to_slice(buffer') = l.to[1]
    <2>1. CASE e.kind = "Inserted"
      <3>1. e.start \in 0..Len(Shown) /\ l.to[1] = Spliced(Shown, e.start, e.text)
        BY <2>1, <1>3 DEF Fits, With, Lacking
      <3> QED
        BY <2>1, <3>1, <1>1, <1>2, <1>3, <1>4, PutsBack
    <2>2. CASE e.kind # "Inserted"
      <3>1. e.start \in 0..Len(l.to[1]) /\ Shown = Spliced(l.to[1], e.start, e.text)
        BY <2>2, <1>3 DEF Fits, With, Lacking
      <3> QED
        BY <2>2, <3>1, <1>1, <1>2, <1>3, <1>4, TakesOut
    <2> QED
      BY <2>1, <2>2
  <1>6. Undoes(Append(undo, e), Append(log, l), l.to[1])
    BY <1>2, <1>3, UndoesPush
  <1>7. At(buffer', cursor') = l.to /\ cursor' \in 0..Len(to_slice(buffer'))
    BY <1>1, <1>4, <1>5, PlaceOf, CursorAt
  <1>8. IInv'
    BY <1>1, <1>3, <1>5, <1>6, <1>7, KeepsIInv
  <1> QED
    BY <1>7, <1>8 DEF l

-----------------------------------------------------------------------------
(* The invariant                                                           *)

LEMMA InitKeeps == Init => IInv
  <1> SUFFICES ASSUME Init PROVE IInv
    OBVIOUS
  <1>1. new \in Buffers /\ to_slice(new) = << >> /\ Len(<< >>) = 0
    BY BufferAssumption DEF KeepsText
  <1> QED
    BY <1>1, EmptyHistory DEF Init, IInv, TypeInv, HistoryInv, Shown

LEMMA LoadKeeps == Load => IInv' /\ (to_slice(buffer') = Decode(file'))
  <1> SUFFICES ASSUME Load PROVE IInv' /\ (to_slice(buffer') = Decode(file'))
    OBVIOUS
  <1>1. /\ file' \in Files /\ buffer' = from_slice(Decode(file'))
        /\ cursor' = 0 /\ anchor' = 0 /\ undo' = << >> /\ log' = << >>
        /\ redo' = << >> /\ undone' = << >>
    BY DEF Load, SetCursor, ClearRedo
  <1>2. Decode(file') \in Texts
    BY <1>1, EditorAssumption
  <1>3. buffer' \in Buffers /\ to_slice(buffer') = Decode(file')
    BY <1>1, <1>2, BufferAssumption DEF KeepsText
  <1>4. 0 \in 0..Len(to_slice(buffer'))
    <2>1. Len(to_slice(buffer')) \in Nat
      BY <1>3, BufferText, EditorAssumption
    <2> QED
      BY <2>1
  <1> QED
    BY <1>1, <1>3, <1>4, EmptyHistory, KeepsIInv

LEMMA InsertsKeep ==
    ASSUME PastesText, IInv, InsertChar \/ InsertNewline \/ InsertTab \/ Paste
    PROVE  IInv'
  <1>1. CASE InsertChar
    <2>1. PICK c \in Typed : DoInsert(<<c>>, "Insert")
      BY <1>1 DEF InsertChar
    <2>2. <<c>> \in Seq(Chars) /\ <<c>> # << >>
      BY EditorAssumption
    <2> QED
      BY <2>1, <2>2, DoInsertKeeps
  <1>2. CASE InsertNewline
    <2>1. PICK b \in Blanks : DoInsert(<<LF>> \o b, "no")
      BY <1>2 DEF InsertNewline
    <2>2. b \in Seq(Chars) /\ <<LF>> \in Seq(Chars) /\ <<LF>> # << >>
      BY EditorAssumption
    <2>3. <<LF>> \o b \in Seq(Chars) /\ <<LF>> \o b # << >>
      BY <2>2, ConcatProperties, ConcatEqualIffEmpty
    <2> QED
      BY <2>1, <2>3, DoInsertKeeps
  <1>3. CASE InsertTab
    <2>1. PICK b \in Blanks : b # << >> /\ DoInsert(b, "no")
      BY <1>3 DEF InsertTab
    <2>2. b \in Seq(Chars)
      BY EditorAssumption
    <2> QED
      BY <2>1, <2>2, DoInsertKeeps
  <1>4. CASE Paste
    <2>1. PICK c \in Clips : DoInsert(Pasted(c), "no")
      BY <1>4 DEF Paste
    <2>2. Pasted(c) \in Seq(Chars) /\ Pasted(c) # << >>
      BY EditorAssumption DEF PastesText
    <2> QED
      BY <2>1, <2>2, DoInsertKeeps
  <1> QED
    BY <1>1, <1>2, <1>3, <1>4

LEMMA MovesKeep ==
    ASSUME IInv, MoveTo \/ SelectAll \/ LoadFails \/ Save \/ Check \/ UNCHANGED vars
    PROVE  IInv' /\ buffer' = buffer
  <1>1. len(buffer) = Len(Shown) /\ Len(Shown) \in Nat
    BY BufferText, EditorAssumption DEF IInv, TypeInv, Shown
  <1>2. /\ buffer' = buffer
        /\ undo' = undo /\ log' = log /\ redo' = redo /\ undone' = undone
    BY DEF MoveTo, SelectAll, LoadFails, Save, Check, vars, history
  <1>3. cursor' \in 0..Len(Shown) /\ anchor' \in 0..Len(Shown)
    BY <1>1 DEF MoveTo, SelectAll, LoadFails, Save, Check, vars, history,
                IInv, TypeInv
  <1> QED
    BY <1>2, <1>3, KeepsIInv DEF IInv, TypeInv, HistoryInv, Shown

LEMMA NextKeeps == PastesText /\ IInv /\ [Next]_vars => IInv'
  BY InsertsKeep, DeleteSelectionKeeps, BackspaceKeeps, DeleteForwardKeeps,
     UndoKeeps, RedoKeeps, MovesKeep, LoadKeeps
  DEF Next

(* fedit.rs, push_undo, undo and redo: as long as what is pasted decodes   *)
(* to something, every entry of either history fits the text it will be    *)
(* applied to when its turn comes, whatever the cap has dropped.           *)
THEOREM HistoryFits ==
    ASSUME PastesText
    PROVE  Spec => []IInv
  <1>1. IInv /\ [Next]_vars => IInv'
    BY NextKeeps
  <1> QED
    BY <1>1, InitKeeps, PTL DEF Spec

(* fedit.rs, undo: each undo brings back the text and the cursor from      *)
(* before the edits of its entry, and each redo those from after them, for *)
(* every buffer that keeps its text, every cap and every sequence of       *)
(* edits, as long as what is pasted decodes to something.                  *)
THEOREM UndoAndRedoRestore ==
    ASSUME PastesText
    PROVE  Spec => UndoRestores
  <1>1. IInv => [/\ Undo => At(buffer', cursor') = Last(log).from
                 /\ Redo => At(buffer', cursor') = Last(undone).to]_vars
    BY UndoKeeps, RedoKeeps
  <1> QED
    BY <1>1, HistoryFits, PTL DEF UndoRestores

-----------------------------------------------------------------------------
(* Induction by the least counterexample                                   *)

LEMMA Least ==
    ASSUME NEW T \in SUBSET Nat, T # {}
    PROVE  \E n \in T : \A m \in T : n <= m
  <1> DEFINE R == OpToRel(<, Nat)
  <1>1. \E x \in T : \A y \in T : ~(<<y, x>> \in R)
    <2>1. IsWellFoundedOn(R, Nat)
      BY NatLessThanWellFounded
    <2> HIDE DEF R
    <2> QED
      BY <2>1, WFMin
  <1>2. PICK x \in T : \A y \in T : ~(<<y, x>> \in R)
    BY <1>1
  <1>3. ASSUME NEW y \in T PROVE x <= y
    <2>1. ~(<<y, x>> \in R)
      BY <1>2
    <2>2. <<y, x>> \in Nat \X Nat
      OBVIOUS
    <2>3. ~(y < x)
      BY <2>1, <2>2 DEF OpToRel
    <2> QED
      BY <2>3
  <1> QED
    BY <1>3

-----------------------------------------------------------------------------
(* Flattening                                                              *)

Fold(ss, f) == f = [i \in 1..Len(ss) |-> IF i = 1 THEN ss[i] ELSE f[i-1] \o ss[i]]

(* Every sequence of sequences has a fold.                                 *)
LEMMA FoldExists ==
    ASSUME NEW C, NEW ss \in Seq(Seq(C))
    PROVE  \E f \in [1..Len(ss) -> Seq(C)] : Fold(ss, f)
  <1> DEFINE F(n) == {f \in [1..n -> Seq(C)] :
                        \A i \in 1..n : f[i] = IF i = 1 THEN ss[i] ELSE f[i-1] \o ss[i]}
             T == {n \in 0..Len(ss) : F(n) = {}}
  <1>0. Len(ss) \in Nat /\ \A i \in 1..Len(ss) : ss[i] \in Seq(C)
    BY ElementOfSeq, LenProperties
  <1>1. ASSUME T # {} PROVE FALSE
    <2>1. PICK n \in T : \A m \in T : n <= m
      <3>1. T \in SUBSET Nat
        BY <1>0
      <3> HIDE DEF T
      <3> QED
        BY <3>1, <1>1, Least
    <2>2. n \in 0..Len(ss) /\ n \in Nat
      BY <2>1, <1>0
    <2>3. n # 0
      <3>1. [i \in 1..0 |-> << >>] \in F(0)
        OBVIOUS
      <3> QED
        BY <3>1, <2>1
    <2>4. n - 1 \notin T /\ n - 1 \in 0..Len(ss)
      <3> HIDE DEF T
      <3> QED
        BY <2>1, <2>2, <2>3, <1>0
    <2>5. PICK f \in [1..(n-1) -> Seq(C)] : f \in F(n - 1)
      <3>1. F(n - 1) # {}
        BY <2>4
      <3> QED
        BY <3>1
    <2> DEFINE x == IF n = 1 THEN ss[n] ELSE f[n-1] \o ss[n]
               g == [i \in 1..n |-> IF i = n THEN x ELSE f[i]]
    <2>6. x \in Seq(C)
      <3>1. ss[n] \in Seq(C)
        BY <1>0, <2>2, <2>3
      <3>2. n # 1 => f[n-1] \in Seq(C)
        BY <2>2, <2>3, <2>5
      <3> QED
        BY <3>1, <3>2, ConcatProperties
    <2>7. g \in [1..n -> Seq(C)]
      <3> HIDE DEF x
      <3>1. \A i \in 1..n : i # n => i \in 1..(n-1)
        BY <2>2
      <3> QED
        BY <2>5, <2>6, <3>1
    <2>8. ASSUME NEW i \in 1..n
          PROVE  g[i] = IF i = 1 THEN ss[i] ELSE g[i-1] \o ss[i]
      <3>1. i # 1 => i - 1 \in 1..n /\ i - 1 # n /\ i - 1 \in 1..(n-1)
        BY <2>2
      <3>2. CASE i = n
        BY <3>1, <3>2, <2>2
      <3>3. CASE i # n
        <4>1. i \in 1..(n-1)
          BY <3>3, <2>2
        <4>2. f[i] = IF i = 1 THEN ss[i] ELSE f[i-1] \o ss[i]
          BY <4>1, <2>5
        <4> QED
          BY <3>1, <3>3, <4>1, <4>2
      <3> QED
        BY <3>2, <3>3
    <2>9. g \in F(n)
      <3> HIDE DEF g
      <3> QED BY <2>7, <2>8
    <2> QED
      BY <2>1, <2>9
  <1>2. PICK f : f \in F(Len(ss))
    <2> HIDE DEF F
    <2>1. F(Len(ss)) # {}
      BY <1>1, <1>0
    <2> QED
      BY <2>1
  <1> QED
    BY <1>2 DEF Fold

LEMMA FlattenIs ==
    ASSUME NEW ss, Len(ss) # 0
    PROVE  FlattenSeq(ss) = (CHOOSE f : Fold(ss, f))[Len(ss)]
  BY DEF FlattenSeq, Fold

(* It is the only one, so it is the one that FlattenSeq takes.             *)
LEMMA FlattenFold ==
    ASSUME NEW C, NEW ss \in Seq(Seq(C)), ss # << >>
    PROVE  \E f \in [1..Len(ss) -> Seq(C)] :
              /\ \A i \in 1..Len(ss) : f[i] = IF i = 1 THEN ss[i] ELSE f[i-1] \o ss[i]
              /\ FlattenSeq(ss) = f[Len(ss)]
  <1>0. Len(ss) \in Nat /\ Len(ss) # 0
    BY EmptySeq, LenProperties
  <1> DEFINE g == CHOOSE f : Fold(ss, f)
  <1>1. Fold(ss, g) /\ FlattenSeq(ss) = g[Len(ss)]
    BY <1>0, FoldExists, FlattenIs
  <1>2. PICK f \in [1..Len(ss) -> Seq(C)] : Fold(ss, f)
    BY FoldExists
  <1>3. DOMAIN g = 1..Len(ss) /\ \A i \in 1..Len(ss) : g[i] = IF i = 1 THEN ss[i] ELSE g[i-1] \o ss[i]
    BY <1>1 DEF Fold
  <1> HIDE DEF g
  <1> DEFINE T == {n \in 1..Len(ss) : g[n] # f[n]}
  <1>4. ASSUME T # {} PROVE FALSE
    <2>1. PICK n \in T : \A m \in T : n <= m
      <3>1. T \in SUBSET Nat
        BY <1>0
      <3> HIDE DEF T
      <3> QED
        BY <3>1, <1>4, Least
    <2>2. n \in 1..Len(ss) /\ n \in Nat
      BY <1>0, <2>1
    <2>3. n = 1 \/ (n - 1 \in 1..Len(ss) /\ g[n-1] = f[n-1])
      BY <1>0, <2>1, <2>2
    <2>4. f[n] = IF n = 1 THEN ss[n] ELSE f[n-1] \o ss[n]
      BY <1>2, <2>2 DEF Fold
    <2> QED
      BY <2>1, <2>2, <2>3, <2>4, <1>3
  <1>5. g = f
    <2>1. \A i \in 1..Len(ss) : g[i] = f[i]
      BY <1>4
    <2>2. g = [i \in DOMAIN g |-> g[i]]
      BY <1>1 DEF Fold
    <2> QED
      BY <1>3, <2>1, <2>2
  <1> QED
    BY <1>1, <1>2, <1>3, <1>5

LEMMA FlattenAppend ==
    ASSUME NEW C, NEW ss \in Seq(Seq(C)), NEW x \in Seq(C)
    PROVE  /\ FlattenSeq(ss) \in Seq(C)
           /\ FlattenSeq(Append(ss, x)) = FlattenSeq(ss) \o x
  <1> DEFINE tt == Append(ss, x)
             n == Len(ss)
  <1>1. /\ tt \in Seq(Seq(C)) /\ tt # << >> /\ Len(tt) = n + 1 /\ n \in Nat
        /\ \A i \in 1..n : tt[i] = ss[i]
        /\ tt[n + 1] = x
    BY AppendProperties, LenProperties
  <1> HIDE DEF tt
  <1>2. PICK g \in [1..Len(tt) -> Seq(C)] :
              /\ \A i \in 1..Len(tt) : g[i] = IF i = 1 THEN tt[i] ELSE g[i-1] \o tt[i]
              /\ FlattenSeq(tt) = g[Len(tt)]
    BY <1>1, FlattenFold
  <1>3. CASE ss = << >>
    <2>1. FlattenSeq(ss) = << >> /\ n = 0
      BY <1>3 DEF FlattenSeq
    <2>2. FlattenSeq(tt) = x
      BY <2>1, <1>1, <1>2
    <2> QED
      BY <2>1, <2>2, ConcatEmptySeq, EmptySeq DEF tt
  <1>4. CASE ss # << >>
    <2>1. PICK f \in [1..n -> Seq(C)] :
                /\ \A i \in 1..n : f[i] = IF i = 1 THEN ss[i] ELSE f[i-1] \o ss[i]
                /\ FlattenSeq(ss) = f[n]
      BY <1>4, FlattenFold
    <2>2. n # 0
      BY <1>4, EmptySeq
    <2> DEFINE T == {i \in 1..n : f[i] # g[i]}
    <2>3. ASSUME T # {} PROVE FALSE
      <3>1. PICK i \in T : \A j \in T : i <= j
        <4>1. T \in SUBSET Nat
          BY <1>1
        <4> HIDE DEF T
        <4> QED
          BY <4>1, <2>3, Least
      <3>2. i \in 1..n /\ i \in 1..Len(tt) /\ i \in Nat
        BY <3>1, <1>1
      <3>3. i = 1 \/ (i - 1 \in 1..n /\ f[i-1] = g[i-1])
        <4>1. i # 1 => i - 1 \in 1..n /\ ~(i <= i - 1)
          BY <3>2, <1>1
        <4>2. i - 1 \in T => i <= i - 1
          <5> HIDE DEF T
          <5> QED
            BY <3>1
        <4> QED
          BY <4>1, <4>2
      <3>4. tt[i] = ss[i] /\ f[i] # g[i]
        BY <3>1, <3>2, <1>1
      <3>5. /\ f[i] = IF i = 1 THEN ss[i] ELSE f[i-1] \o ss[i]
            /\ g[i] = IF i = 1 THEN tt[i] ELSE g[i-1] \o tt[i]
        BY <3>2, <1>2, <2>1
      <3> QED
        BY <3>3, <3>4, <3>5
    <2>4. /\ n \in 1..n /\ n + 1 \in 1..Len(tt) /\ n + 1 # 1 /\ (n + 1) - 1 = n
          /\ f[n] = g[n] /\ f[n] \in Seq(C)
      <3>1. n \in 1..n /\ n + 1 \in 1..Len(tt) /\ n + 1 # 1 /\ (n + 1) - 1 = n
        BY <2>2, <1>1
      <3>2. f[n] = g[n]
        BY <3>1, <2>3
      <3>3. f[n] \in Seq(C)
        BY <3>1, <2>1
      <3> QED
        BY <3>1, <3>2, <3>3
    <2>5. g[n + 1] = g[n] \o x
      BY <2>4, <1>1, <1>2
    <2> QED
      BY <2>1, <2>4, <2>5, <1>1, <1>2 DEF tt
  <1> QED
    BY <1>3, <1>4

-----------------------------------------------------------------------------
(* Saving and opening                                                      *)

(* What a saved file is made of, and what one more character of a text or  *)
(* of a file adds to what it is written or read as.                        *)
Signs == Chars \cup {CR}
EncodeOf(c) == IF c = LF THEN <<CR, LF>> ELSE <<c>>
DecodeOf(b, x) == IF b = << >> /\ x = BOM THEN << >>
                  ELSE IF b # << >> /\ x = LF /\ Last(b) = CR THEN << >>
                  ELSE IF x = CR THEN <<LF>> ELSE <<x>>

LEMMA PiecesAppend ==
    ASSUME NEW S, NEW n \in Nat, NEW p \in [1..n -> S], NEW q \in [1..(n + 1) -> S],
           \A i \in 1..n : q[i] = p[i]
    PROVE  p \in Seq(S) /\ q = Append(p, q[n + 1])
  <1>1. p \in Seq(S) /\ q \in Seq(S) /\ n + 1 \in 1..(n + 1) /\ n + 1 \in Nat
    BY SeqDef
  <1>2. Len(p) = n /\ Len(q) = n + 1 /\ q[n + 1] \in S
    BY <1>1, LenProperties
  <1> DEFINE x == q[n + 1]
             r == Append(p, x)
  <1>3. /\ r \in Seq(S) /\ Len(r) = n + 1
        /\ \A i \in 1..n : r[i] = p[i]
        /\ r[n + 1] = x
    BY <1>1, <1>2, AppendProperties
  <1> HIDE DEF r
  <1>4. ASSUME NEW i \in 1..(n + 1) PROVE q[i] = r[i]
    <2>1. i = n + 1 \/ i \in 1..n
      OBVIOUS
    <2> QED
      BY <2>1, <1>3
  <1>5. q = r
    BY <1>1, <1>2, <1>3, <1>4, SeqEqual
  <1> QED
    BY <1>1, <1>5 DEF r

LEMMA EncodeAppend ==
    ASSUME NEW t \in Seq(Chars), NEW c \in Chars
    PROVE  /\ Encode(t) \in Seq(Signs)
           /\ Encode(Append(t, c)) = Encode(t) \o EncodeOf(c)
  <1> DEFINE n == Len(t)
             a == Append(t, c)
             p == [i \in DOMAIN t |-> EncodeOf(t[i])]
             q == [i \in DOMAIN a |-> EncodeOf(a[i])]
  <1>1. /\ n \in Nat /\ DOMAIN t = 1..n
        /\ a \in Seq(Chars) /\ Len(a) = n + 1 /\ DOMAIN a = 1..(n + 1)
        /\ \A i \in 1..n : a[i] = t[i]
        /\ a[n + 1] = c
    <2>1. /\ a \in Seq(Chars) /\ Len(a) = n + 1
          /\ \A i \in 1..n : a[i] = t[i]
          /\ a[n + 1] = c
      BY AppendProperties
    <2> HIDE DEF a
    <2> QED
      BY <2>1, LenProperties
  <1>2. ASSUME NEW d \in Chars PROVE EncodeOf(d) \in Seq(Signs)
    <2>1. d \in Signs /\ CR \in Signs /\ LF \in Signs
      BY EditorAssumption DEF Signs
    <2> HIDE DEF Signs
    <2>2. <<d>> \in Seq(Signs) /\ <<CR, LF>> \in Seq(Signs)
      BY <2>1
    <2> QED
      BY <2>2 DEF EncodeOf
  <1> HIDE DEF a
  <1>3. /\ p \in [1..n -> Seq(Signs)] /\ q \in [1..(n + 1) -> Seq(Signs)]
    <2>1. /\ \A i \in 1..n : t[i] \in Chars
          /\ \A i \in 1..(n + 1) : a[i] \in Chars
      BY <1>1, ElementOfSeq
    <2> QED
      BY <1>1, <1>2, <2>1
  <1>4. /\ \A i \in 1..n : q[i] = p[i]
        /\ q[n + 1] = EncodeOf(c)
    <2>1. /\ \A i \in 1..n : i \in 1..(n + 1)
          /\ n + 1 \in 1..(n + 1)
      BY <1>1
    <2> QED
      BY <2>1, <1>1
  <1>5. Encode(t) = FlattenSeq(p) /\ Encode(a) = FlattenSeq(q)
    BY DEF Encode, EncodeOf
  <1> HIDE DEF p, q
  <1>6. p \in Seq(Seq(Signs)) /\ q = Append(p, EncodeOf(c))
    <2>1. n \in Nat
      BY <1>1
    <2> HIDE DEF n
    <2>2. p \in Seq(Seq(Signs)) /\ q = Append(p, q[n + 1])
      BY ONLY <2>1, <1>3, <1>4, PiecesAppend
    <2> QED
      BY <2>2, <1>4
  <1>7. /\ FlattenSeq(p) \in Seq(Signs)
        /\ FlattenSeq(Append(p, EncodeOf(c))) = FlattenSeq(p) \o EncodeOf(c)
    BY <1>2, <1>6, FlattenAppend
  <1> QED
    BY <1>5, <1>6, <1>7 DEF a

LEMMA DecodeAppend ==
    ASSUME NEW b \in Seq(Signs), NEW x \in Signs
    PROVE  /\ Decode(b) \in Seq(Signs)
           /\ Decode(Append(b, x)) = Decode(b) \o DecodeOf(b, x)
  <1> DEFINE n == Len(b)
             a == Append(b, x)
             D(s, i) == CASE i = 1 /\ s[i] = BOM -> << >>
                          [] i > 1 /\ s[i] = LF /\ s[i - 1] = CR -> << >>
                          [] s[i] = CR -> <<LF>>
                          [] OTHER -> <<s[i]>>
             p == [i \in DOMAIN b |-> D(b, i)]
             q == [i \in DOMAIN a |-> D(a, i)]
  <1>1. /\ n \in Nat /\ DOMAIN b = 1..n
        /\ a \in Seq(Signs) /\ Len(a) = n + 1 /\ DOMAIN a = 1..(n + 1)
        /\ \A i \in 1..n : a[i] = b[i]
        /\ a[n + 1] = x
    <2>1. /\ a \in Seq(Signs) /\ Len(a) = n + 1
          /\ \A i \in 1..n : a[i] = b[i]
          /\ a[n + 1] = x
      BY AppendProperties
    <2> HIDE DEF a
    <2> QED
      BY <2>1, LenProperties
  <1> HIDE DEF a
  <1>2. /\ \A i \in 1..n : b[i] \in Signs
        /\ \A i \in 1..(n + 1) : a[i] \in Signs
    BY <1>1, ElementOfSeq
  <1>3. LF \in Signs /\ << >> \in Seq(Signs) /\ \A d \in Signs : <<d>> \in Seq(Signs)
    BY EditorAssumption DEF Signs
  <1>4. p \in [1..n -> Seq(Signs)]
    <2>1. ASSUME NEW i \in 1..n PROVE D(b, i) \in Seq(Signs)
      BY <1>2, <1>3
    <2> HIDE DEF D
    <2> QED
      BY <1>1, <2>1
  <1>5. q \in [1..(n + 1) -> Seq(Signs)]
    <2>1. ASSUME NEW i \in 1..(n + 1) PROVE D(a, i) \in Seq(Signs)
      BY <1>2, <1>3
    <2> HIDE DEF D
    <2> QED
      BY <1>1, <2>1
  <1>6. \A i \in 1..n : q[i] = p[i]
    <2>1. ASSUME NEW i \in 1..n PROVE D(a, i) = D(b, i)
      <3>1. a[i] = b[i] /\ (i > 1 => a[i - 1] = b[i - 1])
        <4>1. i > 1 => i - 1 \in 1..n
          BY <1>1
        <4> QED
          BY <4>1, <1>1
      <3> QED
        BY <3>1
    <2>2. \A i \in 1..n : i \in 1..(n + 1)
      BY <1>1
    <2> HIDE DEF D
    <2> QED
      BY <2>1, <2>2, <1>1
  <1>7. q[n + 1] = DecodeOf(b, x) /\ DecodeOf(b, x) \in Seq(Signs)
    <2>1. n + 1 \in 1..(n + 1) /\ (n + 1 = 1 <=> n = 0) /\ (n + 1 > 1 <=> n # 0)
          /\ (n + 1) - 1 = n
      BY <1>1
    <2>2. b = << >> <=> n = 0
      BY EmptySeq
    <2>3. n # 0 => a[n] = Last(b)
      BY <1>1 DEF Last
    <2>4. D(a, n + 1) = DecodeOf(b, x)
      <3>1. D(a, n + 1) = IF n = 0 /\ x = BOM THEN << >>
                          ELSE IF n # 0 /\ x = LF /\ a[n] = CR THEN << >>
                          ELSE IF x = CR THEN <<LF>> ELSE <<x>>
        <4>1. CASE n = 0
          BY <4>1, <1>1 DEF CR, LF, BOM
        <4>2. CASE n # 0
          BY <4>2, <2>1, <1>1 DEF CR, LF, BOM
        <4> QED
          BY <4>1, <4>2
      <3> HIDE DEF D, n
      <3> QED
        BY <3>1, <2>2, <2>3 DEF DecodeOf
    <2>5. DecodeOf(b, x) \in Seq(Signs)
      BY <1>3 DEF DecodeOf
    <2> HIDE DEF D
    <2> QED
      BY <2>1, <2>4, <2>5, <1>1
  <1>8. Decode(b) = FlattenSeq(p) /\ Decode(a) = FlattenSeq(q)
    BY DEF Decode
  <1> HIDE DEF p, q, D
  <1>9. p \in Seq(Seq(Signs)) /\ q = Append(p, DecodeOf(b, x))
    <2>1. n \in Nat
      BY <1>1
    <2> HIDE DEF n
    <2>2. p \in Seq(Seq(Signs)) /\ q = Append(p, q[n + 1])
      BY ONLY <2>1, <1>4, <1>5, <1>6, PiecesAppend
    <2> QED
      BY <2>2, <1>7
  <1>10. /\ FlattenSeq(p) \in Seq(Signs)
         /\ FlattenSeq(Append(p, DecodeOf(b, x))) = FlattenSeq(p) \o DecodeOf(b, x)
    BY <1>7, <1>9, FlattenAppend
  <1> QED
    BY <1>8, <1>9, <1>10 DEF a

(* utf8_to_codepoints drops a BOM in front, which save_to writes like any  *)
(* other character: a text that comes to begin with one is not read back.  *)
NoMarks == BOM \notin Chars

(* One more character is read back behind what is.                         *)
LEMMA ReadsBackOne ==
    ASSUME NoMarks, NEW t \in Seq(Chars), NEW c \in Chars, Decode(Encode(t)) = t
    PROVE  Decode(Encode(Append(t, c))) = Append(t, c)
  <1> DEFINE b == Encode(t)
  <1>1. b \in Seq(Signs) /\ Encode(Append(t, c)) = b \o EncodeOf(c)
    BY EncodeAppend
  <1>2. /\ CR \in Signs /\ LF \in Signs /\ c \in Signs
        /\ CR # LF /\ CR # BOM /\ c # BOM /\ c # CR
    BY EditorAssumption DEF Signs, CR, LF, BOM, NoMarks
  <1>3. Append(t, c) = t \o <<c>> /\ <<c>> \in Seq(Chars)
    BY AppendIsConcat
  <1> HIDE DEF b, Signs
  <1>4. CASE c # LF
    <2>1. b \o EncodeOf(c) = Append(b, c)
      BY <1>1, <1>2, <1>4, AppendIsConcat DEF EncodeOf
    <2>2. Decode(Append(b, c)) = Decode(b) \o DecodeOf(b, c)
      BY <1>1, <1>2, DecodeAppend
    <2>3. DecodeOf(b, c) = <<c>>
      BY <1>2, <1>4 DEF DecodeOf
    <2> QED
      BY <1>1, <1>3, <2>1, <2>2, <2>3 DEF b
  <1>5. CASE c = LF
    <2> DEFINE d == Append(b, CR)
    <2>1. d \in Seq(Signs) /\ d # << >> /\ Last(d) = CR
      <3>1. /\ d \in Seq(Signs) /\ d # << >> /\ Len(d) = Len(b) + 1
            /\ d[Len(b) + 1] = CR
        BY <1>1, <1>2, AppendProperties
      <3> QED
        BY <3>1 DEF Last
    <2>2. b \o EncodeOf(c) = Append(d, LF)
      <3>1. d = b \o <<CR>> /\ Append(d, LF) = d \o <<LF>>
        BY <1>1, <1>2, <2>1, AppendIsConcat
      <3>2. <<CR>> \in Seq(Signs) /\ <<LF>> \in Seq(Signs)
        BY <1>2
      <3>3. (b \o <<CR>>) \o <<LF>> = b \o (<<CR>> \o <<LF>>)
        BY <1>1, <3>2, ConcatAssociative
      <3>4. <<CR>> \o <<LF>> = <<CR, LF>>
        <4> DEFINE p == <<CR>> \o <<LF>>
        <4>1. Len(<<CR>>) = 1 /\ Len(<<LF>>) = 1
          OBVIOUS
        <4>2. /\ p \in Seq(Signs) /\ Len(p) = 1 + 1
              /\ \A i \in 1..(1 + 1) : p[i] = IF i <= 1 THEN <<CR>>[i] ELSE <<LF>>[i - 1]
          BY <3>2, <4>1, ConcatProperties
        <4> HIDE DEF p
        <4>3. p[1] = CR /\ p[2] = LF /\ Len(p) = 2
          BY <4>2
        <4>4. <<CR, LF>> \in Seq(Signs) /\ Len(<<CR, LF>>) = 2
          BY <1>2
        <4>5. \A i \in 1..2 : p[i] = <<CR, LF>>[i]
          BY <4>3
        <4>6. p = <<CR, LF>>
          BY <4>2, <4>3, <4>4, <4>5, SeqEqual
        <4> QED
          BY <4>6 DEF p
      <3> QED
        BY <1>5, <3>1, <3>3, <3>4 DEF EncodeOf
    <2> HIDE DEF d
    <2>3. Decode(Append(d, LF)) = Decode(d) \o DecodeOf(d, LF)
      BY <1>2, <2>1, DecodeAppend
    <2>4. Decode(d) = Decode(b) \o DecodeOf(b, CR)
      BY <1>1, <1>2, DecodeAppend DEF d
    <2>5. DecodeOf(b, CR) = <<LF>>
      BY <1>2 DEF DecodeOf
    <2>6. DecodeOf(d, LF) = << >>
      BY <2>1 DEF DecodeOf
    <2>7. Append(t, c) \in Seq(Chars)
      BY AppendProperties
    <2>8. Append(t, c) \o << >> = Append(t, c)
      BY <2>7, ConcatEmptySeq
    <2>9. Decode(d) = Append(t, c)
      BY <1>3, <1>5, <2>4, <2>5 DEF b
    <2> QED
      BY <1>1, <2>2, <2>3, <2>6, <2>8, <2>9
  <1> QED
    BY <1>4, <1>5

(* save_to and utf8_to_codepoints: every text without a BOM is read back   *)
(* from the CR LF file it is saved as.                                     *)
THEOREM SavedIsReadBack ==
    ASSUME NoMarks
    PROVE  \A t \in Seq(Chars) : Decode(Encode(t)) = t
  <1> DEFINE Lost == {t \in Seq(Chars) : Decode(Encode(t)) # t}
             T == {Len(t) : t \in Lost}
  <1>1. ASSUME T # {} PROVE FALSE
    <2>1. PICK n \in T : \A m \in T : n <= m
      <3>1. T \in SUBSET Nat
        BY LenProperties
      <3> HIDE DEF T
      <3> QED
        BY <3>1, <1>1, Least
    <2>2. PICK t \in Seq(Chars) : Decode(Encode(t)) # t /\ Len(t) = n
      BY <2>1
    <2>3. t # << >>
      <3>1. Encode(<< >>) = << >>
        BY DEF Encode, FlattenSeq
      <3>2. Decode(<< >>) = << >>
        <4> DEFINE b == << >>
                   p == [i \in DOMAIN b |->
                           CASE i = 1 /\ b[i] = BOM -> << >>
                             [] i > 1 /\ b[i] = LF /\ b[i - 1] = CR -> << >>
                             [] b[i] = CR -> <<LF>>
                             [] OTHER -> <<b[i]>>]
        <4>1. Decode(b) = FlattenSeq(p)
          BY DEF Decode
        <4>2. p \in [1..0 -> Chars]
          OBVIOUS
        <4> HIDE DEF p
        <4>3. p \in Seq(Chars)
          BY <4>2, SeqDef
        <4>4. Len(p) = 0
          BY <4>2, <4>3, LenProperties
        <4>5. p = << >>
          BY <4>3, <4>4, EmptySeq
        <4> QED
          BY <4>1, <4>4, <4>5 DEF FlattenSeq
      <3> QED
        BY <2>2, <3>1, <3>2
    <2>4. PICK s \in Seq(Chars), c \in Chars : t = Append(s, c)
      BY <2>3, SequenceEmptyOrAppend
    <2>5. Len(s) \in Nat /\ n = Len(s) + 1
      BY <2>2, <2>4, LenProperties, AppendProperties
    <2>6. Decode(Encode(s)) = s
      <3>1. Decode(Encode(s)) # s => Len(s) \in T
        OBVIOUS
      <3> HIDE DEF T
      <3> QED
        BY <2>1, <2>5, <3>1
    <2> QED
      BY <2>2, <2>4, <2>6, ReadsBackOne
  <1>2. ASSUME NEW t \in Seq(Chars) PROVE Decode(Encode(t)) = t
    BY <1>1
  <1> QED
    BY <1>2

-----------------------------------------------------------------------------
(* The flags                                                               *)

Edits ==
    \/ InsertChar \/ InsertNewline \/ InsertTab \/ Paste
    \/ DeleteSelection \/ Backspace \/ DeleteForward
    \/ Undo \/ Redo

LEMMA EditsMark == Edits => dirty' = TRUE /\ diagnostics_stale' = TRUE
  BY DEF Edits, InsertChar, InsertNewline, InsertTab, Paste, DoInsert, DeleteSelection,
         Backspace, DeleteForward, Undo, Redo, EditOf, Replayed

LEMMA FileKeeps ==
    ASSUME NoMarks, IInv, FileInv, [Next]_vars
    PROVE  FileInv'
  <1>1. CASE Edits
    BY <1>1, EditsMark DEF FileInv
  <1>2. CASE Load
    BY <1>2, LoadKeeps DEF FileInv, Shown
  <1>3. CASE Save
    <2>1. Shown \in Seq(Chars)
      BY BufferText DEF IInv, TypeInv, Shown
    <2>2. file' = Encode(Shown) /\ Shown' = Shown
      BY <1>3 DEF Save, Shown
    <2> QED
      BY <2>1, <2>2, SavedIsReadBack DEF FileInv
  <1>4. CASE MoveTo \/ SelectAll \/ LoadFails \/ Check \/ UNCHANGED vars
    <2>1. buffer' = buffer /\ dirty' = dirty /\ file' = file
      BY <1>4 DEF MoveTo, SelectAll, LoadFails, Check, vars, flags, world
    <2> QED
      BY <2>1 DEF FileInv, Shown
  <1> QED
    BY <1>1, <1>2, <1>3, <1>4 DEF Next, Edits

(* fedit.rs, dirty and diagnostics_stale: a window that is not dirty (no   *)
(* `*' in its status line) shows what opening its file again would show,   *)
(* and diagnostics of another text are marked as stale, for every buffer   *)
(* that keeps its text, every file and every sequence of edits, as long as *)
(* no text has a BOM in it and what is pasted decodes to something.        *)
THEOREM FlagsStayTrue ==
    ASSUME PastesText, NoMarks
    PROVE  Spec => FlagsAreTrue
  <1>1. Init => FileInv
    BY DEF Init, FileInv
  <1>2. IInv /\ FileInv /\ [Next]_vars => FileInv'
    BY FileKeeps
  <1>3. IInv /\ FileInv /\ [Next]_vars =>
          [/\ ~dirty' /\ file' # NoFile => Decode(file') = to_slice(buffer')
           /\ to_slice(buffer') # to_slice(buffer) => diagnostics_stale']_vars
    <2> SUFFICES ASSUME IInv, FileInv, [Next]_vars
                 PROVE  /\ ~dirty' /\ file' # NoFile => Decode(file') = to_slice(buffer')
                        /\ to_slice(buffer') # to_slice(buffer) => diagnostics_stale'
      OBVIOUS
    <2>1. ~dirty' /\ file' # NoFile => Decode(file') = to_slice(buffer')
      BY FileKeeps DEF FileInv, Shown
    <2>2. to_slice(buffer') # to_slice(buffer) => diagnostics_stale'
      <3>1. CASE Edits
        BY <3>1, EditsMark
      <3>2. CASE Load
        BY <3>2 DEF Load
      <3>3. CASE MoveTo \/ SelectAll \/ LoadFails \/ Save \/ Check \/ UNCHANGED vars
        BY <3>3, MovesKeep
      <3> QED
        BY <3>1, <3>2, <3>3 DEF Next, Edits
    <2> QED
      BY <2>1, <2>2
  <1> QED
    BY <1>1, <1>2, <1>3, HistoryFits, PTL DEF Spec, FlagsAreTrue

-----------------------------------------------------------------------------
(* Ropes                                                                   *)

(* The set of all ropes over the alphabet, however deep: leaves, and       *)
(* branches over two ropes that hold something.                            *)
CONSTANT Nodes

AreRopes ==
    /\ \A b \in Seq(Chars) : Len(b) <= LeafMax => Leaf(b) \in Nodes
    /\ \A l, r \in Nodes : TextLen(l) > 0 /\ TextLen(r) > 0 => Branch(l, r) \in Nodes
    /\ \A n \in Nodes :
          /\ Height(n) \in Nat
          /\ \/ \E b \in Seq(Chars) : Len(b) <= LeafMax /\ n = Leaf(b)
             \/ \E l, r \in Nodes : TextLen(l) > 0 /\ TextLen(r) > 0 /\ n = Branch(l, r)

(* Each function that calls itself does what is defined for it: what the   *)
(* configuration of a run sees to.                                         *)
Recursion ==
    /\ \A l, r \in Nodes : join_nodes(l, r) = JoinNodes(l, r)
    /\ \A n \in Nodes, p \in Nat : split_node(n, p) = SplitNode(n, p)
    /\ \A s \in Seq(Nodes) : s # << >> => pair(s) = Pair(s)
    /\ \A n \in Nodes, i \in Nat, j \in Int : collect_range(n, i, j) = CollectRange(n, i, j)
    /\ \A n \in Nodes, p \in Nat : char_at_node(n, p) = CharAtNode(n, p)
    /\ \A n \in Nodes, p \in Nat : count_newlines_before(n, p) = CountNewlinesBefore(n, p)
    /\ \A n \in Nodes, k \in Nat : nth_newline_pos_raw(n, k) = NthNewlinePosRaw(n, k)
    /\ \A n \in Nodes : text(n) = Text(n) /\ avl(n) = AVL(n)

RopeRules == AreRopes /\ Recursion

LEMMA LeafIs ==
    ASSUME NEW b
    PROVE  /\ IsLeaf(Leaf(b)) /\ Leaf(b).buf = b /\ TextLen(Leaf(b)) = Len(b)
           /\ NewlineCount(Leaf(b)) = CountNewlines(b)
           /\ Height(Leaf(b)) = 0 /\ BalanceFactor(Leaf(b)) = 0
  BY DEF Leaf, IsLeaf, TextLen, NewlineCount, Height, BalanceFactor

LEMMA BranchIs ==
    ASSUME NEW l, NEW r
    PROVE  /\ ~IsLeaf(Branch(l, r))
           /\ Branch(l, r).left = l /\ Branch(l, r).right = r
           /\ Branch(l, r).left_len = TextLen(l)
           /\ TextLen(Branch(l, r)) = TextLen(l) + TextLen(r)
           /\ NewlineCount(Branch(l, r)) = NewlineCount(l) + NewlineCount(r)
           /\ Height(Branch(l, r)) = 1 + Taller(Height(l), Height(r))
           /\ BalanceFactor(Branch(l, r)) = Height(l) - Height(r)
  <1>1. /\ Branch(l, r).kind = "branch"
        /\ Branch(l, r).left = l /\ Branch(l, r).right = r
        /\ Branch(l, r).left_len = TextLen(l)
        /\ Branch(l, r).total_len = TextLen(l) + TextLen(r)
        /\ Branch(l, r).total_newlines = NewlineCount(l) + NewlineCount(r)
        /\ Branch(l, r).height = 1 + Taller(Height(l), Height(r))
    BY DEF Branch
  <1>2. ~IsLeaf(Branch(l, r))
    BY <1>1 DEF IsLeaf
  <1>3. TextLen(Branch(l, r)) = TextLen(l) + TextLen(r)
    BY <1>1, <1>2 DEF TextLen
  <1>4. NewlineCount(Branch(l, r)) = NewlineCount(l) + NewlineCount(r)
    BY <1>1, <1>2 DEF NewlineCount
  <1>5. Height(Branch(l, r)) = 1 + Taller(Height(l), Height(r))
    BY <1>1, <1>2 DEF Height
  <1>6. BalanceFactor(Branch(l, r)) = Height(l) - Height(r)
    BY <1>1, <1>2 DEF BalanceFactor
  <1> QED
    BY <1>1, <1>2, <1>3, <1>4, <1>5, <1>6

(* A rope is a leaf or a branch over two ropes that hold something.        *)
LEMMA NodeIs ==
    ASSUME RopeRules, NEW n \in Nodes
    PROVE  /\ Height(n) \in Nat
           /\ IsLeaf(n) => /\ n.buf \in Seq(Chars) /\ Len(n.buf) <= LeafMax
                           /\ n = Leaf(n.buf)
           /\ ~IsLeaf(n) => /\ n.left \in Nodes /\ n.right \in Nodes
                            /\ TextLen(n.left) > 0 /\ TextLen(n.right) > 0
                            /\ n = Branch(n.left, n.right)
  <1>1. Height(n) \in Nat
    BY DEF RopeRules, AreRopes
  <1>2. CASE \E b \in Seq(Chars) : Len(b) <= LeafMax /\ n = Leaf(b)
    BY <1>1, <1>2, LeafIs
  <1>3. CASE \E l, r \in Nodes : TextLen(l) > 0 /\ TextLen(r) > 0 /\ n = Branch(l, r)
    BY <1>1, <1>3, BranchIs
  <1> QED
    BY <1>2, <1>3 DEF RopeRules, AreRopes

LEMMA ChildrenAreLower ==
    ASSUME RopeRules, NEW n \in Nodes, ~IsLeaf(n)
    PROVE  Height(n.left) < Height(n) /\ Height(n.right) < Height(n)
  <1>1. /\ n.left \in Nodes /\ n.right \in Nodes
        /\ Height(n) = 1 + Taller(Height(n.left), Height(n.right))
    BY NodeIs, BranchIs
  <1>2. Height(n.left) \in Nat /\ Height(n.right) \in Nat
    BY <1>1, NodeIs
  <1> QED
    BY <1>1, <1>2 DEF Taller

(* Induction over ropes: what fails, fails for a rope all of whose         *)
(* children are fine.                                                      *)
LEMMA RopeInduction ==
    ASSUME RopeRules, NEW L \in SUBSET Nodes,
           \A n \in L : ~IsLeaf(n) /\ (n.left \in L \/ n.right \in L)
    PROVE  L = {}
  <1> DEFINE T == {Height(n) : n \in L}
  <1>1. T \in SUBSET Nat
    BY NodeIs
  <1>2. ASSUME L # {} PROVE FALSE
    <2>1. PICK h \in T : \A k \in T : h <= k
      <3>1. T # {}
        BY <1>2
      <3> HIDE DEF T
      <3> QED
        BY <1>1, <3>1, Least
    <2>2. PICK n \in L : Height(n) = h
      BY <2>1
    <2>3. Height(n.left) < Height(n) /\ Height(n.right) < Height(n) /\ Height(n) \in Nat
      BY <2>2, ChildrenAreLower, NodeIs
    <2>4. n.left \in Nodes /\ n.right \in Nodes
      BY NodeIs
    <2>5. Height(n.left) \in Nat /\ Height(n.right) \in Nat
      BY <2>4, NodeIs
    <2>6. Height(n.left) \in T \/ Height(n.right) \in T
      OBVIOUS
    <2> HIDE DEF T
    <2> QED
      BY <2>1, <2>2, <2>3, <2>5, <2>6
  <1> QED
    BY <1>2

LEMMA Unfolded ==
    ASSUME RopeRules, NEW n \in Nodes
    PROVE  text(n) = Text(n) /\ avl(n) = AVL(n)
  BY DEF RopeRules, Recursion

(* The caches: a branch knows how long its text is.                        *)
LEMMA TextIs ==
    ASSUME RopeRules, NEW n \in Nodes
    PROVE  /\ text(n) \in Seq(Chars) /\ Len(text(n)) = TextLen(n)
           /\ TextLen(n) \in Nat
  <1> DEFINE L == {m \in Nodes : ~(text(m) \in Seq(Chars) /\ Len(text(m)) = TextLen(m)
                                   /\ TextLen(m) \in Nat)}
  <1>1. ASSUME NEW m \in L PROVE ~IsLeaf(m) /\ (m.left \in L \/ m.right \in L)
    <2>1. CASE IsLeaf(m)
      <3>1. m.buf \in Seq(Chars) /\ text(m) = m.buf /\ TextLen(m) = Len(m.buf)
        BY <2>1, NodeIs, LeafIs, Unfolded DEF Text, TextLen
      <3> QED
        BY <3>1, LenProperties
    <2>2. CASE ~IsLeaf(m)
      <3>1. /\ m.left \in Nodes /\ m.right \in Nodes
            /\ text(m) = text(m.left) \o text(m.right)
            /\ TextLen(m) = TextLen(m.left) + TextLen(m.right)
        BY <2>2, NodeIs, BranchIs, Unfolded DEF Text
      <3>2. CASE m.left \notin L /\ m.right \notin L
        <4>1. /\ text(m.left) \in Seq(Chars) /\ text(m.right) \in Seq(Chars)
              /\ Len(text(m.left)) = TextLen(m.left) /\ TextLen(m.left) \in Nat
              /\ Len(text(m.right)) = TextLen(m.right) /\ TextLen(m.right) \in Nat
          BY <3>1, <3>2
        <4>2. text(m) \in Seq(Chars)
              /\ Len(text(m)) = Len(text(m.left)) + Len(text(m.right))
          BY <3>1, <4>1, ConcatProperties
        <4>3. Len(text(m)) = TextLen(m) /\ TextLen(m) \in Nat
          BY <3>1, <4>1, <4>2
        <4>4. m \notin L
          BY <4>2, <4>3
        <4> QED
          BY <4>4
      <3> QED
        BY <2>2, <3>2
    <2> QED
      BY <2>1, <2>2
  <1>2. L \in SUBSET Nodes
    OBVIOUS
  <1>3. L = {}
    <2> HIDE DEF L
    <2> QED
      BY <1>1, <1>2, RopeInduction
  <1> QED
    BY <1>3

(* A branch over two ropes that hold something.                            *)
LEMMA BranchKeeps ==
    ASSUME RopeRules, NEW l \in Nodes, NEW r \in Nodes, TextLen(l) > 0, TextLen(r) > 0
    PROVE  /\ Branch(l, r) \in Nodes
           /\ text(Branch(l, r)) = text(l) \o text(r)
           /\ TextLen(Branch(l, r)) > 0
           /\ avl(Branch(l, r)) <=> /\ Height(l) - Height(r) \in -1..1
                                    /\ avl(l) /\ avl(r)
  <1>1. Branch(l, r) \in Nodes
    BY DEF RopeRules, AreRopes
  <1>2. text(Branch(l, r)) = text(l) \o text(r)
    <2>1. text(Branch(l, r)) = Text(Branch(l, r))
      BY <1>1, Unfolded
    <2> QED
      BY <2>1, BranchIs, ZenonT(60) DEF Text
  <1>3. TextLen(Branch(l, r)) > 0
    <2>1. TextLen(l) \in Nat /\ TextLen(r) \in Nat
      BY TextIs
    <2> QED
      BY <2>1, BranchIs
  <1>4. avl(Branch(l, r)) = AVL(Branch(l, r))
    BY <1>1, Unfolded
  <1>5. AVL(Branch(l, r)) <=> Height(l) - Height(r) \in -1..1 /\ avl(l) /\ avl(r)
    BY BranchIs DEF AVL
  <1> QED
    BY <1>1, <1>2, <1>3, <1>4, <1>5

(* A rope that is higher than another is no leaf.                          *)
LEMMA HigherIs ==
    ASSUME RopeRules, NEW n \in Nodes, Height(n) > 0
    PROVE  /\ ~IsLeaf(n) /\ n.left \in Nodes /\ n.right \in Nodes
           /\ TextLen(n.left) > 0 /\ TextLen(n.right) > 0
           /\ n = Branch(n.left, n.right)
           /\ Height(n.left) \in Nat /\ Height(n.right) \in Nat
           /\ Height(n) = 1 + Taller(Height(n.left), Height(n.right))
           /\ BalanceFactor(n) = Height(n.left) - Height(n.right)
           /\ text(n) = text(n.left) \o text(n.right)
           /\ TextLen(n) = TextLen(n.left) + TextLen(n.right)
           /\ n.left_len = TextLen(n.left)
           /\ avl(n) <=> /\ Height(n.left) - Height(n.right) \in -1..1
                         /\ avl(n.left) /\ avl(n.right)
  <1>1. ~IsLeaf(n)
    BY DEF Height
  <1>2. /\ n.left \in Nodes /\ n.right \in Nodes
        /\ TextLen(n.left) > 0 /\ TextLen(n.right) > 0
        /\ n = Branch(n.left, n.right)
    BY <1>1, NodeIs
  <1>3. Height(n.left) \in Nat /\ Height(n.right) \in Nat
    BY <1>2, NodeIs
  <1> DEFINE a == n.left
             b == n.right
  <1>4. /\ Height(n) = 1 + Taller(Height(a), Height(b))
        /\ BalanceFactor(n) = Height(a) - Height(b)
        /\ TextLen(n) = TextLen(a) + TextLen(b)
        /\ n.left_len = TextLen(a)
    <2>1. n = Branch(a, b)
      BY <1>2
    <2> HIDE DEF a, b
    <2> QED
      BY <2>1, BranchIs
  <1>5. /\ text(n) = text(a) \o text(b)
        /\ avl(n) <=> Height(a) - Height(b) \in -1..1 /\ avl(a) /\ avl(b)
    <2>1. /\ n = Branch(a, b) /\ a \in Nodes /\ b \in Nodes
          /\ TextLen(a) > 0 /\ TextLen(b) > 0
      BY <1>2
    <2> HIDE DEF a, b
    <2> QED
      BY <2>1, BranchKeeps
  <1> QED
    BY <1>1, <1>2, <1>3, <1>4, <1>5

LEMMA RotateRightIs ==
    ASSUME NEW l, NEW r
    PROVE  RotateRight(Branch(l, r)) =
             IF IsLeaf(l) THEN Branch(l, r) ELSE Branch(l.left, Branch(l.right, r))
  BY BranchIs DEF RotateRight

LEMMA RotateLeftIs ==
    ASSUME NEW l, NEW r
    PROVE  RotateLeft(Branch(l, r)) =
             IF IsLeaf(r) THEN Branch(l, r) ELSE Branch(Branch(l, r.left), r.right)
  BY BranchIs DEF RotateLeft

(* What balancing makes of a branch.                                       *)
LEMMA BalanceIs ==
    ASSUME RopeRules, NEW l \in Nodes, NEW r \in Nodes
    PROVE  LET n == Branch(l, r) IN
           /\ Height(l) - Height(r) > 1 =>
                 Balance(n) = IF BalanceFactor(l) < 0
                              THEN Branch(Branch(l.left, l.right.left),
                                          Branch(l.right.right, r))
                              ELSE Branch(l.left, Branch(l.right, r))
           /\ Height(l) - Height(r) < -1 =>
                 Balance(n) = IF BalanceFactor(r) > 0
                              THEN Branch(Branch(l, r.left.left),
                                          Branch(r.left.right, r.right))
                              ELSE Branch(Branch(l, r.left), r.right)
           /\ Height(l) - Height(r) \in -1..1 => Balance(n) = n
  <1> DEFINE n == Branch(l, r)
  <1>1. Height(l) \in Nat /\ Height(r) \in Nat
    BY NodeIs
  <1>2. n.left = l /\ n.right = r /\ BalanceFactor(n) = Height(l) - Height(r)
    BY BranchIs
  <1>3. ASSUME Height(l) - Height(r) > 1
        PROVE  Balance(n) = IF BalanceFactor(l) < 0
                            THEN Branch(Branch(l.left, l.right.left),
                                        Branch(l.right.right, r))
                            ELSE Branch(l.left, Branch(l.right, r))
    <2>1. Balance(n) = RotateRight(IF BalanceFactor(l) < 0
                                   THEN Branch(RotateLeft(l), r) ELSE n)
      <3> HIDE DEF n
      <3> QED
        BY <1>1, <1>2, <1>3 DEF Balance
    <2>2. Height(l) > 0
      BY <1>1, <1>3
    <2>3. /\ ~IsLeaf(l) /\ l.right \in Nodes /\ l = Branch(l.left, l.right)
          /\ Height(l.left) \in Nat /\ Height(l.right) \in Nat
          /\ BalanceFactor(l) = Height(l.left) - Height(l.right)
      BY <2>2, HigherIs
    <2>4. CASE BalanceFactor(l) < 0
      <3>1. Height(l.right) > 0
        BY <2>3, <2>4
      <3>2. ~IsLeaf(l.right)
        BY <2>3, <3>1, HigherIs
      <3>3. RotateLeft(l) = Branch(Branch(l.left, l.right.left), l.right.right)
        <4>1. RotateLeft(Branch(l.left, l.right))
                = Branch(Branch(l.left, l.right.left), l.right.right)
          BY <3>2, RotateLeftIs
        <4> QED
          BY <4>1, <2>3
      <3> DEFINE k == Branch(Branch(l.left, l.right.left), l.right.right)
      <3>4. ~IsLeaf(k) /\ k.left = Branch(l.left, l.right.left) /\ k.right = l.right.right
        BY BranchIs
      <3> HIDE DEF k
      <3>5. RotateRight(Branch(k, r)) = Branch(k.left, Branch(k.right, r))
        BY <3>4, RotateRightIs
      <3> QED
        BY <2>1, <2>4, <3>3, <3>4, <3>5 DEF k
    <2>5. CASE ~(BalanceFactor(l) < 0)
      BY <2>1, <2>3, <2>5, RotateRightIs
    <2> QED
      BY <2>4, <2>5
  <1>4. ASSUME Height(l) - Height(r) < -1
        PROVE  Balance(n) = IF BalanceFactor(r) > 0
                            THEN Branch(Branch(l, r.left.left),
                                        Branch(r.left.right, r.right))
                            ELSE Branch(Branch(l, r.left), r.right)
    <2>1. Balance(n) = RotateLeft(IF BalanceFactor(r) > 0
                                  THEN Branch(l, RotateRight(r)) ELSE n)
      <3> HIDE DEF n
      <3> QED
        BY <1>1, <1>2, <1>4 DEF Balance
    <2>2. Height(r) > 0
      BY <1>1, <1>4
    <2>3. /\ ~IsLeaf(r) /\ r.left \in Nodes /\ r = Branch(r.left, r.right)
          /\ Height(r.left) \in Nat /\ Height(r.right) \in Nat
          /\ BalanceFactor(r) = Height(r.left) - Height(r.right)
      BY <2>2, HigherIs
    <2>4. CASE BalanceFactor(r) > 0
      <3>1. Height(r.left) > 0
        BY <2>3, <2>4
      <3>2. ~IsLeaf(r.left)
        BY <2>3, <3>1, HigherIs
      <3>3. RotateRight(r) = Branch(r.left.left, Branch(r.left.right, r.right))
        <4>1. RotateRight(Branch(r.left, r.right))
                = Branch(r.left.left, Branch(r.left.right, r.right))
          BY <3>2, RotateRightIs
        <4> QED
          BY <4>1, <2>3
      <3> DEFINE k == Branch(r.left.left, Branch(r.left.right, r.right))
      <3>4. ~IsLeaf(k) /\ k.left = r.left.left /\ k.right = Branch(r.left.right, r.right)
        BY BranchIs
      <3> HIDE DEF k
      <3>5. RotateLeft(Branch(l, k)) = Branch(Branch(l, k.left), k.right)
        BY <3>4, RotateLeftIs
      <3> QED
        BY <2>1, <2>4, <3>3, <3>4, <3>5 DEF k
    <2>5. CASE ~(BalanceFactor(r) > 0)
      BY <2>1, <2>3, <2>5, RotateLeftIs
    <2> QED
      BY <2>4, <2>5
  <1>5. ASSUME Height(l) - Height(r) \in -1..1 PROVE Balance(n) = n
    <2> HIDE DEF n
    <2> QED
      BY <1>1, <1>2, <1>5 DEF Balance
  <1> QED
    BY <1>3, <1>4, <1>5

(* The texts of three and of four ropes, put together in either order.     *)
Regroup3(a, b, c) == (text(a) \o text(b)) \o text(c) = text(a) \o (text(b) \o text(c))
Regroup4(a, b, c, d) ==
    (text(a) \o (text(b) \o text(c))) \o text(d)
      = (text(a) \o text(b)) \o (text(c) \o text(d))

LEMMA TextsRegrouped3 ==
    ASSUME RopeRules, NEW a \in Nodes, NEW b \in Nodes, NEW c \in Nodes
    PROVE  Regroup3(a, b, c)
  <1>1. text(a) \in Seq(Chars) /\ text(b) \in Seq(Chars) /\ text(c) \in Seq(Chars)
    BY TextIs
  <1> QED
    BY <1>1, ConcatAssociative DEF Regroup3

LEMMA TextsRegrouped4 ==
    ASSUME RopeRules, NEW a \in Nodes, NEW b \in Nodes, NEW c \in Nodes, NEW d \in Nodes
    PROVE  Regroup4(a, b, c, d)
  <1>1. PICK w \in Seq(Chars), x \in Seq(Chars), y \in Seq(Chars), z \in Seq(Chars) :
           w = text(a) /\ x = text(b) /\ y = text(c) /\ z = text(d)
    BY TextIs
  <1>2. w \o (x \o y) = (w \o x) \o y
    BY ConcatAssociative, SMTT(30)
  <1>3. w \o x \in Seq(Chars)
    BY ConcatProperties
  <1>4. ((w \o x) \o y) \o z = (w \o x) \o (y \o z)
    BY <1>3, ConcatAssociative, SMTT(30)
  <1> QED
    BY <1>1, <1>2, <1>4 DEF Regroup4

(* A branch, given a name.                                                 *)
LEMMA Branched ==
    ASSUME RopeRules, NEW l \in Nodes, NEW r \in Nodes, TextLen(l) > 0, TextLen(r) > 0
    PROVE  \E n \in Nodes :
              /\ n = Branch(l, r) /\ TextLen(n) > 0 /\ text(n) = text(l) \o text(r)
              /\ Height(n) \in Nat /\ Height(n) = 1 + Taller(Height(l), Height(r))
              /\ Height(l) - Height(r) \in -1..1 /\ avl(l) /\ avl(r) => avl(n)
  <1>1. /\ Branch(l, r) \in Nodes /\ TextLen(Branch(l, r)) > 0
        /\ text(Branch(l, r)) = text(l) \o text(r)
        /\ Height(l) - Height(r) \in -1..1 /\ avl(l) /\ avl(r) => avl(Branch(l, r))
    BY BranchKeeps
  <1>2. Height(Branch(l, r)) = 1 + Taller(Height(l), Height(r))
    BY BranchIs
  <1>3. Height(Branch(l, r)) \in Nat
    BY <1>1, NodeIs
  <1> HIDE DEF Branch
  <1> QED
    BY <1>1, <1>2, <1>3

(* Rotations keep the text, balanced or not.                               *)
LEMMA BalanceText ==
    ASSUME RopeRules, NEW l \in Nodes, NEW r \in Nodes, TextLen(l) > 0, TextLen(r) > 0
    PROVE  /\ Balance(Branch(l, r)) \in Nodes
           /\ text(Balance(Branch(l, r))) = text(l) \o text(r)
  <1>1. Height(l) \in Nat /\ Height(r) \in Nat
    BY NodeIs
  <1>2. text(l) \in Seq(Chars) /\ text(r) \in Seq(Chars)
    BY TextIs
  <1>3. CASE Height(l) - Height(r) > 1
    <2>1. PICK a \in Nodes, b \in Nodes :
             /\ a = l.left /\ b = l.right /\ TextLen(a) > 0 /\ TextLen(b) > 0
             /\ text(l) = text(a) \o text(b) /\ Height(a) \in Nat /\ Height(b) \in Nat
             /\ BalanceFactor(l) = Height(a) - Height(b)
      BY <1>1, <1>3, HigherIs
    <2>2. text(a) \in Seq(Chars) /\ text(b) \in Seq(Chars)
      BY TextIs
    <2>3. CASE BalanceFactor(l) < 0
      <3>1. Height(b) > 0
        BY <2>1, <2>3
      <3>2. PICK c \in Nodes, d \in Nodes :
               /\ c = b.left /\ d = b.right /\ TextLen(c) > 0 /\ TextLen(d) > 0
               /\ text(b) = text(c) \o text(d)
        BY <3>1, HigherIs
      <3>3. text(c) \in Seq(Chars) /\ text(d) \in Seq(Chars)
        BY TextIs
      <3>4. PICK p \in Nodes : /\ p = Branch(a, c) /\ TextLen(p) > 0
                               /\ text(p) = text(a) \o text(c)
        <4>1. TextLen(a) > 0 /\ TextLen(c) > 0
          BY <2>1, <3>2
        <4> QED
          BY <4>1, Branched
      <3>5. PICK q \in Nodes : /\ q = Branch(d, r) /\ TextLen(q) > 0
                               /\ text(q) = text(d) \o text(r)
        BY <3>2, Branched, ZenonT(60)
      <3>6. Balance(Branch(l, r)) = Branch(p, q)
        BY <1>3, <2>1, <2>3, <3>2, <3>4, <3>5, BalanceIs
      <3>7. Branch(p, q) \in Nodes /\ text(Branch(p, q)) = text(p) \o text(q)
        <4>1. TextLen(p) > 0 /\ TextLen(q) > 0
          BY <3>4, <3>5
        <4> QED
          BY <4>1, Branched
      <3>8. Regroup4(a, c, d, r)
        BY TextsRegrouped4
      <3> QED
        BY <2>1, <3>2, <3>4, <3>5, <3>6, <3>7, <3>8 DEF Regroup4
    <2>4. CASE ~(BalanceFactor(l) < 0)
      <3>1. PICK q \in Nodes : /\ q = Branch(b, r) /\ TextLen(q) > 0
                               /\ text(q) = text(b) \o text(r)
        BY <2>1, Branched
      <3>2. Balance(Branch(l, r)) = Branch(a, q)
        BY <1>3, <2>1, <2>4, <3>1, BalanceIs
      <3>3. Branch(a, q) \in Nodes /\ text(Branch(a, q)) = text(a) \o text(q)
        <4>1. TextLen(a) > 0 /\ TextLen(q) > 0
          BY <2>1, <3>1
        <4> QED
          BY <4>1, Branched
      <3>4. Regroup3(a, b, r)
        BY TextsRegrouped3
      <3> QED
        BY <2>1, <3>1, <3>2, <3>3, <3>4 DEF Regroup3
    <2> QED
      BY <2>3, <2>4
  <1>4. CASE Height(l) - Height(r) < -1
    <2>1. PICK a \in Nodes, b \in Nodes :
             /\ a = r.left /\ b = r.right /\ TextLen(a) > 0 /\ TextLen(b) > 0
             /\ text(r) = text(a) \o text(b) /\ Height(a) \in Nat /\ Height(b) \in Nat
             /\ BalanceFactor(r) = Height(a) - Height(b)
      BY <1>1, <1>4, HigherIs
    <2>2. text(a) \in Seq(Chars) /\ text(b) \in Seq(Chars)
      BY TextIs
    <2>3. CASE BalanceFactor(r) > 0
      <3>1. Height(a) > 0
        BY <2>1, <2>3
      <3>2. PICK c \in Nodes, d \in Nodes :
               /\ c = a.left /\ d = a.right /\ TextLen(c) > 0 /\ TextLen(d) > 0
               /\ text(a) = text(c) \o text(d)
        BY <3>1, HigherIs
      <3>3. text(c) \in Seq(Chars) /\ text(d) \in Seq(Chars)
        BY TextIs
      <3>4. PICK p \in Nodes : /\ p = Branch(l, c) /\ TextLen(p) > 0
                               /\ text(p) = text(l) \o text(c)
        BY <3>2, Branched
      <3>5. PICK q \in Nodes : /\ q = Branch(d, b) /\ TextLen(q) > 0
                               /\ text(q) = text(d) \o text(b)
        <4>1. TextLen(d) > 0 /\ TextLen(b) > 0
          BY <2>1, <3>2
        <4> QED
          BY <4>1, Branched
      <3>6. Balance(Branch(l, r)) = Branch(p, q)
        BY <1>4, <2>1, <2>3, <3>2, <3>4, <3>5, BalanceIs
      <3>7. Branch(p, q) \in Nodes /\ text(Branch(p, q)) = text(p) \o text(q)
        <4>1. TextLen(p) > 0 /\ TextLen(q) > 0
          BY <3>4, <3>5
        <4> QED
          BY <4>1, Branched
      <3>8. Regroup4(l, c, d, b)
        BY TextsRegrouped4
      <3>9. Regroup3(l, a, b)
        BY TextsRegrouped3
      <3> QED
        BY <2>1, <3>2, <3>4, <3>5, <3>6, <3>7, <3>8, <3>9 DEF Regroup3, Regroup4
    <2>4. CASE ~(BalanceFactor(r) > 0)
      <3>1. PICK p \in Nodes : /\ p = Branch(l, a) /\ TextLen(p) > 0
                               /\ text(p) = text(l) \o text(a)
        BY <2>1, Branched
      <3>2. Balance(Branch(l, r)) = Branch(p, b)
        BY <1>4, <2>1, <2>4, <3>1, BalanceIs
      <3>3. Branch(p, b) \in Nodes /\ text(Branch(p, b)) = text(p) \o text(b)
        <4>1. TextLen(p) > 0 /\ TextLen(b) > 0
          BY <2>1, <3>1
        <4> QED
          BY <4>1, Branched
      <3>4. Regroup3(l, a, b)
        BY TextsRegrouped3
      <3> QED
        BY <2>1, <3>1, <3>2, <3>3, <3>4 DEF Regroup3
    <2> QED
      BY <2>3, <2>4
  <1>5. CASE Height(l) - Height(r) \in -1..1
    <2>1. Balance(Branch(l, r)) = Branch(l, r)
      BY <1>5, BalanceIs
    <2> QED
      BY <2>1, BranchKeeps
  <1> QED
    BY <1>1, <1>3, <1>4, <1>5

(* The heights of the double rotation.                                     *)
LEMMA DoubleHeights ==
    ASSUME NEW hl \in Nat, NEW hr \in Nat, NEW ha \in Nat, NEW hb \in Nat,
           NEW hc \in Nat, NEW hd \in Nat,
           hl - hr = 2, hl = 1 + Taller(ha, hb), ha - hb \in -1..1, ha - hb < 0,
           hb = 1 + Taller(hc, hd), hc - hd \in -1..1
    PROVE  /\ ha - hc \in -1..1 /\ hd - hr \in -1..1
           /\ 1 + Taller(ha, hc) = hl - 1 /\ 1 + Taller(hd, hr) = hl - 1
           /\ Taller(hl - 1, hl - 1) = hl - 1
  <1>1. hb = ha + 1 /\ hl = ha + 2 /\ hr = ha
    BY DEF Taller
  <1>2. /\ hc = ha \/ hc = ha - 1
        /\ hd = ha \/ hd = ha - 1
    BY <1>1 DEF Taller
  <1> QED
    BY <1>1, <1>2 DEF Taller

(* Balancing makes an AVL tree of two whose heights differ by at most two, *)
(* of their height or of one more.                                         *)
LEMMA BalanceAVL ==
    ASSUME RopeRules, NEW l \in Nodes, NEW r \in Nodes, TextLen(l) > 0, TextLen(r) > 0,
           avl(l), avl(r), Height(l) - Height(r) \in -2..2
    PROVE  LET n == Balance(Branch(l, r))
               h == Taller(Height(l), Height(r))
           IN /\ avl(n) /\ Height(n) \in {h, h + 1}
              /\ Height(l) - Height(r) \in -1..1 => Height(n) = h + 1
  <1>1. Height(l) \in Nat /\ Height(r) \in Nat
    BY NodeIs
  <1>3. CASE Height(l) - Height(r) = 2
    <2>0. Taller(Height(l), Height(r)) = Height(l)
      BY <1>1, <1>3 DEF Taller
    <2>1. PICK a \in Nodes, b \in Nodes :
             /\ a = l.left /\ b = l.right /\ TextLen(a) > 0 /\ TextLen(b) > 0
             /\ Height(a) \in Nat /\ Height(b) \in Nat
             /\ BalanceFactor(l) = Height(a) - Height(b)
             /\ Height(l) = 1 + Taller(Height(a), Height(b))
             /\ Height(a) - Height(b) \in -1..1 /\ avl(a) /\ avl(b)
      BY <1>1, <1>3, HigherIs
    <2>3. CASE BalanceFactor(l) < 0
      <3>1. Height(b) > 0
        BY <2>1, <2>3
      <3>2. PICK c \in Nodes, d \in Nodes :
               /\ c = b.left /\ d = b.right /\ TextLen(c) > 0 /\ TextLen(d) > 0
               /\ Height(c) \in Nat /\ Height(d) \in Nat
               /\ Height(b) = 1 + Taller(Height(c), Height(d))
               /\ Height(c) - Height(d) \in -1..1 /\ avl(c) /\ avl(d)
        BY <2>1, <3>1, HigherIs
      <3>3. /\ Height(a) - Height(c) \in -1..1 /\ Height(d) - Height(r) \in -1..1
            /\ 1 + Taller(Height(a), Height(c)) = Height(l) - 1
            /\ 1 + Taller(Height(d), Height(r)) = Height(l) - 1
            /\ Taller(Height(l) - 1, Height(l) - 1) = Height(l) - 1
        BY <1>1, <1>3, <2>1, <2>3, <3>2, DoubleHeights, SMTT(30)
      <3>4. PICK p \in Nodes : /\ p = Branch(a, c) /\ TextLen(p) > 0
                               /\ Height(p) = Height(l) - 1 /\ avl(p)
        BY <2>1, <3>2, <3>3, Branched
      <3>5. PICK q \in Nodes : /\ q = Branch(d, r) /\ TextLen(q) > 0
                               /\ Height(q) = Height(l) - 1 /\ avl(q)
        BY <3>2, <3>3, Branched
      <3>6. Balance(Branch(l, r)) = Branch(p, q)
        BY <1>3, <2>1, <2>3, <3>2, <3>4, <3>5, BalanceIs
      <3>7. Height(p) - Height(q) \in -1..1
        BY <1>1, <3>4, <3>5
      <3>8. /\ Height(Branch(p, q)) = 1 + Taller(Height(p), Height(q))
            /\ avl(Branch(p, q))
        <4>1. TextLen(p) > 0 /\ TextLen(q) > 0 /\ avl(p) /\ avl(q)
          BY <3>4, <3>5
        <4> QED
          BY <3>7, <4>1, Branched
      <3> QED
        BY <1>1, <1>3, <2>0, <3>3, <3>4, <3>5, <3>6, <3>8
    <2>4. CASE ~(BalanceFactor(l) < 0)
      <3>1. /\ Height(b) - Height(r) \in -1..1 /\ 1 + Taller(Height(b), Height(r)) = Height(b) + 1
            /\ Height(a) - (Height(b) + 1) \in -1..1
            /\ 1 + Taller(Height(a), Height(b) + 1) \in {Height(l), Height(l) + 1}
        BY <1>1, <1>3, <2>1, <2>4 DEF Taller
      <3>2. PICK q \in Nodes : /\ q = Branch(b, r) /\ TextLen(q) > 0
                               /\ Height(q) = Height(b) + 1 /\ avl(q)
        BY <2>1, <3>1, Branched
      <3>3. Balance(Branch(l, r)) = Branch(a, q)
        BY <1>3, <2>1, <2>4, <3>2, BalanceIs
      <3>4. /\ Height(Branch(a, q)) = 1 + Taller(Height(a), Height(q))
            /\ avl(Branch(a, q))
        <4>1. /\ TextLen(a) > 0 /\ TextLen(q) > 0 /\ avl(a) /\ avl(q)
              /\ Height(a) - Height(q) \in -1..1
          BY <2>1, <3>1, <3>2
        <4> QED
          BY <4>1, Branched
      <3> QED
        BY <1>1, <1>3, <2>0, <3>1, <3>2, <3>3, <3>4
    <2> QED
      BY <2>3, <2>4
  <1>4. CASE Height(l) - Height(r) = -2
    <2>0. Taller(Height(l), Height(r)) = Height(r) /\ Height(r) - Height(l) = 2
      BY <1>1, <1>4 DEF Taller
    <2>1. PICK a \in Nodes, b \in Nodes :
             /\ a = r.left /\ b = r.right /\ TextLen(a) > 0 /\ TextLen(b) > 0
             /\ Height(a) \in Nat /\ Height(b) \in Nat
             /\ BalanceFactor(r) = Height(a) - Height(b)
             /\ Height(r) = 1 + Taller(Height(a), Height(b))
             /\ Height(a) - Height(b) \in -1..1 /\ avl(a) /\ avl(b)
      BY <1>1, <1>4, HigherIs
    <2>3. CASE BalanceFactor(r) > 0
      <3>1. Height(a) > 0
        BY <2>1, <2>3
      <3>2. PICK c \in Nodes, d \in Nodes :
               /\ c = a.left /\ d = a.right /\ TextLen(c) > 0 /\ TextLen(d) > 0
               /\ Height(c) \in Nat /\ Height(d) \in Nat
               /\ Height(a) = 1 + Taller(Height(c), Height(d))
               /\ Height(c) - Height(d) \in -1..1 /\ avl(c) /\ avl(d)
        BY <2>1, <3>1, HigherIs
      <3>3. /\ Height(l) - Height(c) \in -1..1 /\ Height(d) - Height(b) \in -1..1
            /\ 1 + Taller(Height(l), Height(c)) = Height(r) - 1
            /\ 1 + Taller(Height(d), Height(b)) = Height(r) - 1
            /\ Taller(Height(r) - 1, Height(r) - 1) = Height(r) - 1
        <4>1. /\ Height(a) \in Nat /\ Height(b) \in Nat
              /\ Height(c) \in Nat /\ Height(d) \in Nat
          BY <2>1, <3>2
        <4>2. /\ Height(a) = Height(b) + 1 /\ Height(r) = Height(b) + 2
              /\ Height(l) = Height(b)
          BY <1>1, <1>4, <2>1, <2>3, <4>1 DEF Taller
        <4>3. /\ Height(c) = Height(b) \/ Height(c) = Height(b) - 1
              /\ Height(d) = Height(b) \/ Height(d) = Height(b) - 1
          BY <3>2, <4>1, <4>2 DEF Taller
        <4> QED
          BY <3>2, <4>1, <4>2, <4>3 DEF Taller
      <3>4. PICK p \in Nodes : /\ p = Branch(l, c) /\ TextLen(p) > 0
                               /\ Height(p) = Height(r) - 1 /\ avl(p)
        BY <3>2, <3>3, Branched
      <3>5. PICK q \in Nodes : /\ q = Branch(d, b) /\ TextLen(q) > 0
                               /\ Height(q) = Height(r) - 1 /\ avl(q)
        BY <2>1, <3>2, <3>3, Branched
      <3>6. Balance(Branch(l, r)) = Branch(p, q)
        BY <1>4, <2>1, <2>3, <3>2, <3>4, <3>5, BalanceIs
      <3>7. Height(p) - Height(q) \in -1..1
        BY <1>1, <3>4, <3>5
      <3>8. /\ Height(Branch(p, q)) = 1 + Taller(Height(p), Height(q))
            /\ avl(Branch(p, q))
        <4>1. TextLen(p) > 0 /\ TextLen(q) > 0 /\ avl(p) /\ avl(q)
          BY <3>4, <3>5
        <4> QED
          BY <3>7, <4>1, Branched
      <3> QED
        BY <1>1, <2>0, <3>3, <3>4, <3>5, <3>6, <3>8
    <2>4. CASE ~(BalanceFactor(r) > 0)
      <3>1. /\ Height(l) - Height(a) \in -1..1 /\ 1 + Taller(Height(l), Height(a)) = Height(a) + 1
            /\ (Height(a) + 1) - Height(b) \in -1..1
            /\ 1 + Taller(Height(a) + 1, Height(b)) \in {Height(r), Height(r) + 1}
        BY <1>1, <1>4, <2>1, <2>4 DEF Taller
      <3>2. PICK p \in Nodes : /\ p = Branch(l, a) /\ TextLen(p) > 0
                               /\ Height(p) = Height(a) + 1 /\ avl(p)
        BY <2>1, <3>1, Branched
      <3>3. Balance(Branch(l, r)) = Branch(p, b)
        BY <1>4, <2>1, <2>4, <3>2, BalanceIs
      <3>4. /\ Height(Branch(p, b)) = 1 + Taller(Height(p), Height(b))
            /\ avl(Branch(p, b))
        <4>1. /\ TextLen(p) > 0 /\ TextLen(b) > 0 /\ avl(p) /\ avl(b)
              /\ Height(p) - Height(b) \in -1..1
          BY <2>1, <3>1, <3>2
        <4> QED
          BY <4>1, Branched
      <3> QED
        BY <1>1, <1>4, <2>0, <3>1, <3>2, <3>3, <3>4
    <2> QED
      BY <2>3, <2>4
  <1>5. CASE Height(l) - Height(r) \in -1..1
    <2>1. Balance(Branch(l, r)) = Branch(l, r)
      BY <1>5, BalanceIs
    <2>2. /\ Height(Branch(l, r)) = 1 + Taller(Height(l), Height(r))
          /\ avl(Branch(l, r))
      BY <1>5, Branched
    <2> QED
      BY <1>1, <2>1, <2>2 DEF Taller
  <1> QED
    BY <1>1, <1>3, <1>4, <1>5

-----------------------------------------------------------------------------
(* Joining                                                                 *)

(* What join_nodes does, for ropes of any shape, and for balanced ones.    *)
Joins(l, r) ==
    LET n == join_nodes(l, r)
        h == Taller(Height(l), Height(r))
    IN /\ n \in Nodes
       /\ text(n) = text(l) \o text(r)
       /\ avl(l) /\ avl(r) => avl(n) /\ Height(n) \in {h, h + 1}

LEMMA EmptyIs ==
    ASSUME RopeRules, NEW n \in Nodes, TextLen(n) = 0
    PROVE  IsLeaf(n) /\ Height(n) = 0 /\ text(n) = << >>
  <1>1. IsLeaf(n)
    <2>1. CASE Height(n) > 0
      <3>1. /\ TextLen(n.left) > 0 /\ TextLen(n.right) > 0
            /\ TextLen(n) = TextLen(n.left) + TextLen(n.right)
            /\ n.left \in Nodes /\ n.right \in Nodes
        BY <2>1, HigherIs
      <3>2. TextLen(n.left) \in Nat /\ TextLen(n.right) \in Nat
        BY <3>1, TextIs
      <3> QED
        BY <3>1, <3>2
    <2>2. CASE ~IsLeaf(n)
      <3>1. Height(n.left) < Height(n) /\ n.left \in Nodes /\ Height(n) \in Nat
        BY <2>2, ChildrenAreLower, NodeIs
      <3>2. Height(n.left) \in Nat
        BY <3>1, NodeIs
      <3> QED
        BY <2>1, <3>1, <3>2
    <2> QED
      BY <2>2
  <1>2. text(n) \in Seq(Chars) /\ Len(text(n)) = 0
    BY TextIs
  <1>3. text(n) = << >>
    BY <1>2, EmptySeq
  <1> QED
    BY <1>1, <1>3 DEF Height

LEMMA JoinsEmpty ==
    ASSUME RopeRules, NEW l \in Nodes, NEW r \in Nodes, TextLen(l) = 0 \/ TextLen(r) = 0
    PROVE  Joins(l, r)
  <1>1. join_nodes(l, r) = IF TextLen(l) = 0 THEN r ELSE l
    BY DEF RopeRules, Recursion, JoinNodes
  <1>2. /\ text(l) \in Seq(Chars) /\ text(r) \in Seq(Chars)
        /\ Height(l) \in Nat /\ Height(r) \in Nat
    BY TextIs, NodeIs
  <1>3. CASE TextLen(l) = 0
    <2>1. Height(l) = 0 /\ text(l) = << >>
      BY <1>3, EmptyIs
    <2>2. << >> \o text(r) = text(r)
      BY <1>2, ConcatEmptySeq
    <2>3. Taller(Height(l), Height(r)) = Height(r)
      BY <1>2, <2>1 DEF Taller
    <2> QED
      BY <1>1, <1>3, <2>1, <2>2, <2>3 DEF Joins
  <1>4. CASE TextLen(l) # 0
    <2>1. Height(r) = 0 /\ text(r) = << >>
      BY <1>4, EmptyIs
    <2>2. text(l) \o << >> = text(l)
      BY <1>2, ConcatEmptySeq
    <2>3. Taller(Height(l), Height(r)) = Height(l)
      BY <1>2, <2>1 DEF Taller
    <2> QED
      BY <1>1, <1>4, <2>1, <2>2, <2>3 DEF Joins
  <1> QED
    BY <1>3, <1>4

(* Two leaves whose texts fit in one.                                      *)
LEMMA LeafKeeps ==
    ASSUME RopeRules, NEW b \in Seq(Chars), Len(b) <= LeafMax
    PROVE  Leaf(b) \in Nodes /\ text(Leaf(b)) = b /\ avl(Leaf(b))
  <1>1. Leaf(b) \in Nodes
    BY DEF RopeRules, AreRopes
  <1>2. text(Leaf(b)) = Text(Leaf(b)) /\ avl(Leaf(b)) = AVL(Leaf(b))
    BY <1>1, Unfolded
  <1> QED
    BY <1>1, <1>2, LeafIs DEF Text, AVL

LEMMA JoinsLeaves ==
    ASSUME RopeRules, NEW l \in Nodes, NEW r \in Nodes, TextLen(l) # 0, TextLen(r) # 0,
           IsLeaf(l), IsLeaf(r), TextLen(l) + TextLen(r) <= LeafMax
    PROVE  Joins(l, r)
  <1>1. join_nodes(l, r) = Leaf(l.buf \o r.buf)
    BY DEF RopeRules, Recursion, JoinNodes
  <1>2. /\ l.buf \in Seq(Chars) /\ r.buf \in Seq(Chars)
        /\ text(l) = l.buf /\ text(r) = r.buf
        /\ TextLen(l) = Len(l.buf) /\ TextLen(r) = Len(r.buf)
    BY NodeIs, Unfolded DEF Text, TextLen
  <1>3. /\ l.buf \o r.buf \in Seq(Chars)
        /\ Len(l.buf \o r.buf) = Len(l.buf) + Len(r.buf)
    BY <1>2, ConcatProperties
  <1> DEFINE b == l.buf \o r.buf
  <1>4. b \in Seq(Chars) /\ Len(b) <= LeafMax
    BY <1>2, <1>3
  <1>5. Leaf(b) \in Nodes /\ text(Leaf(b)) = b /\ avl(Leaf(b)) /\ Height(Leaf(b)) = 0
    <2> HIDE DEF b
    <2> QED
      BY <1>4, LeafKeeps, LeafIs
  <1>6. Taller(Height(l), Height(r)) = 0
    BY DEF Height, Taller
  <1> QED
    BY <1>1, <1>2, <1>5, <1>6 DEF Joins

LEMMA JoinsBranch ==
    ASSUME RopeRules, NEW l \in Nodes, NEW r \in Nodes, TextLen(l) # 0, TextLen(r) # 0,
           ~(IsLeaf(l) /\ IsLeaf(r) /\ TextLen(l) + TextLen(r) <= LeafMax),
           Height(l) - Height(r) \in -1..1
    PROVE  Joins(l, r)
  <1>1. join_nodes(l, r) = Branch(l, r)
    BY DEF RopeRules, Recursion, JoinNodes
  <1>2. TextLen(l) > 0 /\ TextLen(r) > 0
    BY TextIs
  <1>3. PICK n \in Nodes :
              /\ n = Branch(l, r) /\ text(n) = text(l) \o text(r)
              /\ Height(n) = 1 + Taller(Height(l), Height(r))
              /\ avl(l) /\ avl(r) => avl(n)
    BY <1>2, Branched
  <1>4. Taller(Height(l), Height(r)) \in Nat
    BY NodeIs DEF Taller
  <1> HIDE DEF Branch
  <1> QED
    BY <1>1, <1>3, <1>4 DEF Joins

(* One rope is two higher than the other: join_nodes goes down into it.    *)
LEMMA JoinsLower ==
    ASSUME RopeRules, NEW l \in Nodes, NEW r \in Nodes, TextLen(l) # 0, TextLen(r) # 0,
           Height(l) - Height(r) \notin -1..1, Height(l) > Height(r),
           Joins(l.right, r)
    PROVE  Joins(l, r)
  <1>1. Height(l) \in Nat /\ Height(r) \in Nat
    BY NodeIs
  <1>2. PICK a \in Nodes, b \in Nodes :
             /\ a = l.left /\ b = l.right /\ TextLen(a) > 0 /\ TextLen(b) > 0
             /\ text(l) = text(a) \o text(b) /\ Height(a) \in Nat /\ Height(b) \in Nat
             /\ Height(l) = 1 + Taller(Height(a), Height(b))
             /\ avl(l) => Height(a) - Height(b) \in -1..1 /\ avl(a) /\ avl(b)
    BY <1>1, HigherIs, SMTT(30)
  <1>3. ~IsLeaf(l)
    BY <1>1, HigherIs
  <1>4. PICK j \in Nodes :
           /\ j = join_nodes(b, r) /\ text(j) = text(b) \o text(r)
           /\ avl(b) /\ avl(r) =>
                 /\ avl(j)
                 /\ Height(j) \in {Taller(Height(b), Height(r)), Taller(Height(b), Height(r)) + 1}
    BY <1>2 DEF Joins
  <1>5. join_nodes(l, r) = Balance(Branch(a, j))
    BY <1>1, <1>2, <1>3, <1>4 DEF RopeRules, Recursion, JoinNodes
  <1>6. TextLen(j) > 0
    <2>1. /\ text(b) \in Seq(Chars) /\ text(r) \in Seq(Chars)
          /\ Len(text(b)) = TextLen(b) /\ TextLen(b) \in Nat
          /\ Len(text(r)) = TextLen(r) /\ TextLen(r) \in Nat
          /\ Len(text(j)) = TextLen(j)
      BY TextIs
    <2>2. Len(text(b) \o text(r)) = Len(text(b)) + Len(text(r))
      BY <2>1, ConcatProperties
    <2> QED
      BY <1>2, <1>4, <2>1, <2>2
  <1>7. TextLen(a) > 0
    BY <1>2
  <1>8. /\ Balance(Branch(a, j)) \in Nodes
        /\ text(Balance(Branch(a, j))) = text(a) \o text(j)
    BY <1>6, <1>7, BalanceText
  <1>9. Regroup3(a, b, r)
    BY TextsRegrouped3
  <1>10. ASSUME avl(l), avl(r)
         PROVE  /\ avl(Balance(Branch(a, j)))
                /\ Height(Balance(Branch(a, j))) \in {Height(l), Height(l) + 1}
    <2>1. avl(a) /\ avl(j)
      BY <1>2, <1>4, <1>10
    <2>2. Height(a) - Height(b) \in -1..1 /\ Taller(Height(b), Height(r)) = Height(b)
      BY <1>1, <1>2, <1>10 DEF Taller
    <2>3. Height(j) \in {Height(b), Height(b) + 1}
      BY <1>2, <1>4, <1>10, <2>2
    <2>4. Height(a) - Height(j) \in -2..2
      BY <1>2, <2>2, <2>3
    <2>5. /\ avl(Balance(Branch(a, j)))
          /\ Height(Balance(Branch(a, j)))
               \in {Taller(Height(a), Height(j)), Taller(Height(a), Height(j)) + 1}
          /\ Height(a) - Height(j) \in -1..1 =>
                Height(Balance(Branch(a, j))) = Taller(Height(a), Height(j)) + 1
      BY <1>6, <1>7, <2>1, <2>4, BalanceAVL
    <2> HIDE DEF Balance, Branch
    <2> QED
      BY <1>2, <2>2, <2>3, <2>5 DEF Taller
  <1> QED
    BY <1>1, <1>2, <1>4, <1>5, <1>8, <1>9, <1>10 DEF Joins, Regroup3, Taller

LEMMA JoinsHigher ==
    ASSUME RopeRules, NEW l \in Nodes, NEW r \in Nodes, TextLen(l) # 0, TextLen(r) # 0,
           Height(l) - Height(r) \notin -1..1, Height(l) < Height(r),
           Joins(l, r.left)
    PROVE  Joins(l, r)
  <1>1. Height(l) \in Nat /\ Height(r) \in Nat
    BY NodeIs
  <1>2. PICK a \in Nodes, b \in Nodes :
             /\ a = r.left /\ b = r.right /\ TextLen(a) > 0 /\ TextLen(b) > 0
             /\ text(r) = text(a) \o text(b) /\ Height(a) \in Nat /\ Height(b) \in Nat
             /\ Height(r) = 1 + Taller(Height(a), Height(b))
             /\ avl(r) => Height(a) - Height(b) \in -1..1 /\ avl(a) /\ avl(b)
    BY <1>1, HigherIs, SMTT(30)
  <1>3. ~IsLeaf(r)
    BY <1>1, HigherIs
  <1>4. PICK j \in Nodes :
           /\ j = join_nodes(l, a) /\ text(j) = text(l) \o text(a)
           /\ avl(l) /\ avl(a) =>
                 /\ avl(j)
                 /\ Height(j) \in {Taller(Height(l), Height(a)), Taller(Height(l), Height(a)) + 1}
    BY <1>2 DEF Joins
  <1>5. join_nodes(l, r) = Balance(Branch(j, b))
    BY <1>1, <1>2, <1>3, <1>4 DEF RopeRules, Recursion, JoinNodes
  <1>6. TextLen(j) > 0
    <2>1. /\ text(a) \in Seq(Chars) /\ text(l) \in Seq(Chars)
          /\ Len(text(a)) = TextLen(a) /\ TextLen(a) \in Nat
          /\ Len(text(l)) = TextLen(l) /\ TextLen(l) \in Nat
          /\ Len(text(j)) = TextLen(j)
      BY TextIs
    <2>2. Len(text(l) \o text(a)) = Len(text(l)) + Len(text(a))
      BY <2>1, ConcatProperties
    <2> QED
      BY <1>2, <1>4, <2>1, <2>2
  <1>7. TextLen(b) > 0
    BY <1>2
  <1>8. /\ Balance(Branch(j, b)) \in Nodes
        /\ text(Balance(Branch(j, b))) = text(j) \o text(b)
    BY <1>6, <1>7, BalanceText
  <1>9. Regroup3(l, a, b)
    BY TextsRegrouped3
  <1>10. ASSUME avl(l), avl(r)
         PROVE  /\ avl(Balance(Branch(j, b)))
                /\ Height(Balance(Branch(j, b))) \in {Height(r), Height(r) + 1}
    <2>1. avl(b) /\ avl(j)
      BY <1>2, <1>4, <1>10
    <2>2. Height(a) - Height(b) \in -1..1 /\ Taller(Height(l), Height(a)) = Height(a)
      BY <1>1, <1>2, <1>10 DEF Taller
    <2>3. Height(j) \in {Height(a), Height(a) + 1}
      BY <1>2, <1>4, <1>10, <2>2
    <2>4. Height(j) - Height(b) \in -2..2
      BY <1>2, <2>2, <2>3
    <2>5. /\ avl(Balance(Branch(j, b)))
          /\ Height(Balance(Branch(j, b)))
               \in {Taller(Height(j), Height(b)), Taller(Height(j), Height(b)) + 1}
          /\ Height(j) - Height(b) \in -1..1 =>
                Height(Balance(Branch(j, b))) = Taller(Height(j), Height(b)) + 1
      BY <1>6, <1>7, <2>1, <2>4, BalanceAVL
    <2> HIDE DEF Balance, Branch
    <2> QED
      BY <1>2, <2>2, <2>3, <2>5 DEF Taller
  <1> QED
    BY <1>1, <1>2, <1>4, <1>5, <1>8, <1>9, <1>10 DEF Joins, Regroup3, Taller

(* join_nodes puts two ropes of any shape together, and two balanced ones  *)
(* to a balanced one: by induction on the sum of the heights.              *)
LEMMA JoinKeeps ==
    ASSUME RopeRules, NEW l \in Nodes, NEW r \in Nodes
    PROVE  Joins(l, r)
  <1> DEFINE T == {k \in Nat : \E a, b \in Nodes : k = Height(a) + Height(b) /\ ~Joins(a, b)}
  <1>1. ASSUME T # {} PROVE FALSE
    <2>1. PICK h \in T : \A k \in T : h <= k
      <3>1. T \in SUBSET Nat
        OBVIOUS
      <3> HIDE DEF T
      <3> QED
        BY <1>1, <3>1, Least
    <2>2. PICK a \in Nodes, b \in Nodes : h = Height(a) + Height(b) /\ ~Joins(a, b)
      BY <2>1
    <2>3. ASSUME NEW c \in Nodes, NEW d \in Nodes, Height(c) + Height(d) < h
          PROVE  Joins(c, d)
      <3>1. Height(c) + Height(d) \in Nat
        BY NodeIs
      <3>2. Height(c) + Height(d) \notin T
        BY <2>1, <2>3, <3>1
      <3> QED
        BY <3>1, <3>2
    <2> HIDE DEF T
    <2>4. Height(a) \in Nat /\ Height(b) \in Nat
      BY NodeIs
    <2>5. CASE TextLen(a) = 0 \/ TextLen(b) = 0
      BY <2>2, <2>5, JoinsEmpty
    <2>6. CASE TextLen(a) # 0 /\ TextLen(b) # 0
      <3>1. CASE IsLeaf(a) /\ IsLeaf(b) /\ TextLen(a) + TextLen(b) <= LeafMax
        BY <2>2, <2>6, <3>1, JoinsLeaves
      <3>2. CASE /\ ~(IsLeaf(a) /\ IsLeaf(b) /\ TextLen(a) + TextLen(b) <= LeafMax)
                 /\ Height(a) - Height(b) \in -1..1
        BY <2>2, <2>6, <3>2, JoinsBranch
      <3>3. CASE Height(a) - Height(b) \notin -1..1 /\ Height(a) > Height(b)
        <4>1. Height(a) > 0
          BY <2>4, <3>3
        <4>2. a.right \in Nodes /\ ~IsLeaf(a)
          BY <4>1, HigherIs
        <4>3. Height(a.right) < Height(a) /\ Height(a.right) \in Nat
          BY <4>2, ChildrenAreLower, NodeIs
        <4>4. Joins(a.right, b)
          BY <2>2, <2>3, <2>4, <4>2, <4>3
        <4> QED
          BY <2>2, <2>6, <3>3, <4>4, JoinsLower
      <3>4. CASE Height(a) - Height(b) \notin -1..1 /\ Height(a) < Height(b)
        <4>1. Height(b) > 0
          BY <2>4, <3>4
        <4>2. b.left \in Nodes /\ ~IsLeaf(b)
          BY <4>1, HigherIs
        <4>3. Height(b.left) < Height(b) /\ Height(b.left) \in Nat
          BY <4>2, ChildrenAreLower, NodeIs
        <4>4. Joins(a, b.left)
          BY <2>2, <2>3, <2>4, <4>2, <4>3
        <4> QED
          BY <2>2, <2>6, <3>4, <4>4, JoinsHigher
      <3> QED
        BY <2>4, <3>1, <3>2, <3>3, <3>4
    <2> QED
      BY <2>5, <2>6
  <1>2. Height(l) + Height(r) \in Nat
    BY NodeIs
  <1> QED
    BY <1>1, <1>2

-----------------------------------------------------------------------------
(* Splitting                                                               *)

(* A text in two halves.                                                   *)
LEMMA Halved ==
    ASSUME NEW C, NEW t \in Seq(C), NEW p \in 0..Len(t)
    PROVE  /\ SubSeq(t, 1, p) \in Seq(C) /\ Len(SubSeq(t, 1, p)) = p
           /\ SubSeq(t, p + 1, Len(t)) \in Seq(C)
           /\ Len(SubSeq(t, p + 1, Len(t))) = Len(t) - p
           /\ SubSeq(t, 1, p) \o SubSeq(t, p + 1, Len(t)) = t
  <1> DEFINE a == SubSeq(t, 1, p)
             b == SubSeq(t, p + 1, Len(t))
  <1>1. Len(t) \in Nat /\ p \in Nat /\ 0 \in 0..Len(t) /\ p \in 0..Len(t)
        /\ Len(t) \in p..Len(t)
    BY LenProperties
  <1>2. /\ SubSeq(t, 0 + 1, p) \in Seq(C) /\ Len(SubSeq(t, 0 + 1, p)) = p - 0
        /\ \A i \in 1..(p - 0) : SubSeq(t, 0 + 1, p)[i] = t[0 + i]
    BY <1>1, PartIs
  <1>3. a \in Seq(C) /\ Len(a) = p /\ \A i \in 1..p : a[i] = t[i]
    BY <1>1, <1>2
  <1>4. b \in Seq(C) /\ Len(b) = Len(t) - p /\ \A i \in 1..(Len(t) - p) : b[i] = t[p + i]
    BY <1>1, PartIs
  <1> HIDE DEF a, b
  <1>5. /\ a \o b \in Seq(C) /\ Len(a \o b) = Len(a) + Len(b)
        /\ \A i \in 1..(Len(a) + Len(b)) :
              (a \o b)[i] = IF i <= Len(a) THEN a[i] ELSE b[i - Len(a)]
    BY <1>3, <1>4, ConcatProperties
  <1>6. Len(a \o b) = Len(t)
    BY <1>1, <1>3, <1>4, <1>5
  <1>7. ASSUME NEW i \in 1..Len(t) PROVE (a \o b)[i] = t[i]
    <2>1. (a \o b)[i] = IF i <= p THEN a[i] ELSE b[i - p]
      BY <1>1, <1>3, <1>4, <1>5
    <2>2. CASE i <= p
      BY <1>1, <1>3, <2>1, <2>2
    <2>3. CASE ~(i <= p)
      <3>1. i - p \in 1..(Len(t) - p) /\ p + (i - p) = i
        BY <1>1, <2>3
      <3> QED
        BY <1>4, <2>1, <2>3, <3>1
    <2> QED
      BY <2>2, <2>3
  <1>8. a \o b = t
    BY <1>5, <1>6, <1>7, SeqEqual
  <1> QED
    BY <1>3, <1>4, <1>8 DEF a, b

(* The halves of what was put together.                                    *)
LEMMA HalvesOf ==
    ASSUME NEW C, NEW u \in Seq(C), NEW v \in Seq(C)
    PROVE  /\ SubSeq(u \o v, 1, Len(u)) = u
           /\ SubSeq(u \o v, Len(u) + 1, Len(u \o v)) = v
  <1> DEFINE t == u \o v
             a == SubSeq(t, 1, Len(u))
             b == SubSeq(t, Len(u) + 1, Len(t))
  <1>1. Len(u) \in Nat /\ Len(v) \in Nat
    BY LenProperties
  <1>2. /\ t \in Seq(C) /\ Len(t) = Len(u) + Len(v)
        /\ \A i \in 1..(Len(u) + Len(v)) : t[i] = IF i <= Len(u) THEN u[i] ELSE v[i - Len(u)]
    BY ConcatProperties
  <1> HIDE DEF t
  <1>3. /\ 0 \in 0..Len(t) /\ Len(u) \in 0..Len(t) /\ Len(t) \in Len(u)..Len(t)
    BY <1>1, <1>2
  <1>4. /\ SubSeq(t, 0 + 1, Len(u)) \in Seq(C)
        /\ Len(SubSeq(t, 0 + 1, Len(u))) = Len(u) - 0
        /\ \A i \in 1..(Len(u) - 0) : SubSeq(t, 0 + 1, Len(u))[i] = t[0 + i]
    BY <1>1, <1>2, <1>3, PartIs
  <1>5. a \in Seq(C) /\ Len(a) = Len(u) /\ \A i \in 1..Len(u) : a[i] = t[i]
    BY <1>1, <1>4
  <1>6. /\ b \in Seq(C) /\ Len(b) = Len(t) - Len(u)
        /\ \A i \in 1..(Len(t) - Len(u)) : b[i] = t[Len(u) + i]
    BY <1>1, <1>2, <1>3, PartIs
  <1> HIDE DEF a, b
  <1>7. a = u
    <2>1. ASSUME NEW i \in 1..Len(u) PROVE a[i] = u[i]
      <3>1. i \in 1..(Len(u) + Len(v)) /\ i <= Len(u)
        BY <1>1
      <3> QED
        BY <1>2, <1>5, <3>1
    <2> QED
      BY <1>5, <2>1, SeqEqual
  <1>8. b = v
    <2>1. ASSUME NEW i \in 1..Len(v) PROVE b[i] = v[i]
      <3>1. /\ Len(u) + i \in 1..(Len(u) + Len(v)) /\ ~(Len(u) + i <= Len(u))
            /\ (Len(u) + i) - Len(u) = i /\ i \in 1..(Len(t) - Len(u))
        BY <1>1, <1>2
      <3> QED
        BY <1>2, <1>6, <3>1
    <2>2. Len(b) = Len(v)
      BY <1>1, <1>2, <1>6
    <2> QED
      BY <1>6, <2>1, <2>2, SeqEqual
  <1> QED
    BY <1>7, <1>8 DEF a, b, t

(* What split_node does at an offset of the text.                          *)
Splits(n, p) ==
    LET s == split_node(n, p)
    IN /\ s[1] \in Nodes /\ s[2] \in Nodes
       /\ text(n) = text(s[1]) \o text(s[2]) /\ TextLen(s[1]) = p
       /\ avl(n) => avl(s[1]) /\ avl(s[2])

LEMMA SplitsTo ==
    ASSUME NEW n, NEW p, NEW a \in Nodes, NEW b \in Nodes, split_node(n, p) = <<a, b>>,
           text(n) = text(a) \o text(b), TextLen(a) = p, avl(n) => avl(a) /\ avl(b)
    PROVE  Splits(n, p)
  BY DEF Splits

LEMMA EmptyLeafIs ==
    ASSUME RopeRules
    PROVE  /\ EmptyLeaf \in Nodes /\ text(EmptyLeaf) = << >> /\ TextLen(EmptyLeaf) = 0
           /\ avl(EmptyLeaf)
  <1>1. PICK e \in Seq(Chars) : e = << >> /\ Len(e) = 0 /\ Len(e) <= LeafMax
    <2>1. << >> \in Seq(Chars)
      BY EmptySeq
    <2>2. Len(<< >>) = 0
      BY <2>1, EmptySeq
    <2>3. 0 <= LeafMax
      BY LeafMaxAssumption
    <2> QED
      BY <2>1, <2>2, <2>3
  <1>2. Leaf(e) \in Nodes /\ text(Leaf(e)) = e /\ avl(Leaf(e))
    BY <1>1, LeafKeeps
  <1>3. TextLen(Leaf(e)) = 0
    BY <1>1, LeafIs
  <1>4. EmptyLeaf = Leaf(e)
    BY <1>1 DEF EmptyLeaf
  <1> HIDE DEF Leaf, EmptyLeaf
  <1> QED
    BY <1>1, <1>2, <1>3, <1>4

LEMMA SplitsAtEnds ==
    ASSUME RopeRules, NEW n \in Nodes, NEW p \in 0..TextLen(n), p = 0 \/ p = TextLen(n)
    PROVE  Splits(n, p)
  <1>1. TextLen(n) \in Nat /\ text(n) \in Seq(Chars) /\ p \in Nat
    BY TextIs
  <1>2. split_node(n, p) = IF p = 0 THEN <<EmptyLeaf, n>> ELSE <<n, EmptyLeaf>>
    BY <1>1 DEF RopeRules, Recursion, SplitNode
  <1>3. << >> \o text(n) = text(n) /\ text(n) \o << >> = text(n)
    BY <1>1, ConcatEmptySeq
  <1> HIDE DEF EmptyLeaf
  <1> QED
    BY <1>1, <1>2, <1>3, EmptyLeafIs DEF Splits

LEMMA SplitsLeaf ==
    ASSUME RopeRules, NEW n \in Nodes, NEW p \in 0..TextLen(n), IsLeaf(n)
    PROVE  Splits(n, p)
  <1>1. CASE p = 0 \/ p = TextLen(n)
    BY <1>1, SplitsAtEnds
  <1>2. CASE p # 0 /\ p # TextLen(n)
    <2>1. /\ n.buf \in Seq(Chars) /\ text(n) = n.buf /\ TextLen(n) = Len(n.buf)
          /\ Len(n.buf) <= LeafMax
      BY NodeIs, Unfolded DEF Text, TextLen
    <2>2. Len(n.buf) \in Nat /\ p \in Nat /\ p \in 0..Len(n.buf) /\ p < Len(n.buf)
      BY <1>2, <2>1, LenProperties
    <2> DEFINE a == SubSeq(n.buf, 1, p)
               b == SubSeq(n.buf, p + 1, Len(n.buf))
    <2>3. /\ a \in Seq(Chars) /\ b \in Seq(Chars) /\ Len(a) = p
          /\ Len(b) = Len(n.buf) - p /\ a \o b = n.buf
      BY <2>1, <2>2, Halved
    <2>4. split_node(n, p) = <<Leaf(a), Leaf(b)>>
      BY <1>2, <2>1, <2>2 DEF RopeRules, Recursion, SplitNode
    <2> HIDE DEF a, b
    <2>5. Len(a) <= LeafMax /\ Len(b) <= LeafMax
      BY <2>1, <2>2, <2>3, LeafMaxAssumption
    <2>6. Leaf(a) \in Nodes /\ text(Leaf(a)) = a /\ avl(Leaf(a)) /\ TextLen(Leaf(a)) = p
      BY <2>3, <2>5, LeafKeeps, LeafIs
    <2>7. Leaf(b) \in Nodes /\ text(Leaf(b)) = b /\ avl(Leaf(b))
      BY <2>3, <2>5, LeafKeeps
    <2> HIDE DEF Leaf
    <2> QED
      BY <2>1, <2>3, <2>4, <2>6, <2>7 DEF Splits
  <1> QED
    BY <1>1, <1>2

LEMMA SplitsBranch ==
    ASSUME RopeRules, NEW n \in Nodes, ~IsLeaf(n),
           \A q \in 0..TextLen(n.left) : Splits(n.left, q),
           \A q \in 0..TextLen(n.right) : Splits(n.right, q),
           NEW p \in 0..TextLen(n)
    PROVE  Splits(n, p)
  <1>1. Height(n) > 0
    BY ChildrenAreLower, NodeIs
  <1>2. PICK a \in Nodes, b \in Nodes :
           /\ a = n.left /\ b = n.right
           /\ text(n) = text(a) \o text(b) /\ TextLen(n) = TextLen(a) + TextLen(b)
           /\ n.left_len = TextLen(a)
           /\ avl(n) => avl(a) /\ avl(b)
    BY <1>1, HigherIs
  <1>3. TextLen(a) \in Nat /\ TextLen(b) \in Nat /\ TextLen(n) \in Nat /\ p \in Nat
    BY TextIs
  <1>4. CASE p = 0 \/ p = TextLen(n)
    BY <1>4, SplitsAtEnds
  <1>5. CASE p # 0 /\ p # TextLen(n) /\ p = TextLen(a)
    <2>1. split_node(n, p) = <<a, b>>
      BY <1>2, <1>3, <1>5 DEF RopeRules, Recursion, SplitNode
    <2> QED
      BY <1>2, <1>5, <2>1 DEF Splits
  <1>6. CASE p # 0 /\ p # TextLen(n) /\ p < TextLen(a)
    <2>1. PICK c \in Nodes, d \in Nodes :
             /\ c = split_node(a, p)[1] /\ d = split_node(a, p)[2]
             /\ text(a) = text(c) \o text(d) /\ TextLen(c) = p
             /\ avl(a) => avl(c) /\ avl(d)
      BY <1>2, <1>3, <1>6 DEF Splits
    <2>2. Joins(d, b)
      BY JoinKeeps
    <2>3. PICK j \in Nodes : /\ j = join_nodes(d, b) /\ text(j) = text(d) \o text(b)
                             /\ avl(d) /\ avl(b) => avl(j)
      BY <2>2 DEF Joins
    <2>4. split_node(n, p) = <<c, j>>
      BY <1>2, <1>3, <1>6, <2>1, <2>3 DEF RopeRules, Recursion, SplitNode
    <2>5. Regroup3(c, d, b)
      BY TextsRegrouped3
    <2>6. text(n) = text(c) \o text(j)
      BY <1>2, <2>1, <2>3, <2>5 DEF Regroup3
    <2>7. avl(n) => avl(c) /\ avl(j)
      BY <1>2, <2>1, <2>3
    <2>8. TextLen(c) = p
      BY <2>1
    <2> QED
      BY <2>4, <2>6, <2>7, <2>8, SplitsTo
  <1>7. CASE p # 0 /\ p # TextLen(n) /\ p > TextLen(a)
    <2>0. p - TextLen(a) \in 0..TextLen(b)
      BY <1>2, <1>3, <1>7
    <2>1. PICK c \in Nodes, d \in Nodes :
             /\ c = split_node(b, p - TextLen(a))[1] /\ d = split_node(b, p - TextLen(a))[2]
             /\ text(b) = text(c) \o text(d) /\ TextLen(c) = p - TextLen(a)
             /\ avl(b) => avl(c) /\ avl(d)
      <3>1. Splits(b, p - TextLen(a))
        BY <1>2, <2>0
      <3> HIDE DEF TextLen
      <3> QED
        BY <3>1 DEF Splits
    <2>2. Joins(a, c)
      BY JoinKeeps
    <2>3. PICK j \in Nodes : /\ j = join_nodes(a, c) /\ text(j) = text(a) \o text(c)
                             /\ avl(a) /\ avl(c) => avl(j)
      BY <2>2 DEF Joins
    <2>4. split_node(n, p) = <<j, d>>
      <3>1. split_node(n, p) = SplitNode(n, p)
        BY <1>3 DEF RopeRules, Recursion
      <3>2. n.left = a /\ n.right = b /\ n.left_len = TextLen(a)
        BY <1>2
      <3>3. p # 0 /\ ~(p >= TextLen(n)) /\ p # TextLen(a) /\ ~(p < TextLen(a))
        BY <1>3, <1>7
      <3>4. SplitNode(n, p) = LET s == split_node(b, p - TextLen(a))
                              IN <<join_nodes(a, s[1]), s[2]>>
        BY <3>2, <3>3 DEF SplitNode
      <3> QED
        BY <2>1, <2>3, <3>1, <3>4
    <2>5. Regroup3(a, c, d)
      BY TextsRegrouped3
    <2>6. TextLen(j) = p
      <3>1. /\ text(a) \in Seq(Chars) /\ text(c) \in Seq(Chars)
            /\ Len(text(a)) = TextLen(a) /\ Len(text(c)) = TextLen(c)
            /\ Len(text(j)) = TextLen(j)
        BY TextIs
      <3>2. Len(text(a) \o text(c)) = Len(text(a)) + Len(text(c))
        BY <3>1, ConcatProperties
      <3> QED
        BY <1>3, <2>1, <2>3, <3>1, <3>2
    <2>7. text(n) = text(j) \o text(d)
      BY <1>2, <2>1, <2>3, <2>5 DEF Regroup3
    <2>8. avl(n) => avl(j) /\ avl(d)
      BY <1>2, <2>1, <2>3
    <2> QED
      BY <2>4, <2>6, <2>7, <2>8, SplitsTo
  <1> QED
    BY <1>3, <1>4, <1>5, <1>6, <1>7

(* split_node cuts a rope of any shape in two, and a balanced one in two   *)
(* balanced ones.                                                          *)
LEMMA SplitKeeps ==
    ASSUME RopeRules, NEW n \in Nodes, NEW p \in 0..TextLen(n)
    PROVE  Splits(n, p)
  <1> DEFINE L == {m \in Nodes : \E q \in 0..TextLen(m) : ~Splits(m, q)}
  <1>1. ASSUME NEW m \in L PROVE ~IsLeaf(m) /\ (m.left \in L \/ m.right \in L)
    <2>1. PICK q \in 0..TextLen(m) : ~Splits(m, q)
      OBVIOUS
    <2>2. ~IsLeaf(m)
      BY <2>1, SplitsLeaf
    <2>3. m.left \in Nodes /\ m.right \in Nodes
      BY <2>2, NodeIs
    <2>4. CASE m.left \notin L /\ m.right \notin L
      <3>1. /\ \A k \in 0..TextLen(m.left) : Splits(m.left, k)
            /\ \A k \in 0..TextLen(m.right) : Splits(m.right, k)
        BY <2>3, <2>4
      <3>2. m \in Nodes
        OBVIOUS
      <3> HIDE DEF L
      <3> QED
        BY <2>1, <2>2, <3>1, <3>2, SplitsBranch
    <2> QED
      BY <2>2, <2>4
  <1>2. L \in SUBSET Nodes
    OBVIOUS
  <1>3. L = {}
    <2> HIDE DEF L
    <2> QED
      BY <1>1, <1>2, RopeInduction
  <1> QED
    BY <1>3

-----------------------------------------------------------------------------
(* Building                                                                *)

(* Two neighbouring parts of a text.                                       *)
LEMMA PartsJoin ==
    ASSUME NEW C, NEW t \in Seq(C), NEW p \in 0..Len(t), NEW q \in p..Len(t),
           NEW r \in q..Len(t)
    PROVE  SubSeq(t, p + 1, q) \o SubSeq(t, q + 1, r) = SubSeq(t, p + 1, r)
  <1> DEFINE a == SubSeq(t, p + 1, q)
             b == SubSeq(t, q + 1, r)
             c == SubSeq(t, p + 1, r)
  <1>1. /\ Len(t) \in Nat /\ p \in Nat /\ q \in Nat /\ r \in Nat
        /\ q \in 0..Len(t) /\ r \in p..Len(t)
    BY LenProperties
  <1>2. a \in Seq(C) /\ Len(a) = q - p /\ \A i \in 1..(q - p) : a[i] = t[p + i]
    BY <1>1, PartIs
  <1>3. b \in Seq(C) /\ Len(b) = r - q /\ \A i \in 1..(r - q) : b[i] = t[q + i]
    BY <1>1, PartIs
  <1>4. c \in Seq(C) /\ Len(c) = r - p /\ \A i \in 1..(r - p) : c[i] = t[p + i]
    BY <1>1, PartIs
  <1> HIDE DEF a, b, c
  <1>5. /\ a \o b \in Seq(C) /\ Len(a \o b) = Len(a) + Len(b)
        /\ \A i \in 1..(Len(a) + Len(b)) :
              (a \o b)[i] = IF i <= Len(a) THEN a[i] ELSE b[i - Len(a)]
    BY <1>2, <1>3, ConcatProperties
  <1>6. Len(a \o b) = Len(c) /\ Len(c) = r - p
    BY <1>1, <1>2, <1>3, <1>4, <1>5
  <1>7. ASSUME NEW i \in 1..(r - p) PROVE (a \o b)[i] = c[i]
    <2>1. (a \o b)[i] = IF i <= q - p THEN a[i] ELSE b[i - (q - p)]
      BY <1>1, <1>2, <1>3, <1>5, SMTT(30)
    <2>2. CASE i <= q - p
      BY <1>1, <1>2, <1>4, <2>1, <2>2
    <2>3. CASE ~(i <= q - p)
      <3>1. i - (q - p) \in 1..(r - q) /\ q + (i - (q - p)) = p + i
        BY <1>1, <2>3
      <3> QED
        BY <1>3, <1>4, <2>1, <2>3, <3>1
    <2> QED
      BY <2>2, <2>3
  <1>8. a \o b = c
    BY <1>4, <1>5, <1>6, <1>7, SeqEqual
  <1> QED
    BY <1>8 DEF a, b, c

(* The ropes of s hold t, cut at the offsets f.                            *)
Cuts(s, f, t) ==
    /\ s \in Seq(Nodes) /\ Len(s) > 0 /\ t \in Seq(Chars)
    /\ f \in [0..Len(s) -> 0..Len(t)] /\ f[0] = 0 /\ f[Len(s)] = Len(t)
    /\ \A i \in 1..Len(s) : /\ f[i - 1] < f[i]
                            /\ text(s[i]) = SubSeq(t, f[i - 1] + 1, f[i])

(* All are balanced, at most four, and of one height; of two, the second   *)
(* may be one lower.                                                       *)
Even(s) ==
    /\ Len(s) <= 4
    /\ \A i \in 1..Len(s) : avl(s[i])
    /\ \A i \in 1..Len(s) : \/ Height(s[i]) = Height(s[1])
                            \/ i = 2 /\ Len(s) = 2 /\ Height(s[i]) = Height(s[1]) - 1

Round(s) ==
    [i \in 1..((Len(s) + 1) \div 2) |->
       IF 2 * i <= Len(s) THEN Branch(s[2 * i - 1], s[2 * i]) ELSE s[2 * i - 1]]

LEMMA Half ==
    ASSUME NEW n \in Nat
    PROVE  \E m \in Nat : m = (n + 1) \div 2 /\ (2 * m = n \/ 2 * m = n + 1)
  OBVIOUS

LEMMA Held ==
    ASSUME RopeRules, NEW s, NEW f, NEW t, Cuts(s, f, t), NEW i \in 1..Len(s)
    PROVE  /\ s[i] \in Nodes /\ TextLen(s[i]) > 0 /\ Height(s[i]) \in Nat
           /\ i - 1 \in 0..Len(s) /\ i \in 0..Len(s)
           /\ f[i - 1] \in 0..Len(t) /\ f[i] \in f[i - 1]..Len(t)
           /\ Len(t) \in Nat /\ Len(s) \in Nat
  <1>1. Len(t) \in Nat /\ Len(s) \in Nat /\ s[i] \in Nodes
    BY LenProperties, ElementOfSeq DEF Cuts
  <1>2. i - 1 \in 0..Len(s) /\ i \in 0..Len(s)
    BY <1>1
  <1>3. f[i - 1] \in 0..Len(t) /\ f[i] \in 0..Len(t) /\ f[i - 1] < f[i]
    BY <1>2 DEF Cuts
  <1>4. f[i] \in f[i - 1]..Len(t)
    BY <1>1, <1>3
  <1>5. Len(SubSeq(t, f[i - 1] + 1, f[i])) = f[i] - f[i - 1]
    BY <1>3, <1>4, PartIs DEF Cuts
  <1>6. TextLen(s[i]) = f[i] - f[i - 1]
    <2>1. TextLen(s[i]) = Len(text(s[i]))
      BY <1>1, TextIs
    <2> QED
      BY <1>5, <2>1 DEF Cuts
  <1>7. Height(s[i]) \in Nat
    BY <1>1, NodeIs
  <1> QED
    BY <1>1, <1>2, <1>3, <1>4, <1>6, <1>7

(* The i-th rope of the next round.                                        *)
LEMMA RoundPart ==
    ASSUME RopeRules, NEW s, NEW f, NEW t, Cuts(s, f, t), Len(s) > 1,
           NEW i \in 1..((Len(s) + 1) \div 2)
    PROVE  LET k == LesserOf(2 * i, Len(s))
               n == IF 2 * i <= Len(s) THEN Branch(s[2 * i - 1], s[2 * i])
                    ELSE s[2 * i - 1]
           IN /\ n \in Nodes
              /\ 2 * i - 2 \in 0..Len(s) /\ k \in 0..Len(s)
              /\ f[2 * i - 2] < f[k]
              /\ text(n) = SubSeq(t, f[2 * i - 2] + 1, f[k])
  <1>1. Len(s) \in Nat /\ i \in Nat
    BY LenProperties DEF Cuts
  <1>2. 2 * i <= Len(s) + 1 /\ i >= 1
    BY <1>1, Half
  <1> DEFINE j == 2 * i - 1
  <1>3. /\ j \in 1..Len(s) /\ j - 1 = 2 * i - 2 /\ j + 1 = 2 * i
        /\ 2 * i - 2 \in 0..Len(s)
    BY <1>1, <1>2
  <1> HIDE DEF j
  <1>4. /\ s[j] \in Nodes /\ TextLen(s[j]) > 0
        /\ f[j - 1] \in 0..Len(t) /\ f[j] \in f[j - 1]..Len(t) /\ Len(t) \in Nat
    BY <1>3, Held
  <1>5. f[j - 1] < f[j] /\ text(s[j]) = SubSeq(t, f[j - 1] + 1, f[j])
    BY <1>3 DEF Cuts
  <1>6. CASE 2 * i <= Len(s)
    <2>1. j + 1 \in 1..Len(s) /\ (j + 1) - 1 = j
      BY <1>1, <1>3, <1>6
    <2>2. /\ s[j + 1] \in Nodes /\ TextLen(s[j + 1]) > 0
          /\ f[j + 1] \in f[j]..Len(t)
      BY <2>1, Held
    <2>3. f[j] < f[j + 1] /\ text(s[j + 1]) = SubSeq(t, f[j] + 1, f[j + 1])
      BY <2>1 DEF Cuts
    <2>4. /\ Branch(s[j], s[j + 1]) \in Nodes
          /\ text(Branch(s[j], s[j + 1])) = text(s[j]) \o text(s[j + 1])
      BY <1>4, <2>2, BranchKeeps
    <2>5. t \in Seq(Chars)
      BY DEF Cuts
    <2>6. SubSeq(t, f[j - 1] + 1, f[j]) \o SubSeq(t, f[j] + 1, f[j + 1])
            = SubSeq(t, f[j - 1] + 1, f[j + 1])
      BY <1>4, <2>2, <2>5, PartsJoin
    <2>7. LesserOf(2 * i, Len(s)) = j + 1 /\ j + 1 \in 0..Len(s)
      BY <1>1, <1>3, <1>6, <2>1 DEF LesserOf
    <2>8. f[j - 1] < f[j + 1]
      BY <1>4, <1>5, <2>2, <2>3
    <2> HIDE DEF Branch
    <2> QED
      BY <1>3, <1>5, <1>6, <2>3, <2>4, <2>6, <2>7, <2>8 DEF j
  <1>7. CASE ~(2 * i <= Len(s))
    <2>1. LesserOf(2 * i, Len(s)) = j /\ j \in 0..Len(s)
      BY <1>1, <1>2, <1>3, <1>7 DEF LesserOf
    <2> QED
      BY <1>3, <1>4, <1>5, <1>7, <2>1 DEF j
  <1> QED
    BY <1>6, <1>7

(* A round of pairing holds the same text in about half as many ropes.     *)
LEMMA RoundCuts ==
    ASSUME RopeRules, NEW s, NEW f, NEW t, Cuts(s, f, t), Len(s) > 1
    PROVE  /\ \E g : Cuts(Round(s), g, t)
           /\ Len(Round(s)) < Len(s) /\ Len(Round(s)) = (Len(s) + 1) \div 2
  <1>1. PICK n \in Nat : n = Len(s) /\ n > 1
    BY LenProperties DEF Cuts
  <1>2. PICK m \in Nat : m = (n + 1) \div 2 /\ (2 * m = n \/ 2 * m = n + 1)
    BY Half
  <1> DEFINE N(i) == IF 2 * i <= Len(s) THEN Branch(s[2 * i - 1], s[2 * i])
                     ELSE s[2 * i - 1]
             k(i) == LesserOf(2 * i, Len(s))
             g == [i \in 0..m |-> f[k(i)]]
             r == Round(s)
  <1>3. ASSUME NEW i \in 1..m
        PROVE  /\ N(i) \in Nodes
               /\ 2 * i - 2 \in 0..Len(s) /\ k(i) \in 0..Len(s)
               /\ f[2 * i - 2] < f[k(i)]
               /\ text(N(i)) = SubSeq(t, f[2 * i - 2] + 1, f[k(i)])
    <2>1. i \in 1..((Len(s) + 1) \div 2)
      BY <1>1, <1>2
    <2> QED
      BY <1>1, <2>1, RoundPart
  <1>4. r = [i \in 1..m |-> N(i)]
    BY <1>1, <1>2 DEF Round
  <1>5. r \in Seq(Nodes) /\ Len(r) = m /\ \A i \in 1..m : r[i] = N(i)
    <2> HIDE DEF r, N
    <2>1. r \in [1..m -> Nodes]
      BY <1>3, <1>4
    <2>2. r \in Seq(Nodes)
      BY <2>1, SeqDef
    <2>3. Len(r) = m
      BY <2>1, <2>2, LenProperties
    <2> QED
      BY <1>4, <2>2, <2>3
  <1>6. \A i \in 0..m : k(i) \in 0..Len(s)
    BY <1>1, <1>2 DEF LesserOf
  <1>7. g \in [0..m -> 0..Len(t)]
    <2> HIDE DEF k
    <2> QED
      BY <1>6 DEF Cuts
  <1>8. k(0) = 0 /\ k(m) = Len(s) /\ 0 \in 0..m /\ m \in 0..m
    BY <1>1, <1>2 DEF LesserOf
  <1>9. g[0] = 0 /\ g[m] = Len(t)
    <2> HIDE DEF k
    <2> QED
      BY <1>8 DEF Cuts
  <1>10. ASSUME NEW i \in 1..m
         PROVE  g[i - 1] < g[i] /\ text(r[i]) = SubSeq(t, g[i - 1] + 1, g[i])
    <2>1. i - 1 \in 0..m /\ i \in 0..m /\ k(i - 1) = 2 * i - 2
      BY <1>1, <1>2 DEF LesserOf
    <2>2. g[i - 1] = f[2 * i - 2] /\ g[i] = f[k(i)]
      <3> HIDE DEF k
      <3> QED
        BY <2>1
    <2> HIDE DEF g, k, N, r
    <2> QED
      BY <1>3, <1>5, <2>2
  <1>11. Cuts(r, g, t)
    <2>1. m > 0
      BY <1>1, <1>2
    <2>2. t \in Seq(Chars)
      BY DEF Cuts
    <2> HIDE DEF g, r
    <2> QED
      BY <1>5, <1>7, <1>9, <1>10, <2>1, <2>2 DEF Cuts
  <1>12. Len(r) < Len(s) /\ Len(r) = (Len(s) + 1) \div 2
    BY <1>1, <1>2, <1>5
  <1> HIDE DEF g, r
  <1> QED
    BY <1>11, <1>12 DEF r

LEMMA RoundEven ==
    ASSUME RopeRules, NEW s, NEW f, NEW t, Cuts(s, f, t), Len(s) > 1, Even(s)
    PROVE  Even(Round(s))
  <1>1. Len(s) \in {2, 3, 4}
    <2>1. PICK n \in Nat : n = Len(s)
      BY LenProperties DEF Cuts
    <2>2. n > 1 /\ n <= 4
      BY <2>1 DEF Even
    <2>3. n \in {2, 3, 4}
      BY <2>2
    <2> QED
      BY <2>1, <2>3
  <1>2. Len(Round(s)) = (Len(s) + 1) \div 2
    BY RoundCuts
  <1>3. ASSUME NEW i \in 1..Len(s)
        PROVE  /\ s[i] \in Nodes /\ TextLen(s[i]) > 0 /\ Height(s[i]) \in Nat /\ avl(s[i])
               /\ Len(s) > 2 => Height(s[i]) = Height(s[1])
    <2>1. s[i] \in Nodes /\ TextLen(s[i]) > 0 /\ Height(s[i]) \in Nat
      BY Held
    <2>2. avl(s[i]) /\ (Len(s) > 2 => Height(s[i]) = Height(s[1]))
      BY DEF Even
    <2> QED
      BY <2>1, <2>2
  <1>4. /\ 1 \in 1..Len(s) /\ 2 \in 1..Len(s) /\ Len(s) > 2 => 3 \in 1..Len(s)
    BY <1>1
  <1>5. Height(s[1]) - Height(s[2]) \in {0, 1}
    <2>1. Height(s[1]) \in Nat /\ Height(s[2]) \in Nat
      BY <1>3, <1>4
    <2>2. Height(s[2]) = Height(s[1]) \/ Height(s[2]) = Height(s[1]) - 1
      BY <1>4 DEF Even
    <2> QED
      BY <2>1, <2>2
  <1>6. PICK a \in Nodes : /\ a = Branch(s[1], s[2]) /\ avl(a) /\ Height(a) = 1 + Height(s[1])
    <2>1. /\ s[1] \in Nodes /\ s[2] \in Nodes /\ TextLen(s[1]) > 0 /\ TextLen(s[2]) > 0
          /\ avl(s[1]) /\ avl(s[2]) /\ Height(s[1]) - Height(s[2]) \in -1..1
          /\ Height(s[1]) \in Nat /\ Height(s[2]) \in Nat
      BY <1>3, <1>4, <1>5
    <2>2. Taller(Height(s[1]), Height(s[2])) = Height(s[1])
      BY <1>5, <2>1 DEF Taller
    <2> QED
      BY <2>1, <2>2, Branched, ZenonT(60)
  <1>7. CASE Len(s) = 2
    <2>1. (2 + 1) \div 2 = 1
      OBVIOUS
    <2>2. Len(Round(s)) = 1 /\ Round(s)[1] = a
      BY <1>2, <1>6, <1>7, <2>1 DEF Round
    <2> HIDE DEF Round
    <2> QED
      BY <1>6, <2>2 DEF Even
  <1>8. CASE Len(s) = 3
    <2>1. (3 + 1) \div 2 = 2
      OBVIOUS
    <2>2. Len(Round(s)) = 2 /\ Round(s)[1] = a /\ Round(s)[2] = s[3]
      BY <1>2, <1>6, <1>8, <2>1 DEF Round
    <2>3. avl(s[3]) /\ Height(s[3]) = Height(s[1]) /\ Height(s[1]) \in Nat
      BY <1>3, <1>4, <1>8
    <2>4. Height(s[3]) = Height(a) - 1
      BY <1>6, <2>3
    <2> HIDE DEF Round
    <2>5. ASSUME NEW i \in 1..2
          PROVE  /\ avl(Round(s)[i])
                 /\ \/ Height(Round(s)[i]) = Height(Round(s)[1])
                    \/ i = 2 /\ Height(Round(s)[i]) = Height(Round(s)[1]) - 1
      <3>1. i = 1 \/ i = 2
        OBVIOUS
      <3> QED
        BY <1>6, <2>2, <2>3, <2>4, <3>1
    <2> QED
      BY <2>2, <2>5 DEF Even
  <1>9. CASE Len(s) = 4
    <2>1. (4 + 1) \div 2 = 2 /\ 3 \in 1..4 /\ 4 \in 1..4
      OBVIOUS
    <2>2. /\ s[3] \in Nodes /\ s[4] \in Nodes /\ TextLen(s[3]) > 0 /\ TextLen(s[4]) > 0
          /\ avl(s[3]) /\ avl(s[4]) /\ Height(s[3]) \in Nat
          /\ Height(s[3]) = Height(s[1]) /\ Height(s[4]) = Height(s[1])
      BY <1>3, <1>9, <2>1
    <2>3. PICK b \in Nodes : b = Branch(s[3], s[4]) /\ avl(b) /\ Height(b) = 1 + Height(s[1])
      <3>1. Height(s[3]) - Height(s[4]) \in -1..1 /\ Taller(Height(s[3]), Height(s[4])) = Height(s[1])
        BY <2>2 DEF Taller
      <3> QED
        BY <1>9, <2>2, <3>1, Branched, SMTT(30)
    <2>4. Len(Round(s)) = 2 /\ Round(s)[1] = a /\ Round(s)[2] = b
      BY <1>2, <1>6, <1>9, <2>1, <2>3 DEF Round
    <2> HIDE DEF Round
    <2>5. ASSUME NEW i \in 1..2
          PROVE  avl(Round(s)[i]) /\ Height(Round(s)[i]) = Height(Round(s)[1])
      <3>1. i = 1 \/ i = 2
        OBVIOUS
      <3> QED
        BY <1>6, <2>3, <2>4, <3>1
    <2> QED
      BY <2>4, <2>5 DEF Even
  <1> QED
    BY <1>1, <1>7, <1>8, <1>9

LEMMA WholeIs ==
    ASSUME NEW C, NEW t \in Seq(C)
    PROVE  SubSeq(t, 1, Len(t)) = t
  <1>1. Len(t) \in Nat /\ 0 \in 0..Len(t) /\ Len(t) \in 0..Len(t)
    BY LenProperties
  <1>2. /\ SubSeq(t, 0 + 1, Len(t)) \in Seq(C)
        /\ Len(SubSeq(t, 0 + 1, Len(t))) = Len(t) - 0
        /\ \A i \in 1..(Len(t) - 0) : SubSeq(t, 0 + 1, Len(t))[i] = t[0 + i]
    BY <1>1, PartIs
  <1> DEFINE a == SubSeq(t, 1, Len(t))
  <1>3. a \in Seq(C) /\ Len(a) = Len(t) /\ \A i \in 1..Len(t) : a[i] = t[i]
    BY <1>1, <1>2
  <1> HIDE DEF a
  <1>4. a = t
    BY <1>3, SeqEqual
  <1> QED
    BY <1>4 DEF a

(* Pairing round after round puts the ropes together, and up to four of    *)
(* one height to a balanced one.                                           *)
Pairs(s, t) ==
    /\ pair(s) \in Nodes /\ text(pair(s)) = t
    /\ Even(s) => avl(pair(s))

LEMMA PairKeeps ==
    ASSUME RopeRules, NEW s, NEW f, NEW t, Cuts(s, f, t)
    PROVE  Pairs(s, t)
  <1> DEFINE T == {k \in Nat : \E q, g, u : /\ Cuts(q, g, u) /\ k = Len(q)
                                            /\ ~Pairs(q, u)}
  <1>1. ASSUME T # {} PROVE FALSE
    <2>1. PICK h \in T : \A k \in T : h <= k
      <3>1. T \in SUBSET Nat
        OBVIOUS
      <3> HIDE DEF T
      <3> QED
        BY <1>1, <3>1, Least
    <2>2. PICK q, g, u : Cuts(q, g, u) /\ h = Len(q) /\ ~Pairs(q, u)
      BY <2>1
    <2>3. Len(q) \in Nat /\ Len(q) > 0 /\ q \in Seq(Nodes) /\ q # << >> /\ u \in Seq(Chars)
      BY <2>2, LenProperties, EmptySeq DEF Cuts
    <2>4. pair(q) = IF Len(q) = 1 THEN q[1] ELSE pair(Round(q))
      BY <2>3 DEF RopeRules, Recursion, Pair, Round
    <2>5. CASE Len(q) = 1
      <3>1. 1 \in 1..Len(q) /\ 1 - 1 = 0
        BY <2>5
      <3>2. q[1] \in Nodes
        BY <2>2, <3>1, Held
      <3>3. g[0] = 0 /\ g[1] = Len(u) /\ text(q[1]) = SubSeq(u, g[0] + 1, g[1])
        BY <2>2, <2>5, <3>1 DEF Cuts
      <3>4. text(q[1]) = u
        BY <2>3, <3>3, WholeIs
      <3>5. Even(q) => avl(q[1])
        BY <3>1 DEF Even
      <3> QED
        BY <2>2, <2>4, <2>5, <3>2, <3>4, <3>5 DEF Pairs
    <2>6. CASE Len(q) > 1
      <3>1. PICK e : Cuts(Round(q), e, u)
        BY <2>2, <2>6, RoundCuts
      <3>2. Len(Round(q)) < Len(q) /\ Len(Round(q)) \in Nat
        BY <2>2, <2>6, <3>1, RoundCuts, LenProperties DEF Cuts
      <3>3. Len(Round(q)) \notin T
        BY <2>1, <2>2, <2>3, <3>2
      <3>4. Pairs(Round(q), u)
        BY <3>1, <3>2, <3>3
      <3>5. Even(q) => Even(Round(q))
        BY <2>2, <2>6, RoundEven
      <3> HIDE DEF T, Round
      <3> QED
        BY <2>2, <2>3, <2>4, <2>6, <3>4, <3>5 DEF Pairs
    <2>7. Len(q) = 1 \/ Len(q) > 1
      <3>1. PICK n \in Nat : n = Len(q) /\ n > 0
        BY <2>3
      <3>2. n = 1 \/ n > 1
        BY <3>1
      <3> QED
        BY <3>1, <3>2
    <2> QED
      BY <2>5, <2>6, <2>7
  <1>2. Len(s) \in Nat
    BY LenProperties DEF Cuts
  <1> QED
    BY <1>1, <1>2

LEMMA TimesMonotone ==
    ASSUME NEW i \in Nat, NEW j \in Nat, i <= j, NEW m \in Nat
    PROVE  i * m \in Nat /\ i * m <= j * m
  <1>1. PICK d \in Nat : j = i + d
    <2>1. j - i \in Nat /\ j = i + (j - i)
      OBVIOUS
    <2> QED
      BY <2>1
  <1>2. (i + d) * m = i * m + d * m
    OBVIOUS
  <1>3. i * m \in Nat /\ d * m \in Nat
    OBVIOUS
  <1> QED
    BY <1>1, <1>2, <1>3

(* How many leaves a text fills.                                           *)
LEMMA LeavesOf ==
    ASSUME NEW l \in Nat, l > 0, NEW m \in Nat, m > 0
    PROVE  \E n \in Nat : /\ n = (l + m - 1) \div m /\ n > 0
                          /\ (n - 1) * m < l /\ l <= n * m
                          /\ l <= 4 * m => n <= 4
  <1> DEFINE n == (l + m - 1) \div m
  <1>1. n \in Int /\ n * m <= l + m - 1 /\ l + m - 1 < n * m + m
    OBVIOUS
  <1> HIDE DEF n
  <1>2. n > 0
    <2>1. CASE n <= 0
      <3>1. -n \in Nat /\ (-n) * m \in Nat /\ (-n) * m = -(n * m)
        BY <1>1, <2>1
      <3> QED
        BY <1>1, <3>1
    <2> QED
      BY <1>1, <2>1
  <1>3. (n - 1) * m = n * m - m /\ n * m \in Int
    BY <1>1
  <1>4. (n - 1) * m < l /\ l <= n * m
    BY <1>1, <1>3
  <1>5. ASSUME l <= 4 * m PROVE n <= 4
    <2>1. CASE n > 4
      <3>1. 4 \in Nat /\ n - 1 \in Nat /\ 4 <= n - 1
        BY <1>1, <2>1
      <3>2. 4 * m <= (n - 1) * m
        BY <3>1, TimesMonotone
      <3> QED
        BY <1>3, <1>4, <1>5, <3>2
    <2> QED
      BY <1>1, <2>1
  <1> QED
    BY <1>1, <1>2, <1>4, <1>5 DEF n

LEMMA BuildKeeps ==
    ASSUME RopeRules, NEW t \in Seq(Chars)
    PROVE  /\ BuildRope(t) \in Nodes /\ text(BuildRope(t)) = t
           /\ Len(t) <= 4 * LeafMax => avl(BuildRope(t))
  <1>1. CASE t = << >>
    BY <1>1, EmptyLeafIs DEF BuildRope
  <1>2. CASE t # << >>
    <2>1. Len(t) \in Nat /\ Len(t) > 0 /\ LeafMax \in Nat /\ LeafMax > 0
      BY <1>2, EmptySeq, LenProperties, LeafMaxAssumption
    <2>2. PICK n \in Nat : /\ n = (Len(t) + LeafMax - 1) \div LeafMax /\ n > 0
                           /\ (n - 1) * LeafMax < Len(t) /\ Len(t) <= n * LeafMax
                           /\ Len(t) <= 4 * LeafMax => n <= 4
      BY <2>1, LeavesOf
    <2> DEFINE end(i) == LesserOf(i * LeafMax, Len(t))
               b(i) == SubSeq(t, (i - 1) * LeafMax + 1, end(i))
               s == [i \in 1..n |-> Leaf(b(i))]
               f == [i \in 0..n |-> end(i)]
    <2>3. ASSUME NEW i \in 0..n
          PROVE  end(i) \in 0..Len(t)
      <3>1. i * LeafMax \in Nat
        BY <2>1
      <3> QED
        BY <2>1, <3>1 DEF LesserOf
    <2>4. end(0) = 0 /\ end(n) = Len(t)
      BY <2>1, <2>2 DEF LesserOf
    <2>5. ASSUME NEW i \in 1..n
          PROVE  /\ end(i - 1) = (i - 1) * LeafMax
                 /\ end(i - 1) < end(i) /\ end(i) - end(i - 1) <= LeafMax
      <3>1. (i - 1) * LeafMax \in Nat /\ (i - 1) * LeafMax <= (n - 1) * LeafMax
        <4>1. i - 1 \in Nat /\ n - 1 \in Nat /\ i - 1 <= n - 1
          BY <2>2
        <4> QED
          BY <2>1, <4>1, TimesMonotone
      <3>2. (n - 1) * LeafMax \in Int
        BY <2>1
      <3>3. (i - 1) * LeafMax < Len(t)
        BY <2>1, <2>2, <3>1, <3>2
      <3>4. i * LeafMax = (i - 1) * LeafMax + LeafMax
        BY <2>1
      <3> QED
        BY <2>1, <3>1, <3>3, <3>4 DEF LesserOf
    <2> HIDE DEF end
    <2>6. ASSUME NEW i \in 1..n
          PROVE  /\ b(i) \in Seq(Chars) /\ Len(b(i)) <= LeafMax
                 /\ b(i) = SubSeq(t, end(i - 1) + 1, end(i))
      <3>1. end(i - 1) \in 0..Len(t) /\ end(i) \in 0..Len(t) /\ end(i - 1) < end(i)
        <4>1. i - 1 \in 0..n /\ i \in 0..n
          BY <2>2
        <4> QED
          BY <2>3, <2>5, <4>1
      <3>2. end(i) \in end(i - 1)..Len(t)
        BY <2>1, <3>1
      <3>3. b(i) = SubSeq(t, end(i - 1) + 1, end(i))
        BY <2>5
      <3> HIDE DEF b
      <3>4. b(i) \in Seq(Chars) /\ Len(b(i)) = end(i) - end(i - 1)
        BY <3>1, <3>2, <3>3, PartIs
      <3> QED
        BY <2>5, <3>3, <3>4
    <2> HIDE DEF b
    <2>7. ASSUME NEW i \in 1..n
          PROVE  /\ Leaf(b(i)) \in Nodes /\ text(Leaf(b(i))) = b(i) /\ avl(Leaf(b(i)))
                 /\ Height(Leaf(b(i))) = 0
      BY <2>6, LeafKeeps, LeafIs
    <2> HIDE DEF Leaf
    <2>8. s \in Seq(Nodes) /\ Len(s) = n /\ \A i \in 1..n : s[i] = Leaf(b(i))
      <3>1. s \in [1..n -> Nodes]
        BY <2>7
      <3>2. s \in Seq(Nodes)
        BY <3>1, SeqDef
      <3>3. Len(s) = n
        BY <3>1, <3>2, LenProperties
      <3> QED
        BY <3>2, <3>3
    <2>9. /\ f \in [0..n -> 0..Len(t)] /\ f[0] = 0 /\ f[n] = Len(t)
          /\ \A i \in 1..n : f[i - 1] = end(i - 1) /\ f[i] = end(i)
      <3>1. 0 \in 0..n /\ n \in 0..n /\ \A i \in 1..n : i - 1 \in 0..n /\ i \in 0..n
        BY <2>2
      <3> QED
        BY <2>3, <2>4, <3>1
    <2>10. BuildRope(t) = pair(s)
      BY <1>2, <2>2 DEF BuildRope, b, end
    <2> HIDE DEF s, f
    <2>11. Cuts(s, f, t)
      <3>1. ASSUME NEW i \in 1..n
            PROVE  f[i - 1] < f[i] /\ text(s[i]) = SubSeq(t, f[i - 1] + 1, f[i])
        BY <2>5, <2>6, <2>7, <2>8, <2>9
      <3> QED
        BY <2>2, <2>8, <2>9, <3>1 DEF Cuts
    <2>12. Pairs(s, t)
      BY <2>11, PairKeeps
    <2>13. Len(t) <= 4 * LeafMax => Even(s)
      <3>1. 1 \in 1..n
        BY <2>2
      <3>2. \A i \in 1..n : avl(s[i]) /\ Height(s[i]) = Height(s[1])
        BY <2>7, <2>8, <3>1
      <3> QED
        BY <2>2, <2>8, <3>2 DEF Even
    <2> QED
      BY <2>10, <2>12, <2>13 DEF Pairs
  <1> QED
    BY <1>1, <1>2

-----------------------------------------------------------------------------
(* The operations of RopeBuffer                                            *)

(* The two ropes of a split, given names.                                  *)
LEMMA SplitAt ==
    ASSUME RopeRules, NEW n \in Nodes, NEW p \in 0..TextLen(n)
    PROVE  \E a, b \in Nodes :
              /\ split_node(n, p)[1] = a /\ split_node(n, p)[2] = b
              /\ text(n) = text(a) \o text(b) /\ TextLen(a) = p
              /\ text(a) = SubSeq(text(n), 1, p)
              /\ text(b) = SubSeq(text(n), p + 1, Len(text(n)))
              /\ avl(n) => avl(a) /\ avl(b)
  <1>1. Splits(n, p)
    BY SplitKeeps
  <1>2. PICK a \in Nodes, b \in Nodes :
              /\ split_node(n, p)[1] = a /\ split_node(n, p)[2] = b
              /\ text(n) = text(a) \o text(b) /\ TextLen(a) = p
              /\ avl(n) => avl(a) /\ avl(b)
    BY <1>1 DEF Splits
  <1>3. text(a) \in Seq(Chars) /\ text(b) \in Seq(Chars) /\ Len(text(a)) = p
    BY <1>2, TextIs
  <1>4. /\ SubSeq(text(n), 1, p) = text(a)
        /\ SubSeq(text(n), p + 1, Len(text(n))) = text(b)
    BY <1>2, <1>3, HalvesOf
  <1> QED
    BY <1>2, <1>4

LEMMA JoinIs ==
    ASSUME RopeRules, NEW l \in Nodes, NEW r \in Nodes
    PROVE  \E n \in Nodes : /\ n = join_nodes(l, r) /\ text(n) = text(l) \o text(r)
                            /\ avl(l) /\ avl(r) => avl(n)
  <1>1. Joins(l, r)
    BY JoinKeeps
  <1> QED
    BY <1>1 DEF Joins

(* Putting text in, at any offset of a rope of any shape.                  *)
LEMMA InsertIs ==
    ASSUME RopeRules, NEW n \in Nodes, NEW p \in 0..TextLen(n), NEW x \in Seq(Chars)
    PROVE  /\ Insert(n, p, x) \in Nodes
           /\ text(Insert(n, p, x)) = Spliced(text(n), p, x)
           /\ avl(n) /\ Len(x) <= 4 * LeafMax => avl(Insert(n, p, x))
  <1>1. text(n) \in Seq(Chars) /\ Len(text(n)) = TextLen(n) /\ p \in 0..Len(text(n))
    BY TextIs
  <1>2. CASE x = << >>
    <2>1. Insert(n, p, x) = n
      BY <1>2 DEF Insert
    <2>2. /\ SubSeq(text(n), 1, p) \in Seq(Chars)
          /\ SubSeq(text(n), 1, p) \o SubSeq(text(n), p + 1, Len(text(n))) = text(n)
      BY <1>1, Halved
    <2>3. SubSeq(text(n), 1, p) \o << >> = SubSeq(text(n), 1, p)
      BY <2>2, ConcatEmptySeq
    <2> QED
      BY <1>2, <2>1, <2>2, <2>3 DEF Spliced
  <1>3. CASE x # << >>
    <2>1. PICK a \in Nodes, b \in Nodes :
              /\ split_node(n, p)[1] = a /\ split_node(n, p)[2] = b
              /\ text(a) = SubSeq(text(n), 1, p)
              /\ text(b) = SubSeq(text(n), p + 1, Len(text(n)))
              /\ avl(n) => avl(a) /\ avl(b)
      BY SplitAt
    <2>2. PICK c \in Nodes : /\ c = BuildRope(x) /\ text(c) = x
                             /\ Len(x) <= 4 * LeafMax => avl(c)
      BY BuildKeeps
    <2>3. PICK j \in Nodes : /\ j = join_nodes(a, c) /\ text(j) = text(a) \o text(c)
                             /\ avl(a) /\ avl(c) => avl(j)
      BY JoinIs
    <2>4. PICK k \in Nodes : /\ k = join_nodes(j, b) /\ text(k) = text(j) \o text(b)
                             /\ avl(j) /\ avl(b) => avl(k)
      BY JoinIs
    <2>5. Insert(n, p, x) = k
      BY <1>3, <2>1, <2>2, <2>3, <2>4 DEF Insert
    <2> QED
      BY <2>1, <2>2, <2>3, <2>4, <2>5 DEF Spliced
  <1> QED
    BY <1>2, <1>3

(* Taking text out, at any offset of a rope of any shape.                  *)
LEMMA DeleteIs ==
    ASSUME RopeRules, NEW n \in Nodes, NEW p \in 0..TextLen(n), NEW c \in 0..(TextLen(n) - p)
    PROVE  /\ Delete(n, p, c) \in Nodes
           /\ text(Delete(n, p, c)) = Cut(text(n), p, c)
           /\ avl(n) => avl(Delete(n, p, c))
  <1>1. /\ text(n) \in Seq(Chars) /\ Len(text(n)) = TextLen(n) /\ p \in 0..Len(text(n))
        /\ TextLen(n) \in Nat /\ p \in Nat /\ c \in Nat /\ c <= TextLen(n) - p
    BY TextIs
  <1>2. CASE c = 0
    <2>1. Delete(n, p, c) = n
      BY <1>2 DEF Delete
    <2>2. SubSeq(text(n), 1, p) \o SubSeq(text(n), p + 1, Len(text(n))) = text(n)
      BY <1>1, Halved
    <2>3. p + c + 1 = p + 1
      BY <1>1, <1>2
    <2> QED
      BY <2>1, <2>2, <2>3 DEF Cut
  <1>3. CASE c # 0
    <2>1. PICK a \in Nodes, b \in Nodes :
              /\ split_node(n, p)[1] = a /\ split_node(n, p)[2] = b
              /\ text(n) = text(a) \o text(b) /\ TextLen(a) = p
              /\ text(a) = SubSeq(text(n), 1, p)
              /\ avl(n) => avl(a) /\ avl(b)
      BY SplitAt
    <2>2. /\ text(a) \in Seq(Chars) /\ Len(text(a)) = TextLen(a)
          /\ text(b) \in Seq(Chars) /\ Len(text(b)) = TextLen(b) /\ TextLen(b) \in Nat
      BY TextIs
    <2>3. TextLen(n) = p + TextLen(b)
      <3>1. Len(text(a) \o text(b)) = Len(text(a)) + Len(text(b))
        BY <2>2, ConcatProperties
      <3> QED
        BY <1>1, <2>1, <2>2, <3>1
    <2>4. c \in 0..TextLen(b)
      BY <1>1, <2>2, <2>3
    <2>5. PICK u \in Nodes, v \in Nodes :
              /\ split_node(b, c)[1] = u /\ split_node(b, c)[2] = v
              /\ text(b) = text(u) \o text(v) /\ TextLen(u) = c
              /\ avl(b) => avl(u) /\ avl(v)
      BY <2>4, SplitAt
    <2>6. PICK k \in Nodes : /\ k = join_nodes(a, v) /\ text(k) = text(a) \o text(v)
                             /\ avl(a) /\ avl(v) => avl(k)
      BY JoinIs
    <2>7. LesserOf(c, TextLen(n) - p) = c /\ ~(p >= TextLen(n))
      BY <1>1, <1>3 DEF LesserOf
    <2>8. Delete(n, p, c) = k
      BY <1>3, <2>1, <2>5, <2>6, <2>7 DEF Delete
    <2>9. text(v) = SubSeq(text(n), p + c + 1, Len(text(n)))
      <3> DEFINE w == text(a) \o text(u)
      <3>1. Regroup3(a, u, v)
        BY TextsRegrouped3
      <3>2. text(n) = w \o text(v)
        BY <2>1, <2>5, <3>1 DEF Regroup3
      <3>3. text(u) \in Seq(Chars) /\ Len(text(u)) = c /\ text(v) \in Seq(Chars)
        BY <2>5, TextIs
      <3>4. w \in Seq(Chars) /\ Len(w) = p + c
        <4>1. w \in Seq(Chars) /\ Len(w) = Len(text(a)) + Len(text(u))
          BY <2>2, <3>3, ConcatProperties
        <4> QED
          BY <2>1, <2>2, <3>3, <4>1
      <3> HIDE DEF w
      <3>5. SubSeq(w \o text(v), Len(w) + 1, Len(w \o text(v))) = text(v)
        BY <3>3, <3>4, HalvesOf
      <3> QED
        BY <3>2, <3>4, <3>5
    <2> QED
      BY <2>1, <2>5, <2>6, <2>8, <2>9 DEF Cut
  <1> QED
    BY <1>2, <1>3

(* Parts of a text that lie in one half of it.                             *)
LEMMA PartOfLeft ==
    ASSUME NEW C, NEW u \in Seq(C), NEW v \in Seq(C), NEW p \in 0..Len(u), NEW q \in p..Len(u)
    PROVE  SubSeq(u \o v, p + 1, q) = SubSeq(u, p + 1, q)
  <1> DEFINE t == u \o v
             a == SubSeq(t, p + 1, q)
             b == SubSeq(u, p + 1, q)
  <1>1. Len(u) \in Nat /\ Len(v) \in Nat /\ p \in Nat /\ q \in Nat
    BY LenProperties
  <1>2. /\ t \in Seq(C) /\ Len(t) = Len(u) + Len(v)
        /\ \A i \in 1..(Len(u) + Len(v)) : t[i] = IF i <= Len(u) THEN u[i] ELSE v[i - Len(u)]
    BY ConcatProperties
  <1> HIDE DEF t
  <1>3. p \in 0..Len(t) /\ q \in p..Len(t)
    BY <1>1, <1>2
  <1>4. a \in Seq(C) /\ Len(a) = q - p /\ \A i \in 1..(q - p) : a[i] = t[p + i]
    BY <1>2, <1>3, PartIs
  <1>5. b \in Seq(C) /\ Len(b) = q - p /\ \A i \in 1..(q - p) : b[i] = u[p + i]
    BY PartIs
  <1> HIDE DEF a, b
  <1>6. ASSUME NEW i \in 1..(q - p) PROVE a[i] = b[i]
    <2>1. p + i \in 1..(Len(u) + Len(v)) /\ p + i <= Len(u)
      BY <1>1
    <2> QED
      BY <1>2, <1>4, <1>5, <2>1
  <1>7. a = b
    BY <1>4, <1>5, <1>6, SeqEqual
  <1> QED
    BY <1>7 DEF a, b, t

LEMMA PartOfRight ==
    ASSUME NEW C, NEW u \in Seq(C), NEW v \in Seq(C), NEW p \in 0..Len(v), NEW q \in p..Len(v)
    PROVE  SubSeq(u \o v, Len(u) + p + 1, Len(u) + q) = SubSeq(v, p + 1, q)
  <1> DEFINE t == u \o v
             a == SubSeq(t, Len(u) + p + 1, Len(u) + q)
             b == SubSeq(v, p + 1, q)
  <1>1. Len(u) \in Nat /\ Len(v) \in Nat /\ p \in Nat /\ q \in Nat
    BY LenProperties
  <1>2. /\ t \in Seq(C) /\ Len(t) = Len(u) + Len(v)
        /\ \A i \in 1..(Len(u) + Len(v)) : t[i] = IF i <= Len(u) THEN u[i] ELSE v[i - Len(u)]
    BY ConcatProperties
  <1> HIDE DEF t
  <1>3. Len(u) + p \in 0..Len(t) /\ Len(u) + q \in (Len(u) + p)..Len(t)
        /\ (Len(u) + q) - (Len(u) + p) = q - p
    BY <1>1, <1>2
  <1>4. a \in Seq(C) /\ Len(a) = q - p /\ \A i \in 1..(q - p) : a[i] = t[(Len(u) + p) + i]
    BY <1>2, <1>3, PartIs
  <1>5. b \in Seq(C) /\ Len(b) = q - p /\ \A i \in 1..(q - p) : b[i] = v[p + i]
    BY PartIs
  <1> HIDE DEF a, b
  <1>6. ASSUME NEW i \in 1..(q - p) PROVE a[i] = b[i]
    <2>1. /\ (Len(u) + p) + i \in 1..(Len(u) + Len(v)) /\ ~((Len(u) + p) + i <= Len(u))
          /\ (Len(u) + p) + i - Len(u) = p + i
      BY <1>1
    <2>2. t[(Len(u) + p) + i] = v[(Len(u) + p) + i - Len(u)]
      BY <1>2, <2>1
    <2>3. a[i] = t[(Len(u) + p) + i] /\ b[i] = v[p + i]
      BY <1>4, <1>5
    <2> QED
      BY <2>1, <2>2, <2>3
  <1>7. a = b
    BY <1>4, <1>5, <1>6, SeqEqual
  <1> QED
    BY <1>7 DEF a, b, t

LEMMA EmptyPart ==
    ASSUME NEW C, NEW t \in Seq(C), NEW p \in Nat, NEW q \in Int, q <= p
    PROVE  SubSeq(t, p + 1, q) = << >>
  <1>1. p + 1 \in Int /\ q < p + 1
    OBVIOUS
  <1> QED
    BY <1>1, SubSeqEmpty

(* The part of a text between two offsets that need not lie in it.         *)
Between(t, i, j) == SubSeq(t, i + 1, LesserOf(j, Len(t)))

LEMMA BetweenHalves ==
    ASSUME NEW C, NEW u \in Seq(C), NEW v \in Seq(C), NEW i \in Nat, NEW j \in Int, i < j
    PROVE  Between(u, i, LesserOf(j, Len(u)))
             \o Between(v, Taller(i - Len(u), 0), j - Len(u)) = Between(u \o v, i, j)
  <1>1. PICK m \in Nat, k \in Nat : m = Len(u) /\ k = Len(v)
    BY LenProperties
  <1>2. u \o v \in Seq(C) /\ Len(u \o v) = m + k
    BY <1>1, ConcatProperties
  <1> DEFINE t == u \o v
             q == LesserOf(j, m + k)
             h == Taller(i - m, 0)
  <1>3. /\ Between(t, i, j) = SubSeq(t, i + 1, q) /\ t \in Seq(C) /\ Len(t) = m + k
        /\ q \in Nat /\ q <= m + k /\ h \in Nat
    BY <1>1, <1>2 DEF Between, LesserOf, Taller
  <1>4. /\ Between(u, i, LesserOf(j, Len(u))) = SubSeq(u, i + 1, LesserOf(j, m))
        /\ Between(v, h, j - Len(u)) = SubSeq(v, h + 1, LesserOf(j - m, k))
        /\ LesserOf(j, m) \in Int /\ LesserOf(j - m, k) \in Int
    BY <1>1 DEF Between, LesserOf
  <1>5. << >> \in Seq(C)
    BY EmptySeq
  <1> HIDE DEF t, h, q
  <1>6. CASE j <= m
    <2>1. LesserOf(j - m, k) <= h /\ LesserOf(j, m) = j /\ q = j
      BY <1>1, <1>6 DEF LesserOf, h, Taller, q
    <2>2. SubSeq(v, h + 1, LesserOf(j - m, k)) = << >>
      BY <1>3, <1>4, <2>1, EmptyPart
    <2>3. i \in 0..Len(u) /\ j \in i..Len(u)
      BY <1>1, <1>6
    <2>4. SubSeq(t, i + 1, j) = SubSeq(u, i + 1, j) /\ SubSeq(u, i + 1, j) \in Seq(C)
      BY <2>3, PartOfLeft, PartIs DEF t
    <2>5. SubSeq(u, i + 1, j) \o << >> = SubSeq(u, i + 1, j)
      BY <2>4, ConcatEmptySeq
    <2> QED
      BY <1>1, <1>3, <1>4, <2>1, <2>2, <2>4, <2>5 DEF h, t
  <1>7. CASE i >= m
    <2>1. LesserOf(j, m) <= i /\ h = i - m /\ h \in Nat
      BY <1>1, <1>7 DEF LesserOf, h, Taller
    <2>2. SubSeq(u, i + 1, LesserOf(j, m)) = << >>
      BY <1>4, <2>1, EmptyPart
    <2>3. CASE i < m + k
      <3>1. LesserOf(j - m, k) \in h..Len(v) /\ h \in 0..Len(v)
            /\ m + LesserOf(j - m, k) = q /\ m + h = i
        BY <1>1, <1>7, <2>1, <2>3 DEF LesserOf, q
      <3>2. SubSeq(t, Len(u) + h + 1, Len(u) + LesserOf(j - m, k))
              = SubSeq(v, h + 1, LesserOf(j - m, k))
        BY <3>1, PartOfRight, SMTT(30) DEF t
      <3>3. SubSeq(t, i + 1, q) = SubSeq(v, h + 1, LesserOf(j - m, k))
        BY <1>1, <3>1, <3>2
      <3>4. SubSeq(v, h + 1, LesserOf(j - m, k)) \in Seq(C)
        BY <3>1, PartIs
      <3>5. << >> \o SubSeq(v, h + 1, LesserOf(j - m, k)) = SubSeq(v, h + 1, LesserOf(j - m, k))
        BY <3>4, ConcatEmptySeq
      <3> QED
        BY <1>1, <1>3, <1>4, <2>2, <3>3, <3>5 DEF h, t
    <2>4. CASE ~(i < m + k)
      <3>1. LesserOf(j - m, k) <= h /\ q <= i
        BY <1>1, <1>7, <2>1, <2>4 DEF LesserOf, q
      <3>2. SubSeq(v, h + 1, LesserOf(j - m, k)) = << >>
        BY <1>4, <2>1, <3>1, EmptyPart
      <3>3. SubSeq(t, i + 1, q) = << >>
        BY <1>3, <3>1, EmptyPart
      <3>4. << >> \o << >> = << >>
        BY <1>5, ConcatEmptySeq
      <3> QED
        BY <1>1, <1>3, <1>4, <2>2, <3>2, <3>3, <3>4 DEF h, t
    <2> QED
      BY <2>3, <2>4
  <1>8. CASE i < m /\ m < j
    <2>1. /\ LesserOf(j, m) = m /\ h = 0 /\ q = m + LesserOf(j - m, k)
          /\ i \in 0..m /\ m \in i..m
          /\ LesserOf(j - m, k) \in 0..k /\ 0 \in 0..k
      BY <1>1, <1>8 DEF LesserOf, h, q, Taller
    <2>2. SubSeq(t, i + 1, m) = SubSeq(u, i + 1, m)
      BY <1>1, <2>1, PartOfLeft DEF t
    <2>3. SubSeq(t, Len(u) + h + 1, Len(u) + LesserOf(j - m, k))
            = SubSeq(v, h + 1, LesserOf(j - m, k))
      <3>1. h \in 0..Len(v) /\ LesserOf(j - m, k) \in h..Len(v)
        BY <1>1, <2>1
      <3> QED
        BY <3>1, PartOfRight, SMTT(30) DEF t
    <2>4. SubSeq(t, m + 1, q) = SubSeq(v, h + 1, LesserOf(j - m, k))
      <3>1. Len(u) + h + 1 = m + 1 /\ Len(u) + LesserOf(j - m, k) = q
        BY <1>1, <2>1
      <3> QED
        BY <2>3, <3>1
    <2>5. i \in 0..Len(t) /\ m \in i..Len(t) /\ q \in m..Len(t)
      BY <1>1, <1>3, <2>1, SMTT(30)
    <2>6. SubSeq(t, i + 1, m) \o SubSeq(t, m + 1, q) = SubSeq(t, i + 1, q)
      BY <1>3, <2>5, PartsJoin
    <2> QED
      BY <1>1, <1>3, <1>4, <2>1, <2>2, <2>4, <2>6 DEF h, t
  <1> QED
    BY <1>1, <1>6, <1>7, <1>8

(* collect_range reads what the text has between the offsets.              *)
Collects(n) ==
    \A i \in Nat, j \in Int : collect_range(n, i, j) = Between(text(n), i, j)

LEMMA CollectKeeps ==
    ASSUME RopeRules, NEW n \in Nodes
    PROVE  Collects(n)
  <1> DEFINE L == {m \in Nodes : ~Collects(m)}
  <1>1. ASSUME NEW m \in L PROVE ~IsLeaf(m) /\ (m.left \in L \/ m.right \in L)
    <2>1. PICK i \in Nat, j \in Int : collect_range(m, i, j) # Between(text(m), i, j)
      BY DEF Collects
    <2>2. m \in Nodes /\ text(m) \in Seq(Chars) /\ Len(text(m)) = TextLen(m)
          /\ TextLen(m) \in Nat
      BY TextIs
    <2>3. collect_range(m, i, j) = CollectRange(m, i, j)
      BY <2>2 DEF RopeRules, Recursion
    <2>4. i < j
      <3>1. CASE ~(i < j)
        <4>1. CollectRange(m, i, j) = << >>
          BY <3>1 DEF CollectRange
        <4>2. LesserOf(j, Len(text(m))) \in Int /\ LesserOf(j, Len(text(m))) <= i
          BY <2>2, <3>1 DEF LesserOf
        <4>3. Between(text(m), i, j) = << >>
          BY <2>2, <4>2, EmptyPart DEF Between
        <4> QED
          BY <2>1, <2>3, <4>1, <4>3
      <3> QED
        BY <3>1
    <2>5. ~IsLeaf(m)
      <3>1. CASE IsLeaf(m)
        <4>1. text(m) = m.buf
          BY <2>2, <3>1, Unfolded DEF Text
        <4>2. CollectRange(m, i, j) = SubSeq(m.buf, i + 1, LesserOf(j, Len(m.buf)))
          <5>1. ~(i >= j)
            BY <2>4
          <5> QED
            BY <3>1, <5>1, Zenon DEF CollectRange
        <4> QED
          BY <2>1, <2>3, <4>1, <4>2 DEF Between
      <3> QED
        BY <3>1
    <2>6. Height(m) > 0
      BY <2>2, <2>5, ChildrenAreLower, NodeIs
    <2>7. PICK a \in Nodes, b \in Nodes :
             /\ a = m.left /\ b = m.right /\ text(m) = text(a) \o text(b)
             /\ m.left_len = TextLen(a)
      BY <2>2, <2>6, HigherIs
    <2>8. CASE Collects(a) /\ Collects(b)
      <3>1. /\ text(a) \in Seq(Chars) /\ text(b) \in Seq(Chars)
            /\ Len(text(a)) = TextLen(a) /\ TextLen(a) \in Nat
        BY TextIs
      <3> DEFINE k == LesserOf(j, TextLen(a))
                 h == Taller(i - TextLen(a), 0)
      <3>2. CollectRange(m, i, j)
              = collect_range(a, i, k) \o collect_range(b, h, j - TextLen(a))
        BY <2>4, <2>5, <2>7 DEF CollectRange
      <3>3. k \in Int /\ h \in Nat /\ j - TextLen(a) \in Int
        BY <3>1 DEF LesserOf, Taller
      <3>4. /\ collect_range(a, i, k) = Between(text(a), i, k)
            /\ collect_range(b, h, j - TextLen(a)) = Between(text(b), h, j - TextLen(a))
        <4> HIDE DEF k, h
        <4> QED
          BY <2>8, <3>3 DEF Collects
      <3>5. Between(text(a), i, k) \o Between(text(b), h, j - TextLen(a))
              = Between(text(a) \o text(b), i, j)
        <4>1. PICK u \in Seq(Chars), v \in Seq(Chars) : u = text(a) /\ v = text(b)
          BY <3>1
        <4>2. Between(u, i, LesserOf(j, Len(u)))
                \o Between(v, Taller(i - Len(u), 0), j - Len(u)) = Between(u \o v, i, j)
          BY <2>4, BetweenHalves
        <4>3. Len(u) = TextLen(a)
          BY <3>1, <4>1
        <4> QED
          BY <4>1, <4>2, <4>3
      <3> HIDE DEF k, h
      <3> QED
        BY <2>1, <2>3, <2>7, <3>2, <3>4, <3>5
    <2> QED
      BY <2>5, <2>7, <2>8
  <1>2. L \in SUBSET Nodes
    OBVIOUS
  <1>3. L = {}
    <2> HIDE DEF L
    <2> QED
      BY <1>1, <1>2, RopeInduction
  <1> QED
    BY <1>3

LEMMA SliceIs ==
    ASSUME RopeRules, NEW n \in Nodes, NEW p \in 0..TextLen(n), NEW q \in p..TextLen(n)
    PROVE  Slice(n, p, q) = SubSeq(text(n), p + 1, q)
  <1>1. TextLen(n) \in Nat /\ Len(text(n)) = TextLen(n) /\ p \in Nat /\ q \in Int
    BY TextIs
  <1>2. LesserOf(p, TextLen(n)) = p /\ LesserOf(q, TextLen(n)) = q
    BY <1>1 DEF LesserOf
  <1>3. Slice(n, p, q) = collect_range(n, p, q)
    BY <1>2 DEF Slice
  <1>4. collect_range(n, p, q) = Between(text(n), p, q)
    BY <1>1, CollectKeeps DEF Collects
  <1> QED
    BY <1>1, <1>2, <1>3, <1>4 DEF Between

LEMMA ToSliceIs ==
    ASSUME RopeRules, NEW n \in Nodes
    PROVE  ToSlice(n) = text(n)
  <1>1. /\ text(n) \in Seq(Chars) /\ Len(text(n)) = TextLen(n) /\ TextLen(n) \in Nat
        /\ 0 \in 0..TextLen(n) /\ TextLen(n) \in 0..TextLen(n)
    BY TextIs
  <1>2. Slice(n, 0, TextLen(n)) = SubSeq(text(n), 0 + 1, TextLen(n))
    BY <1>1, SliceIs
  <1>3. SubSeq(text(n), 1, Len(text(n))) = text(n)
    BY <1>1, WholeIs
  <1> QED
    BY <1>1, <1>2, <1>3 DEF ToSlice

-----------------------------------------------------------------------------
(* The editor over the rope                                                *)

(* RopeBuffer is Rope: what the configuration of a run sees to.            *)
UsesRopes ==
    /\ Buffers = {n \in Nodes : TextLen(n) <= MaxLen}
    /\ new = EmptyLeaf
    /\ \A t \in Seq(Chars) : from_slice(t) = BuildRope(t)
    /\ \A n \in Nodes :
          /\ len(n) = TextLen(n) /\ to_slice(n) = ToSlice(n)
          /\ \A p \in Nat :
                /\ \A x \in Seq(Chars) : insert(n, p, x) = Insert(n, p, x)
                /\ \A q \in Nat : /\ delete(n, p, q) = Delete(n, p, q)
                                  /\ slice(n, p, q) = Slice(n, p, q)

LEMMA BufferIs ==
    ASSUME RopeRules, UsesRopes, NEW n \in Nodes
    PROVE  /\ n \in Buffers <=> Len(text(n)) <= MaxLen
           /\ to_slice(n) = text(n) /\ len(n) = Len(text(n))
  <1>1. Len(text(n)) = TextLen(n)
    BY TextIs
  <1>2. ToSlice(n) = text(n)
    BY ToSliceIs
  <1> QED
    BY <1>1, <1>2 DEF UsesRopes

(* rope_buffer.rs does to the text of an editor what the editor counts on: *)
(* every rope it can build, however its leaves were split, merged and      *)
(* rotated, is changed and read at every offset as the text it holds.      *)
(* What Editor assumes of its buffer is thereby proved of the rope, for    *)
(* every leaf size and every text.                                         *)
THEOREM RopeKeepsText ==
    ASSUME RopeRules, UsesRopes
    PROVE  KeepsText(Buffers)
  <1>0. MaxLen \in Nat
    BY EditorAssumption
  <1>1. new \in Buffers /\ to_slice(new) = << >>
    <2>1. PICK e \in Nodes : e = EmptyLeaf /\ text(e) = << >> /\ TextLen(e) = 0
      BY EmptyLeafIs
    <2>2. Len(text(e)) = 0
      BY <2>1, TextIs
    <2>3. e \in Buffers /\ to_slice(e) = << >>
      BY <1>0, <2>1, <2>2, BufferIs
    <2>4. new = e
      BY <2>1 DEF UsesRopes
    <2> QED
      BY <2>3, <2>4
  <1>2. ASSUME NEW t \in Texts PROVE from_slice(t) \in Buffers /\ to_slice(from_slice(t)) = t
    <2>1. t \in Seq(Chars) /\ Len(t) <= MaxLen
      BY TextsAre
    <2>2. PICK n \in Nodes : n = BuildRope(t) /\ text(n) = t
      BY <2>1, BuildKeeps
    <2>3. from_slice(t) = n
      BY <2>1, <2>2 DEF UsesRopes
    <2>4. n \in Buffers /\ to_slice(n) = t
      BY <2>1, <2>2, BufferIs
    <2> QED
      BY <2>3, <2>4
  <1>3. ASSUME NEW b \in Buffers
        PROVE  LET t == to_slice(b) IN
               /\ t \in Texts /\ len(b) = Len(t)
               /\ \A p \in 0..Len(t) :
                     /\ \A x \in Texts : Len(t) + Len(x) <= MaxLen =>
                           /\ insert(b, p, x) \in Buffers
                           /\ to_slice(insert(b, p, x)) = Spliced(t, p, x)
                     /\ \A q \in p..Len(t) :
                           /\ delete(b, p, q - p) \in Buffers
                           /\ to_slice(delete(b, p, q - p)) = Cut(t, p, q - p)
                           /\ slice(b, p, q) = SubSeq(t, p + 1, q)
    <2>1. b \in Nodes /\ TextLen(b) <= MaxLen
      BY DEF UsesRopes
    <2>2. PICK t \in Seq(Chars) : t = text(b)
      BY <2>1, TextIs
    <2>3. /\ to_slice(b) = t /\ len(b) = Len(t)
          /\ Len(t) = TextLen(b) /\ Len(t) \in Nat /\ Len(t) <= MaxLen
      BY <2>1, <2>2, BufferIs, TextIs
    <2>4. t \in Texts
      BY <2>3, TextsAre
    <2>5. ASSUME NEW p \in 0..Len(t), NEW x \in Texts, Len(t) + Len(x) <= MaxLen
          PROVE  insert(b, p, x) \in Buffers /\ to_slice(insert(b, p, x)) = Spliced(t, p, x)
      <3>1. x \in Seq(Chars) /\ p \in Nat /\ p \in 0..TextLen(b)
        BY <2>3, TextsAre
      <3>2. PICK n \in Nodes : n = Insert(b, p, x) /\ text(n) = Spliced(t, p, x)
        BY <2>1, <2>2, <3>1, InsertIs
      <3>3. Len(text(n)) = Len(t) + Len(x)
        BY <3>1, <3>2, SplicedIs
      <3>4. insert(b, p, x) = n
        BY <2>1, <3>1, <3>2 DEF UsesRopes
      <3>5. n \in Buffers /\ to_slice(n) = text(n)
        BY <2>5, <3>3, BufferIs
      <3> QED
        BY <3>2, <3>4, <3>5
    <2>6. ASSUME NEW p \in 0..Len(t), NEW q \in p..Len(t)
          PROVE  /\ delete(b, p, q - p) \in Buffers
                 /\ to_slice(delete(b, p, q - p)) = Cut(t, p, q - p)
                 /\ slice(b, p, q) = SubSeq(t, p + 1, q)
      <3>1. PICK c \in Nat : /\ c = q - p /\ p \in Nat /\ q \in Nat
                             /\ c \in 0..(TextLen(b) - p) /\ c \in 0..(Len(t) - p)
                             /\ p \in 0..TextLen(b) /\ q \in p..TextLen(b)
        BY <2>3
      <3>2. PICK n \in Nodes : n = Delete(b, p, c) /\ text(n) = Cut(t, p, c)
        BY <2>1, <2>2, <3>1, DeleteIs
      <3>3. Len(text(n)) = Len(t) - c
        BY <3>1, <3>2, CutIs
      <3>4. delete(b, p, c) = n /\ slice(b, p, q) = Slice(b, p, q)
        BY <2>1, <3>1, <3>2 DEF UsesRopes
      <3>5. Len(text(n)) <= MaxLen
        BY <1>0, <2>3, <3>1, <3>3
      <3>6. n \in Buffers /\ to_slice(n) = text(n)
        BY <3>5, BufferIs
      <3>7. Slice(b, p, q) = SubSeq(t, p + 1, q)
        BY <2>1, <2>2, <3>1, SliceIs
      <3> QED
        BY <3>1, <3>2, <3>4, <3>6, <3>7
    <2> QED
      BY <2>3, <2>4, <2>5, <2>6
  <1> QED
    BY <1>1, <1>2, <1>3 DEF KeepsText

-----------------------------------------------------------------------------
(* Balance                                                                 *)

BalanceInv == longest \in Nat /\ Balanced

LEMMA InsertBalanced ==
    ASSUME RopeRules, UsesRopes, NEW b \in Buffers, NEW p \in 0..Len(to_slice(b)),
           NEW x \in Seq(Chars), Len(x) <= 4 * LeafMax, avl(b)
    PROVE  avl(insert(b, p, x))
  <1>1. b \in Nodes
    BY DEF UsesRopes
  <1>2. to_slice(b) = text(b) /\ Len(text(b)) = TextLen(b) /\ TextLen(b) \in Nat
    BY <1>1, BufferIs, TextIs
  <1>3. p \in 0..TextLen(b) /\ p \in Nat
    BY <1>2
  <1>4. insert(b, p, x) = Insert(b, p, x)
    BY <1>1, <1>3 DEF UsesRopes
  <1> QED
    BY <1>1, <1>3, <1>4, InsertIs

LEMMA DeleteBalanced ==
    ASSUME RopeRules, UsesRopes, NEW b \in Buffers, NEW p \in 0..Len(to_slice(b)),
           NEW c \in 0..(Len(to_slice(b)) - p), avl(b)
    PROVE  avl(delete(b, p, c))
  <1>1. b \in Nodes
    BY DEF UsesRopes
  <1>2. to_slice(b) = text(b) /\ Len(text(b)) = TextLen(b) /\ TextLen(b) \in Nat
    BY <1>1, BufferIs, TextIs
  <1>3. p \in 0..TextLen(b) /\ p \in Nat /\ c \in 0..(TextLen(b) - p) /\ c \in Nat
    BY <1>2
  <1>4. delete(b, p, c) = Delete(b, p, c)
    BY <1>1, <1>3 DEF UsesRopes
  <1> QED
    BY <1>1, <1>3, <1>4, DeleteIs

LEMMA PutsInIs ==
    ASSUME longest \in Nat, NEW x \in Seq(Chars), PutsIn(x)
    PROVE  longest' \in Nat /\ longest' >= longest /\ longest' >= Len(x)
  BY LenProperties DEF PutsIn

(* Some text was put in, into a rope that is balanced if the buffer was.   *)
LEMMA BalancedInsert ==
    ASSUME RopeRules, UsesRopes, BalanceInv, NEW b \in Buffers, NEW p \in 0..Len(to_slice(b)),
           NEW x \in Seq(Chars), PutsIn(x), avl(buffer) => avl(b), buffer' = insert(b, p, x)
    PROVE  BalanceInv'
  <1>1. /\ longest \in Nat /\ longest' \in Nat /\ longest' >= longest /\ longest' >= Len(x)
        /\ Len(x) \in Nat
    BY PutsInIs, LenProperties DEF BalanceInv
  <1>2. LeafMax \in Nat /\ 4 * LeafMax \in Nat
    BY LeafMaxAssumption
  <1>3. ASSUME longest' <= 4 * LeafMax PROVE avl(buffer')
    <2>1. longest <= 4 * LeafMax /\ Len(x) <= 4 * LeafMax
      BY <1>1, <1>2, <1>3
    <2>2. avl(b)
      BY <2>1 DEF BalanceInv, Balanced
    <2>3. avl(insert(b, p, x))
      BY <2>1, <2>2, InsertBalanced
    <2> QED
      BY <2>3
  <1> QED
    BY <1>1, <1>3 DEF BalanceInv, Balanced

LEMMA BalancedDelete ==
    ASSUME RopeRules, UsesRopes, BalanceInv, buffer \in Buffers, NEW p \in 0..Len(Shown),
           NEW c \in 0..(Len(Shown) - p), longest' \in Nat, longest' >= longest,
           buffer' = delete(buffer, p, c)
    PROVE  BalanceInv'
  <1>1. longest \in Nat /\ LeafMax \in Nat /\ 4 * LeafMax \in Nat
    BY LeafMaxAssumption DEF BalanceInv
  <1>2. ASSUME longest' <= 4 * LeafMax PROVE avl(buffer')
    <2>1. longest <= 4 * LeafMax
      BY <1>1, <1>2
    <2>2. avl(buffer)
      BY <2>1 DEF BalanceInv, Balanced
    <2>3. avl(delete(buffer, p, c))
      BY <2>2, DeleteBalanced DEF Shown
    <2> QED
      BY <2>3
  <1> QED
    BY <1>2 DEF BalanceInv, Balanced

LEMMA DoInsertBalanced ==
    ASSUME RopeRules, UsesRopes, IInv, BalanceInv, NEW x \in Seq(Chars), NEW kind,
           DoInsert(x, kind)
    PROVE  BalanceInv'
  <1> DEFINE r == IF Selected THEN Without ELSE AsIs
  <1>1. buffer' = insert(r.buffer, r.cursor, x) /\ PutsIn(x)
    BY DEF DoInsert, EditOf
  <1>2. /\ r.buffer \in Buffers /\ r.cursor \in 0..Len(to_slice(r.buffer))
        /\ avl(buffer) => avl(r.buffer)
    <2>1. CASE Selected
      <3>1. /\ Without.buffer \in Buffers /\ Without.cursor \in 0..Len(to_slice(Without.buffer))
            /\ Without.buffer = delete(buffer, SelLo, SelHi - SelLo)
        BY WithoutKeeps DEF Without
      <3>2. /\ SelLo \in 0..Len(to_slice(buffer)) /\ SelHi \in SelLo..Len(to_slice(buffer))
            /\ buffer \in Buffers
        BY SelectionIs DEF IInv, TypeInv, Shown
      <3>3. SelHi - SelLo \in 0..(Len(to_slice(buffer)) - SelLo)
        <4>1. Len(to_slice(buffer)) \in Nat
          BY <3>2, BufferText, EditorAssumption
        <4> QED
          BY <3>2, <4>1
      <3>4. avl(buffer) => avl(delete(buffer, SelLo, SelHi - SelLo))
        BY <3>2, <3>3, DeleteBalanced
      <3> QED
        BY <2>1, <3>1, <3>4
    <2>2. CASE ~Selected
      BY <2>2 DEF AsIs, IInv, TypeInv, Shown
    <2> QED
      BY <2>1, <2>2
  <1> HIDE DEF r
  <1> QED
    BY <1>1, <1>2, BalancedInsert

LEMMA InsertsBalanced ==
    ASSUME RopeRules, UsesRopes, IInv, BalanceInv,
           InsertChar \/ InsertNewline \/ InsertTab \/ Paste
    PROVE  BalanceInv'
  <1>1. CASE InsertChar
    <2>1. PICK c \in Typed : DoInsert(<<c>>, "Insert")
      BY <1>1 DEF InsertChar
    <2>2. <<c>> \in Seq(Chars)
      BY EditorAssumption
    <2> QED
      BY <2>1, <2>2, DoInsertBalanced
  <1>2. CASE InsertNewline
    <2>1. PICK b \in Blanks : DoInsert(<<LF>> \o b, "no")
      BY <1>2 DEF InsertNewline
    <2>2. b \in Seq(Chars) /\ <<LF>> \in Seq(Chars)
      BY EditorAssumption
    <2>3. <<LF>> \o b \in Seq(Chars)
      BY <2>2, ConcatProperties
    <2> QED
      BY <2>1, <2>3, DoInsertBalanced
  <1>3. CASE InsertTab
    <2>1. PICK b \in Blanks : DoInsert(b, "no")
      BY <1>3 DEF InsertTab
    <2>2. b \in Seq(Chars)
      BY EditorAssumption
    <2> QED
      BY <2>1, <2>2, DoInsertBalanced
  <1>4. CASE Paste
    <2>1. PICK c \in Clips : DoInsert(Pasted(c), "no")
      BY <1>4 DEF Paste
    <2>2. Pasted(c) \in Seq(Chars)
      BY EditorAssumption
    <2> QED
      BY <2>1, <2>2, DoInsertBalanced
  <1> QED
    BY <1>1, <1>2, <1>3, <1>4

LEMMA DeletesBalanced ==
    ASSUME RopeRules, UsesRopes, IInv, BalanceInv,
           DeleteSelection \/ Backspace \/ DeleteForward
    PROVE  BalanceInv'
  <1>1. /\ buffer \in Buffers /\ cursor \in 0..Len(Shown) /\ Len(Shown) \in Nat
        /\ len(buffer) = Len(Shown)
    BY BufferText, EditorAssumption DEF IInv, TypeInv, Shown
  <1>2. longest' \in Nat /\ longest' >= longest
    <2>1. longest' = longest
      BY DEF DeleteSelection, Backspace, DeleteForward
    <2>2. longest \in Nat
      BY DEF BalanceInv
    <2> QED
      BY <2>1, <2>2
  <1>3. CASE DeleteSelection
    <2>1. buffer' = delete(buffer, SelLo, SelHi - SelLo)
      BY <1>3 DEF DeleteSelection, EditOf, Without
    <2>2. SelLo \in 0..Len(Shown) /\ SelHi \in SelLo..Len(Shown)
      BY SelectionIs DEF IInv
    <2>3. SelHi - SelLo \in 0..(Len(Shown) - SelLo)
      BY <1>1, <2>2
    <2> QED
      BY <1>1, <1>2, <2>1, <2>2, <2>3, BalancedDelete
  <1>4. CASE Backspace
    <2>1. buffer' = delete(buffer, cursor - 1, 1) /\ cursor > 0
      BY <1>4 DEF Backspace, EditOf
    <2>2. cursor - 1 \in 0..Len(Shown) /\ 1 \in 0..(Len(Shown) - (cursor - 1))
      BY <1>1, <2>1
    <2> QED
      BY <1>1, <1>2, <2>1, <2>2, BalancedDelete
  <1>5. CASE DeleteForward
    <2>1. buffer' = delete(buffer, cursor, 1) /\ cursor < Len(Shown)
      BY <1>1, <1>5 DEF DeleteForward, EditOf
    <2>2. 1 \in 0..(Len(Shown) - cursor)
      BY <1>1, <2>1
    <2> QED
      BY <1>1, <1>2, <2>1, <2>2, BalancedDelete
  <1> QED
    BY <1>3, <1>4, <1>5

LEMMA TakesOutBalanced ==
    ASSUME RopeRules, UsesRopes, BalanceInv, buffer \in Buffers, NEW e \in Entries,
           NEW t \in Texts, e.start \in 0..Len(t), Shown = Spliced(t, e.start, e.text),
           PutsIn(<< >>), buffer' = TakeOut(e)
    PROVE  BalanceInv'
  <1>1. PICK x \in Seq(Chars), p \in 0..Len(t) : x = e.text /\ p = e.start
    BY DEF Entries
  <1>2. t \in Seq(Chars) /\ Len(t) \in Nat /\ Len(x) \in Nat
    BY TextsAre, LenProperties
  <1>3. Len(Spliced(t, p, x)) = Len(t) + Len(x)
    BY <1>2, SplicedIs
  <1>4. p \in 0..Len(Shown) /\ Len(x) \in 0..(Len(Shown) - p)
    BY <1>1, <1>2, <1>3
  <1>5. longest' \in Nat /\ longest' >= longest
    BY EmptySeq, PutsInIs DEF BalanceInv
  <1>6. buffer' = delete(buffer, p, Len(x))
    BY <1>1 DEF TakeOut
  <1> QED
    BY <1>4, <1>5, <1>6, BalancedDelete

LEMMA PutsBackBalanced ==
    ASSUME RopeRules, UsesRopes, BalanceInv, buffer \in Buffers, NEW e \in Entries,
           e.start \in 0..Len(Shown), PutsIn(e.text), buffer' = PutIn(e)
    PROVE  BalanceInv'
  <1>1. PICK x \in Seq(Chars), p \in 0..Len(to_slice(buffer)) : x = e.text /\ p = e.start
    BY DEF Entries, Shown
  <1>2. buffer' = insert(buffer, p, x) /\ PutsIn(x)
    BY <1>1 DEF PutIn
  <1> QED
    BY <1>2, BalancedInsert

LEMMA UndoBalanced ==
    ASSUME RopeRules, UsesRopes, IInv, BalanceInv, Undo
    PROVE  BalanceInv'
  <1> DEFINE e == Last(undo)
             l == Last(log)
  <1>1. /\ undo # << >>
        /\ PutsIn(IF e.kind = "Inserted" THEN << >> ELSE e.text)
        /\ buffer' = IF e.kind = "Inserted" THEN TakeOut(e) ELSE PutIn(e)
    BY DEF Undo, Replayed
  <1>2. buffer \in Buffers /\ Undoes(undo, log, Shown)
    BY DEF IInv, TypeInv, HistoryInv
  <1>3. e \in Entries /\ l \in Steps /\ Fits(e, l) /\ l.to[1] = Shown
    BY <1>1, <1>2, UndoesFront
  <1> HIDE DEF e, l
  <1>4. l.from[1] \in Texts
    BY <1>3 DEF Steps, Places
  <1>5. CASE e.kind = "Inserted"
    <2>1. e.start \in 0..Len(l.from[1]) /\ Shown = Spliced(l.from[1], e.start, e.text)
      BY <1>3, <1>5 DEF Fits, With, Lacking
    <2> QED
      BY <1>1, <1>2, <1>3, <1>4, <1>5, <2>1, TakesOutBalanced
  <1>6. CASE e.kind # "Inserted"
    <2>1. e.start \in 0..Len(Shown)
      BY <1>3, <1>6 DEF Fits, With, Lacking
    <2> QED
      BY <1>1, <1>2, <1>3, <1>6, <2>1, PutsBackBalanced
  <1> QED
    BY <1>5, <1>6

LEMMA RedoBalanced ==
    ASSUME RopeRules, UsesRopes, IInv, BalanceInv, Redo
    PROVE  BalanceInv'
  <1> DEFINE e == Last(redo)
             l == Last(undone)
  <1>1. /\ redo # << >>
        /\ PutsIn(IF e.kind = "Inserted" THEN e.text ELSE << >>)
        /\ buffer' = IF e.kind = "Inserted" THEN PutIn(e) ELSE TakeOut(e)
    BY DEF Redo, Replayed
  <1>2. buffer \in Buffers /\ Redoes(redo, undone, Shown)
    BY DEF IInv, TypeInv, HistoryInv
  <1>3. e \in Entries /\ l \in Steps /\ Fits(e, l) /\ l.from[1] = Shown
    BY <1>1, <1>2, RedoesFront
  <1> HIDE DEF e, l
  <1>4. l.to[1] \in Texts
    BY <1>3 DEF Steps, Places
  <1>5. CASE e.kind # "Inserted"
    <2>1. e.start \in 0..Len(l.to[1]) /\ Shown = Spliced(l.to[1], e.start, e.text)
      BY <1>3, <1>5 DEF Fits, With, Lacking
    <2> QED
      BY <1>1, <1>2, <1>3, <1>4, <1>5, <2>1, TakesOutBalanced
  <1>6. CASE e.kind = "Inserted"
    <2>1. e.start \in 0..Len(Shown)
      BY <1>3, <1>6 DEF Fits, With, Lacking
    <2> QED
      BY <1>1, <1>2, <1>3, <1>6, <2>1, PutsBackBalanced
  <1> QED
    BY <1>5, <1>6

LEMMA LoadBalanced ==
    ASSUME RopeRules, UsesRopes, BalanceInv, Load
    PROVE  BalanceInv'
  <1>1. PICK f \in Files : buffer' = from_slice(Decode(f)) /\ PutsIn(Decode(f))
    BY DEF Load
  <1>2. PICK t \in Seq(Chars) : t = Decode(f)
    BY EditorAssumption, TextsAre
  <1>3. buffer' = BuildRope(t)
    BY <1>1, <1>2 DEF UsesRopes
  <1>4. longest' \in Nat /\ longest' >= Len(t) /\ Len(t) \in Nat
    BY <1>1, <1>2, PutsInIs, LenProperties DEF BalanceInv
  <1>5. ASSUME longest' <= 4 * LeafMax PROVE avl(buffer')
    <2>1. Len(t) <= 4 * LeafMax
      BY <1>4, <1>5, LeafMaxAssumption
    <2>2. avl(BuildRope(t))
      BY <2>1, BuildKeeps
    <2> QED
      BY <1>3, <2>2
  <1> QED
    BY <1>4, <1>5 DEF BalanceInv, Balanced

LEMMA RestBalanced ==
    ASSUME BalanceInv, MoveTo \/ SelectAll \/ LoadFails \/ Save \/ Check \/ UNCHANGED vars
    PROVE  BalanceInv'
  <1>1. buffer' = buffer /\ longest' = longest
    BY DEF MoveTo, SelectAll, LoadFails, Save, Check, vars
  <1> QED
    BY <1>1 DEF BalanceInv, Balanced

(* rope_buffer.rs, join_nodes and balance: for every leaf size and every   *)
(* sequence of edits, undos and redos, the rope of an editor stays an AVL  *)
(* tree as long as no text put in at once fills more than four leaves, so  *)
(* that lookups in it stay logarithmic.                                    *)
THEOREM EditingKeepsBalance ==
    ASSUME RopeRules, UsesRopes, PastesText
    PROVE  Spec => []Balanced
  <1>1. Init => BalanceInv
    <2>1. ASSUME Init PROVE BalanceInv
      <3>1. buffer = EmptyLeaf /\ longest = 0
        BY <2>1 DEF Init, UsesRopes
      <3>2. avl(EmptyLeaf)
        BY EmptyLeafIs
      <3> QED
        BY <3>1, <3>2 DEF BalanceInv, Balanced
    <2> QED
      BY <2>1
  <1>2. IInv /\ BalanceInv /\ [Next]_vars => BalanceInv'
    BY InsertsBalanced, DeletesBalanced, UndoBalanced, RedoBalanced, LoadBalanced,
       RestBalanced
    DEF Next
  <1>3. BalanceInv => Balanced
    BY DEF BalanceInv
  <1>4. Spec => []IInv
    BY HistoryFits
  <1> QED
    BY <1>1, <1>2, <1>3, <1>4, PTL DEF Spec

-----------------------------------------------------------------------------
(* Lines                                                                   *)

(* The newlines among the first p characters of a text.                    *)
NewlinesTo(t, p) == {i \in 1..p : t[i] = Newline}
Lines(t, p) == Cardinality(NewlinesTo(t, p))

LEMMA NewlinesFinite ==
    ASSUME NEW t, NEW p \in Nat
    PROVE  IsFiniteSet(NewlinesTo(t, p)) /\ Lines(t, p) \in Nat
  <1>1. IsFiniteSet(1..p)
    BY FS_Interval
  <1>2. NewlinesTo(t, p) \in SUBSET (1..p)
    BY DEF NewlinesTo
  <1>3. IsFiniteSet(NewlinesTo(t, p))
    BY <1>1, <1>2, FS_Subset
  <1> QED
    BY <1>3, FS_CardinalityType DEF Lines

LEMMA LinesMonotone ==
    ASSUME NEW t, NEW p \in Nat, NEW q \in Nat, p <= q
    PROVE  /\ Lines(t, p) <= Lines(t, q)
           /\ \A i \in (p + 1)..q : t[i] = Newline => Lines(t, p) < Lines(t, q)
  <1>1. NewlinesTo(t, p) \in SUBSET NewlinesTo(t, q)
    BY DEF NewlinesTo
  <1>2. IsFiniteSet(NewlinesTo(t, q)) /\ Lines(t, p) \in Nat /\ Lines(t, q) \in Nat
    BY NewlinesFinite
  <1>3. /\ Lines(t, p) <= Lines(t, q)
        /\ Lines(t, q) = Lines(t, p) => NewlinesTo(t, q) = NewlinesTo(t, p)
    BY <1>1, <1>2, FS_Subset DEF Lines
  <1>4. ASSUME NEW i \in (p + 1)..q, t[i] = Newline PROVE Lines(t, p) < Lines(t, q)
    <2>1. i \in NewlinesTo(t, q) /\ i \notin NewlinesTo(t, p)
      BY <1>4 DEF NewlinesTo
    <2>2. Lines(t, p) # Lines(t, q)
      BY <1>3, <2>1
    <2> QED
      BY <1>2, <1>3, <2>2
  <1> QED
    BY <1>3, <1>4

LEMMA NoLines == ASSUME NEW t PROVE Lines(t, 0) = 0
  <1>1. NewlinesTo(t, 0) = {}
    BY DEF NewlinesTo
  <1> QED
    BY <1>1, FS_EmptySet DEF Lines

LEMMA OneMore ==
    ASSUME NEW t, NEW p \in Nat
    PROVE  Lines(t, p + 1) = Lines(t, p) + IF t[p + 1] = Newline THEN 1 ELSE 0
  <1>1. IsFiniteSet(NewlinesTo(t, p)) /\ Lines(t, p) \in Nat
    BY NewlinesFinite
  <1>2. CASE t[p + 1] = Newline
    <2>1. NewlinesTo(t, p + 1) = NewlinesTo(t, p) \cup {p + 1} /\ p + 1 \notin NewlinesTo(t, p)
      BY <1>2 DEF NewlinesTo
    <2> QED
      BY <1>1, <1>2, <2>1, FS_AddElement DEF Lines
  <1>3. CASE t[p + 1] # Newline
    <2>1. NewlinesTo(t, p + 1) = NewlinesTo(t, p)
      BY <1>3 DEF NewlinesTo
    <2> QED
      BY <1>1, <1>3, <2>1 DEF Lines
  <1> QED
    BY <1>2, <1>3

(* Counting looks at the characters alone.                                 *)
LEMMA SameLines ==
    ASSUME NEW t, NEW u, NEW p \in Nat, \A i \in 1..p : t[i] = u[i]
    PROVE  Lines(t, p) = Lines(u, p)
  <1>1. NewlinesTo(t, p) = NewlinesTo(u, p)
    BY DEF NewlinesTo
  <1> QED
    BY <1>1 DEF Lines

(* The lines of two texts, one after the other.                            *)
LEMMA LinesOfHalves ==
    ASSUME NEW C, NEW u \in Seq(C), NEW v \in Seq(C)
    PROVE  /\ \A p \in 0..Len(u) : Lines(u \o v, p) = Lines(u, p)
           /\ \A p \in 0..Len(v) : Lines(u \o v, Len(u) + p) = Lines(u, Len(u)) + Lines(v, p)
  <1> DEFINE t == u \o v
  <1>1. PICK m \in Nat, k \in Nat : m = Len(u) /\ k = Len(v)
    BY LenProperties
  <1>2. \A i \in 1..(m + k) : t[i] = IF i <= m THEN u[i] ELSE v[i - m]
    BY <1>1, ConcatProperties
  <1> HIDE DEF t
  <1>3. ASSUME NEW p \in 0..m PROVE Lines(t, p) = Lines(u, p)
    <2>1. \A i \in 1..p : t[i] = u[i]
      BY <1>2
    <2> QED
      BY <2>1, SameLines
  <1> DEFINE T == {p \in Nat : p <= k /\ Lines(t, m + p) # Lines(u, m) + Lines(v, p)}
  <1>4. ASSUME T # {} PROVE FALSE
    <2>1. PICK p \in T : \A q \in T : p <= q
      <3>1. T \in SUBSET Nat
        OBVIOUS
      <3> HIDE DEF T
      <3> QED
        BY <1>4, <3>1, Least
    <2>2. p \in Nat /\ p <= k /\ Lines(t, m + p) # Lines(u, m) + Lines(v, p)
      BY <2>1
    <2>3. p # 0
      <3>1. Lines(t, m) = Lines(u, m) /\ Lines(v, 0) = 0 /\ Lines(u, m) \in Nat
        BY <1>3, NoLines, NewlinesFinite
      <3> QED
        BY <2>2, <3>1
    <2>4. PICK q \in Nat : p = q + 1
      BY <2>2, <2>3
    <2>5. Lines(t, m + q) = Lines(u, m) + Lines(v, q)
      <3>1. q \notin T
        BY <2>1, <2>4
      <3> QED
        BY <2>2, <2>4, <3>1
    <2> HIDE DEF T
    <2>6. m + q \in Nat /\ (m + q) + 1 = m + p /\ (m + q) + 1 \in 1..(m + k)
          /\ ~((m + q) + 1 <= m) /\ (m + q) + 1 - m = q + 1
      BY <2>2, <2>4
    <2>7. t[(m + q) + 1] = v[q + 1]
      BY <1>2, <2>6
    <2>8. Lines(t, (m + q) + 1) = Lines(t, m + q) + IF t[(m + q) + 1] = Newline THEN 1 ELSE 0
      BY <2>6, OneMore
    <2>9. Lines(v, q + 1) = Lines(v, q) + IF v[q + 1] = Newline THEN 1 ELSE 0
      BY OneMore
    <2>10. Lines(v, q) \in Nat /\ Lines(u, m) \in Nat /\ Lines(t, m + q) \in Nat
      BY <2>6, NewlinesFinite
    <2>11. Lines(t, m + p) = Lines(u, m) + Lines(v, p)
      BY <2>4, <2>5, <2>6, <2>7, <2>8, <2>9, <2>10
    <2> QED
      BY <2>2, <2>11
  <1>5. ASSUME NEW p \in 0..k PROVE Lines(t, m + p) = Lines(u, m) + Lines(v, p)
    BY <1>4
  <1> HIDE DEF T
  <1> QED
    BY <1>1, <1>3, <1>5 DEF t

LEMMA CountIs ==
    ASSUME NEW C, NEW t \in Seq(C)
    PROVE  CountNewlines(t) = Lines(t, Len(t))
  <1>1. DOMAIN t = 1..Len(t)
    BY LenProperties
  <1> QED
    BY <1>1 DEF CountNewlines, Lines, NewlinesTo

(* Newlines counted in a part of a text from its start.                    *)
LEMMA CountPart ==
    ASSUME NEW C, NEW t \in Seq(C), NEW p \in 0..Len(t)
    PROVE  CountNewlines(SubSeq(t, 1, p)) = Lines(t, p)
  <1>1. Len(t) \in Nat /\ p \in Nat /\ 0 \in 0..Len(t) /\ p \in 0..Len(t)
    BY LenProperties
  <1>2. /\ SubSeq(t, 0 + 1, p) \in Seq(C) /\ Len(SubSeq(t, 0 + 1, p)) = p - 0
        /\ \A i \in 1..(p - 0) : SubSeq(t, 0 + 1, p)[i] = t[0 + i]
    BY <1>1, PartIs
  <1> DEFINE a == SubSeq(t, 1, p)
  <1>3. a \in Seq(C) /\ Len(a) = p /\ \A i \in 1..p : a[i] = t[i]
    BY <1>1, <1>2
  <1> HIDE DEF a
  <1>4. CountNewlines(a) = Lines(a, p) /\ Lines(a, p) = Lines(t, p)
    BY <1>1, <1>3, CountIs, SameLines
  <1> QED
    BY <1>4 DEF a

(* The line numbered k, from 0, ends at offset j.                          *)
EndsAt(t, k, j) ==
    /\ j \in Nat /\ j < Len(t) /\ t[j + 1] = Newline
    /\ Lines(t, j + 1) = k + 1

LEMMA SomeEnd ==
    ASSUME NEW C, NEW t \in Seq(C), NEW k \in Nat, k < Lines(t, Len(t))
    PROVE  \E j : EndsAt(t, k, j)
  <1>1. PICK n \in Nat : n = Len(t)
    BY LenProperties
  <1> DEFINE T == {p \in Nat : p <= n /\ Lines(t, p) > k}
  <1>2. T \in SUBSET Nat /\ n \in T
    BY <1>1
  <1>3. PICK p \in T : \A q \in T : p <= q
    <2> HIDE DEF T
    <2> QED
      BY <1>2, Least
  <1>4. p \in Nat /\ p <= n /\ Lines(t, p) > k
    BY <1>3
  <1>5. p # 0
    <2>1. Lines(t, 0) = 0
      BY NoLines
    <2> QED
      BY <1>4, <2>1
  <1>6. PICK j \in Nat : p = j + 1
    BY <1>4, <1>5
  <1>7. j \notin T
    BY <1>3, <1>6
  <1>8. ~(Lines(t, j) > k)
    BY <1>4, <1>6, <1>7
  <1> HIDE DEF T
  <1>9. Lines(t, j + 1) = Lines(t, j) + IF t[j + 1] = Newline THEN 1 ELSE 0
    BY OneMore
  <1>10. Lines(t, j) \in Nat
    BY NewlinesFinite
  <1>11. t[j + 1] = Newline /\ Lines(t, j + 1) = k + 1
    BY <1>4, <1>6, <1>8, <1>9, <1>10
  <1>12. j < Len(t)
    BY <1>1, <1>4, <1>6
  <1> QED
    BY <1>11, <1>12 DEF EndsAt

(* A rope is read as the text it holds.                                    *)
ReadsWell(n) ==
    LET t == text(n) IN
    /\ NewlineCount(n) = Lines(t, Len(t))
    /\ \A p \in Nat : p < Len(t) => char_at_node(n, p) = t[p + 1]
    /\ \A p \in 0..Len(t) : count_newlines_before(n, p) = Lines(t, p)
    /\ \A k \in Nat : k < Lines(t, Len(t)) => EndsAt(t, k, nth_newline_pos_raw(n, k))

LEMMA LeafReads ==
    ASSUME RopeRules, NEW n \in Nodes, IsLeaf(n)
    PROVE  ReadsWell(n)
  <1>1. PICK t \in Seq(Chars) : t = n.buf /\ t = text(n) /\ n = Leaf(t)
    BY NodeIs, Unfolded DEF Text
  <1>2. Len(t) \in Nat /\ DOMAIN t = 1..Len(t)
    BY LenProperties
  <1>3. NewlineCount(n) = Lines(t, Len(t))
    BY <1>1, LeafIs, CountIs
  <1>4. ASSUME NEW p \in Nat, p < Len(t) PROVE char_at_node(n, p) = t[p + 1]
    <2>1. char_at_node(n, p) = CharAtNode(n, p)
      BY DEF RopeRules, Recursion
    <2> QED
      BY <1>1, <2>1 DEF CharAtNode
  <1>5. ASSUME NEW p \in 0..Len(t) PROVE count_newlines_before(n, p) = Lines(t, p)
    <2>1. p \in Nat /\ LesserOf(p, Len(t)) = p
      BY <1>2 DEF LesserOf
    <2>2. count_newlines_before(n, p) = CountNewlinesBefore(n, p)
      BY <2>1 DEF RopeRules, Recursion
    <2>3. CASE p = 0
      <3>1. CountNewlinesBefore(n, p) = 0
        BY <2>3 DEF CountNewlinesBefore
      <3> QED
        BY <2>2, <2>3, <3>1, NoLines
    <2>4. CASE p # 0
      <3>1. CountNewlinesBefore(n, p) = CountNewlines(SubSeq(t, 1, p))
        BY <1>1, <2>1, <2>4 DEF CountNewlinesBefore
      <3>2. CountNewlines(SubSeq(t, 1, p)) = Lines(t, p)
        BY CountPart
      <3> QED
        BY <2>2, <3>1, <3>2
    <2> QED
      BY <2>3, <2>4
  <1>6. ASSUME NEW k \in Nat, k < Lines(t, Len(t))
        PROVE  EndsAt(t, k, nth_newline_pos_raw(n, k))
    <2> DEFINE at == {i \in DOMAIN t : t[i] = Newline /\ CountNewlines(SubSeq(t, 1, i)) = k + 1}
               i == CHOOSE i \in at : TRUE
    <2>1. nth_newline_pos_raw(n, k) = NthNewlinePosRaw(n, k)
      BY DEF RopeRules, Recursion
    <2>2. NthNewlinePosRaw(n, k) = IF at = {} THEN None ELSE i - 1
      BY <1>1 DEF NthNewlinePosRaw
    <2>3. at # {}
      <3>1. PICK j : EndsAt(t, k, j)
        BY <1>6, SomeEnd
      <3>2. j \in Nat /\ j + 1 \in 0..Len(t) /\ j + 1 \in DOMAIN t
        BY <1>2, <3>1 DEF EndsAt
      <3>3. CountNewlines(SubSeq(t, 1, j + 1)) = Lines(t, j + 1)
        BY <3>2, CountPart
      <3>4. j + 1 \in at
        BY <3>1, <3>2, <3>3 DEF EndsAt
      <3> QED
        BY <3>4
    <2>4. i \in at
      BY <2>3
    <2>5. /\ i \in 1..Len(t) /\ t[i] = Newline
          /\ CountNewlines(SubSeq(t, 1, i)) = k + 1
      BY <1>2, <2>4
    <2> HIDE DEF i, at
    <2>6. CountNewlines(SubSeq(t, 1, i)) = Lines(t, i)
      <3>1. i \in 0..Len(t)
        BY <1>2, <2>5
      <3> QED
        BY <3>1, CountPart
    <2>7. PICK j \in Nat : j = i - 1 /\ j + 1 = i /\ j < Len(t)
      BY <1>2, <2>5
    <2>8. EndsAt(t, k, j)
      BY <2>5, <2>6, <2>7 DEF EndsAt
    <2> QED
      BY <2>1, <2>2, <2>3, <2>7, <2>8
  <1> QED
    BY <1>1, <1>3, <1>4, <1>5, <1>6 DEF ReadsWell

LEMMA BranchReads ==
    ASSUME RopeRules, NEW n \in Nodes, ~IsLeaf(n), ReadsWell(n.left), ReadsWell(n.right)
    PROVE  ReadsWell(n)
  <1>1. Height(n) > 0
    BY ChildrenAreLower, NodeIs
  <1>2. PICK a \in Nodes, b \in Nodes :
           /\ a = n.left /\ b = n.right /\ text(n) = text(a) \o text(b)
           /\ n.left_len = TextLen(a) /\ ReadsWell(a) /\ ReadsWell(b)
           /\ n = Branch(a, b)
    BY <1>1, HigherIs
  <1>3. PICK u \in Seq(Chars), v \in Seq(Chars), m \in Nat, l \in Nat :
           /\ u = text(a) /\ v = text(b) /\ m = Len(u) /\ l = Len(v) /\ m = TextLen(a)
    BY TextIs
  <1>4. PICK t \in Seq(Chars) : t = u \o v /\ t = text(n)
    BY <1>2, <1>3, TextIs
  <1>5. /\ Len(t) = m + l
        /\ \A i \in 1..(m + l) : t[i] = IF i <= m THEN u[i] ELSE v[i - m]
    <2>1. /\ Len(u \o v) = Len(u) + Len(v)
          /\ \A i \in 1..(Len(u) + Len(v)) :
                (u \o v)[i] = IF i <= Len(u) THEN u[i] ELSE v[i - Len(u)]
      BY ConcatProperties
    <2>2. m = Len(u) /\ l = Len(v) /\ t = u \o v
      BY <1>3, <1>4
    <2> QED
      BY <2>1, <2>2, Zenon
  <1>6. /\ \A p \in 0..m : Lines(t, p) = Lines(u, p)
        /\ \A p \in 0..l : Lines(t, m + p) = Lines(u, m) + Lines(v, p)
    <2>1. /\ \A p \in 0..Len(u) : Lines(u \o v, p) = Lines(u, p)
          /\ \A p \in 0..Len(v) : Lines(u \o v, Len(u) + p) = Lines(u, Len(u)) + Lines(v, p)
      BY LinesOfHalves
    <2>2. m = Len(u) /\ l = Len(v) /\ t = u \o v
      BY <1>3, <1>4
    <2> QED
      BY <2>1, <2>2, Zenon
  <1>7. Lines(t, m + l) = Lines(u, m) + Lines(v, l) /\ Lines(u, m) \in Nat /\ Lines(v, l) \in Nat
    BY <1>6, NewlinesFinite
  <1>8. /\ NewlineCount(a) = Lines(u, m) /\ NewlineCount(b) = Lines(v, l)
        /\ \A p \in Nat : p < m => char_at_node(a, p) = u[p + 1]
        /\ \A p \in Nat : p < l => char_at_node(b, p) = v[p + 1]
        /\ \A p \in 0..m : count_newlines_before(a, p) = Lines(u, p)
        /\ \A p \in 0..l : count_newlines_before(b, p) = Lines(v, p)
        /\ \A k \in Nat : k < Lines(u, m) => EndsAt(u, k, nth_newline_pos_raw(a, k))
        /\ \A k \in Nat : k < Lines(v, l) => EndsAt(v, k, nth_newline_pos_raw(b, k))
    BY <1>2, <1>3 DEF ReadsWell
  <1>9. n.left = a /\ n.right = b /\ n.left_len = m
    BY <1>2, <1>3
  <1>10. NewlineCount(n) = Lines(t, m + l)
    <2>1. NewlineCount(n) = NewlineCount(a) + NewlineCount(b)
      BY <1>2, BranchIs
    <2> QED
      BY <1>7, <1>8, <2>1
  <1>11. ASSUME NEW p \in Nat, p < m + l PROVE char_at_node(n, p) = t[p + 1]
    <2>1. char_at_node(n, p) = IF p < m THEN char_at_node(a, p) ELSE char_at_node(b, p - m)
      BY <1>9 DEF RopeRules, Recursion, CharAtNode
    <2>2. p + 1 \in 1..(m + l) /\ (p + 1 <= m <=> p < m) /\ (p + 1) - m = (p - m) + 1
      BY <1>11
    <2>3. t[p + 1] = IF p < m THEN u[p + 1] ELSE v[(p - m) + 1]
      BY <1>5, <2>2
    <2>4. ~(p < m) => p - m \in Nat /\ p - m < l
      BY <1>11
    <2> QED
      BY <1>8, <2>1, <2>3, <2>4
  <1>12. ASSUME NEW p \in 0..(m + l) PROVE count_newlines_before(n, p) = Lines(t, p)
    <2>1. p \in Nat
      OBVIOUS
    <2>2. CASE p = 0
      <3>1. count_newlines_before(n, p) = 0
        BY <2>1, <2>2 DEF RopeRules, Recursion, CountNewlinesBefore
      <3> QED
        BY <2>2, <3>1, NoLines
    <2>3. CASE p # 0
      <3>1. count_newlines_before(n, p)
              = IF p <= m THEN count_newlines_before(a, p)
                ELSE NewlineCount(a) + count_newlines_before(b, p - m)
        BY <1>9, <2>1, <2>3 DEF RopeRules, Recursion, CountNewlinesBefore
      <3>2. CASE p <= m
        <4>1. p \in 0..m
          BY <2>1, <3>2
        <4> QED
          BY <1>6, <1>8, <3>1, <3>2, <4>1
      <3>3. CASE ~(p <= m)
        <4>1. p - m \in 0..l /\ m + (p - m) = p
          BY <2>1, <3>3
        <4>2. Lines(t, m + (p - m)) = Lines(u, m) + Lines(v, p - m)
          BY <1>6, <4>1
        <4>3. count_newlines_before(b, p - m) = Lines(v, p - m)
          BY <1>8, <4>1
        <4> QED
          BY <1>8, <3>1, <3>3, <4>1, <4>2, <4>3
      <3> QED
        BY <3>2, <3>3
    <2> QED
      BY <2>2, <2>3
  <1>13. ASSUME NEW k \in Nat, k < Lines(t, m + l)
         PROVE  EndsAt(t, k, nth_newline_pos_raw(n, k))
    <2>0. nth_newline_pos_raw(n, k) = NthNewlinePosRaw(n, k)
      BY DEF RopeRules, Recursion
    <2>1. CASE k < Lines(u, m)
      <3>1. nth_newline_pos_raw(n, k) = nth_newline_pos_raw(a, k)
        BY <1>8, <1>9, <2>0, <2>1 DEF NthNewlinePosRaw
      <3>2. PICK j \in Nat : /\ j = nth_newline_pos_raw(a, k) /\ j < m
                             /\ u[j + 1] = Newline /\ Lines(u, j + 1) = k + 1
        BY <1>3, <1>8, <2>1 DEF EndsAt
      <3>3. j + 1 \in 1..(m + l) /\ j + 1 <= m /\ j + 1 \in 0..m /\ j < m + l
        BY <3>2
      <3>4. t[j + 1] = Newline /\ Lines(t, j + 1) = k + 1
        BY <1>5, <1>6, <3>2, <3>3
      <3>5. EndsAt(t, k, j)
        BY <1>5, <3>3, <3>4 DEF EndsAt
      <3> QED
        BY <3>1, <3>2, <3>5
    <2>2. CASE ~(k < Lines(u, m))
      <3>1. PICK q \in Nat : q = k - Lines(u, m) /\ q < Lines(v, l) /\ k = Lines(u, m) + q
        <4>1. PICK x \in Nat, y \in Nat : x = Lines(u, m) /\ y = Lines(v, l)
          BY <1>7
        <4>2. ~(k < x) /\ k < x + y
          BY <1>7, <1>13, <2>2, <4>1
        <4>3. k - x \in Nat /\ k - x < y /\ k = x + (k - x)
          BY <4>2
        <4> QED
          BY <4>1, <4>3
      <3>2. PICK j \in Nat : /\ j = nth_newline_pos_raw(b, q) /\ j < l
                             /\ v[j + 1] = Newline /\ Lines(v, j + 1) = q + 1
        BY <1>3, <1>8, <3>1 DEF EndsAt
      <3>3. nth_newline_pos_raw(n, k) = m + j
        <4>1. j # None
          BY <3>2 DEF None
        <4>2. NthNewlinePosRaw(n, k) = IF j = None THEN None ELSE m + j
          BY <1>8, <1>9, <2>2, <3>1, <3>2 DEF NthNewlinePosRaw
        <4> QED
          BY <2>0, <4>1, <4>2
      <3>4. /\ (m + j) + 1 \in 1..(m + l) /\ ~((m + j) + 1 <= m)
            /\ (m + j) + 1 - m = j + 1 /\ m + (j + 1) = (m + j) + 1 /\ j + 1 \in 0..l
            /\ m + j \in Nat /\ m + j < m + l
        <4>1. j < l
          BY <3>2
        <4> QED
          BY <4>1
      <3>5. t[(m + j) + 1] = Newline
        <4>1. t[(m + j) + 1] = v[(m + j) + 1 - m]
          <5>1. \A i \in 1..(m + l) : ~(i <= m) => t[i] = v[i - m]
            BY <1>5, Zenon
          <5>2. PICK i \in 1..(m + l) : i = (m + j) + 1 /\ ~(i <= m)
            BY <3>4
          <5>3. t[i] = v[i - m]
            BY <5>1, <5>2, Zenon
          <5> QED
            BY <5>2, <5>3
        <4>2. (m + j) + 1 - m = j + 1
          BY <3>4
        <4>3. v[j + 1] = Newline
          BY <3>2
        <4> QED
          BY <4>1, <4>2, <4>3, Zenon
      <3>6. Lines(t, m + (j + 1)) = Lines(u, m) + Lines(v, j + 1)
        BY <1>6, <3>4
      <3>7. Lines(t, (m + j) + 1) = k + 1
        <4>1. PICK x \in Nat : x = Lines(u, m)
          BY <1>7
        <4>2. Lines(t, m + (j + 1)) = x + (q + 1)
          BY <3>2, <3>6, <4>1
        <4>3. k = x + q /\ m + (j + 1) = (m + j) + 1
          BY <3>1, <3>4, <4>1
        <4>4. x + (q + 1) = k + 1
          BY <4>3
        <4> QED
          BY <4>2, <4>3, <4>4, Zenon
      <3>8. EndsAt(t, k, m + j)
        BY <1>5, <3>4, <3>5, <3>7 DEF EndsAt
      <3> QED
        BY <3>3, <3>8
    <2> QED
      BY <2>1, <2>2
  <1> QED
    BY <1>4, <1>5, <1>10, <1>11, <1>12, <1>13 DEF ReadsWell

LEMMA ReadsKeep ==
    ASSUME RopeRules, NEW n \in Nodes
    PROVE  ReadsWell(n)
  <1> DEFINE L == {m \in Nodes : ~ReadsWell(m)}
  <1>1. ASSUME NEW m \in L PROVE ~IsLeaf(m) /\ (m.left \in L \/ m.right \in L)
    <2>1. m \in Nodes /\ ~ReadsWell(m)
      OBVIOUS
    <2>2. ~IsLeaf(m)
      BY <2>1, LeafReads
    <2>3. m.left \in Nodes /\ m.right \in Nodes
      BY <2>1, <2>2, NodeIs
    <2>4. ~(ReadsWell(m.left) /\ ReadsWell(m.right))
      BY <2>1, <2>2, BranchReads
    <2> QED
      BY <2>2, <2>3, <2>4
  <1>2. L \in SUBSET Nodes
    OBVIOUS
  <1>3. L = {}
    <2> HIDE DEF L
    <2> QED
      BY <1>1, <1>2, RopeInduction
  <1> QED
    BY <1>3

-----------------------------------------------------------------------------
(* The rope as a text                                                      *)

LEMMA ShowsEdits ==
    ASSUME RopeRules, buffer \in Nodes
    PROVE  EditsAsText
  <1>1. PICK n \in Nodes, t \in Seq(Chars), m \in Nat :
           n = buffer /\ t = text(n) /\ m = Len(t) /\ m = TextLen(n)
    BY TextIs
  <1>2. ASSUME NEW p \in 0..m, NEW c \in Typed
        PROVE  text(Insert(n, p, <<c>>)) = InsertAt(t, p + 1, c)
    <2>1. c \in Chars
      BY EditorAssumption
    <2>2. <<c>> \in Seq(Chars) /\ p \in 0..TextLen(n)
      BY <1>1, <2>1
    <2>3. text(Insert(n, p, <<c>>)) = Spliced(text(n), p, <<c>>)
      BY <2>2, InsertIs
    <2>4. (p + 1) - 1 = p
      OBVIOUS
    <2>5. InsertAt(t, p + 1, c) = SubSeq(t, 1, p) \o <<c>> \o SubSeq(t, p + 1, Len(t))
      BY <2>4 DEF InsertAt
    <2> QED
      BY <1>1, <2>3, <2>5 DEF Spliced
  <1>3. ASSUME NEW p \in 0..m, NEW q \in p..m
        PROVE  text(Delete(n, p, q - p)) = SubSeq(t, 1, p) \o SubSeq(t, q + 1, m)
    <2>1. p \in 0..TextLen(n) /\ q - p \in 0..(TextLen(n) - p)
      BY <1>1
    <2>2. text(Delete(n, p, q - p)) = Cut(text(n), p, q - p)
      BY <2>1, DeleteIs
    <2>3. p + (q - p) + 1 = q + 1
      OBVIOUS
    <2> QED
      BY <1>1, <2>2, <2>3 DEF Cut
  <1> QED
    BY <1>1, <1>2, <1>3 DEF EditsAsText

(* Where the line of offset p begins: after the last newline before p, or  *)
(* at the start of the text.                                               *)
StartsLine(t, p, s) ==
    /\ s \in 0..p
    /\ s = 0 \/ s \in NewlinesTo(t, p)
    /\ \A i \in NewlinesTo(t, p) : i <= s

LEMMA LineStartIs ==
    ASSUME RopeRules, NEW n \in Nodes, NEW p \in 0..Len(text(n))
    PROVE  StartsLine(text(n), p, LineStart(n, Lines(text(n), p)))
  <1>1. PICK t \in Seq(Chars), m \in Nat : t = text(n) /\ m = Len(t)
    BY TextIs
  <1>2. p \in Nat /\ p <= m
    BY <1>1
  <1>3. PICK k \in Nat : k = Lines(t, p)
    BY <1>2, NewlinesFinite
  <1>4. CASE k = 0
    <2>1. LineStart(n, k) = 0
      BY <1>4 DEF LineStart
    <2>2. NewlinesTo(t, p) = {}
      BY <1>2, <1>3, <1>4, NewlinesFinite, FS_EmptySet DEF Lines
    <2> QED
      BY <1>1, <1>2, <1>3, <2>1, <2>2 DEF StartsLine
  <1>5. CASE k # 0
    <2>1. PICK h \in Nat : k = h + 1 /\ k - 1 = h
      BY <1>5
    <2>2. Lines(t, p) <= Lines(t, m) /\ Lines(t, m) \in Nat
      BY <1>2, LinesMonotone, NewlinesFinite
    <2>3. h < Lines(t, m)
      BY <1>3, <2>1, <2>2
    <2>4. EndsAt(t, h, nth_newline_pos_raw(n, h))
      BY <1>1, <2>3, ReadsKeep DEF ReadsWell
    <2>5. PICK j \in Nat : /\ j = nth_newline_pos_raw(n, h) /\ j < m
                           /\ t[j + 1] = Newline /\ Lines(t, j + 1) = k
      BY <1>1, <2>1, <2>4 DEF EndsAt
    <2>6. LineStart(n, k) = j + 1
      BY <1>5, <2>1, <2>5 DEF LineStart
    <2>7. j + 1 <= p
      <3>1. ASSUME p <= j PROVE FALSE
        <4>1. j + 1 \in Nat /\ p <= j + 1 /\ j + 1 \in (p + 1)..(j + 1)
          BY <1>2, <3>1
        <4>2. Lines(t, p) < Lines(t, j + 1)
          BY <1>2, <2>5, <4>1, LinesMonotone
        <4> QED
          BY <1>3, <2>5, <4>2
      <3> QED
        BY <1>2, <3>1
    <2>8. ASSUME NEW i \in NewlinesTo(t, p) PROVE i <= j + 1
      <3>1. i \in 1..p /\ t[i] = Newline
        BY DEF NewlinesTo
      <3>2. ASSUME ~(i <= j + 1) PROVE FALSE
        <4>1. j + 1 \in Nat /\ i \in ((j + 1) + 1)..p
          BY <1>2, <3>1, <3>2
        <4>2. Lines(t, j + 1) < Lines(t, p)
          BY <1>2, <2>7, <3>1, <4>1, LinesMonotone
        <4> QED
          BY <1>3, <2>5, <4>2
      <3> QED
        BY <3>2
    <2>9. j + 1 \in NewlinesTo(t, p) /\ j + 1 \in 0..p
      BY <1>2, <2>5, <2>7 DEF NewlinesTo
    <2>10. StartsLine(t, p, j + 1)
      BY <2>8, <2>9 DEF StartsLine
    <2> QED
      BY <1>1, <1>3, <2>6, <2>10
  <1> QED
    BY <1>4, <1>5

(* The line of offset p ends at p or after it.                             *)
LEMMA LineEndIs ==
    ASSUME RopeRules, NEW n \in Nodes, NEW p \in 0..Len(text(n))
    PROVE  LET k == Lines(text(n), p) IN
           k < LineCount(n) /\ LineEnd(n, k) \in Nat /\ p <= LineEnd(n, k)
  <1>1. PICK t \in Seq(Chars), m \in Nat : t = text(n) /\ m = Len(t) /\ m = TextLen(n)
    BY TextIs
  <1>2. p \in Nat /\ p <= m
    BY <1>1
  <1>3. PICK k \in Nat, l \in Nat : k = Lines(t, p) /\ l = Lines(t, m)
    BY <1>2, NewlinesFinite
  <1>4. k <= l
    BY <1>2, <1>3, LinesMonotone
  <1>5. LineCount(n) = l + 1
    BY <1>1, <1>3, ReadsKeep DEF ReadsWell, LineCount
  <1>6. CASE k < l
    <2>1. EndsAt(t, k, nth_newline_pos_raw(n, k))
      BY <1>1, <1>3, <1>6, ReadsKeep DEF ReadsWell
    <2>2. PICK j \in Nat : j = nth_newline_pos_raw(n, k) /\ Lines(t, j + 1) = k + 1
      BY <2>1 DEF EndsAt
    <2>3. LineEnd(n, k) = j
      <3>1. k + 1 < LineCount(n)
        BY <1>5, <1>6
      <3> QED
        BY <2>2, <3>1 DEF LineEnd
    <2>4. p <= j
      <3>1. ASSUME ~(p <= j) PROVE FALSE
        <4>1. j + 1 \in Nat /\ j + 1 <= p
          BY <1>2, <3>1
        <4>2. Lines(t, j + 1) <= Lines(t, p)
          BY <1>2, <4>1, LinesMonotone
        <4> QED
          BY <1>3, <2>2, <4>2
      <3> QED
        BY <3>1
    <2> QED
      BY <1>1, <1>3, <1>5, <1>6, <2>3, <2>4
  <1>7. CASE ~(k < l)
    <2>1. LineEnd(n, k) = m
      <3>1. ~(k + 1 < LineCount(n))
        BY <1>4, <1>5, <1>7
      <3> QED
        BY <1>1, <3>1 DEF LineEnd
    <2> QED
      BY <1>1, <1>2, <1>3, <1>4, <1>5, <1>7, <2>1
  <1> QED
    BY <1>6, <1>7

LEMMA ShowsLines ==
    ASSUME RopeRules, NEW n \in Nodes, NEW p \in 0..Len(text(n))
    PROVE  LET lc == OffsetToLineCol(n, p)
               earlier == NewlinesTo(text(n), p)
           IN /\ lc[1] = Cardinality(earlier)
              /\ \A i \in earlier : lc[2] <= p - i
              /\ lc[2] = p \/ p - lc[2] \in earlier
              /\ LineColToOffset(n, lc[1], lc[2]) = p
  <1>1. PICK t \in Seq(Chars), m \in Nat : t = text(n) /\ m = Len(t) /\ m = TextLen(n)
    BY TextIs
  <1>2. p \in Nat /\ p <= m
    BY <1>1
  <1>3. PICK k \in Nat : k = Lines(t, p)
    BY <1>2, NewlinesFinite
  <1>4. count_newlines_before(n, p) = k /\ LesserOf(p, TextLen(n)) = p
    BY <1>1, <1>2, <1>3, ReadsKeep DEF ReadsWell, LesserOf
  <1>5. StartsLine(t, p, LineStart(n, k))
    BY <1>1, <1>3, LineStartIs
  <1>6. PICK s \in Nat : s = LineStart(n, k) /\ s <= p /\ StartsLine(t, p, s)
    BY <1>2, <1>5 DEF StartsLine
  <1>7. OffsetToLineCol(n, p) = <<k, p - s>>
    BY <1>4, <1>6 DEF OffsetToLineCol
  <1>8. k < LineCount(n) /\ LineEnd(n, k) \in Nat /\ p <= LineEnd(n, k)
    BY <1>1, <1>3, LineEndIs
  <1>9. LineColToOffset(n, k, p - s) = p
    <2>1. PICK e \in Nat : e = LineEnd(n, k) /\ p <= e
      BY <1>8
    <2>2. LesserOf(p - s, e - s) = p - s
      BY <1>2, <1>6, <2>1 DEF LesserOf
    <2>3. LineCount(n) \in Nat
      <3>1. NewlineCount(n) = Lines(t, m) /\ Lines(t, m) \in Nat
        BY <1>1, ReadsKeep, NewlinesFinite DEF ReadsWell
      <3> QED
        BY <3>1 DEF LineCount
    <2>4. ~(k >= LineCount(n))
      BY <1>8, <2>3
    <2>5. LineColToOffset(n, k, p - s) = s + (p - s)
      BY <1>6, <2>1, <2>2, <2>4 DEF LineColToOffset
    <2> QED
      BY <1>2, <1>6, <2>5
  <1>10. \A i \in NewlinesTo(t, p) : p - s <= p - i
    <2>1. ASSUME NEW i \in NewlinesTo(t, p) PROVE p - s <= p - i
      <3>1. i \in Nat /\ i <= s
        BY <1>6 DEF StartsLine, NewlinesTo
      <3> QED
        BY <1>2, <1>6, <3>1
    <2> QED
      BY <2>1
  <1>11. p - s = p \/ p - (p - s) \in NewlinesTo(t, p)
    <2>1. p - (p - s) = s /\ (s = 0 => p - s = p)
      BY <1>2, <1>6
    <2>2. s = 0 \/ s \in NewlinesTo(t, p)
      BY <1>6 DEF StartsLine
    <2> QED
      BY <2>1, <2>2
  <1>12. Cardinality(NewlinesTo(t, p)) = k
    BY <1>3 DEF Lines
  <1> QED
    BY <1>1, <1>7, <1>9, <1>10, <1>11, <1>12

LEMMA ShowsText ==
    ASSUME RopeRules, buffer \in Nodes
    PROVE  ReadsAsText
  <1>1. ToSlice(buffer) = text(buffer)
    BY ToSliceIs
  <1>2. \A p \in 0..(Len(text(buffer)) - 1) : char_at_node(buffer, p) = text(buffer)[p + 1]
    <2>1. PICK n \in Nodes, t \in Seq(Chars), m \in Nat :
             n = buffer /\ t = text(n) /\ m = Len(t)
      BY TextIs
    <2> QED
      BY <2>1, ReadsKeep DEF ReadsWell
  <1>3. ASSUME NEW p \in 0..Len(text(buffer))
        PROVE  LET lc == OffsetToLineCol(buffer, p)
                   earlier == {i \in 1..p : text(buffer)[i] = Newline}
               IN /\ lc[1] = Cardinality(earlier)
                  /\ \A i \in earlier : lc[2] <= p - i
                  /\ lc[2] = p \/ p - lc[2] \in earlier
                  /\ LineColToOffset(buffer, lc[1], lc[2]) = p
    BY ShowsLines DEF NewlinesTo
  <1> QED
    BY <1>1, <1>2, <1>3, Zenon DEF ReadsAsText

(* rope_buffer.rs: for every leaf size and whatever was edited, undone and *)
(* redone before, the rope of an editor is edited, sliced and looked up,   *)
(* by offset and by line and column, as the text in its leaves would be.   *)
THEOREM RopeActsAsText ==
    ASSUME RopeRules, UsesRopes, PastesText
    PROVE  Spec => []ActsAsText
  <1>1. IInv => ActsAsText
    <2>1. ASSUME IInv PROVE ActsAsText
      <3>1. buffer \in Nodes
        BY <2>1 DEF IInv, TypeInv, UsesRopes
      <3> QED
        BY <3>1, ShowsEdits, ShowsText DEF ActsAsText
    <2> QED
      BY <2>1
  <1>2. Spec => []IInv
    BY HistoryFits
  <1> QED
    BY <1>1, <1>2, PTL
=============================================================================

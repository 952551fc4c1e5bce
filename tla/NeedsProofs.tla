---------------------------- MODULE NeedsProofs ----------------------------
(***************************************************************************)
(* What the include-once set promises, for all files, paths and programs,  *)
(* whatever circles the directives form and whatever is done to the files  *)
(* between and during compiles: no definition is compiled twice unless its *)
(* file came to be between the two calls of one directive, and code after  *)
(* a NEEDS can use the file.                                               *)
(*                                                                         *)
(* SplicedOnce needs that the files of all frames, spliced items and       *)
(* loaded items are in the set, the stray ones excepted, so that a file    *)
(* outside it is new everywhere (FrameInv, OutInv, LoadedInv), and that it *)
(* still is when the read follows (ReadInv).  NeededIsThere needs to know  *)
(* how far a recorded file has come: its definitions are in the image, or  *)
(* are spliced as far as a frame of the file has got (DoneInv).            *)
(***************************************************************************)
EXTENDS Needs, SequenceTheorems, TLAPS

Sources == Programs \cup {Content[f] : f \in Files}
DefsIn(items) == {k \in DOMAIN items : items[k].k = "def"}
Names == UNION {{items[k].name : k \in DefsIn(items)} : items \in Sources}
Refs == UNION {{items[k].ref : k \in DefsIn(items)} : items \in Sources}

Origins == Files \cup {NoFile}
FrameSet == [file : Origins, items : Sources, at : Nat]
OutItems == [file : Origins, at : Nat, name : Names, ref : Refs]

(* The files of the items the image was built from.                        *)
LoadedFiles == {x[1] : x \in loaded}

(* Every file being expanded is recorded, and unless it is stray is        *)
(* expanded once, and new to the image.                                    *)
FrameInv ==
    /\ frames \in Seq(FrameSet)
    /\ \A i \in DOMAIN frames :
          /\ frames[i].at >= 1
          /\ i = 1 \/ frames[i].file \in Files
          /\ frames[i].file \in Files =>
                /\ frames[i].items = Content[frames[i].file]
                /\ frames[i].file \in Recorded
                /\ frames[i].file \in stray \cup (included \ LoadedFiles)
    /\ \A i, j \in DOMAIN frames :
          frames[i].file = frames[j].file => i = j \/ frames[i].file \in stray
    /\ stage \in {"idle", "expanding", "expanded", "emitted"}
    /\ (frames = <<>>) <=> (stage # "expanding")

(* The spliced items are of recorded files that are new to the image, and  *)
(* of a file that is being expanded they are the ones already passed.      *)
OutInv ==
    /\ out \in Seq(OutItems)
    /\ stage = "idle" => out = <<>>
    /\ \A i \in DOMAIN out : out[i].file \notin stray =>
          /\ out[i].file \in Files => out[i].file \in included \ LoadedFiles
          /\ \A j \in DOMAIN frames :
                out[i].file = frames[j].file => out[i].at < frames[j].at

LoadedInv == (LoadedFiles \cap Files) \ stray \subseteq included

(* A file of which nothing is being expanded, spliced or loaded.           *)
Fresh(f) ==
    /\ \A i \in DOMAIN frames : frames[i].file # f
    /\ \A i \in DOMAIN out : out[i].file # f
    /\ f \notin LoadedFiles

(* Between insert and the read, the directive is the item at hand.         *)
ReadInv ==
    /\ stray \subseteq Files
    /\ key # NoFile =>
          /\ AtItem /\ Item.k = "needs"
          /\ key \in included /\ key \in {Item.path, Needed}
          /\ (key = Needed /\ Needed \notin stray) => Fresh(Needed)

(* What the context knows and the VM can call.                             *)
WordsInv ==
    /\ DOMAIN image \subseteq words
    /\ stage = "emitted" => Defined \subseteq words

(* A definition of a file that is in the program, or still to come.        *)
InHand(f, k) ==
    \/ \E i \in DOMAIN out : out[i].file = f /\ out[i].name = Content[f][k].name
    \/ \E j \in DOMAIN frames : frames[j].file = f /\ frames[j].at <= k

(* How far a recorded file has come.                                       *)
DoneInv ==
    \A f \in Recorded \ failed :
        \/ key # NoFile /\ f = Needed
        \/ DefsOf(f) \subseteq DOMAIN image
        \/ \A k \in DefsIn(Content[f]) : InHand(f, k)

IInv == /\ FrameInv /\ OutInv /\ LoadedInv /\ ReadInv /\ WordsInv /\ DoneInv
        /\ SplicedOnce /\ NeededIsThere

-----------------------------------------------------------------------------
(* Sources, frames and spliced items *)

LEMMA SourceFacts ==
    ASSUME NEW items \in Sources
    PROVE  /\ DOMAIN items = 1..Len(items) /\ Len(items) \in Nat
           /\ \A k \in DOMAIN items :
                /\ items[k].k \in {"def", "needs"}
                /\ items[k].k = "needs" => items[k].path \in Paths
                /\ items[k].k = "def" =>
                     items[k].name \in Names /\ items[k].ref \in Refs
  <1>1. WellFormed(items)
    BY NeedsAssumption DEF Sources
  <1>2. items \in Seq({items[i] : i \in DOMAIN items})
    BY <1>1 DEF WellFormed
  <1>3. DOMAIN items = 1..Len(items) /\ Len(items) \in Nat
    BY <1>2
  <1>4. \A k \in DOMAIN items :
          items[k].k = "def" => items[k].name \in Names /\ items[k].ref \in Refs
    BY DEF Names, Refs, DefsIn
  <1> QED
    BY <1>1, <1>3, <1>4 DEF WellFormed

LEMMA OriginFacts ==
    /\ NoFile \in Origins /\ NoFile \notin Files \cup Paths /\ Files \cap Paths = {}
    /\ \A x \in Origins : x \in Files \/ x = NoFile
    /\ \A p \in Paths : Canon[p] \in Files /\ Canon[p] \in Origins
    /\ \A f \in Files : Content[f] \in Sources
    /\ \A p \in Programs : p \in Sources
  BY NeedsAssumption DEF Origins, Sources

LEMMA FrameFacts ==
    /\ \A file, items : /\ Frame(file, items).file = file
                        /\ Frame(file, items).items = items
                        /\ Frame(file, items).at = 1
    /\ \A file \in Origins, items \in Sources : Frame(file, items) \in FrameSet
    /\ \A fr \in FrameSet : /\ fr.file \in Origins /\ fr.items \in Sources
                            /\ fr.at \in Nat
  BY DEF Frame, FrameSet

(* The item at hand, and the frames once it is passed.                     *)
LEMMA AtHand ==
    ASSUME FrameInv, stage = "expanding"
    PROVE  /\ Len(frames) \in Nat /\ Len(frames) >= 1
           /\ DOMAIN frames = 1..Len(frames)
           /\ Top = frames[Len(frames)] /\ Top \in FrameSet /\ Top.at >= 1
           /\ AtItem => Top.at \in DOMAIN Top.items
  <1>1. frames \in Seq(FrameSet) /\ frames # <<>>
    BY DEF FrameInv
  <1>2. /\ Len(frames) \in Nat /\ Len(frames) >= 1
        /\ DOMAIN frames = 1..Len(frames)
    BY <1>1
  <1>3. Top = frames[Len(frames)] /\ Len(frames) \in DOMAIN frames
    BY <1>2 DEF Top, Last
  <1>4. Top \in FrameSet /\ Top.at >= 1
    BY <1>1, <1>3 DEF FrameInv
  <1>5. Top.at \in Nat /\ Top.items \in Sources
    BY <1>4, FrameFacts
  <1>6. ASSUME AtItem PROVE Top.at \in DOMAIN Top.items
    BY <1>4, <1>5, <1>6, SourceFacts DEF AtItem
  <1> QED
    BY <1>2, <1>3, <1>4, <1>6

LEMMA AdvancedFacts ==
    ASSUME FrameInv, stage = "expanding"
    PROVE  /\ Advanced \in Seq(FrameSet) /\ Len(Advanced) = Len(frames)
           /\ \A i \in DOMAIN frames :
                /\ Advanced[i].file = frames[i].file
                /\ Advanced[i].items = frames[i].items
                /\ Advanced[i].at = IF i = Len(frames) THEN frames[i].at + 1
                                    ELSE frames[i].at
  <1> DEFINE n == Len(frames)
             new == [frames[n] EXCEPT !.at = @ + 1]
  <1>1. frames \in Seq(FrameSet) /\ n \in Nat /\ DOMAIN frames = 1..n /\ n \in 1..n
    BY AtHand DEF FrameInv
  <1>2. frames[n] \in FrameSet
    BY <1>1
  <1>3. /\ new \in FrameSet /\ new.file = frames[n].file
        /\ new.items = frames[n].items /\ new.at = frames[n].at + 1
    BY <1>2 DEF FrameSet
  <1>4. Advanced = [frames EXCEPT ![n] = new]
    BY DEF Advanced
  <1> HIDE DEF new, n
  <1>5. /\ Advanced \in Seq(FrameSet) /\ Len(Advanced) = Len(frames)
        /\ Advanced[n] = new /\ \A i \in DOMAIN frames : i # n => Advanced[i] = frames[i]
    BY <1>1, <1>3, <1>4
  <1> QED
    BY <1>3, <1>5 DEF n

(* Opaque names for what NeededIsThere says of one directive.              *)
There(f, i, k) ==
    \/ DefsOf(f) \subseteq Usable \cup Defined
    \/ \E j \in DOMAIN frames :
          frames[j].file = f /\ (j <= i \/ (j = i + 1 /\ k = frames[i].at - 1))
    \/ f \in failed

Passed ==
    \A i \in DOMAIN frames : \A k \in 1..(frames[i].at - 1) :
        frames[i].items[k].k = "needs" => There(Canon[frames[i].items[k].path], i, k)

Known == stage = "idle" => \A f \in Recorded \ failed : DefsOf(f) \subseteq Usable

LEMMA NeededIs == NeededIsThere <=> Passed /\ Known
  BY DEF NeededIsThere, Passed, Known, There

LEMMA UsableIs == WordsInv => Usable = DOMAIN image
  BY DEF WordsInv, Usable

(* The directive at hand names a file.                                     *)
LEMMA NeededFacts ==
    ASSUME FrameInv, AtItem, Item.k = "needs"
    PROVE  Item.path \in Paths /\ Needed \in Files /\ Needed \in Origins
  <1>1. Top \in FrameSet /\ Top.at \in DOMAIN Top.items
    BY AtHand DEF AtItem
  <1>2. Top.items \in Sources
    BY <1>1, FrameFacts
  <1>3. Item.path \in Paths
    BY <1>1, <1>2, SourceFacts DEF Item
  <1> QED
    BY <1>3, OriginFacts DEF Needed

(* A key is of its file, and of no other.                                  *)
LEMMA KeyRecords ==
    ASSUME NEW path \in Paths, Key(path) \in included
    PROVE  Canon[path] \in Recorded
  BY OriginFacts DEF Key, Recorded

(* Between compiles, what DoneInv says is Known.                           *)
LEMMA KnownWhenIdle == FrameInv /\ OutInv /\ ReadInv /\ WordsInv /\ DoneInv => Known
  <1> SUFFICES ASSUME FrameInv, OutInv, ReadInv, WordsInv, DoneInv,
                      stage = "idle", NEW f \in Recorded \ failed
               PROVE  DefsOf(f) \subseteq Usable
    BY DEF Known
  <1>1. out = <<>> /\ frames = <<>> /\ key = NoFile
    BY DEF FrameInv, OutInv, ReadInv, AtItem
  <1>2. DOMAIN out = {} /\ DOMAIN frames = {}
    BY <1>1
  <1>3. \A k : ~InHand(f, k)
    BY <1>2 DEF InHand
  <1>4. DefsOf(f) \subseteq DOMAIN image \/ DefsIn(Content[f]) = {}
    BY <1>1, <1>3 DEF DoneInv
  <1> QED
    BY <1>4, UsableIs DEF DefsOf, DefsIn

LEMMA OutFacts ==
    ASSUME OutInv, NEW i \in DOMAIN out
    PROVE  out[i].file \in Origins /\ out[i].at \in Nat
  <1>1. out[i] \in OutItems
    BY DEF OutInv
  <1> QED
    BY <1>1 DEF OutItems

(* No two spliced items are the same, those of stray files apart.          *)
Distinct == \A i, j \in DOMAIN out :
               out[i].file = out[j].file /\ out[i].at = out[j].at =>
                   i = j \/ out[i].file \in stray

LEMMA OnceIs == OutInv => (SplicedOnce <=> Distinct)
  <1> SUFFICES ASSUME OutInv, NEW i \in DOMAIN out, out[i].file \notin stray \cup {NoFile}
               PROVE  <<out[i].file, out[i].at>> \notin loaded
    BY DEF SplicedOnce, Distinct
  <1>1. out[i] \in OutItems
    BY DEF OutInv
  <1>2. out[i].file \in Files
    BY <1>1, OriginFacts DEF OutItems
  <1>3. out[i].file \notin LoadedFiles
    BY <1>2 DEF OutInv
  <1> QED
    BY <1>3 DEF LoadedFiles

(* The parts from which a step's invariant is put together.                *)
Parts == /\ FrameInv /\ OutInv /\ LoadedInv /\ ReadInv /\ WordsInv /\ DoneInv
         /\ Distinct /\ Passed

LEMMA PartsAre == IInv <=> Parts
  BY NeededIs, KnownWhenIdle, OnceIs DEF IInv, Parts

-----------------------------------------------------------------------------
(* Expansion *)

LEMMA SpliceStep ==
    ASSUME Parts, Splice
    PROVE  Parts'
  <1> DEFINE n == Len(frames)
             e == [file |-> Top.file, at |-> Top.at,
                   name |-> Item.name, ref |-> Item.ref]
  <1>0. /\ FrameInv /\ OutInv /\ LoadedInv /\ ReadInv /\ WordsInv /\ DoneInv
        /\ Distinct /\ Passed /\ stage = "expanding" /\ AtItem /\ Item.k = "def"
        /\ UNCHANGED <<included, words, stage, key, image, loaded, failed, stray>>
        /\ frames' = Advanced /\ out' = Append(out, e)
    BY DEF Parts, Splice, AtItem
  <1>1. /\ n \in Nat /\ n >= 1 /\ DOMAIN frames = 1..n /\ Top = frames[n]
        /\ Top \in FrameSet /\ Top.at \in DOMAIN Top.items
        /\ frames \in Seq(FrameSet) /\ n \in DOMAIN frames
    BY <1>0, AtHand DEF FrameInv
  <1>2. /\ frames' \in Seq(FrameSet) /\ DOMAIN frames' = DOMAIN frames
        /\ \A i \in DOMAIN frames :
             /\ frames'[i].file = frames[i].file
             /\ frames'[i].items = frames[i].items
             /\ frames'[i].at = IF i = n THEN frames[i].at + 1 ELSE frames[i].at
    BY <1>0, <1>1, AdvancedFacts
  <1>3. \A i \in DOMAIN frames : /\ frames[i].at \in Nat
                                 /\ frames[i].at <= frames'[i].at
    BY <1>1, <1>2, FrameFacts
  <1>4. /\ e.file = Top.file /\ e.at = Top.at /\ e.name = Item.name
        /\ e \in OutItems
    <2>1. /\ Top.file \in Origins /\ Top.at \in Nat /\ Top.items \in Sources
      BY <1>1, FrameFacts
    <2>2. Item.name \in Names /\ Item.ref \in Refs
      BY <1>0, <1>1, <2>1, SourceFacts DEF Item
    <2> QED
      BY <2>1, <2>2 DEF OutItems
  <1> HIDE DEF e
  <1>5. out \in Seq(OutItems)
    BY <1>0 DEF OutInv
  <1>6. /\ out' \in Seq(OutItems) /\ Len(out) \in Nat
        /\ DOMAIN out = 1..Len(out) /\ DOMAIN out' = 1..(Len(out) + 1)
        /\ \A i \in DOMAIN out : out'[i] = out[i]
        /\ out'[Len(out) + 1] = e
    BY <1>0, <1>4, <1>5
  <1>7. /\ DOMAIN out \subseteq DOMAIN out' /\ Len(out) + 1 \in DOMAIN out'
        /\ \A i \in DOMAIN out' : i \in DOMAIN out \/ out'[i] = e
        /\ \A i \in DOMAIN out' : i \in DOMAIN out \/ i = Len(out) + 1
    BY <1>6
  <1>8. Defined \subseteq Defined'
    BY <1>6, <1>7 DEF Defined
  <1>9. FrameInv'
    <2>1. \A i \in DOMAIN frames' : frames'[i].at >= 1
      BY <1>2, <1>3, <1>0 DEF FrameInv
    <2>2. LoadedFiles' = LoadedFiles /\ Recorded' = Recorded
      BY <1>0 DEF LoadedFiles, Recorded
    <2>3. frames' # <<>>
      BY <1>1, <1>2
    <2>4. \A i \in DOMAIN frames' : i = 1 \/ frames'[i].file \in Files
      BY <1>0, <1>2 DEF FrameInv
    <2>5. \A i \in DOMAIN frames' : frames'[i].file \in Files =>
                /\ frames'[i].items = Content[frames'[i].file]
                /\ frames'[i].file \in Recorded'
                /\ frames'[i].file \in stray' \cup (included' \ LoadedFiles')
      BY <1>0, <1>2, <2>2 DEF FrameInv
    <2>6. \A i, j \in DOMAIN frames' : frames'[i].file = frames'[j].file =>
             i = j \/ frames'[i].file \in stray'
      BY <1>0, <1>2 DEF FrameInv
    <2>7. /\ stage' \in {"idle", "expanding", "expanded", "emitted"}
          /\ (frames' = <<>>) <=> (stage' # "expanding")
      BY <1>0, <2>3
    <2> QED
      BY <1>2, <2>1, <2>4, <2>5, <2>6, <2>7 DEF FrameInv
  <1>10. OutInv'
    <2>1. LoadedFiles' = LoadedFiles
      BY <1>0 DEF LoadedFiles
    <2>2. e.file \in Files \ stray => e.file \in included \ LoadedFiles
      BY <1>0, <1>1, <1>4 DEF FrameInv
    <2>3. ASSUME NEW j \in DOMAIN frames, e.file = frames[j].file, e.file \notin stray
          PROVE  e.at < frames'[j].at
      <3>1. j = n
        BY <1>0, <1>1, <1>4, <2>3 DEF FrameInv
      <3> QED
        BY <1>1, <1>2, <1>3, <1>4, <3>1
    <2>4. ASSUME NEW i \in DOMAIN out, NEW j \in DOMAIN frames,
                 out[i].file = frames[j].file, out[i].file \notin stray
          PROVE  out[i].at < frames'[j].at
      <3>1. out[i].at < frames[j].at
        BY <1>0, <2>4 DEF OutInv
      <3>2. out[i].at \in Nat /\ frames'[j].at \in Nat
        BY <1>0, <1>2, <1>3, OutFacts
      <3> QED
        BY <1>3, <3>1, <3>2
    <2> QED
      BY <1>0, <1>2, <1>6, <1>7, <2>1, <2>2, <2>3, <2>4 DEF OutInv
  <1>11. Distinct'
    <2>1. ASSUME NEW i \in DOMAIN out, out[i].file = e.file, e.file \notin stray
          PROVE  out[i].at # e.at
      <3>1. out[i].at < frames[n].at
        BY <1>0, <1>1, <1>4, <2>1 DEF OutInv
      <3>2. out[i].at \in Nat
        BY <1>0, OutFacts
      <3> QED
        BY <1>1, <1>3, <1>4, <3>1, <3>2
    <2>2. SUFFICES ASSUME NEW i \in DOMAIN out', NEW j \in DOMAIN out',
                          out'[i].file = out'[j].file, out'[i].at = out'[j].at,
                          out'[i].file \notin stray
                   PROVE  i = j
      BY <1>0 DEF Distinct
    <2>3. CASE i \in DOMAIN out /\ j \in DOMAIN out
      BY <1>0, <1>6, <2>2, <2>3 DEF Distinct
    <2>4. CASE i \notin DOMAIN out /\ j \notin DOMAIN out
      BY <1>7, <2>4
    <2>5. CASE i \in DOMAIN out /\ j \notin DOMAIN out
      BY <1>6, <1>7, <2>1, <2>2, <2>5
    <2>6. CASE i \notin DOMAIN out /\ j \in DOMAIN out
      BY <1>6, <1>7, <2>1, <2>2, <2>6
    <2> QED
      BY <2>3, <2>4, <2>5, <2>6
  <1>12. DoneInv'
    <2>1. ASSUME NEW f \in Files, NEW k \in DefsIn(Content[f]), InHand(f, k)
          PROVE  InHand(f, k)'
      <3>1. CASE \E i \in DOMAIN out :
                    out[i].file = f /\ out[i].name = Content[f][k].name
        BY <1>6, <1>7, <3>1 DEF InHand
      <3>2. ASSUME NEW j \in DOMAIN frames, frames[j].file = f, frames[j].at <= k
            PROVE  InHand(f, k)'
        <4>1. k \in Nat
          BY OriginFacts, SourceFacts DEF DefsIn
        <4>2. CASE j = n /\ frames[j].at = k
          <5>1. Top.file = f /\ Top.items = Content[f] /\ Top.at = k
            BY <1>0, <1>1, <3>2, <4>2 DEF FrameInv
          <5>2. e.file = f /\ e.name = Content[f][k].name
            BY <1>4, <5>1 DEF Item
          <5> QED
            BY <1>6, <1>7, <5>2 DEF InHand
        <4>3. CASE ~(j = n /\ frames[j].at = k)
          <5>1. frames'[j].at <= k
            BY <1>2, <1>3, <3>2, <4>1, <4>3
          <5> QED
            BY <1>2, <3>2, <5>1 DEF InHand
        <4> QED
          BY <4>2, <4>3
      <3> QED
        BY <2>1, <3>1, <3>2 DEF InHand
    <2>2. key = NoFile /\ Recorded' = Recorded /\ Recorded \subseteq Files
      BY <1>0 DEF ReadInv, Recorded
    <2> QED
      BY <1>0, <2>1, <2>2 DEF DoneInv
  <1>13. Passed'
    <2>1. SUFFICES ASSUME NEW i \in DOMAIN frames, NEW k \in 1..(frames'[i].at - 1),
                          frames'[i].items[k].k = "needs",
                          NEW f, f = Canon[frames'[i].items[k].path]
                   PROVE  There(f, i, k)'
      BY <1>2 DEF Passed
    <2>2. k \in 1..(frames[i].at - 1)
      <3>1. ~(i = n /\ k = frames[i].at)
        BY <1>0, <1>1, <1>2, <2>1 DEF Item
      <3> QED
        BY <1>2, <1>3, <3>1
    <2>3. There(f, i, k)
      BY <1>0, <1>2, <2>1, <2>2 DEF Passed
    <2>4. ASSUME NEW j \in DOMAIN frames, j = i + 1
          PROVE  frames'[i].at = frames[i].at
      BY <1>1, <1>2, <2>4
    <2>5. Usable' = Usable
      BY <1>0 DEF Usable
    <2> QED
      BY <1>0, <1>2, <1>8, <2>3, <2>4, <2>5 DEF There
  <1>14. LoadedInv' /\ ReadInv' /\ WordsInv'
    BY <1>0 DEF LoadedInv, ReadInv, WordsInv, LoadedFiles
  <1> QED
    BY <1>9, <1>10, <1>11, <1>12, <1>13, <1>14 DEF Parts

(* A recorded file that is not being expanded has all its definitions in   *)
(* the image or in the program.                                            *)
LEMMA SplicedWhole ==
    ASSUME DoneInv, WordsInv, key = NoFile, NEW f \in Recorded \ failed,
           \A j \in DOMAIN frames : \A k \in DefsIn(Content[f]) :
              frames[j].file = f => ~(frames[j].at <= k)
    PROVE  DefsOf(f) \subseteq Usable \cup Defined
  <1>1. CASE DefsOf(f) \subseteq DOMAIN image
    BY <1>1, UsableIs
  <1>2. CASE \A k \in DefsIn(Content[f]) : InHand(f, k)
    <2>1. \A k \in DefsIn(Content[f]) : Content[f][k].name \in Defined
      BY <1>2 DEF InHand, Defined
    <2> QED
      BY <2>1 DEF DefsOf, DefsIn
  <1> QED
    BY <1>1, <1>2 DEF DoneInv

LEMMA SkipStep ==
    ASSUME Parts, SkipIncluded
    PROVE  Parts'
  <1> DEFINE n == Len(frames)
  <1>0. /\ FrameInv /\ OutInv /\ LoadedInv /\ ReadInv /\ WordsInv /\ DoneInv
        /\ Distinct /\ Passed /\ stage = "expanding" /\ AtItem /\ Item.k = "needs"
        /\ key = NoFile /\ Key(Item.path) \in included
        /\ UNCHANGED <<included, words, stage, key, image, loaded, failed, out, stray>>
        /\ frames' = Advanced
    BY DEF Parts, SkipIncluded, AtItem
  <1>1. /\ n \in Nat /\ n >= 1 /\ DOMAIN frames = 1..n /\ Top = frames[n]
        /\ Top \in FrameSet /\ Top.at \in DOMAIN Top.items
        /\ frames \in Seq(FrameSet) /\ n \in DOMAIN frames
    BY <1>0, AtHand DEF FrameInv
  <1>2. /\ frames' \in Seq(FrameSet) /\ DOMAIN frames' = DOMAIN frames
        /\ \A i \in DOMAIN frames :
             /\ frames'[i].file = frames[i].file
             /\ frames'[i].items = frames[i].items
             /\ frames'[i].at = IF i = n THEN frames[i].at + 1 ELSE frames[i].at
    BY <1>0, <1>1, AdvancedFacts
  <1>3. \A i \in DOMAIN frames : /\ frames[i].at \in Nat
                                 /\ frames[i].at <= frames'[i].at
    BY <1>1, <1>2, FrameFacts
  <1>4. /\ LoadedFiles' = LoadedFiles /\ Defined' = Defined /\ Usable' = Usable
        /\ Recorded' = Recorded /\ Recorded \subseteq Files
    BY <1>0 DEF LoadedFiles, Defined, Usable, Recorded
  <1>5. FrameInv'
    <2>1. \A i \in DOMAIN frames' : frames'[i].at >= 1
      BY <1>2, <1>3, <1>0 DEF FrameInv
    <2>2. frames' # <<>>
      BY <1>1, <1>2
    <2> QED
      BY <1>0, <1>2, <1>4, <2>1, <2>2 DEF FrameInv
  <1>6. OutInv'
    <2>1. ASSUME NEW i \in DOMAIN out, NEW j \in DOMAIN frames,
                 out[i].file = frames[j].file, out[i].file \notin stray
          PROVE  out[i].at < frames'[j].at
      <3>1. out[i].at < frames[j].at
        BY <1>0, <2>1 DEF OutInv
      <3>2. out[i].at \in Nat /\ frames'[j].at \in Nat
        BY <1>0, <1>2, <1>3, OutFacts
      <3> QED
        BY <1>3, <3>1, <3>2
    <2> QED
      BY <1>0, <1>2, <1>4, <2>1 DEF OutInv
  <1>7. DoneInv'
    <2>1. ASSUME NEW f \in Files, NEW k \in DefsIn(Content[f]), InHand(f, k)
          PROVE  InHand(f, k)'
      <3>1. ASSUME NEW j \in DOMAIN frames, frames[j].file = f, frames[j].at <= k
            PROVE  frames'[j].at <= k
        <4>1. k \in Nat
          BY OriginFacts, SourceFacts DEF DefsIn
        <4>2. ~(j = n /\ frames[j].at = k)
          BY <1>0, <1>1, <3>1 DEF FrameInv, Item, DefsIn
        <4> QED
          BY <1>2, <1>3, <3>1, <4>1, <4>2
      <3> QED
        BY <1>0, <1>2, <2>1, <3>1 DEF InHand
    <2> QED
      BY <1>0, <1>4, <2>1 DEF DoneInv
  <1>8. Passed'
    <2>1. SUFFICES ASSUME NEW i \in DOMAIN frames, NEW k \in 1..(frames'[i].at - 1),
                          frames'[i].items[k].k = "needs",
                          NEW f, f = Canon[frames'[i].items[k].path]
                   PROVE  There(f, i, k)'
      BY <1>2 DEF Passed
    <2>2. CASE i = n /\ k = Top.at
      <3>1. f = Canon[Item.path] /\ f \in Recorded
        <4>1. f = Canon[Item.path]
          BY <1>1, <1>2, <2>1, <2>2 DEF Item
        <4>2. Item.path \in Paths
          BY <1>0, NeededFacts
        <4> QED
          BY <1>0, <4>1, <4>2, KeyRecords
      <3>2. ASSUME NEW j \in DOMAIN frames, frames[j].file = f
            PROVE  There(f, i, k)'
        <4>1. j <= i /\ j \in DOMAIN frames' /\ frames'[j].file = f
          BY <1>1, <1>2, <2>2, <3>2
        <4> QED
          BY <4>1 DEF There
      <3>3. ASSUME \A j \in DOMAIN frames : frames[j].file # f, f \notin failed
            PROVE  DefsOf(f) \subseteq Usable \cup Defined
        BY <1>0, <3>1, <3>3, SplicedWhole
      <3> QED
        BY <1>0, <1>4, <3>2, <3>3 DEF There
    <2>3. CASE ~(i = n /\ k = Top.at)
      <3>1. k \in 1..(frames[i].at - 1)
        BY <1>1, <1>2, <1>3, <2>3
      <3>2. There(f, i, k)
        BY <1>0, <1>2, <2>1, <3>1 DEF Passed
      <3>3. ASSUME NEW j \in DOMAIN frames, j = i + 1
            PROVE  frames'[i].at = frames[i].at
        BY <1>1, <1>2, <3>3
      <3> QED
        BY <1>0, <1>2, <1>4, <3>2, <3>3 DEF There
    <2> QED
      BY <2>2, <2>3
  <1>9. LoadedInv' /\ ReadInv' /\ WordsInv' /\ Distinct'
    BY <1>0, <1>4 DEF LoadedInv, ReadInv, WordsInv, Distinct
  <1> QED
    BY <1>5, <1>6, <1>7, <1>8, <1>9 DEF Parts

(* insert: the file is recorded, and all that is known of it is new.       *)
LEMMA ClaimStep ==
    ASSUME Parts, Claim
    PROVE  Parts'
  <1>0. /\ FrameInv /\ OutInv /\ LoadedInv /\ ReadInv /\ WordsInv /\ DoneInv
        /\ Distinct /\ Passed /\ AtItem /\ Item.k = "needs"
        /\ key = NoFile /\ Key(Item.path) \notin included
        /\ included' = included \cup {Key(Item.path)} /\ key' = Key(Item.path)
        /\ UNCHANGED <<words, stage, frames, out, image, loaded, failed, stray>>
    BY DEF Parts, Claim, Record
  <1>1. Item.path \in Paths /\ Needed \in Files
    BY <1>0, NeededFacts
  <1>2. /\ Key(Item.path) \in {Item.path, Needed} /\ Key(Item.path) # NoFile
        /\ Needed = Canon[Item.path]
    BY <1>1, OriginFacts DEF Key, Needed
  <1>3. /\ LoadedFiles' = LoadedFiles /\ Defined' = Defined /\ Usable' = Usable
        /\ Item' = Item /\ Needed' = Needed /\ AtItem' = AtItem
    BY <1>0 DEF LoadedFiles, Defined, Usable, Item, Needed, AtItem, Top
  <1>4. Recorded \subseteq Recorded' /\ Recorded' \subseteq Recorded \cup {Needed}
    <2>1. Recorded \subseteq Recorded'
      BY <1>0 DEF Recorded
    <2>2. ASSUME NEW f \in Recorded', f \notin Recorded PROVE f = Needed
      BY <1>0, <1>1, <1>2, <2>2, OriginFacts DEF Recorded
    <2> QED
      BY <2>1, <2>2
  <1>5. FrameInv'
    BY <1>0, <1>3, <1>4 DEF FrameInv
  <1>6. OutInv' /\ LoadedInv' /\ Distinct'
    BY <1>0, <1>3 DEF OutInv, LoadedInv, Distinct
  <1>7. ASSUME Key(Item.path) = Needed, Needed \notin stray PROVE Fresh(Needed)'
    <2>1. Needed \notin included
      BY <1>0, <1>7
    <2>2. \A i \in DOMAIN frames : frames[i].file # Needed
      <3>1. ASSUME NEW i \in DOMAIN frames, frames[i].file = Needed PROVE FALSE
        BY <1>0, <1>1, <1>7, <2>1, <3>1 DEF FrameInv
      <3> QED
        BY <3>1
    <2>3. \A i \in DOMAIN out : out[i].file # Needed
      BY <1>0, <1>1, <1>7, <2>1 DEF OutInv
    <2>4. Needed \notin LoadedFiles
      BY <1>0, <1>1, <1>7, <2>1 DEF LoadedInv
    <2> QED
      BY <1>0, <1>3, <2>2, <2>3, <2>4 DEF Fresh
  <1>8. ReadInv'
    BY <1>0, <1>2, <1>3, <1>7 DEF ReadInv
  <1>9. DoneInv'
    BY <1>0, <1>2, <1>3, <1>4 DEF DoneInv, InHand
  <1>10. Passed' /\ WordsInv'
    BY <1>0, <1>3 DEF Passed, There, WordsInv
  <1> QED
    BY <1>5, <1>6, <1>8, <1>9, <1>10 DEF Parts

LEMMA DescendStep ==
    ASSUME Parts, Descend
    PROVE  Parts'
  <1> DEFINE n == Len(frames)
             g == Needed
             fr == Frame(g, Content[g])
  <1>0. /\ FrameInv /\ OutInv /\ LoadedInv /\ ReadInv /\ WordsInv /\ DoneInv
        /\ Distinct /\ Passed /\ stage = "expanding" /\ AtItem /\ Item.k = "needs"
        /\ key # NoFile /\ key' = NoFile
        /\ UNCHANGED <<included, words, stage, image, loaded, failed, out>>
        /\ frames' = Append(Advanced, fr)
        /\ stray' = IF key = g THEN stray ELSE stray \cup {g}
    BY DEF Parts, Descend, AtItem, ReadInv
  <1>1. /\ n \in Nat /\ n >= 1 /\ DOMAIN frames = 1..n /\ Top = frames[n]
        /\ Top \in FrameSet /\ Top.at \in DOMAIN Top.items
        /\ frames \in Seq(FrameSet) /\ n \in DOMAIN frames
    BY <1>0, AtHand DEF FrameInv
  <1>2. Item.path \in Paths /\ g \in Files /\ g \in Origins
    BY <1>0, NeededFacts
  <1>3. /\ g \in Recorded /\ stray \subseteq stray' /\ stray' \subseteq Files
        /\ g \notin stray' => Fresh(g) /\ g \in included
    <2>1. key \in included /\ key \in {Item.path, g} /\ stray \subseteq Files
      BY <1>0 DEF ReadInv
    <2>2. g \in Recorded
      BY <1>2, <2>1 DEF Recorded, Needed
    <2>3. g \notin stray' => key = g /\ g \notin stray
      BY <1>0
    <2> QED
      BY <1>0, <1>2, <2>1, <2>2, <2>3 DEF ReadInv
  <1>4. /\ fr \in FrameSet /\ fr.file = g /\ fr.items = Content[g] /\ fr.at = 1
    BY <1>2, FrameFacts, OriginFacts
  <1> HIDE DEF fr, g
  <1>5. /\ frames' \in Seq(FrameSet) /\ DOMAIN frames' = 1..(n + 1)
        /\ frames'[n + 1] = fr
        /\ \A i \in DOMAIN frames :
             /\ frames'[i].file = frames[i].file
             /\ frames'[i].items = frames[i].items
             /\ frames'[i].at = IF i = n THEN frames[i].at + 1 ELSE frames[i].at
    <2>1. /\ Advanced \in Seq(FrameSet) /\ Len(Advanced) = n
          /\ \A i \in DOMAIN frames :
             /\ Advanced[i].file = frames[i].file
             /\ Advanced[i].items = frames[i].items
             /\ Advanced[i].at = IF i = n THEN frames[i].at + 1 ELSE frames[i].at
      BY <1>0, AdvancedFacts
    <2>2. /\ frames' \in Seq(FrameSet) /\ DOMAIN frames' = 1..(n + 1)
          /\ frames'[n + 1] = fr /\ \A i \in 1..n : frames'[i] = Advanced[i]
      BY <1>0, <1>1, <1>4, <2>1
    <2> QED
      BY <1>1, <2>1, <2>2
  <1>6. /\ DOMAIN frames \subseteq DOMAIN frames' /\ n + 1 \in DOMAIN frames'
        /\ \A i \in DOMAIN frames' : i \in DOMAIN frames \/ i = n + 1
        /\ n + 1 \notin DOMAIN frames
    BY <1>1, <1>5
  <1>7. \A i \in DOMAIN frames : /\ frames[i].at \in Nat
                                 /\ frames[i].at <= frames'[i].at
    BY <1>1, <1>5, FrameFacts
  <1>8. /\ LoadedFiles' = LoadedFiles /\ Defined' = Defined /\ Usable' = Usable
        /\ Recorded' = Recorded /\ Recorded \subseteq Files
    BY <1>0 DEF LoadedFiles, Defined, Usable, Recorded
  <1>9. g \notin stray' => /\ \A i \in DOMAIN frames : frames[i].file # g
                           /\ \A i \in DOMAIN out : out[i].file # g
                           /\ g \in included \ LoadedFiles
    BY <1>3 DEF Fresh
  <1>10. FrameInv'
    <2>1. \A i \in DOMAIN frames' : frames'[i].at >= 1
      BY <1>0, <1>4, <1>5, <1>6, <1>7 DEF FrameInv
    <2>2. \A i \in DOMAIN frames' : i = 1 \/ frames'[i].file \in Files
      BY <1>0, <1>2, <1>4, <1>5, <1>6 DEF FrameInv
    <2>3. \A i \in DOMAIN frames' : frames'[i].file \in Files =>
             /\ frames'[i].items = Content[frames'[i].file]
             /\ frames'[i].file \in Recorded'
             /\ frames'[i].file \in stray' \cup (included' \ LoadedFiles')
      <3>1. SUFFICES ASSUME NEW i \in DOMAIN frames', frames'[i].file \in Files
                     PROVE  /\ frames'[i].items = Content[frames'[i].file]
                            /\ frames'[i].file \in Recorded
                            /\ frames'[i].file \in stray' \cup (included \ LoadedFiles)
        BY <1>0, <1>8
      <3>2. CASE i \in DOMAIN frames
        BY <1>0, <1>3, <1>5, <3>1, <3>2 DEF FrameInv
      <3>3. CASE i = n + 1
        BY <1>3, <1>4, <1>5, <1>9, <3>3
      <3> QED
        BY <1>6, <3>2, <3>3
    <2>4. \A i, j \in DOMAIN frames' : frames'[i].file = frames'[j].file =>
             i = j \/ frames'[i].file \in stray'
      <3>1. SUFFICES ASSUME NEW i \in DOMAIN frames', NEW j \in DOMAIN frames',
                            frames'[i].file = frames'[j].file,
                            frames'[i].file \notin stray'
                     PROVE  i = j
        OBVIOUS
      <3>2. CASE i \in DOMAIN frames /\ j \in DOMAIN frames
        BY <1>0, <1>3, <1>5, <3>1, <3>2 DEF FrameInv
      <3>3. CASE i = n + 1 /\ j \in DOMAIN frames
        BY <1>4, <1>5, <1>9, <3>1, <3>3
      <3>4. CASE j = n + 1 /\ i \in DOMAIN frames
        BY <1>4, <1>5, <1>9, <3>1, <3>4
      <3> QED
        BY <1>6, <3>2, <3>3, <3>4
    <2>5. frames' # <<>>
      BY <1>5, <1>6
    <2> QED
      BY <1>0, <1>5, <2>1, <2>2, <2>3, <2>4, <2>5 DEF FrameInv
  <1>11. OutInv'
    <2>1. ASSUME NEW i \in DOMAIN out, NEW j \in DOMAIN frames',
                 out[i].file = frames'[j].file, out[i].file \notin stray'
          PROVE  out[i].at < frames'[j].at
      <3>1. j \in DOMAIN frames
        BY <1>4, <1>5, <1>6, <1>9, <2>1
      <3>2. out[i].at < frames[j].at
        BY <1>0, <1>3, <1>5, <2>1, <3>1 DEF OutInv
      <3>3. out[i].at \in Nat /\ frames'[j].at \in Nat /\ frames[j].at \in Nat
        BY <1>0, <1>5, <1>7, <3>1, OutFacts
      <3> QED
        BY <1>7, <3>1, <3>2, <3>3
    <2> QED
      BY <1>0, <1>3, <1>8, <2>1 DEF OutInv
  <1>12. DoneInv'
    <2>1. ASSUME NEW f \in Files, NEW k \in DefsIn(Content[f]), InHand(f, k)
          PROVE  InHand(f, k)'
      <3>1. ASSUME NEW j \in DOMAIN frames, frames[j].file = f, frames[j].at <= k
            PROVE  frames'[j].at <= k
        <4>1. k \in Nat
          BY OriginFacts, SourceFacts DEF DefsIn
        <4>2. ~(j = n /\ frames[j].at = k)
          BY <1>0, <1>1, <3>1 DEF FrameInv, Item, DefsIn
        <4> QED
          BY <1>5, <1>7, <3>1, <4>1, <4>2
      <3> QED
        BY <1>0, <1>5, <1>6, <2>1, <3>1 DEF InHand
    <2>2. ASSUME NEW k \in DefsIn(Content[g]), NEW f, f = g PROVE InHand(f, k)'
      <3>1. 1 <= k
        BY <1>2, OriginFacts, SourceFacts DEF DefsIn
      <3> QED
        BY <1>4, <1>5, <1>6, <2>2, <3>1 DEF InHand
    <2>3. ASSUME NEW f \in Recorded \ failed, f # g
          PROVE  DefsOf(f) \subseteq DOMAIN image \/ \A k \in DefsIn(Content[f]) : InHand(f, k)
      BY <1>0, <2>3 DEF DoneInv, g
    <2> QED
      BY <1>0, <1>8, <2>1, <2>2, <2>3 DEF DoneInv
  <1>13. Passed'
    <2>1. SUFFICES ASSUME NEW i \in DOMAIN frames', NEW k \in 1..(frames'[i].at - 1),
                          frames'[i].items[k].k = "needs",
                          NEW f, f = Canon[frames'[i].items[k].path]
                   PROVE  There(f, i, k)'
      BY DEF Passed
    <2>2. i \in DOMAIN frames
      BY <1>4, <1>5, <1>6, <2>1
    <2>3. CASE i = n /\ k = Top.at
      <3>1. f = g /\ frames'[n + 1].file = f
        BY <1>1, <1>4, <1>5, <2>1, <2>3 DEF g, Item, Needed
      <3>2. k = frames'[i].at - 1
        BY <1>1, <1>5, <1>7, <2>3
      <3> QED
        BY <1>6, <2>3, <3>1, <3>2 DEF There
    <2>4. CASE ~(i = n /\ k = Top.at)
      <3>1. k \in 1..(frames[i].at - 1)
        BY <1>1, <1>5, <1>7, <2>2, <2>4
      <3>2. There(f, i, k)
        BY <1>0, <1>5, <2>1, <2>2, <3>1 DEF Passed
      <3>3. ASSUME NEW j \in DOMAIN frames, j = i + 1
            PROVE  frames'[i].at = frames[i].at
        BY <1>1, <1>5, <2>2, <3>3
      <3> QED
        BY <1>0, <1>5, <1>6, <1>8, <3>2, <3>3 DEF There
    <2> QED
      BY <2>3, <2>4
  <1>14. LoadedInv' /\ ReadInv' /\ WordsInv' /\ Distinct'
    BY <1>0, <1>3, <1>8 DEF LoadedInv, ReadInv, WordsInv, Distinct
  <1> QED
    BY <1>10, <1>11, <1>12, <1>13, <1>14 DEF Parts

LEMMA AscendStep ==
    ASSUME Parts, Ascend
    PROVE  Parts'
  <1> DEFINE n == Len(frames)
  <1>0. /\ FrameInv /\ OutInv /\ LoadedInv /\ ReadInv /\ WordsInv /\ DoneInv
        /\ Distinct /\ Passed /\ stage = "expanding" /\ Top.at > Len(Top.items)
        /\ UNCHANGED <<included, words, key, image, loaded, failed, out, stray>>
        /\ frames' = Front(frames)
        /\ stage' = IF n = 1 THEN "expanded" ELSE "expanding"
    BY DEF Parts, Ascend
  <1>1. /\ n \in Nat /\ n >= 1 /\ DOMAIN frames = 1..n /\ Top = frames[n]
        /\ Top \in FrameSet /\ frames \in Seq(FrameSet) /\ n \in DOMAIN frames
    BY <1>0, AtHand DEF FrameInv
  <1>2. /\ frames' \in Seq(FrameSet) /\ DOMAIN frames' = 1..(n - 1)
        /\ \A i \in 1..(n - 1) : frames'[i] = frames[i]
    <2>1. frames' = SubSeq(frames, 1, n - 1) /\ n - 1 \in 0..n
      BY <1>0, <1>1 DEF Front
    <2>2. /\ frames' \in Seq(FrameSet) /\ Len(frames') = n - 1
          /\ \A i \in 1..(n - 1) : frames'[i] = frames[i]
      BY <1>1, <2>1
    <2> QED
      BY <2>2
  <1>3. /\ DOMAIN frames' \subseteq DOMAIN frames /\ n \notin DOMAIN frames'
        /\ \A i \in DOMAIN frames' : frames'[i] = frames[i]
        /\ \A i \in DOMAIN frames : i \in DOMAIN frames' \/ i = n
        /\ stage' \in {"expanding", "expanded"}
    BY <1>0, <1>1, <1>2
  <1> HIDE DEF n
  <1>4. /\ LoadedFiles' = LoadedFiles /\ Defined' = Defined /\ Usable' = Usable
        /\ Recorded' = Recorded /\ Recorded \subseteq Files
    BY <1>0 DEF LoadedFiles, Defined, Usable, Recorded
  <1>11. key = NoFile
    <2>1. Top.at \in Nat /\ Len(Top.items) \in Nat
      BY <1>1, FrameFacts, SourceFacts
    <2>2. ~AtItem
      BY <1>0, <2>1 DEF AtItem
    <2> QED
      BY <1>0, <2>2 DEF ReadInv
  <1>5. \A f \in Files : \A k \in DefsIn(Content[f]) :
          Top.file = f => ~(Top.at <= k)
    <2>1. SUFFICES ASSUME NEW f \in Files, NEW k \in DefsIn(Content[f]),
                          Top.file = f
                   PROVE  ~(Top.at <= k)
      OBVIOUS
    <2>2. Top.items = Content[f] /\ Top.at \in Nat
      BY <1>0, <1>1, <2>1, FrameFacts DEF FrameInv
    <2>3. k \in 1..Len(Content[f]) /\ Len(Content[f]) \in Nat
      BY OriginFacts, SourceFacts DEF DefsIn
    <2> QED
      BY <1>0, <2>2, <2>3
  <1>6. FrameInv'
    <2>1. (frames' = <<>>) <=> n = 1
      BY <1>1, <1>2
    <2>2. (frames' = <<>>) <=> (stage' # "expanding")
      BY <1>0, <2>1
    <2>3. \A i, j \in DOMAIN frames' : frames'[i].file = frames'[j].file =>
             i = j \/ frames'[i].file \in stray'
      BY <1>0, <1>3 DEF FrameInv
    <2>4. \A i \in DOMAIN frames' :
             /\ frames'[i].at >= 1
             /\ i = 1 \/ frames'[i].file \in Files
             /\ frames'[i].file \in Files =>
                   /\ frames'[i].items = Content[frames'[i].file]
                   /\ frames'[i].file \in Recorded'
                   /\ frames'[i].file \in stray' \cup (included' \ LoadedFiles')
      BY <1>0, <1>3, <1>4 DEF FrameInv
    <2> QED
      BY <1>2, <1>3, <2>2, <2>3, <2>4 DEF FrameInv
  <1>7. OutInv'
    <2>1. \A i \in DOMAIN out : out[i].file \notin stray => \A j \in DOMAIN frames' :
             out[i].file = frames'[j].file => out[i].at < frames'[j].at
      BY <1>0, <1>3 DEF OutInv
    <2>2. stage' # "idle"
      BY <1>3
    <2> QED
      BY <1>0, <1>4, <2>1, <2>2 DEF OutInv
  <1>8. DoneInv'
    <2>1. ASSUME NEW f \in Files, NEW k \in DefsIn(Content[f]), InHand(f, k)
          PROVE  InHand(f, k)'
      BY <1>0, <1>1, <1>2, <1>3, <1>5, <2>1 DEF InHand
    <2> QED
      BY <1>0, <1>4, <1>11, <2>1 DEF DoneInv
  <1>9. Passed'
    <2>1. SUFFICES ASSUME NEW i \in DOMAIN frames', NEW k \in 1..(frames'[i].at - 1),
                          frames'[i].items[k].k = "needs",
                          NEW f, f = Canon[frames'[i].items[k].path]
                   PROVE  There(f, i, k)'
      BY DEF Passed
    <2>2. frames'[i] = frames[i] /\ i \in DOMAIN frames /\ i <= n - 1 /\ i \in Nat
      BY <1>1, <1>2, <1>3
    <2>3. There(f, i, k)
      BY <1>0, <2>1, <2>2 DEF Passed
    <2>4. CASE DefsOf(f) \subseteq Usable \cup Defined \/ f \in failed
      BY <1>0, <1>4, <2>4 DEF There
    <2>5. ASSUME NEW j \in DOMAIN frames, frames[j].file = f,
                 j <= i \/ (j = i + 1 /\ k = frames[i].at - 1), j # n
          PROVE  There(f, i, k)'
      BY <1>2, <1>3, <2>2, <2>5 DEF There
    <2>6. ASSUME frames[n].file = f, n = i + 1, f \notin failed,
                 \A j \in DOMAIN frames : frames[j].file = f => j = n
          PROVE  DefsOf(f) \subseteq Usable \cup Defined
      <3>1. f \in Recorded \ failed /\ f \in Files
        <4>1. i \in Nat /\ i >= 1 /\ n # 1
          BY <1>1, <1>2, <2>6
        <4> QED
          BY <1>0, <1>1, <2>6, <4>1 DEF FrameInv
      <3> QED
        BY <1>0, <1>1, <1>5, <1>11, <2>6, <3>1, SplicedWhole
    <2>8. ASSUME NEW j \in DOMAIN frames, frames[j].file = f, j # n, n = i + 1
          PROVE  There(f, i, k)'
      <3>1. j \in 1..n /\ i \in Nat
        BY <1>1, <2>2
      <3>2. j <= i
        BY <2>8, <3>1
      <3> QED
        BY <2>5, <2>8, <3>2
    <2>7. ASSUME NEW j \in DOMAIN frames, frames[j].file = f, j = n,
                 j <= i \/ (j = i + 1 /\ k = frames[i].at - 1)
          PROVE  There(f, i, k)'
      <3>1. n = i + 1
        BY <1>1, <2>2, <2>7
      <3> QED
        BY <2>4, <2>6, <2>7, <2>8, <3>1
    <2> QED
      BY <2>3, <2>4, <2>5, <2>7 DEF There
  <1>10. LoadedInv' /\ ReadInv' /\ WordsInv' /\ Distinct'
    BY <1>0, <1>3, <1>4, <1>11 DEF LoadedInv, ReadInv, WordsInv, Distinct
  <1> QED
    BY <1>6, <1>7, <1>8, <1>9, <1>10 DEF Parts

-----------------------------------------------------------------------------
(* The ends of a compile *)

(* The compile gives up, and what it had recorded is among `gone`.         *)
LEMMA GiveUpStep ==
    ASSUME Parts, NEW gone, GiveUp(gone), Touched \subseteq gone,
           key # NoFile => Needed \in gone,
           UNCHANGED <<included, words, image, loaded, stray>>
    PROVE  Parts'
  <1>0. /\ FrameInv /\ OutInv /\ LoadedInv /\ ReadInv /\ WordsInv /\ DoneInv
        /\ stage' = "idle" /\ frames' = <<>> /\ key' = NoFile /\ out' = <<>>
        /\ failed' = failed \cup gone
    BY DEF Parts, GiveUp
  <1>1. /\ DOMAIN frames' = {} /\ DOMAIN out' = {} /\ LoadedFiles' = LoadedFiles
        /\ frames' \in Seq(FrameSet) /\ out' \in Seq(OutItems)
        /\ Recorded' = Recorded
    BY <1>0 DEF LoadedFiles, Recorded
  <1>2. FrameInv' /\ OutInv' /\ Distinct' /\ Passed'
    BY <1>0, <1>1 DEF FrameInv, OutInv, Distinct, Passed
  <1>3. LoadedInv' /\ ReadInv' /\ WordsInv'
    BY <1>0, <1>1 DEF LoadedInv, ReadInv, WordsInv
  <1>4. DoneInv'
    <2>1. SUFFICES ASSUME NEW f \in Recorded \ failed'
                   PROVE  DefsOf(f) \subseteq DOMAIN image
      BY <1>1 DEF DoneInv
    <2>2. f \in Recorded \ failed /\ f \notin Touched /\ ~(key # NoFile /\ f = Needed)
      BY <1>0
    <2>3. \A k : ~InHand(f, k)
      BY <2>2 DEF InHand, Touched
    <2>4. DefsOf(f) \subseteq DOMAIN image \/ DefsIn(Content[f]) = {}
      BY <1>0, <2>2, <2>3 DEF DoneInv
    <2> QED
      BY <2>4 DEF DefsOf, DefsIn
  <1> QED
    BY <1>2, <1>3, <1>4 DEF Parts

(* The read fails; resolve fails; the VM refuses the code.                 *)
LEMMA FailStep ==
    ASSUME Parts, Unreadable \/ ResolveFails \/ Refused
    PROVE  Parts'
  <1>1. CASE Unreadable
    BY <1>1, GiveUpStep DEF Unreadable
  <1>2. CASE ResolveFails \/ Refused
    <2>1. key = NoFile
      BY <1>2 DEF ResolveFails, Refused, Parts, ReadInv, AtItem
    <2> QED
      BY <1>2, <2>1, GiveUpStep DEF ResolveFails, Refused
  <1> QED
    BY <1>1, <1>2

LEMMA MergeStep ==
    ASSUME Parts, Merge
    PROVE  Parts'
  <1>0. /\ FrameInv /\ OutInv /\ LoadedInv /\ ReadInv /\ WordsInv /\ DoneInv
        /\ Distinct /\ stage = "expanded" /\ stage' = "emitted"
        /\ words' = words \cup Defined
        /\ UNCHANGED <<included, frames, key, out, image, loaded, failed, stray>>
    BY DEF Parts, Merge
  <1>1. /\ frames = <<>> /\ key = NoFile /\ Defined' = Defined
        /\ LoadedFiles' = LoadedFiles /\ Recorded' = Recorded
    BY <1>0 DEF FrameInv, ReadInv, AtItem, Defined, LoadedFiles, Recorded
  <1>2. DOMAIN frames' = {}
    BY <1>0, <1>1
  <1>3. FrameInv' /\ OutInv' /\ Distinct' /\ Passed'
    BY <1>0, <1>1, <1>2 DEF FrameInv, OutInv, Distinct, Passed
  <1>4. LoadedInv' /\ ReadInv' /\ WordsInv'
    BY <1>0, <1>1 DEF LoadedInv, ReadInv, WordsInv
  <1>5. DoneInv'
    BY <1>0, <1>1 DEF DoneInv, InHand
  <1> QED
    BY <1>3, <1>4, <1>5 DEF Parts

LEMMA LoadStep ==
    ASSUME Parts, Load
    PROVE  Parts'
  <1>0. /\ FrameInv /\ OutInv /\ LoadedInv /\ ReadInv /\ WordsInv /\ DoneInv
        /\ stage = "emitted" /\ image' = Emitted
        /\ loaded' = loaded \cup {<<out[i].file, out[i].at>> : i \in DOMAIN out}
        /\ stage' = "idle" /\ out' = <<>>
        /\ UNCHANGED <<included, words, frames, key, failed, stray>>
    BY DEF Parts, Load
  <1>1. frames = <<>> /\ key = NoFile /\ Recorded' = Recorded
    BY <1>0 DEF FrameInv, ReadInv, AtItem, Recorded
  <1>2. /\ DOMAIN frames = {} /\ DOMAIN frames' = {} /\ DOMAIN out' = {}
        /\ out' \in Seq(OutItems)
    BY <1>0, <1>1
  <1>3. FrameInv' /\ OutInv' /\ Distinct' /\ Passed' /\ ReadInv'
    BY <1>0, <1>1, <1>2 DEF FrameInv, OutInv, Distinct, Passed, ReadInv
  <1>4. LoadedInv'
    <2>1. LoadedFiles' \subseteq LoadedFiles \cup {out[i].file : i \in DOMAIN out}
      <3>1. ASSUME NEW x \in loaded'
            PROVE  x[1] \in LoadedFiles \cup {out[i].file : i \in DOMAIN out}
        <4>1. CASE x \in loaded
          BY <4>1 DEF LoadedFiles
        <4>2. ASSUME NEW i \in DOMAIN out, x = <<out[i].file, out[i].at>>
              PROVE  x[1] = out[i].file
          BY <4>2
        <4> QED
          BY <1>0, <4>1, <4>2
      <3> QED
        BY <3>1 DEF LoadedFiles
    <2> QED
      BY <1>0, <2>1 DEF LoadedInv, OutInv
  <1>5. DOMAIN image' = DOMAIN image \cup Defined
    BY <1>0 DEF Emitted
  <1>6. WordsInv'
    BY <1>0, <1>5 DEF WordsInv
  <1>7. DoneInv'
    <2>1. SUFFICES ASSUME NEW f \in Recorded \ failed
                   PROVE  DefsOf(f) \subseteq Usable \cup Defined
      <3>1. Usable \cup Defined = DOMAIN image'
        BY <1>0, <1>5, UsableIs
      <3> QED
        BY <1>0, <1>1, <3>1 DEF DoneInv
    <2> QED
      BY <1>0, <1>1, <1>2, SplicedWhole
  <1> QED
    BY <1>3, <1>4, <1>6, <1>7 DEF Parts

LEMMA EvalStep ==
    ASSUME Parts, NEW p \in Programs, Eval(p)
    PROVE  Parts'
  <1> DEFINE fr == Frame(NoFile, p)
  <1>0. /\ FrameInv /\ OutInv /\ LoadedInv /\ ReadInv /\ WordsInv /\ DoneInv
        /\ stage = "idle" /\ stage' = "expanding" /\ frames' = <<fr>>
        /\ out' = <<>>
        /\ UNCHANGED <<included, words, key, image, loaded, failed, stray>>
    BY DEF Parts, Eval
  <1>1. fr \in FrameSet /\ fr.at = 1 /\ fr.file = NoFile /\ NoFile \notin Files
    BY FrameFacts, OriginFacts
  <1> HIDE DEF fr
  <1>2. /\ DOMAIN frames' = {1} /\ frames'[1] = fr /\ frames' \in Seq(FrameSet)
        /\ frames' # <<>> /\ DOMAIN out' = {} /\ out' \in Seq(OutItems)
    BY <1>0, <1>1
  <1>3. FrameInv'
    BY <1>0, <1>1, <1>2 DEF FrameInv
  <1>4. OutInv' /\ Distinct'
    BY <1>0, <1>2 DEF OutInv, Distinct
  <1>5. Passed'
    BY <1>1, <1>2 DEF Passed
  <1>6. key = NoFile /\ Recorded' = Recorded
    BY <1>0 DEF ReadInv, AtItem, Recorded
  <1>7. LoadedInv' /\ ReadInv' /\ WordsInv'
    BY <1>0, <1>6 DEF LoadedInv, LoadedFiles, ReadInv, WordsInv
  <1>8. DoneInv'
    <2>1. \A f \in Recorded \ failed : DefsOf(f) \subseteq Usable
      BY <1>0, KnownWhenIdle DEF Known
    <2> QED
      BY <1>0, <1>6, <2>1, UsableIs DEF DoneInv
  <1> QED
    BY <1>3, <1>4, <1>5, <1>7, <1>8 DEF Parts

-----------------------------------------------------------------------------
(* The theorems *)

LEMMA InitIInv == Init => IInv
  <1> SUFFICES ASSUME Init PROVE Parts
    BY PartsAre
  <1>1. DOMAIN frames = {} /\ DOMAIN out = {} /\ DOMAIN image = {}
        /\ LoadedFiles = {} /\ Recorded = {}
    BY DEF Init, LoadedFiles, Recorded
  <1>2. frames \in Seq(FrameSet) /\ out \in Seq(OutItems)
    BY DEF Init
  <1> QED
    BY <1>1, <1>2 DEF Init, Parts, FrameInv, OutInv, LoadedInv, ReadInv, WordsInv,
       DoneInv, Distinct, Passed

LEMMA NextParts == Parts /\ [Next]_vars => Parts'
  <1> SUFFICES ASSUME Parts, [Next]_vars PROVE Parts'
    OBVIOUS
  <1>1. CASE UNCHANGED <<included, words, stage, frames, key, out, image, loaded,
                         failed, stray>>
    <2>1. /\ LoadedFiles' = LoadedFiles /\ Defined' = Defined /\ Usable' = Usable
          /\ Recorded' = Recorded /\ Item' = Item /\ Needed' = Needed
          /\ AtItem' = AtItem
      BY <1>1 DEF LoadedFiles, Defined, Usable, Recorded, Item, Needed, AtItem, Top
    <2>2. FrameInv' /\ OutInv' /\ Distinct' /\ WordsInv'
      BY <1>1, <2>1 DEF Parts, FrameInv, OutInv, Distinct, WordsInv
    <2>3. LoadedInv' /\ ReadInv'
      BY <1>1, <2>1 DEF Parts, LoadedInv, ReadInv, Fresh
    <2>4. DoneInv'
      BY <1>1, <2>1 DEF Parts, DoneInv, InHand
    <2>5. Passed'
      BY <1>1, <2>1 DEF Parts, Passed, There
    <2> QED
      BY <2>2, <2>3, <2>4, <2>5 DEF Parts
  <1>2. CASE Compile
    BY <1>2, SpliceStep, SkipStep, ClaimStep, DescendStep, AscendStep, FailStep,
       MergeStep, LoadStep DEF Compile
  <1>3. ASSUME NEW p \in Programs, Eval(p) PROVE Parts'
    BY <1>3, EvalStep
  <1>4. ASSUME NEW f, NEW s, Edit(f, s) PROVE Parts'
    BY <1>1, <1>4 DEF Edit
  <1> QED
    BY <1>1, <1>2, <1>3, <1>4 DEF Next, vars

LEMMA Always == Spec => []IInv
  BY InitIInv, NextParts, PartsAre, PTL DEF Spec

(* No definition of a file is compiled twice in a session, whatever        *)
(* circles the NEEDS directives form, however they spell a path, and       *)
(* whatever is done to the files meanwhile, between the two calls of one   *)
(* directive too; the one exception are files that were missing when       *)
(* canonicalize looked and there when they were read (compiler/mod.rs      *)
(* expand_needs).                                                          *)
THEOREM CompiledOnce == Spec => []SplicedOnce
  <1>1. IInv => SplicedOnce
    BY DEF IInv
  <1> QED
    BY <1>1, Always, PTL

(* Code after a NEEDS finds the definitions of its file, unless the file   *)
(* is one of those it is needed from, a compile recorded it and failed, or *)
(* the VM refused its code (compiler/mod.rs expand_needs,                  *)
(* CompileContext.included).                                               *)
THEOREM NeededFound == Spec => []NeededIsThere
  <1>1. IInv => NeededIsThere
    BY DEF IInv
  <1> QED
    BY <1>1, Always, PTL
=============================================================================

------------------------------- MODULE Needs -------------------------------
(* A session's compilations: NEEDS expansion with its include-once set       *)
(* (compiler/mod.rs, expand_needs), name resolution over the merged program  *)
(* (resolve.rs) and the compile context that carries names from one          *)
(* evaluation to the next (CompileContext).                                  *)
(*                                                                           *)
(* expand_needs recurses into a file when it meets the directive; `frames`   *)
(* is its call stack, and one step takes one item; a NEEDS takes two, one    *)
(* for canonicalize and the set, one for the read, because files are edited  *)
(* behind the compiler's back at any time, between these two calls too.      *)
(* The names join the context when the compile is over; the VM loads the     *)
(* code after that, or refuses it.                                           *)
(*                                                                           *)
(* An item is a NEEDS of a path, or the definition of a word whose body      *)
(* refers to one word; its index in its file stands for the Span of that     *)
(* reference: Spans are positions, and name no file.                         *)
EXTENDS Integers, Sequences, FiniteSets, SequencesExt

CONSTANTS Files,      \* the source files
          Paths,      \* the ways NEEDS directives spell them
          Canon,      \* the file behind each path
          Content,    \* the items of each file
          Fragile,    \* the files somebody breaks, removes and repairs
          Programs,   \* the sources the user evaluates
          Builtins,   \* the words of the built-in table
          MaxDepth    \* nested NEEDS the compiler's stack has room for

NoFile == "eval"

\* An item: the definition of a word, or a NEEDS.
Def(name, ref) == [k |-> "def", name |-> name, ref |-> ref]
Include(path)  == [k |-> "needs", path |-> path]

WellFormed(items) ==
    /\ items \in Seq({items[i] : i \in DOMAIN items})
    /\ \A i \in DOMAIN items :
        \/ items[i].k = "def"   /\ items[i] = Def(items[i].name, items[i].ref)
        \/ items[i].k = "needs" /\ items[i] = Include(items[i].path)
                                /\ items[i].path \in Paths

ASSUME NeedsAssumption ==
    /\ Paths \cap Files = {} /\ Canon \in [Paths -> Files]
    /\ NoFile \notin Files \cup Paths /\ Fragile \subseteq Files
    /\ \A f \in Files : WellFormed(Content[f])
    /\ \A p \in Programs : WellFormed(p)
    /\ MaxDepth \in Nat

VARIABLES disk,       \* each file: ok, broken (does not parse) or missing
          included,   \* CompileContext.included
          words,      \* CompileContext.user_words
          stage,      \* idle, expanding, expanded, or emitted for the VM
          frames,     \* the activations of expand_needs, outermost first
          key,        \* the key put into the set for the file about to be read
          out,        \* the items spliced so far
          image,      \* what the body of each word of the Factor image calls
          loaded,     \* the file items the image was built from
          failed,     \* files recorded by a compile that failed, or whose code
                      \* the VM refused
          stray       \* files recorded as missing by canonicalize, yet read

vars == <<disk, included, words, stage, frames, key, out, image, loaded,
          failed, stray>>

Init ==
    /\ disk \in [Files -> {"ok", "broken", "missing"}]
    /\ \A f \in Files \ Fragile : disk[f] = "ok"
    /\ included = {} /\ words = {}
    /\ stage = "idle" /\ frames = <<>> /\ key = NoFile /\ out = <<>>
    /\ image = <<>> /\ loaded = {} /\ failed = {} /\ stray = {}

(***************************************************************************)
(* The frames.                                                             *)
(***************************************************************************)
\* A frame: the file, its items, and the index of the next one.
Frame(file, items) == [file |-> file, items |-> items, at |-> 1]

Top      == Last(frames)
AtItem   == stage = "expanding" /\ Top.at <= Len(Top.items)
Item     == Top.items[Top.at]
Needed   == Canon[Item.path]
Advanced == [frames EXCEPT ![Len(frames)].at = @ + 1]

\* The dedup key of a path: the canonical path of a file that is there, the
\* path itself of one that is not.
Key(path) == IF disk[Canon[path]] = "missing" THEN path ELSE Canon[path]

(***************************************************************************)
(* One compilation.                                                        *)
(***************************************************************************)
\* compile_in_context: the source is lexed and parsed, expansion begins.
Eval(p) ==
    /\ stage = "idle"
    /\ stage' = "expanding"
    /\ frames' = <<Frame(NoFile, p)>> /\ out' = <<>>
    /\ UNCHANGED <<disk, included, words, key, image, loaded, failed, stray>>

\* out.push(other)
Splice ==
    /\ AtItem /\ Item.k = "def"
    /\ out' = Append(out, [file |-> Top.file, at |-> Top.at,
                           name |-> Item.name, ref |-> Item.ref])
    /\ frames' = Advanced
    /\ UNCHANGED <<disk, included, words, stage, key, image, loaded, failed, stray>>

\* Already pulled in this session: the directive expands to nothing.
SkipIncluded ==
    /\ AtItem /\ Item.k = "needs" /\ key = NoFile
    /\ Key(Item.path) \in included
    /\ frames' = Advanced
    /\ UNCHANGED <<disk, included, words, stage, key, out, image, loaded, failed, stray>>

\* A mutant of Record that records the file only once it has been spliced.
MutRecord(k) == included' = included

\* The key goes into the set before anything is read of the file.
Record(k) == included' = included \cup {k}

\* A mutant of Claim that does not look at what insert returns.
MutClaim ==
    /\ AtItem /\ Item.k = "needs" /\ key = NoFile
    /\ Record(Key(Item.path)) /\ key' = Key(Item.path)
    /\ UNCHANGED <<disk, words, stage, frames, out, image, loaded, failed, stray>>

\* canonicalize, then insert: the key is new.
Claim ==
    /\ AtItem /\ Item.k = "needs" /\ key = NoFile
    /\ Key(Item.path) \notin included
    /\ Record(Key(Item.path)) /\ key' = Key(Item.path)
    /\ UNCHANGED <<disk, words, stage, frames, out, image, loaded, failed, stray>>

\* The compile gives up, or the VM refuses what it made.  What has been
\* recorded stays recorded.
GiveUp(recorded) ==
    /\ stage' = "idle" /\ frames' = <<>> /\ key' = NoFile /\ out' = <<>>
    /\ failed' = failed \cup recorded

\* The files this compile has recorded, to tell the ones a failure strands.
Touched == {out[i].file : i \in DOMAIN out} \cup {frames[i].file : i \in DOMAIN frames}

\* The file is read, parsed, and expanded in the directive's place.
Descend ==
    /\ key # NoFile /\ disk[Needed] = "ok"
    /\ Len(frames) < MaxDepth
    /\ frames' = Append(Advanced, Frame(Needed, Content[Needed]))
    /\ key' = NoFile
    /\ stray' = IF key = Needed THEN stray ELSE stray \cup {Needed}
    /\ UNCHANGED <<disk, included, words, stage, out, image, loaded, failed>>

\* A mutant of Unreadable that goes on without the file.
MutUnreadable ==
    /\ key # NoFile /\ disk[Needed] # "ok"
    /\ frames' = Advanced /\ key' = NoFile
    /\ UNCHANGED <<disk, included, words, stage, out, image, loaded, failed, stray>>

\* The file cannot be read, or does not lex or parse.
Unreadable ==
    /\ key # NoFile /\ disk[Needed] # "ok"
    /\ GiveUp(Touched \cup {Needed})
    /\ UNCHANGED <<disk, included, words, image, loaded, stray>>

\* The end of a file: its items are spliced, the including file goes on.
Ascend ==
    /\ stage = "expanding" /\ Top.at > Len(Top.items)
    /\ frames' = Front(frames)
    /\ stage' = IF Len(frames) = 1 THEN "expanded" ELSE "expanding"
    /\ UNCHANGED <<disk, included, words, key, out, image, loaded, failed, stray>>

(***************************************************************************)
(* resolve and emit.                                                       *)
(***************************************************************************)
Defined    == {out[i].name : i \in DOMAIN out}
Redefines  == \E i, j \in DOMAIN out : i # j /\ out[i].name = out[j].name
UnknownRef == \E i \in DOMAIN out : out[i].ref \notin words \cup Defined \cup Builtins

\* User-defined words win over built-ins of the same name.
Target(w, users) == <<IF w \in users THEN "user" ELSE "builtin", w>>

\* word_targets: one entry per Span; of two references at the same position
\* the later one is left.
WordTargets ==
    [at \in {out[i].at : i \in DOMAIN out} |->
        LET last == CHOOSE i \in DOMAIN out :
                        out[i].at = at /\ \A j \in DOMAIN out : out[j].at = at => j <= i
        IN  Target(out[last].ref, words \cup Defined)]

ResolveFails ==
    /\ stage = "expanded"
    /\ Redefines \/ UnknownRef
    /\ GiveUp(Touched)
    /\ UNCHANGED <<disk, included, words, image, loaded, stray>>

\* The code is emitted and the new names join the context.
Merge ==
    /\ stage = "expanded" /\ ~Redefines /\ ~UnknownRef
    /\ stage' = "emitted"
    /\ words' = words \cup Defined
    /\ UNCHANGED <<disk, included, frames, key, out, image, loaded, failed, stray>>

\* The dictionary once the emitted code is loaded: each new word calls the
\* target looked up for its reference.
Emitted ==
    [w \in DOMAIN image \cup Defined |->
        IF w \in Defined
        THEN LET i == CHOOSE i \in DOMAIN out : out[i].name = w
             IN  WordTargets[out[i].at]
        ELSE image[w]]

\* The listener loads the code.
Load ==
    /\ stage = "emitted"
    /\ image' = Emitted
    /\ loaded' = loaded \cup {<<out[i].file, out[i].at>> : i \in DOMAIN out}
    /\ stage' = "idle" /\ out' = <<>>
    /\ UNCHANGED <<disk, included, words, frames, key, failed, stray>>

\* Factor's parser or effect checker refuses the code, and defines nothing.
\* The names stay in the context.
Refused ==
    /\ stage = "emitted"
    /\ GiveUp(Touched)
    /\ UNCHANGED <<disk, included, words, image, loaded, stray>>

\* Somebody saves, breaks or removes a file.
Edit(f, s) ==
    /\ disk' = [disk EXCEPT ![f] = s]
    /\ UNCHANGED <<included, words, stage, frames, key, out, image, loaded, failed, stray>>

Compile == Splice \/ SkipIncluded \/ Claim \/ Descend \/ Unreadable \/ Ascend
           \/ ResolveFails \/ Merge \/ Load \/ Refused

Next == \/ \E p \in Programs : Eval(p)
        \/ Compile
        \/ \E f \in Fragile, s \in {"ok", "broken", "missing"} : Edit(f, s)

\* The compiler's thread runs on; the user and the editor need not.
Spec == Init /\ [][Next]_vars /\ WF_vars(Compile)

(***************************************************************************)
(* Properties.                                                             *)
(***************************************************************************)
DefsOf(f) == {Content[f][i].name : i \in {j \in DOMAIN Content[f] : Content[f][j].k = "def"}}

\* The files whose key is in the set, canonical or as spelled.
Recorded == {f \in Files : f \in included \/ \E p \in included \cap Paths : Canon[p] = f}

\* The words a program can both name and call.
Usable == words \cap DOMAIN image

\* The variables have their shapes; the image has no word the context does not
\* know (the converse fails once the VM has refused some code).
TypeOK ==
    /\ disk \in [Files -> {"ok", "broken", "missing"}]
    /\ included \subseteq Files \cup Paths
    /\ stage \in {"idle", "expanding", "expanded", "emitted"}
    /\ (frames = <<>>) <=> (stage # "expanding")
    /\ key = NoFile \/ (AtItem /\ key \in {Item.path, Needed})
    /\ DOMAIN image \subseteq words
    /\ failed \subseteq Files \cup {NoFile}
    /\ stray \subseteq Files

\* No definition of a file is compiled twice in a session: whatever cycles the
\* directives form and however they spell the path, an item is spliced once
\* into a program, and not again once it has been loaded (expand_needs, "once
\* per file for the session").  Unless the file came to be between the calls of
\* canonicalize and read_to_string for one directive: it is then recorded under
\* the path as spelled, and the next NEEDS of it finds its canonical path new.
SplicedOnce ==
    /\ \A i, j \in DOMAIN out :
          (out[i].file = out[j].file /\ out[i].at = out[j].at) =>
              i = j \/ out[i].file \in stray
    /\ \A i \in DOMAIN out :
          out[i].file \notin stray \cup {NoFile} =>
              <<out[i].file, out[i].at>> \notin loaded

\* Code after a NEEDS can use the file.  During a compile: once a directive is
\* passed, every definition of its file is in the program or in the session
\* already, unless the file is the one being expanded there, or one further out
\* (a cycle).  Between compiles: a file in the include-once set "expands to
\* nothing (its words are already in user_words / the Factor image)", and so
\* they are.  In both cases unless a compile that recorded the file failed, or
\* the VM refused its code.
NeededIsThere ==
    /\ \A i \in DOMAIN frames : \A k \in 1..(frames[i].at - 1) :
          frames[i].items[k].k = "needs" =>
              LET f == Canon[frames[i].items[k].path]
              IN  \/ DefsOf(f) \subseteq Usable \cup Defined
                  \/ \E j \in DOMAIN frames :
                        frames[j].file = f /\ (j <= i \/ (j = i + 1 /\ k = frames[i].at - 1))
                  \/ f \in failed
    /\ stage = "idle" => \A f \in Recorded \ failed : DefsOf(f) \subseteq Usable

\* Every compile ends, also when files need each other in a circle.
CompileEnds == (stage # "idle") ~> (stage = "idle")

\* Every word calls what its source names: the reason lower_qdup.rs gives its
\* synthesised words spans of their own ("two WordRefs that share a span have
\* one of their resolved targets silently overwrite the other").
CallsItsOwn ==
    \A f \in Files : \A i \in DOMAIN Content[f] :
        (<<f, i>> \in loaded /\ Content[f][i].name \in DOMAIN image) =>
            image[Content[f][i].name][2] = Content[f][i].ref
=============================================================================

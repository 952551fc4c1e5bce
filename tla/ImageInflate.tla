---------------------------- MODULE ImageInflate ----------------------------
(***************************************************************************)
(* Finding and inflating the image before a Session starts (src/session.rs:*)
(* resolve_default_paths, the first part of Session::new, inflate_image).  *)
(*                                                                         *)
(* A process resolves the directory to use, and if the raw image is not    *)
(* there it inflates factorforth.image.zst through a .tmp file beside it.  *)
(* It may crash at any step and be started again, I/O may fail, and other  *)
(* processes may do the same in the same directory.  A file is a node that *)
(* names and open handles refer to: on Windows a handle follows its file   *)
(* through a rename.  A power failure, which may lose written blocks, is   *)
(* not modelled.                                                           *)
(***************************************************************************)
EXTENDS Naturals, FiniteSets

CONSTANTS
    Procs,      \* IDE processes
    Blocks,     \* the image has blocks 1..Blocks (one BufWriter buffer each)
    MaxStarts,  \* bound: times a process is started
    MaxErrors,  \* bound: I/O operations that fail
    Layouts     \* what the two directories hold at first

Dirs == {"exe", "crate"}
Shipped == {"dll", "zst", "image"}

ASSUME InflateAssumption ==
    /\ Blocks \in Nat \ {0} /\ MaxStarts \in Nat /\ MaxErrors \in Nat
    /\ Layouts \subseteq [Dirs -> SUBSET Shipped]

NoNode == 0
Nodes == 1..(2 + MaxStarts * Cardinality(Procs))

VARIABLES
    have,    \* have[d]: the fixed files of directory d, a subset of Shipped
    image,   \* image[d]: the node named factorforth.image, or NoNode
    tmp,     \* tmp[d]: the node named factorforth.image.tmp, or NoNode
    nodes,   \* nodes created so far
    data,    \* data[n]: the blocks written into node n
    pc,      \* where process p is
    dir,     \* the directory p resolved
    handle,  \* the node p has open for writing
    copied,  \* blocks p has put into its BufWriter
    flushed, \* blocks of those it has written to the file
    loaded,  \* the blocks that the VM of p found in the image
    starts,  \* times p was started
    errors   \* I/O failures so far

fileVars == <<have, image, tmp, nodes, data>>
procVars == <<dir, handle, copied, flushed, loaded, starts>>
vars == <<fileVars, pc, procVars, errors>>

Whole == 1..Blocks

(* The variables keep their shapes; a BufWriter holds at most one block     *)
(* that is not in its file yet.                                            *)
TypeOK ==
    /\ have \in [Dirs -> SUBSET Shipped]
    /\ image \in [Dirs -> 0..nodes] /\ tmp \in [Dirs -> 0..nodes]
    /\ nodes \in 2..Cardinality(Nodes)
    /\ data \in [Nodes -> SUBSET Whole]
    /\ pc \in [Procs -> {"down", "find", "inflate", "create", "copy", "rename",
                         "load", "up", "failed"}]
    /\ dir \in [Procs -> Dirs]
    /\ handle \in [Procs -> 0..nodes]
    /\ \A p \in Procs : flushed[p] \in 0..Blocks /\ copied[p] \in 0..Blocks
                        /\ copied[p] - flushed[p] \in {0, 1}
    /\ loaded \in [Procs -> SUBSET Whole]
    /\ starts \in [Procs -> 0..MaxStarts]
    /\ errors \in 0..MaxErrors

Init ==
    /\ have \in Layouts
    /\ image = [d \in Dirs |-> IF "image" \notin have[d] THEN NoNode
                               ELSE IF d = "exe" THEN 1 ELSE 2]
    /\ tmp = [d \in Dirs |-> NoNode]
    /\ nodes = 2
    /\ data = [n \in Nodes |-> IF n <= 2 THEN Whole ELSE {}]
    /\ pc = [p \in Procs |-> "down"]
    /\ dir = [p \in Procs |-> "exe"]
    /\ handle = [p \in Procs |-> NoNode]
    /\ copied = [p \in Procs |-> 0]
    /\ flushed = [p \in Procs |-> 0]
    /\ loaded = [p \in Procs |-> {}]
    /\ starts = [p \in Procs |-> 0]
    /\ errors = 0

Goto(p, where) == pc' = [pc EXCEPT ![p] = where]

-----------------------------------------------------------------------------
(* resolve_default_paths: the executable's directory if it has both files, *)
(* the crate's otherwise.                                                  *)
Start(p) ==
    /\ pc[p] \in {"down", "failed"}
    /\ starts[p] < MaxStarts
    /\ starts' = [starts EXCEPT ![p] = @ + 1]
    /\ dir' = [dir EXCEPT ![p] =
          IF "dll" \in have["exe"] /\ image["exe"] # NoNode THEN "exe"
          ELSE "crate"]
    /\ Goto(p, "find")
    /\ UNCHANGED <<fileVars, handle, copied, flushed, loaded, errors>>

(* Session::new: DllNotFound, the image as it is, inflate, or              *)
(* ImageNotFound.                                                          *)
Find(p) ==
    /\ pc[p] = "find"
    /\ Goto(p, CASE "dll" \notin have[dir[p]] -> "failed"
                 [] "dll" \in have[dir[p]] /\ image[dir[p]] # NoNode -> "load"
                 [] OTHER -> "inflate")
    /\ UNCHANGED <<fileVars, procVars, errors>>

OpenArchive(p) ==
    /\ pc[p] = "inflate"
    /\ Goto(p, IF "zst" \in have[dir[p]] THEN "create" ELSE "failed")
    /\ UNCHANGED <<fileVars, procVars, errors>>

(* Mutant of Create: File::create_new, which refuses an existing file.     *)
MutCreateNew(p) ==
    /\ pc[p] = "create"
    /\ IF tmp[dir[p]] # NoNode
       THEN Goto(p, "failed") /\ UNCHANGED <<tmp, nodes, data, handle>>
       ELSE /\ nodes' = nodes + 1
            /\ tmp' = [tmp EXCEPT ![dir[p]] = nodes + 1]
            /\ handle' = [handle EXCEPT ![p] = nodes + 1]
            /\ Goto(p, "copy")
            /\ UNCHANGED data
    /\ copied' = [copied EXCEPT ![p] = 0]
    /\ flushed' = [flushed EXCEPT ![p] = 0]
    /\ UNCHANGED <<have, image, dir, loaded, starts, errors>>

(* File::create truncates a .tmp that is there.                            *)
Create(p) ==
    /\ pc[p] = "create"
    /\ LET old == tmp[dir[p]]  n == IF old = NoNode THEN nodes + 1 ELSE old
       IN  /\ nodes' = IF old = NoNode THEN nodes + 1 ELSE nodes
           /\ tmp' = [tmp EXCEPT ![dir[p]] = n]
           /\ data' = [data EXCEPT ![n] = {}]
           /\ handle' = [handle EXCEPT ![p] = n]
    /\ copied' = [copied EXCEPT ![p] = 0]
    /\ flushed' = [flushed EXCEPT ![p] = 0]
    /\ Goto(p, "copy")
    /\ UNCHANGED <<have, image, dir, loaded, starts, errors>>

(* io::copy: the next block goes into the buffer, when that is empty...    *)
Copy(p) ==
    /\ pc[p] = "copy"
    /\ copied[p] < Blocks /\ flushed[p] = copied[p]
    /\ copied' = [copied EXCEPT ![p] = @ + 1]
    /\ UNCHANGED <<fileVars, pc, dir, handle, flushed, loaded, starts, errors>>

(* ... and the buffer into the file, at the handle's own position.         *)
Write(p) ==
    /\ pc[p] = "copy"
    /\ flushed[p] < copied[p]
    /\ data' = [data EXCEPT ![handle[p]] = @ \cup {copied[p]}]
    /\ flushed' = [flushed EXCEPT ![p] = copied[p]]
    /\ UNCHANGED <<have, image, tmp, nodes, pc, dir, handle, copied, loaded,
                   starts, errors>>

(* Mutant of Flush: the copy is done, and dropping the BufWriter will do.  *)
MutNoFlush(p) ==
    /\ pc[p] = "copy"
    /\ copied[p] = Blocks
    /\ handle' = [handle EXCEPT ![p] = NoNode]
    /\ Goto(p, "rename")
    /\ UNCHANGED <<fileVars, dir, copied, flushed, loaded, starts, errors>>

(* bw.flush()? and drop: nothing is left in the buffer.                    *)
Flush(p) ==
    /\ pc[p] = "copy"
    /\ copied[p] = Blocks /\ flushed[p] = Blocks
    /\ handle' = [handle EXCEPT ![p] = NoNode]
    /\ Goto(p, "rename")
    /\ UNCHANGED <<fileVars, dir, copied, flushed, loaded, starts, errors>>

(* fs::rename replaces the image; it fails when the .tmp is gone.          *)
Rename(p) ==
    /\ pc[p] = "rename"
    /\ IF tmp[dir[p]] = NoNode
       THEN Goto(p, "failed") /\ UNCHANGED <<image, tmp>>
       ELSE /\ image' = [image EXCEPT ![dir[p]] = tmp[dir[p]]]
            /\ tmp' = [tmp EXCEPT ![dir[p]] = NoNode]
            /\ Goto(p, "load")
    /\ UNCHANGED <<have, nodes, data, procVars, errors>>

(* The VM reads the image; Session::new is done.                           *)
Load(p) ==
    /\ pc[p] = "load"
    /\ loaded' = [loaded EXCEPT ![p] = data[image[dir[p]]]]
    /\ Goto(p, "up")
    /\ UNCHANGED <<fileVars, dir, handle, copied, flushed, starts, errors>>

(* Opening, creating, reading, writing or renaming fails: every ? returns  *)
(* ImageInflateFailed and leaves the .tmp as it is.                        *)
IoError(p) ==
    /\ pc[p] \in {"inflate", "create", "copy", "rename"}
    /\ errors < MaxErrors
    /\ errors' = errors + 1
    /\ handle' = [handle EXCEPT ![p] = NoNode]
    /\ Goto(p, "failed")
    /\ UNCHANGED <<fileVars, dir, copied, flushed, loaded, starts>>

(* The process dies, what its BufWriter held with it; or the user closes   *)
(* the IDE.                                                                *)
Crash(p) ==
    /\ pc[p] \notin {"down", "failed"}
    /\ handle' = [handle EXCEPT ![p] = NoNode]
    /\ Goto(p, "down")
    /\ UNCHANGED <<fileVars, dir, copied, flushed, loaded, starts, errors>>

-----------------------------------------------------------------------------
Step(p) == Find(p) \/ OpenArchive(p) \/ Create(p) \/ Copy(p) \/ Write(p)
           \/ Flush(p) \/ Rename(p) \/ Load(p)

Next == \E p \in Procs : Step(p) \/ Start(p) \/ IoError(p) \/ Crash(p)

(* A running process goes on, and a user whose IDE does not come up starts *)
(* it again.                                                               *)
Fairness ==
    \A p \in Procs : WF_vars(Step(p)) /\ WF_vars(Start(p))

Spec == Init /\ [][Next]_vars /\ Fairness

-----------------------------------------------------------------------------
(* Properties *)

(* "a crash partway through inflation never leaves a half-written image    *)
(* that the loader would then try to consume" (inflate_image): whatever is *)
(* visible under the image's name is whole, through crashes, errors and    *)
(* the left-over .tmp of an earlier attempt.                               *)
NoHalfImage ==
    \A d \in Dirs : image[d] # NoNode => data[image[d]] = Whole

(* Attempts that crashed or failed do not spoil the next: once I/O works   *)
(* again, a started process comes up or crashes once more, if it looks in  *)
(* a directory with the VM and the archive.                                *)
RetryComesUp ==
    \A p \in Procs :
        (pc[p] = "find" /\ {"dll", "zst"} \subseteq have[dir[p]]
         /\ errors = MaxErrors) ~> (pc[p] \in {"up", "down"})
=============================================================================

----------------------------- MODULE HostInput -----------------------------
(***************************************************************************)
(* The input queue of a Session (src/session.rs): the host feeds bytes     *)
(* (feed_input) and signals end of input (close_input); the VM's worker    *)
(* reads one byte (nf_rt_read_char, ANS KEY) or a line (nf_rt_read_line,   *)
(* ANS ACCEPT).  input_q is behind a mutex with the condition variable     *)
(* input_cv; input_closed is an atomic outside it.                         *)
(***************************************************************************)
EXTENDS Naturals, Sequences

CONSTANTS
    Feeders,   \* host threads that call feed_input or close_input
    Bytes,     \* ordinary input bytes
    MaxFed,    \* bound: bytes fed
    MaxChunk,  \* bound: bytes of one feed_input call
    MaxLine,   \* bound: the `max` of a read_line call
    MaxCalls,  \* bound: reads made
    Closes     \* may the host call close_input?  A subset of {TRUE}

NL == "newline"
Input == Bytes \cup {NL}
Chunks(n) == UNION {[1..k -> Input] : k \in 0..n}  \* up to n bytes

ASSUME HostInputAssumption ==
    /\ MaxFed \in Nat /\ MaxChunk \in Nat
    /\ MaxLine \in Nat /\ MaxCalls \in Nat
    /\ NL \notin Bytes
    /\ Closes \subseteq {TRUE}

VARIABLES
    q,       \* input_q
    closed,  \* input_closed
    rpc,     \* where the reader is
    want,    \* bytes the read in progress may still store; 0 for KEY
    line,    \* bytes the read in progress has stored
    fpc,     \* fpc[f]: where host thread f is
    fed,     \* history: every byte fed, in order
    read,    \* history: every byte taken from q, in order
    calls    \* reads begun

vars == <<q, closed, rpc, want, line, fpc, fed, read, calls>>

(* top: about to lock and look; held: the queue was empty, the lock is     *)
(* held, input_closed is to be read; towait: it was FALSE; wait: asleep in *)
(* input_cv.wait with the mutex released.                                  *)
ReaderPcs == {"idle", "top", "held", "towait", "wait"}

(* The variables keep their shapes: the reader and the feeders are at      *)
(* places of the code, and a line being read holds no newline.             *)
TypeOK ==
    /\ q \in Seq(Input)
    /\ closed \in BOOLEAN
    /\ rpc \in ReaderPcs
    /\ want \in 0..MaxLine
    /\ line \in Seq(Bytes)
    /\ fpc \in [Feeders -> {"idle", "notify"}]
    /\ fed \in Seq(Input) /\ read \in Seq(Input)
    /\ calls \in 0..MaxCalls

(* A Session in Gui mode, or one in Test mode, whose input is fed and      *)
(* closed from the start.                                                  *)
Init ==
    /\ \/ closed = FALSE /\ q = << >>
       \/ closed = TRUE /\ q \in Chunks(MaxFed)
    /\ rpc = "idle"
    /\ want = 0
    /\ line = << >>
    /\ fpc = [f \in Feeders |-> "idle"]
    /\ fed = q /\ read = << >>
    /\ calls = 0

-----------------------------------------------------------------------------
(* Host *)

(* The mutex of input_q: the reader keeps it from its look at the queue to *)
(* its wait.                                                               *)
QueueFree == rpc \notin {"held", "towait"}

(* notify_all: a sleeping reader wakes and takes the mutex again.          *)
Woken == IF rpc = "wait" THEN "top" ELSE rpc

(* Mutant of Feed: the queue is extended without its lock.                 *)
MutFeedUnlocked(f) ==
    /\ fpc[f] = "idle"
    /\ \E bs \in Chunks(MaxChunk) :
          /\ Len(fed) + Len(bs) <= MaxFed
          /\ q' = q \o bs
          /\ fed' = fed \o bs
    /\ rpc' = Woken
    /\ UNCHANGED <<closed, want, line, fpc, read, calls>>

(* feed_input: extend and notify under the lock.                           *)
Feed(f) ==
    /\ fpc[f] = "idle"
    /\ QueueFree
    /\ \E bs \in Chunks(MaxChunk) :
          /\ Len(fed) + Len(bs) <= MaxFed
          /\ q' = q \o bs
          /\ fed' = fed \o bs
    /\ rpc' = Woken
    /\ UNCHANGED <<closed, want, line, fpc, read, calls>>

(* close_input stores the flag without the lock...                         *)
CloseStore(f) ==
    /\ TRUE \in Closes
    /\ fpc[f] = "idle"
    /\ closed' = TRUE
    /\ fpc' = [fpc EXCEPT ![f] = "notify"]
    /\ UNCHANGED <<q, rpc, want, line, fed, read, calls>>

(* ... and notifies.                                                       *)
CloseNotify(f) ==
    /\ fpc[f] = "notify"
    /\ fpc' = [fpc EXCEPT ![f] = "idle"]
    /\ rpc' = Woken
    /\ UNCHANGED <<q, closed, want, line, fed, read, calls>>

-----------------------------------------------------------------------------
(* Reader *)

(* nf_rt_read_char *)
Key ==
    /\ rpc = "idle"
    /\ calls < MaxCalls
    /\ calls' = calls + 1
    /\ want' = 0
    /\ line' = << >>
    /\ rpc' = "top"
    /\ UNCHANGED <<q, closed, fpc, fed, read>>

(* nf_rt_read_line with room for n bytes; with none it returns at once.    *)
Accept(n) ==
    /\ rpc = "idle"
    /\ calls < MaxCalls
    /\ calls' = calls + 1
    /\ want' = n
    /\ line' = << >>
    /\ rpc' = IF n = 0 THEN "idle" ELSE "top"
    /\ UNCHANGED <<q, closed, fpc, fed, read>>

(* Mutant of TakeByte: ACCEPT leaves the newline in the queue.             *)
MutNewlineStays ==
    /\ rpc = "top"
    /\ q # << >>
    /\ IF want > 0 /\ Head(q) = NL
       THEN UNCHANGED q ELSE q' = Tail(q)
    /\ read' = Append(read, Head(q))
    /\ rpc' = "idle" /\ want' = 0 /\ line' = << >>
    /\ UNCHANGED <<closed, fpc, fed, calls>>

(* A byte is there.  KEY returns it; ACCEPT drops a newline and returns,   *)
(* stores anything else and returns when the buffer is full.  The mutex is *)
(* released between two bytes of a line.                                   *)
TakeByte ==
    /\ rpc = "top"
    /\ q # << >>
    /\ q' = Tail(q)
    /\ read' = Append(read, Head(q))
    /\ IF want > 1 /\ Head(q) # NL
       THEN want' = want - 1 /\ line' = Append(line, Head(q)) /\ UNCHANGED rpc
       ELSE rpc' = "idle" /\ want' = 0 /\ line' = << >>
    /\ UNCHANGED <<closed, fpc, fed, calls>>

(* The queue is empty; the mutex stays locked.                             *)
SeeEmpty ==
    /\ rpc = "top"
    /\ q = << >>
    /\ rpc' = "held"
    /\ UNCHANGED <<q, closed, want, line, fpc, fed, read, calls>>

(* Mutant of CheckClosed: the flag is not looked at.                       *)
MutIgnoresClosed ==
    /\ rpc = "held"
    /\ rpc' = "towait"
    /\ UNCHANGED <<q, closed, want, line, fpc, fed, read, calls>>

(* input_closed is read: EOF for KEY, what there is for ACCEPT.            *)
CheckClosed ==
    /\ rpc = "held"
    /\ IF closed
       THEN rpc' = "idle" /\ want' = 0 /\ line' = << >>
       ELSE rpc' = "towait" /\ UNCHANGED <<want, line>>
    /\ UNCHANGED <<q, closed, fpc, fed, read, calls>>

(* input_cv.wait: release the mutex and sleep, as one step.                *)
Sleep ==
    /\ rpc = "towait"
    /\ rpc' = "wait"
    /\ UNCHANGED <<q, closed, want, line, fpc, fed, read, calls>>

(* A condition variable may wake its waiter for no reason; the loop copes. *)
SpuriousWake ==
    /\ rpc = "wait"
    /\ rpc' = "top"
    /\ UNCHANGED <<q, closed, want, line, fpc, fed, read, calls>>

-----------------------------------------------------------------------------
Reader == TakeByte \/ SeeEmpty \/ CheckClosed \/ Sleep

Next ==
    \/ Key
    \/ \E n \in 0..MaxLine : Accept(n)
    \/ Reader
    \/ SpuriousWake
    \/ \E f \in Feeders : Feed(f) \/ CloseStore(f) \/ CloseNotify(f)

(* The reader runs when it can, and a host thread inside close_input goes  *)
(* on to its notify.  Nothing makes the host feed or close.                *)
Fairness == WF_vars(Reader) /\ \A f \in Feeders : WF_vars(CloseNotify(f))

Spec == Init /\ [][Next]_vars /\ Fairness

-----------------------------------------------------------------------------
(* Properties *)

(* Every byte fed is read once, in the order it was fed, whatever mixture  *)
(* of KEY and ACCEPT reads it and however many host threads feed; a line   *)
(* in progress is the last bytes read.                                     *)
BytesInOrder ==
    /\ read \o q = fed
    /\ Len(line) <= Len(read)
    /\ \A i \in 1..Len(line) : line[i] = read[Len(read) - Len(line) + i]

(* The reader never sleeps on a queue that holds something: feed_input     *)
(* cannot slip between the reader's look at the queue and its wait.        *)
NoLostFeed == rpc = "wait" => q = << >>

(* A read ends early at end of input only when the queue is drained: bytes *)
(* fed before close_input are never cut off by it.                         *)
EofMeansDrained == [][rpc = "held" /\ rpc' = "idle" => read = fed]_vars

(* A read that looks at the queue of a Session whose input is closed       *)
(* returns, with what there is: end of input is seen again by every read.  *)
ReadsSeeClose == (rpc \in {"top", "held"} /\ closed) ~> (rpc = "idle")
=============================================================================

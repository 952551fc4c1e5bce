------------------------------ MODULE Session ------------------------------
(***************************************************************************)
(* The embedded Factor VM session (src/session.rs) and the Factor side of  *)
(* its listener (factor/forth/runtime/runtime.factor, section 13b).        *)
(*                                                                         *)
(* Four kinds of thread run:                                               *)
(*   host        calls Session::new, Session::eval and drops the Session   *)
(*   worker[s]   "nf-session-worker": owns VM s, runs nf-listener-loop     *)
(*   dispatch[s] "nf-session-dispatcher": turns commands of cmd_tx into    *)
(*               the one-slot listener queue and sends the replies         *)
(*   GUI         Forth -> Break, interrupt_current_session                 *)
(*                                                                         *)
(* s numbers the Sessions of the process in the order Session::new         *)
(* installed them.  The process-wide CURRENT mutex is not a variable: the  *)
(* only code that keeps it across a blocking step is nf_rt_next_command,   *)
(* so it is held exactly while a worker is at "pend" (see LockFree).       *)
(* A command is the number of the eval that sent it, or Exit.              *)
(***************************************************************************)
EXTENDS Naturals, Sequences

CONSTANTS
    MaxSessions,  \* bound: Session::new calls that get past install_current
    MaxEvals,     \* bound: evals that reach the command channel
    Kinds,        \* what the evaluated sources may do, a subset of AllKinds
    Faults        \* the environment's moves allowed, a subset of AllFaults

(* quick: returns; loop: runs for ever but reaches safepoints; block: sits  *)
(* in a foreign call (KEY, a C call) until it returns, if it ever does;     *)
(* nul: the source holds a NUL byte.                                        *)
AllKinds == {"quick", "loop", "block", "nul"}

(* break: GUI Break; second: Session::new while a Session is held; spawn:   *)
(* the worker thread cannot be created; boot: worker_main panics before the *)
(* listener starts; flush: the on_flush closure panics.                     *)
AllFaults == {"break", "second", "spawn", "boot", "flush"}

ASSUME BoundsAssumption ==
    /\ MaxSessions \in Nat
    /\ MaxEvals \in Nat
    /\ Kinds \subseteq AllKinds
    /\ Faults \subseteq AllFaults

Sessions == 1..MaxSessions
Evals == 1..MaxEvals
None == 0                      \* Option::None of CURRENT, held, pending
Exit == MaxEvals + 1           \* Command::Shutdown and the "__exit__" source
Commands == Evals \cup {Exit}
Causes == {"Timeout", "WorkerPanicked", "WorkerGone"}

VARIABLES
    hpc,      \* where the host thread is
    held,     \* the Session value the host owns, or None
    outcome,  \* what the host's last API call returned
    cause,    \* the DeathCause eval has read and is about to record
    gen,      \* Sessions installed so far
    issued,   \* evals sent so far; the host waits for number issued
    kind,     \* kind[e]: what the source of eval e does
    owner,    \* owner[e]: the Session eval e was sent to
    current,  \* CURRENT: the Session whose IoState the callbacks see
    curIntr,  \* CURRENT_INTERRUPTER
    dead,     \* dead[s]: the recorded DeathCause, or "none"
    cmdq,     \* cmdq[s]: the mpsc channel behind cmd_tx
    rxOpen,   \* rxOpen[s]: the Receiver end still exists
    wpc,      \* where worker s is
    job,      \* job[s]: the command worker s took last
    dpc,      \* where dispatcher s is
    dcur,     \* dcur[s]: the eval whose reply Sender dispatcher s holds
    pending,  \* pending[s]: IoState.listener_pending
    done,     \* done[s]: IoState.listener_done
    intr,     \* intr[s]: the Interrupter has been published
    fep,      \* fep[s]: VM s has an interrupt queued (safepoint_fep_p)
    replied,  \* evals whose reply has been sent
    ended     \* history: <<s, e>>, VM s evaluated e to its end or its error

hostVars == <<hpc, held, outcome, cause>>
evalVars == <<gen, issued, kind, owner>>
globals == <<current, curIntr>>
threadVars == <<wpc, job, dpc, dcur>>
slotVars == <<pending, done>>
chanVars == <<cmdq, rxOpen>>
vars == <<hostVars, evalVars, globals, threadVars, slotVars, chanVars,
          dead, intr, fep, replied, ended>>

HostPcs == {"idle", "install", "send", "wait1", "wait2", "disc",
            "join", "clear", "clrintr"}
Outcomes == {"none", "ok", "died", "AlreadyRunning", "WorkerSpawn"}
WorkerPcs == {"none", "boot", "setup", "loop", "next", "pend", "entry", "eval",
              "done", "signal", "join", "unwound", "exited"}
DispatchPcs == {"none", "recv", "wait", "exited"}

(* The variables keep their shapes: threads are at places of the code, and *)
(* evals, Sessions and queued commands are those the host has made.        *)
TypeOK ==
    /\ hpc \in HostPcs
    /\ held \in Sessions \cup {None}
    /\ outcome \in Outcomes
    /\ cause \in Causes \cup {"none"}
    /\ gen \in 0..MaxSessions
    /\ issued \in 0..MaxEvals
    /\ kind \in [Evals -> AllKinds]
    /\ owner \in [Evals -> Sessions \cup {None}]
    /\ current \in Sessions \cup {None}
    /\ curIntr \in Sessions \cup {None}
    /\ dead \in [Sessions -> Causes \cup {"none"}]
    /\ cmdq \in [Sessions -> Seq(Commands)]
    /\ rxOpen \in [Sessions -> BOOLEAN]
    /\ wpc \in [Sessions -> WorkerPcs]
    /\ job \in [Sessions -> Commands \cup {None}]
    /\ dpc \in [Sessions -> DispatchPcs]
    /\ dcur \in [Sessions -> Evals \cup {None}]
    /\ pending \in [Sessions -> Commands \cup {None}]
    /\ done \in [Sessions -> BOOLEAN]
    /\ intr \in [Sessions -> BOOLEAN]
    /\ fep \in [Sessions -> BOOLEAN]
    /\ replied \subseteq Evals
    /\ ended \subseteq (Sessions \X Evals)

Init ==
    /\ hpc = "idle"
    /\ held = None
    /\ outcome = "none"
    /\ cause = "none"
    /\ gen = 0
    /\ issued = 0
    /\ kind = [e \in Evals |-> "quick"]
    /\ owner = [e \in Evals |-> None]
    /\ current = None
    /\ curIntr = None
    /\ dead = [s \in Sessions |-> "none"]
    /\ cmdq = [s \in Sessions |-> << >>]
    /\ rxOpen = [s \in Sessions |-> FALSE]
    /\ wpc = [s \in Sessions |-> "none"]
    /\ job = [s \in Sessions |-> None]
    /\ dpc = [s \in Sessions |-> "none"]
    /\ dcur = [s \in Sessions |-> None]
    /\ pending = [s \in Sessions |-> None]
    /\ done = [s \in Sessions |-> FALSE]
    /\ intr = [s \in Sessions |-> FALSE]
    /\ fep = [s \in Sessions |-> FALSE]
    /\ replied = {}
    /\ ended = {}

-----------------------------------------------------------------------------
(* Helpers *)

(* The CURRENT mutex can be locked: no worker waits for a command inside    *)
(* nf_rt_next_command, whose with_current closure keeps the guard.          *)
LockFree == \A s \in Sessions : wpc[s] # "pend"

(* Interrupter::trigger, if the worker has published one.                   *)
Trigger(s) == fep' = IF intr[s] THEN [fep EXCEPT ![s] = TRUE] ELSE fep

(* The Receiver goes away: the queued commands, and the reply Senders in    *)
(* them, are dropped.                                                       *)
DropReceiver(s) ==
    /\ rxOpen' = [rxOpen EXCEPT ![s] = FALSE]
    /\ cmdq' = [cmdq EXCEPT ![s] = << >>]

(* The reply Sender of eval e is still owned by a queued command or by the  *)
(* dispatcher; otherwise recv_timeout reports Disconnected.                 *)
SenderAlive(e) ==
    \E s \in Sessions :
        \/ \E i \in DOMAIN cmdq[s] : cmdq[s][i] = e
        \/ dpc[s] = "wait" /\ dcur[s] = e

-----------------------------------------------------------------------------
(* Session::new *)

(* Session::new up to install_current: the host starts a Session, normally  *)
(* only when it owns none.                                                  *)
New ==
    /\ hpc = "idle"
    /\ held = None \/ "second" \in Faults
    /\ gen < MaxSessions
    /\ hpc' = "install"
    /\ UNCHANGED <<held, outcome, cause, evalVars, globals, threadVars,
                   slotVars, chanVars, dead, intr, fep, replied, ended>>

(* install_current refuses: another Session is installed.                   *)
InstallRefused ==
    /\ hpc = "install"
    /\ LockFree
    /\ current # None
    /\ hpc' = "idle"
    /\ outcome' = "AlreadyRunning"
    /\ UNCHANGED <<held, cause, evalVars, globals, threadVars, slotVars,
                   chanVars, dead, intr, fep, replied, ended>>

(* install_current stores the new IoState, CURRENT_INTERRUPTER is published *)
(* and the worker is spawned.                                               *)
Install ==
    /\ hpc = "install"
    /\ LockFree
    /\ current = None
    /\ gen < MaxSessions
    /\ gen' = gen + 1
    /\ current' = gen + 1
    /\ curIntr' = gen + 1
    /\ wpc' = [wpc EXCEPT ![gen + 1] = "boot"]
    /\ rxOpen' = [rxOpen EXCEPT ![gen + 1] = TRUE]
    /\ held' = gen + 1
    /\ hpc' = "idle"
    /\ outcome' = "ok"
    /\ UNCHANGED <<cause, issued, kind, owner, job, dpc, dcur, slotVars, cmdq,
                   dead, intr, fep, replied, ended>>

(* thread::Builder::spawn fails: new returns WorkerSpawn, and what it has   *)
(* installed stays installed.                                               *)
InstallSpawnFails ==
    /\ "spawn" \in Faults
    /\ hpc = "install"
    /\ LockFree
    /\ current = None
    /\ gen < MaxSessions
    /\ gen' = gen + 1
    /\ current' = gen + 1
    /\ curIntr' = gen + 1
    /\ hpc' = "idle"
    /\ outcome' = "WorkerSpawn"
    /\ UNCHANGED <<held, cause, issued, kind, owner, threadVars, slotVars,
                   chanVars, dead, intr, fep, replied, ended>>

-----------------------------------------------------------------------------
(* Session::eval *)

(* A Session already marked dead fails fast.                                *)
EvalFailFast ==
    /\ hpc = "idle"
    /\ held # None
    /\ dead[held] # "none"
    /\ outcome' = "died"
    /\ UNCHANGED <<hpc, held, cause, evalVars, globals, threadVars, slotVars,
                   chanVars, dead, intr, fep, replied, ended>>

(* The liveness check passes; the lock on dead is released before the send. *)
EvalCheck ==
    /\ hpc = "idle"
    /\ held # None
    /\ dead[held] = "none"
    /\ issued < MaxEvals
    /\ hpc' = "send"
    /\ UNCHANGED <<held, outcome, cause, evalVars, globals, threadVars,
                   slotVars, chanVars, dead, intr, fep, replied, ended>>

(* cmd_tx.send(Command::Eval) *)
EvalSend ==
    /\ hpc = "send"
    /\ rxOpen[held]
    /\ issued < MaxEvals
    /\ \E k \in Kinds : kind' = [kind EXCEPT ![issued + 1] = k]
    /\ owner' = [owner EXCEPT ![issued + 1] = held]
    /\ issued' = issued + 1
    /\ cmdq' = [cmdq EXCEPT ![held] = Append(@, issued + 1)]
    /\ hpc' = "wait1"
    /\ UNCHANGED <<held, outcome, cause, gen, globals, threadVars, slotVars,
                   rxOpen, dead, intr, fep, replied, ended>>

(* The send fails: the Receiver is gone.                                    *)
EvalSendFails ==
    /\ hpc = "send"
    /\ ~rxOpen[held]
    /\ dead' = [dead EXCEPT ![held] = "WorkerGone"]
    /\ outcome' = "died"
    /\ hpc' = "idle"
    /\ UNCHANGED <<held, cause, evalVars, globals, threadVars, slotVars,
                   chanVars, intr, fep, replied, ended>>

(* Mutant of EvalReply: a reply left over from an earlier eval is taken.    *)
MutEvalAnyReply ==
    /\ hpc \in {"wait1", "wait2"}
    /\ replied # {}
    /\ hpc' = "idle"
    /\ outcome' = "ok"
    /\ UNCHANGED <<held, cause, evalVars, globals, threadVars, slotVars,
                   chanVars, dead, intr, fep, replied, ended>>

(* The reply arrives, in the first wait or in the grace period.             *)
EvalReply ==
    /\ hpc \in {"wait1", "wait2"}
    /\ issued \in replied
    /\ hpc' = "idle"
    /\ outcome' = "ok"
    /\ UNCHANGED <<held, cause, evalVars, globals, threadVars, slotVars,
                   chanVars, dead, intr, fep, replied, ended>>

(* eval_timeout elapses: ask the VM to interrupt and wait the grace period. *)
EvalTimeout ==
    /\ hpc = "wait1"
    /\ issued \notin replied
    /\ SenderAlive(issued)
    /\ Trigger(held)
    /\ hpc' = "wait2"
    /\ UNCHANGED <<held, outcome, cause, evalVars, globals, threadVars,
                   slotVars, chanVars, dead, intr, replied, ended>>

(* Mutant of EvalGiveUp: recv in place of recv_timeout in the grace period. *)
MutGiveUpNeverTimesOut ==
    /\ hpc = "wait2"
    /\ issued \notin replied
    /\ ~SenderAlive(issued)
    /\ dead' = [dead EXCEPT ![held] = "Timeout"]
    /\ outcome' = "died"
    /\ hpc' = "idle"
    /\ UNCHANGED <<held, cause, evalVars, globals, threadVars, slotVars,
                   chanVars, intr, fep, replied, ended>>

(* The grace period ends without a reply, or the Sender is gone.            *)
EvalGiveUp ==
    /\ hpc = "wait2"
    /\ issued \notin replied
    /\ dead' = [dead EXCEPT ![held] = "Timeout"]
    /\ outcome' = "died"
    /\ hpc' = "idle"
    /\ UNCHANGED <<held, cause, evalVars, globals, threadVars, slotVars,
                   chanVars, intr, fep, replied, ended>>

(* Disconnected in the first wait: the recorded cause is read...            *)
EvalDisconnected ==
    /\ hpc = "wait1"
    /\ issued \notin replied
    /\ ~SenderAlive(issued)
    /\ cause' = IF dead[held] = "none" THEN "WorkerGone" ELSE dead[held]
    /\ hpc' = "disc"
    /\ UNCHANGED <<held, outcome, evalVars, globals, threadVars, slotVars,
                   chanVars, dead, intr, fep, replied, ended>>

(* ... and written back under a second lock.                                *)
EvalRecordCause ==
    /\ hpc = "disc"
    /\ dead' = [dead EXCEPT ![held] = cause]
    /\ cause' = "none"
    /\ outcome' = "died"
    /\ hpc' = "idle"
    /\ UNCHANGED <<held, evalVars, globals, threadVars, slotVars, chanVars,
                   intr, fep, replied, ended>>

-----------------------------------------------------------------------------
(* Drop for Session *)

(* Mutant of DropSend: every worker is detached, none is joined.            *)
MutDropDetaches ==
    /\ hpc = "idle"
    /\ held # None
    /\ cmdq' = IF rxOpen[held]
                 THEN [cmdq EXCEPT ![held] = Append(@, Exit)]
                 ELSE cmdq
    /\ hpc' = "clear"
    /\ UNCHANGED <<held, outcome, cause, evalVars, globals, threadVars,
                   slotVars, rxOpen, dead, intr, fep, replied, ended>>

(* Mutant of DropSend: the stuck test is dropped, every worker is joined.   *)
MutDropJoinsStuck ==
    /\ hpc = "idle"
    /\ held # None
    /\ cmdq' = IF rxOpen[held]
                 THEN [cmdq EXCEPT ![held] = Append(@, Exit)]
                 ELSE cmdq
    /\ hpc' = "join"
    /\ UNCHANGED <<held, outcome, cause, evalVars, globals, threadVars,
                   slotVars, rxOpen, dead, intr, fep, replied, ended>>

(* Mutant of DropSend: a worker that timed out is not sent a Shutdown.      *)
MutDropStuckUntold ==
    /\ hpc = "idle"
    /\ held # None
    /\ cmdq' = IF rxOpen[held] /\ dead[held] # "Timeout"
                 THEN [cmdq EXCEPT ![held] = Append(@, Exit)]
                 ELSE cmdq
    /\ hpc' = IF dead[held] = "Timeout" THEN "clear" ELSE "join"
    /\ UNCHANGED <<held, outcome, cause, evalVars, globals, threadVars,
                   slotVars, rxOpen, dead, intr, fep, replied, ended>>

(* Send Shutdown (an error is ignored); join the worker unless it timed out *)
(* and is left detached.                                                    *)
DropSend ==
    /\ hpc = "idle"
    /\ held # None
    /\ cmdq' = IF rxOpen[held]
                 THEN [cmdq EXCEPT ![held] = Append(@, Exit)]
                 ELSE cmdq
    /\ hpc' = IF dead[held] = "Timeout" THEN "clear" ELSE "join"
    /\ UNCHANGED <<held, outcome, cause, evalVars, globals, threadVars,
                   slotVars, rxOpen, dead, intr, fep, replied, ended>>

DropJoin ==
    /\ hpc = "join"
    /\ wpc[held] = "exited"
    /\ hpc' = "clear"
    /\ UNCHANGED <<held, outcome, cause, evalVars, globals, threadVars,
                   slotVars, chanVars, dead, intr, fep, replied, ended>>

(* clear_current *)
DropClear ==
    /\ hpc = "clear"
    /\ LockFree
    /\ current' = None
    /\ hpc' = "clrintr"
    /\ UNCHANGED <<held, outcome, cause, evalVars, curIntr, threadVars,
                   slotVars, chanVars, dead, intr, fep, replied, ended>>

DropClearInterrupter ==
    /\ hpc = "clrintr"
    /\ curIntr' = None
    /\ held' = None
    /\ hpc' = "idle"
    /\ UNCHANGED <<outcome, cause, evalVars, current, threadVars, slotVars,
                   chanVars, dead, intr, fep, replied, ended>>

-----------------------------------------------------------------------------
(* GUI thread: interrupt_current_session *)

Break ==
    /\ "break" \in Faults
    /\ curIntr # None
    /\ Trigger(curIntr)
    /\ UNCHANGED <<hostVars, evalVars, globals, threadVars, slotVars, chanVars,
                   dead, intr, replied, ended>>

-----------------------------------------------------------------------------
(* Worker thread: worker_main *)

(* LoadLibrary, nf_new_vm, run_startup; the Interrupter is published.       *)
Boot(s) ==
    /\ wpc[s] = "boot"
    /\ intr' = [intr EXCEPT ![s] = TRUE]
    /\ wpc' = [wpc EXCEPT ![s] = "setup"]
    /\ UNCHANGED <<hostVars, evalVars, globals, job, dpc, dcur, slotVars,
                   chanVars, dead, fep, replied, ended>>

(* The two set-up evals run and the dispatcher is spawned.  An interrupt    *)
(* that hits the first one can leave nf-host unregistered, and then         *)
(* nf-listener-start fails at once.                                         *)
Setup(s) ==
    /\ wpc[s] = "setup"
    /\ dpc' = [dpc EXCEPT ![s] = "recv"]
    /\ fep' = [fep EXCEPT ![s] = FALSE]
    /\ \E next \in {"loop"} \cup (IF fep[s] THEN {"join"} ELSE {}) :
          wpc' = [wpc EXCEPT ![s] = next]
    /\ UNCHANGED <<hostVars, evalVars, globals, job, dcur, slotVars, chanVars,
                   dead, intr, replied, ended>>

(* Mutant of BootPanic: the Receiver outlives the unwinding.                *)
MutPanicKeepsReceiver(s) ==
    /\ "boot" \in Faults
    /\ wpc[s] \in {"boot", "setup"}
    /\ wpc' = [wpc EXCEPT ![s] = "unwound"]
    /\ UNCHANGED <<hostVars, evalVars, globals, job, dpc, dcur, slotVars,
                   chanVars, dead, intr, fep, replied, ended>>

(* An expect or unwrap of worker_main panics before the dispatcher runs:    *)
(* unwinding drops cmd_rx (and the Library) first ...                       *)
BootPanic(s) ==
    /\ "boot" \in Faults
    /\ wpc[s] \in {"boot", "setup"}
    /\ wpc' = [wpc EXCEPT ![s] = "unwound"]
    /\ DropReceiver(s)
    /\ UNCHANGED <<hostVars, evalVars, globals, job, dpc, dcur, slotVars,
                   dead, intr, fep, replied, ended>>

(* ... and then the spawn closure records the panic, unless a cause is set. *)
RecordPanic(s) ==
    /\ wpc[s] = "unwound"
    /\ dead' = [dead EXCEPT ![s] = IF @ = "none" THEN "WorkerPanicked" ELSE @]
    /\ wpc' = [wpc EXCEPT ![s] = "exited"]
    /\ UNCHANGED <<hostVars, evalVars, globals, job, dpc, dcur, slotVars,
                   chanVars, intr, fep, replied, ended>>

(* Where a worker that runs listener code outside nf-listener-eval's        *)
(* `recover` goes on to.                                                    *)
AfterSafepoint == [loop |-> "next", entry |-> "eval", done |-> "signal"]

(* A word call of nf-listener-loop is a safepoint: a queued interrupt       *)
(* raises ERROR_INTERRUPT there, which nothing in the loop catches, so      *)
(* nf_eval_string returns and the listener is over.                         *)
Safepoint(s) ==
    /\ wpc[s] \in DOMAIN AfterSafepoint
    /\ wpc' = [wpc EXCEPT ![s] = IF fep[s] THEN "join" ELSE AfterSafepoint[@]]
    /\ fep' = [fep EXCEPT ![s] = FALSE]
    /\ UNCHANGED <<hostVars, evalVars, globals, job, dpc, dcur, slotVars,
                   chanVars, dead, intr, replied, ended>>

(* nf_rt_next_command locks CURRENT; with no session installed it returns   *)
(* NULL, otherwise it waits for a command with the lock held.               *)
NextLock(s) ==
    /\ wpc[s] = "next"
    /\ LockFree
    /\ wpc' = [wpc EXCEPT ![s] = IF current = None THEN "join" ELSE "pend"]
    /\ UNCHANGED <<hostVars, evalVars, globals, job, dpc, dcur, slotVars,
                   chanVars, dead, intr, fep, replied, ended>>

(* The pending command is taken and CURRENT unlocked.  Exit, and a source   *)
(* CString::new rejects, return NULL: the listener loop ends.               *)
Take(s) ==
    /\ wpc[s] = "pend"
    /\ current # None
    /\ pending[current] # None
    /\ job' = [job EXCEPT ![s] = pending[current]]
    /\ pending' = [pending EXCEPT ![current] = None]
    /\ wpc' = [wpc EXCEPT ![s] =
                 IF pending[current] = Exit THEN "join"
                 ELSE IF kind[pending[current]] = "nul" THEN "join"
                 ELSE "entry"]
    /\ UNCHANGED <<hostVars, evalVars, globals, dpc, dcur, done, chanVars,
                   dead, intr, fep, replied, ended>>

(* The source ends, in a value or in an error that `recover` turns into a   *)
(* message.  An interrupt queued during a foreign call fires on its return, *)
(* still inside `recover`.                                                  *)
Finish(s) ==
    /\ wpc[s] = "eval"
    /\ kind[job[s]] \in {"quick", "block"}
    /\ ended' = ended \cup {<<s, job[s]>>}
    /\ fep' = IF kind[job[s]] = "block" THEN [fep EXCEPT ![s] = FALSE] ELSE fep
    /\ wpc' = [wpc EXCEPT ![s] = "done"]
    /\ UNCHANGED <<hostVars, evalVars, globals, job, dpc, dcur, slotVars,
                   chanVars, dead, intr, replied>>

(* A safepoint of the running source raises the interrupt inside `recover`. *)
Interrupted(s) ==
    /\ wpc[s] = "eval"
    /\ fep[s]
    /\ kind[job[s]] # "block"
    /\ ended' = ended \cup {<<s, job[s]>>}
    /\ fep' = [fep EXCEPT ![s] = FALSE]
    /\ wpc' = [wpc EXCEPT ![s] = "done"]
    /\ UNCHANGED <<hostVars, evalVars, globals, job, dpc, dcur, slotVars,
                   chanVars, dead, intr, replied>>

(* nf_rt_command_done signals whichever session is installed now.           *)
SignalDone(s) ==
    /\ wpc[s] = "signal"
    /\ LockFree
    /\ done' = IF current = None THEN done ELSE [done EXCEPT ![current] = TRUE]
    /\ wpc' = [wpc EXCEPT ![s] = "loop"]
    /\ UNCHANGED <<hostVars, evalVars, globals, job, dpc, dcur, pending,
                   chanVars, dead, intr, fep, replied, ended>>

(* The listener is over: worker_main joins the dispatcher and returns.      *)
JoinDispatcher(s) ==
    /\ wpc[s] = "join"
    /\ dpc[s] = "exited"
    /\ wpc' = [wpc EXCEPT ![s] = "exited"]
    /\ UNCHANGED <<hostVars, evalVars, globals, job, dpc, dcur, slotVars,
                   chanVars, dead, intr, fep, replied, ended>>

-----------------------------------------------------------------------------
(* Dispatcher thread *)

(* Mutant of DispatchEval: done is not reset before the slot is filled.     *)
MutStaleDone(s) ==
    /\ dpc[s] = "recv"
    /\ cmdq[s] # << >>
    /\ Head(cmdq[s]) # Exit
    /\ pending' = [pending EXCEPT ![s] = Head(cmdq[s])]
    /\ dcur' = [dcur EXCEPT ![s] = Head(cmdq[s])]
    /\ cmdq' = [cmdq EXCEPT ![s] = Tail(@)]
    /\ dpc' = [dpc EXCEPT ![s] = "wait"]
    /\ UNCHANGED <<hostVars, evalVars, globals, wpc, job, done, rxOpen, dead,
                   intr, fep, replied, ended>>

(* Command::Eval: clear done, then fill the slot and notify.                *)
DispatchEval(s) ==
    /\ dpc[s] = "recv"
    /\ cmdq[s] # << >>
    /\ Head(cmdq[s]) # Exit
    /\ done' = [done EXCEPT ![s] = FALSE]
    /\ pending' = [pending EXCEPT ![s] = Head(cmdq[s])]
    /\ dcur' = [dcur EXCEPT ![s] = Head(cmdq[s])]
    /\ cmdq' = [cmdq EXCEPT ![s] = Tail(@)]
    /\ dpc' = [dpc EXCEPT ![s] = "wait"]
    /\ UNCHANGED <<hostVars, evalVars, globals, wpc, job, rxOpen, dead, intr,
                   fep, replied, ended>>

(* done is signalled: flush the output and send the reply.                  *)
DispatchReply(s) ==
    /\ dpc[s] = "wait"
    /\ done[s]
    /\ replied' = replied \cup {dcur[s]}
    /\ dcur' = [dcur EXCEPT ![s] = None]
    /\ dpc' = [dpc EXCEPT ![s] = "recv"]
    /\ UNCHANGED <<hostVars, evalVars, globals, wpc, job, slotVars, chanVars,
                   dead, intr, fep, ended>>

(* The host's flush closure panics: the dispatcher unwinds.                 *)
DispatchFlushPanics(s) ==
    /\ "flush" \in Faults
    /\ dpc[s] = "wait"
    /\ done[s]
    /\ dcur' = [dcur EXCEPT ![s] = None]
    /\ dpc' = [dpc EXCEPT ![s] = "exited"]
    /\ DropReceiver(s)
    /\ UNCHANGED <<hostVars, evalVars, globals, wpc, job, slotVars, dead, intr,
                   fep, replied, ended>>

(* Command::Shutdown: hand "__exit__" to the listener and leave.            *)
DispatchShutdown(s) ==
    /\ dpc[s] = "recv"
    /\ cmdq[s] # << >>
    /\ Head(cmdq[s]) = Exit
    /\ done' = [done EXCEPT ![s] = FALSE]
    /\ pending' = [pending EXCEPT ![s] = Exit]
    /\ dpc' = [dpc EXCEPT ![s] = "exited"]
    /\ DropReceiver(s)
    /\ UNCHANGED <<hostVars, evalVars, globals, wpc, job, dcur, dead, intr,
                   fep, replied, ended>>

-----------------------------------------------------------------------------
HostStart == New \/ EvalFailFast \/ EvalCheck \/ DropSend

HostStep ==
    \/ InstallRefused \/ Install \/ InstallSpawnFails
    \/ EvalSend \/ EvalSendFails \/ EvalReply \/ EvalTimeout \/ EvalGiveUp
    \/ EvalDisconnected \/ EvalRecordCause
    \/ DropJoin \/ DropClear \/ DropClearInterrupter

WorkerStep(s) ==
    \/ Boot(s) \/ Setup(s) \/ RecordPanic(s) \/ Safepoint(s) \/ NextLock(s)
    \/ Take(s) \/ Interrupted(s) \/ SignalDone(s) \/ JoinDispatcher(s)

DispatchStep(s) ==
    DispatchEval(s) \/ DispatchReply(s) \/ DispatchShutdown(s)

Next ==
    \/ HostStart
    \/ HostStep
    \/ Break
    \/ \E s \in Sessions :
          \/ WorkerStep(s) \/ BootPanic(s) \/ Finish(s)
          \/ DispatchStep(s) \/ DispatchFlushPanics(s)

(* Every thread that can move eventually does; a timeout eventually         *)
(* elapses; a source that returns eventually returns.  Nothing is assumed   *)
(* of the host starting a call, of Break, of the faults, or of the return   *)
(* of a blocking foreign call.                                              *)
Fairness ==
    /\ WF_vars(HostStep)
    /\ \A s \in Sessions :
          /\ WF_vars(WorkerStep(s))
          /\ WF_vars(Finish(s) /\ kind[job[s]] = "quick")
          /\ WF_vars(DispatchStep(s))

Spec == Init /\ [][Next]_vars
FairSpec == Spec /\ Fairness

-----------------------------------------------------------------------------
(* Properties *)

(* A worker was left detached: its Session timed out and has been dropped.  *)
Leaked == \E s \in Sessions : s # held /\ dead[s] = "Timeout"

(* Worker s has been spawned and has not ended.                             *)
Live(s) == wpc[s] \notin {"none", "exited"}

(* Session::eval returning Ok means that the VM of that very Session ran    *)
(* the source to its end, as long as no timed-out worker was left behind.   *)
ReplyMeansEvaluated ==
    ~Leaked => \A e \in replied : <<owner[e], e>> \in ended

(* Two VMs never run at once, as long as no timed-out worker was left       *)
(* behind: Drop joins the worker before CURRENT is cleared.                 *)
SingleVm ==
    ~Leaked => \A s, t \in Sessions : Live(s) /\ Live(t) => s = t

(* A command leaves the one-slot listener queue only into the worker of its *)
(* own session: the dispatcher never overwrites one nobody took, and no     *)
(* other listener takes it.                                                 *)
CommandsReachOwnListener ==
    [][~Leaked => \A s \in Sessions :
          pending[s] \in Evals /\ pending'[s] # pending[s]
              => job'[s] = pending[s]]_vars

(* No command is queued on a Session marked dead, although the mark is read *)
(* before the send and may be set by the worker in between: a panicking     *)
(* worker drops its Receiver before it records the panic.                   *)
DeadTakesNoCommand == [][issued' # issued => dead[held] = "none"]_vars

(* Session::eval always returns: with the reply, or when the timeout and    *)
(* the grace period have elapsed, or when the Sender is gone.               *)
EvalReturns == (hpc \in {"send", "wait1", "wait2", "disc"}) ~> (hpc = "idle")

(* Dropping a Session returns, as long as no timed-out worker of an earlier *)
(* one was left behind: the worker it joins ends.                           *)
DropReturns == (hpc = "join" /\ ~Leaked) ~> (hpc = "idle")

(* A listener that waits for a command keeps the CURRENT mutex, so whoever  *)
(* else wants it waits for the next command.  That wait ends for a host     *)
(* that drops its Session, also when the detached worker of that Session    *)
(* comes back late and is the one that waits, and for a host that makes a   *)
(* Session and holds none.  Not so with a worker left over from an earlier  *)
(* Session, and not for Session::new while an idle Session is held.         *)
CurrentComesFree ==
    (/\ ~Leaked
     /\ hpc = "clear" \/ (hpc = "install" /\ held = None)) ~> (hpc = "idle")

-----------------------------------------------------------------------------
(* The inductive invariant behind ReplyMeansEvaluated, SingleVm and         *)
(* CommandsReachOwnListener.                                                *)

(* A worker between taking a command and signalling done.                   *)
Busy == {"entry", "eval", "done", "signal"}

(* A host inside eval or drop has a Session, a busy worker has an eval, and *)
(* so has a dispatcher waiting for done.                                    *)
JobsTyped ==
    /\ hpc \notin {"idle", "install"} => held # None
    /\ \A s \in Sessions :
          /\ wpc[s] \in Busy => job[s] \in Evals
          /\ dpc[s] = "wait" => dcur[s] \in Evals

(* What the host's position says of the Session it holds and of CURRENT.    *)
HostInv ==
    /\ hpc = "clrintr" => current = None
    /\ held # None /\ hpc # "clrintr" => current = held
    /\ hpc \in {"clear", "clrintr"}
          => wpc[held] = "exited" \/ dead[held] = "Timeout"

(* Sessions not yet installed are untouched, and a worker that has not      *)
(* reached its listener has no dispatcher.                                  *)
FreshInv ==
    \A s \in Sessions :
        /\ s > gen => wpc[s] = "none" /\ dead[s] = "none" /\ held # s
        /\ wpc[s] \in {"none", "boot", "setup", "unwound"} => dpc[s] = "none"

(* A command and its reply Sender stay with the Session they were sent to.  *)
OwnerInv ==
    /\ \A e \in Evals : e > issued => owner[e] = None
    /\ \A e \in replied : owner[e] # None
    /\ \A s \in Sessions :
          /\ \A i \in DOMAIN cmdq[s] :
                cmdq[s][i] \in Evals => owner[cmdq[s][i]] = s
          /\ dpc[s] = "wait" => owner[dcur[s]] = s

(* A worker that is unwinding has no Receiver, and a host about to send on  *)
(* an open channel is about to send to a Session not marked dead.           *)
ReceiverInv ==
    /\ hpc = "send" /\ rxOpen[held] => dead[held] = "none"
    /\ \A s \in Sessions : wpc[s] = "unwound" => ~rxOpen[s]

(* Worker, dispatcher and slot of one Session move in lockstep: one eval at *)
(* a time is in the slot, in the VM or waiting to be reported.              *)
LockstepOf(s) ==
    /\ s # held => wpc[s] \in {"none", "exited"}
    /\ wpc[s] \in Busy =>
          dpc[s] = "wait" /\ job[s] = dcur[s] /\ ~done[s] /\ pending[s] = None
    /\ wpc[s] \in {"done", "signal"} => <<s, job[s]>> \in ended
    /\ pending[s] \in Evals =>
          dpc[s] = "wait" /\ pending[s] = dcur[s] /\ ~done[s]
    /\ pending[s] = Exit => dpc[s] = "exited"
    /\ dpc[s] = "wait" /\ done[s] => <<s, dcur[s]>> \in ended

(* The request/response discipline between dispatcher, listener slot and    *)
(* worker, which the code has only while no timed-out worker is left over.  *)
Lockstep == ~Leaked => \A s \in Sessions : LockstepOf(s)
=============================================================================

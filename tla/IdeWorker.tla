----------------------------- MODULE IdeWorker -----------------------------
(***************************************************************************)
(* The IDE worker (src/bin/newfactor_ui.rs): the supervisor, the drain     *)
(* loop that turns mailbox events into compiles and evals, the compile     *)
(* context it keeps from eval to eval (src/compiler/mod.rs), the REPL      *)
(* panes' input queues (crates/igui/src/repl_pane.rs), and the routing of  *)
(* the VM's output to the pane that asked for it.                          *)
(*                                                                         *)
(* A Session is seen through its API here: eval runs the source on a VM    *)
(* with a dictionary of its own and returns, or the Session has died.      *)
(* A Session that timed out leaves its worker and its dispatcher behind,   *)
(* and these reach into the Sessions after it (see Zombies below).         *)
(* What the compiler does with a source is reduced to the names it defines *)
(* and refers to.                                                          *)
(***************************************************************************)
EXTENDS Naturals, Sequences, FiniteSets, SequencesExt

CONSTANTS
    Words,      \* names a program may define
    FileWords,  \* FileWords[f]: the names the NEEDS-able file f defines
    Missing,    \* files among them that cannot be read
    Sources,    \* programs: records [lexes, need, uses, defs]
    Panes,      \* REPL child windows
    Capacity,   \* CAPACITY of the mailbox, 1024 in the code
    MaxEvents,  \* bound: events the user causes
    Faults      \* a subset of AllFaults

Console == "console"
NoFile == "nofile"
Files == DOMAIN FileWords
Sinks == Panes \cup {Console}

Programs == [lexes: BOOLEAN, need: Files \cup {NoFile},
             uses: SUBSET Words, defs: SUBSET Words]

(* death: the Session dies during an eval; reject: parse-string fails on   *)
(* the VM (a Break, a refusal of Factor's); panic: Rust code of the drain  *)
(* loop panics; seh: it faults; boot: Session::new fails.                  *)
AllFaults == {"death", "reject", "panic", "seh", "boot"}

ASSUME IdeAssumption ==
    /\ FileWords \in [Files -> SUBSET Words]
    /\ Missing \subseteq Files
    /\ Sources \subseteq Programs
    /\ Console \notin Panes /\ NoFile \notin Files
    /\ Capacity \in Nat /\ MaxEvents \in Nat
    /\ Faults \subseteq AllFaults

VARIABLES
    queue,     \* the mailbox: events of the kinds below
    made,      \* events the user has caused
    gui,       \* the pane whose ReplSubmit the GUI thread is about to push
    open,      \* REPL panes not closed yet
    inputs,    \* inputs[p]: PENDING_INPUTS of pane p
    wpc,       \* where the IDE worker thread is
    sup,       \* the supervisor: "join", or "ended"
    dump,      \* CAPTURED: the crash handler has a dump
    task,      \* the source being handled and the pane it came from
    words,     \* compile_ctx.user_words
    included,  \* compile_ctx.included
    snapshot,  \* user_words of EDITOR_SNAPSHOT
    sess,      \* the Session the drain loop owns; "stuck": it timed out
    orphan,    \* a Session whose owner thread was ended by ExitThread
    dict,      \* names defined in the VM of sess
    vm,        \* what that VM does with the task
    sink,      \* CURRENT_SINK
    linebuf,   \* origins of the text in the line buffer of sess
    zombies,   \* origins of evals whose worker was left behind, still at work
    shown,     \* history: <<origin, pane>>, text that was delivered
    lost,      \* history: panes a ReplSubmit of which was dropped
    diverged   \* history: the context holds a name the VM may not

guiVars == <<made, gui, open>>
ctxVars == <<words, included, snapshot>>
vmVars == <<dict, vm, linebuf, zombies, shown>>
vars == <<queue, guiVars, inputs, wpc, sup, dump, task, ctxVars, sess, orphan,
          vmVars, sink, lost, diverged>>

NoTask == [from |-> Console, src |-> [lexes |-> FALSE, need |-> NoFile,
                                      uses |-> {}, defs |-> {}]]
Event(k, p, s) == [kind |-> k, pane |-> p, src |-> s]
Dropping == {"restart", "replace", "unwind", "close"}
Kinds == {"EvalBuffer", "ReplSubmit", "ForthRestart", "FrameClose"}

(* The variables keep their shapes: the mailbox keeps to its capacity, and *)
(* words, files and sinks are those of the programs and panes.             *)
TypeOK ==
    /\ queue \in Seq([kind: Kinds, pane: Sinks, src: Programs])
    /\ Len(queue) <= Capacity
    /\ made \in 0..MaxEvents
    /\ gui \in Panes \cup {Console}
    /\ open \subseteq Panes
    /\ inputs \in [Panes -> Seq(Sources)]
    /\ wpc \in {"boot", "idle", "compile", "eval", "check", "reboot", "off",
                "hung"} \cup Dropping
    /\ sup \in {"join", "ended"}
    /\ dump \in BOOLEAN
    /\ task \in [from: Sinks, src: Programs]
    /\ words \subseteq Words
    /\ included \subseteq Files
    /\ snapshot \subseteq Words
    /\ sess \in {"none", "live", "dead", "stuck"}
    /\ orphan \in BOOLEAN
    /\ dict \subseteq Words
    /\ vm \in {"idle", "parse", "run", "done", "flushed"}
    /\ sink \in Sinks
    /\ linebuf \subseteq Sinks
    /\ zombies \subseteq Sinks
    /\ shown \subseteq (Sinks \X Sinks)
    /\ lost \subseteq Panes
    /\ diverged \in BOOLEAN

(* run_supervisor has spawned the worker, which is in boot_session.        *)
Init ==
    /\ queue = << >> /\ made = 0 /\ gui = Console
    /\ open = Panes
    /\ inputs = [p \in Panes |-> << >>]
    /\ wpc = "boot" /\ sup = "join" /\ dump = FALSE
    /\ task = NoTask
    /\ words = {} /\ included = {} /\ snapshot = {}
    /\ sess = "none" /\ orphan = FALSE
    /\ dict = {} /\ vm = "idle"
    /\ sink = Console /\ linebuf = {} /\ zombies = {} /\ shown = {}
    /\ lost = {} /\ diverged = FALSE

-----------------------------------------------------------------------------
(* GUI thread *)

(* channels::push: dropped when the mailbox is full.                       *)
Pushed(e) == IF Len(queue) < Capacity THEN Append(queue, e) ELSE queue

(* A menu entry, the editor, the console or the frame pushes an event.     *)
Request(k, s) ==
    /\ made < MaxEvents
    /\ gui = Console
    /\ made' = made + 1
    /\ queue' = Pushed(Event(k, Console, s))
    /\ UNCHANGED <<gui, open, inputs, wpc, sup, dump, task, ctxVars, sess, orphan,
                   vmVars, sink, lost, diverged>>

(* Enter in a REPL pane: the text goes to PENDING_INPUTS...                *)
Submit(p, s) ==
    /\ made < MaxEvents
    /\ gui = Console
    /\ p \in open
    /\ made' = made + 1
    /\ inputs' = [inputs EXCEPT ![p] = Append(@, s)]
    /\ gui' = p
    /\ UNCHANGED <<queue, open, wpc, sup, dump, task, ctxVars, sess, orphan,
                   vmVars, sink, lost, diverged>>

(* ... and the event that announces it to the mailbox.                     *)
Announce ==
    /\ gui # Console
    /\ queue' = Pushed(Event("ReplSubmit", gui, NoTask.src))
    /\ lost' = IF Len(queue) < Capacity THEN lost ELSE lost \cup {gui}
    /\ gui' = Console
    /\ UNCHANGED <<made, open, inputs, wpc, sup, dump, task, ctxVars, sess, orphan,
                   vmVars, sink, diverged>>

(* A REPL pane is destroyed with its inputs; its events stay queued, and   *)
(* its id is never used again.                                             *)
ClosePane(p) ==
    /\ gui = Console
    /\ p \in open
    /\ open' = open \ {p}
    /\ inputs' = [inputs EXCEPT ![p] = << >>]
    /\ UNCHANGED <<queue, made, gui, wpc, sup, dump, task, ctxVars, sess,
                   orphan, vmVars, sink, lost, diverged>>

-----------------------------------------------------------------------------
(* Boot and supervision *)

(* A new VM: an empty dictionary, nothing running, an empty line buffer.   *)
FreshVm == dict' = {} /\ vm' = "idle" /\ linebuf' = {}

(* boot_session succeeds and run_drain_loop starts with a new context.     *)
Boot ==
    /\ wpc = "boot"
    /\ ~orphan
    /\ sess' = "live"
    /\ FreshVm
    /\ words' = {} /\ included' = {} /\ snapshot' = {}
    /\ diverged' = FALSE
    /\ wpc' = "idle"
    /\ UNCHANGED <<queue, guiVars, inputs, sup, dump, task, orphan, zombies,
                   shown, sink, lost>>

(* boot_session inside the drain loop, which keeps its context.            *)
Reboot ==
    /\ wpc = "reboot"
    /\ ~orphan
    /\ sess' = "live"
    /\ FreshVm
    /\ wpc' = "idle"
    /\ UNCHANGED <<queue, guiVars, inputs, sup, dump, task, ctxVars, orphan,
                   zombies, shown, sink, lost, diverged>>

(* Session::new fails: a missing DLL or image, or CURRENT still holds the  *)
(* orphan.  The worker returns.  (With the orphan's listener idle it does  *)
(* not even fail: it waits for the CURRENT mutex.)                         *)
BootFails ==
    /\ wpc \in {"boot", "reboot"}
    /\ "boot" \in Faults \/ orphan
    /\ wpc' = "off"
    /\ UNCHANGED <<queue, guiVars, inputs, sup, dump, task, ctxVars, sess,
                   orphan, vmVars, sink, lost, diverged>>

(* The worker thread has ended and left a dump: respawn it.                *)
Respawn ==
    /\ sup = "join"
    /\ wpc = "off"
    /\ dump
    /\ dump' = FALSE
    /\ wpc' = "boot"
    /\ UNCHANGED <<queue, guiVars, inputs, sup, task, ctxVars, sess, orphan,
                   vmVars, sink, lost, diverged>>

(* It has ended without one: so does the supervisor.                       *)
SupervisorEnds ==
    /\ sup = "join"
    /\ wpc = "off"
    /\ ~dump
    /\ sup' = "ended"
    /\ UNCHANGED <<queue, guiVars, inputs, wpc, dump, task, ctxVars, sess,
                   orphan, vmVars, sink, lost, diverged>>

(* A panic, of the compiler say, unwinds out of run_drain_loop and drops   *)
(* Session and context; run_ide_worker reports it and boots again.         *)
Panic ==
    /\ "panic" \in Faults
    /\ wpc = "compile"
    /\ wpc' = "unwind"
    /\ UNCHANGED <<queue, guiVars, inputs, sup, dump, task, ctxVars, sess,
                   orphan, vmVars, sink, lost, diverged>>

(* A hardware fault: the VEH redirects the thread to ExitThread.  Nothing  *)
(* is unwound, so the Session is never dropped.                            *)
Seh ==
    /\ "seh" \in Faults
    /\ wpc = "compile"
    /\ dump' = TRUE
    /\ orphan' = TRUE
    /\ sess' = "none"
    /\ task' = NoTask
    /\ wpc' = "off"
    /\ UNCHANGED <<queue, guiVars, inputs, sup, ctxVars, vmVars, sink, lost,
                   diverged>>

-----------------------------------------------------------------------------
(* run_drain_loop *)

NextEvent(k) == wpc = "idle" /\ queue # << >> /\ Head(queue).kind = k

(* handle_eval: output goes to the console.                                *)
HandleEval ==
    /\ NextEvent("EvalBuffer")
    /\ queue' = Tail(queue)
    /\ task' = [from |-> Console, src |-> Head(queue).src]
    /\ sink' = Console
    /\ wpc' = "compile"
    /\ UNCHANGED <<guiVars, inputs, sup, dump, ctxVars, sess, orphan, vmVars,
                   lost, diverged>>

(* Mutant of HandleSubmit: the input is looked at and left in the queue.   *)
MutPeekInput ==
    /\ NextEvent("ReplSubmit")
    /\ queue' = Tail(queue)
    /\ LET p == Head(queue).pane IN
         /\ inputs[p] # << >>
         /\ task' = [from |-> p, src |-> Head(inputs[p])]
         /\ sink' = p
    /\ wpc' = "compile"
    /\ UNCHANGED <<guiVars, inputs, sup, dump, ctxVars, sess, orphan, vmVars,
                   lost, diverged>>

(* handle_eval_repl: the pane's oldest input, output goes to the pane.     *)
HandleSubmit ==
    /\ NextEvent("ReplSubmit")
    /\ queue' = Tail(queue)
    /\ LET p == Head(queue).pane IN
         /\ inputs[p] # << >>
         /\ inputs' = [inputs EXCEPT ![p] = Tail(@)]
         /\ task' = [from |-> p, src |-> Head(inputs[p])]
         /\ sink' = p
    /\ wpc' = "compile"
    /\ UNCHANGED <<guiVars, sup, dump, ctxVars, sess, orphan, vmVars, lost,
                   diverged>>

(* The pane has no input left: the turn is over, without CheckSession.     *)
SkipSubmit ==
    /\ NextEvent("ReplSubmit")
    /\ inputs[Head(queue).pane] = << >>
    /\ queue' = Tail(queue)
    /\ UNCHANGED <<guiVars, inputs, wpc, sup, dump, task, ctxVars, sess, orphan,
                   vmVars, sink, lost, diverged>>

(* ForthRestart: the Session is dropped.                                   *)
HandleRestart ==
    /\ NextEvent("ForthRestart")
    /\ queue' = Tail(queue)
    /\ wpc' = "restart"
    /\ UNCHANGED <<guiVars, inputs, sup, dump, task, ctxVars, sess, orphan,
                   vmVars, sink, lost, diverged>>

(* FrameClose: the drain loop returns, which drops the Session, and with   *)
(* it the worker.                                                          *)
HandleFrameClose ==
    /\ NextEvent("FrameClose")
    /\ queue' = Tail(queue)
    /\ wpc' = "close"
    /\ UNCHANGED <<guiVars, inputs, sup, dump, task, ctxVars, sess, orphan,
                   vmVars, sink, lost, diverged>>

-----------------------------------------------------------------------------
(* Drop for Session *)

(* Mutant of RestartDropped: the context survives the restart.             *)
MutRestartKeepsContext ==
    /\ wpc = "restart"
    /\ sess' = "none"
    /\ diverged' = FALSE
    /\ wpc' = "reboot"
    /\ UNCHANGED <<queue, guiVars, inputs, sup, dump, task, ctxVars, orphan,
                   vmVars, sink, lost>>

(* Mutant of RestartDropped: the editor's snapshot is not published.       *)
MutRestartUnpublished ==
    /\ wpc = "restart"
    /\ sess' = "none"
    /\ diverged' = FALSE
    /\ words' = {} /\ included' = {}
    /\ wpc' = "reboot"
    /\ UNCHANGED <<queue, guiVars, inputs, sup, dump, task, snapshot, orphan,
                   vmVars, sink, lost>>

(* Mutant of RestartDropped: the boot that follows is forgotten.           *)
MutRestartNoBoot ==
    /\ wpc = "restart"
    /\ sess' = "none"
    /\ diverged' = FALSE
    /\ words' = {} /\ included' = {} /\ snapshot' = {}
    /\ wpc' = "idle"
    /\ UNCHANGED <<queue, guiVars, inputs, sup, dump, task, orphan, vmVars,
                   sink, lost>>

(* The drop of a restart returns: reset and publish the context, and boot. *)
RestartDropped ==
    /\ wpc = "restart"
    /\ sess' = "none"
    /\ diverged' = FALSE
    /\ words' = {} /\ included' = {} /\ snapshot' = {}
    /\ wpc' = "reboot"
    /\ UNCHANGED <<queue, guiVars, inputs, sup, dump, task, orphan, vmVars,
                   sink, lost>>

(* Where the drain loop, or run_ide_worker, goes on after another drop.    *)
AfterDrop == [replace |-> "reboot", unwind |-> "boot", close |-> "off"]

(* Another drop returns: the worker has been joined, or, after a timeout,  *)
(* is left behind.                                                         *)
SessionDropped ==
    /\ wpc \in DOMAIN AfterDrop
    /\ sess' = "none"
    /\ zombies' = IF sess = "stuck" THEN zombies \cup {task.from} ELSE zombies
    /\ task' = NoTask
    /\ wpc' = AfterDrop[wpc]
    /\ UNCHANGED <<queue, guiVars, inputs, sup, dump, ctxVars, orphan, dict, vm,
                   linebuf, shown, sink, lost, diverged>>

(* A worker left behind by an earlier Session takes the __exit__, or keeps *)
(* the CURRENT mutex: the join, or clear_current, never returns.           *)
DropHangs ==
    /\ wpc \in Dropping
    /\ zombies # {}
    /\ wpc' = "hung"
    /\ UNCHANGED <<queue, guiVars, inputs, sup, dump, task, ctxVars, sess,
                   orphan, vmVars, sink, lost, diverged>>

-----------------------------------------------------------------------------
(* compile_in_context *)

(* What expand_needs splices in: nothing for a file already included.      *)
Spliced(s) ==
    IF s.need = NoFile \/ s.need \in included THEN {} ELSE FileWords[s.need]

(* The names the merged program defines.                                   *)
Defines(s) == s.defs \cup Spliced(s)

(* lex and parse succeed, a file to be included can be read, and every     *)
(* name used is known.                                                     *)
Compiles(s) ==
    /\ s.lexes
    /\ s.need \in included \/ s.need \notin Missing
    /\ s.uses \subseteq words \cup Defines(s)

(* The include-once key is inserted before the file is read.               *)
IncludeKey(s) ==
    included' = IF s.lexes /\ s.need # NoFile
                THEN included \cup {s.need} ELSE included

(* lex, parse, NEEDS or resolve fails: an error line, no eval.             *)
CompileFails ==
    /\ wpc = "compile"
    /\ ~Compiles(task.src)
    /\ IncludeKey(task.src)
    /\ task' = NoTask
    /\ wpc' = "check"
    /\ UNCHANGED <<queue, guiVars, inputs, sup, dump, words, snapshot, sess,
                   orphan, vmVars, sink, lost, diverged>>

(* The names are merged into the context, the snapshot is published and    *)
(* session.eval sends the code to the VM.                                  *)
CompileAndSend ==
    /\ wpc = "compile"
    /\ Compiles(task.src)
    /\ IncludeKey(task.src)
    /\ words' = words \cup Defines(task.src)
    /\ snapshot' = words \cup Defines(task.src)
    /\ task' = [task EXCEPT !.src.defs = Defines(task.src),
                            !.src.need = NoFile]
    /\ vm' = "parse"
    /\ wpc' = "eval"
    /\ UNCHANGED <<queue, guiVars, inputs, sup, dump, sess, orphan, dict,
                   linebuf, zombies, shown, sink, lost, diverged>>

-----------------------------------------------------------------------------
(* The VM of the Session, and the eval that waits for it *)

(* parse-string: the definitions take effect, if every name the code       *)
(* refers to is in the dictionary.                                         *)
VmParses ==
    /\ vm = "parse"
    /\ dict' = IF task.src.uses \subseteq dict \cup task.src.defs
               THEN dict \cup task.src.defs ELSE dict
    /\ vm' = "run"
    /\ UNCHANGED <<queue, guiVars, inputs, wpc, sup, dump, task, ctxVars, sess,
                   orphan, linebuf, zombies, shown, sink, lost, diverged>>

(* parse-string is interrupted or refuses the code: nothing is defined.    *)
VmRejects ==
    /\ "reject" \in Faults
    /\ vm = "parse"
    /\ vm' = "run"
    /\ diverged' = TRUE
    /\ UNCHANGED <<queue, guiVars, inputs, wpc, sup, dump, task, ctxVars, sess,
                   orphan, dict, linebuf, zombies, shown, sink, lost>>

(* on_write of a byte that is no newline: the line buffer grows.           *)
VmWrites ==
    /\ vm = "run"
    /\ linebuf' = linebuf \cup {task.from}
    /\ UNCHANGED <<queue, guiVars, inputs, wpc, sup, dump, task, ctxVars, sess,
                   orphan, dict, vm, zombies, shown, sink, lost, diverged>>

(* deliver_line: the line buffer goes to the sink of the moment.           *)
Deliver == shown' = shown \cup (linebuf \X {sink}) /\ linebuf' = {}

(* on_write of a newline.                                                  *)
VmNewline ==
    /\ vm = "run"
    /\ Deliver
    /\ UNCHANGED <<queue, guiVars, inputs, wpc, sup, dump, task, ctxVars, sess,
                   orphan, dict, vm, zombies, sink, lost, diverged>>

VmDone ==
    /\ vm = "run"
    /\ vm' = "done"
    /\ UNCHANGED <<queue, guiVars, inputs, wpc, sup, dump, task, ctxVars, sess,
                   orphan, dict, linebuf, zombies, shown, sink, lost, diverged>>

(* The dispatcher calls on_flush...                                        *)
Flush ==
    /\ vm = "done"
    /\ Deliver
    /\ vm' = "flushed"
    /\ UNCHANGED <<queue, guiVars, inputs, wpc, sup, dump, task, ctxVars, sess,
                   orphan, dict, zombies, sink, lost, diverged>>

(* Mutant of EvalReturns: the reply is sent before the flush.              *)
MutReplyBeforeFlush ==
    /\ wpc = "eval"
    /\ vm \in {"done", "flushed"}
    /\ vm' = IF vm = "flushed" THEN "idle" ELSE vm
    /\ task' = NoTask
    /\ wpc' = "check"
    /\ UNCHANGED <<queue, guiVars, inputs, sup, dump, ctxVars, sess, orphan,
                   dict, linebuf, zombies, shown, sink, lost, diverged>>

(* ... and then sends the reply: session.eval returns Ok.                  *)
EvalReturns ==
    /\ wpc = "eval"
    /\ vm = "flushed"
    /\ vm' = "idle"
    /\ task' = NoTask
    /\ wpc' = "check"
    /\ UNCHANGED <<queue, guiVars, inputs, sup, dump, ctxVars, sess, orphan,
                   dict, linebuf, zombies, shown, sink, lost, diverged>>

(* session.eval returns WorkerDied: the worker has gone, or the timeout    *)
(* and the grace period have elapsed, at whatever the VM or the dispatcher *)
(* is.                                                                     *)
EvalDies ==
    /\ "death" \in Faults
    /\ wpc = "eval"
    /\ sess' \in {"dead", "stuck"}
    /\ vm' = "idle"
    /\ wpc' = "check"
    /\ UNCHANGED <<queue, guiVars, inputs, sup, dump, task, ctxVars, orphan,
                   dict, linebuf, zombies, shown, sink, lost, diverged>>

(* The end of a turn of the drain loop: a dead Session is to be dropped    *)
(* and another one booted, with the context as it is.                      *)
CheckSession ==
    /\ wpc = "check"
    /\ wpc' = IF sess \in {"dead", "stuck"} THEN "replace" ELSE "idle"
    /\ diverged' = IF sess \in {"dead", "stuck"} THEN TRUE ELSE diverged
    /\ UNCHANGED <<queue, guiVars, inputs, sup, dump, task, ctxVars, sess,
                   orphan, vmVars, sink, lost>>

-----------------------------------------------------------------------------
(* Zombies: what is left of Sessions that timed out.  A worker left behind *)
(* looks up CURRENT in each of its callbacks, so it writes to, takes       *)
(* commands of, and signals for the Session there is now; its dispatcher   *)
(* still has the old line buffer to flush.  Whether and when they act is   *)
(* open, and so is whether they ever end.                                  *)

(* nf_rt_write_char of a zombie: into the line buffer of CURRENT.          *)
ZombieWrites ==
    /\ sess # "none" \/ orphan
    /\ \/ /\ \E o \in zombies : linebuf' = linebuf \cup {o}
          /\ UNCHANGED shown
       \/ zombies # {} /\ Deliver
    /\ UNCHANGED <<queue, guiVars, inputs, wpc, sup, dump, task, ctxVars, sess,
                   orphan, dict, vm, zombies, sink, lost, diverged>>

(* Its dispatcher is done waiting and flushes the line buffer of old, to   *)
(* the sink of now.                                                        *)
ZombieFlushes ==
    /\ \E o \in zombies : shown' = shown \cup {<<o, sink>>}
    /\ UNCHANGED <<queue, guiVars, inputs, wpc, sup, dump, task, ctxVars, sess,
                   orphan, dict, vm, linebuf, zombies, sink, lost, diverged>>

(* nf_rt_next_command of a zombie takes the task: it is run in another VM, *)
(* whose dictionary gets the definitions.                                  *)
ZombieTakes ==
    /\ zombies # {}
    /\ vm = "parse"
    /\ vm' = "run"
    /\ diverged' = TRUE
    /\ UNCHANGED <<queue, guiVars, inputs, wpc, sup, dump, task, ctxVars, sess,
                   orphan, dict, linebuf, zombies, shown, sink, lost>>

(* nf_rt_command_done of a zombie answers for the task, which the VM is    *)
(* still at or has not taken.  It comes to define what it defines or, if   *)
(* the next command overwrites it in the slot, not; and from now on it is  *)
(* itself out of step, and writes and signals when nobody expects it.      *)
ZombieSignals ==
    /\ zombies # {}
    /\ vm \in {"parse", "run"}
    /\ vm' = "done"
    /\ dict' \in {dict, dict \cup task.src.defs}
    /\ diverged' = TRUE
    /\ zombies' = zombies \cup {task.from}
    /\ UNCHANGED <<queue, guiVars, inputs, wpc, sup, dump, task, ctxVars, sess,
                   orphan, linebuf, shown, sink, lost>>

-----------------------------------------------------------------------------
User ==
    \/ \E s \in Sources : Request("EvalBuffer", s)
    \/ \E k \in {"ForthRestart", "FrameClose"} : Request(k, NoTask.src)
    \/ \E p \in Panes, s \in Sources : Submit(p, s)
    \/ \E p \in Panes : ClosePane(p)

Drain ==
    \/ HandleEval \/ HandleSubmit \/ SkipSubmit
    \/ HandleRestart \/ HandleFrameClose
    \/ CompileFails \/ CompileAndSend \/ CheckSession \/ EvalReturns
    \/ RestartDropped \/ SessionDropped

Supervise == Boot \/ Reboot \/ Respawn \/ SupervisorEnds

Vm == VmParses \/ VmDone \/ Flush

Zombie == ZombieWrites \/ ZombieFlushes \/ ZombieTakes \/ ZombieSignals

Next ==
    \/ User \/ Announce \/ Drain \/ Supervise \/ Vm
    \/ BootFails \/ Panic \/ Seh \/ DropHangs
    \/ VmRejects \/ VmWrites \/ VmNewline \/ EvalDies \/ Zombie

(* The threads run; an eval ends, by its timeout at the latest             *)
(* (Session!EvalReturns), and a drop returns if no zombie keeps it from it *)
(* (Session!DropReturns, Session!CurrentComesFree).  Nothing is assumed of *)
(* the user, of the faults and of the zombies.                             *)
Fairness ==
    /\ WF_vars(Announce)
    /\ WF_vars(Drain)
    /\ WF_vars(Supervise)
    /\ WF_vars(Vm \/ EvalDies)

Spec == Init /\ [][Next]_vars
FairSpec == Spec /\ Fairness

-----------------------------------------------------------------------------
(* Properties *)

(* Two evals' worth of state agree at the prompt: every name the compiler  *)
(* takes for defined is in the dictionary of the VM the next eval runs on, *)
(* through restarts and panics, unless since the last restart the VM       *)
(* refused a program, the context was carried over a Session's death, or a *)
(* zombie took or answered for a program.                                  *)
ContextInLockstep == wpc = "idle" /\ ~diverged => words \subseteq dict

(* The F7 checker reads the context the next eval will be compiled with.   *)
SnapshotIsCurrent == wpc = "idle" => snapshot = words

(* Text is shown in the pane whose eval wrote it, although the sink is one *)
(* global that every eval sets and partial lines wait in a buffer: the     *)
(* buffer is flushed before the reply that lets the next eval set the      *)
(* sink.  From the first drop of a timed-out Session on this is not so.    *)
OutputToItsPane == zombies = {} => \A d \in shown : d[1] = d[2]

(* ReplSubmit events of a pane still queued, the one the GUI thread is     *)
(* about to push included.                                                 *)
Submits(p) ==
    Cardinality({i \in DOMAIN queue :
                   queue[i].kind = "ReplSubmit" /\ queue[i].pane = p})
    + (IF gui = p THEN 1 ELSE 0)

(* Inputs and the events that announce them stay in step, so each submit   *)
(* evaluates its own input, as long as the mailbox dropped none of them.   *)
SubmitsMatchInputs ==
    \A p \in open \ lost : Len(inputs[p]) = Submits(p)

(* A restart that got into the mailbox is taken out of it, whatever is     *)
(* queued ahead of it and whatever dies or panics in between, and a drain  *)
(* loop that drops its Session, or has none, comes back with a live one,   *)
(* unless the frame was closed, no Session boots, a fault left an          *)
(* undropped Session behind, or a zombie keeps a drop from returning.      *)
RestartServed ==
    LET queued == \E i \in DOMAIN queue : queue[i].kind = "ForthRestart"
        over == sup = "ended" \/ orphan \/ wpc = "hung"
    IN /\ queued ~> ~queued \/ over
       /\ (wpc \in Dropping \/ sess = "none")
             ~> (wpc = "idle" /\ sess = "live") \/ over
=============================================================================

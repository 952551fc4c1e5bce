-------------------------- MODULE IdeWorkerProofs --------------------------
(***************************************************************************)
(* What IdeWorker promises, for every set of words, files, programs and    *)
(* panes, every mailbox capacity and every choice of faults: the compile   *)
(* context agrees with the VM's dictionary at the prompt, the editor's     *)
(* snapshot is the context, output reaches the pane that asked for it, and *)
(* the ReplSubmit events of a pane count its inputs.                       *)
(*                                                                         *)
(* None of the four is inductive.  What the context claims has to be       *)
(* followed through the compile, the parse on the VM and the reply         *)
(* (LockstepInv), what is in the line buffer through the run, the flush    *)
(* and the reply (OutputInv), and both need to know that the VM works      *)
(* exactly while session.eval waits for it (VmInv).                        *)
(***************************************************************************)
EXTENDS IdeWorker, SequenceTheorems, FiniteSetTheorems, TLAPS

(* The VM has a task exactly while session.eval waits for it.              *)
VmInv == (wpc = "eval") <=> (vm # "idle")

(* Only a pane's own Enter pushes a ReplSubmit.                            *)
QueueInv ==
    \A i \in DOMAIN queue : queue[i].kind = "ReplSubmit" => queue[i].pane \in Panes

(* What the compiler takes for defined, from the prompt through the eval   *)
(* to the next prompt.                                                     *)
LockstepInv ==
    ~diverged =>
      /\ wpc \in {"idle", "compile"} => words \subseteq dict
      /\ wpc = "check" /\ sess \notin {"dead", "stuck"} => words \subseteq dict
      /\ wpc # "replace"
      /\ wpc = "reboot" => words = {}
      /\ vm = "parse" => /\ words \subseteq dict \cup task.src.defs
                         /\ task.src.uses \subseteq dict \cup task.src.defs
      /\ vm \in {"run", "done", "flushed"} => words \subseteq dict

(* Whose text waits in the line buffer, and where the sink sends it.       *)
OutputInv ==
    zombies = {} =>
      /\ \A d \in shown : d[1] = d[2]
      /\ wpc \in {"idle", "compile"} => linebuf = {}
      /\ wpc = "check" /\ sess \notin {"dead", "stuck"} => linebuf = {}
      /\ wpc = "compile" => sink = task.from
      /\ vm # "idle" => sink = task.from /\ linebuf \subseteq {task.from}
      /\ vm = "flushed" => linebuf = {}

IInv ==
    /\ TypeOK
    /\ VmInv
    /\ QueueInv
    /\ snapshot = words
    /\ LockstepInv
    /\ OutputInv
    /\ SubmitsMatchInputs

-----------------------------------------------------------------------------
(* What the mailbox and the compiler hand on *)

(* Every event of the mailbox, and its end, after a push and after a pop.  *)
QueuedEvents == [kind: Kinds, pane: Sinks, src: Programs]

LEMMA PushedType ==
    ASSUME TypeOK, NEW e \in QueuedEvents
    PROVE  /\ Pushed(e) \in Seq(QueuedEvents)
           /\ Len(Pushed(e)) <= Capacity
  <1>1. /\ queue \in Seq(QueuedEvents) /\ Len(queue) <= Capacity
        /\ Capacity \in Nat
    BY IdeAssumption DEF TypeOK, QueuedEvents
  <1> QED
    BY <1>1 DEF Pushed

LEMMA TailType ==
    ASSUME TypeOK, queue # << >>
    PROVE  /\ Tail(queue) \in Seq(QueuedEvents)
           /\ Len(Tail(queue)) <= Capacity
           /\ Head(queue) \in QueuedEvents
           /\ Head(queue) = queue[1]
           /\ 1 \in DOMAIN queue
  <1>1. /\ queue \in Seq(QueuedEvents) /\ Len(queue) <= Capacity
        /\ Capacity \in Nat
    BY IdeAssumption DEF TypeOK, QueuedEvents
  <1> QED
    BY <1>1

LEMMA NoTaskType == NoTask \in [from: Sinks, src: Programs]
  BY DEF NoTask, Sinks, Programs

LEMMA DefinesType ==
    ASSUME NEW s \in Programs
    PROVE  Defines(s) \subseteq Words
  <1>1. s.need \in Files \cup {NoFile} /\ s.defs \subseteq Words
    BY DEF Programs
  <1>2. Spliced(s) \subseteq Words
    BY <1>1, IdeAssumption DEF Spliced
  <1> QED
    BY <1>1, <1>2 DEF Defines

LEMMA IncludeKeyType ==
    ASSUME TypeOK, NEW s \in Programs, IncludeKey(s)
    PROVE  included' \subseteq Files
  BY DEF TypeOK, IncludeKey, Programs

-----------------------------------------------------------------------------
(* The variables keep their shapes *)

LEMMA InitType == Init => TypeOK
  <1> SUFFICES ASSUME Init PROVE TypeOK
    OBVIOUS
  <1>1. /\ queue \in Seq([kind: Kinds, pane: Sinks, src: Programs])
        /\ Len(queue) <= Capacity
        /\ made \in 0..MaxEvents
    BY IdeAssumption DEF Init
  <1>2. /\ gui \in Panes \cup {Console}
        /\ open \subseteq Panes
        /\ inputs \in [Panes -> Seq(Sources)]
    BY DEF Init
  <1>3. /\ sink \in Sinks
        /\ task \in [from: Sinks, src: Programs]
    BY NoTaskType DEF Init, Sinks
  <1> QED
    BY <1>1, <1>2, <1>3 DEF Init, TypeOK

LEMMA UserType ==
    ASSUME TypeOK, QueueInv, User \/ Announce
    PROVE  TypeOK'
  <1>1. ASSUME NEW k \in Kinds, NEW s \in Programs, Request(k, s)
        PROVE  TypeOK'
    <2>1. Event(k, Console, s) \in QueuedEvents
      BY DEF Event, QueuedEvents, Sinks
    <2>2. queue' \in Seq(QueuedEvents) /\ Len(queue') <= Capacity
      BY <1>1, <2>1, PushedType DEF Request
    <2>3. made' \in 0..MaxEvents
      BY <1>1, IdeAssumption DEF Request, TypeOK
    <2> QED
      BY <1>1, <2>2, <2>3 DEF Request, TypeOK, ctxVars, vmVars, QueuedEvents
  <1>2. ASSUME NEW p \in Panes, NEW s \in Sources, Submit(p, s)
        PROVE  TypeOK'
    <2>1. inputs' \in [Panes -> Seq(Sources)]
      BY <1>2 DEF Submit, TypeOK
    <2>2. made' \in 0..MaxEvents
      BY <1>2, IdeAssumption DEF Submit, TypeOK
    <2> QED
      BY <1>2, <2>1, <2>2 DEF Submit, TypeOK, ctxVars, vmVars
  <1>3. ASSUME NEW p \in Panes, ClosePane(p)
        PROVE  TypeOK'
    <2>1. inputs' \in [Panes -> Seq(Sources)]
      BY <1>3 DEF ClosePane, TypeOK
    <2> QED
      BY <1>3, <2>1 DEF ClosePane, TypeOK, ctxVars, vmVars
  <1>4. CASE Announce
    <2>1. gui \in Panes
      BY <1>4 DEF Announce, TypeOK
    <2>2. Event("ReplSubmit", gui, NoTask.src) \in QueuedEvents
      BY <2>1, NoTaskType DEF Event, QueuedEvents, Sinks, Kinds
    <2>3. queue' \in Seq(QueuedEvents) /\ Len(queue') <= Capacity
      BY <1>4, <2>2, PushedType DEF Announce
    <2> QED
      BY <1>4, <2>1, <2>3 DEF Announce, TypeOK, ctxVars, vmVars, QueuedEvents
  <1>5. NoTask.src \in Programs
    BY NoTaskType
  <1>6. Sources \subseteq Programs
    BY IdeAssumption
  <1> QED
    BY <1>1, <1>2, <1>3, <1>4, <1>5, <1>6 DEF User, Kinds

LEMMA DrainType ==
    ASSUME TypeOK, QueueInv, Drain
    PROVE  TypeOK'
  <1> USE DEF TypeOK, ctxVars, vmVars, guiVars, Dropping
  <1>1. CASE HandleEval
    <2>1. queue # << >> /\ queue' = Tail(queue)
      BY <1>1 DEF HandleEval, NextEvent
    <2>2. task' \in [from: Sinks, src: Programs] /\ sink' \in Sinks
      BY <1>1, <2>1, TailType DEF HandleEval, QueuedEvents, Sinks
    <2> QED
      BY <1>1, <2>1, <2>2, TailType DEF HandleEval, QueuedEvents
  <1>2. CASE HandleSubmit
    <2> DEFINE p == Head(queue).pane
    <2>1. queue # << >> /\ queue' = Tail(queue)
      BY <1>2 DEF HandleSubmit, NextEvent
    <2>2. p \in Panes
      BY <1>2, <2>1, TailType DEF HandleSubmit, NextEvent, QueueInv
    <2>3. /\ inputs[p] # << >>
          /\ inputs' = [inputs EXCEPT ![p] = Tail(@)]
          /\ task' = [from |-> p, src |-> Head(inputs[p])]
          /\ sink' = p
      BY <1>2 DEF HandleSubmit
    <2> HIDE DEF p
    <2>4. /\ inputs[p] \in Seq(Sources) /\ Head(inputs[p]) \in Programs
          /\ Tail(inputs[p]) \in Seq(Sources)
      BY <2>2, <2>3, IdeAssumption
    <2>5. task' \in [from: Sinks, src: Programs] /\ sink' \in Sinks
      BY <2>2, <2>3, <2>4 DEF Sinks
    <2>6. inputs' \in [Panes -> Seq(Sources)]
      BY <2>2, <2>3, <2>4
    <2> QED
      BY <1>2, <2>1, <2>5, <2>6, TailType DEF HandleSubmit, QueuedEvents
  <1>3. CASE SkipSubmit
    <2>1. queue # << >> /\ queue' = Tail(queue)
      BY <1>3 DEF SkipSubmit, NextEvent
    <2> QED
      BY <1>3, <2>1, TailType DEF SkipSubmit, QueuedEvents
  <1>4. CASE HandleRestart
    <2>1. queue # << >> /\ queue' = Tail(queue)
      BY <1>4 DEF HandleRestart, NextEvent
    <2> QED
      BY <1>4, <2>1, TailType DEF HandleRestart, QueuedEvents
  <1>5. CASE HandleFrameClose
    <2>1. queue # << >> /\ queue' = Tail(queue)
      BY <1>5 DEF HandleFrameClose, NextEvent
    <2> QED
      BY <1>5, <2>1, TailType DEF HandleFrameClose, QueuedEvents
  <1>6. CASE CompileFails
    <2>1. included' \subseteq Files
      BY <1>6, IncludeKeyType DEF CompileFails
    <2> QED
      BY <1>6, <2>1, NoTaskType DEF CompileFails
  <1>7. CASE CompileAndSend
    <2>1. included' \subseteq Files
      BY <1>7, IncludeKeyType DEF CompileAndSend
    <2>2. Defines(task.src) \subseteq Words
      BY DefinesType
    <2>3. task' \in [from: Sinks, src: Programs]
      BY <1>7, <2>2 DEF CompileAndSend, Programs
    <2> QED
      BY <1>7, <2>1, <2>2, <2>3 DEF CompileAndSend
  <1>8. CASE CheckSession
    BY <1>8 DEF CheckSession
  <1>9. CASE EvalReturns
    BY <1>9, NoTaskType DEF EvalReturns
  <1>10. CASE RestartDropped
    BY <1>10 DEF RestartDropped
  <1>11. CASE SessionDropped
    <2>1. zombies' \subseteq Sinks
      BY <1>11 DEF SessionDropped
    <2>2. wpc' \in {"reboot", "boot", "off"}
      BY <1>11 DEF SessionDropped, AfterDrop
    <2> QED
      BY <1>11, <2>1, <2>2, NoTaskType DEF SessionDropped
  <1> QED
    BY <1>1, <1>2, <1>3, <1>4, <1>5, <1>6, <1>7, <1>8, <1>9, <1>10, <1>11
       DEF Drain

(* The steps of neither the user nor the drain loop.                       *)
Other ==
    \/ Supervise \/ Vm \/ BootFails \/ Panic \/ Seh \/ DropHangs
    \/ VmRejects \/ VmWrites \/ VmNewline \/ EvalDies \/ Zombie

LEMMA OtherType ==
    ASSUME TypeOK, Other
    PROVE  TypeOK'
  <1> USE DEF TypeOK, ctxVars, vmVars, guiVars, Dropping
  <1>1. CASE Boot
    BY <1>1 DEF Boot, FreshVm
  <1>2. CASE Reboot
    BY <1>2 DEF Reboot, FreshVm
  <1>3. CASE Respawn
    BY <1>3 DEF Respawn
  <1>4. CASE SupervisorEnds
    BY <1>4 DEF SupervisorEnds
  <1>5. CASE BootFails
    BY <1>5 DEF BootFails
  <1>6. CASE Panic
    BY <1>6, NoTaskType DEF Panic
  <1>7. CASE Seh
    BY <1>7, NoTaskType DEF Seh
  <1>8. CASE VmParses
    <2>1. task.src.defs \subseteq Words
      BY DEF Programs
    <2> QED
      BY <1>8, <2>1 DEF VmParses
  <1>9. CASE VmRejects
    BY <1>9 DEF VmRejects
  <1>10. CASE VmWrites
    <2>1. task.from \in Sinks
      OBVIOUS
    <2> QED
      BY <1>10, <2>1 DEF VmWrites
  <1>11. CASE VmNewline
    <2>1. linebuf \X {sink} \subseteq Sinks \X Sinks
      OBVIOUS
    <2> QED
      BY <1>11, <2>1 DEF VmNewline, Deliver
  <1>12. CASE VmDone
    BY <1>12 DEF VmDone
  <1>13. CASE Flush
    <2>1. linebuf \X {sink} \subseteq Sinks \X Sinks
      OBVIOUS
    <2> QED
      BY <1>13, <2>1 DEF Flush, Deliver
  <1>14. CASE ZombieWrites
    <2>1. linebuf \X {sink} \subseteq Sinks \X Sinks
      OBVIOUS
    <2> QED
      BY <1>14, <2>1 DEF ZombieWrites, Deliver
  <1>15. CASE EvalDies
    BY <1>15 DEF EvalDies
  <1>16. CASE DropHangs
    BY <1>16 DEF DropHangs
  <1>17. CASE ZombieFlushes
    BY <1>17 DEF ZombieFlushes
  <1>18. CASE ZombieTakes
    BY <1>18 DEF ZombieTakes
  <1>19. CASE ZombieSignals
    <2>1. task.from \in Sinks /\ task.src.defs \subseteq Words
      BY DEF Programs
    <2> QED
      BY <1>19, <2>1 DEF ZombieSignals
  <1> QED
    BY <1>1, <1>2, <1>3, <1>4, <1>5, <1>6, <1>7, <1>8, <1>9, <1>10, <1>11,
       <1>12, <1>13, <1>14, <1>15, <1>16, <1>17, <1>18, <1>19
       DEF Other, Supervise, Vm, Zombie

LEMMA NextCases == Next <=> (User \/ Announce \/ Drain \/ Other)
  BY DEF Next, Other

LEMMA TypeStep ==
    ASSUME TypeOK, QueueInv, [Next]_vars
    PROVE  TypeOK'
  <1>1. CASE UNCHANGED vars
    BY <1>1 DEF vars, guiVars, ctxVars, vmVars, TypeOK
  <1> QED
    BY <1>1, UserType, DrainType, OtherType, NextCases

-----------------------------------------------------------------------------
(* The mailbox holds what was pushed, in order *)

LEMMA QueueStep ==
    ASSUME TypeOK, QueueInv, [Next]_vars
    PROVE  QueueInv'
  <1> USE DEF QueueInv
  <1>q. queue \in Seq(QueuedEvents)
    BY DEF TypeOK, QueuedEvents
  <1>1. CASE queue' = queue
    BY <1>1
  <1>2. CASE queue # << >> /\ queue' = Tail(queue)
    BY <1>q, <1>2
  <1>3. ASSUME NEW e, queue' = Pushed(e),
               e.kind = "ReplSubmit" => e.pane \in Panes
        PROVE  QueueInv'
    BY <1>q, <1>3 DEF Pushed
  <1>4. ASSUME NEW k \in {"EvalBuffer", "ForthRestart", "FrameClose"}, NEW s,
               Request(k, s)
        PROVE  QueueInv'
    BY <1>3, <1>4 DEF Request, Event
  <1>5. CASE Announce
    <2>1. gui \in Panes
      BY <1>5 DEF Announce, TypeOK
    <2> QED
      BY <1>3, <1>5, <2>1 DEF Announce, Event
  <1>6. ASSUME NEW p, NEW s, Submit(p, s) \/ ClosePane(p)
        PROVE  queue' = queue
    BY <1>6 DEF Submit, ClosePane
  <1>7. CASE Drain
    BY <1>1, <1>2, <1>7 DEF Drain, NextEvent, HandleEval, HandleSubmit, SkipSubmit, HandleRestart,
       HandleFrameClose, CompileFails, CompileAndSend, CheckSession,
       EvalReturns, RestartDropped, SessionDropped
  <1>8. CASE Other
    BY <1>1, <1>8 DEF Other, Supervise, Vm, Boot, Reboot, Respawn,
       SupervisorEnds, VmParses, VmDone, Flush, BootFails, Panic, Seh,
       DropHangs, VmRejects, VmWrites, VmNewline, EvalDies, Zombie,
       ZombieWrites, ZombieFlushes, ZombieTakes, ZombieSignals
  <1>9. CASE UNCHANGED vars
    BY <1>1, <1>9 DEF vars
  <1> QED
    BY <1>1, <1>4, <1>5, <1>6, <1>7, <1>8, <1>9, NextCases DEF User

-----------------------------------------------------------------------------
(* The steps that leave worker, context and VM alone *)

(* What the user does, SkipSubmit and the supervisor's end change nothing  *)
(* that the worker's invariants speak of.                                  *)
Quiet == UNCHANGED <<wpc, task, words, snapshot, sess, dict, vm, sink,
                     linebuf, zombies, shown, diverged>>

LEMMA QuietSteps ==
    ASSUME User \/ Announce \/ SkipSubmit \/ SupervisorEnds \/ UNCHANGED vars
    PROVE  Quiet
  BY DEF User, Announce, SkipSubmit, SupervisorEnds, vars, Request, Submit,
     ClosePane, Quiet, guiVars, ctxVars, vmVars

(* What a program that compiles hands to the VM.                           *)
LEMMA SentTask ==
    ASSUME TypeOK, CompileAndSend
    PROVE  /\ task'.from = task.from
           /\ task'.src.defs = Defines(task.src)
           /\ task'.src.uses = task.src.uses
  <1>1. /\ task \in [from: Sinks, src: Programs]
        /\ task' = [task EXCEPT !.src.defs = Defines(task.src),
                                !.src.need = NoFile]
    BY DEF TypeOK, CompileAndSend
  <1> QED
    BY <1>1 DEF Programs

LEMMA VmStep ==
    ASSUME TypeOK, VmInv, [Next]_vars
    PROVE  VmInv'
  <1> USE DEF VmInv, ctxVars, vmVars
  <1>1. CASE Quiet
    BY <1>1 DEF Quiet
  <1>2. CASE HandleEval \/ HandleSubmit \/ HandleRestart \/ HandleFrameClose
    BY <1>2 DEF NextEvent, HandleEval, HandleSubmit, HandleRestart,
       HandleFrameClose
  <1>3. CASE \/ CompileFails \/ CompileAndSend \/ CheckSession \/ EvalReturns
             \/ RestartDropped
    BY <1>3 DEF CompileFails, CompileAndSend, CheckSession, EvalReturns,
       RestartDropped
  <1>4. CASE SessionDropped
    BY <1>4 DEF SessionDropped, AfterDrop
  <1>5. CASE Supervise \/ BootFails \/ Panic \/ Seh \/ DropHangs
    BY <1>1, <1>5, QuietSteps DEF Supervise, Boot, Reboot, Respawn, FreshVm,
       BootFails, Panic, Seh, DropHangs, Dropping
  <1>6. CASE Vm \/ VmRejects \/ VmWrites \/ VmNewline \/ EvalDies \/ Zombie
    BY <1>6 DEF Vm, VmParses, VmDone, Flush, VmRejects, VmWrites, VmNewline,
       EvalDies, Zombie, ZombieWrites, ZombieFlushes, ZombieTakes,
       ZombieSignals
  <1> QED
    BY <1>1, <1>2, <1>3, <1>4, <1>5, <1>6, NextCases, QuietSteps
       DEF Other, Drain

LEMMA SnapshotStep ==
    ASSUME snapshot = words, [Next]_vars
    PROVE  snapshot' = words'
  <1> USE DEF ctxVars, vmVars
  <1>1. CASE Quiet
    BY <1>1 DEF Quiet
  <1>2. CASE Drain
    BY <1>1, <1>2, QuietSteps DEF Drain, HandleEval, HandleSubmit,
       HandleRestart, HandleFrameClose, CompileFails, CompileAndSend,
       CheckSession, EvalReturns, RestartDropped, SessionDropped, AfterDrop
  <1>3. CASE Supervise \/ BootFails \/ Panic \/ Seh \/ DropHangs
    BY <1>1, <1>3, QuietSteps DEF Supervise, Boot, Reboot, Respawn, FreshVm,
       BootFails, Panic, Seh, DropHangs, Dropping
  <1>4. CASE Vm \/ VmRejects \/ VmWrites \/ VmNewline \/ EvalDies \/ Zombie
    BY <1>4 DEF Vm, VmParses, VmDone, Flush, VmRejects, VmWrites, VmNewline,
       EvalDies, Zombie, ZombieWrites, ZombieFlushes, ZombieTakes,
       ZombieSignals
  <1> QED
    BY <1>1, <1>2, <1>3, <1>4, NextCases, QuietSteps DEF Other

LEMMA LockstepStep ==
    ASSUME TypeOK, VmInv, LockstepInv, [Next]_vars
    PROVE  LockstepInv'
  <1> USE DEF VmInv, LockstepInv, ctxVars, vmVars
  <1>1. CASE Quiet
    BY <1>1 DEF Quiet
  <1>2. CASE HandleEval \/ HandleSubmit \/ HandleRestart \/ HandleFrameClose
    BY <1>2 DEF NextEvent, HandleEval, HandleSubmit, HandleRestart,
       HandleFrameClose
  <1>3. CASE CompileFails \/ EvalReturns \/ CheckSession
    BY <1>3 DEF CompileFails, EvalReturns, CheckSession
  <1>4. CASE CompileAndSend
    BY <1>4, SentTask DEF CompileAndSend, Compiles
  <1>5. CASE Boot \/ Reboot \/ Respawn
    BY <1>5 DEF Boot, Reboot, Respawn, FreshVm
  <1>6. CASE BootFails \/ Panic \/ Seh \/ DropHangs
    BY <1>6 DEF BootFails, Panic, Seh, DropHangs, Dropping
  <1>7. CASE VmParses
    BY <1>7 DEF VmParses
  <1>8. CASE VmDone \/ Flush \/ VmRejects \/ VmWrites \/ VmNewline
    BY <1>8 DEF VmDone, Flush, VmRejects, VmWrites, VmNewline
  <1>9. CASE EvalDies \/ Zombie
    BY <1>9 DEF EvalDies, Zombie, ZombieWrites, ZombieFlushes, ZombieTakes,
       ZombieSignals
  <1>10. CASE RestartDropped \/ SessionDropped
    BY <1>10 DEF RestartDropped, SessionDropped, AfterDrop
  <1> QED
    BY <1>1, <1>2, <1>3, <1>4, <1>5, <1>6, <1>7, <1>8, <1>9, <1>10, NextCases,
       QuietSteps DEF Other, Drain, Supervise, Vm

LEMMA OutputStep ==
    ASSUME TypeOK, VmInv, OutputInv, [Next]_vars
    PROVE  OutputInv'
  <1> USE DEF VmInv, OutputInv, ctxVars, vmVars
  <1>1. CASE Quiet
    BY <1>1 DEF Quiet
  <1>2. CASE HandleEval \/ HandleSubmit \/ HandleRestart \/ HandleFrameClose
    BY <1>2 DEF NextEvent, HandleEval, HandleSubmit, HandleRestart,
       HandleFrameClose
  <1>3. CASE CompileFails \/ EvalReturns \/ CheckSession
    BY <1>3 DEF CompileFails, EvalReturns, CheckSession
  <1>4. CASE CompileAndSend
    BY <1>4, SentTask DEF CompileAndSend
  <1>5. CASE Boot \/ Reboot \/ Respawn
    BY <1>5 DEF Boot, Reboot, Respawn, FreshVm
  <1>6. CASE BootFails \/ Panic \/ Seh \/ DropHangs
    BY <1>6 DEF BootFails, Panic, Seh, DropHangs, Dropping
  <1>7. CASE VmParses \/ VmRejects \/ VmDone \/ VmWrites
    BY <1>7 DEF VmParses, VmRejects, VmDone, VmWrites
  <1>8. CASE VmNewline \/ Flush
    <2>1. vm # "idle" /\ UNCHANGED <<wpc, sess, task, sink, zombies>>
      BY <1>8 DEF VmNewline, Flush
    <2>2. ASSUME zombies = {} PROVE \A d \in shown' : d[1] = d[2]
      <3>1. sink = task.from /\ linebuf \subseteq {task.from}
        BY <2>1, <2>2
      <3>2. shown' = shown \cup (linebuf \X {sink})
        BY <1>8 DEF VmNewline, Flush, Deliver
      <3> QED
        BY <2>2, <3>1, <3>2
    <2> QED
      BY <1>8, <2>1, <2>2 DEF VmNewline, Flush, Deliver
  <1>9. CASE Zombie
    BY <1>9 DEF Zombie, ZombieWrites, ZombieFlushes, ZombieTakes,
       ZombieSignals
  <1>10. CASE EvalDies
    BY <1>10 DEF EvalDies
  <1>11. CASE RestartDropped \/ SessionDropped
    BY <1>11 DEF RestartDropped, SessionDropped, AfterDrop
  <1> QED
    BY <1>1, <1>2, <1>3, <1>4, <1>5, <1>6, <1>7, <1>8, <1>9, <1>10, <1>11, NextCases,
       QuietSteps DEF Other, Drain, Supervise, Vm

-----------------------------------------------------------------------------
(* Inputs and the events that announce them *)

(* The places of the ReplSubmit events of pane p in a mailbox q.           *)
Queued(q, p) ==
    {i \in DOMAIN q : q[i].kind = "ReplSubmit" /\ q[i].pane = p}

LEMMA QueuedFinite ==
    ASSUME NEW q \in Seq(QueuedEvents), NEW p
    PROVE  IsFiniteSet(Queued(q, p)) /\ Cardinality(Queued(q, p)) \in Nat
  <1>1. Queued(q, p) \subseteq 1..Len(q) /\ Len(q) \in Nat
    BY DEF Queued
  <1>2. IsFiniteSet(1..Len(q))
    BY <1>1, FS_Interval
  <1>3. IsFiniteSet(Queued(q, p))
    BY <1>1, <1>2, FS_Subset
  <1> QED
    BY <1>3, FS_CardinalityType

LEMMA QueuedAppend ==
    ASSUME NEW q \in Seq(QueuedEvents), NEW e \in QueuedEvents, NEW p
    PROVE  Cardinality(Queued(Append(q, e), p)) =
             Cardinality(Queued(q, p))
             + (IF e.kind = "ReplSubmit" /\ e.pane = p THEN 1 ELSE 0)
  <1> DEFINE n == Len(q) + 1
             r == Append(q, e)
  <1>1. /\ Len(q) \in Nat /\ DOMAIN r = 1..n /\ DOMAIN q = 1..Len(q)
        /\ r[n] = e /\ \A i \in 1..Len(q) : r[i] = q[i]
        /\ n \notin 1..Len(q) /\ 1..n = (1..Len(q)) \cup {n}
    OBVIOUS
  <1>2. n \notin Queued(q, p)
    BY <1>1 DEF Queued
  <1> HIDE DEF r, n
  <1>3. CASE e.kind = "ReplSubmit" /\ e.pane = p
    <2>1. Queued(r, p) = Queued(q, p) \cup {n}
      BY <1>1, <1>3 DEF Queued
    <2>2. Cardinality(Queued(r, p)) = Cardinality(Queued(q, p)) + 1
      BY <2>1, <1>2, QueuedFinite, FS_AddElement
    <2> QED
      BY <2>2, <1>3 DEF r
  <1>4. CASE ~(e.kind = "ReplSubmit" /\ e.pane = p)
    <2>1. Queued(r, p) = Queued(q, p)
      BY <1>1, <1>4 DEF Queued
    <2> QED
      BY <2>1, <1>4, QueuedFinite DEF r
  <1> QED
    BY <1>3, <1>4

LEMMA QueuedTail ==
    ASSUME NEW q \in Seq(QueuedEvents), q # << >>, NEW p
    PROVE  Cardinality(Queued(Tail(q), p)) =
             Cardinality(Queued(q, p))
             - (IF Head(q).kind = "ReplSubmit" /\ Head(q).pane = p THEN 1 ELSE 0)
  <1> DEFINE r == Tail(q)
             A == Queued(r, p)
             B == Queued(q, p) \ {1}
             f == [i \in A |-> i + 1]
  <1>1. /\ Len(q) \in Nat /\ Len(q) > 0 /\ DOMAIN q = 1..Len(q)
        /\ DOMAIN r = 1..(Len(q) - 1) /\ r \in Seq(QueuedEvents)
        /\ \A i \in 1..(Len(q) - 1) : r[i] = q[i + 1]
        /\ Head(q) = q[1]
    OBVIOUS
  <1> HIDE DEF r
  <1>2. A \subseteq 1..(Len(q) - 1)
    BY <1>1 DEF Queued
  <1>3. \A i \in A : i + 1 \in B
    BY <1>1, <1>2 DEF Queued
  <1>4. \A j \in B : j - 1 \in A /\ j = (j - 1) + 1
    BY <1>1 DEF Queued
  <1>5. f \in Bijection(A, B)
    <2>1. f \in [A -> B]
      BY <1>3
    <2>2. \A a, b \in A : f[a] = f[b] => a = b
      BY <1>2
    <2>3. \A j \in B : \E i \in A : f[i] = j
      BY <1>4
    <2> QED
      BY <2>1, <2>2, <2>3, Zenon DEF Bijection, Injection, Surjection, IsInjective
  <1>6. IsFiniteSet(A) /\ Cardinality(A) \in Nat
    BY <1>1, QueuedFinite
  <1>7. IsFiniteSet(Queued(q, p)) /\ Cardinality(Queued(q, p)) \in Nat
    BY QueuedFinite
  <1>8. Cardinality(A) = Cardinality(B)
    <2>1. ExistsBijection(A, B)
      BY <1>5 DEF ExistsBijection
    <2> QED
      BY <1>6, <2>1, FS_Bijection
  <1>9. CASE Head(q).kind = "ReplSubmit" /\ Head(q).pane = p
    <2>1. 1 \in Queued(q, p)
      BY <1>1, <1>9 DEF Queued
    <2>2. Cardinality(B) = Cardinality(Queued(q, p)) - 1
      BY <1>7, <2>1, FS_RemoveElement
    <2> QED
      BY <1>8, <1>9, <2>2 DEF r
  <1>10. CASE ~(Head(q).kind = "ReplSubmit" /\ Head(q).pane = p)
    <2>1. B = Queued(q, p)
      BY <1>1, <1>10 DEF Queued
    <2>2. Cardinality(Queued(Tail(q), p)) = Cardinality(Queued(q, p))
      BY <1>8, <2>1 DEF r
    <2>3. Cardinality(Queued(q, p)) = Cardinality(Queued(q, p)) - 0
      BY <1>7
    <2> QED
      BY <1>10, <2>2, <2>3
  <1> QED
    BY <1>9, <1>10

(* Submits, in terms of the places in the mailbox.                         *)
LEMMA SubmitsIs ==
    ASSUME NEW p
    PROVE  /\ Submits(p) = Cardinality(Queued(queue, p))
                           + (IF gui = p THEN 1 ELSE 0)
           /\ Submits(p)' = Cardinality(Queued(queue', p))
                            + (IF gui' = p THEN 1 ELSE 0)
  BY DEF Submits, Queued

(* A step that pops an event that is no ReplSubmit, or none at all.        *)
LEMMA NoSubmitTaken ==
    ASSUME TypeOK, SubmitsMatchInputs,
           UNCHANGED <<gui, open, inputs, lost>>,
           \/ queue' = queue
           \/ /\ queue # << >> /\ queue' = Tail(queue)
              /\ Head(queue).kind # "ReplSubmit"
    PROVE  SubmitsMatchInputs'
  <1>1. queue \in Seq(QueuedEvents)
    BY DEF TypeOK, QueuedEvents
  <1>2. ASSUME NEW p PROVE Submits(p)' = Submits(p)
    <2>1. Cardinality(Queued(queue, p)) \in Nat
      BY <1>1, QueuedFinite
    <2>2. CASE queue' = queue
      BY <2>2, SubmitsIs
    <2>3. CASE /\ queue # << >> /\ queue' = Tail(queue)
               /\ Head(queue).kind # "ReplSubmit"
      <3>1. Cardinality(Queued(queue', p)) = Cardinality(Queued(queue, p)) - 0
        BY <1>1, <2>3, QueuedTail
      <3>2. Cardinality(Queued(queue', p)) = Cardinality(Queued(queue, p))
        BY <2>1, <3>1
      <3> QED
        BY <3>2, SubmitsIs
    <2> QED
      BY <2>2, <2>3
  <1> QED
    BY <1>2 DEF SubmitsMatchInputs

LEMMA RequestMatches ==
    ASSUME TypeOK, SubmitsMatchInputs,
           NEW k \in {"EvalBuffer", "ForthRestart", "FrameClose"},
           NEW s \in Programs, Request(k, s)
    PROVE  SubmitsMatchInputs'
  <1> DEFINE e == Event(k, Console, s)
  <1>1. queue \in Seq(QueuedEvents) /\ e \in QueuedEvents
    BY DEF TypeOK, QueuedEvents, Event, Kinds, Sinks
  <1>2. e.kind # "ReplSubmit"
    BY DEF Event
  <1> HIDE DEF e
  <1>3. queue' = Pushed(e) /\ UNCHANGED <<gui, open, inputs, lost>>
    BY DEF Request, e
  <1>4. ASSUME NEW p PROVE Submits(p)' = Submits(p)
    <2>1. Cardinality(Queued(queue, p)) \in Nat
      BY <1>1, QueuedFinite
    <2>2. Cardinality(Queued(Append(queue, e), p))
            = Cardinality(Queued(queue, p)) + 0
      BY <1>1, <1>2, QueuedAppend
    <2>3. Cardinality(Queued(queue', p)) = Cardinality(Queued(queue, p))
      BY <1>3, <2>1, <2>2 DEF Pushed
    <2> QED
      BY <1>3, <2>3, SubmitsIs
  <1> QED
    BY <1>3, <1>4 DEF SubmitsMatchInputs

LEMMA SubmitMatches ==
    ASSUME TypeOK, SubmitsMatchInputs, NEW p \in Panes, NEW s \in Sources,
           Submit(p, s)
    PROVE  SubmitsMatchInputs'
  <1>1. /\ queue' = queue /\ gui = Console /\ gui' = p /\ open' = open
        /\ lost' = lost /\ inputs' = [inputs EXCEPT ![p] = Append(@, s)]
        /\ Console \notin Panes /\ inputs \in [Panes -> Seq(Sources)]
        /\ open \subseteq Panes
    BY IdeAssumption DEF Submit, TypeOK
  <1>2. queue \in Seq(QueuedEvents)
    BY DEF TypeOK, QueuedEvents
  <1>3. ASSUME NEW o \in open \ lost PROVE Len(inputs'[o]) = Submits(o)'
    <2>1. Cardinality(Queued(queue, o)) \in Nat
      BY <1>2, QueuedFinite
    <2>2. /\ Submits(o) = Cardinality(Queued(queue, o)) + 0
          /\ Len(inputs[o]) = Submits(o)
      BY <1>1, SubmitsIs DEF SubmitsMatchInputs
    <2>3. CASE o = p
      <3>1. Submits(o)' = Cardinality(Queued(queue, o)) + 1
        BY <1>1, <2>3, SubmitsIs
      <3>2. Len(inputs'[o]) = Len(inputs[o]) + 1
        BY <1>1, <2>3
      <3> QED
        BY <2>1, <2>2, <3>1, <3>2
    <2>4. CASE o # p
      <3>1. Submits(o)' = Cardinality(Queued(queue, o)) + 0
        BY <1>1, <2>4, SubmitsIs
      <3>2. inputs'[o] = inputs[o]
        BY <1>1, <2>4
      <3> QED
        BY <2>2, <3>1, <3>2
    <2> QED
      BY <2>3, <2>4
  <1> QED
    BY <1>1, <1>3 DEF SubmitsMatchInputs

LEMMA CloseMatches ==
    ASSUME TypeOK, SubmitsMatchInputs, NEW p \in Panes, ClosePane(p)
    PROVE  SubmitsMatchInputs'
  <1>1. /\ queue' = queue /\ gui' = gui /\ open' = open \ {p} /\ lost' = lost
        /\ inputs' = [inputs EXCEPT ![p] = << >>]
        /\ inputs \in [Panes -> Seq(Sources)] /\ open \subseteq Panes
    BY DEF ClosePane, TypeOK
  <1>2. \A o \in open' \ lost' : o \in open \ lost /\ inputs'[o] = inputs[o]
    BY <1>1
  <1>3. \A o : Submits(o)' = Submits(o)
    BY <1>1, SubmitsIs
  <1> QED
    BY <1>2, <1>3 DEF SubmitsMatchInputs

LEMMA AnnounceMatches ==
    ASSUME TypeOK, SubmitsMatchInputs, Announce
    PROVE  SubmitsMatchInputs'
  <1> DEFINE e == Event("ReplSubmit", gui, NoTask.src)
  <1>1. queue \in Seq(QueuedEvents) /\ gui \in Panes /\ open \subseteq Panes
    BY DEF TypeOK, QueuedEvents, Announce
  <1>2. e \in QueuedEvents /\ e.kind = "ReplSubmit" /\ e.pane = gui
    BY <1>1, NoTaskType DEF QueuedEvents, Event, Kinds, Sinks
  <1> HIDE DEF e
  <1>3. /\ queue' = Pushed(e) /\ gui' = Console /\ Console \notin Panes
        /\ UNCHANGED <<open, inputs>>
        /\ lost' = IF Len(queue) < Capacity THEN lost ELSE lost \cup {gui}
    BY IdeAssumption DEF Announce, e
  <1>4. ASSUME NEW o \in open' \ lost' PROVE Submits(o)' = Submits(o)
    <2>1. Cardinality(Queued(queue, o)) \in Nat /\ o \in Panes
      BY <1>1, <1>3, QueuedFinite
    <2>2. Submits(o)' = Cardinality(Queued(queue', o)) + 0
      BY <1>3, <2>1, SubmitsIs
    <2>3. CASE o = gui
      <3>1. queue' = Append(queue, e)
        BY <1>3, <1>4, <2>3 DEF Pushed
      <3>2. Cardinality(Queued(queue', o)) = Cardinality(Queued(queue, o)) + 1
        BY <1>1, <1>2, <2>3, <3>1, QueuedAppend
      <3>3. Submits(o) = Cardinality(Queued(queue, o)) + 1
        BY <2>3, SubmitsIs
      <3> QED
        BY <2>1, <2>2, <3>2, <3>3
    <2>4. CASE o # gui
      <3>1. Cardinality(Queued(Append(queue, e), o))
              = Cardinality(Queued(queue, o)) + 0
        BY <1>1, <1>2, <2>4, QueuedAppend
      <3>2. Cardinality(Queued(queue', o)) = Cardinality(Queued(queue, o))
        BY <1>3, <2>1, <3>1 DEF Pushed
      <3>3. Submits(o) = Cardinality(Queued(queue, o)) + 0
        BY <2>4, SubmitsIs
      <3> QED
        BY <2>2, <3>2, <3>3
    <2> QED
      BY <2>3, <2>4
  <1>5. open' \ lost' \subseteq open \ lost
    BY <1>3
  <1> QED
    BY <1>3, <1>4, <1>5 DEF SubmitsMatchInputs

LEMMA TakenMatches ==
    ASSUME TypeOK, QueueInv, SubmitsMatchInputs, HandleSubmit \/ SkipSubmit
    PROVE  SubmitsMatchInputs'
  <1> DEFINE p == Head(queue).pane
  <1>1. /\ queue # << >> /\ queue' = Tail(queue)
        /\ Head(queue).kind = "ReplSubmit"
        /\ UNCHANGED <<gui, open, lost>>
    BY DEF HandleSubmit, SkipSubmit, NextEvent, guiVars
  <1>2. p \in Panes
    BY <1>1, TailType DEF QueueInv
  <1>3. \/ inputs[p] # << >> /\ inputs' = [inputs EXCEPT ![p] = Tail(@)]
        \/ inputs[p] = << >> /\ inputs' = inputs
    BY DEF HandleSubmit, SkipSubmit
  <1>4. \A o : Cardinality(Queued(queue, o)) \in Nat
    BY QueuedFinite DEF TypeOK, QueuedEvents
  <1>5. \A o : Cardinality(Queued(queue', o)) \in Nat
    BY <1>1, TailType, QueuedFinite
  <1>6. queue \in Seq(QueuedEvents)
    BY DEF TypeOK, QueuedEvents
  <1>7. Cardinality(Queued(queue', p)) = Cardinality(Queued(queue, p)) - 1
    BY <1>1, <1>6, QueuedTail
  <1>8. ASSUME NEW o, o # p
        PROVE  Cardinality(Queued(queue', o)) = Cardinality(Queued(queue, o))
    <2>1. Cardinality(Queued(queue', o)) = Cardinality(Queued(queue, o)) - 0
      BY <1>1, <1>6, <1>8, QueuedTail
    <2> QED
      BY <1>4, <2>1
  <1> HIDE DEF p
  <1>9. inputs \in [Panes -> Seq(Sources)] /\ open \subseteq Panes
    BY DEF TypeOK
  <1>10. ASSUME NEW o \in open \ lost PROVE Len(inputs'[o]) = Submits(o)'
    <2>1. Len(inputs[o]) = Submits(o)
      BY DEF SubmitsMatchInputs
    <2>2. CASE o # p
      <3>1. inputs'[o] = inputs[o]
        BY <1>2, <1>3, <1>9, <2>2
      <3>2. Submits(o)' = Submits(o)
        BY <1>1, <1>8, <2>2, SubmitsIs
      <3> QED
        BY <2>1, <3>1, <3>2
    <2>3. CASE o = p /\ gui # p
      <3>1. /\ Submits(o) = Cardinality(Queued(queue, o)) + 0
            /\ Submits(o)' = Cardinality(Queued(queue', o)) + 0
        BY <1>1, <2>3, SubmitsIs
      <3>2. Len(inputs[p]) = Cardinality(Queued(queue, o))
        BY <1>4, <2>1, <2>3, <3>1
      <3>3. inputs[p] \in Seq(Sources) /\ inputs[p] # << >>
        <4>1. Cardinality(Queued(queue, o)) > 0
          BY <1>4, <1>5, <1>7, <2>3
        <4> QED
          BY <1>2, <1>9, <3>2, <4>1
      <3>4. Len(inputs'[p]) = Len(inputs[p]) - 1
        BY <1>2, <1>3, <1>9, <3>3
      <3> QED
        BY <1>5, <1>7, <2>3, <3>1, <3>2, <3>4
    <2>4. CASE o = p /\ gui = p
      <3>1. /\ Submits(o) = Cardinality(Queued(queue, o)) + 1
            /\ Submits(o)' = Cardinality(Queued(queue', o)) + 1
        BY <1>1, <2>4, SubmitsIs
      <3>2. Len(inputs[p]) = Cardinality(Queued(queue, o)) + 1
        BY <2>1, <2>4, <3>1
      <3>3. inputs[p] \in Seq(Sources) /\ inputs[p] # << >>
        BY <1>2, <1>4, <1>9, <3>2
      <3>4. Len(inputs'[p]) = Len(inputs[p]) - 1
        BY <1>2, <1>3, <1>9, <3>3
      <3> QED
        BY <1>4, <1>5, <1>7, <2>4, <3>1, <3>2, <3>4
    <2> QED
      BY <2>2, <2>3, <2>4
  <1> QED
    BY <1>1, <1>10 DEF SubmitsMatchInputs

LEMMA SubmitsStep ==
    ASSUME TypeOK, QueueInv, SubmitsMatchInputs, [Next]_vars
    PROVE  SubmitsMatchInputs'
  <1>1. CASE User
    <2>1. Sources \subseteq Programs /\ NoTask.src \in Programs
      BY IdeAssumption, NoTaskType
    <2> QED
      BY <1>1, <2>1, RequestMatches, SubmitMatches, CloseMatches DEF User
  <1>2. CASE Announce
    BY <1>2, AnnounceMatches
  <1>3. CASE HandleSubmit \/ SkipSubmit
    BY <1>3, TakenMatches
  <1>4. CASE HandleEval \/ HandleRestart \/ HandleFrameClose
    BY <1>4, NoSubmitTaken DEF HandleEval, HandleRestart, HandleFrameClose,
       NextEvent, guiVars
  <1>5. CASE \/ CompileFails \/ CompileAndSend \/ CheckSession \/ EvalReturns
             \/ RestartDropped \/ SessionDropped
    BY <1>5, NoSubmitTaken DEF CompileFails, CompileAndSend, CheckSession,
       EvalReturns, RestartDropped, SessionDropped, guiVars
  <1>6. CASE Other
    BY <1>6, NoSubmitTaken DEF Other, Supervise, Vm, Boot, Reboot, Respawn,
       SupervisorEnds, VmParses, VmDone, Flush, BootFails, Panic, Seh,
       DropHangs, VmRejects, VmWrites, VmNewline, EvalDies, Zombie,
       ZombieWrites, ZombieFlushes, ZombieTakes, ZombieSignals, guiVars
  <1>7. CASE UNCHANGED vars
    BY <1>7, NoSubmitTaken DEF vars, guiVars
  <1> QED
    BY <1>1, <1>2, <1>3, <1>4, <1>5, <1>6, <1>7, NextCases DEF Drain

-----------------------------------------------------------------------------
(* The theorems *)

LEMMA InitIInv == Init => IInv
  <1> SUFFICES ASSUME Init PROVE IInv
    OBVIOUS
  <1>1. SubmitsMatchInputs
    <2>1. ASSUME NEW p \in open \ lost
          PROVE  Len(inputs[p]) = Submits(p)
      <3>1. gui = Console /\ queue = << >> /\ p \in Panes
        BY DEF Init
      <3>2. Queued(queue, p) = {} /\ gui # p
        BY <3>1, IdeAssumption DEF Queued
      <3>3. Submits(p) = 0
        BY <3>2, FS_EmptySet, SubmitsIs
      <3> QED
        BY <3>1, <3>3 DEF Init
    <2> QED
      BY <2>1 DEF SubmitsMatchInputs
  <1> QED
    BY <1>1, InitType
       DEF Init, IInv, VmInv, QueueInv, LockstepInv, OutputInv

LEMMA StepIInv == IInv /\ [Next]_vars => IInv'
  <1> SUFFICES ASSUME IInv, [Next]_vars PROVE IInv'
    OBVIOUS
  <1>1. /\ TypeOK /\ VmInv /\ QueueInv /\ snapshot = words /\ LockstepInv
        /\ OutputInv /\ SubmitsMatchInputs
    BY DEF IInv
  <1>2. TypeOK' /\ QueueInv'
    BY <1>1, TypeStep, QueueStep
  <1>3. VmInv' /\ (snapshot = words)'
    BY <1>1, VmStep, SnapshotStep
  <1>4. LockstepInv' /\ OutputInv'
    BY <1>1, LockstepStep, OutputStep
  <1>5. SubmitsMatchInputs'
    BY <1>1, SubmitsStep
  <1> QED
    BY <1>2, <1>3, <1>4, <1>5 DEF IInv

LEMMA AlwaysIInv == Spec => []IInv
  BY InitIInv, StepIInv, PTL DEF Spec

(* Type correctness of the IDE worker's context, Session, sink, panes and  *)
(* queue, as newfactor_ui.rs and repl_pane.rs keep them.                   *)
THEOREM TypesKept == Spec => []TypeOK
  <1>1. IInv => TypeOK
    BY DEF IInv
  <1> QED
    BY <1>1, AlwaysIInv, PTL

(* At the prompt, every name the compiler's context takes for defined is   *)
(* in the dictionary of the VM the next eval runs on, unless since the     *)
(* last restart the VM refused a program, the context was carried over a   *)
(* Session's death, or a worker left behind by a timed-out Session took or *)
(* answered for a program.                                                 *)
THEOREM LockstepKept == Spec => []ContextInLockstep
  <1>1. IInv => ContextInLockstep
    BY DEF IInv, LockstepInv, ContextInLockstep
  <1> QED
    BY <1>1, AlwaysIInv, PTL

(* publish_snapshot keeps up with the context: what the F7 checker reads   *)
(* is what the next eval will be compiled with.                            *)
THEOREM SnapshotKept == Spec => []SnapshotIsCurrent
  <1>1. IInv => SnapshotIsCurrent
    BY DEF IInv, SnapshotIsCurrent
  <1> QED
    BY <1>1, AlwaysIInv, PTL

(* CURRENT_SINK and the line buffer are shared by all evals, yet up to the *)
(* first drop of a timed-out Session every line is shown in the pane whose *)
(* eval wrote it.                                                          *)
THEOREM OutputRouted == Spec => []OutputToItsPane
  <1>1. IInv => OutputToItsPane
    BY DEF IInv, OutputInv, OutputToItsPane
  <1> QED
    BY <1>1, AlwaysIInv, PTL

(* PENDING_INPUTS of an open pane and its ReplSubmit events stay in step   *)
(* as long as the mailbox dropped none of them.                            *)
THEOREM SubmitsCounted == Spec => []SubmitsMatchInputs
  <1>1. IInv => SubmitsMatchInputs
    BY DEF IInv
  <1> QED
    BY <1>1, AlwaysIInv, PTL
=============================================================================

--------------------------- MODULE SessionProofs ---------------------------
(***************************************************************************)
(* Proofs about Session, for every number of Sessions and evals, every set *)
(* of source kinds and every set of faults.                                *)
(***************************************************************************)
EXTENDS SessionService, TLAPS

TypeInv == TypeOK /\ JobsTyped

USE DEF None, Commands, Causes

LEMMA ExitFacts == Exit \notin Evals /\ Exit # None /\ None \notin Evals
                   /\ None \notin Sessions
  BY BoundsAssumption DEF Exit, Evals, Sessions

LEMMA EmptyQueue == << >> \in Seq(Commands)
  OBVIOUS

LEMMA InitType == Init => TypeInv
  BY BoundsAssumption
  DEF Init, TypeInv, TypeOK, JobsTyped, Busy, Evals, Sessions, HostPcs, Outcomes,
      WorkerPcs, DispatchPcs, AllKinds

LEMMA HostType == TypeInv /\ (HostStart \/ HostStep) => TypeInv'
  <1> SUFFICES ASSUME TypeInv, HostStart \/ HostStep PROVE TypeInv'
    OBVIOUS
  <1> USE BoundsAssumption
      DEF TypeInv, TypeOK, JobsTyped, HostPcs, Outcomes, evalVars, globals,
          threadVars, slotVars, chanVars, Sessions, Evals, Exit
  <1>1. CASE New
    BY <1>1 DEF New
  <1>2. CASE EvalFailFast
    BY <1>2 DEF EvalFailFast
  <1>3. CASE EvalCheck
    BY <1>3 DEF EvalCheck
  <1>4. CASE DropSend
    <2>1. held \in Sessions
      BY <1>4 DEF DropSend
    <2>2. cmdq' \in [Sessions -> Seq(Commands)]
      BY <1>4, <2>1 DEF DropSend
    <2>3. QED
      BY <1>4, <2>1, <2>2 DEF DropSend
  <1>5. CASE InstallRefused
    BY <1>5 DEF InstallRefused
  <1>6. CASE Install
    BY <1>6 DEF Install, WorkerPcs, Busy
  <1>7. CASE InstallSpawnFails
    BY <1>7 DEF InstallSpawnFails
  <1>8. CASE EvalSend
    <2>1. held \in Sessions /\ issued + 1 \in Evals
      BY <1>8 DEF EvalSend
    <2>2. cmdq' \in [Sessions -> Seq(Commands)]
      BY <1>8, <2>1 DEF EvalSend
    <2>3. kind' \in [Evals -> AllKinds]
      BY <1>8, <2>1 DEF EvalSend
    <2>4. QED
      BY SMTT(30), <1>8, <2>1, <2>2, <2>3 DEF EvalSend
  <1>9. CASE EvalSendFails
    BY <1>9 DEF EvalSendFails
  <1>10. CASE EvalReply
    BY <1>10 DEF EvalReply
  <1>11. CASE EvalTimeout
    BY <1>11 DEF EvalTimeout, Trigger
  <1>12. CASE EvalGiveUp
    BY <1>12 DEF EvalGiveUp
  <1>13. CASE EvalDisconnected
    BY <1>13 DEF EvalDisconnected
  <1>14. CASE EvalRecordCause
    BY <1>14 DEF EvalRecordCause
  <1>15. CASE DropJoin
    BY <1>15 DEF DropJoin
  <1>16. CASE DropClear
    BY <1>16 DEF DropClear
  <1>17. CASE DropClearInterrupter
    BY <1>17 DEF DropClearInterrupter
  <1>18. QED
    BY <1>1, <1>2, <1>3, <1>4, <1>5, <1>6, <1>7, <1>8, <1>9, <1>10, <1>11,
       <1>12, <1>13, <1>14, <1>15, <1>16, <1>17 DEF HostStart, HostStep

(* A step of worker or dispatcher s, faults included.                       *)
ThreadStep(s) ==
    \/ WorkerStep(s) \/ BootPanic(s) \/ Finish(s)
    \/ DispatchStep(s) \/ DispatchFlushPanics(s)

LEMMA ThreadType ==
    ASSUME TypeInv, NEW s \in Sessions, ThreadStep(s) PROVE TypeInv'
  <1> USE ExitFacts
      DEF TypeInv, TypeOK, JobsTyped, hostVars, evalVars, globals,
          threadVars, slotVars, chanVars, WorkerPcs, DispatchPcs, Busy
  <1>1. CASE Boot(s)
    BY <1>1 DEF Boot
  <1>2. CASE Setup(s)
    <2>1. PICK next \in {"loop", "join"} : wpc' = [wpc EXCEPT ![s] = next]
      BY <1>2 DEF Setup
    <2>2. QED
      BY <1>2, <2>1 DEF Setup
  <1>3. CASE RecordPanic(s)
    BY <1>3 DEF RecordPanic
  <1>4. CASE Safepoint(s)
    BY <1>4 DEF Safepoint, AfterSafepoint
  <1>5. CASE NextLock(s)
    BY <1>5 DEF NextLock
  <1>6. CASE Take(s)
    BY <1>6 DEF Take
  <1>7. CASE Interrupted(s)
    BY <1>7 DEF Interrupted
  <1>8. CASE SignalDone(s)
    BY <1>8 DEF SignalDone
  <1>9. CASE JoinDispatcher(s)
    BY <1>9 DEF JoinDispatcher
  <1>10. CASE DispatchEval(s)
    <2>1. /\ Head(cmdq[s]) \in Evals
          /\ Tail(cmdq[s]) \in Seq(Commands)
      BY <1>10 DEF DispatchEval
    <2>2. QED
      BY <1>10, <2>1 DEF DispatchEval
  <1>11. CASE DispatchReply(s)
    BY <1>11 DEF DispatchReply
  <1>12. CASE DispatchShutdown(s)
    BY <1>12, EmptyQueue DEF DispatchShutdown, DropReceiver
  <1>13. CASE BootPanic(s)
    BY <1>13, EmptyQueue DEF BootPanic, DropReceiver
  <1>14. CASE Finish(s)
    BY <1>14 DEF Finish
  <1>15. CASE DispatchFlushPanics(s)
    BY <1>15, EmptyQueue DEF DispatchFlushPanics, DropReceiver
  <1>16. QED
    BY <1>1, <1>2, <1>3, <1>4, <1>5, <1>6, <1>7, <1>8, <1>9, <1>10, <1>11, <1>12, <1>13, <1>14, <1>15
    DEF ThreadStep, WorkerStep, DispatchStep

LEMMA BreakType == TypeInv /\ Break => TypeInv'
  BY ExitFacts DEF TypeInv, TypeOK, JobsTyped, Break, Trigger, hostVars,
     evalVars, globals, threadVars, slotVars, chanVars, Busy

(* Next, with the steps of the threads gathered.                            *)
LEMMA NextCases ==
    ASSUME Next
    PROVE HostStart \/ HostStep \/ Break \/ \E s \in Sessions : ThreadStep(s)
  BY DEF Next, ThreadStep

LEMMA TypeStep == TypeInv /\ [Next]_vars => TypeInv'
  <1> SUFFICES ASSUME TypeInv, [Next]_vars PROVE TypeInv'
    OBVIOUS
  <1>1. CASE Next
    BY <1>1, NextCases, HostType, ThreadType, BreakType
  <1>2. CASE UNCHANGED vars
    BY <1>2 DEF vars, TypeInv, TypeOK, JobsTyped, hostVars, evalVars, globals,
       threadVars, slotVars, chanVars, Busy
  <1>3. QED
    BY <1>1, <1>2

(* Every variable of the Session keeps its type; in particular only evals   *)
(* are replied to and only evals are evaluated, never the Exit marker.      *)
THEOREM TypeCorrect == Spec => []TypeOK
  <1>1. TypeInv /\ [Next]_vars => TypeInv'
    BY TypeStep
  <1>2. TypeInv => TypeOK
    BY DEF TypeInv
  <1>3. QED
    BY <1>1, <1>2, InitType, PTL DEF Spec

-----------------------------------------------------------------------------
(* The inductive invariant *)

LEMMA HostInvStep ==
    ASSUME TypeInv, HostInv, FreshInv, [Next]_vars PROVE HostInv'
  <1> USE ExitFacts
      DEF TypeInv, TypeOK, JobsTyped, HostInv, hostVars, evalVars, globals, threadVars, slotVars, chanVars
  <1>1. CASE HostStart \/ HostStep
    <2>1. CASE New
      BY <2>1 DEF New
    <2>2. CASE EvalFailFast
      BY <2>2 DEF EvalFailFast
    <2>3. CASE EvalCheck
      BY <2>3 DEF EvalCheck
    <2>4. CASE DropSend
      BY <2>4 DEF DropSend
    <2>5. CASE InstallRefused
      BY <2>5 DEF InstallRefused
    <2>6. CASE Install
      BY <2>6 DEF Install
    <2>7. CASE InstallSpawnFails
      BY <2>7 DEF InstallSpawnFails
    <2>8. CASE EvalSend
      BY <2>8 DEF EvalSend
    <2>9. CASE EvalSendFails
      BY <2>9 DEF EvalSendFails
    <2>10. CASE EvalReply
      BY <2>10 DEF EvalReply
    <2>11. CASE EvalTimeout
      BY <2>11 DEF EvalTimeout, Trigger
    <2>12. CASE EvalGiveUp
      BY <2>12 DEF EvalGiveUp
    <2>13. CASE EvalDisconnected
      BY <2>13 DEF EvalDisconnected
    <2>14. CASE EvalRecordCause
      BY <2>14 DEF EvalRecordCause
    <2>15. CASE DropJoin
      BY <2>15 DEF DropJoin
    <2>16. CASE DropClear
      BY <2>16 DEF DropClear
    <2>17. CASE DropClearInterrupter
      BY <2>17 DEF DropClearInterrupter
    <2>18. QED
      BY <1>1, <2>1, <2>2, <2>3, <2>4, <2>5, <2>6, <2>7, <2>8, <2>9, <2>10, <2>11, <2>12, <2>13, <2>14, <2>15, <2>16, <2>17
      DEF HostStart, HostStep
  <1>2. ASSUME NEW s \in Sessions, ThreadStep(s) PROVE HostInv'
    <2>1. CASE Boot(s)
      BY <2>1 DEF Boot
    <2>2. CASE Setup(s)
      <3>1. PICK next \in {"loop", "join"} : wpc' = [wpc EXCEPT ![s] = next]
        BY <2>2 DEF Setup
      <3>2. QED
        BY <2>2, <3>1 DEF Setup
    <2>3. CASE RecordPanic(s)
      BY <2>3 DEF RecordPanic
    <2>4. CASE Safepoint(s)
      BY <2>4 DEF Safepoint, AfterSafepoint
    <2>5. CASE NextLock(s)
      BY <2>5 DEF NextLock
    <2>6. CASE Take(s)
      BY <2>6 DEF Take
    <2>7. CASE Interrupted(s)
      BY <2>7 DEF Interrupted
    <2>8. CASE SignalDone(s)
      BY <2>8 DEF SignalDone
    <2>9. CASE JoinDispatcher(s)
      BY <2>9 DEF JoinDispatcher
    <2>10. CASE DispatchEval(s)
      BY <2>10 DEF DispatchEval
    <2>11. CASE DispatchReply(s)
      BY <2>11 DEF DispatchReply
    <2>12. CASE DispatchShutdown(s)
      BY <2>12 DEF DispatchShutdown, DropReceiver
    <2>13. CASE BootPanic(s)
      BY <2>13 DEF BootPanic, DropReceiver
    <2>14. CASE Finish(s)
      BY <2>14 DEF Finish
    <2>15. CASE DispatchFlushPanics(s)
      BY <2>15 DEF DispatchFlushPanics, DropReceiver
    <2>16. QED
      BY <1>2, <2>1, <2>2, <2>3, <2>4, <2>5, <2>6, <2>7, <2>8, <2>9, <2>10, <2>11, <2>12, <2>13, <2>14, <2>15
      DEF ThreadStep, WorkerStep, DispatchStep
  <1>3. CASE Break
    BY <1>3 DEF Break
  <1>4. CASE UNCHANGED vars
    BY <1>4 DEF vars
  <1>5. QED
    BY <1>1, <1>2, <1>3, <1>4, NextCases

LEMMA FreshInvStep ==
    ASSUME TypeInv, HostInv, FreshInv, [Next]_vars PROVE FreshInv'
  <1> USE ExitFacts
      DEF TypeInv, TypeOK, JobsTyped, FreshInv, hostVars, evalVars, globals, threadVars, slotVars, chanVars
  <1>1. CASE HostStart \/ HostStep
    <2>1. CASE New
      BY <2>1 DEF New
    <2>2. CASE EvalFailFast
      BY <2>2 DEF EvalFailFast
    <2>3. CASE EvalCheck
      BY <2>3 DEF EvalCheck
    <2>4. CASE DropSend
      BY <2>4 DEF DropSend
    <2>5. CASE InstallRefused
      BY <2>5 DEF InstallRefused
    <2>6. CASE Install
      BY <2>6, BoundsAssumption DEF Install, Sessions
    <2>7. CASE InstallSpawnFails
      BY <2>7, BoundsAssumption DEF InstallSpawnFails, Sessions
    <2>8. CASE EvalSend
      BY <2>8 DEF EvalSend
    <2>9. CASE EvalSendFails
      BY <2>9 DEF EvalSendFails
    <2>10. CASE EvalReply
      BY <2>10 DEF EvalReply
    <2>11. CASE EvalTimeout
      BY <2>11 DEF EvalTimeout, Trigger
    <2>12. CASE EvalGiveUp
      BY <2>12 DEF EvalGiveUp
    <2>13. CASE EvalDisconnected
      BY <2>13 DEF EvalDisconnected
    <2>14. CASE EvalRecordCause
      BY <2>14 DEF EvalRecordCause
    <2>15. CASE DropJoin
      BY <2>15 DEF DropJoin
    <2>16. CASE DropClear
      BY <2>16 DEF DropClear
    <2>17. CASE DropClearInterrupter
      BY <2>17 DEF DropClearInterrupter
    <2>18. QED
      BY <1>1, <2>1, <2>2, <2>3, <2>4, <2>5, <2>6, <2>7, <2>8, <2>9, <2>10, <2>11, <2>12, <2>13, <2>14, <2>15, <2>16, <2>17
      DEF HostStart, HostStep
  <1>2. ASSUME NEW s \in Sessions, ThreadStep(s) PROVE FreshInv'
    <2>1. CASE Boot(s)
      BY <2>1 DEF Boot
    <2>2. CASE Setup(s)
      <3>1. PICK next \in {"loop", "join"} : wpc' = [wpc EXCEPT ![s] = next]
        BY <2>2 DEF Setup
      <3>2. QED
        BY <2>2, <3>1 DEF Setup
    <2>3. CASE RecordPanic(s)
      BY <2>3 DEF RecordPanic
    <2>4. CASE Safepoint(s)
      BY <2>4 DEF Safepoint, AfterSafepoint
    <2>5. CASE NextLock(s)
      BY <2>5 DEF NextLock
    <2>6. CASE Take(s)
      BY <2>6 DEF Take
    <2>7. CASE Interrupted(s)
      BY <2>7 DEF Interrupted
    <2>8. CASE SignalDone(s)
      BY <2>8 DEF SignalDone
    <2>9. CASE JoinDispatcher(s)
      BY <2>9 DEF JoinDispatcher
    <2>10. CASE DispatchEval(s)
      BY <2>10 DEF DispatchEval
    <2>11. CASE DispatchReply(s)
      BY <2>11 DEF DispatchReply
    <2>12. CASE DispatchShutdown(s)
      BY <2>12 DEF DispatchShutdown, DropReceiver
    <2>13. CASE BootPanic(s)
      BY <2>13 DEF BootPanic, DropReceiver
    <2>14. CASE Finish(s)
      BY <2>14 DEF Finish
    <2>15. CASE DispatchFlushPanics(s)
      BY <2>15 DEF DispatchFlushPanics, DropReceiver
    <2>16. QED
      BY <1>2, <2>1, <2>2, <2>3, <2>4, <2>5, <2>6, <2>7, <2>8, <2>9, <2>10, <2>11, <2>12, <2>13, <2>14, <2>15
      DEF ThreadStep, WorkerStep, DispatchStep
  <1>3. CASE Break
    BY <1>3 DEF Break
  <1>4. CASE UNCHANGED vars
    BY <1>4 DEF vars
  <1>5. QED
    BY <1>1, <1>2, <1>3, <1>4, NextCases

LEMMA OwnerInvStep ==
    ASSUME TypeInv, OwnerInv, [Next]_vars PROVE OwnerInv'
  <1> USE ExitFacts
      DEF TypeInv, TypeOK, JobsTyped, OwnerInv, hostVars, evalVars, globals, threadVars, slotVars, chanVars
  <1>1. CASE HostStart \/ HostStep
    <2>1. CASE New
      BY <2>1 DEF New
    <2>2. CASE EvalFailFast
      BY <2>2 DEF EvalFailFast
    <2>3. CASE EvalCheck
      BY <2>3 DEF EvalCheck
    <2>4. CASE DropSend
      BY <2>4 DEF DropSend
    <2>5. CASE InstallRefused
      BY <2>5 DEF InstallRefused
    <2>6. CASE Install
      BY <2>6 DEF Install
    <2>7. CASE InstallSpawnFails
      BY <2>7 DEF InstallSpawnFails
    <2>8. CASE EvalSend
      <3>1. /\ held \in Sessions
            /\ issued + 1 \in Evals
            /\ \A e \in Evals : owner[e] # None => e # issued + 1
        BY <2>8, BoundsAssumption DEF EvalSend, Evals
      <3>2. \A e \in Evals : owner[e] # None => owner'[e] = owner[e]
        BY <2>8, <3>1 DEF EvalSend
      <3>3. \A t \in Sessions : \A i \in DOMAIN cmdq'[t] :
               cmdq'[t][i] \in Evals => owner'[cmdq'[t][i]] = t
        <4> SUFFICES ASSUME NEW t \in Sessions, NEW i \in DOMAIN cmdq'[t],
                            cmdq'[t][i] \in Evals
                     PROVE owner'[cmdq'[t][i]] = t
          OBVIOUS
        <4>1. CASE t = held /\ i = Len(cmdq[t]) + 1
          BY <2>8, <3>1, <4>1 DEF EvalSend
        <4>2. CASE ~(t = held /\ i = Len(cmdq[t]) + 1)
          <5>1. i \in DOMAIN cmdq[t] /\ cmdq'[t][i] = cmdq[t][i]
            BY <2>8, <3>1, <4>2 DEF EvalSend
          <5>2. QED
            BY <5>1, <3>2
        <4>3. QED
          BY <4>1, <4>2
      <3>4. \A e \in Evals : e > issued' => owner'[e] = None
        BY <2>8, <3>1 DEF EvalSend, Evals
      <3>5. QED
        BY <2>8, <3>2, <3>3, <3>4 DEF EvalSend
    <2>9. CASE EvalSendFails
      BY <2>9 DEF EvalSendFails
    <2>10. CASE EvalReply
      BY <2>10 DEF EvalReply
    <2>11. CASE EvalTimeout
      BY <2>11 DEF EvalTimeout, Trigger
    <2>12. CASE EvalGiveUp
      BY <2>12 DEF EvalGiveUp
    <2>13. CASE EvalDisconnected
      BY <2>13 DEF EvalDisconnected
    <2>14. CASE EvalRecordCause
      BY <2>14 DEF EvalRecordCause
    <2>15. CASE DropJoin
      BY <2>15 DEF DropJoin
    <2>16. CASE DropClear
      BY <2>16 DEF DropClear
    <2>17. CASE DropClearInterrupter
      BY <2>17 DEF DropClearInterrupter
    <2>18. QED
      BY <1>1, <2>1, <2>2, <2>3, <2>4, <2>5, <2>6, <2>7, <2>8, <2>9, <2>10, <2>11, <2>12, <2>13, <2>14, <2>15, <2>16, <2>17
      DEF HostStart, HostStep
  <1>2. ASSUME NEW s \in Sessions, ThreadStep(s) PROVE OwnerInv'
    <2>1. CASE Boot(s)
      BY <2>1 DEF Boot
    <2>2. CASE Setup(s)
      <3>1. PICK next \in {"loop", "join"} : wpc' = [wpc EXCEPT ![s] = next]
        BY <2>2 DEF Setup
      <3>2. QED
        BY <2>2, <3>1 DEF Setup
    <2>3. CASE RecordPanic(s)
      BY <2>3 DEF RecordPanic
    <2>4. CASE Safepoint(s)
      BY <2>4 DEF Safepoint, AfterSafepoint
    <2>5. CASE NextLock(s)
      BY <2>5 DEF NextLock
    <2>6. CASE Take(s)
      BY <2>6 DEF Take
    <2>7. CASE Interrupted(s)
      BY <2>7 DEF Interrupted
    <2>8. CASE SignalDone(s)
      BY <2>8 DEF SignalDone
    <2>9. CASE JoinDispatcher(s)
      BY <2>9 DEF JoinDispatcher
    <2>10. CASE DispatchEval(s)
      BY <2>10 DEF DispatchEval
    <2>11. CASE DispatchReply(s)
      BY <2>11 DEF DispatchReply
    <2>12. CASE DispatchShutdown(s)
      BY <2>12 DEF DispatchShutdown, DropReceiver
    <2>13. CASE BootPanic(s)
      BY <2>13 DEF BootPanic, DropReceiver
    <2>14. CASE Finish(s)
      BY <2>14 DEF Finish
    <2>15. CASE DispatchFlushPanics(s)
      BY <2>15 DEF DispatchFlushPanics, DropReceiver
    <2>16. QED
      BY <1>2, <2>1, <2>2, <2>3, <2>4, <2>5, <2>6, <2>7, <2>8, <2>9, <2>10, <2>11, <2>12, <2>13, <2>14, <2>15
      DEF ThreadStep, WorkerStep, DispatchStep
  <1>3. CASE Break
    BY <1>3 DEF Break
  <1>4. CASE UNCHANGED vars
    BY <1>4 DEF vars
  <1>5. QED
    BY <1>1, <1>2, <1>3, <1>4, NextCases

(* A worker left over stays left over.                                      *)
LEMMA LeakedStays ==
    ASSUME TypeInv, HostInv, FreshInv, [Next]_vars, Leaked PROVE Leaked'
  <1> USE ExitFacts
      DEF TypeInv, TypeOK, JobsTyped, HostInv, FreshInv, Leaked, hostVars, evalVars, globals, threadVars, slotVars, chanVars
  <1>1. CASE HostStart \/ HostStep
    <2>1. CASE New
      BY <2>1 DEF New
    <2>2. CASE EvalFailFast
      BY <2>2 DEF EvalFailFast
    <2>3. CASE EvalCheck
      BY <2>3 DEF EvalCheck
    <2>4. CASE DropSend
      BY <2>4 DEF DropSend
    <2>5. CASE InstallRefused
      BY <2>5 DEF InstallRefused
    <2>6. CASE Install
      BY <2>6 DEF Install
    <2>7. CASE InstallSpawnFails
      BY <2>7 DEF InstallSpawnFails
    <2>8. CASE EvalSend
      BY <2>8 DEF EvalSend
    <2>9. CASE EvalSendFails
      BY <2>9 DEF EvalSendFails
    <2>10. CASE EvalReply
      BY <2>10 DEF EvalReply
    <2>11. CASE EvalTimeout
      BY <2>11 DEF EvalTimeout, Trigger
    <2>12. CASE EvalGiveUp
      BY <2>12 DEF EvalGiveUp
    <2>13. CASE EvalDisconnected
      BY <2>13 DEF EvalDisconnected
    <2>14. CASE EvalRecordCause
      BY <2>14 DEF EvalRecordCause
    <2>15. CASE DropJoin
      BY <2>15 DEF DropJoin
    <2>16. CASE DropClear
      BY <2>16 DEF DropClear
    <2>17. CASE DropClearInterrupter
      BY <2>17 DEF DropClearInterrupter
    <2>18. QED
      BY <1>1, <2>1, <2>2, <2>3, <2>4, <2>5, <2>6, <2>7, <2>8, <2>9, <2>10, <2>11, <2>12, <2>13, <2>14, <2>15, <2>16, <2>17
      DEF HostStart, HostStep
  <1>2. ASSUME NEW s \in Sessions, ThreadStep(s) PROVE Leaked'
    <2>1. CASE Boot(s)
      BY <2>1 DEF Boot
    <2>2. CASE Setup(s)
      <3>1. PICK next \in {"loop", "join"} : wpc' = [wpc EXCEPT ![s] = next]
        BY <2>2 DEF Setup
      <3>2. QED
        BY <2>2, <3>1 DEF Setup
    <2>3. CASE RecordPanic(s)
      BY <2>3 DEF RecordPanic
    <2>4. CASE Safepoint(s)
      BY <2>4 DEF Safepoint, AfterSafepoint
    <2>5. CASE NextLock(s)
      BY <2>5 DEF NextLock
    <2>6. CASE Take(s)
      BY <2>6 DEF Take
    <2>7. CASE Interrupted(s)
      BY <2>7 DEF Interrupted
    <2>8. CASE SignalDone(s)
      BY <2>8 DEF SignalDone
    <2>9. CASE JoinDispatcher(s)
      BY <2>9 DEF JoinDispatcher
    <2>10. CASE DispatchEval(s)
      BY <2>10 DEF DispatchEval
    <2>11. CASE DispatchReply(s)
      BY <2>11 DEF DispatchReply
    <2>12. CASE DispatchShutdown(s)
      BY <2>12 DEF DispatchShutdown, DropReceiver
    <2>13. CASE BootPanic(s)
      BY <2>13 DEF BootPanic, DropReceiver
    <2>14. CASE Finish(s)
      BY <2>14 DEF Finish
    <2>15. CASE DispatchFlushPanics(s)
      BY <2>15 DEF DispatchFlushPanics, DropReceiver
    <2>16. QED
      BY <1>2, <2>1, <2>2, <2>3, <2>4, <2>5, <2>6, <2>7, <2>8, <2>9, <2>10, <2>11, <2>12, <2>13, <2>14, <2>15
      DEF ThreadStep, WorkerStep, DispatchStep
  <1>3. CASE Break
    BY <1>3 DEF Break
  <1>4. CASE UNCHANGED vars
    BY <1>4 DEF vars
  <1>5. QED
    BY <1>1, <1>2, <1>3, <1>4, NextCases

LEMMA LockstepStep ==
    ASSUME TypeInv, HostInv, FreshInv, OwnerInv, Lockstep, [Next]_vars,
           ~Leaked', NEW t \in Sessions
    PROVE LockstepOf(t)'
  <1>0. \A u \in Sessions : LockstepOf(u)
    BY LeakedStays DEF Lockstep
  <1> HIDE DEF Lockstep
  <1> USE ExitFacts
      DEF TypeInv, TypeOK, JobsTyped, HostInv, FreshInv, LockstepOf, Busy, hostVars, evalVars, globals, threadVars, slotVars, chanVars
  <1>1. CASE HostStart \/ HostStep
    <2>1. CASE New
      BY <1>0, <2>1 DEF New
    <2>2. CASE EvalFailFast
      BY <1>0, <2>2 DEF EvalFailFast
    <2>3. CASE EvalCheck
      BY <1>0, <2>3 DEF EvalCheck
    <2>4. CASE DropSend
      BY <1>0, <2>4 DEF DropSend
    <2>5. CASE InstallRefused
      BY <1>0, <2>5 DEF InstallRefused
    <2>6. CASE Install
      BY <1>0, <2>6 DEF Install
    <2>7. CASE InstallSpawnFails
      BY <1>0, <2>7 DEF InstallSpawnFails
    <2>8. CASE EvalSend
      BY <1>0, <2>8 DEF EvalSend
    <2>9. CASE EvalSendFails
      BY <1>0, <2>9 DEF EvalSendFails
    <2>10. CASE EvalReply
      BY <1>0, <2>10 DEF EvalReply
    <2>11. CASE EvalTimeout
      BY <1>0, <2>11 DEF EvalTimeout, Trigger
    <2>12. CASE EvalGiveUp
      BY <1>0, <2>12 DEF EvalGiveUp
    <2>13. CASE EvalDisconnected
      BY <1>0, <2>13 DEF EvalDisconnected
    <2>14. CASE EvalRecordCause
      BY <1>0, <2>14 DEF EvalRecordCause
    <2>15. CASE DropJoin
      BY <1>0, <2>15 DEF DropJoin
    <2>16. CASE DropClear
      BY <1>0, <2>16 DEF DropClear
    <2>17. CASE DropClearInterrupter
      <3>1. wpc[held] = "exited"
        BY <2>17 DEF DropClearInterrupter, Leaked
      <3>2. QED
        BY <1>0, <2>17, <3>1 DEF DropClearInterrupter
    <2>18. QED
      BY <1>1, <2>1, <2>2, <2>3, <2>4, <2>5, <2>6, <2>7, <2>8, <2>9, <2>10, <2>11, <2>12, <2>13, <2>14, <2>15, <2>16, <2>17
      DEF HostStart, HostStep
  <1>2. ASSUME NEW s \in Sessions, ThreadStep(s) PROVE LockstepOf(t)'
    <2>1. CASE Boot(s)
      BY <1>0, <2>1 DEF Boot
    <2>2. CASE Setup(s)
      <3>1. PICK next \in {"loop", "join"} : wpc' = [wpc EXCEPT ![s] = next]
        BY <1>0, <2>2 DEF Setup
      <3>2. QED
        BY <1>0, <2>2, <3>1 DEF Setup
    <2>3. CASE RecordPanic(s)
      BY <1>0, <2>3 DEF RecordPanic
    <2>4. CASE Safepoint(s)
      BY <1>0, <2>4 DEF Safepoint, AfterSafepoint
    <2>5. CASE NextLock(s)
      BY <1>0, <2>5 DEF NextLock
    <2>6. CASE Take(s)
      BY <1>0, <2>6 DEF Take
    <2>7. CASE Interrupted(s)
      BY <1>0, <2>7 DEF Interrupted
    <2>8. CASE SignalDone(s)
      <3>0. s = held
        BY <1>0, <2>8 DEF SignalDone
      <3>1. s = held /\ current \in {None, s}
        BY <3>0
      <3>2. /\ dpc[s] = "wait" /\ job[s] = dcur[s] /\ pending[s] = None
            /\ <<s, dcur[s]>> \in ended
        BY <1>0, <2>8 DEF SignalDone
      <3>3. CASE t = s
        BY <1>0, <2>8, <3>1, <3>2, <3>3 DEF SignalDone
      <3>4. CASE t # s
        BY <1>0, <2>8, <3>1, <3>4 DEF SignalDone
      <3>5. QED
        BY <3>3, <3>4
    <2>9. CASE JoinDispatcher(s)
      BY <1>0, <2>9 DEF JoinDispatcher
    <2>10. CASE DispatchEval(s)
      BY <1>0, <2>10 DEF DispatchEval
    <2>11. CASE DispatchReply(s)
      <3>1. wpc[s] \notin Busy /\ pending[s] \notin Evals
        BY <1>0, <2>11 DEF DispatchReply
      <3>2. CASE t = s
        BY ZenonT(30), <1>0, <2>11, <3>1, <3>2 DEF DispatchReply
      <3>3. CASE t # s
        BY <1>0, <2>11, <3>3 DEF DispatchReply
      <3>4. QED
        BY <3>2, <3>3
    <2>12. CASE DispatchShutdown(s)
      BY <1>0, <2>12 DEF DispatchShutdown, DropReceiver
    <2>13. CASE BootPanic(s)
      BY <1>0, <2>13 DEF BootPanic, DropReceiver
    <2>14. CASE Finish(s)
      BY <1>0, <2>14 DEF Finish
    <2>15. CASE DispatchFlushPanics(s)
      <3>1. wpc[s] \notin Busy /\ pending[s] \notin Evals
        BY <1>0, <2>15 DEF DispatchFlushPanics
      <3>2. CASE t = s
        BY ZenonT(30), <1>0, <2>15, <3>1, <3>2 DEF DispatchFlushPanics
      <3>3. CASE t # s
        BY <1>0, <2>15, <3>3 DEF DispatchFlushPanics
      <3>4. QED
        BY <3>2, <3>3
    <2>16. QED
      BY <1>2, <2>1, <2>2, <2>3, <2>4, <2>5, <2>6, <2>7, <2>8, <2>9, <2>10, <2>11, <2>12, <2>13, <2>14, <2>15
      DEF ThreadStep, WorkerStep, DispatchStep
  <1>3. CASE Break
    BY <1>0, <1>3 DEF Break
  <1>4. CASE UNCHANGED vars
    BY <1>0, <1>4 DEF vars
  <1>5. QED
    BY <1>1, <1>2, <1>3, <1>4, NextCases

LEMMA RepliesStep ==
    ASSUME TypeInv, OwnerInv, ~Leaked, \A u \in Sessions : LockstepOf(u),
           ReplyMeansEvaluated, [Next]_vars
    PROVE \A e \in replied' : <<owner'[e], e>> \in ended'
  <1> SUFFICES ASSUME NEW e \in replied' PROVE <<owner'[e], e>> \in ended'
    OBVIOUS
  <1> USE DEF hostVars, evalVars, globals, threadVars, slotVars, chanVars
  <1>1. CASE \E s \in Sessions : DispatchReply(s) /\ e = dcur[s]
    <2>1. PICK s \in Sessions : DispatchReply(s) /\ e = dcur[s]
      BY <1>1
    <2>2. owner[e] = s /\ <<s, e>> \in ended
      BY <2>1 DEF DispatchReply, OwnerInv, LockstepOf
    <2>3. QED
      BY <2>1, <2>2 DEF DispatchReply
  <1>2. CASE ~\E s \in Sessions : DispatchReply(s) /\ e = dcur[s]
    <2>1. e \in replied
      <3>1. CASE HostStart \/ HostStep \/ Break
        BY <3>1 DEF HostStart, HostStep, Break, New, EvalFailFast, EvalCheck,
           DropSend, InstallRefused, Install, InstallSpawnFails, EvalSend,
           EvalSendFails, EvalReply, EvalTimeout, EvalGiveUp, EvalDisconnected,
           EvalRecordCause, DropJoin, DropClear, DropClearInterrupter
      <3>2. CASE \E s \in Sessions : ThreadStep(s)
        BY <1>2, <3>2 DEF ThreadStep, WorkerStep, DispatchStep, Boot, Setup,
           RecordPanic, Safepoint, NextLock, Take, Interrupted, SignalDone,
           JoinDispatcher, DispatchEval, DispatchReply, DispatchShutdown,
           BootPanic, Finish, DispatchFlushPanics
      <3>3. CASE UNCHANGED vars
        BY <3>3 DEF vars
      <3>4. QED
        BY <3>1, <3>2, <3>3, NextCases
    <2>2. <<owner[e], e>> \in ended /\ e \in Evals /\ owner[e] # None
      BY <2>1 DEF ReplyMeansEvaluated, OwnerInv, TypeInv, TypeOK
    <2>3. owner'[e] = owner[e] /\ ended \subseteq ended'
      <3>1. CASE EvalSend
        <4>1. e # issued + 1
          BY <2>2 DEF OwnerInv, Evals, TypeInv, TypeOK
        <4>2. QED
          BY <3>1, <4>1, <2>2 DEF EvalSend, TypeInv, TypeOK
      <3>2. CASE HostStart \/ Break \/ (HostStep /\ ~EvalSend)
        BY <3>2 DEF HostStart, HostStep, Break, New, EvalFailFast, EvalCheck,
           DropSend, InstallRefused, Install, InstallSpawnFails,
           EvalSendFails, EvalReply, EvalTimeout, EvalGiveUp, EvalDisconnected,
           EvalRecordCause, DropJoin, DropClear, DropClearInterrupter
      <3>3. CASE \E s \in Sessions : ThreadStep(s)
        BY <3>3 DEF ThreadStep, WorkerStep, DispatchStep, Boot, Setup,
           RecordPanic, Safepoint, NextLock, Take, Interrupted, SignalDone,
           JoinDispatcher, DispatchEval, DispatchReply, DispatchShutdown,
           BootPanic, Finish, DispatchFlushPanics
      <3>4. CASE UNCHANGED vars
        BY <3>4 DEF vars
      <3>5. QED
        BY <3>1, <3>2, <3>3, <3>4, NextCases
    <2>4. QED
      BY <2>2, <2>3
  <1>3. QED
    BY <1>1, <1>2

(* The inductive invariant: types, what the host's position implies, who    *)
(* owns which command, and the lockstep of worker, slot and dispatcher.     *)
IInv ==
    /\ TypeInv
    /\ HostInv
    /\ FreshInv
    /\ OwnerInv
    /\ Lockstep
    /\ ReplyMeansEvaluated

LEMMA InitIInv == Init => IInv
  <1> SUFFICES ASSUME Init PROVE IInv
    OBVIOUS
  <1>1. TypeInv
    BY InitType
  <1>2. HostInv /\ FreshInv /\ OwnerInv
    BY ExitFacts DEF Init, HostInv, FreshInv, OwnerInv
  <1>3. Lockstep /\ ReplyMeansEvaluated
    BY ExitFacts DEF Init, Lockstep, LockstepOf, Busy, ReplyMeansEvaluated
  <1>4. QED
    BY <1>1, <1>2, <1>3 DEF IInv

LEMMA IInvStep == IInv /\ [Next]_vars => IInv'
  <1> SUFFICES ASSUME IInv, [Next]_vars PROVE IInv'
    OBVIOUS
  <1> USE DEF IInv
  <1>1. TypeInv' /\ HostInv' /\ FreshInv' /\ OwnerInv'
    BY TypeStep, HostInvStep, FreshInvStep, OwnerInvStep
  <1>2. Lockstep'
    BY LockstepStep DEF Lockstep
  <1>3. ReplyMeansEvaluated'
    <2> SUFFICES ASSUME ~Leaked'
                 PROVE \A e \in replied' : <<owner'[e], e>> \in ended'
      BY DEF ReplyMeansEvaluated
    <2>1. ~Leaked /\ \A u \in Sessions : LockstepOf(u)
      BY LeakedStays DEF Lockstep
    <2>2. QED
      BY <2>1, RepliesStep
  <1>4. QED
    BY <1>1, <1>2, <1>3

LEMMA AlwaysIInv == Spec => []IInv
  BY InitIInv, IInvStep, PTL DEF Spec

(* As long as no timed-out worker is left behind, an Ok from Session::eval  *)
(* means that the Session's own VM ran that source to its end.              *)
THEOREM RepliesAreSound == Spec => []ReplyMeansEvaluated
  <1>1. IInv => ReplyMeansEvaluated
    BY DEF IInv
  <1>2. QED
    BY <1>1, AlwaysIInv, PTL

(* As long as no timed-out worker is left behind, at most one VM runs.      *)
THEOREM OneVm == Spec => []SingleVm
  <1>1. IInv => SingleVm
    BY DEF IInv, SingleVm, Lockstep, LockstepOf, Live
  <1>2. QED
    BY <1>1, AlwaysIInv, PTL

-----------------------------------------------------------------------------
(* Action properties *)

(* As long as no timed-out worker is left behind, a command leaves the slot *)
(* only into the worker of its own Session.                                 *)
THEOREM CommandsNotLost == Spec => CommandsReachOwnListener
  <1> DEFINE Reaches ==
        ~Leaked => \A s \in Sessions :
            pending[s] \in Evals /\ pending'[s] # pending[s]
                => job'[s] = pending[s]
  <1>1. IInv /\ [Next]_vars => [Reaches]_vars
    <2> SUFFICES ASSUME IInv, Next, ~Leaked, NEW t \in Sessions,
                        pending[t] \in Evals, pending'[t] # pending[t]
                 PROVE job'[t] = pending[t]
      BY DEF vars, hostVars, evalVars, globals, threadVars, slotVars, chanVars
    <2> USE ExitFacts DEF hostVars, evalVars, globals, threadVars, slotVars,
            chanVars
    <2>0. /\ TypeInv /\ HostInv
          /\ \A u \in Sessions : LockstepOf(u)
      BY DEF IInv, Lockstep
    <2>1. CASE HostStart \/ HostStep \/ Break
      BY <2>1 DEF HostStart, HostStep, Break, New, EvalFailFast, EvalCheck,
         DropSend, InstallRefused, Install, InstallSpawnFails, EvalSend,
         EvalSendFails, EvalReply, EvalTimeout, EvalGiveUp, EvalDisconnected,
         EvalRecordCause, DropJoin, DropClear, DropClearInterrupter
    <2>2. ASSUME NEW s \in Sessions, ThreadStep(s) PROVE job'[t] = pending[t]
      <3>1. CASE Take(s)
        <4>1. s = held
          BY <2>0, <3>1 DEF Take, LockstepOf
        <4>2. current = s
          BY <3>1, <4>1, <2>0 DEF Take, HostInv
        <4>3. QED
          BY <2>0, <3>1, <4>2 DEF Take, TypeInv, TypeOK
      <3>2. CASE DispatchEval(s)
        BY <2>0, <3>2 DEF DispatchEval, LockstepOf, TypeInv, TypeOK
      <3>3. CASE DispatchShutdown(s)
        BY <2>0, <3>3 DEF DispatchShutdown, LockstepOf, TypeInv, TypeOK
      <3>4. CASE Boot(s) \/ Setup(s) \/ RecordPanic(s) \/ Safepoint(s)
                 \/ NextLock(s) \/ Interrupted(s) \/ SignalDone(s)
                 \/ JoinDispatcher(s) \/ DispatchReply(s) \/ BootPanic(s)
                 \/ Finish(s) \/ DispatchFlushPanics(s)
        BY <3>4 DEF Boot, Setup, RecordPanic, Safepoint, NextLock, Interrupted,
           SignalDone, JoinDispatcher, DispatchReply, BootPanic, Finish,
           DispatchFlushPanics
      <3>5. QED
        BY <2>2, <3>1, <3>2, <3>3, <3>4 DEF ThreadStep, WorkerStep, DispatchStep
    <2>3. QED
      BY <2>1, <2>2, NextCases
  <1>2. QED
    BY <1>1, AlwaysIInv, PTL DEF Spec, CommandsReachOwnListener

LEMMA ReceiverInvStep ==
    ASSUME TypeInv, FreshInv, ReceiverInv, [Next]_vars PROVE ReceiverInv'
  <1> USE ExitFacts
      DEF TypeInv, TypeOK, JobsTyped, FreshInv, ReceiverInv, hostVars, evalVars, globals, threadVars, slotVars, chanVars
  <1>1. CASE HostStart \/ HostStep
    <2>1. CASE New
      BY <2>1 DEF New
    <2>2. CASE EvalFailFast
      BY <2>2 DEF EvalFailFast
    <2>3. CASE EvalCheck
      BY <2>3 DEF EvalCheck
    <2>4. CASE DropSend
      BY <2>4 DEF DropSend
    <2>5. CASE InstallRefused
      BY <2>5 DEF InstallRefused
    <2>6. CASE Install
      BY <2>6 DEF Install
    <2>7. CASE InstallSpawnFails
      BY <2>7 DEF InstallSpawnFails
    <2>8. CASE EvalSend
      BY <2>8 DEF EvalSend
    <2>9. CASE EvalSendFails
      BY <2>9 DEF EvalSendFails
    <2>10. CASE EvalReply
      BY <2>10 DEF EvalReply
    <2>11. CASE EvalTimeout
      BY <2>11 DEF EvalTimeout, Trigger
    <2>12. CASE EvalGiveUp
      BY <2>12 DEF EvalGiveUp
    <2>13. CASE EvalDisconnected
      BY <2>13 DEF EvalDisconnected
    <2>14. CASE EvalRecordCause
      BY <2>14 DEF EvalRecordCause
    <2>15. CASE DropJoin
      BY <2>15 DEF DropJoin
    <2>16. CASE DropClear
      BY <2>16 DEF DropClear
    <2>17. CASE DropClearInterrupter
      BY <2>17 DEF DropClearInterrupter
    <2>18. QED
      BY <1>1, <2>1, <2>2, <2>3, <2>4, <2>5, <2>6, <2>7, <2>8, <2>9, <2>10, <2>11, <2>12, <2>13, <2>14, <2>15, <2>16, <2>17
      DEF HostStart, HostStep
  <1>2. ASSUME NEW s \in Sessions, ThreadStep(s) PROVE ReceiverInv'
    <2>1. CASE Boot(s)
      BY <2>1 DEF Boot
    <2>2. CASE Setup(s)
      <3>1. PICK next \in {"loop", "join"} : wpc' = [wpc EXCEPT ![s] = next]
        BY <2>2 DEF Setup
      <3>2. QED
        BY <2>2, <3>1 DEF Setup
    <2>3. CASE RecordPanic(s)
      BY <2>3 DEF RecordPanic
    <2>4. CASE Safepoint(s)
      BY <2>4 DEF Safepoint, AfterSafepoint
    <2>5. CASE NextLock(s)
      BY <2>5 DEF NextLock
    <2>6. CASE Take(s)
      BY <2>6 DEF Take
    <2>7. CASE Interrupted(s)
      BY <2>7 DEF Interrupted
    <2>8. CASE SignalDone(s)
      BY <2>8 DEF SignalDone
    <2>9. CASE JoinDispatcher(s)
      BY <2>9 DEF JoinDispatcher
    <2>10. CASE DispatchEval(s)
      BY <2>10 DEF DispatchEval
    <2>11. CASE DispatchReply(s)
      BY <2>11 DEF DispatchReply
    <2>12. CASE DispatchShutdown(s)
      BY <2>12 DEF DispatchShutdown, DropReceiver
    <2>13. CASE BootPanic(s)
      BY <2>13 DEF BootPanic, DropReceiver
    <2>14. CASE Finish(s)
      BY <2>14 DEF Finish
    <2>15. CASE DispatchFlushPanics(s)
      BY <2>15 DEF DispatchFlushPanics, DropReceiver
    <2>16. QED
      BY <1>2, <2>1, <2>2, <2>3, <2>4, <2>5, <2>6, <2>7, <2>8, <2>9, <2>10, <2>11, <2>12, <2>13, <2>14, <2>15
      DEF ThreadStep, WorkerStep, DispatchStep
  <1>3. CASE Break
    BY <1>3 DEF Break
  <1>4. CASE UNCHANGED vars
    BY <1>4 DEF vars
  <1>5. QED
    BY <1>1, <1>2, <1>3, <1>4, NextCases

(* No command is queued on a Session marked dead, in spite of the gap       *)
(* between Session::eval's test of the mark and its send.                   *)
THEOREM DeadSessionsQuiet == Spec => DeadTakesNoCommand
  <1>1. Init => ReceiverInv
    BY DEF Init, ReceiverInv
  <1>2. IInv /\ ReceiverInv /\ [Next]_vars => ReceiverInv'
    BY ReceiverInvStep DEF IInv
  <1>3. IInv /\ ReceiverInv /\ [Next]_vars
          => [issued' # issued => dead[held] = "none"]_vars
    <2> SUFFICES ASSUME ReceiverInv, Next, issued' # issued
                 PROVE dead[held] = "none"
      BY DEF vars, evalVars
    <2> USE DEF hostVars, evalVars, globals, threadVars, slotVars, chanVars
    <2>1. CASE EvalSend
      BY <2>1 DEF EvalSend, ReceiverInv
    <2>2. CASE HostStart \/ Break \/ (HostStep /\ ~EvalSend)
      BY <2>2 DEF HostStart, HostStep, Break, New, EvalFailFast, EvalCheck,
         DropSend, InstallRefused, Install, InstallSpawnFails,
         EvalSendFails, EvalReply, EvalTimeout, EvalGiveUp, EvalDisconnected,
         EvalRecordCause, DropJoin, DropClear, DropClearInterrupter
    <2>3. CASE \E s \in Sessions : ThreadStep(s)
      BY <2>3 DEF ThreadStep, WorkerStep, DispatchStep, Boot, Setup,
         RecordPanic, Safepoint, NextLock, Take, Interrupted, SignalDone,
         JoinDispatcher, DispatchEval, DispatchReply, DispatchShutdown,
         BootPanic, Finish, DispatchFlushPanics
    <2>4. QED
      BY <2>1, <2>2, <2>3, NextCases
  <1>4. QED
    BY <1>1, <1>2, <1>3, AlwaysIInv, PTL DEF Spec, DeadTakesNoCommand
-----------------------------------------------------------------------------
(***************************************************************************)
(* Session implements EvalService: every step of host, worker, dispatcher  *)
(* and GUI is a step of the service, or none.                              *)
(*                                                                         *)
(* The inductive invariant above says which eval is where; what it does    *)
(* not say is in which order evals can still end.  That is OrderInv within *)
(* one Session, GenInv from Session to Session.                            *)
(***************************************************************************)

(* The host waits for an eval it has sent; when it has seen its Sender go, *)
(* no reply can come any more.                                             *)
WaitInv ==
    /\ hpc \in {"wait1", "wait2", "disc"} => issued # 0
    /\ hpc = "disc" => issued \notin replied /\ ~SenderAlive(issued)

(* The host holds the Session installed last, and evals are sent to        *)
(* Sessions in the order the Sessions were installed.                      *)
GenInv ==
    /\ held # None => held = gen
    /\ \A e \in Evals : owner[e] <= gen
    /\ \A d, e \in Evals : d < e /\ owner[e] # None => owner[d] <= owner[e]

(* A VM ends only evals that were sent to its own Session.                 *)
EndedInv == ~Leaked => \A s \in Sessions, e \in Evals :
                          <<s, e>> \in ended => owner[e] = s

(* What VM s has ended comes before the eval in its slot, that one before  *)
(* the eval in the VM's hands has ended, and both before what is queued.   *)
OrderOf(s) ==
    /\ \A i, j \in DOMAIN cmdq[s] :
          i < j /\ cmdq[s][i] \in Evals => cmdq[s][i] < cmdq[s][j]
    /\ dpc[s] = "wait" => \A i \in DOMAIN cmdq[s] : dcur[s] < cmdq[s][i]
    /\ \A d \in Evals : <<s, d>> \in ended =>
          /\ \A i \in DOMAIN cmdq[s] : d < cmdq[s][i]
          /\ pending[s] \in Evals \/ wpc[s] \in {"entry", "eval"} => d < dcur[s]

OrderInv == ~Leaked => \A s \in Sessions : OrderOf(s)

ServiceInv == WaitInv /\ GenInv /\ EndedInv /\ OrderInv


-----------------------------------------------------------------------------
(* Who waits, and for what *)

(* Nobody but the host's send makes a reply Sender.                        *)
LEMMA SendersVanish ==
    ASSUME TypeInv, [Next]_vars, ~EvalSend, NEW e, e # Exit, SenderAlive(e)'
    PROVE  SenderAlive(e)
  <1> USE DEF TypeInv, TypeOK, SenderAlive, hostVars, evalVars, globals,
              threadVars, slotVars, chanVars
  <1>1. CASE UNCHANGED <<cmdq, dpc, dcur>>
    BY <1>1
  <1>2. CASE DropSend
    <2>1. held \in Sessions
      BY <1>2 DEF DropSend
    <2>2. ASSUME NEW s \in Sessions, NEW i \in DOMAIN cmdq'[s], cmdq'[s][i] = e
          PROVE  i \in DOMAIN cmdq[s] /\ cmdq[s][i] = e
      BY <1>2, <2>1, <2>2 DEF DropSend
    <2> QED
      BY <1>2, <2>2 DEF DropSend
  <1>3. ASSUME NEW s \in Sessions, DispatchEval(s) PROVE SenderAlive(e)
    <2>1. /\ cmdq[s] \in Seq(Commands) /\ cmdq[s] # << >>
          /\ cmdq' = [cmdq EXCEPT ![s] = Tail(cmdq[s])]
          /\ dcur' = [dcur EXCEPT ![s] = Head(cmdq[s])]
          /\ dpc' = [dpc EXCEPT ![s] = "wait"]
      BY <1>3 DEF DispatchEval
    <2>2. PICK t \in Sessions : \/ \E i \in DOMAIN cmdq'[t] : cmdq'[t][i] = e
                                \/ dpc'[t] = "wait" /\ dcur'[t] = e
      OBVIOUS
    <2>3. CASE t # s
      BY <2>1, <2>2, <2>3
    <2>4. CASE t = s
      BY <2>1, <2>2, <2>4
    <2> QED
      BY <2>3, <2>4
  <1>4. ASSUME NEW s \in Sessions, DropReceiver(s), UNCHANGED <<dpc, dcur>>
               \/ (dpc' = [dpc EXCEPT ![s] = "exited"] /\ UNCHANGED dcur)
               \/ (dpc' = [dpc EXCEPT ![s] = "exited"]
                   /\ dcur' = [dcur EXCEPT ![s] = None])
        PROVE SenderAlive(e)
    BY <1>4 DEF DropReceiver
  <1>5. ASSUME NEW s \in Sessions, ThreadStep(s) PROVE SenderAlive(e)
    <2>1. CASE DispatchReply(s)
      BY <2>1 DEF DispatchReply
    <2>2. CASE Setup(s)
      BY <2>2 DEF Setup
    <2>3. CASE WorkerStep(s) /\ ~Setup(s)
      BY <1>1, <2>3 DEF WorkerStep, Boot, RecordPanic, Safepoint, NextLock,
         Take, Interrupted, SignalDone, JoinDispatcher
    <2>4. CASE Finish(s)
      BY <1>1, <2>4 DEF Finish
    <2>5. CASE BootPanic(s) \/ DispatchShutdown(s) \/ DispatchFlushPanics(s)
      BY <1>4, <2>5 DEF BootPanic, DispatchShutdown, DispatchFlushPanics
    <2> QED
      BY <1>3, <1>5, <2>1, <2>2, <2>3, <2>4, <2>5 DEF ThreadStep, DispatchStep
  <1>6. CASE HostStart \/ HostStep \/ Break
    BY <1>1, <1>2, <1>6 DEF HostStart, HostStep, Break, New, EvalFailFast,
       EvalCheck, InstallRefused, Install, InstallSpawnFails, EvalSendFails,
       EvalReply, EvalTimeout, EvalGiveUp, EvalDisconnected, EvalRecordCause,
       DropJoin, DropClear, DropClearInterrupter
  <1>7. CASE UNCHANGED vars
    BY <1>1, <1>7 DEF vars
  <1> QED
    BY <1>5, <1>6, <1>7, NextCases

(* A reply comes from the dispatcher that owns its Sender.                 *)
LEMMA RepliesFromSender ==
    ASSUME [Next]_vars, NEW e, e \in replied', e \notin replied
    PROVE  \E s \in Sessions : DispatchReply(s) /\ dcur[s] = e
  <1> USE DEF hostVars, evalVars, globals, threadVars, slotVars, chanVars
  <1>1. CASE HostStart \/ HostStep \/ Break
    BY <1>1 DEF HostStart, HostStep, Break, New, EvalFailFast, EvalCheck,
       DropSend, InstallRefused, Install, InstallSpawnFails, EvalSend,
       EvalSendFails, EvalReply, EvalTimeout, EvalGiveUp, EvalDisconnected,
       EvalRecordCause, DropJoin, DropClear, DropClearInterrupter
  <1>2. CASE \E s \in Sessions : ThreadStep(s)
    BY <1>2 DEF ThreadStep, WorkerStep, DispatchStep, Boot, Setup,
       RecordPanic, Safepoint, NextLock, Take, Interrupted, SignalDone,
       JoinDispatcher, DispatchEval, DispatchReply, DispatchShutdown,
       BootPanic, Finish, DispatchFlushPanics
  <1>3. CASE UNCHANGED vars
    BY <1>3 DEF vars
  <1> QED
    BY <1>1, <1>2, <1>3, NextCases

LEMMA WaitStep ==
    ASSUME TypeInv, WaitInv, [Next]_vars
    PROVE  WaitInv'
  <1> USE DEF hostVars, evalVars, globals, threadVars, slotVars, chanVars
  <1>0. issued \in Nat /\ issued # Exit
    BY BoundsAssumption DEF TypeInv, TypeOK, Exit
  <1>1. CASE EvalSend
    BY <1>0, <1>1 DEF EvalSend, WaitInv
  <1>2. CASE EvalDisconnected
    BY <1>2, SendersVanish DEF EvalDisconnected, EvalSend, WaitInv, SenderAlive
  <1>3. CASE ~EvalSend /\ ~EvalDisconnected
    <2>1. issued' = issued
      <3>1. CASE HostStart \/ HostStep \/ Break
        BY <1>3, <3>1 DEF HostStart, HostStep, Break, New, EvalFailFast,
           EvalCheck, DropSend, InstallRefused, Install, InstallSpawnFails,
           EvalSendFails, EvalReply, EvalTimeout, EvalGiveUp,
           EvalRecordCause, DropJoin, DropClear, DropClearInterrupter
      <3>2. CASE \E s \in Sessions : ThreadStep(s)
        BY <3>2 DEF ThreadStep, WorkerStep, DispatchStep, Boot, Setup,
           RecordPanic, Safepoint, NextLock, Take, Interrupted, SignalDone,
           JoinDispatcher, DispatchEval, DispatchReply, DispatchShutdown,
           BootPanic, Finish, DispatchFlushPanics
      <3> QED
        BY <3>1, <3>2, NextCases DEF vars
    <2>2. /\ hpc' = "disc" => hpc = "disc"
          /\ hpc' \in {"wait1", "wait2"} => hpc \in {"wait1", "wait2"}
      <3>1. CASE HostStart \/ HostStep \/ Break
        BY <1>3, <3>1 DEF HostStart, HostStep, Break, New, EvalFailFast,
           EvalCheck, DropSend, InstallRefused, Install, InstallSpawnFails,
           EvalSendFails, EvalReply, EvalTimeout, EvalGiveUp,
           EvalRecordCause, DropJoin, DropClear, DropClearInterrupter
      <3>2. CASE \E s \in Sessions : ThreadStep(s)
        BY <3>2 DEF ThreadStep, WorkerStep, DispatchStep, Boot, Setup,
           RecordPanic, Safepoint, NextLock, Take, Interrupted, SignalDone,
           JoinDispatcher, DispatchEval, DispatchReply, DispatchShutdown,
           BootPanic, Finish, DispatchFlushPanics
      <3> QED
        BY <3>1, <3>2, NextCases DEF vars
    <2>3. ASSUME hpc = "disc" PROVE ~SenderAlive(issued)'
      <3>1. PICK e : e = issued
        OBVIOUS
      <3>2. ~SenderAlive(e)'
        BY <1>0, <1>3, <2>3, <3>1, SendersVanish DEF WaitInv
      <3> QED
        BY <2>1, <3>1, <3>2 DEF SenderAlive
    <2>4. ASSUME hpc = "disc" PROVE issued \notin replied'
      BY <2>4, RepliesFromSender DEF WaitInv, SenderAlive, DispatchReply
    <2> QED
      BY <2>1, <2>2, <2>3, <2>4 DEF WaitInv
  <1> QED
    BY <1>1, <1>2, <1>3

-----------------------------------------------------------------------------
(* The order of evals *)

LEMMA GenStep ==
    ASSUME TypeInv, HostInv, OwnerInv, GenInv, [Next]_vars
    PROVE  GenInv'
  <1> USE DEF hostVars, evalVars, globals, threadVars, slotVars, chanVars
  <1>0. /\ gen \in Nat /\ held \in Sessions \cup {None} /\ issued \in Nat
        /\ owner \in [Evals -> Sessions \cup {None}]
    BY BoundsAssumption DEF TypeInv, TypeOK
  <1>1. CASE UNCHANGED <<held, gen, owner>>
    BY <1>1 DEF GenInv
  <1>2. CASE Install \/ InstallSpawnFails
    <2>1. /\ held = None /\ gen' = gen + 1 /\ owner' = owner
          /\ held' \in {None, gen + 1}
      BY <1>2, ExitFacts DEF Install, InstallSpawnFails, HostInv
    <2>2. \A e \in Evals : owner[e] <= gen + 1
      <3>1. Sessions \cup {None} \subseteq Nat
        BY BoundsAssumption DEF Sessions
      <3>2. \A e \in Evals : owner[e] \in Nat /\ owner[e] <= gen
        BY <1>0, <3>1 DEF GenInv
      <3> QED
        BY <1>0, <3>2
    <2> QED
      BY <2>1, <2>2 DEF GenInv
  <1>3. CASE EvalSend
    <2>1. /\ held = gen /\ held' = held /\ gen' = gen
          /\ owner' = [owner EXCEPT ![issued + 1] = gen]
      BY <1>3 DEF EvalSend, GenInv, TypeInv, JobsTyped
    <2>2. \A e \in Evals : owner'[e] = IF e = issued + 1 THEN gen ELSE owner[e]
      BY <1>0, <2>1
    <2>3. \A e \in Evals : owner'[e] <= gen
      BY <1>0, <2>2 DEF GenInv
    <2>4. \A e \in Evals : e > issued => owner[e] = None
      BY DEF OwnerInv
    <2>5. ASSUME NEW d \in Evals, NEW e \in Evals, d < e, owner'[e] # None
          PROVE  owner'[d] <= owner'[e]
      <3>1. CASE e = issued + 1
        BY <2>2, <2>3, <3>1
      <3>2. CASE e # issued + 1
        <4>1. e <= issued /\ d # issued + 1
          BY <1>0, <2>2, <2>4, <2>5, <3>2 DEF Evals
        <4> QED
          BY <2>2, <2>5, <3>2, <4>1 DEF GenInv
      <3> QED
        BY <3>1, <3>2
    <2> QED
      BY <2>1, <2>3, <2>5 DEF GenInv
  <1>4. CASE DropClearInterrupter
    BY <1>4 DEF DropClearInterrupter, GenInv
  <1>5. CASE HostStart \/ Break
    BY <1>1, <1>5 DEF HostStart, Break, New, EvalFailFast, EvalCheck, DropSend
  <1>6. CASE HostStep
    BY <1>1, <1>2, <1>3, <1>4, <1>6 DEF HostStep, InstallRefused,
       EvalSendFails, EvalReply, EvalTimeout, EvalGiveUp, EvalDisconnected,
       EvalRecordCause, DropJoin, DropClear
  <1>7. CASE \E s \in Sessions : ThreadStep(s)
    BY <1>1, <1>7 DEF ThreadStep, WorkerStep, DispatchStep, Boot, Setup,
       RecordPanic, Safepoint, NextLock, Take, Interrupted, SignalDone,
       JoinDispatcher, DispatchEval, DispatchReply, DispatchShutdown,
       BootPanic, Finish, DispatchFlushPanics
  <1>8. CASE UNCHANGED vars
    BY <1>1, <1>8 DEF vars
  <1> QED
    BY <1>5, <1>6, <1>7, <1>8, NextCases

(* An eval ends where it was sent to.                                      *)
LEMMA EndsAtOwner ==
    ASSUME TypeInv, OwnerInv, NEW s \in Sessions, LockstepOf(s),
           Finish(s) \/ Interrupted(s)
    PROVE  /\ job[s] = dcur[s] /\ job[s] \in Evals /\ owner[job[s]] = s
           /\ ended' = ended \cup {<<s, job[s]>>}
           /\ dpc[s] = "wait" /\ s = held
           /\ owner' = owner
  <1>1. wpc[s] = "eval" /\ wpc[s] \in Busy
    BY DEF Finish, Interrupted, Busy
  <1>2. dpc[s] = "wait" /\ job[s] = dcur[s] /\ s = held
    BY <1>1 DEF LockstepOf
  <1> QED
    BY <1>1, <1>2 DEF TypeInv, JobsTyped, OwnerInv, Finish, Interrupted, evalVars

(* The steps that end no eval, and give none an owner, or do.              *)
LEMMA EndedCases ==
    ASSUME [Next]_vars
    PROVE  \/ UNCHANGED <<ended, owner>>
           \/ EvalSend
           \/ \E s \in Sessions : Finish(s) \/ Interrupted(s)
  <1> USE DEF hostVars, evalVars, globals, threadVars, slotVars, chanVars
  <1>1. CASE HostStart \/ HostStep \/ Break
    BY <1>1 DEF HostStart, HostStep, Break, New, EvalFailFast, EvalCheck,
       DropSend, InstallRefused, Install, InstallSpawnFails,
       EvalSendFails, EvalReply, EvalTimeout, EvalGiveUp, EvalDisconnected,
       EvalRecordCause, DropJoin, DropClear, DropClearInterrupter
  <1>2. CASE \E s \in Sessions : ThreadStep(s)
    BY <1>2 DEF ThreadStep, WorkerStep, DispatchStep, Boot, Setup,
       RecordPanic, Safepoint, NextLock, Take, SignalDone,
       JoinDispatcher, DispatchEval, DispatchReply, DispatchShutdown,
       BootPanic, DispatchFlushPanics
  <1>3. CASE UNCHANGED vars
    BY <1>3 DEF vars
  <1> QED
    BY <1>1, <1>2, <1>3, NextCases

LEMMA EndedStep ==
    ASSUME TypeInv, OwnerInv, \A s \in Sessions : LockstepOf(s), [Next]_vars,
           ~Leaked, EndedInv
    PROVE  EndedInv'
  <1>1. CASE UNCHANGED <<ended, owner>>
    BY <1>1 DEF EndedInv
  <1>2. CASE EvalSend
    <2>1. ended' = ended /\ owner' = [owner EXCEPT ![issued + 1] = held]
      BY <1>2 DEF EvalSend
    <2>2. issued \in Nat /\ owner \in [Evals -> Sessions \cup {None}]
      BY BoundsAssumption DEF TypeInv, TypeOK
    <2>3. \A s \in Sessions, e \in Evals :
             <<s, e>> \in ended => owner[e] = s /\ e # issued + 1
      BY <2>2, ExitFacts DEF EndedInv, OwnerInv
    <2> QED
      BY <2>1, <2>2, <2>3 DEF EndedInv
  <1>3. ASSUME NEW s \in Sessions, Finish(s) \/ Interrupted(s)
        PROVE  EndedInv'
    BY <1>3, EndsAtOwner DEF EndedInv
  <1> QED
    BY <1>1, <1>2, <1>3, EndedCases

LEMMA OrderStep ==
    ASSUME TypeInv, HostInv, OwnerInv, \A s \in Sessions : LockstepOf(s),
           \A s \in Sessions : OrderOf(s), EndedInv, ~Leaked,
           [Next]_vars, NEW t \in Sessions
    PROVE  OrderOf(t)'
  <1> USE DEF hostVars, evalVars, globals, threadVars, slotVars, chanVars
  <1>t. /\ cmdq \in [Sessions -> Seq(Commands)] /\ dcur \in [Sessions -> Evals \cup {None}]
        /\ wpc \in [Sessions -> WorkerPcs] /\ dpc \in [Sessions -> DispatchPcs]
        /\ pending \in [Sessions -> Commands \cup {None}]
    BY DEF TypeInv, TypeOK
  <1>n. Evals \subseteq Nat /\ Exit \in Nat /\ \A e \in Evals : e < Exit
    BY BoundsAssumption DEF Evals, Exit
  <1>1. CASE /\ UNCHANGED <<cmdq, dpc, dcur, ended, pending>>
             /\ wpc'[t] \in {"entry", "eval"} => wpc[t] \in {"entry", "eval"}
    BY <1>1 DEF OrderOf
  <1>2. CASE DropSend
    <2>1. /\ UNCHANGED <<dpc, dcur, ended, pending, wpc>> /\ held \in Sessions
          /\ cmdq' = cmdq \/ cmdq' = [cmdq EXCEPT ![held] = Append(@, Exit)]
      BY <1>2 DEF DropSend, TypeInv, TypeOK
    <2>2. CASE cmdq'[t] = cmdq[t]
      BY <2>1, <2>2 DEF OrderOf
    <2>3. CASE cmdq'[t] = Append(cmdq[t], Exit)
      <3>1. /\ cmdq[t] \in Seq(Commands) /\ OrderOf(t)
            /\ dpc[t] = "wait" => dcur[t] \in Evals
        BY <1>t DEF TypeInv, JobsTyped
      <3>2. \A i \in DOMAIN cmdq'[t] :
               \/ i \in DOMAIN cmdq[t] /\ cmdq'[t][i] = cmdq[t][i]
               \/ i = Len(cmdq[t]) + 1 /\ cmdq'[t][i] = Exit
        BY <2>3, <3>1
      <3>3. \A i \in DOMAIN cmdq[t] : i \in Nat /\ i <= Len(cmdq[t])
        BY <3>1
      <3>4. \A i, j \in DOMAIN cmdq'[t] :
               i < j /\ cmdq'[t][i] \in Evals => cmdq'[t][i] < cmdq'[t][j]
        <4> SUFFICES ASSUME NEW i \in DOMAIN cmdq'[t], NEW j \in DOMAIN cmdq'[t],
                            i < j, cmdq'[t][i] \in Evals
                     PROVE  cmdq'[t][i] < cmdq'[t][j]
          OBVIOUS
        <4>1. CASE j \in DOMAIN cmdq[t] /\ cmdq'[t][j] = cmdq[t][j]
          <5>1. i \in DOMAIN cmdq[t] /\ cmdq'[t][i] = cmdq[t][i]
            BY <3>1, <3>2, <3>3, <4>1
          <5> QED
            BY <3>1, <4>1, <5>1 DEF OrderOf
        <4>2. CASE cmdq'[t][j] = Exit
          BY <1>n, <4>2
        <4> QED
          BY <3>2, <4>1, <4>2
      <3>5. dpc[t] = "wait" => \A i \in DOMAIN cmdq'[t] : dcur[t] < cmdq'[t][i]
        BY <1>n, <3>1, <3>2 DEF OrderOf
      <3>6. \A d \in Evals : <<t, d>> \in ended =>
               \A i \in DOMAIN cmdq'[t] : d < cmdq'[t][i]
        BY <1>n, <3>1, <3>2 DEF OrderOf
      <3> QED
        BY <2>1, <3>1, <3>4, <3>5, <3>6 DEF OrderOf
    <2> QED
      BY <1>t, <2>1, <2>2, <2>3
  <1>3. CASE EvalSend
    <2>1. /\ UNCHANGED <<dpc, dcur, ended, pending, wpc>>
          /\ held \in Sessions /\ issued \in Nat /\ issued + 1 \in Evals
          /\ cmdq' = [cmdq EXCEPT ![held] = Append(@, issued + 1)]
      BY <1>3, BoundsAssumption DEF EvalSend, TypeInv, TypeOK, JobsTyped, Evals
    <2>2. CASE t # held
      BY <1>t, <2>1, <2>2 DEF OrderOf
    <2>3. CASE t = held
      <3>0. \A e \in Evals : owner[e] = t => e < issued + 1
        BY <1>n, <2>1, ExitFacts DEF OwnerInv
      <3>1. /\ cmdq[t] \in Seq(Commands) /\ OrderOf(t)
            /\ dpc[t] = "wait" => dcur[t] \in Evals /\ owner[dcur[t]] = t
        BY <1>t DEF TypeInv, JobsTyped, OwnerInv
      <3>2. \A i \in DOMAIN cmdq'[t] :
               \/ i \in DOMAIN cmdq[t] /\ cmdq'[t][i] = cmdq[t][i]
               \/ i = Len(cmdq[t]) + 1 /\ cmdq'[t][i] = issued + 1
        BY <1>t, <2>1, <2>3, <3>1
      <3>3. \A i \in DOMAIN cmdq[t] :
               /\ i \in Nat /\ i <= Len(cmdq[t])
               /\ cmdq[t][i] \in Evals => cmdq[t][i] < issued + 1
        BY <3>0, <3>1 DEF OwnerInv
      <3>4. \A i, j \in DOMAIN cmdq'[t] :
               i < j /\ cmdq'[t][i] \in Evals => cmdq'[t][i] < cmdq'[t][j]
        BY <1>n, <3>1, <3>2, <3>3 DEF OrderOf
      <3>5. dpc[t] = "wait" => \A i \in DOMAIN cmdq'[t] : dcur[t] < cmdq'[t][i]
        BY <1>n, <3>0, <3>1, <3>2 DEF OrderOf
      <3>6. \A d \in Evals : <<t, d>> \in ended =>
               \A i \in DOMAIN cmdq'[t] : d < cmdq'[t][i]
        BY <1>n, <3>0, <3>1, <3>2 DEF OrderOf, EndedInv
      <3> QED
        BY <2>1, <3>1, <3>4, <3>5, <3>6 DEF OrderOf
    <2> QED
      BY <2>2, <2>3
  <1>4. ASSUME NEW s \in Sessions, ThreadStep(s) PROVE OrderOf(t)'
    <2>1. CASE DispatchEval(s)
      <3> DEFINE h == Head(cmdq[s])
      <3>1. /\ UNCHANGED <<wpc, ended>> /\ h \in Evals
            /\ cmdq[s] \in Seq(Commands) /\ cmdq[s] # << >>
            /\ pending' = [pending EXCEPT ![s] = h]
            /\ dcur' = [dcur EXCEPT ![s] = h]
            /\ cmdq' = [cmdq EXCEPT ![s] = Tail(cmdq[s])]
            /\ dpc' = [dpc EXCEPT ![s] = "wait"]
        BY <1>t, <2>1 DEF DispatchEval
      <3>2. /\ 1 \in DOMAIN cmdq[s] /\ cmdq[s][1] = h
            /\ \A i \in DOMAIN Tail(cmdq[s]) :
                 i \in Nat /\ i + 1 \in DOMAIN cmdq[s] /\ i > 0
                 /\ Tail(cmdq[s])[i] = cmdq[s][i + 1]
        BY <3>1
      <3> HIDE DEF h
      <3>3. CASE t # s
        BY <1>t, <3>1, <3>3 DEF OrderOf
      <3>4. CASE t = s
        <4>0. OrderOf(s)
          OBVIOUS
        <4>1. \A i, j \in DOMAIN Tail(cmdq[s]) :
                 i < j /\ Tail(cmdq[s])[i] \in Evals
                   => Tail(cmdq[s])[i] < Tail(cmdq[s])[j]
          <5> SUFFICES ASSUME NEW i \in DOMAIN Tail(cmdq[s]),
                              NEW j \in DOMAIN Tail(cmdq[s]),
                              i < j, Tail(cmdq[s])[i] \in Evals
                       PROVE  Tail(cmdq[s])[i] < Tail(cmdq[s])[j]
            OBVIOUS
          <5>1. /\ i + 1 \in DOMAIN cmdq[s] /\ j + 1 \in DOMAIN cmdq[s]
                /\ i + 1 < j + 1
            BY <3>2
          <5>2. /\ Tail(cmdq[s])[i] = cmdq[s][i + 1]
                /\ Tail(cmdq[s])[j] = cmdq[s][j + 1]
            BY <3>2
          <5> QED
            BY <4>0, <5>1, <5>2 DEF OrderOf
        <4>2. \A i \in DOMAIN Tail(cmdq[s]) : h < Tail(cmdq[s])[i]
          BY <3>1, <3>2, <4>0 DEF OrderOf
        <4>3. \A d \in Evals : <<s, d>> \in ended =>
                 /\ \A i \in DOMAIN Tail(cmdq[s]) : d < Tail(cmdq[s])[i]
                 /\ d < h
          BY <3>1, <3>2, <4>0 DEF OrderOf
        <4>4. /\ cmdq'[s] = Tail(cmdq[s]) /\ dcur'[s] = h /\ pending'[s] = h
          BY <1>t, <3>1
        <4> QED
          BY <3>1, <3>4, <4>1, <4>2, <4>3, <4>4 DEF OrderOf
      <3> QED
        BY <3>3, <3>4
    <2>2. CASE DispatchReply(s)
      <3>1. /\ dpc[s] = "wait" /\ done[s] /\ UNCHANGED <<cmdq, pending, wpc, ended>>
            /\ dcur' = [dcur EXCEPT ![s] = None]
            /\ dpc' = [dpc EXCEPT ![s] = "recv"]
        BY <2>2 DEF DispatchReply
      <3>2. wpc[s] \notin {"entry", "eval"} /\ pending[s] \notin Evals
        BY <3>1 DEF LockstepOf, Busy
      <3> QED
        BY <1>t, <3>1, <3>2 DEF OrderOf
    <2>3. CASE BootPanic(s) \/ DispatchShutdown(s) \/ DispatchFlushPanics(s)
      <3>1. /\ cmdq' = [cmdq EXCEPT ![s] = << >>] /\ ended' = ended
            /\ pending' = pending \/ pending' = [pending EXCEPT ![s] = Exit]
            /\ wpc' = wpc \/ wpc' = [wpc EXCEPT ![s] = "unwound"]
            /\ dpc' = dpc \/ dpc' = [dpc EXCEPT ![s] = "exited"]
            /\ \/ dcur' = dcur
               \/ /\ dcur' = [dcur EXCEPT ![s] = None] /\ UNCHANGED <<wpc, pending>>
                  /\ dpc[s] = "wait" /\ done[s]
        BY <2>3 DEF BootPanic, DispatchShutdown, DispatchFlushPanics, DropReceiver
      <3>2. CASE t # s
        BY <1>t, <3>1, <3>2 DEF OrderOf
      <3>3. CASE t = s
        <4>1. cmdq'[s] = << >>
          BY <1>t, <3>1
        <4>2. CASE dcur' = dcur
          <5>1. /\ pending'[s] \in Evals => pending[s] \in Evals
                /\ wpc'[s] \in {"entry", "eval"} => wpc[s] \in {"entry", "eval"}
            BY <1>t, <3>1, ExitFacts
          <5> QED
            BY <3>1, <3>3, <4>1, <4>2, <5>1 DEF OrderOf
        <4>3. CASE UNCHANGED <<wpc, pending>> /\ dpc[s] = "wait" /\ done[s]
          <5>1. wpc[s] \notin {"entry", "eval"} /\ pending[s] \notin Evals
            BY <4>3 DEF LockstepOf, Busy
          <5> QED
            BY <3>1, <3>3, <4>1, <4>3, <5>1 DEF OrderOf
        <4> QED
          BY <3>1, <4>2, <4>3
      <3> QED
        BY <3>2, <3>3
    <2>4. CASE Setup(s)
      <3>1. PICK next \in {"loop", "join"} : wpc' = [wpc EXCEPT ![s] = next]
        BY <2>4 DEF Setup
      <3>2. /\ dpc' = [dpc EXCEPT ![s] = "recv"]
            /\ UNCHANGED <<cmdq, dcur, ended, pending>>
        BY <2>4 DEF Setup
      <3> QED
        BY <1>t, <3>1, <3>2 DEF OrderOf
    <2>5. CASE Take(s)
      <3>1. s = held /\ current = s
        <4>1. s = held
          BY <2>5 DEF Take, LockstepOf
        <4> QED
          BY <2>5, <4>1, ExitFacts DEF Take, HostInv
      <3>2. /\ pending' = [pending EXCEPT ![s] = None] /\ pending[s] # None
            /\ UNCHANGED <<cmdq, dpc, dcur, ended>>
            /\ wpc' = [wpc EXCEPT ![s] = wpc'[s]]
            /\ wpc'[s] \in {"entry", "eval"} => pending[s] # Exit
        BY <1>t, <2>5, <3>1 DEF Take
      <3>3. pending[s] \in Evals \/ pending[s] = Exit
        BY <1>t, <3>2
      <3> QED
        BY <1>t, <3>2, <3>3, ExitFacts DEF OrderOf
    <2>6. CASE Finish(s) \/ Interrupted(s)
      <3>1. /\ UNCHANGED <<cmdq, dpc, dcur, pending>>
            /\ wpc' = [wpc EXCEPT ![s] = "done"] /\ wpc[s] = "eval"
        BY <2>6 DEF Finish, Interrupted
      <3>2. /\ ended' = ended \cup {<<s, dcur[s]>>} /\ dpc[s] = "wait"
            /\ pending[s] = None
        BY <2>6, <3>1, EndsAtOwner DEF LockstepOf, Busy
      <3>3. CASE t # s
        BY <1>t, <3>1, <3>2, <3>3 DEF OrderOf
      <3>4. CASE t = s
        BY <1>t, <3>1, <3>2, <3>4, ExitFacts DEF OrderOf
      <3> QED
        BY <3>3, <3>4
    <2>7. CASE Safepoint(s)
      <3>1. UNCHANGED <<cmdq, dpc, dcur, ended, pending>>
        BY <2>7 DEF Safepoint
      <3>2. wpc'[t] \in {"entry", "eval"} => wpc[t] \in {"entry", "eval"}
        BY <1>t, <2>7 DEF Safepoint, AfterSafepoint
      <3> QED
        BY <1>1, <3>1, <3>2
    <2>8. CASE Boot(s) \/ RecordPanic(s) \/ NextLock(s) \/ SignalDone(s)
               \/ JoinDispatcher(s)
      BY <1>1, <1>t, <2>8 DEF Boot, RecordPanic, NextLock, SignalDone, JoinDispatcher
    <2> QED
      BY <1>4, <2>1, <2>2, <2>3, <2>4, <2>5, <2>6, <2>7, <2>8
         DEF ThreadStep, WorkerStep, DispatchStep
  <1>5. CASE Install
    <2>1. gen + 1 \in Sessions
      BY <1>5, BoundsAssumption DEF Install, TypeInv, TypeOK, Sessions
    <2> QED
      BY <1>1, <1>t, <1>5, <2>1 DEF Install
  <1>6. CASE HostStart \/ HostStep \/ Break
    BY <1>1, <1>2, <1>3, <1>5, <1>6 DEF HostStart, HostStep, Break, New,
       EvalFailFast, EvalCheck, InstallRefused, InstallSpawnFails,
       EvalSendFails, EvalReply, EvalTimeout, EvalGiveUp, EvalDisconnected,
       EvalRecordCause, DropJoin, DropClear, DropClearInterrupter
  <1>7. CASE UNCHANGED vars
    BY <1>1, <1>7 DEF vars
  <1> QED
    BY <1>4, <1>6, <1>7, NextCases

LEMMA InitServiceInv == Init => ServiceInv
  <1> SUFFICES ASSUME Init PROVE ServiceInv
    OBVIOUS
  <1>1. WaitInv /\ GenInv
    BY BoundsAssumption DEF Init, WaitInv, GenInv, Evals
  <1>2. EndedInv /\ OrderInv
    BY DEF Init, EndedInv, OrderInv, OrderOf
  <1> QED
    BY <1>1, <1>2 DEF ServiceInv

LEMMA ServiceInvStep ==
    ASSUME IInv, ServiceInv, [Next]_vars
    PROVE  ServiceInv'
  <1> USE DEF ServiceInv, IInv
  <1>1. WaitInv' /\ GenInv'
    BY WaitStep, GenStep
  <1>2. Leaked => Leaked'
    BY LeakedStays
  <1>3. ~Leaked => \A s \in Sessions : LockstepOf(s) /\ OrderOf(s)
    BY DEF Lockstep, OrderInv
  <1>4. EndedInv'
    BY <1>2, <1>3, EndedStep DEF EndedInv
  <1>5. OrderInv'
    BY <1>2, <1>3, OrderStep DEF OrderInv
  <1> QED
    BY <1>1, <1>4, <1>5

-----------------------------------------------------------------------------
(* The refinement, step by step *)

(* The refinement mapping of SessionService, named.                        *)
Waiting == IF hpc \in {"wait1", "wait2", "disc"} THEN issued ELSE 0
Ran == {e \in Evals : <<owner[e], e>> \in ended}

LEMMA Stutters ==
    ASSUME UNCHANGED <<issued, Waiting, Ran, replied, outcome, Leaked>>
    PROVE  UNCHANGED Service!vars
  BY DEF Service!vars, Waiting, Ran

(* Steps that change no queue of evals the service knows of.               *)
LEMMA RanUnchanged ==
    ASSUME UNCHANGED <<ended, owner>>
    PROVE  Ran' = Ran
  BY DEF Ran

LEMMA InitMaps == Init => Service!Init
  BY DEF Init, Service!Init, Leaked, Sessions

(* A call that returns without having sent anything.                       *)
LEMMA OtherCallMaps ==
    ASSUME Waiting = 0, Waiting' = 0, UNCHANGED <<issued, Ran, replied, Leaked>>,
           outcome' \in {"ok", "died", "AlreadyRunning", "WorkerSpawn"}
    PROVE  Service!OtherCall
  BY DEF Service!OtherCall, Waiting, Ran

LEMMA ReturnMaps ==
    ASSUME hpc \in {"wait1", "wait2", "disc"}, issued # 0, hpc' = "idle",
           UNCHANGED <<issued, Ran, replied, Leaked>>,
           outcome' = IF issued \in replied THEN "ok" ELSE "died"
    PROVE  Service!Return
  BY DEF Service!Return, Ran

(* Marking the Session the host holds leaves no worker behind.             *)
LEMMA HeldMarked ==
    ASSUME TypeInv, held' = held, held # None,
           NEW c, dead' = [dead EXCEPT ![held] = c]
    PROVE  Leaked' = Leaked
  BY DEF Leaked, TypeInv, TypeOK

LEMMA NothingMarked ==
    ASSUME UNCHANGED <<held, dead>>
    PROVE  Leaked' = Leaked
  BY DEF Leaked

(* Every step of the host, when no worker was left behind.                 *)
LEMMA HostMaps ==
    ASSUME IInv, ServiceInv, ~Leaked, HostStart \/ HostStep
    PROVE  Service!Next \/ UNCHANGED Service!vars
  <1> USE DEF evalVars, globals, threadVars, slotVars, chanVars
  <1>0. /\ TypeInv /\ HostInv /\ FreshInv /\ OwnerInv /\ WaitInv /\ GenInv
        /\ EndedInv
    BY DEF IInv, ServiceInv
  <1>1. CASE New \/ EvalCheck \/ EvalTimeout \/ EvalDisconnected
             \/ DropSend \/ DropJoin \/ DropClear
    <2>1. UNCHANGED <<issued, ended, owner, replied, outcome, held, dead>>
      BY <1>1 DEF New, EvalCheck, EvalTimeout, EvalDisconnected, DropSend,
         DropJoin, DropClear
    <2>2. Waiting' = Waiting
      BY <1>1 DEF New, EvalCheck, EvalTimeout, EvalDisconnected, DropSend,
         DropJoin, DropClear, Waiting
    <2> QED
      BY <2>1, <2>2, NothingMarked, RanUnchanged, Stutters
  <1>2. CASE EvalFailFast \/ InstallRefused \/ InstallSpawnFails
    <2>1. /\ UNCHANGED <<issued, ended, owner, replied, held, dead>>
          /\ Waiting = 0 /\ Waiting' = 0
          /\ outcome' \in {"died", "AlreadyRunning", "WorkerSpawn"}
      BY <1>2 DEF EvalFailFast, InstallRefused, InstallSpawnFails, Waiting
    <2> QED
      BY <2>1, NothingMarked, RanUnchanged, OtherCallMaps DEF Service!Next
  <1>3. CASE Install
    <2>1. /\ UNCHANGED <<issued, ended, owner, replied, dead>>
          /\ Waiting = 0 /\ Waiting' = 0 /\ outcome' = "ok"
          /\ held' = gen + 1 /\ held = None /\ gen + 1 \in Sessions
      BY <1>0, <1>3, ExitFacts, BoundsAssumption
         DEF Install, Waiting, HostInv, TypeInv, TypeOK, Sessions
    <2>2. dead[gen + 1] = "none"
      BY <1>0, <2>1 DEF FreshInv, TypeInv, TypeOK
    <2>3. Leaked' = Leaked
      BY <2>1, <2>2, ExitFacts DEF Leaked
    <2> QED
      BY <2>1, <2>3, RanUnchanged, OtherCallMaps DEF Service!Next
  <1>4. CASE EvalSendFails
    <2>1. /\ UNCHANGED <<issued, ended, owner, replied, held>> /\ held # None
          /\ Waiting = 0 /\ Waiting' = 0 /\ outcome' = "died"
          /\ dead' = [dead EXCEPT ![held] = "WorkerGone"]
      BY <1>0, <1>4 DEF EvalSendFails, Waiting, TypeInv, JobsTyped
    <2> QED
      BY <1>0, <2>1, HeldMarked, RanUnchanged, OtherCallMaps DEF Service!Next
  <1>5. CASE EvalSend
    <2>1. /\ UNCHANGED <<ended, replied, held, dead, outcome>>
          /\ issued \in Nat /\ issued < MaxEvals /\ issued' = issued + 1
          /\ hpc = "send" /\ hpc' = "wait1" /\ held \in Sessions
          /\ owner' = [owner EXCEPT ![issued + 1] = held]
      BY <1>0, <1>5, BoundsAssumption DEF EvalSend, TypeInv, TypeOK, JobsTyped
    <2>2. <<held, issued + 1>> \notin ended /\ <<None, issued + 1>> \notin ended
      <3>1. issued + 1 \in Evals
        BY <2>1, BoundsAssumption DEF Evals
      <3>2. owner[issued + 1] = None
        BY <1>0, <2>1, <3>1 DEF OwnerInv
      <3> QED
        BY <1>0, <2>1, <3>1, <3>2, ExitFacts DEF EndedInv, TypeInv, TypeOK
    <2>3. Ran' = Ran
      <3>1. owner \in [Evals -> Sessions \cup {None}]
        BY <1>0 DEF TypeInv, TypeOK
      <3>2. owner[issued + 1] = None
        BY <1>0, <2>1, <3>1, BoundsAssumption DEF OwnerInv, Evals
      <3>3. ASSUME NEW e \in Evals
            PROVE  <<owner'[e], e>> \in ended <=> <<owner[e], e>> \in ended
        BY <2>1, <2>2, <3>1, <3>2, <3>3
      <3> QED
        BY <2>1, <3>3 DEF Ran
    <2>4. Leaked' = Leaked
      BY <2>1, NothingMarked
    <2>5. Service!Send
      BY <2>1, <2>3, <2>4 DEF Service!Send, Ran
    <2> QED
      BY <2>5 DEF Service!Next
  <1>6. CASE EvalReply
    <2>1. /\ UNCHANGED <<issued, ended, owner, replied, held, dead>>
          /\ hpc \in {"wait1", "wait2"} /\ hpc' = "idle" /\ issued \in replied
          /\ outcome' = "ok" /\ issued # 0
      BY <1>0, <1>6 DEF EvalReply, WaitInv
    <2> QED
      BY <2>1, NothingMarked, RanUnchanged, ReturnMaps DEF Service!Next
  <1>7. CASE EvalGiveUp
    <2>1. /\ UNCHANGED <<issued, ended, owner, replied, held>> /\ held # None
          /\ hpc = "wait2" /\ hpc' = "idle" /\ issued \notin replied
          /\ outcome' = "died" /\ issued # 0
          /\ dead' = [dead EXCEPT ![held] = "Timeout"]
      BY <1>0, <1>7 DEF EvalGiveUp, WaitInv, TypeInv, JobsTyped
    <2> QED
      BY <1>0, <2>1, HeldMarked, RanUnchanged, ReturnMaps DEF Service!Next
  <1>8. CASE EvalRecordCause
    <2>1. /\ UNCHANGED <<issued, ended, owner, replied, held>> /\ held # None
          /\ hpc = "disc" /\ hpc' = "idle" /\ issued \notin replied
          /\ outcome' = "died" /\ issued # 0
          /\ dead' = [dead EXCEPT ![held] = cause]
      BY <1>0, <1>8 DEF EvalRecordCause, WaitInv, TypeInv, JobsTyped
    <2>2. Leaked' = Leaked
      BY <1>0, <2>1 DEF Leaked, TypeInv, TypeOK
    <2> QED
      BY <2>1, <2>2, RanUnchanged, ReturnMaps DEF Service!Next
  <1>9. CASE DropClearInterrupter
    <2>1. /\ UNCHANGED <<issued, ended, owner, replied, outcome, dead>>
          /\ hpc = "clrintr" /\ hpc' = "idle"
      BY <1>9 DEF DropClearInterrupter
    <2>2. CASE Leaked'
      <3>1. Service!Abandon
        BY <2>1, <2>2, RanUnchanged DEF Service!Abandon, Ran
      <3> QED
        BY <3>1 DEF Service!Next
    <2>3. CASE ~Leaked'
      <3>1. Leaked' = Leaked /\ Waiting' = Waiting
        BY <2>1, <2>3 DEF Waiting, Leaked
      <3> QED
        BY <2>1, <3>1, RanUnchanged, Stutters
    <2> QED
      BY <2>2, <2>3
  <1> QED
    BY <1>1, <1>2, <1>3, <1>4, <1>5, <1>6, <1>7, <1>8, <1>9
       DEF HostStart, HostStep

(* An eval that ends runs after every eval that has ended before it.       *)
LEMMA RunMaps ==
    ASSUME IInv, ServiceInv, ~Leaked, NEW s \in Sessions,
           Finish(s) \/ Interrupted(s)
    PROVE  Service!Next
  <1> USE DEF hostVars, evalVars, globals
  <1>0. /\ TypeInv /\ OwnerInv /\ GenInv /\ EndedInv /\ LockstepOf(s) /\ OrderOf(s)
    BY DEF IInv, ServiceInv, Lockstep, OrderInv
  <1> DEFINE e == job[s]
  <1>1. /\ e = dcur[s] /\ e \in Evals /\ owner[e] = s /\ s = held
        /\ ended' = ended \cup {<<s, e>>} /\ owner' = owner
    BY <1>0, EndsAtOwner
  <1>2. /\ UNCHANGED <<hpc, issued, replied, outcome, held, dead>>
        /\ wpc[s] = "eval"
    BY DEF Finish, Interrupted
  <1> HIDE DEF e
  <1>n. /\ owner \in [Evals -> Sessions \cup {None}] /\ issued \in Nat
        /\ Evals \subseteq Nat /\ Sessions \subseteq Nat /\ s # None
        /\ ended \subseteq Sessions \X Evals
    BY <1>0, BoundsAssumption, ExitFacts DEF TypeInv, TypeOK, Evals, Sessions
  <1>3. e \in 1..issued
    BY <1>0, <1>1, <1>n, ExitFacts DEF OwnerInv, Evals
  <1>4. ASSUME NEW d \in Ran PROVE d < e
    <2>1. d \in Evals /\ <<owner[d], d>> \in ended /\ owner[d] \in Sessions
      BY <1>n DEF Ran
    <2>2. CASE owner[d] = s
      BY <1>0, <1>1, <1>2, <2>1, <2>2 DEF OrderOf
    <2>3. CASE owner[d] # s
      <3>1. s = gen
        BY <1>0, <1>1, <1>n DEF GenInv
      <3>2. owner[d] < s
        <4>1. owner[d] \in Nat /\ s \in Nat
          BY <1>n, <2>1
        <4>2. owner[d] <= s
          BY <1>0, <2>1, <3>1 DEF GenInv
        <4> QED
          BY <2>3, <4>1, <4>2
      <3>3. ~(e < d)
        <4>1. e < d => s <= owner[d]
          BY <1>0, <1>1, <2>1, ExitFacts DEF GenInv
        <4>2. owner[d] \in Nat /\ s \in Nat
          BY <1>n, <2>1
        <4> QED
          BY <3>2, <4>1, <4>2
      <3> QED
        BY <1>1, <1>n, <2>1, <2>3, <3>3
    <2> QED
      BY <2>2, <2>3
  <1>5. Ran' = Ran \cup {e}
    BY <1>1, <1>n DEF Ran
  <1>6. Leaked' = Leaked
    BY <1>2, NothingMarked
  <1>7. PICK k : k = e
    OBVIOUS
  <1>8. Service!Run(k)
    BY <1>2, <1>3, <1>4, <1>5, <1>6, <1>7 DEF Service!Run, Service!Sent, Ran
  <1>9. k \in Service!Sent
    BY <1>3, <1>7 DEF Service!Sent
  <1> QED
    BY <1>8, <1>9 DEF Service!Next

LEMMA ThreadMaps ==
    ASSUME IInv, ServiceInv, ~Leaked, NEW s \in Sessions, ThreadStep(s)
    PROVE  Service!Next \/ UNCHANGED Service!vars
  <1> USE DEF hostVars, evalVars, globals, threadVars, slotVars, chanVars
  <1>0. /\ TypeInv /\ OwnerInv /\ LockstepOf(s)
    BY DEF IInv, Lockstep
  <1>1. CASE Finish(s) \/ Interrupted(s)
    BY <1>1, RunMaps
  <1>2. CASE DispatchReply(s)
    <2>1. /\ dpc[s] = "wait" /\ done[s] /\ replied' = replied \cup {dcur[s]}
          /\ UNCHANGED <<hpc, issued, ended, owner, outcome, held, dead>>
      BY <1>2 DEF DispatchReply
    <2>2. dcur[s] \in Evals /\ owner[dcur[s]] = s /\ <<s, dcur[s]>> \in ended
      BY <1>0, <2>1 DEF TypeInv, JobsTyped, OwnerInv, LockstepOf
    <2>3. Leaked' = Leaked /\ Ran' = Ran /\ Waiting' = Waiting
      BY <2>1, NothingMarked, RanUnchanged DEF Waiting
    <2>4. CASE dcur[s] \in replied
      <3>1. replied' = replied
        BY <2>1, <2>4
      <3> QED
        BY <2>1, <2>3, <3>1, Stutters
    <2>5. CASE dcur[s] \notin replied
      <3>1. PICK k : k = dcur[s]
        OBVIOUS
      <3>2. Service!Answer(k)
        BY <2>1, <2>2, <2>3, <2>5, <3>1 DEF Service!Answer, Ran
      <3>3. k \in Service!Sent
        <4>1. k \in Evals /\ owner[k] # None /\ issued \in Nat
          BY <1>0, <2>2, <3>1, ExitFacts, BoundsAssumption DEF TypeInv, TypeOK
        <4> QED
          BY <1>0, <4>1, BoundsAssumption DEF OwnerInv, Service!Sent, Evals
      <3> QED
        BY <3>2, <3>3 DEF Service!Next
    <2> QED
      BY <2>4, <2>5
  <1>3. CASE RecordPanic(s)
    <2>1. /\ UNCHANGED <<hpc, issued, ended, owner, outcome, replied, held>>
          /\ dead' = [dead EXCEPT ![s] = IF @ = "none" THEN "WorkerPanicked" ELSE @]
      BY <1>3 DEF RecordPanic
    <2>2. Leaked' = Leaked
      BY <1>0, <2>1 DEF Leaked, TypeInv, TypeOK
    <2> QED
      BY <2>1, <2>2, RanUnchanged, Stutters DEF Waiting
  <1>4. CASE UNCHANGED <<hpc, issued, ended, owner, outcome, replied, held, dead>>
    BY <1>4, NothingMarked, RanUnchanged, Stutters DEF Waiting
  <1> QED
    BY <1>1, <1>2, <1>3, <1>4 DEF ThreadStep, WorkerStep, DispatchStep, Boot,
       Setup, Safepoint, NextLock, Take, SignalDone, JoinDispatcher,
       DispatchEval, DispatchShutdown, BootPanic, DispatchFlushPanics

LEMMA StepMaps ==
    ASSUME IInv, ServiceInv, [Next]_vars
    PROVE  [Service!Next]_(Service!vars)
  <1>1. CASE Leaked
    <2>1. Leaked'
      BY <1>1, LeakedStays DEF IInv
    <2> QED
      BY <1>1, <2>1 DEF Service!Next
  <1>2. CASE ~Leaked
    <2>1. CASE HostStart \/ HostStep
      BY <1>2, <2>1, HostMaps
    <2>2. CASE \E s \in Sessions : ThreadStep(s)
      BY <1>2, <2>2, ThreadMaps
    <2>3. CASE Break \/ UNCHANGED vars
      <3>1. UNCHANGED <<hpc, issued, ended, owner, outcome, replied, held, dead>>
        BY <2>3 DEF Break, vars, hostVars, evalVars
      <3> QED
        BY <3>1, NothingMarked, RanUnchanged, Stutters DEF Waiting
    <2> QED
      BY <2>1, <2>2, <2>3, NextCases
  <1> QED
    BY <1>1, <1>2

(* Session::eval with its worker, listener slot and dispatcher implements  *)
(* the evaluation service: sources run one at a time, in the order they    *)
(* were sent and at most once, and Ok is returned for a source exactly     *)
(* when its own VM ran it to the end and reported it, until a Session      *)
(* whose eval timed out is dropped.                                        *)
THEOREM SessionImplementsService == Spec => ImplementsService
  <1>1. Spec => [](IInv /\ ServiceInv)
    <2>1. IInv /\ ServiceInv /\ [Next]_vars => (IInv /\ ServiceInv)'
      BY IInvStep, ServiceInvStep
    <2> QED
      BY <2>1, InitIInv, InitServiceInv, PTL DEF Spec
  <1>2. IInv /\ ServiceInv /\ [Next]_vars => [Service!Next]_(Service!vars)
    BY StepMaps
  <1> QED
    BY <1>1, <1>2, InitMaps, PTL DEF Spec, ImplementsService, Service!Spec
=============================================================================

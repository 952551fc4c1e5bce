---------------------------- MODULE PanesProofs ----------------------------
(***************************************************************************)
(* What Panes promises, for every number of threads, panes, batches, calls *)
(* and failures and all programs: a query returns its own answer,          *)
(* delivering one never blocks the GUI thread, no submitted picture is     *)
(* missed, and a frame starts untransformed unless an unbalanced batch was *)
(* drawn on its render target.                                             *)
(*                                                                         *)
(* LatestIsFramed is inductive as it stands, given the types and that a    *)
(* window being destroyed has no render host any more.  The answers need   *)
(* that a request id is never given twice, so that id and call agree in    *)
(* every query wherever it waits (BatchInv, ReplyInv).  The transform      *)
(* needs the most: in the middle of a well nested batch it counts the      *)
(* offsets in force, and the top of OFFSET_STACK holds the values to go    *)
(* back to, on top of whatever failed frames and unbalanced batches have   *)
(* left there (DepthInv).                                                  *)
(***************************************************************************)
EXTENDS Panes, SequenceTheorems, FiniteSetTheorems, TLAPS

(* Request ids and calls agree in a batch's queries.                       *)
Sound(b) == \A i \in DOMAIN b.cmds :
               b.cmds[i].op = "query" => b.cmds[i].id = b.cmds[i].call

(* A batch in progress holds no query.                                     *)
Drawn(b) == \A i \in DOMAIN b.cmds : b.cmds[i].op # "query"

BatchInv ==
    /\ \A t \in Threads : Drawn(current[t]) /\ Sound(th[t].batch)
    /\ \A p \in Panes : Sound(latest[p])
    /\ Sound(gui.batch)

(* A thread inside a query or a submit has a batch; its query has the id   *)
(* of its call.                                                            *)
ThreadInv ==
    \A t \in Threads :
        /\ th[t].call = th[t].id
        /\ th[t].pc # "idle" => th[t].batch \in Batches
        /\ th[t].pc = "wait" => th[t].id \in Ids

(* Ids are given once; a reply in a channel answers the call of its id,    *)
(* and a sender still in SLOTS has not been used.                          *)
ReplyInv ==
    /\ calls = nextId
    /\ \A i \in Ids : /\ chan[i] # Nothing => chan[i][2] = i
                      /\ i \in slots => chan[i] = Nothing

(* The pane the GUI thread works on exists, and has no render host once    *)
(* its window is being destroyed.                                          *)
GuiInv ==
    /\ gui.pc # "idle" => gui.pane \in Panes
    /\ gui.pc \in {"forget", "unregister"} => gui.pane \notin host
    /\ gui.pc \in {"exec", "gdi"} => gui.at >= 1

(* In the middle of a well nested batch the transform counts the offsets   *)
(* in force, and the top of OFFSET_STACK holds what the pops go back to.   *)
Depth(ops, n, d, stack) ==
    /\ Number(ops, "pop", n) + d = Number(ops, "push", n)
    /\ d <= Len(stack)
    /\ \A j \in 0..d - 1 : stack[Len(stack) - j] = d - 1 - j

DepthInv ==
    gui.pc = "exec" =>
      /\ gui.at - 1 \in 0..Len(gui.batch.cmds)
      /\ gui.pane \notin bent =>
            /\ gui.at = 1 => transform[gui.pane] = 0
            /\ WellNested(OpsOf(gui.batch)) =>
                  Depth(OpsOf(gui.batch), gui.at - 1, transform[gui.pane], offsets)

(* A render target that no batch is being drawn on has no transform.       *)
TargetInv ==
    \A p \in target \ bent :
        (gui.pc = "exec" /\ gui.pane = p) \/ transform[p] = 0

IInv ==
    /\ TypeOK /\ BatchInv /\ ThreadInv /\ ReplyInv /\ GuiInv
    /\ DepthInv /\ TargetInv /\ AnswersAreOwn /\ LatestIsFramed

-----------------------------------------------------------------------------
(* Commands, batches and counts *)

LEMMA CmdFacts ==
    /\ \A op \in Ops : Cmd(op) \in Cmds /\ Cmd(op).op = op /\ op # "query"
    /\ \A i, c \in Ids : /\ Query(i, c) \in Cmds /\ Query(i, c).op = "query"
                         /\ Query(i, c).id = i /\ Query(i, c).call = c
    /\ \A c \in Cmds : /\ c.op \in Ops \cup {"query"}
                       /\ c.op = "query" => c.id \in Ids /\ c.call \in Ids
  <1>1. \A op \in Ops : Cmd(op) \in Cmds /\ Cmd(op).op = op /\ op # "query"
    BY DEF Cmd, Cmds, Ops
  <1>2. \A i, c \in Ids : /\ Query(i, c) \in Cmds /\ Query(i, c).op = "query"
                          /\ Query(i, c).id = i /\ Query(i, c).call = c
    BY DEF Query, Cmds
  <1>3. ASSUME NEW c \in Cmds
        PROVE  /\ c.op \in Ops \cup {"query"}
               /\ c.op = "query" => c.id \in Ids /\ c.call \in Ids
    <2>1. CASE \E op \in Ops : c = Cmd(op)
      BY <1>1, <2>1
    <2>2. CASE \E i, k \in Ids : c = Query(i, k)
      BY <1>2, <2>2
    <2> QED
      BY <2>1, <2>2 DEF Cmds
  <1> QED
    BY <1>1, <1>2, <1>3

AnyBatch == Batches \cup {NoBatch}

LEMMA BatchFacts ==
    /\ NoBatch \in AnyBatch /\ NoBatch.cmds = << >> /\ NoBatch.seq = 0
    /\ NoBatch.child = 0
    /\ \A b \in AnyBatch : b.cmds \in Seq(Cmds) /\ b.seq \in 0..MaxBatches
    /\ \A b \in Batches : b.child \in Panes
    /\ Sound(NoBatch) /\ Drawn(NoBatch)
  <1>1. NoBatch.cmds = << >> /\ NoBatch.seq = 0 /\ NoBatch.child = 0
    BY DEF NoBatch
  <1>2. \A b \in AnyBatch : b.cmds \in Seq(Cmds) /\ b.seq \in 0..MaxBatches
    <2>1. \A b \in Batches : b.cmds \in Seq(Cmds) /\ b.seq \in 1..MaxBatches
      BY DEF Batches
    <2>2. 1..MaxBatches \subseteq 0..MaxBatches /\ 0 \in 0..MaxBatches
      BY PanesAssumption
    <2>3. << >> \in Seq(Cmds)
      OBVIOUS
    <2> QED
      BY <1>1, <2>1, <2>2, <2>3 DEF AnyBatch
  <1> QED
    BY <1>1, <1>2 DEF AnyBatch, Batches, Sound, Drawn

(* Counting pushes and pops one command further.                           *)
LEMMA NumberNext ==
    ASSUME NEW ops, NEW op, NEW n \in Nat
    PROVE  /\ Number(ops, op, n) \in Nat
           /\ ops[n + 1] = op =>
                Number(ops, op, n + 1) = Number(ops, op, n) + 1
           /\ ops[n + 1] # op => Number(ops, op, n + 1) = Number(ops, op, n)
  <1> DEFINE S(k) == {i \in 1..k : ops[i] = op}
  <1>1. IsFiniteSet(S(n))
    <2>1. IsFiniteSet(1..n)
      BY FS_Interval
    <2> QED
      BY <2>1, FS_Subset
  <1>2. Cardinality(S(n)) \in Nat
    BY <1>1, FS_CardinalityType
  <1>3. CASE ops[n + 1] = op
    <2>1. S(n + 1) = S(n) \cup {n + 1} /\ n + 1 \notin S(n)
      BY <1>3
    <2>2. Cardinality(S(n + 1)) = Cardinality(S(n)) + 1
      BY <1>1, <2>1, FS_AddElement
    <2> QED
      BY <1>2, <1>3, <2>2 DEF Number
  <1>4. CASE ops[n + 1] # op
    <2>1. S(n + 1) = S(n)
      BY <1>4
    <2> QED
      BY <1>2, <1>4, <2>1 DEF Number
  <1> QED
    BY <1>3, <1>4

LEMMA NumberZero ==
    ASSUME NEW ops, NEW op
    PROVE  Number(ops, op, 0) = 0
  <1>1. {i \in 1..0 : ops[i] = op} = {}
    OBVIOUS
  <1> QED
    BY <1>1, FS_EmptySet DEF Number

(* Where the pops of a well nested batch find their pushes.                *)
LEMMA NestedFacts ==
    ASSUME NEW b \in AnyBatch, WellNested(OpsOf(b))
    PROVE  /\ \A n \in 0..Len(b.cmds) :
                 Number(OpsOf(b), "pop", n) <= Number(OpsOf(b), "push", n)
           /\ Number(OpsOf(b), "pop", Len(b.cmds))
                = Number(OpsOf(b), "push", Len(b.cmds))
  <1>1. b.cmds \in Seq(Cmds)
    BY BatchFacts
  <1>2. /\ OpsOf(b) = [i \in 1..Len(b.cmds) |-> b.cmds[i].op]
        /\ Len(b.cmds) \in Nat
    BY <1>1 DEF OpsOf
  <1>3. Len(OpsOf(b)) = Len(b.cmds)
    BY <1>2
  <1> QED
    BY <1>3 DEF WellNested

-----------------------------------------------------------------------------
(* The variables keep their shapes *)

ThreadStates == [pc : {"idle", "insert", "notify", "wait"},
                 batch : AnyBatch, call : 0..MaxCalls, id : 0..MaxCalls]
GuiStates == [pc : {"idle", "render", "exec", "gdi", "forget", "unregister"},
              pane : 0..MaxPanes, batch : AnyBatch, at : Nat]

LEMMA IdleType ==
    /\ Idle \in ThreadStates /\ Idle.pc = "idle" /\ Idle.batch = NoBatch
    /\ Idle.call = 0 /\ Idle.id = 0
    /\ GuiIdle \in GuiStates /\ GuiIdle.pc = "idle" /\ GuiIdle.batch = NoBatch
  BY PanesAssumption DEF Idle, GuiIdle, ThreadStates, GuiStates, AnyBatch

LEMMA TypeIs ==
    ASSUME TypeOK
    PROVE  /\ th \in [Threads -> ThreadStates] /\ gui \in GuiStates
           /\ current \in [Threads -> AnyBatch] /\ latest \in [Panes -> AnyBatch]
           /\ 1..nextChild \subseteq Panes /\ host \subseteq Panes
           /\ registry \subseteq Panes
  <1>1. 1..nextChild \subseteq Panes
    BY PanesAssumption DEF TypeOK, Panes
  <1> QED
    BY <1>1 DEF TypeOK, ThreadStates, GuiStates, AnyBatch

LEMMA InitType == Init => TypeOK
  <1> SUFFICES ASSUME Init PROVE TypeOK
    OBVIOUS
  <1>1. /\ th \in [Threads -> ThreadStates] /\ gui \in GuiStates
    BY IdleType DEF Init
  <1>2. /\ nextChild \in 0..MaxPanes /\ sequence \in 0..MaxBatches
        /\ nextId \in 0..MaxCalls /\ calls \in 0..MaxCalls
        /\ fails \in 0..MaxFails /\ 0 \in 0..MaxBatches
    BY PanesAssumption DEF Init
  <1>3. registry \subseteq 1..nextChild /\ host \subseteq registry
    BY DEF Init
  <1>4. offsets \in Seq(Nat)
    BY DEF Init
  <1> QED
    BY <1>1, <1>2, <1>3, <1>4 DEF Init, TypeOK, ThreadStates, GuiStates, AnyBatch

LEMMA LanguageType ==
    ASSUME TypeOK, ThreadInv, ReplyInv, NEW t \in Threads,
           \/ ThreadStep(t) \/ Present(t) \/ TimeOut(t)
           \/ \E op \in Ops : Emit(t, op)
           \/ \E p \in 1..nextChild : Begin(t, p) \/ Ask(t, p)
    PROVE  TypeOK'
  <1> USE DEF paneVars, replyVars, d2dVars, frameVars
  <1>0. th \in [Threads -> ThreadStates] /\ current \in [Threads -> AnyBatch]
    BY TypeIs
  <1>1. ASSUME NEW p \in 1..nextChild, Begin(t, p) PROVE TypeOK'
    <2>1. p \in Panes /\ sequence + 1 \in 1..MaxBatches
      BY SMTT(30), <1>1, TypeIs, PanesAssumption DEF Begin, TypeOK
    <2>2. [child |-> p, seq |-> sequence + 1, cmds |-> << >>] \in Batches
      BY <2>1 DEF Batches
    <2>3. /\ current' \in [Threads -> AnyBatch]
          /\ sequence' \in 0..MaxBatches
      BY <1>0, <1>1, <2>1, <2>2 DEF Begin, AnyBatch
    <2> QED
      BY <1>1, <2>3 DEF Begin, TypeOK, AnyBatch
  <1>2. ASSUME NEW op \in Ops, Emit(t, op) PROVE TypeOK'
    <2>1. current[t] \in Batches
      BY <1>0, <1>2 DEF Emit, AnyBatch
    <2>2. Append(current[t].cmds, Cmd(op)) \in Seq(Cmds)
      BY <2>1, CmdFacts DEF Batches
    <2>3. [current[t] EXCEPT !.cmds = Append(@, Cmd(op))] \in Batches
      BY <2>1, <2>2 DEF Batches
    <2>4. current' \in [Threads -> AnyBatch]
      BY <1>0, <1>2, <2>3 DEF Emit, AnyBatch
    <2> QED
      BY <1>2, <2>4 DEF Emit, TypeOK, AnyBatch
  <1>3. CASE Present(t)
    <2>1. [Idle EXCEPT !.pc = "insert", !.batch = current[t]] \in ThreadStates
      BY <1>0, IdleType DEF ThreadStates
    <2>2. /\ th' \in [Threads -> ThreadStates]
          /\ current' \in [Threads -> AnyBatch]
      BY <1>0, <1>3, <2>1, BatchFacts DEF Present
    <2> QED
      BY <1>3, <2>2 DEF Present, TypeOK, AnyBatch, ThreadStates
  <1>4. ASSUME NEW p \in 1..nextChild, Ask(t, p) PROVE TypeOK'
    <2> DEFINE q == calls + 1
               i == alloc_id
               b == [child |-> p, seq |-> sequence + 1, cmds |-> <<Query(i, q)>>]
    <2>1. /\ p \in Panes /\ sequence + 1 \in 1..MaxBatches /\ q \in Ids
          /\ i \in Ids
      <3>1. p \in Panes
        BY TypeIs
      <3>2. /\ sequence \in Nat /\ sequence < MaxBatches /\ MaxBatches \in Nat
            /\ calls \in Nat /\ calls < MaxCalls /\ MaxCalls \in Nat
            /\ nextId = calls
        BY <1>4, PanesAssumption DEF Ask, TypeOK, ReplyInv
      <3> QED
        BY <3>1, <3>2 DEF Ids, alloc_id
    <2>2. Query(i, q) \in Cmds
      BY <2>1, CmdFacts
    <2>3. <<Query(i, q)>> \in Seq(Cmds)
      BY <2>2
    <2>4. b \in Batches
      BY <2>1, <2>3 DEF Batches
    <2>5. [pc |-> "insert", call |-> q, id |-> i, batch |-> b] \in ThreadStates
      BY <2>1, <2>4, PanesAssumption DEF ThreadStates, AnyBatch, Ids
    <2>6. /\ th' = [th EXCEPT ![t] = [pc |-> "insert", call |-> q, id |-> i,
                                      batch |-> b]]
          /\ chan' = [chan EXCEPT ![i] = Nothing]
          /\ slots' = slots \cup {i} /\ calls' = q /\ nextId' = i
          /\ sequence' = sequence + 1
          /\ current' = [current EXCEPT ![t] = NoBatch]
      BY <1>4 DEF Ask
    <2> HIDE DEF b, q, i
    <2>7. /\ th' \in [Threads -> ThreadStates]
          /\ current' \in [Threads -> AnyBatch]
      BY <1>0, <2>5, <2>6, BatchFacts
    <2>8. /\ chan' \in [Ids -> Replies \cup {Nothing}] /\ slots' \subseteq Ids
      BY <2>1, <2>6 DEF TypeOK
    <2>9. /\ sequence' \in 0..MaxBatches /\ calls' \in 0..MaxCalls
          /\ nextId' \in 0..MaxCalls
      BY <2>1, <2>6, PanesAssumption DEF Ids
    <2> QED
      BY <1>4, <2>7, <2>8, <2>9 DEF Ask, TypeOK, AnyBatch, ThreadStates
  <1>5. CASE Insert(t)
    <2>1. th[t].batch \in Batches /\ th[t].batch.child \in Panes
      BY <1>5, BatchFacts DEF Insert, ThreadInv
    <2>2. [th[t] EXCEPT !.pc = "notify"] \in ThreadStates
      BY <1>0 DEF ThreadStates
    <2>3. /\ th' \in [Threads -> ThreadStates]
          /\ latest' \in [Panes -> AnyBatch]
      BY <1>0, <1>5, <2>1, <2>2, TypeIs DEF Insert, AnyBatch
    <2> QED
      BY <1>5, <2>3 DEF Insert, TypeOK, AnyBatch, ThreadStates
  <1>6. CASE Notify(t)
    <2>1. [th[t] EXCEPT !.pc = "wait"] \in ThreadStates
      BY <1>0 DEF ThreadStates
    <2>2. th' \in [Threads -> ThreadStates]
      BY <1>0, <1>6, <2>1, IdleType DEF Notify
    <2>3. dirty' \subseteq Panes
      BY <1>6, TypeIs DEF Notify, TypeOK
    <2> QED
      BY <1>6, <2>2, <2>3 DEF Notify, TypeOK, AnyBatch, ThreadStates
  <1>7. CASE Answered(t)
    <2>1. th[t].id \in Ids /\ th[t].call \in Ids
      BY <1>7 DEF Answered, ThreadInv
    <2>2. th' \in [Threads -> ThreadStates]
      BY <1>0, <1>7, IdleType DEF Answered
    <2>3. /\ got' \in [Ids -> Replies \cup {Nothing}]
          /\ chan' \in [Ids -> Replies \cup {Nothing}]
      BY <1>7, <2>1 DEF Answered, TypeOK
    <2> QED
      BY <1>7, <2>2, <2>3 DEF Answered, TypeOK, AnyBatch, ThreadStates
  <1>8. CASE TimeOut(t)
    <2>1. th' \in [Threads -> ThreadStates]
      BY <1>0, <1>8, IdleType DEF TimeOut
    <2> QED
      BY <1>8, <2>1 DEF TimeOut, TypeOK, AnyBatch, ThreadStates
  <1> QED
    BY <1>1, <1>2, <1>3, <1>4, <1>5, <1>6, <1>7, <1>8 DEF ThreadStep

(* The command at hand.                                                    *)
LEMMA NextCmdFacts ==
    ASSUME TypeOK, gui.at \in 1..Len(gui.batch.cmds)
    PROVE  /\ NextCmd \in Cmds /\ gui.at \in DOMAIN gui.batch.cmds
           /\ gui.batch.cmds \in Seq(Cmds)
  <1>1. gui.batch \in AnyBatch
    BY TypeIs DEF GuiStates
  <1> QED
    BY <1>1, BatchFacts DEF NextCmd

LEMMA DeliverType ==
    ASSUME TypeOK, NEW i, NEW r \in {"ok", "failed"}, NEW c \in Ids,
           deliver(i, <<r, c>>)
    PROVE  /\ slots' \subseteq Ids
           /\ chan' \in [Ids -> Replies \cup {Nothing}]
  <1>1. <<r, c>> \in Replies
    BY DEF Replies
  <1> QED
    BY <1>1 DEF deliver, TypeOK

LEMMA ExecType ==
    ASSUME TypeOK, GuiInv, DepthInv, Exec
    PROVE  TypeOK'
  <1> USE DEF paneVars, frameVars
  <1>1. gui.pane \in Panes /\ gui.at \in 1..Len(gui.batch.cmds)
    <2>1. gui.at \in Nat /\ gui.at - 1 \in 0..Len(gui.batch.cmds)
          /\ gui.at <= Len(gui.batch.cmds)
      BY DEF Exec, DepthInv, TypeOK
    <2>2. Len(gui.batch.cmds) \in Nat
      BY TypeIs, BatchFacts DEF GuiStates
    <2> QED
      BY <2>1, <2>2 DEF Exec, GuiInv
  <1>2. gui' \in GuiStates
    BY TypeIs DEF Exec, GuiStates
  <1>3. NextCmd \in Cmds
    BY <1>1, NextCmdFacts
  <1>4. /\ slots' \subseteq Ids /\ chan' \in [Ids -> Replies \cup {Nothing}]
        /\ transform' \in [Panes -> Nat] /\ offsets' \in Seq(Nat)
    <2>0. /\ transform \in [Panes -> Nat] /\ offsets \in Seq(Nat)
          /\ slots \subseteq Ids /\ chan \in [Ids -> Replies \cup {Nothing}]
      BY DEF TypeOK
    <2>1. CASE NextCmd.op = "query"
      <3>1. /\ \E r \in {"ok", "failed"} :
                  deliver(NextCmd.id, <<r, NextCmd.call>>)
            /\ UNCHANGED <<transform, offsets>>
        BY <2>1 DEF Exec
      <3>2. NextCmd.call \in Ids
        BY <1>3, <2>1, CmdFacts
      <3> QED
        BY <2>0, <3>1, <3>2, DeliverType
    <2>2. CASE NextCmd.op = "push"
      <3>1. /\ offsets' = Append(offsets, transform[gui.pane])
            /\ transform' = [transform EXCEPT ![gui.pane] = @ + 1]
            /\ UNCHANGED <<slots, chan>>
        BY <2>2 DEF Exec
      <3> QED
        BY <1>1, <2>0, <3>1
    <2>3. CASE NextCmd.op = "pop" /\ offsets # << >>
      <3>1. /\ transform' = [transform EXCEPT ![gui.pane] = Last(offsets)]
            /\ offsets' = Front(offsets)
            /\ UNCHANGED <<slots, chan>>
        BY <2>3 DEF Exec
      <3>2. Last(offsets) \in Nat /\ Front(offsets) \in Seq(Nat)
        BY <2>0, <2>3 DEF Last, Front
      <3> QED
        BY <1>1, <2>0, <3>1, <3>2
    <2>4. CASE NextCmd.op \notin {"query", "push"}
               /\ ~(NextCmd.op = "pop" /\ offsets # << >>)
      <3>1. UNCHANGED <<transform, offsets, slots, chan>>
        BY <2>4 DEF Exec
      <3> QED
        BY <2>0, <3>1
    <2> QED
      BY <2>1, <2>2, <2>3, <2>4
  <1> QED
    BY <1>2, <1>4 DEF Exec, TypeOK, AnyBatch, GuiStates

LEMMA GuiType ==
    ASSUME TypeOK, GuiInv, DepthInv,
           GuiStep \/ Open \/ (\E p \in Panes : DestroyHost(p) \/ Expose(p)
                                                \/ Paint(p))
    PROVE  TypeOK'
  <1> USE DEF paneVars, replyVars, d2dVars, frameVars
  <1>0. gui \in GuiStates /\ GuiIdle \in GuiStates
    BY TypeIs, IdleType
  <1>1. CASE Exec
    BY <1>1, ExecType
  <1>2. CASE Forget
    <2>1. gui.pane \in Panes
      BY <1>2 DEF Forget, GuiInv
    <2>2. gui' \in GuiStates /\ latest' \in [Panes -> AnyBatch]
      BY <1>0, <1>2, <2>1, TypeIs, BatchFacts DEF Forget, GuiStates
    <2> QED
      BY <1>2, <2>2 DEF Forget, TypeOK, AnyBatch, GuiStates
  <1>3. CASE Unregister
    <2>1. gui.pane \notin host
      BY <1>3 DEF Unregister, GuiInv
    <2>2. /\ registry' \subseteq 1..nextChild' /\ host' \subseteq registry'
          /\ gui' \in GuiStates
      BY <1>0, <1>3, <2>1 DEF Unregister, TypeOK
    <2> QED
      BY <1>3, <2>2 DEF Unregister, TypeOK, AnyBatch, GuiStates
  <1>4. CASE Render
    <2>1. gui.pane \in Panes
      BY <1>4 DEF Render, GuiInv
    <2>2. /\ latest[gui.pane] \in AnyBatch
          /\ latest[gui.pane].seq \in 0..MaxBatches
      BY <2>1, TypeIs, BatchFacts
    <2>3. gui' \in GuiStates
      BY <1>0, <1>4, <2>2 DEF Render, GuiStates
    <2>4. /\ transform' \in [Panes -> Nat] /\ framed' \in [Panes -> 0..MaxBatches]
          /\ target' \subseteq Panes /\ refused' \subseteq Panes
      BY <1>4, <2>1, <2>2 DEF Render, TypeOK
    <2> QED
      BY <1>4, <2>3, <2>4 DEF Render, TypeOK, AnyBatch, GuiStates
  <1>5. CASE RenderRefused
    <2>1. gui.pane \in Panes
      BY <1>5 DEF RenderRefused, GuiInv
    <2>2. gui' \in GuiStates /\ refused' \subseteq Panes
      BY <1>0, <1>5, <2>1 DEF RenderRefused, TypeOK
    <2> QED
      BY <1>5, <2>2 DEF RenderRefused, TypeOK, AnyBatch, GuiStates
  <1>6. CASE FrameFails
    <2>1. gui' \in GuiStates
      BY <1>0, <1>6 DEF FrameFails, GuiStates
    <2>2. fails' \in 0..MaxFails
      BY SMTT(30), <1>6, PanesAssumption DEF FrameFails, TypeOK
    <2>3. bent' \subseteq Panes /\ target' \subseteq Panes
      BY <1>6 DEF FrameFails, TypeOK
    <2> QED
      BY <1>6, <2>1, <2>2, <2>3 DEF FrameFails, TypeOK, AnyBatch, GuiStates
  <1>7. CASE EndFrame
    <2>1. gui.pane \in Panes /\ gui' \in GuiStates
      BY <1>0, <1>7 DEF EndFrame, GuiInv
    <2>2. bent' \subseteq Panes
      BY <1>7, <2>1 DEF EndFrame, TypeOK
    <2> QED
      BY <1>7, <2>1, <2>2 DEF EndFrame, TypeOK, AnyBatch, GuiStates
  <1>8. CASE Gdi
    <2>0. gui' \in GuiStates
      BY <1>0, <1>8 DEF Gdi, GuiStates
    <2>1. slots' \subseteq Ids /\ chan' \in [Ids -> Replies \cup {Nothing}]
      <3>1. CASE UNCHANGED <<slots, chan>>
        BY <3>1 DEF TypeOK
      <3>2. CASE /\ gui.at <= Len(gui.batch.cmds) /\ NextCmd.op = "query"
                 /\ deliver(NextCmd.id, <<"failed", NextCmd.call>>)
        <4>1. gui.at \in Nat /\ gui.at >= 1 /\ Len(gui.batch.cmds) \in Nat
          BY <1>0, <1>8, BatchFacts DEF Gdi, GuiInv, GuiStates
        <4>2. NextCmd \in Cmds
          BY <3>2, <4>1, NextCmdFacts
        <4>3. NextCmd.call \in Ids
          BY <3>2, <4>2, CmdFacts
        <4> QED
          BY <3>2, <4>3, DeliverType
      <3> QED
        BY <1>8, <3>1, <3>2 DEF Gdi
    <2> QED
      BY <1>8, <2>0, <2>1 DEF Gdi, TypeOK, AnyBatch, GuiStates
  <1>9. CASE Open
    <2>1. nextChild \in Nat /\ nextChild + 1 \in Panes /\ nextChild' = nextChild + 1
      BY <1>9, PanesAssumption DEF Open, TypeOK, Panes
    <2>2. /\ nextChild' \in 0..MaxPanes /\ dirty' \subseteq Panes
      BY <1>9, <2>1, PanesAssumption DEF Open, TypeOK, Panes
    <2>3. registry' \subseteq 1..nextChild' /\ host' \subseteq registry'
      <3>1. 1..(nextChild + 1) = (1..nextChild) \cup {nextChild + 1}
        BY <2>1
      <3>2. /\ registry' = registry \cup {nextChild + 1}
            /\ host' = host \cup {nextChild + 1}
            /\ registry \subseteq 1..nextChild /\ host \subseteq registry
        BY <1>9 DEF Open, TypeOK
      <3> QED
        BY <2>1, <3>1, <3>2
    <2> QED
      BY <1>9, <2>2, <2>3 DEF Open, TypeOK
  <1>10. ASSUME NEW p \in Panes, DestroyHost(p) PROVE TypeOK'
    <2>1. p \in 0..MaxPanes
      BY PanesAssumption DEF Panes
    <2>2. gui' \in GuiStates
      BY <1>0, <1>10, <2>1 DEF DestroyHost, GuiStates
    <2>3. transform' \in [Panes -> Nat]
      BY <1>10 DEF DestroyHost, TypeOK
    <2> QED
      BY <1>10, <2>2, <2>3 DEF DestroyHost, TypeOK, AnyBatch, GuiStates
  <1>11. ASSUME NEW p \in Panes, Expose(p) PROVE TypeOK'
    BY <1>11 DEF Expose, TypeOK
  <1>12. ASSUME NEW p \in Panes, Paint(p) PROVE TypeOK'
    <2>1. p \in 0..MaxPanes
      BY PanesAssumption DEF Panes
    <2>2. gui' \in GuiStates
      BY <1>0, <1>12, <2>1 DEF Paint, GuiStates
    <2> QED
      BY <1>12, <2>2 DEF Paint, TypeOK, AnyBatch, GuiStates
  <1> QED
    BY <1>1, <1>2, <1>3, <1>4, <1>5, <1>6, <1>7, <1>8, <1>9, <1>10, <1>11,
       <1>12 DEF GuiStep

(* The two kinds of step.                                                  *)
LanguageStep(t) ==
    \/ ThreadStep(t) \/ Present(t) \/ TimeOut(t)
    \/ \E op \in Ops : Emit(t, op)
    \/ \E p \in 1..nextChild : Begin(t, p) \/ Ask(t, p)
WindowStep ==
    \/ GuiStep \/ Open
    \/ \E p \in Panes : DestroyHost(p) \/ Expose(p) \/ Paint(p)

LEMMA NextCases ==
    ASSUME [Next]_vars
    PROVE  \/ \E t \in Threads : LanguageStep(t)
           \/ WindowStep
           \/ UNCHANGED vars
  BY DEF Next, LanguageStep, WindowStep

LEMMA TypeStep ==
    ASSUME TypeOK, ThreadInv, ReplyInv, GuiInv, DepthInv, [Next]_vars
    PROVE  TypeOK'
  <1>1. CASE UNCHANGED vars
    BY <1>1 DEF vars, paneVars, replyVars, d2dVars, frameVars, TypeOK
  <1>2. ASSUME NEW t \in Threads, LanguageStep(t) PROVE TypeOK'
    BY <1>2, LanguageType DEF LanguageStep
  <1>3. CASE WindowStep
    BY <1>3, GuiType DEF WindowStep
  <1> QED
    BY <1>1, <1>2, <1>3, NextCases

(* What the language threads and the GUI thread leave to each other.       *)
LEMMA LanguageFrame ==
    ASSUME NEW t, LanguageStep(t)
    PROVE  UNCHANGED <<gui, host, registry, transform, offsets, target, bent, framed,
                       refused>>
  BY DEF LanguageStep, ThreadStep, Present, TimeOut, Emit, Begin, Ask, Insert,
     Notify, Answered, paneVars, d2dVars, frameVars

LEMMA WindowFrame ==
    ASSUME WindowStep
    PROVE  UNCHANGED <<th, current, nextId, calls, got>>
  BY DEF WindowStep, GuiStep, Forget, Unregister, Render, RenderRefused, Exec,
     FrameFails, EndFrame, Gdi, Open, DestroyHost, Expose, Paint, replyVars

-----------------------------------------------------------------------------
(* Threads and windows *)

LEMMA ThreadInvStep ==
    ASSUME TypeOK, ThreadInv, ReplyInv, [Next]_vars
    PROVE  ThreadInv'
  <1>0. th \in [Threads -> ThreadStates] /\ current \in [Threads -> AnyBatch]
    BY TypeIs
  <1>1. CASE UNCHANGED th
    BY <1>1 DEF ThreadInv
  <1>2. ASSUME NEW t \in Threads, LanguageStep(t) PROVE ThreadInv'
    <2>1. ASSUME NEW v, th' = [th EXCEPT ![t] = v], v.call = v.id,
                 v.pc # "idle" => v.batch \in Batches,
                 v.pc = "wait" => v.id \in Ids
          PROVE  ThreadInv'
      BY <1>0, <2>1 DEF ThreadInv
    <2>2. CASE Present(t)
      <3> DEFINE v == [Idle EXCEPT !.pc = "insert", !.batch = current[t]]
      <3>1. v.call = v.id /\ v.pc = "insert" /\ v.batch = current[t]
        BY IdleType DEF ThreadStates
      <3>2. current[t] \in Batches
        BY <1>0, <2>2 DEF Present, AnyBatch
      <3>3. th' = [th EXCEPT ![t] = v]
        BY <2>2 DEF Present
      <3> HIDE DEF v
      <3> QED
        BY <2>1, <3>1, <3>2, <3>3
    <2>3. ASSUME NEW p \in 1..nextChild, Ask(t, p) PROVE ThreadInv'
      <3> DEFINE q == calls + 1
                 b == [child |-> p, seq |-> sequence + 1,
                       cmds |-> <<Query(q, q)>>]
                 v == [pc |-> "insert", call |-> q, id |-> q, batch |-> b]
      <3>1. alloc_id = q
        BY DEF alloc_id, ReplyInv
      <3>2. th' = [th EXCEPT ![t] = v]
        BY <2>3, <3>1 DEF Ask
      <3>3. q \in Ids /\ p \in Panes /\ sequence + 1 \in 1..MaxBatches
        <4>1. p \in Panes
          BY TypeIs
        <4>2. /\ sequence \in Nat /\ sequence < MaxBatches /\ MaxBatches \in Nat
              /\ calls \in Nat /\ calls < MaxCalls /\ MaxCalls \in Nat
          BY <2>3, PanesAssumption DEF Ask, TypeOK
        <4> QED
          BY <4>1, <4>2 DEF Ids
      <3>4. b \in Batches
        <4>1. <<Query(q, q)>> \in Seq(Cmds)
          BY <3>3, CmdFacts
        <4> QED
          BY <3>3, <4>1 DEF Batches
      <3> HIDE DEF b
      <3>5. v.call = v.id /\ v.batch = b /\ v.pc = "insert"
        OBVIOUS
      <3> HIDE DEF v
      <3> QED
        BY <2>1, <3>2, <3>4, <3>5
    <2>4. CASE Insert(t)
      <3> DEFINE v == [th[t] EXCEPT !.pc = "notify"]
      <3>1. /\ v.call = th[t].call /\ v.id = th[t].id /\ v.pc = "notify"
            /\ v.batch = th[t].batch
        BY <1>0 DEF ThreadStates
      <3>2. th' = [th EXCEPT ![t] = v] /\ th[t].pc = "insert"
        BY <2>4 DEF Insert
      <3> HIDE DEF v
      <3> QED
        BY <2>1, <3>1, <3>2 DEF ThreadInv
    <2>5. CASE Notify(t)
      <3> DEFINE v == [th[t] EXCEPT !.pc = "wait"]
      <3>1. /\ v.call = th[t].call /\ v.id = th[t].id /\ v.pc = "wait"
            /\ v.batch = th[t].batch
        BY <1>0 DEF ThreadStates
      <3>2. /\ th[t].pc = "notify"
            /\ \/ th' = [th EXCEPT ![t] = v] /\ th[t].call # 0
               \/ th' = [th EXCEPT ![t] = Idle]
        BY <2>5 DEF Notify
      <3>3. th[t].call # 0 => th[t].call \in Ids
        BY <1>0, PanesAssumption DEF ThreadStates, Ids
      <3> HIDE DEF v
      <3> QED
        BY <2>1, <3>1, <3>2, <3>3, IdleType DEF ThreadInv
    <2>6. CASE Answered(t) \/ TimeOut(t)
      <3>1. th' = [th EXCEPT ![t] = Idle]
        BY <2>6 DEF Answered, TimeOut
      <3> QED
        BY <2>1, <3>1, IdleType
    <2>7. ASSUME NEW op, NEW p, Emit(t, op) \/ Begin(t, p) PROVE ThreadInv'
      BY <1>1, <2>7 DEF Emit, Begin
    <2> QED
      BY <1>2, <2>2, <2>3, <2>4, <2>5, <2>6, <2>7 DEF LanguageStep, ThreadStep
  <1> QED
    BY <1>1, <1>2, NextCases, WindowFrame DEF vars

LEMMA GuiInvStep ==
    ASSUME TypeOK, GuiInv, [Next]_vars
    PROVE  GuiInv'
  <1> USE DEF paneVars, GuiInv
  <1>0. gui \in GuiStates
    BY TypeIs
  <1>1. CASE UNCHANGED <<gui, host>>
    BY <1>1
  <1>2. CASE gui' = GuiIdle
    BY <1>2, IdleType
  <1>3. CASE Forget
    BY <1>0, <1>3 DEF Forget, GuiStates
  <1>4. CASE Render
    BY <1>0, <1>4 DEF Render, GuiStates
  <1>5. CASE Exec
    BY <1>0, <1>5 DEF Exec, GuiStates
  <1>6. CASE FrameFails
    BY <1>0, <1>6 DEF FrameFails, GuiStates
  <1>7. CASE Gdi
    BY <1>0, <1>2, <1>7 DEF Gdi, GuiStates
  <1>8. CASE Open
    <2>1. gui' = gui /\ gui.pc = "idle"
      BY <1>8 DEF Open
    <2> QED
      BY <2>1
  <1>9. ASSUME NEW p \in Panes, DestroyHost(p) PROVE GuiInv'
    <2>1. gui' = [GuiIdle EXCEPT !.pc = "forget", !.pane = p] /\ p \notin host'
      BY <1>9 DEF DestroyHost
    <2> QED
      BY <2>1, IdleType DEF GuiStates
  <1>10. ASSUME NEW p \in Panes, Paint(p) PROVE GuiInv'
    <2>1. gui' = [GuiIdle EXCEPT !.pc = "render", !.pane = p]
      BY <1>10 DEF Paint
    <2> QED
      BY <2>1, IdleType DEF GuiStates
  <1>11. CASE WindowStep
    BY <1>1, <1>2, <1>3, <1>4, <1>5, <1>6, <1>7, <1>8, <1>9, <1>10, <1>11
       DEF WindowStep, GuiStep, Unregister, RenderRefused, EndFrame, Expose
  <1> QED
    BY <1>1, <1>11, NextCases, LanguageFrame DEF vars

-----------------------------------------------------------------------------
(* Every batch on its way is whole and asks for its own answer *)

LEMMA BatchInvStep ==
    ASSUME TypeOK, ThreadInv, ReplyInv, GuiInv, BatchInv, [Next]_vars
    PROVE  BatchInv'
  <1>0. /\ th \in [Threads -> ThreadStates] /\ current \in [Threads -> AnyBatch]
        /\ latest \in [Panes -> AnyBatch] /\ gui \in GuiStates
    BY TypeIs
  <1>1. CASE UNCHANGED <<current, th, latest, gui>>
    BY <1>1 DEF BatchInv
  <1>2. ASSUME NEW t \in Threads, LanguageStep(t) PROVE BatchInv'
    <2>g. gui' = gui
      BY <1>2, LanguageFrame
    <2>1. ASSUME NEW v, th' = [th EXCEPT ![t] = v], Sound(v.batch),
                 UNCHANGED latest,
                 current' = current \/ current' = [current EXCEPT ![t] = NoBatch]
          PROVE  BatchInv'
      BY <1>0, <2>1, <2>g, BatchFacts DEF BatchInv
    <2>2. ASSUME NEW p \in 1..nextChild, Begin(t, p) PROVE BatchInv'
      <3> DEFINE b == [child |-> p, seq |-> sequence + 1, cmds |-> << >>]
      <3>1. Drawn(b)
        BY DEF Drawn
      <3>2. /\ current' = [current EXCEPT ![t] = b]
            /\ UNCHANGED <<th, latest>>
        BY <2>2 DEF Begin
      <3> HIDE DEF b
      <3> QED
        BY <1>0, <2>g, <3>1, <3>2 DEF BatchInv
    <2>3. ASSUME NEW op \in Ops, Emit(t, op) PROVE BatchInv'
      <3> DEFINE b == [current[t] EXCEPT !.cmds = Append(@, Cmd(op))]
      <3>1. current[t] \in Batches /\ Drawn(current[t])
        BY <1>0, <2>3 DEF Emit, AnyBatch, BatchInv
      <3>2. b.cmds = Append(current[t].cmds, Cmd(op))
        BY <3>1 DEF Batches
      <3>3. current[t].cmds \in Seq(Cmds)
        BY <3>1 DEF Batches
      <3>4. Cmd(op).op # "query"
        BY CmdFacts
      <3>5. current' = [current EXCEPT ![t] = b] /\ UNCHANGED <<th, latest>>
        BY <2>3 DEF Emit
      <3> HIDE DEF b
      <3>6. Drawn(b)
        BY <3>1, <3>2, <3>3, <3>4 DEF Drawn
      <3> QED
        BY <1>0, <2>g, <3>5, <3>6 DEF BatchInv
    <2>4. CASE Present(t)
      <3> DEFINE v == [Idle EXCEPT !.pc = "insert", !.batch = current[t]]
      <3>1. v.batch = current[t]
        BY IdleType DEF ThreadStates
      <3>2. Sound(current[t])
        BY <2>4 DEF Present, Sound, BatchInv, Drawn
      <3>3. /\ th' = [th EXCEPT ![t] = v] /\ UNCHANGED latest
            /\ current' = [current EXCEPT ![t] = NoBatch]
        BY <2>4 DEF Present
      <3> HIDE DEF v
      <3> QED
        BY <2>1, <3>1, <3>2, <3>3
    <2>5. ASSUME NEW p \in 1..nextChild, Ask(t, p) PROVE BatchInv'
      <3> DEFINE q == calls + 1
                 b == [child |-> p, seq |-> sequence + 1,
                       cmds |-> <<Query(q, q)>>]
                 v == [pc |-> "insert", call |-> q, id |-> q, batch |-> b]
      <3>1. alloc_id = q
        BY DEF alloc_id, ReplyInv
      <3>2. /\ th' = [th EXCEPT ![t] = v] /\ UNCHANGED latest
            /\ current' = [current EXCEPT ![t] = NoBatch]
        BY <2>5, <3>1 DEF Ask
      <3>3. b.cmds = <<Query(q, q)>> /\ v.batch = b
        OBVIOUS
      <3>4. Query(q, q).op = "query" /\ Query(q, q).id = Query(q, q).call
        BY DEF Query
      <3> HIDE DEF b, v, q
      <3>5. DOMAIN b.cmds = {1} /\ Len(b.cmds) = 1 /\ b.cmds[1] = Query(q, q)
        BY <3>3
      <3>6. Sound(b)
        BY <3>4, <3>5 DEF Sound
      <3> QED
        BY <2>1, <3>2, <3>3, <3>6
    <2>6. CASE Insert(t)
      <3> DEFINE v == [th[t] EXCEPT !.pc = "notify"]
      <3>1. v.batch = th[t].batch
        BY <1>0 DEF ThreadStates
      <3>2. /\ th' = [th EXCEPT ![t] = v] /\ UNCHANGED current
            /\ latest' = [latest EXCEPT ![th[t].batch.child] = th[t].batch]
        BY <2>6 DEF Insert
      <3> HIDE DEF v
      <3>3. Sound(th[t].batch)
        BY DEF BatchInv
      <3> QED
        BY <1>0, <2>g, <3>1, <3>2, <3>3 DEF BatchInv
    <2>7. CASE Notify(t)
      <3> DEFINE v == [th[t] EXCEPT !.pc = "wait"]
      <3>1. v.batch = th[t].batch
        BY <1>0 DEF ThreadStates
      <3>2. /\ UNCHANGED <<current, latest>>
            /\ th' = [th EXCEPT ![t] = v] \/ th' = [th EXCEPT ![t] = Idle]
        BY <2>7 DEF Notify
      <3> HIDE DEF v
      <3>3. Sound(v.batch) /\ Sound(Idle.batch)
        BY <3>1, IdleType, BatchFacts DEF BatchInv
      <3> QED
        BY <2>1, <3>2, <3>3
    <2>8. CASE Answered(t) \/ TimeOut(t)
      <3>1. th' = [th EXCEPT ![t] = Idle] /\ UNCHANGED <<current, latest>>
        BY <2>8 DEF Answered, TimeOut
      <3>2. Sound(Idle.batch)
        BY IdleType, BatchFacts
      <3> QED
        BY <2>1, <3>1, <3>2
    <2> QED
      BY <1>2, <2>2, <2>3, <2>4, <2>5, <2>6, <2>7, <2>8
         DEF LanguageStep, ThreadStep
  <1>3. CASE WindowStep
    <2>f. UNCHANGED <<th, current>>
      BY <1>3, WindowFrame
    <2>1. ASSUME UNCHANGED latest, Sound(gui'.batch) PROVE BatchInv'
      BY <2>1, <2>f DEF BatchInv
    <2>2. CASE Forget
      <3>1. gui'.batch = gui.batch
        BY <1>0, <2>2 DEF Forget, GuiStates
      <3>2. latest' = [latest EXCEPT ![gui.pane] = NoBatch]
        BY <2>2 DEF Forget
      <3> QED
        BY <1>0, <2>f, <3>1, <3>2, BatchFacts DEF BatchInv
    <2>3. CASE Render
      <3>1. gui'.batch = latest[gui.pane] /\ UNCHANGED latest
        BY <1>0, <2>3 DEF Render, GuiStates
      <3>2. gui.pane \in Panes
        BY <2>3 DEF Render, GuiInv
      <3> QED
        BY <2>1, <3>1, <3>2 DEF BatchInv
    <2>4. CASE /\ UNCHANGED latest
               /\ gui'.batch = gui.batch \/ gui'.batch = NoBatch
      BY <2>1, <2>4, BatchFacts DEF BatchInv
    <2>5. CASE Exec \/ FrameFails \/ Gdi
      <3>1. gui'.batch = gui.batch \/ gui' = GuiIdle
        BY <1>0, <2>5 DEF Exec, FrameFails, Gdi, GuiStates
      <3> QED
        BY <2>4, <2>5, <3>1, IdleType DEF Exec, FrameFails, Gdi
    <2>6. CASE Unregister \/ RenderRefused \/ EndFrame
      BY <2>4, <2>6, IdleType DEF Unregister, RenderRefused, EndFrame
    <2>7. ASSUME NEW p \in Panes, DestroyHost(p) \/ Paint(p) PROVE BatchInv'
      <3>1. gui'.batch = NoBatch /\ UNCHANGED latest
        BY <2>7, IdleType DEF DestroyHost, Paint, GuiStates
      <3> QED
        BY <2>4, <3>1
    <2>8. ASSUME NEW p, Open \/ Expose(p) PROVE BatchInv'
      BY <2>4, <2>8 DEF Open, Expose
    <2> QED
      BY <1>3, <2>2, <2>3, <2>5, <2>6, <2>7, <2>8 DEF WindowStep, GuiStep
  <1> QED
    BY <1>1, <1>2, <1>3, NextCases DEF vars

-----------------------------------------------------------------------------
(* Replies *)

(* deliver, of the query at hand.                                          *)
LEMMA DeliverKeeps ==
    ASSUME TypeOK, ReplyInv, NEW i \in Ids, NEW r, deliver(i, <<r, i>>),
           UNCHANGED <<calls, nextId>>
    PROVE  ReplyInv'
  <1>1. /\ chan \in [Ids -> Replies \cup {Nothing}]
        /\ slots' = slots \ {i}
        /\ chan' = chan \/ chan' = [chan EXCEPT ![i] = <<r, i>>]
    BY DEF deliver, TypeOK
  <1> QED
    BY <1>1 DEF ReplyInv

(* The query at hand asks for its own answer.                              *)
LEMMA QueryIsOwn ==
    ASSUME TypeOK, GuiInv, BatchInv, gui.pc \in {"exec", "gdi"},
           gui.at <= Len(gui.batch.cmds), NextCmd.op = "query"
    PROVE  NextCmd.id = NextCmd.call /\ NextCmd.id \in Ids
  <1>1. gui.at \in Nat /\ gui.at >= 1 /\ Len(gui.batch.cmds) \in Nat
    BY TypeIs, BatchFacts DEF GuiInv, GuiStates
  <1>2. NextCmd \in Cmds /\ gui.at \in DOMAIN gui.batch.cmds
    BY <1>1, NextCmdFacts
  <1>3. NextCmd.id \in Ids
    BY <1>2, CmdFacts
  <1> QED
    BY <1>2, <1>3 DEF BatchInv, Sound, NextCmd

LEMMA ReplyInvStep ==
    ASSUME TypeOK, ThreadInv, GuiInv, BatchInv, ReplyInv, AnswersAreOwn,
           [Next]_vars
    PROVE  ReplyInv' /\ AnswersAreOwn'
  <1> USE DEF replyVars
  <1>0. /\ chan \in [Ids -> Replies \cup {Nothing}]
        /\ got \in [Ids -> Replies \cup {Nothing}]
    BY DEF TypeOK
  <1>1. CASE UNCHANGED <<calls, nextId, chan, slots, got>>
    BY <1>1 DEF ReplyInv, AnswersAreOwn
  <1>2. ASSUME NEW t \in Threads, NEW p, Ask(t, p)
        PROVE  ReplyInv' /\ AnswersAreOwn'
    <2> DEFINE i == calls + 1
    <2>1. /\ alloc_id = i /\ got' = got /\ slots' = slots \cup {i}
          /\ chan' = [chan EXCEPT ![i] = Nothing] /\ calls' = i /\ nextId' = i
      BY <1>2 DEF Ask, alloc_id, ReplyInv
    <2> QED
      BY <1>0, <2>1 DEF ReplyInv, AnswersAreOwn
  <1>3. ASSUME NEW t \in Threads, Answered(t)
        PROVE  ReplyInv' /\ AnswersAreOwn'
    <2> DEFINE i == th[t].id
    <2>1. i \in Ids /\ th[t].call = i
      BY <1>3 DEF Answered, ThreadInv
    <2>2. /\ got' = [got EXCEPT ![i] = chan[i]] /\ chan[i] # Nothing
          /\ chan' = [chan EXCEPT ![i] = Nothing]
          /\ UNCHANGED <<calls, nextId, slots>>
      BY <1>3, <2>1 DEF Answered
    <2> HIDE DEF i
    <2> QED
      BY <1>0, <2>1, <2>2 DEF ReplyInv, AnswersAreOwn
  <1>4. ASSUME NEW t \in Threads, LanguageStep(t)
        PROVE  ReplyInv' /\ AnswersAreOwn'
    BY <1>1, <1>2, <1>3, <1>4 DEF LanguageStep, ThreadStep, Present, TimeOut,
       Emit, Begin, Insert, Notify
  <1>5. CASE WindowStep
    <2>1. UNCHANGED <<calls, nextId, got>>
      BY <1>5, WindowFrame
    <2>2. AnswersAreOwn'
      BY <2>1 DEF AnswersAreOwn
    <2>3. CASE UNCHANGED <<chan, slots>>
      BY <1>1, <2>1, <2>3
    <2>4. ASSUME gui.pc \in {"exec", "gdi"}, gui.at <= Len(gui.batch.cmds),
                 NextCmd.op = "query",
                 NEW r, deliver(NextCmd.id, <<r, NextCmd.call>>)
          PROVE  ReplyInv'
      BY <2>1, <2>4, QueryIsOwn, DeliverKeeps
    <2>5. CASE Exec
      <3>1. CASE NextCmd.op = "query"
        <4>1. PICK r \in {"ok", "failed"} :
                 deliver(NextCmd.id, <<r, NextCmd.call>>)
          BY <2>5, <3>1 DEF Exec
        <4> QED
          BY <2>2, <2>4, <2>5, <3>1, <4>1 DEF Exec
      <3>2. CASE NextCmd.op # "query"
        BY <2>3, <2>5, <3>2 DEF Exec
      <3> QED
        BY <3>1, <3>2
    <2>6. CASE Gdi
      BY <2>2, <2>3, <2>4, <2>6 DEF Gdi
    <2> QED
      BY <1>5, <2>3, <2>5, <2>6 DEF WindowStep, GuiStep, Forget, Unregister,
         Render, RenderRefused, FrameFails, EndFrame, Open, DestroyHost,
         Expose, Paint
  <1> QED
    BY <1>1, <1>4, <1>5, NextCases DEF vars

-----------------------------------------------------------------------------
(* The transform *)

LEMMA DepthOther ==
    ASSUME NEW ops, NEW n \in Nat, NEW d \in Nat, NEW stack \in Seq(Nat),
           Depth(ops, n, d, stack), ops[n + 1] \notin {"push", "pop"}
    PROVE  Depth(ops, n + 1, d, stack)
  <1>1. /\ Number(ops, "pop", n) \in Nat /\ Number(ops, "push", n) \in Nat
        /\ Number(ops, "pop", n + 1) = Number(ops, "pop", n)
        /\ Number(ops, "push", n + 1) = Number(ops, "push", n)
    BY NumberNext
  <1> QED
    BY <1>1 DEF Depth

LEMMA DepthPush ==
    ASSUME NEW ops, NEW n \in Nat, NEW d \in Nat, NEW stack \in Seq(Nat),
           Depth(ops, n, d, stack), ops[n + 1] = "push"
    PROVE  Depth(ops, n + 1, d + 1, Append(stack, d))
  <1>1. /\ Number(ops, "pop", n) \in Nat /\ Number(ops, "push", n) \in Nat
        /\ Number(ops, "pop", n + 1) = Number(ops, "pop", n)
        /\ Number(ops, "push", n + 1) = Number(ops, "push", n) + 1
    BY NumberNext
  <1>2. Number(ops, "pop", n + 1) + (d + 1) = Number(ops, "push", n + 1)
    BY <1>1 DEF Depth
  <1> DEFINE new == Append(stack, d)
  <1>3. /\ Len(stack) \in Nat /\ Len(new) = Len(stack) + 1 /\ d <= Len(stack)
        /\ new[Len(stack) + 1] = d
        /\ \A i \in 1..Len(stack) : new[i] = stack[i]
    BY DEF Depth
  <1> HIDE DEF new
  <1>4. ASSUME NEW j \in 0..(d + 1) - 1
        PROVE  new[Len(new) - j] = (d + 1) - 1 - j
    <2>1. CASE j = 0
      <3>1. Len(new) - j = Len(stack) + 1
        BY <1>3, <2>1
      <3> QED
        BY <1>3, <2>1, <3>1
    <2>2. CASE j # 0
      <3>1. j - 1 \in 0..d - 1 /\ Len(new) - j = Len(stack) - (j - 1)
            /\ Len(new) - j \in 1..Len(stack)
        BY <1>3, <2>2
      <3>2. stack[Len(stack) - (j - 1)] = d - 1 - (j - 1)
        BY <3>1 DEF Depth
      <3>3. new[Len(new) - j] = d - 1 - (j - 1)
        BY <1>3, <3>1, <3>2
      <3> QED
        BY <3>3
    <2> QED
      BY <2>1, <2>2
  <1>5. d + 1 <= Len(new)
    BY <1>3
  <1> QED
    BY <1>2, <1>4, <1>5 DEF Depth, new

(* A pop that a push went before finds the offset to go back to.           *)
LEMMA DepthPop ==
    ASSUME NEW ops, NEW n \in Nat, NEW d \in Nat, NEW stack \in Seq(Nat),
           Depth(ops, n, d, stack), ops[n + 1] = "pop",
           Number(ops, "pop", n + 1) <= Number(ops, "push", n + 1)
    PROVE  stack # << >> /\ Depth(ops, n + 1, Last(stack), Front(stack))
  <1>1. /\ Number(ops, "pop", n) \in Nat /\ Number(ops, "push", n) \in Nat
        /\ Number(ops, "pop", n + 1) = Number(ops, "pop", n) + 1
        /\ Number(ops, "push", n + 1) = Number(ops, "push", n)
    BY NumberNext
  <1>2. d >= 1 /\ d - 1 \in Nat
        /\ Number(ops, "pop", n + 1) + (d - 1) = Number(ops, "push", n + 1)
    BY <1>1 DEF Depth
  <1>3. Len(stack) \in Nat /\ d <= Len(stack) /\ Len(stack) >= 1
    BY <1>2 DEF Depth
  <1>4. stack # << >>
    BY <1>3
  <1> DEFINE new == Front(stack)
  <1>5. /\ Len(new) = Len(stack) - 1
        /\ \A i \in 1..Len(stack) - 1 : new[i] = stack[i]
    <2>1. new = [i \in 1..Len(stack) - 1 |-> stack[i]]
      BY <1>3, <1>4 DEF Front
    <2>2. Len(stack) - 1 \in Nat
      BY <1>3
    <2> HIDE DEF new
    <2> QED
      BY <2>1, <2>2
  <1>6. Last(stack) = d - 1
    <2>1. 0 \in 0..d - 1
      BY <1>2
    <2>2. stack[Len(stack) - 0] = d - 1 - 0
      BY <2>1 DEF Depth
    <2> QED
      BY <1>3, <2>2 DEF Last
  <1> HIDE DEF new
  <1>7. ASSUME NEW j \in 0..(d - 1) - 1
        PROVE  new[Len(new) - j] = (d - 1) - 1 - j
    <2>1. j + 1 \in 0..d - 1 /\ Len(new) - j = Len(stack) - (j + 1)
          /\ Len(new) - j \in 1..Len(stack) - 1
      BY <1>2, <1>3, <1>5
    <2>2. stack[Len(stack) - (j + 1)] = d - 1 - (j + 1)
      BY <2>1 DEF Depth
    <2>3. new[Len(new) - j] = d - 1 - (j + 1)
      BY <1>5, <2>1, <2>2
    <2> QED
      BY <2>3
  <1>8. d - 1 <= Len(new)
    BY <1>3, <1>5
  <1>9. Depth(ops, n + 1, d - 1, new)
    BY <1>2, <1>7, <1>8 DEF Depth
  <1> QED
    BY <1>4, <1>6, <1>9 DEF new

(* One command further.                                                    *)
LEMMA ExecDepth ==
    ASSUME TypeOK, GuiInv, BatchInv, DepthInv, TargetInv, Exec
    PROVE  DepthInv' /\ TargetInv'
  <1> DEFINE n == gui.at - 1
             ops == OpsOf(gui.batch)
             d == transform[gui.pane]
  <1>1. /\ gui \in GuiStates /\ gui.pc = "exec" /\ gui.pane \in Panes
        /\ gui.batch \in AnyBatch /\ Len(gui.batch.cmds) \in Nat
        /\ gui.at \in Nat /\ gui.at <= Len(gui.batch.cmds)
        /\ n \in 0..Len(gui.batch.cmds)
    BY TypeIs, BatchFacts DEF Exec, GuiStates, GuiInv, DepthInv
  <1>2. n \in Nat /\ n + 1 = gui.at /\ gui.at \in 1..Len(gui.batch.cmds)
        /\ gui.at \in 0..Len(gui.batch.cmds)
    BY <1>1
  <1>3. /\ transform \in [Panes -> Nat] /\ offsets \in Seq(Nat)
    BY DEF TypeOK
  <1>4. d \in Nat
    BY <1>1, <1>3
  <1>5. ASSUME gui.pane \notin bent, WellNested(ops)
        PROVE  Depth(ops, n, d, offsets)
    BY <1>1, <1>5 DEF DepthInv
  <1>6. ops[n + 1] = NextCmd.op /\ NextCmd \in Cmds
    BY <1>2, NextCmdFacts DEF OpsOf, NextCmd
  <1>7. /\ gui'.pc = "exec" /\ gui'.pane = gui.pane /\ gui'.batch = gui.batch
        /\ gui'.at = gui.at + 1 /\ target' = target /\ bent' = bent
    BY <1>1 DEF Exec, GuiStates
  <1>8. gui'.at - 1 = n + 1 /\ n + 1 \in 0..Len(gui'.batch.cmds) /\ gui'.at # 1
    BY <1>1, <1>2, <1>7
  <1> HIDE DEF n, ops, d
  <1>9. ASSUME gui.pane \notin bent /\ WellNested(ops) =>
                  Depth(ops, n + 1, transform'[gui.pane], offsets')
        PROVE  DepthInv'
    BY <1>7, <1>8, <1>9 DEF DepthInv, ops
  <1>10. ASSUME NEW v, transform' = transform
                      \/ transform' = [transform EXCEPT ![gui.pane] = v]
         PROVE  TargetInv'
    BY <1>1, <1>3, <1>7, <1>10 DEF TargetInv, TypeOK
  <1>11. CASE NextCmd.op = "push"
    <2>1. /\ offsets' = Append(offsets, d)
          /\ transform' = [transform EXCEPT ![gui.pane] = d + 1]
      BY <1>11 DEF Exec, d
    <2>2. transform'[gui.pane] = d + 1
      BY <1>1, <1>3, <2>1
    <2>3. gui.pane \notin bent /\ WellNested(ops) =>
             Depth(ops, n + 1, d + 1, Append(offsets, d))
      BY <1>2, <1>3, <1>4, <1>5, <1>6, <1>11, DepthPush
    <2> QED
      BY <1>9, <1>10, <2>1, <2>2, <2>3
  <1>12. CASE NextCmd.op = "pop"
    <2>1. ASSUME gui.pane \notin bent, WellNested(ops)
          PROVE  offsets # << >> /\ Depth(ops, n + 1, Last(offsets), Front(offsets))
      <3>1. Number(ops, "pop", n + 1) <= Number(ops, "push", n + 1)
        BY <1>1, <1>2, <2>1, NestedFacts DEF ops
      <3> QED
        BY <1>2, <1>3, <1>4, <1>5, <1>6, <1>12, <2>1, <3>1, DepthPop
    <2>2. CASE offsets # << >>
      <3>1. /\ transform' = [transform EXCEPT ![gui.pane] = Last(offsets)]
            /\ offsets' = Front(offsets)
        BY <1>12, <2>2 DEF Exec
      <3>2. transform'[gui.pane] = Last(offsets)
        BY <1>1, <1>3, <3>1
      <3> QED
        BY <1>9, <1>10, <2>1, <3>1, <3>2
    <2>3. CASE offsets = << >>
      <3>1. UNCHANGED transform
        BY <1>12, <2>3 DEF Exec
      <3> QED
        BY <1>9, <1>10, <2>1, <2>3, <3>1
    <2> QED
      BY <2>2, <2>3
  <1>13. CASE NextCmd.op \notin {"push", "pop"}
    <2>1. UNCHANGED <<transform, offsets>>
      BY <1>13 DEF Exec
    <2>2. gui.pane \notin bent /\ WellNested(ops) => Depth(ops, n + 1, d, offsets)
      BY <1>2, <1>3, <1>4, <1>5, <1>6, <1>13, DepthOther
    <2> QED
      BY <1>9, <1>10, <2>1, <2>2 DEF d
  <1> QED
    BY <1>11, <1>12, <1>13

LEMMA DepthStep ==
    ASSUME TypeOK, GuiInv, BatchInv, DepthInv, TargetInv, [Next]_vars
    PROVE  DepthInv' /\ TargetInv'
  <1> USE DEF d2dVars
  <1>0. gui \in GuiStates /\ transform \in [Panes -> Nat] /\ target \subseteq Panes
    BY TypeIs DEF TypeOK
  <1>1. CASE UNCHANGED <<gui, transform, offsets, target, bent>>
    BY <1>1 DEF DepthInv, TargetInv
  <1>2. ASSUME gui'.pc # "exec", gui.pc # "exec",
               UNCHANGED <<transform, target, bent>>
        PROVE  DepthInv' /\ TargetInv'
    BY <1>2 DEF DepthInv, TargetInv
  <1>3. CASE Exec
    BY <1>3, ExecDepth
  <1>4. CASE Render
    <2>1. gui.pc = "render" /\ gui.pane \in Panes
      BY <1>4 DEF Render, GuiInv
    <2>2. /\ gui'.pc = "exec" /\ gui'.pane = gui.pane /\ gui'.at = 1
          /\ gui'.batch = latest[gui.pane]
          /\ target' = target \cup {gui.pane} /\ bent' = bent
          /\ transform' = IF gui.pane \in target THEN transform
                          ELSE [transform EXCEPT ![gui.pane] = 0]
      BY <1>0, <1>4 DEF Render, GuiStates
    <2>3. \A p \in target' \ bent : transform'[p] = 0
      BY <1>0, <2>1, <2>2 DEF TargetInv
    <2>4. gui'.pane \notin bent' => transform'[gui'.pane] = 0
      BY <2>2, <2>3
    <2>5. Len(gui'.batch.cmds) \in Nat
      BY <2>1, <2>2, TypeIs, BatchFacts
    <2>6. Depth(OpsOf(gui'.batch), 0, 0, offsets')
      <3>1. Len(offsets') >= 0
        BY <1>4 DEF Render, TypeOK
      <3>2. /\ Number(OpsOf(gui'.batch), "pop", 0) = 0
            /\ Number(OpsOf(gui'.batch), "push", 0) = 0
        BY NumberZero
      <3> QED
        BY <3>1, <3>2 DEF Depth
    <2>7. gui'.at - 1 = 0 /\ 0 \in 0..Len(gui'.batch.cmds)
      BY <2>2, <2>5
    <2>8. DepthInv'
      BY <2>4, <2>6, <2>7 DEF DepthInv
    <2>9. TargetInv'
      BY <2>2, <2>3 DEF TargetInv
    <2> QED
      BY <2>8, <2>9
  <1>5. CASE EndFrame
    <2>1. /\ gui.pc = "exec" /\ gui'.pc = "idle" /\ gui.pane \in Panes
          /\ UNCHANGED <<transform, target>>
          /\ bent' = IF WellNested(OpsOf(gui.batch)) THEN bent
                     ELSE bent \cup {gui.pane}
      BY <1>5, IdleType DEF EndFrame, GuiInv
    <2>2. ASSUME gui.pane \notin bent' PROVE transform[gui.pane] = 0
      <3>0. WellNested(OpsOf(gui.batch)) /\ gui.pane \notin bent
        BY <2>1, <2>2
      <3>1. /\ gui.at \in Nat /\ gui.at > Len(gui.batch.cmds)
            /\ gui.at - 1 \in 0..Len(gui.batch.cmds)
            /\ Len(gui.batch.cmds) \in Nat /\ gui.batch \in AnyBatch
            /\ Depth(OpsOf(gui.batch), gui.at - 1, transform[gui.pane], offsets)
        BY <1>0, <1>5, <2>1, <3>0, BatchFacts DEF EndFrame, DepthInv, GuiStates
      <3>2. gui.at - 1 = Len(gui.batch.cmds)
        BY <3>1
      <3> DEFINE n == Len(gui.batch.cmds)
                 ops == OpsOf(gui.batch)
      <3>3. Number(ops, "pop", n) = Number(ops, "push", n)
        BY <3>0, <3>1, NestedFacts
      <3>4. Number(ops, "pop", n) \in Nat /\ transform[gui.pane] \in Nat
        BY <1>0, <2>1, <3>1, NumberNext
      <3>5. Number(ops, "pop", n) + transform[gui.pane] = Number(ops, "push", n)
        BY <3>1, <3>2 DEF Depth
      <3> QED
        BY <3>3, <3>4, <3>5
    <2>3. bent \subseteq bent'
      BY <2>1
    <2> QED
      BY <2>1, <2>2, <2>3 DEF DepthInv, TargetInv
  <1>6. CASE FrameFails
    <2>1. /\ gui.pc = "exec" /\ gui'.pc = "gdi" /\ target' = target \ {gui.pane}
          /\ UNCHANGED transform /\ bent' = bent \ {gui.pane}
      BY <1>0, <1>6 DEF FrameFails, GuiStates
    <2> QED
      BY <2>1 DEF DepthInv, TargetInv
  <1>7. ASSUME NEW p \in Panes, DestroyHost(p) PROVE DepthInv' /\ TargetInv'
    <2>1. /\ gui.pc = "idle" /\ gui'.pc = "forget" /\ target' = target \ {p}
          /\ transform' = [transform EXCEPT ![p] = 0] /\ bent' = bent \ {p}
      BY <1>7, IdleType DEF DestroyHost, GuiStates
    <2> QED
      BY <1>0, <2>1 DEF DepthInv, TargetInv
  <1>8. ASSUME NEW p \in Panes, Paint(p) PROVE DepthInv' /\ TargetInv'
    <2>1. /\ gui.pc = "idle" /\ gui'.pc = "render"
          /\ UNCHANGED <<transform, target, bent>>
      BY <1>8, IdleType DEF Paint, GuiStates
    <2> QED
      BY <1>2, <2>1
  <1>9. CASE Forget \/ Unregister \/ RenderRefused \/ Gdi
    <2>1. /\ gui.pc # "exec" /\ gui'.pc # "exec"
          /\ UNCHANGED <<transform, target, bent>>
      BY <1>0, <1>9, IdleType DEF Forget, Unregister, RenderRefused, Gdi,
         GuiStates
    <2> QED
      BY <1>2, <2>1
  <1>10. CASE WindowStep
    BY <1>1, <1>3, <1>4, <1>5, <1>6, <1>7, <1>8, <1>9, <1>10
       DEF WindowStep, GuiStep, Open, Expose
  <1> QED
    BY <1>1, <1>10, NextCases, LanguageFrame DEF vars

-----------------------------------------------------------------------------
(* No submitted picture is missed *)

(* What LatestIsFramed says of one pane.                                   *)
Caught(p) ==
    \/ framed[p] = latest[p].seq
    \/ p \in dirty \cup refused
    \/ gui.pc = "render" /\ gui.pane = p
    \/ \E t \in Threads : th[t].pc = "notify" /\ th[t].batch.child = p

LEMMA CaughtByLanguage ==
    ASSUME TypeOK, ThreadInv, LatestIsFramed, NEW t \in Threads,
           LanguageStep(t)
    PROVE  LatestIsFramed'
  <1>0. /\ th \in [Threads -> ThreadStates] /\ latest \in [Panes -> AnyBatch]
        /\ host \subseteq Panes
    BY TypeIs
  <1>1. UNCHANGED <<gui, host, registry, framed, refused>>
    BY LanguageFrame
  <1>2. ASSUME NEW p \in host PROVE Caught(p)
    BY <1>2 DEF LatestIsFramed, Caught
  <1>3. SUFFICES ASSUME NEW p \in host PROVE Caught(p)'
    BY <1>1 DEF LatestIsFramed, Caught
  <1>4. ASSUME UNCHANGED <<latest, dirty>>, th[t].pc # "notify",
               NEW v, th' = [th EXCEPT ![t] = v] \/ th' = th
        PROVE  Caught(p)'
    <2>1. \A u \in Threads : th[u].pc = "notify" => th'[u] = th[u]
      BY <1>0, <1>4
    <2> QED
      BY <1>1, <1>2, <1>4, <2>1 DEF Caught
  <1>5. CASE Insert(t)
    <2>1. /\ th'[t] = [th[t] EXCEPT !.pc = "notify"] /\ dirty' = dirty
          /\ \A u \in Threads \ {t} : th'[u] = th[u]
          /\ latest' = [latest EXCEPT ![th[t].batch.child] = th[t].batch]
          /\ th[t].pc = "insert"
      BY <1>0, <1>5 DEF Insert
    <2>2. th'[t].pc = "notify" /\ th'[t].batch = th[t].batch
      BY <1>0, <2>1 DEF ThreadStates
    <2>3. CASE th[t].batch.child = p
      BY <2>2, <2>3 DEF Caught
    <2>4. CASE th[t].batch.child # p
      <3>1. latest'[p] = latest[p]
        BY <1>0, <2>1, <2>4
      <3>2. \A u \in Threads : th[u].pc = "notify" => th'[u] = th[u]
        BY <2>1
      <3> QED
        BY <1>1, <1>2, <2>1, <3>1, <3>2 DEF Caught
    <2> QED
      BY <2>3, <2>4
  <1>6. CASE Notify(t)
    <2>1. /\ latest' = latest /\ dirty \subseteq dirty'
          /\ \A u \in Threads \ {t} : th'[u] = th[u]
          /\ th[t].batch.child = p => p \in dirty'
      BY <1>0, <1>6 DEF Notify, TypeOK
    <2> QED
      BY <1>1, <1>2, <2>1 DEF Caught
  <1>7. CASE Present(t)
    BY <1>4, <1>7 DEF Present
  <1>8. CASE Answered(t) \/ TimeOut(t)
    BY <1>4, <1>8 DEF Answered, TimeOut
  <1>9. ASSUME NEW op, NEW q, Emit(t, op) \/ Begin(t, q) PROVE Caught(p)'
    BY <1>4, <1>9 DEF Emit, Begin
  <1>10. ASSUME NEW q, Ask(t, q) PROVE Caught(p)'
    <2>1. /\ UNCHANGED <<latest, dirty>> /\ th[t].pc # "notify"
          /\ \E v : th' = [th EXCEPT ![t] = v]
      BY <1>10 DEF Ask
    <2> QED
      BY <1>4, <2>1
  <1> QED
    BY <1>5, <1>6, <1>7, <1>8, <1>9, <1>10 DEF LanguageStep, ThreadStep

LEMMA CaughtByWindows ==
    ASSUME TypeOK, GuiInv, LatestIsFramed, WindowStep
    PROVE  LatestIsFramed'
  <1> USE DEF paneVars, frameVars
  <1>0. /\ latest \in [Panes -> AnyBatch] /\ host \subseteq Panes
        /\ gui \in GuiStates /\ framed \in [Panes -> 0..MaxBatches]
    BY TypeIs DEF TypeOK
  <1>1. UNCHANGED th
    BY WindowFrame
  <1>2. ASSUME NEW p \in host PROVE Caught(p)
    BY <1>2 DEF LatestIsFramed, Caught
  <1>3. SUFFICES ASSUME NEW p \in host' PROVE Caught(p)'
    BY DEF LatestIsFramed, Caught
  <1>4. ASSUME UNCHANGED <<host, latest, framed, refused>>, dirty \subseteq dirty',
               gui.pc # "render" \/ gui' = gui
        PROVE  Caught(p)'
    BY <1>1, <1>2, <1>4 DEF Caught
  <1>5. CASE Forget
    <2>1. /\ latest' = [latest EXCEPT ![gui.pane] = NoBatch]
          /\ UNCHANGED <<host, framed, refused, dirty>> /\ gui.pc = "forget"
      BY <1>5 DEF Forget
    <2>2. p # gui.pane /\ p \in Panes
      BY <1>0, <2>1 DEF GuiInv
    <2>3. latest'[p] = latest[p]
      BY <1>0, <2>1, <2>2
    <2> QED
      BY <1>1, <1>2, <2>1, <2>3 DEF Caught
  <1>6. CASE Unregister
    BY <1>4, <1>6 DEF Unregister
  <1>7. CASE Render
    <2>1. /\ framed' = [framed EXCEPT ![gui.pane] = latest[gui.pane].seq]
          /\ refused' = refused \ {gui.pane}
          /\ UNCHANGED <<host, latest, dirty>> /\ p \in Panes
      BY <1>0, <1>7 DEF Render
    <2>2. CASE p = gui.pane
      <3>1. framed'[p] = latest'[p].seq
        BY <1>0, <2>1, <2>2
      <3> QED
        BY <3>1 DEF Caught
    <2>3. CASE p # gui.pane
      <3>1. framed'[p] = framed[p]
        BY <1>0, <2>1, <2>3
      <3> QED
        BY <1>1, <1>2, <2>1, <2>3, <3>1 DEF Caught
    <2> QED
      BY <2>2, <2>3
  <1>8. CASE RenderRefused
    <2>1. refused' = refused \cup {gui.pane}
          /\ UNCHANGED <<host, latest, dirty, framed>>
      BY <1>8 DEF RenderRefused
    <2> QED
      BY <1>1, <1>2, <2>1 DEF Caught
  <1>9. CASE Exec \/ FrameFails \/ EndFrame \/ Gdi
    <2>1. UNCHANGED <<host, latest, framed, refused, dirty>> /\ gui.pc # "render"
      BY <1>9 DEF Exec, FrameFails, EndFrame, Gdi
    <2> QED
      BY <1>4, <2>1
  <1>10. CASE Open
    <2>1. /\ host' = host \cup {nextChild + 1} /\ dirty' = dirty \cup {nextChild + 1}
          /\ UNCHANGED <<latest, framed, refused, gui>>
      BY <1>10 DEF Open
    <2> QED
      BY <1>1, <1>2, <2>1 DEF Caught
  <1>11. ASSUME NEW q \in Panes, DestroyHost(q) PROVE Caught(p)'
    <2>1. /\ host' = host \ {q} /\ dirty' = dirty \ {q} /\ gui.pc = "idle"
          /\ UNCHANGED <<latest, framed, refused>>
      BY <1>11 DEF DestroyHost
    <2> QED
      BY <1>1, <1>2, <2>1 DEF Caught
  <1>12. ASSUME NEW q \in Panes, Expose(q) PROVE Caught(p)'
    BY <1>4, <1>12 DEF Expose
  <1>13. ASSUME NEW q \in Panes, Paint(q) PROVE Caught(p)'
    <2>1. /\ dirty' = dirty \ {q} /\ gui.pc = "idle"
          /\ gui' = [GuiIdle EXCEPT !.pc = "render", !.pane = q]
          /\ UNCHANGED <<host, latest, framed, refused>>
      BY <1>13 DEF Paint
    <2>2. gui'.pc = "render" /\ gui'.pane = q
      BY <2>1, IdleType DEF GuiStates
    <2> QED
      BY <1>1, <1>2, <2>1, <2>2 DEF Caught
  <1> QED
    BY <1>5, <1>6, <1>7, <1>8, <1>9, <1>10, <1>11, <1>12, <1>13
       DEF WindowStep, GuiStep

-----------------------------------------------------------------------------
(* The theorems *)

LEMMA InitIInv == Init => IInv
  <1> SUFFICES ASSUME Init PROVE IInv
    OBVIOUS
  <1>1. TypeOK
    BY InitType
  <1>2. BatchInv /\ ThreadInv
    BY BatchFacts, IdleType DEF Init, BatchInv, ThreadInv
  <1>3. ReplyInv /\ AnswersAreOwn
    BY DEF Init, ReplyInv, AnswersAreOwn
  <1>4. GuiInv /\ DepthInv /\ TargetInv
    BY IdleType DEF Init, GuiInv, DepthInv, TargetInv
  <1>5. LatestIsFramed
    BY DEF Init, LatestIsFramed
  <1> QED
    BY <1>1, <1>2, <1>3, <1>4, <1>5 DEF IInv

LEMMA NextIInv == IInv /\ [Next]_vars => IInv'
  <1> SUFFICES ASSUME IInv, [Next]_vars PROVE IInv'
    OBVIOUS
  <1> USE DEF IInv
  <1>1. TypeOK' /\ ThreadInv' /\ GuiInv'
    BY TypeStep, ThreadInvStep, GuiInvStep
  <1>2. BatchInv' /\ ReplyInv' /\ AnswersAreOwn'
    BY BatchInvStep, ReplyInvStep
  <1>3. DepthInv' /\ TargetInv'
    BY DepthStep
  <1>4. LatestIsFramed'
    <2>1. CASE UNCHANGED vars
      BY <2>1 DEF vars, paneVars, frameVars, LatestIsFramed
    <2> QED
      BY <2>1, NextCases, CaughtByLanguage, CaughtByWindows
  <1> QED
    BY <1>1, <1>2, <1>3, <1>4

LEMMA Always == Spec => []IInv
  BY InitIInv, NextIInv, PTL DEF Spec

(* The panes' shared state keeps its shape whatever programs, threads,      *)
(* windows and failures do, and a pane with a render host is registered    *)
(* (registry.rs).                                                          *)
THEOREM TypesKept == Spec => []TypeOK
  <1>1. IInv => TypeOK
    BY DEF IInv
  <1> QED
    BY <1>1, Always, PTL

(* A text query returns its own answer or none, however often old query    *)
(* batches are painted again and however late their answers come           *)
(* (replies.rs: alloc_id, deliver, wait).                                  *)
THEOREM AnswersOwn == Spec => []AnswersAreOwn
  <1>1. IInv => AnswersAreOwn
    BY DEF IInv
  <1> QED
    BY <1>1, Always, PTL

(* The GUI thread never waits in deliver: the place in the channel of a    *)
(* sender still in SLOTS is free (replies.rs: deliver, sync_channel(1)).   *)
THEOREM DeliverFree == Spec => []SendNeverBlocks
  <1>1. IInv => SendNeverBlocks
    BY DEF IInv, ReplyInv, TypeOK, SendNeverBlocks
  <1> QED
    BY <1>1, Always, PTL

(* No submitted picture is missed (batch.rs: submit; child.rs: WM_PAINT,   *)
(* render).                                                                *)
THEOREM PicturesFramed == Spec => []LatestIsFramed
  <1>1. IInv => LatestIsFramed
    BY DEF IInv
  <1> QED
    BY <1>1, Always, PTL

(* A frame starts shifted only on a render target that an unbalanced batch *)
(* was drawn on, whatever other panes, failed frames and unbalanced        *)
(* batches have left in OFFSET_STACK (child.rs: execute_d2d_batch, render, *)
(* push_offset, pop_offset).                                               *)
THEOREM FramesUntransformed == Spec => []FramesStartUntransformed
  <1>1. IInv => FramesStartUntransformed
    BY DEF IInv, DepthInv, FramesStartUntransformed
  <1> QED
    BY <1>1, Always, PTL
=============================================================================

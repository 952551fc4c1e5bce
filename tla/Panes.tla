------------------------------- MODULE Panes -------------------------------
(***************************************************************************)
(* Graphics panes (crates/igui/src: registry.rs, batch.rs, replies.rs,     *)
(* child.rs and the batch and query exports of cp_exports.rs; the words    *)
(* gpane-open, gpane-begin, gpane-present of src/gfx.rs).                  *)
(*                                                                         *)
(* A language thread builds a batch of drawing commands in a thread-local  *)
(* and submits it: the batch becomes the latest of its pane and the pane's *)
(* window is invalidated.  The GUI thread paints an invalidated pane from  *)
(* its latest batch.  A text query is a batch of one command: its caller   *)
(* installs a reply slot, submits, and waits at most five seconds for the  *)
(* paint to deliver the answer.  Panes are opened and closed meanwhile,    *)
(* frames fail, and a paint may come at any time and more than once.       *)
(***************************************************************************)
EXTENDS Naturals, Sequences, FiniteSets, SequencesExt

CONSTANTS
    Threads,     \* language threads
    MaxPanes,    \* bound: panes opened
    MaxBatches,  \* bound: batches begun
    MaxCalls,    \* bound: queries made
    MaxFails,    \* bound: Direct2D failures
    Programs     \* the command sequences that programs draw

Ops == {"draw", "push", "pop"}

(* In every prefix there are at most as many pops as pushes, in all of it  *)
(* as many.  Programs may draw what they like: nothing checks this.        *)
Number(ops, op, n) == Cardinality({i \in 1..n : ops[i] = op})
WellNested(ops) ==
    /\ \A n \in 0..Len(ops) : Number(ops, "pop", n) <= Number(ops, "push", n)
    /\ Number(ops, "pop", Len(ops)) = Number(ops, "push", Len(ops))

ASSUME PanesAssumption ==
    /\ MaxPanes \in Nat /\ MaxBatches \in Nat /\ MaxCalls \in Nat
    /\ MaxFails \in Nat
    /\ Programs \subseteq Seq(Ops)

Panes == 1..MaxPanes
Ids == 1..MaxCalls

(* SurfaceCmd.  Every command that only draws is "draw"; id is the         *)
(* request_id of a query and call numbers the call that made it.           *)
Cmd(op) == [op |-> op, id |-> 0, call |-> 0]
Query(id, call) == [op |-> "query", id |-> id, call |-> call]
Cmds == {Cmd(op) : op \in Ops} \cup {Query(i, c) : i \in Ids, c \in Ids}

(* PaneBatch                                                               *)
Batches == [child : Panes, seq : 1..MaxBatches, cmds : Seq(Cmds)]
NoBatch == [child |-> 0, seq |-> 0, cmds |-> << >>]

(* A Reply says which call's text it measured.                             *)
Nothing == <<"none", 0>>
Replies == {"ok", "failed"} \X Ids

VARIABLES
    nextChild,   \* NEXT_CHILD_ID
    registry,    \* REGISTRY: panes whose windows can be looked up
    host,        \* panes whose render host window exists
    dirty,       \* panes with a pending WM_PAINT
    latest,      \* PANE_STATES
    sequence,    \* SEQUENCE: batches begun so far
    current,     \* CURRENT of each thread
    nextId,      \* NEXT_REQUEST_ID: the last id given
    calls,       \* history: query calls made
    slots,       \* SLOTS of replies.rs
    chan,        \* the one-place channel of each request id
    th,          \* what each thread is doing
    got,         \* history: what each query call returned
    gui,         \* what the GUI thread is doing
    target,      \* panes that have a render target
    transform,   \* its transform: the number of offsets in force
    offsets,     \* OFFSET_STACK, one for all panes
    bent,        \* history: panes on whose target an unbalanced batch was drawn
    framed,      \* history: the batch a frame was last started for
    refused,     \* panes whose last paint could not start a frame
    fails        \* failures so far

paneVars == <<nextChild, registry, host>>
replyVars == <<nextId, calls, slots, chan, got>>
d2dVars == <<target, transform, offsets, bent, fails>>
frameVars == <<framed, refused>>
vars == <<paneVars, dirty, latest, sequence, current, replyVars, th, gui,
          d2dVars, frameVars>>

Idle == [pc |-> "idle", batch |-> NoBatch, call |-> 0, id |-> 0]
GuiIdle == [pc |-> "idle", pane |-> 0, batch |-> NoBatch, at |-> 0]

(* The variables keep their shapes; a pane with a render host is            *)
(* registered, and only panes that were opened are.                        *)
TypeOK ==
    /\ nextChild \in 0..MaxPanes
    /\ registry \subseteq 1..nextChild /\ host \subseteq registry
    /\ dirty \subseteq Panes
    /\ latest \in [Panes -> Batches \cup {NoBatch}]
    /\ sequence \in 0..MaxBatches
    /\ current \in [Threads -> Batches \cup {NoBatch}]
    /\ nextId \in 0..MaxCalls /\ calls \in 0..MaxCalls
    /\ slots \subseteq Ids
    /\ chan \in [Ids -> Replies \cup {Nothing}]
    /\ th \in [Threads -> [pc : {"idle", "insert", "notify", "wait"},
                           batch : Batches \cup {NoBatch},
                           call : 0..MaxCalls, id : 0..MaxCalls]]
    /\ got \in [Ids -> Replies \cup {Nothing}]
    /\ gui \in [pc : {"idle", "render", "exec", "gdi", "forget", "unregister"},
                pane : 0..MaxPanes, batch : Batches \cup {NoBatch},
                at : Nat]
    /\ target \subseteq Panes
    /\ transform \in [Panes -> Nat]
    /\ offsets \in Seq(Nat)
    /\ bent \subseteq Panes
    /\ framed \in [Panes -> 0..MaxBatches]
    /\ refused \subseteq Panes
    /\ fails \in 0..MaxFails

Init ==
    /\ nextChild = 0
    /\ registry = {} /\ host = {} /\ dirty = {}
    /\ latest = [p \in Panes |-> NoBatch]
    /\ sequence = 0
    /\ current = [t \in Threads |-> NoBatch]
    /\ nextId = 0 /\ calls = 0
    /\ slots = {}
    /\ chan = [i \in Ids |-> Nothing]
    /\ th = [t \in Threads |-> Idle]
    /\ got = [i \in Ids |-> Nothing]
    /\ gui = GuiIdle
    /\ target = {}
    /\ transform = [p \in Panes |-> 0]
    /\ offsets = << >> /\ bent = {}
    /\ framed = [p \in Panes |-> 0]
    /\ refused = {}
    /\ fails = 0

-----------------------------------------------------------------------------
(* Language threads: building and submitting *)

(* begin: a new batch replaces the one in progress.                        *)
Begin(t, p) ==
    /\ th[t].pc = "idle"
    /\ sequence < MaxBatches
    /\ sequence' = sequence + 1
    /\ current' = [current EXCEPT ![t] = [child |-> p, seq |-> sequence + 1,
                                          cmds |-> << >>]]
    /\ UNCHANGED <<paneVars, dirty, latest, replyVars, th, gui, d2dVars,
                   frameVars>>

OpsOf(batch) == [i \in DOMAIN batch.cmds |-> batch.cmds[i].op]

(* push: a command goes to the batch in progress, or nowhere.              *)
Emit(t, op) ==
    /\ th[t].pc = "idle"
    /\ current[t] # NoBatch
    /\ \E prog \in Programs :
          IsPrefix(Append(OpsOf(current[t]), op), prog)
    /\ current' = [current EXCEPT ![t].cmds = Append(@, Cmd(op))]
    /\ UNCHANGED <<paneVars, dirty, latest, sequence, replyVars, th, gui,
                   d2dVars, frameVars>>

(* rt_gpane_present, igui_submit_batch: finish takes the batch.            *)
Present(t) ==
    /\ th[t].pc = "idle"
    /\ current[t] # NoBatch /\ OpsOf(current[t]) \in Programs
    /\ th' = [th EXCEPT ![t] = [Idle EXCEPT !.pc = "insert",
                                            !.batch = current[t]]]
    /\ current' = [current EXCEPT ![t] = NoBatch]
    /\ UNCHANGED <<paneVars, dirty, latest, sequence, replyVars, gui, d2dVars,
                   frameVars>>

(* Mutant of alloc_id: the smallest id that no slot uses.                  *)
MutReuseId == CHOOSE i \in Ids :
    i \notin slots /\ \A j \in Ids \ slots : i <= j

alloc_id == nextId + 1

(* The three text queries: allocate an id, install the slot, and build the *)
(* batch in CURRENT, whatever was there.                                   *)
Ask(t, p) ==
    /\ th[t].pc = "idle"
    /\ calls < MaxCalls /\ sequence < MaxBatches
    /\ LET q == calls + 1  i == alloc_id
       IN  /\ calls' = q
           /\ nextId' = i
           /\ slots' = slots \cup {i}
           /\ chan' = [chan EXCEPT ![i] = Nothing]
           /\ th' = [th EXCEPT ![t] =
                 [pc |-> "insert", call |-> q, id |-> i,
                  batch |-> [child |-> p, seq |-> sequence + 1,
                             cmds |-> <<Query(i, q)>>]]]
    /\ sequence' = sequence + 1
    /\ current' = [current EXCEPT ![t] = NoBatch]
    /\ UNCHANGED <<paneVars, dirty, latest, got, gui, d2dVars, frameVars>>

(* submit, first part: the batch becomes the pane's latest.                *)
Insert(t) ==
    /\ th[t].pc = "insert"
    /\ th' = [th EXCEPT ![t].pc = "notify"]
    /\ latest' = [latest EXCEPT ![th[t].batch.child] = th[t].batch]
    /\ UNCHANGED <<paneVars, dirty, sequence, current, replyVars, gui,
                   d2dVars, frameVars>>

(* Mutant of Notify: a pane that is being painted is not invalidated.      *)
MutNotifyCoalesces(t) ==
    /\ th[t].pc = "notify"
    /\ LET p == th[t].batch.child
       IN  /\ dirty' = IF p \in registry \cap host /\ gui.pane # p
                       THEN dirty \cup {p} ELSE dirty
           /\ th' = [th EXCEPT ![t] = IF th[t].call # 0 /\ p \in registry
                                      THEN [th[t] EXCEPT !.pc = "wait"]
                                      ELSE Idle]
    /\ UNCHANGED <<paneVars, latest, sequence, current, replyVars, gui,
                   d2dVars, frameVars>>

(* submit, second part: look the window up and invalidate it.  A window    *)
(* that is gone since gets nothing.  A query of an unregistered pane       *)
(* returns 0 at once.                                                      *)
Notify(t) ==
    /\ th[t].pc = "notify"
    /\ LET p == th[t].batch.child
       IN  /\ dirty' = IF p \in registry \cap host THEN dirty \cup {p}
                       ELSE dirty
           /\ th' = [th EXCEPT ![t] = IF th[t].call # 0 /\ p \in registry
                                      THEN [th[t] EXCEPT !.pc = "wait"]
                                      ELSE Idle]
    /\ UNCHANGED <<paneVars, latest, sequence, current, replyVars, gui,
                   d2dVars, frameVars>>

(* wait: the reply has come.                                               *)
Answered(t) ==
    /\ th[t].pc = "wait"
    /\ chan[th[t].id] # Nothing
    /\ got' = [got EXCEPT ![th[t].call] = chan[th[t].id]]
    /\ chan' = [chan EXCEPT ![th[t].id] = Nothing]
    /\ th' = [th EXCEPT ![t] = Idle]
    /\ UNCHANGED <<paneVars, dirty, latest, sequence, current, nextId, calls,
                   slots, gui, d2dVars, frameVars>>

(* wait: five seconds are over.  The slot stays in SLOTS.                  *)
TimeOut(t) ==
    /\ th[t].pc = "wait"
    /\ chan[th[t].id] = Nothing
    /\ th' = [th EXCEPT ![t] = Idle]
    /\ UNCHANGED <<paneVars, dirty, latest, sequence, current, replyVars, gui,
                   d2dVars, frameVars>>

-----------------------------------------------------------------------------
(* GUI thread: windows *)

(* open_child_sized, handle_open_child and the WM_NCCREATE of the window   *)
(* and of its render host; the caller's thread is blocked meanwhile.  A    *)
(* new window is to be painted.                                            *)
Open ==
    /\ gui.pc = "idle"
    /\ nextChild < MaxPanes
    /\ \E t \in Threads : th[t].pc = "idle"
    /\ nextChild' = nextChild + 1
    /\ registry' = registry \cup {nextChild + 1}
    /\ host' = host \cup {nextChild + 1}
    /\ dirty' = dirty \cup {nextChild + 1}
    /\ UNCHANGED <<latest, sequence, current, replyVars, th, gui,
                   d2dVars, frameVars>>

(* close_child or the user: the render host goes first...                  *)
DestroyHost(p) ==
    /\ gui.pc = "idle"
    /\ p \in host
    /\ host' = host \ {p}
    /\ dirty' = dirty \ {p}
    /\ target' = target \ {p}
    /\ transform' = [transform EXCEPT ![p] = 0]
    /\ bent' = bent \ {p}
    /\ gui' = [GuiIdle EXCEPT !.pc = "forget", !.pane = p]
    /\ UNCHANGED <<nextChild, registry, latest, sequence, current,
                   replyVars, th, offsets, fails, frameVars>>

(* ... then WM_NCDESTROY of the MDI child: forget the batch, ...           *)
Forget ==
    /\ gui.pc = "forget"
    /\ latest' = [latest EXCEPT ![gui.pane] = NoBatch]
    /\ gui' = [gui EXCEPT !.pc = "unregister"]
    /\ UNCHANGED <<paneVars, dirty, sequence, current, replyVars, th, d2dVars,
                   frameVars>>

(* ... and the window.                                                     *)
Unregister ==
    /\ gui.pc = "unregister"
    /\ registry' = registry \ {gui.pane}
    /\ gui' = GuiIdle
    /\ UNCHANGED <<nextChild, host, dirty, latest, sequence, current,
                   replyVars, th, d2dVars, frameVars>>

(* Windows asks for a repaint of its own accord: the window was covered,   *)
(* or it was resized or is no longer minimised.                            *)
Expose(p) ==
    /\ p \in host \ dirty
    /\ dirty' = dirty \cup {p}
    /\ UNCHANGED <<paneVars, latest, sequence, current, replyVars, th, gui,
                   d2dVars, frameVars>>

-----------------------------------------------------------------------------
(* GUI thread: painting *)

(* WM_PAINT: BeginPaint validates the window.                              *)
Paint(p) ==
    /\ gui.pc = "idle"
    /\ p \in dirty
    /\ dirty' = dirty \ {p}
    /\ gui' = [GuiIdle EXCEPT !.pc = "render", !.pane = p]
    /\ UNCHANGED <<paneVars, latest, sequence, current, replyVars, th,
                   d2dVars, frameVars>>

(* render draws nothing: the window's client area is empty, or             *)
(* ensure_render_target fails.                                             *)
RenderRefused ==
    /\ gui.pc = "render"
    /\ refused' = refused \cup {gui.pane}
    /\ gui' = GuiIdle
    /\ UNCHANGED <<paneVars, dirty, latest, sequence, current, replyVars, th,
                   d2dVars, framed>>

(* render: there is a render target, and the frame is the latest batch's.  *)
(* A new target has no transform.                                          *)
Render ==
    /\ gui.pc = "render"
    /\ LET p == gui.pane
       IN  /\ target' = target \cup {p}
           /\ transform' = IF p \in target THEN transform
                           ELSE [transform EXCEPT ![p] = 0]
           /\ framed' = [framed EXCEPT ![p] = latest[p].seq]
           /\ refused' = refused \ {p}
           /\ gui' = [gui EXCEPT !.pc = "exec", !.batch = latest[p], !.at = 1]
    /\ UNCHANGED <<paneVars, dirty, latest, sequence, current, replyVars, th,
                   offsets, bent, fails>>

NextCmd == gui.batch.cmds[gui.at]

(* Mutant of deliver: the sender is left in SLOTS.                         *)
MutDeliverKeeps(i, reply) ==
    /\ slots' = slots
    /\ chan' = IF i \in slots /\ \E t \in Threads : th[t].id = i
               THEN [chan EXCEPT ![i] = reply] ELSE chan

(* Mutant of deliver: a failed layout is not reported.                     *)
MutDeliverOnlyOk(i, reply) ==
    IF reply[1] = "failed" THEN UNCHANGED <<slots, chan>>
    ELSE /\ slots' = slots \ {i}
         /\ chan' = IF i \in slots /\ \E t \in Threads : th[t].id = i
                    THEN [chan EXCEPT ![i] = reply] ELSE chan

(* deliver: at most one reply per slot; a caller that gave up has dropped  *)
(* its receiver.                                                           *)
deliver(i, reply) ==
    /\ slots' = slots \ {i}
    /\ chan' = IF i \in slots /\ \E t \in Threads : th[t].id = i
               THEN [chan EXCEPT ![i] = reply] ELSE chan

(* One command of execute_d2d_batch.                                       *)
Exec ==
    /\ gui.pc = "exec"
    /\ gui.at <= Len(gui.batch.cmds)
    /\ gui' = [gui EXCEPT !.at = @ + 1]
    /\ CASE NextCmd.op = "query" ->
              /\ \E r \in {"ok", "failed"} :
                    deliver(NextCmd.id, <<r, NextCmd.call>>)
              /\ UNCHANGED <<transform, offsets>>
         [] NextCmd.op = "push" ->
              /\ offsets' = Append(offsets, transform[gui.pane])
              /\ transform' = [transform EXCEPT ![gui.pane] = @ + 1]
              /\ UNCHANGED <<slots, chan>>
         [] NextCmd.op = "pop" /\ offsets # << >> ->
              /\ transform' = [transform EXCEPT ![gui.pane] = Last(offsets)]
              /\ offsets' = Front(offsets)
              /\ UNCHANGED <<slots, chan>>
         [] OTHER -> UNCHANGED <<transform, offsets, slots, chan>>
    /\ UNCHANGED <<paneVars, dirty, latest, sequence, current, nextId, calls,
                   got, th, target, bent, fails, frameVars>>

(* Mutant of FrameFails: the target is kept for the next frame.            *)
MutKeepTarget ==
    /\ gui.pc = "exec"
    /\ fails < MaxFails
    /\ gui.at <= Len(gui.batch.cmds) => NextCmd.op = "draw"
    /\ fails' = fails + 1
    /\ gui' = [gui EXCEPT !.pc = "gdi", !.at = 1]
    /\ UNCHANGED <<paneVars, dirty, latest, sequence, current, replyVars, th,
                   target, transform, offsets, bent, frameVars>>

(* A drawing command or EndDraw fails: the target is dropped and the same  *)
(* batch is executed again with GDI.                                       *)
FrameFails ==
    /\ gui.pc = "exec"
    /\ fails < MaxFails
    /\ gui.at <= Len(gui.batch.cmds) => NextCmd.op = "draw"
    /\ fails' = fails + 1
    /\ target' = target \ {gui.pane} /\ bent' = bent \ {gui.pane}
    /\ gui' = [gui EXCEPT !.pc = "gdi", !.at = 1]
    /\ UNCHANGED <<paneVars, dirty, latest, sequence, current, replyVars, th,
                   transform, offsets, frameVars>>

(* EndDraw succeeds.  The transform stays as the batch has left it.        *)
EndFrame ==
    /\ gui.pc = "exec"
    /\ gui.at > Len(gui.batch.cmds)
    /\ gui' = GuiIdle
    /\ bent' = IF WellNested(OpsOf(gui.batch)) THEN bent
               ELSE bent \cup {gui.pane}
    /\ UNCHANGED <<paneVars, dirty, latest, sequence, current, replyVars, th,
                   target, transform, offsets, fails, frameVars>>

(* execute_gdi_batch.  A query gets a Failed reply; a drawing command may  *)
(* fail and end the paint, the transforms are skipped.                     *)
Gdi ==
    /\ gui.pc = "gdi"
    /\ \/ /\ gui.at <= Len(gui.batch.cmds)
          /\ gui' = [gui EXCEPT !.at = @ + 1]
          /\ IF NextCmd.op = "query"
             THEN deliver(NextCmd.id, <<"failed", NextCmd.call>>)
             ELSE UNCHANGED <<slots, chan>>
       \/ /\ gui.at <= Len(gui.batch.cmds) => NextCmd.op = "draw"
          /\ gui' = GuiIdle
          /\ UNCHANGED <<slots, chan>>
    /\ UNCHANGED <<paneVars, dirty, latest, sequence, current, nextId, calls,
                   got, th, d2dVars, frameVars>>

-----------------------------------------------------------------------------
ThreadStep(t) == Insert(t) \/ Notify(t) \/ Answered(t)

GuiStep == Forget \/ Unregister \/ Render \/ RenderRefused \/ Exec
           \/ FrameFails \/ EndFrame \/ Gdi

Next ==
    \/ \E t \in Threads :
          \/ ThreadStep(t) \/ Present(t) \/ TimeOut(t)
          \/ \E op \in Ops : Emit(t, op)
          \/ \E p \in 1..nextChild : Begin(t, p) \/ Ask(t, p)
    \/ GuiStep
    \/ Open
    \/ \E p \in Panes : DestroyHost(p) \/ Expose(p) \/ Paint(p)

(* Threads inside submit or with a reply go on; the GUI thread finishes    *)
(* what it handles; and since submit posts a WM_PAINT besides invalidating,*)
(* a pending paint is served however many messages come for other panes.   *)
(* The five-second guard is left without fairness: no property leans on it.*)
Fairness ==
    /\ \A t \in Threads : WF_vars(ThreadStep(t))
    /\ WF_vars(GuiStep)
    /\ \A p \in Panes : SF_vars(Paint(p))

Spec == Init /\ [][Next]_vars /\ Fairness

-----------------------------------------------------------------------------
(* Properties *)

(* A query never returns the answer to another: an old query batch that is *)
(* still its pane's latest is executed again at every repaint, when other  *)
(* threads wait for other queries, and a late answer is nobody's.          *)
AnswersAreOwn == \A q \in Ids : got[q] # Nothing => got[q][2] = q

(* deliver never blocks the GUI thread: the SyncSender has one place, and  *)
(* repeated execution of a query batch must not send a second reply        *)
(* to a caller that has not taken the first.                               *)
SendNeverBlocks ==
    gui.pc \in {"exec", "gdi"} /\ gui.at <= Len(gui.batch.cmds) =>
        (NextCmd.op = "query" /\ NextCmd.id \in slots
            => chan[NextCmd.id] = Nothing)

(* No submitted picture is missed: whenever a pane that is shown was not   *)
(* last framed for its latest batch, a paint is pending or about to take   *)
(* the batch, or its submitter is about to invalidate the window; or the   *)
(* last paint could get no render target.                                  *)
LatestIsFramed ==
    \A p \in host :
        \/ framed[p] = latest[p].seq
        \/ p \in dirty \cup refused
        \/ gui.pc = "render" /\ gui.pane = p
        \/ \E t \in Threads : th[t].pc = "notify" /\ th[t].batch.child = p

(* Drawing starts untransformed, although OFFSET_STACK is shared by all    *)
(* panes, a failed frame leaves its entries there and unbalanced batches   *)
(* leave or take more: a frame is shifted at its start only on a render    *)
(* target that an unbalanced batch was drawn on before.                    *)
FramesStartUntransformed ==
    gui.pc = "exec" /\ gui.at = 1 =>
        transform[gui.pane] = 0 \/ gui.pane \in bent

(* A query is answered, without the help of its five-second guard, unless  *)
(* a newer batch replaces it, its pane closes or is minimised, or no frame *)
(* can be started.                                                         *)
QueryIsServed ==
    \A t \in Threads : \A q \in Ids :
        (th[t].pc = "wait" /\ th[t].call = q) ~>
            \/ th[t].call # q
            \/ LET p == th[t].batch.child
               IN  \/ latest[p] # th[t].batch
                   \/ p \notin host \/ p \in refused
=============================================================================

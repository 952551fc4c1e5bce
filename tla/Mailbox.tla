------------------------------ MODULE Mailbox ------------------------------
(***************************************************************************)
(* The event mailbox between the GUI thread and the language threads       *)
(* (crates/igui/src/channels.rs) and the Forth side of it, the word        *)
(* gpane-next-event (src/gfx.rs).                                          *)
(*                                                                         *)
(* The GUI thread pushes into a bounded channel and drops what does not    *)
(* fit.  A consumer calls next_event (any event, or those of the persistent*)
(* filter) or next_event_for (the events of one pane); what it receives    *)
(* and does not want it parks in a stash shared by all consumers.  The     *)
(* Receiver is behind a mutex that a call keeps until it returns.          *)
(*                                                                         *)
(* An event is its push number; kindOf and childOf say what it is.         *)
(***************************************************************************)
EXTENDS Naturals, Sequences, FiniteSets, SequencesExt

CONSTANTS
    Consumers,  \* language threads that call next_event / next_event_for
    Children,   \* window ids
    Kinds,      \* event kinds pushed, a subset of AllKinds
    Capacity,   \* CAPACITY of the channel, 1024 in the code
    MaxEvents,  \* bound: events pushed
    Deadlines   \* may a pane's call have a deadline?  A subset of BOOLEAN

(* The variants of IGuiEvent.                                              *)
GlobalKinds == {"ThemeChange", "EvalBuffer", "ForthRestart", "ForthInterrupt",
                "Menu"}
PaneKinds == {"Key", "Char", "Mouse", "Focus", "Resize", "Close", "Tick"}
InfraKinds == {"DpiChange", "ReplSubmit"}
AllKinds == {"FrameClose"} \cup GlobalKinds \cup PaneKinds \cup InfraKinds

Main == "main"                \* the target of a next_event call
NoChild == "none"             \* the child_id a global event does not have
NoEvent == 0

ASSUME MailboxAssumption ==
    /\ Capacity \in Nat
    /\ MaxEvents \in Nat
    /\ Deadlines \subseteq BOOLEAN
    /\ Kinds \subseteq AllKinds
    /\ Main \notin Children /\ NoChild \notin Children

Events == 1..MaxEvents
Targets == Children \cup {Main}

VARIABLES
    kindOf,   \* kindOf[e]: the variant of event e
    childOf,  \* childOf[e]: its child_id, NoChild for a global
    pushed,   \* events pushed so far
    chan,     \* the bounded mpsc channel
    stash,    \* EVENT_STASH
    filter,   \* EVENT_FILTER
    cpc,      \* where consumer c is
    target,   \* target[c]: Main, or the pane next_event_for was asked for
    snap,     \* snap[c]: filter_snapshot of a next_event call
    timed,    \* timed[c]: the call has a deadline (timeout_ms >= 0)
    hand,     \* hand[c]: the event consumer c has received and not parked yet
    dropped,  \* events push dropped because the channel was full
    removed,  \* events discard_stashed_events threw away
    taken     \* history: <<t, e>>, a call for target t returned e

chanVars == <<kindOf, childOf, pushed, chan, dropped>>
callVars == <<cpc, target, snap, timed, hand>>
vars == <<chanVars, stash, filter, callVars, removed, taken>>

CallPcs == {"idle", "snap", "scan", "lock", "recv", "park"}

(* The variables keep their shapes: the channel keeps to its capacity, and *)
(* consumers are at places of next_event or next_event_for.                *)
TypeOK ==
    /\ kindOf \in [Events -> AllKinds]
    /\ childOf \in [Events -> Children \cup {NoChild}]
    /\ pushed \in 0..MaxEvents
    /\ chan \in Seq(Events) /\ Len(chan) <= Capacity
    /\ stash \in Seq(Events)
    /\ filter \subseteq Children
    /\ cpc \in [Consumers -> CallPcs]
    /\ target \in [Consumers -> Targets]
    /\ snap \in [Consumers -> SUBSET Children]
    /\ timed \in [Consumers -> BOOLEAN]
    /\ hand \in [Consumers -> Events \cup {NoEvent}]
    /\ dropped \subseteq Events
    /\ removed \subseteq Events
    /\ taken \subseteq (Targets \X Events)

(* install() has run; no thread is in a call.                              *)
Init ==
    /\ kindOf = [e \in Events |-> "FrameClose"]
    /\ childOf = [e \in Events |-> NoChild]
    /\ pushed = 0
    /\ chan = << >>
    /\ stash = << >>
    /\ filter = {}
    /\ cpc = [c \in Consumers |-> "idle"]
    /\ target = [c \in Consumers |-> Main]
    /\ snap = [c \in Consumers |-> {}]
    /\ timed = [c \in Consumers |-> FALSE]
    /\ hand = [c \in Consumers |-> NoEvent]
    /\ dropped = {}
    /\ removed = {}
    /\ taken = {}

-----------------------------------------------------------------------------
(* Which consumer an event is for *)

(* matches_filter; an empty snapshot is no filter.                         *)
matches_filter(e, ws) ==
    \/ ws = {}
    \/ kindOf[e] \in GlobalKinds \cup {"FrameClose"}
    \/ childOf[e] \in ws

(* Mutant of matches_target: DpiChange is per window, so it matches too.   *)
MutMatchesDpi(e, w) ==
    \/ kindOf[e] = "FrameClose"
    \/ kindOf[e] \in PaneKinds \cup {"DpiChange"} /\ childOf[e] = w

(* Mutant of matches_target: the globals match every pane, as they do in   *)
(* matches_filter.                                                         *)
MutMatchesGlobals(e, w) ==
    \/ kindOf[e] \in GlobalKinds \cup {"FrameClose"}
    \/ kindOf[e] \in PaneKinds /\ childOf[e] = w

(* matches_target: FrameClose, and the pane events of window w.            *)
matches_target(e, w) ==
    \/ kindOf[e] = "FrameClose"
    \/ kindOf[e] \in PaneKinds /\ childOf[e] = w

(* What the call of consumer c is waiting for.                             *)
Wants(c, e) ==
    IF target[c] = Main THEN matches_filter(e, snap[c])
    ELSE matches_target(e, target[c])

(* decode_event yields EV_NONE: the variant is not shown to Forth.         *)
DecodesToNone(e) == kindOf[e] \in GlobalKinds \cup InfraKinds

(* A call is over: its local variables are gone.                           *)
Leave(c) ==
    /\ cpc' = [cpc EXCEPT ![c] = "idle"]
    /\ target' = [target EXCEPT ![c] = Main]
    /\ snap' = [snap EXCEPT ![c] = {}]
    /\ timed' = [timed EXCEPT ![c] = FALSE]

(* What a call returns to its caller.  A pane consumer is                  *)
(* rt_gpane_next_event_for: an event that decodes to EV_NONE goes back to  *)
(* the stash and the whole call is repeated.                               *)
Return(c, e) ==
    IF target[c] # Main /\ DecodesToNone(e)
    THEN /\ cpc' = [cpc EXCEPT ![c] = "scan"]
         /\ UNCHANGED <<target, snap, timed, taken>>
    ELSE /\ Leave(c)
         /\ taken' = taken \cup {<<target[c], e>>}

(* The stash a return leaves behind, st being the one it started from.     *)
StashAfter(c, e, st) ==
    IF target[c] # Main /\ DecodesToNone(e) THEN Append(st, e) ELSE st

-----------------------------------------------------------------------------
(* GUI thread *)

(* push: try_send; the new event is dropped when the channel is full.      *)
Push(k, w) ==
    /\ pushed < MaxEvents
    /\ pushed' = pushed + 1
    /\ kindOf' = [kindOf EXCEPT ![pushed + 1] = k]
    /\ childOf' = [childOf EXCEPT ![pushed + 1] = w]
    /\ IF Len(chan) < Capacity
       THEN chan' = Append(chan, pushed + 1) /\ UNCHANGED dropped
       ELSE dropped' = dropped \cup {pushed + 1} /\ UNCHANGED chan
    /\ UNCHANGED <<stash, filter, callVars, removed, taken>>

-----------------------------------------------------------------------------
(* Consumers *)

(* Mutant of Call: next_event_for does not look at the stash.              *)
MutCallSkipsStash(c, t, d) ==
    /\ cpc[c] = "idle"
    /\ target' = [target EXCEPT ![c] = t]
    /\ timed' = [timed EXCEPT ![c] = d]
    /\ cpc' = [cpc EXCEPT ![c] = IF t = Main THEN "snap" ELSE "lock"]
    /\ UNCHANGED <<chanVars, stash, filter, snap, hand, removed, taken>>

(* A call starts.  next_event copies the filter first, next_event_for goes *)
(* straight to the stash.                                                  *)
Call(c, t, d) ==
    /\ cpc[c] = "idle"
    /\ target' = [target EXCEPT ![c] = t]
    /\ timed' = [timed EXCEPT ![c] = d]
    /\ cpc' = [cpc EXCEPT ![c] = IF t = Main THEN "snap" ELSE "scan"]
    /\ UNCHANGED <<chanVars, stash, filter, snap, hand, removed, taken>>

Snapshot(c) ==
    /\ cpc[c] = "snap"
    /\ snap' = [snap EXCEPT ![c] = filter]
    /\ cpc' = [cpc EXCEPT ![c] = "scan"]
    /\ UNCHANGED <<chanVars, stash, filter, target, timed, hand, removed,
                   taken>>

(* Positions of the stash the call wants.                                  *)
Wanted(c) == {i \in DOMAIN stash : Wants(c, stash[i])}

(* Mutant of ScanHit: the event found is returned but not removed.         *)
MutScanPeeks(c) ==
    /\ cpc[c] = "scan"
    /\ \E i \in Wanted(c) :
          /\ \A j \in Wanted(c) : i <= j
          /\ Return(c, stash[i])
    /\ UNCHANGED <<chanVars, stash, filter, hand, removed>>

(* The first wanted event of the stash is removed and returned.            *)
ScanHit(c) ==
    /\ cpc[c] = "scan"
    /\ \E i \in Wanted(c) :
          /\ \A j \in Wanted(c) : i <= j
          /\ Return(c, stash[i])
          /\ stash' = StashAfter(c, stash[i], RemoveAt(stash, i))
    /\ UNCHANGED <<chanVars, filter, hand, removed>>

(* Nothing in the stash: on to the Receiver.                               *)
ScanMiss(c) ==
    /\ cpc[c] = "scan"
    /\ Wanted(c) = {}
    /\ cpc' = [cpc EXCEPT ![c] = "lock"]
    /\ UNCHANGED <<chanVars, stash, filter, target, snap, timed, hand,
                   removed, taken>>

(* mb.rx.lock(); the deadline is computed after it.                        *)
LockRx(c) ==
    /\ cpc[c] = "lock"
    /\ \A d \in Consumers : cpc[d] \notin {"recv", "park"}
    /\ cpc' = [cpc EXCEPT ![c] = "recv"]
    /\ UNCHANGED <<chanVars, stash, filter, target, snap, timed, hand,
                   removed, taken>>

(* A wanted event is received: return it, which unlocks the Receiver.      *)
RecvHit(c) ==
    /\ cpc[c] = "recv"
    /\ chan # << >>
    /\ Wants(c, Head(chan))
    /\ chan' = Tail(chan)
    /\ Return(c, Head(chan))
    /\ stash' = StashAfter(c, Head(chan), stash)
    /\ UNCHANGED <<kindOf, childOf, pushed, dropped, filter, hand, removed>>

(* Mutant of RecvMiss: an unwanted event is thrown away.                   *)
MutRecvForgets(c) ==
    /\ cpc[c] = "recv"
    /\ chan # << >>
    /\ ~Wants(c, Head(chan))
    /\ chan' = Tail(chan)
    /\ UNCHANGED <<kindOf, childOf, pushed, dropped, stash, filter, callVars,
                   removed, taken>>

(* An unwanted event is received...                                        *)
RecvMiss(c) ==
    /\ cpc[c] = "recv"
    /\ chan # << >>
    /\ ~Wants(c, Head(chan))
    /\ chan' = Tail(chan)
    /\ hand' = [hand EXCEPT ![c] = Head(chan)]
    /\ cpc' = [cpc EXCEPT ![c] = "park"]
    /\ UNCHANGED <<kindOf, childOf, pushed, dropped, stash, filter, target,
                   snap, timed, removed, taken>>

(* ... and parked, with the Receiver still locked.                         *)
Park(c) ==
    /\ cpc[c] = "park"
    /\ stash' = Append(stash, hand[c])
    /\ hand' = [hand EXCEPT ![c] = NoEvent]
    /\ cpc' = [cpc EXCEPT ![c] = "recv"]
    /\ UNCHANGED <<chanVars, filter, target, snap, timed, removed, taken>>

(* The deadline has passed: None, whatever the channel holds.              *)
TimeOut(c) ==
    /\ cpc[c] = "recv"
    /\ timed[c]
    /\ Leave(c)
    /\ UNCHANGED <<chanVars, stash, filter, hand, removed, taken>>

(* filter_on_window, unfilter_window, clear_filter, between two calls of a *)
(* language thread.                                                        *)
SetFilter(c) ==
    /\ cpc[c] = "idle"
    /\ \E w \in Children : filter' \in {filter \cup {w}, filter \ {w}, {}}
    /\ UNCHANGED <<chanVars, stash, callVars, removed, taken>>

(* discard_stashed_events                                                  *)
Discard(c) ==
    /\ cpc[c] = "idle"
    /\ removed' = removed \cup ToSet(stash)
    /\ stash' = << >>
    /\ UNCHANGED <<chanVars, filter, callVars, taken>>

-----------------------------------------------------------------------------
Step(c) ==
    \/ Snapshot(c) \/ ScanHit(c) \/ ScanMiss(c) \/ LockRx(c) \/ RecvHit(c)
    \/ RecvMiss(c) \/ Park(c) \/ TimeOut(c)

(* The calls of the IDE: its worker polls with next_event(200), a Forth    *)
(* program asks for the events of its pane.                                *)
IdeCall(c) ==
    \/ Call(c, Main, TRUE)
    \/ \E w \in Children : \E d \in Deadlines : Call(c, w, d)

Input ==
    \E k \in Kinds :
        IF k \in GlobalKinds \cup {"FrameClose"} THEN Push(k, NoChild)
        ELSE \E w \in Children : Push(k, w)

Next ==
    \/ Input
    \/ \E c \in Consumers :
          \/ Step(c) \/ IdeCall(c) \/ Call(c, Main, FALSE)
          \/ SetFilter(c) \/ Discard(c)

Spec == Init /\ [][Next]_vars

(* The IDE: no filter and no discard.                                      *)
IdeNext == Input \/ \E c \in Consumers : Step(c) \/ IdeCall(c)

(* A thread inside a call makes progress, a deadline passes, and a mutex   *)
(* that is unlocked again and again is obtained at last.  The drain loop   *)
(* of the IDE worker never ends: it polls again whenever a                 *)
(* Forth program has returned, and a poll whose 200 ms are not over takes  *)
(* what the channel holds.                                                 *)
IdeFairness ==
    \A c \in Consumers :
        /\ WF_vars(Step(c))
        /\ SF_vars(LockRx(c))
        /\ SF_vars(Call(c, Main, TRUE))
        /\ SF_vars(target[c] = Main /\ RecvHit(c))

IdeSpec == Init /\ [][IdeNext]_vars /\ IdeFairness

-----------------------------------------------------------------------------
(* Properties *)

(* Places event e is in, or has left the mailbox through.                  *)
InChan(e) == \E i \in DOMAIN chan : chan[i] = e
InStash(e) == \E i \in DOMAIN stash : stash[i] = e
InHand(e) == \E c \in Consumers : hand[c] = e
Taken(e) == \E t \in Targets : <<t, e>> \in taken

(* No pushed event disappears: it waits in the channel, in the stash or in *)
(* the hand of a consumer about to park it, or it was returned, dropped by *)
(* a full channel, or discarded by discard_stashed_events.                 *)
NothingLost ==
    \A e \in 1..pushed :
        \/ InChan(e) \/ InStash(e) \/ InHand(e)
        \/ Taken(e) \/ e \in dropped \/ e \in removed

(* No event is returned while a copy of it is still waiting, and none is   *)
(* in two places: whatever consumers and stash do, it is returned once.    *)
NothingTwice ==
    \A e \in 1..pushed :
        /\ Taken(e) \/ e \in dropped \/ e \in removed
              => ~InChan(e) /\ ~InStash(e) /\ ~InHand(e)
        /\ InChan(e) => ~InStash(e) /\ ~InHand(e)
        /\ InStash(e) => ~InHand(e)
        /\ \A i, j \in DOMAIN stash : stash[i] = e /\ stash[j] = e => i = j

(* A call never passes over an older event it wants: what it returns is    *)
(* the oldest such event of the stash and the channel if it came from the  *)
(* stash, or if there is one language thread; otherwise the oldest of the  *)
(* channel, another thread having perhaps parked an older one since the    *)
(* call looked at the stash.                                               *)
OldestFirst ==
    [][\A c \in Consumers : \A r \in taken' \ taken :
          cpc[c] # "idle" /\ cpc'[c] = "idle" =>
             \A e \in 1..(r[2] - 1) :
                /\ InChan(e) => ~Wants(c, e)
                /\ InStash(e) /\ (cpc[c] = "scan" \/ Consumers = {c})
                      => ~Wants(c, e)]_vars

(* A request of the user's (menu, restart, eval, REPL submit) that got     *)
(* into the mailbox reaches the IDE worker's drain loop, however many      *)
(* calls a Forth event loop makes in between: pane consumers park it.      *)
RequestsReachDrain ==
    \A e \in Events :
        (InChan(e) /\ kindOf[e] \notin PaneKinds \cup {"FrameClose"})
            ~> <<Main, e>> \in taken

(* gpane-next-event with a deadline returns, if no other thread keeps the  *)
(* Receiver: no event it cannot show makes it fetch the same event from    *)
(* the stash for ever.                                                     *)
GpaneReturns ==
    \A c \in Consumers :
        (cpc[c] # "idle" /\ timed[c]) ~> (cpc[c] = "idle")
=============================================================================

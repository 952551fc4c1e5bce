# FactorForth: a TLA+ model

FactorForth is a Forth compiler written in Rust that emits Factor code, a Factor
VM embedded in the process to run it, and a Windows IDE around both. This
directory models the parts in which threads meet (the Session API with its
worker, dispatcher and listener; its input queue; the GUI event mailbox; the IDE
worker; the graphics panes and their queries), the parts in which files and
histories do (image inflation, NEEDS, the editor), and the compiler's passes over
a definition.

- [Inventory](#inventory)
- [Modules](#modules)
- [Runs](#runs)
- [Fairness](#fairness)
- [Proofs](#proofs)
- [Where the code and its comments disagree](#where-the-code-and-its-comments-disagree)
- [What is not modelled](#what-is-not-modelled)
- [Plan](#plan)

## Inventory

Paths are relative to the repository root.

| Component | State | Operations | Talks to |
|---|---|---|---|
| Session API (`src/session.rs`) | `cmd_tx`, `dead`, `interrupter`, the worker's `JoinHandle`; globals `CURRENT`, `CURRENT_INTERRUPTER` | `new`, `eval`, `interrupt`, `feed_input`, `close_input`, `drop`; `interrupt_current_session` | dispatcher by channel, VM by interrupt flag |
| Session worker (`src/session.rs`, `worker_main`) | the VM and its DLL, `IoState` | boot, install callbacks, run the Factor listener, join the dispatcher | the listener through `extern "C"` callbacks |
| Dispatcher (`src/session.rs`) | `cmd_rx`, one reply `Sender` | `Eval`, `Shutdown` | `listener_pending`, `listener_done` of `IoState` |
| Listener (`factor/forth/runtime/runtime.factor`) | the Factor dictionary | `nf-listener-loop`, `nf-listener-eval` | `nf_rt_next_command`, `nf_rt_command_done` |
| Input queue (`src/session.rs`) | `input_q`, `input_cv`, `input_closed` | `feed_input`, `close_input`, `nf_rt_read_char`, `nf_rt_read_line` | host threads, VM |
| Image inflation (`src/session.rs`) | `factorforth.image`, its `.zst` and `.tmp` | `resolve_default_paths`, `inflate_image` | other processes that do the same |
| GUI mailbox (`crates/igui/src/channels.rs`) | bounded channel, `EVENT_STASH`, `EVENT_FILTER` | `push`, `next_event`, `next_event_for`, filters, `discard_stashed_events` | GUI thread, language threads |
| Event words (`src/gfx.rs`) | – | `rt_gpane_next_event_for`, `decode_event` | mailbox |
| IDE worker (`src/bin/newfactor_ui.rs`) | `compile_ctx`, the Session, `CURRENT_SINK`, the line buffer, `EDITOR_SNAPSHOT` | supervisor, boot, drain loop, `handle_eval`, `handle_eval_repl` | mailbox, compiler, Session, panes |
| Crash handler (`crates/igui/src/crash_handler.rs`) | `WORKER_TID`, `CAPTURED` | `veh_callback`, `take_dump` | IDE worker, supervisor |
| REPL pane (`crates/igui/src/repl_pane.rs`) | `PENDING_INPUTS`, transcript, editor | submit, close, `pop_input` | mailbox, IDE worker |
| NEEDS and the compile context (`src/compiler/mod.rs`) | `CompileContext`: `included`, `user_words`; files on disk | `compile_in_context`, `expand_needs`, `resolve` | IDE worker, editor, listener |
| Compiler passes (`src/compiler/`) | the body of a definition | parse, `lower_qdup`, `resolve`, `lower_exit`, effect inference, emit | each other, in the order of `sema.rs` |
| Panes and queries (`crates/igui/src/{registry,batch,replies,child,cp_exports}.rs`) | `REGISTRY`, `PANE_STATES`, the batch in progress, `SLOTS`, render targets, `OFFSET_STACK` | open, close, begin, push, submit, query, paint | language threads, GUI thread |
| Editor (`crates/igui/src/{fedit,rope_buffer}.rs`) | the rope, cursor, selection, undo and redo, `dirty`, `diagnostics_stale`, the file | type, delete, paste, undo, redo, load, save, check | files, clipboard, compiler |
| Consoles, menus, rendering, documentation | windows and text | display | GUI thread |

What is hard in this system, and what makes each part correct:

- **Session.** Four threads share one global. A callback of the VM looks up the
  Session in `CURRENT` when it runs, and the listener keeps the `CURRENT` mutex
  while it waits for a command. A timed-out worker is detached and keeps running.
  Correct means: `Ok` from `eval` says that this Session's VM ran this source;
  there is one VM at a time; no command is lost in the one-place slot between
  dispatcher and listener; `eval` and `drop` return.
- **Input queue.** A condition variable whose predicate is partly outside its
  mutex. Correct means: every byte once and in order, no sleep on a non-empty
  queue, no read that outlasts the end of input.
- **Mailbox.** Consumers with different wishes share one queue and park what they
  do not want in a common stash. Correct means: no event lost or delivered twice,
  the oldest wanted one first, requests for the IDE worker reach it.
- **IDE worker.** It keeps a copy of what the VM knows (the compile context), and
  a copy of that for the editor, through compile errors, panics, deaths of the
  Session, restarts and hardware faults. Correct means: the copies agree when the
  next eval starts; output lands in the pane that asked; a submit evaluates its
  own text; a restart is served.
- **Panes.** A language thread replaces a pane's batch while the GUI thread paints
  or destroys the pane; a query is a batch whose execution must find its caller.
  Correct means: a caller gets its own answer or none, the GUI thread is never
  held up, the latest picture is framed, no frame inherits another's offsets by a frame that failed.
- **Image.** A file written in many steps, by processes that crash. Correct means:
  what bears the image's name is whole, and the next start works.
- **NEEDS.** Files that need each other, change on disk, and are merged into one
  program. Correct means: each once, all its words there, and every compile ends.
- **Compiler.** Passes that move and copy code. Correct means: the emitted code
  does what ANS Forth says the source does (a DO that starts at or above its limit
  excepted), and what the inferred effect says.
- **Editor.** A tree that is cut and joined under a history that merges entries.
  Correct means: the tree is the text, undo and redo go where they say, and a
  window without the mark in its status line shows what its file holds.

## Modules

| Module | Models | Actions |
|---|---|---|
| `Session` | host thread, workers, dispatchers, listener, Break | one per step of the code between two points where another thread can act |
| `EvalService`, `SessionService` | what `eval` promises; `Session` as an implementation of it | `Send`, `Run`, `Answer`, `Return`, `OtherCall`, `Abandon` |
| `SessionProofs` | – | theorems about `Session`; `Session` implements `EvalService` |
| `HostInput` | the input queue, its host threads and its one reader | `Feed`, `CloseStore`, `CloseNotify`; `Key`, `Accept`, `TakeByte`, `SeeEmpty`, `CheckClosed`, `Sleep`, `SpuriousWake` |
| `HostInputProofs` | – | theorems about `HostInput` |
| `MailboxProofs`, `IdeWorkerProofs`, `PanesProofs`, `ImageInflateProofs`, `NeedsProofs` | – | theorems about the modules they are named after |
| `Mailbox` | channel, stash, filter, consumers | `Push`; `Call`, `Snapshot`, `ScanHit`, `ScanMiss`, `LockRx`, `RecvHit`, `RecvMiss`, `Park`, `TimeOut`; `SetFilter`, `Discard` |
| `IdeWorker` | GUI thread, supervisor, IDE worker, VM as the IDE sees it | `Request`, `Submit`, `Announce`, `ClosePane`; boot and supervision; one action per event kind; the drop of a Session (`SessionDropped`, `DropHangs`) and what follows it; compile; VM and output; what a detached worker does (`ZombieWrites`, `ZombieFlushes`, `ZombieTakes`, `ZombieSignals`) |
| `Panes` | registry, pane batches, queries, painting | `Begin`, `Emit`, `Present`, `Ask`, `Insert`, `Notify`, `Answered`, `TimeOut`; `Open`, `DestroyHost`, `Forget`, `Unregister`, `Expose`; `Paint`, `Render`, `RenderRefused`, `Exec`, `FrameFails`, `EndFrame`, `Gdi` |
| `ImageInflate` | image lookup and inflation | `Start`, `Find`, `OpenArchive`, `Create`, `Copy`, `Write`, `Flush`, `Rename`, `Load`; `IoError`, `Crash` |
| `Needs` | a session of compiles | `Eval`, `Splice`, `SkipIncluded`, `Claim`, `Descend`, `Unreadable`, `Ascend`, `ResolveFails`, `Merge`, `Load`, `Refused`; `Edit` |
| `Compiler` | one definition from its tokens to Factor code | one action per kind of token, then `LowerQdup`, `Resolve`, `LowerExit`, `Infer`, `Emit` |
| `ForthMachine` | ANS Forth on a parsed body, Factor and the counted loops of `runtime.factor` on the emitted code | operators |
| `Rope` | `rope_buffer.rs` | operators |
| `Editor` | an editor window over a buffer that keeps its text | one per command: `InsertChar`, `InsertNewline`, `InsertTab`, `Paste`, `DeleteSelection`, `Backspace`, `DeleteForward`, `Undo`, `Redo`, `MoveTo`, `SelectAll`, `Load`, `LoadFails`, `Save`, `Check` |
| `RopeEditor` | the editor over its rope | those of `Editor` |
| `EditorProofs` | – | theorems about `Editor`, `Rope` and `RopeEditor` |

The modules `MCMailbox`, `MCIdeWorker`, `MCPanes`, `MCImageInflate`, `MCNeeds`,
`MCCompiler` and `MCEditor` give the constants that a configuration cannot spell:
symmetry, small programs, files, layouts, ropes.

`PROJECT.json` maps each definition to its lines.

**Session.** `hpc` is the host thread (one thread owns the `Session` value; the
type is not `Clone`). `wpc[s]` and `dpc[s]` are the worker and the dispatcher of
the s-th Session. A Session that has timed out keeps its worker: that is how the
model gets two listeners. The `CURRENT` mutex is not a variable: `LockFree` says
that no worker is in the wait of `nf_rt_next_command`, the one place where the
lock is kept over more than a step. A source is one of four kinds: it returns, it
loops through safepoints, it blocks in a foreign call, or it holds a NUL (which
`nf_rt_next_command` answers with a null pointer, and the listener takes that for
the end). `fep[s]` is the interrupt queued on a VM. `Safepoint` fires it in the
listener loop, outside the `recover` of `nf-listener-eval`; `Interrupted` fires it
inside. Break, a second `Session::new`, failing spawns, boot panics and panics of
the flush closure are enabled by `Faults`.

**HostInput.** The reader holds the queue's mutex from its look at an empty queue
(`held`) to its wait (`towait` to `wait`), which releases the mutex and sleeps in
one step, as a condition variable does. `Feed` needs the mutex. `CloseStore` does
not, because the code does not. In `Init` the input is open and empty, or closed
and already fed (`IoMode::Test`).

**Mailbox.** An event is its push number. A consumer's `target` is a pane
(`next_event_for`) or `Main` (`next_event`, under a copy of the filter). Reception
and parking are two steps because two locks are involved, the Receiver's being
kept throughout. `Return` has the loop of `rt_gpane_next_event_for`, which puts
an event it cannot decode back and repeats the call. With the `matches_target`
of the code no such event gets that far; the branch is what the mutant of
`GpaneReturns` runs into.

**IdeWorker.** The Session is seen through its API: an eval ends, or the Session
dies (`Session` shows why an eval returns at all). A program is what it defines,
what it refers to and the file it needs. `Compiles` and `IncludeKey` follow
`compile_in_context_with_diagnostics` and `expand_needs`: the include-once key is
set first, names are merged only on success. `linebuf` and `shown` hold the origin
of text, not the text. `zombies` are the workers that timed-out Sessions left
behind when they were dropped. Their callbacks reach the Session that is
`CURRENT`: they write into its output, take its commands and its `__exit__`, and
signal its evals as done; their dispatchers flush late, to the sink of the day. A
Session can time out in any state of its VM, also between the listener's done and
the flush. Dropping one is a step of its own (`wpc` in `Dropping`): it returns, or,
with a zombie about, may never (`hung`). Whoever boots the next Session does so
after it. `diverged` is a history variable: the context may hold a name the VM
does not have, because the VM refused a program, a Session died, or a zombie took
or answered for a definition.

**EvalService.** The contract of `eval` without threads: sources run one at a
time, in the order sent and at most once; `Ok` is returned exactly when the answer
to the source the host waits for is there. `SessionService` maps it to `Session`:
`waiting` is the host inside `eval`, `ran` the evals whose own VM ended them,
`answered` the replies sent. The contract ends (`stray`) when a Session whose eval
timed out is dropped, because from then on a detached worker can act for its
successor.

**Panes.** One GUI thread; a paint is several steps so that threads can submit in
between. `dirty` is a pending `WM_PAINT`, `latest` is `PANE_STATES`, `chan` the
one-place channel behind each reply slot. `submit` is two steps, `Insert` and
`Notify`. All drawing commands are one; offsets are kept as their number, on one
stack for all panes as in `child.rs`. Programs push and pop as they like: a pop on
the empty stack is ignored, and what a batch leaves over stays on its target.
`bent` is a history variable, the panes on whose target an unbalanced batch was
drawn. A failing Direct2D frame drops the render
target and is repeated with GDI, which answers queries with a failure.
`TimeOut` is the five-second guard; it may come at any time.

**ImageInflate.** A file is a node that names and handles refer to, so a handle
follows its file through a rename. A block is one buffer of the `BufWriter`.
`Crash` may come before any step and loses the buffer.

**Needs.** `frames` is the call stack of `expand_needs`, and a step takes one
item, so that files can change during a compile. A NEEDS takes two: `Claim` is
canonicalize and the include-once set, `Descend` or `Unreadable` the read. The
names join the context in `Merge`; the listener loads the code after that, or
refuses it. An item is a NEEDS or a
definition that refers to one word; its index stands for the Span of that
reference. `failed` is a history variable: the files that a compile recorded
before it failed, and those whose code the VM refused. So is `stray`: the files that
were missing for `Claim` and there for `Descend`.

**Compiler and ForthMachine.** The parser reads a token per step; its call stack
is `frames`. The passes are operators over the same tree the code has, applied in
the order of `sema.rs`. `ForthMachine` runs the parsed body as ANS Forth does and
the emitted code as Factor and the loops of `runtime.factor` do; a loop that goes
round more than `MaxIter` times spins in both. A DO that starts at or above its
limit ends the reference run with `above`: ANS Forth counts on through the whole
range of numbers, the runtime goes round once, and `MeaningKept` says nothing of
such a run. Words are those that the passes tell apart; `?DUP` is the one that
has no Factor word.

**Rope, Editor and RopeEditor.** `Rope` has the tree, its cached lengths, newline
counts and heights, and every operation on it. The functions that call themselves
(`join_nodes`, `split_node` and five more) are constants where they are called and
definitions under the name in capitals, `JoinNodes` and so on. `MCEditor` gives
the one to the other, which closes the recursion for TLC; the proofs take it as a
hypothesis, and no RECURSIVE operator stands between the prover and the model.
`Editor` has one action per command of the window. Its buffer is a set of values
with the methods of `RopeBuffer` that `fedit.rs` calls, about which it assumes
`KeepsText` (`BufferAssumption`): what they do to the text held. `RopeEditor` puts
the two together. `log` and `undone` are history variables: the text and the cursor before
and after the edits of each undo and redo entry. So is `longest`, the length of the
longest text ever put in at once. Which blanks auto-indent or a
soft tab inserts, and what a paste finds, is a choice from a set.

## Runs

| Run | Bounds | Shows |
|---|---|---|
| `session_safety` | 2 Sessions, 2 evals, all kinds, all faults | `ReplyMeansEvaluated`, `SingleVm`, `CommandsReachOwnListener`, `DeadTakesNoCommand`; the refinement `ImplementsService` |
| `session_liveness` | 2 Sessions, 2 evals, all kinds; Break, a second `Session::new`, failing spawn, boot panic | `EvalReturns`, `DropReturns`, `CurrentComesFree` |
| `input` | 2 host threads, 4 bytes in chunks of up to 2, 3 reads of up to 2 bytes | `BytesInOrder`, `NoLostFeed`, `EofMeansDrained`, `ReadsSeeClose` |
| `mailbox_safety` | 2 language threads, 2 windows, 3 events, channel of 2, filters and discards | `NothingLost`, `NothingTwice` |
| `mailbox_ide` | 1 language thread, 2 windows, 3 events, channel of 2, no filter | `OldestFirst`, `RequestsReachDrain`, `GpaneReturns` |
| `ide` | 3 user events, mailbox of 2, 1 REPL pane and the console, 4 programs, all faults, any number of detached workers | `ContextInLockstep`, `SnapshotIsCurrent`, `OutputToItsPane`, `SubmitsMatchInputs`, `RestartServed` |
| `panes` | 2 language threads, 1 pane, 2 programs of which one pops and pushes out of balance, 2 batches, 2 queries, 1 failing frame | `AnswersAreOwn`, `SendNeverBlocks`, `LatestIsFramed`, `FramesStartUntransformed`, `QueryIsServed` |
| `image` | 1 process, 3 blocks, 4 starts, 2 I/O errors, crashes anywhere | `NoHalfImage`, `RetryComesUp` |
| `compiler` | every source of up to 5 to 8 tokens of seven vocabularies, stacks of up to 3 cells, loops of up to 3 rounds | `ReadsBack`, `ExitsOnlyInLoops`, `MeaningKept`, `EffectSound` |
| `needs` | 3 files in a circle, one under two spellings, two of them edited at any time, also inside a directive; 4 programs; 9 nested directives, which is as deep as they get | `SplicedOnce`, `NeededIsThere`, `CompileEnds` |
| `needs_span` | 2 one-line files | `CallsItsOwn` violated |
| `editor` | leaves of 1 code point, texts of up to 6, undo history of 2, 2 edits and any undo, redo, save and check | `ActsAsText`, `Balanced`, `UndoRestores`, `FlagsAreTrue` |

Why the bounds are enough for the interesting cases. The safety properties of
`Session`, `HostInput`, `Mailbox`, `IdeWorker`, `Panes`, `Needs` and `Editor`, and
that of `ImageInflate` for one process, hold for every bound (see Proofs); the runs
show them on an instance, with mutants that break them. The bounds matter for
liveness and for `Compiler`. Two Sessions are what it
takes for a detached worker to meet its successor, and two evals for a stale
`done` to answer the wrong one. Four bytes and two feeders fill and drain the input queue more than
once, with a line that ends by its newline and one that ends by its length. Three
events on a channel of two overflow it; two language threads are what it takes
for a stash to be filled behind a consumer's back. Three user events on a mailbox
of two allow a define, a death or restart, and a use, or a dropped submit. Two
batches and two queries let one replace the other before, during and after the
paint; that one pane's failed frame does not disturb another's is
left to the proof, since two panes and two batches have 3.18 million states. Four starts allow a crash, an
error and a success over what both left. In `needs` the circle, the two
spellings and a shared library are there at once, and any number of compiles may
follow each other. The vocabularies of `compiler` each pair constructs that a pass
treats together: IF with EXIT and `?DUP`, CASE with its default and with EXIT in
its arms, each loop; eight tokens are two nested constructs with a tail. In `editor` a leaf of one code point
makes every position a leaf boundary and puts both rotations within reach of the
second edit, which also fills a history of two; splits and merges inside a leaf do
not occur there, and are left to the proof. The run evaluates `BufferAssumption`
besides, over all 3239 ropes of up to six code points, balanced or not.

Deadlock is not checked where the system may stop: a host that calls nothing
more, bounds that are used up, or a frame that has been closed.

Exceptions in the properties are exceptions of the code, not conveniences of the
model. `~Leaked` (no detached worker of an earlier Session) in `Session` and
`stray` in `EvalService`, `diverged` and `orphan` in `IdeWorker`, `lost` in
`SubmitsMatchInputs`, one language thread in `OldestFirst`, `refused` in `Panes`,
`bent` in `FramesStartUntransformed`, `zombies` in `OutputToItsPane`, `hung` in
`RestartServed`, one process in `ImageInflate`, `failed` and `stray` in `Needs`,
`DefaultInPlace`, `ExitInCase`, `RoundCounted` and `Above` in `Compiler`, `longest` in `Balanced`: each has a behaviour in the
model that violates the property without it, and each is described below.

The modules with theorems state their types as `TypeOK`, which the runs leave out:
they are about what could be wrong. The types are part of what is proved (in
`ImageInflateProofs` and `NeedsProofs`, as parts of the inductive invariant that
say more).

Each property of a passing run has a mutant in `PROJECT.json`: a mutated form of
one definition under which the run reports the property violated.

## Fairness

- `Session`: worker, dispatcher and host threads run whenever they can (weak
  fairness per thread), the timeout and the grace period of `eval` elapse, and
  the interrupt a timeout sends fires at the next safepoint. Nothing is assumed of
  the host starting a call, of Break, of faults, or of a foreign call ever
  returning.
- `HostInput`: the reader runs when it can, and a thread inside `close_input`
  reaches its notify. Nothing makes the host feed or close.
- `Mailbox`: a thread in a call goes on and a deadline passes (weak fairness of
  `Step`). A mutex that is released again and again is obtained at last (strong
  fairness of `LockRx`). The drain loop never ends, so it polls again whenever the
  Forth program that runs on the same thread has returned, and a poll does not
  time out for ever with an event in the channel (strong fairness of the poll and
  of its reception): `recv_timeout` takes what is there.
- `IdeWorker`: GUI thread, drain loop and supervisor run when they can. An eval
  ends: the VM gets on with it, or its timeout elapses (weak fairness of the two
  together, which is what `EvalReturns` of `Session` gives). The drop of a Session
  returns while no zombie is about, as `DropReturns` and `CurrentComesFree` say;
  with one it need not. The user, the faults and the zombies do what they like.
- `Panes`: a thread inside `submit`, or with its reply there, goes on; the GUI
  thread finishes what it handles. `submit` posts a `WM_PAINT` besides
  invalidating the window, so a pending paint is served at last however many
  messages come for other panes (strong fairness of `Paint`). The five-second
  guard has no fairness: `QueryIsServed` does not lean on it.
- `ImageInflate`: a running process goes on, and a user whose IDE did not come up
  starts it again.
- `Needs`: the compiler's thread runs, and the listener loads or refuses. Users and editors do what they like.
- `Compiler` and `Editor` have safety properties only.

## Proofs

`SessionProofs` proves, for any number of Sessions and evals, any kinds and any
faults:

| Theorem | Property |
|---|---|
| `TypeCorrect` | `TypeOK` |
| `RepliesAreSound` | `ReplyMeansEvaluated` |
| `OneVm` | `SingleVm` |
| `CommandsNotLost` | `CommandsReachOwnListener` |
| `DeadSessionsQuiet` | `DeadTakesNoCommand` |

The only assumption is `BoundsAssumption`: the two bounds are naturals, and kinds
and faults are among those listed.

None of the properties is inductive. A reply is sound because the dispatcher that
sends it holds the command the worker took, which depends on the slot, the flag
and the two threads moving together. The inductive invariant has these parts:

- `JobsTyped`: a host inside a call has a Session, a busy worker has an eval.
- `HostInv`: what the host's position says of `CURRENT`, and that a host past the
  join has a worker that ended or was detached.
- `FreshInv`: Sessions not installed yet are untouched.
- `OwnerInv`: a command and its reply `Sender` stay with the Session they were
  sent to.
- `Lockstep`: worker, dispatcher, slot and flag of each Session agree on one
  eval, and no Session but the held one has a worker.
- `ReplyMeansEvaluated` itself.

`Lockstep` holds only while `~Leaked`, and so do the three properties that rest on
it. The lemma `LeakedStays` says that a leak is for ever, so a step that starts
and ends without one had none in between, and the proof of each action may assume
`Lockstep` before it. `DeadTakesNoCommand` needs no such guard but a part of its
own, `ReceiverInv`: a host about to send on an open channel is sending to a
Session not marked dead, since an unwinding worker has closed its Receiver before
it records its panic.

Each action has a lemma or step of its own. The theorems follow from
initialisation, preservation and `PTL`.

`HostInputProofs` proves, for any host threads, bytes and bounds, from
`HostInputAssumption` (naturals, and a newline that is no ordinary byte):

| Theorem | Property |
|---|---|
| `TypeCorrect` | `TypeOK` |
| `InputInOrder` | `BytesInOrder` |
| `FeedsNotMissed` | `NoLostFeed` |
| `EofIsDrained` | `EofMeansDrained` |

`BytesInOrder` is inductive given the types; the two steps that matter are
lemmas on sequences (`MoveHead`: a byte moves from the queue to what was read;
`FeedBoth`: a chunk extends what was fed and what is queued alike). `NoLostFeed`
and `EofMeansDrained` rest on `EmptyInv`: from its look at an empty queue to the
end of its wait the reader has an empty queue, because `feed_input` needs the
mutex and wakes the reader. The proof uses that `feed_input` notifies under the
mutex; `close_input` does not, and has no such theorem.

`SessionProofs` also proves the refinement, from `BoundsAssumption` again:

| Theorem | Property |
|---|---|
| `SessionImplementsService` | `ImplementsService` |

Initial states map to initial states, and each step of each thread maps to a step
of `EvalService` or to none. The invariant of `SessionProofs` says where an eval
is; what the service needs besides is in which order evals can still end. That is
`OrderInv` (what a VM has ended comes before what is in its slot, and that before
what is queued) and `GenInv` (evals go to Sessions in the order these were
installed). `EndedInv` says that a VM ends only what was sent to its own Session,
and `WaitInv` that a host that saw its reply `Sender` go has no reply to come,
so an error is never returned in place of an answer. `EndedInv` and `OrderInv`
hold while `~Leaked`, which is when the service promises anything.

`MailboxProofs` proves, for any consumers, windows, kinds of event, channel
capacity and number of events, from `MailboxAssumption` (the capacity is a
natural, and neither `next_event`'s caller nor the absent window is a window):

| Theorem | Property |
|---|---|
| `TypesKept` | `TypeOK` |
| `EventsKept` | `NothingLost` |
| `EventsOnce` | `NothingTwice` |
| `OldestReturned` | `OldestFirst` |
| `IdeIsMailbox` | – (`IdeSpec => Spec`: the three hold of the run `mailbox_ide` too) |

`PlaceInv` says where an event can be. It is not inductive alone: taking the first
event of a sequence removes the event from that place only if it was there once,
which `OrderInv` gives (stash, hand and channel, read one after the other, are
increasing). That order holds although reception and parking are two steps because
the Receiver's lock spans both (`ReceiverInv`). `OldestReturned` needs `MissInv`:
with one consumer, what it did not find in the stash is still not there when it
looks in the channel. With more consumers another may have parked an older event
since, so there `OldestFirst` speaks of the channel and of events found in the stash.

`IdeWorkerProofs` proves, for any words, files, programs, panes, mailbox capacity
and faults, from `IdeAssumption`:

| Theorem | Property |
|---|---|
| `TypesKept` | `TypeOK` |
| `LockstepKept` | `ContextInLockstep` |
| `SnapshotKept` | `SnapshotIsCurrent` |
| `OutputRouted` | `OutputToItsPane` |
| `SubmitsCounted` | `SubmitsMatchInputs` |

`LockstepKept` and `OutputRouted` speak of the prompt and of what is shown, and
have to be followed through an eval: `LockstepInv` from the merge of the compile's names over
the parse on the VM to the reply, `OutputInv` from the set of the sink over run
and flush to the reply. Both rest on `VmInv` (the VM works exactly while
`session.eval` waits). What a zombie does shows in the exceptions only: it can take
or answer for a definition (`diverged`), and from its making on `OutputToItsPane`
promises nothing. `SubmitsMatchInputs` is inductive given the types; the work
is in counting the events of one pane in a queue that is appended to and popped.

`PanesProofs` proves, for any threads, panes, batches, calls and failures, from
`PanesAssumption` (the bounds are naturals, and a program is a list of drawings,
pushes and pops, balanced or not).

| Theorem | Property |
|---|---|
| `TypesKept` | `TypeOK` |
| `AnswersOwn` | `AnswersAreOwn` |
| `DeliverFree` | `SendNeverBlocks` |
| `PicturesFramed` | `LatestIsFramed` |
| `FramesUntransformed` | `FramesStartUntransformed` |

The answers rest on ids given once: `BatchInv` (a query in any batch, wherever it
waits, has the id of its call), `ReplyInv` (a reply in a channel answers the call
of its id; an id still in `SLOTS` has an empty channel). `PicturesFramed` needs
`GuiInv`. The transform needs most: `DepthInv` says, in the middle of a batch, that
the transform counts the offsets in force and that the top of `OFFSET_STACK` holds
what the pops go back to, on top of whatever failed frames of this and other panes
have left, if the batch is balanced and so was everything drawn on its target;
`TargetInv` says that such a target, when nobody draws to it, has no transform. A
target that an unbalanced batch was drawn on is in `bent` until it is dropped.

`ImageInflateProofs` proves, for any image size, layout and number of starts and
errors, from `InflateAssumption` and under the hypothesis `AloneAtATime` (one
process; two that inflate into one directory share its `.tmp`, and there the
property is false, see below):

| Theorem | Property |
|---|---|
| `ImageWhole` | `NoHalfImage` |
| `VmLoadsWhole` | – (`LoadsWhole`: what the VM has read is whole) |

`WriterInv`: the `.tmp` holds the blocks written so far, and all of them when it is
renamed. `ApartInv`: a `.tmp` is never the file of an image, so truncating a
left-over one harms nothing. `CountInv`: a created file is a new one.

`NeedsProofs` proves, for any files, paths, programs, circles of directives and
changes of files, from `NeedsAssumption` (a path names one file, paths, files and
the evaluated text are told apart, and a source is a list of definitions and NEEDS):

| Theorem | Property |
|---|---|
| `CompiledOnce` | `SplicedOnce` |
| `NeededFound` | `NeededIsThere` |

`FrameInv`, `OutInv` and `LoadedInv` say that what is being expanded, is spliced or
was loaded belongs to files of the include-once set, so that a file outside it is
new everywhere, stray files excepted. `ReadInv` carries that from `Claim` over any
edits to the read. `DoneInv` says how far a recorded file has come: it is about to
be read, its words can be called, or they are spliced as far as the file's frame
has got. `WordsInv` says that the context knows what the image has, and the
names of a compile whose code the VM is yet to load.

`EditorProofs` proves, for any alphabet, leaf size, history cap and bounds, any files
and any clipboards:

| Theorem | Property | Under |
|---|---|---|
| `HistoryFits` | – (`IInv`, the inductive invariant) | `PastesText` |
| `UndoAndRedoRestore` | `UndoRestores` | `PastesText` |
| `SavedIsReadBack` | – (`Decode(Encode(t)) = t`) | `NoMarks` |
| `FlagsStayTrue` | `FlagsAreTrue` | `PastesText`, `NoMarks` |
| `RopeKeepsText` | – (`KeepsText(Buffers)`) | `RopeRules`, `UsesRopes` |
| `EditingKeepsBalance` | `Balanced` | `RopeRules`, `UsesRopes`, `PastesText` |
| `RopeActsAsText` | `ActsAsText` | `RopeRules`, `UsesRopes`, `PastesText` |

The assumptions are `EditorAssumption` (a text has newlines and no carriage returns,
files and clipboards decode to texts), `LeafMaxAssumption` and, for the editor's own
part, `BufferAssumption`. `RopeKeepsText` is the proof that the rope meets the last
one, and does not use it. The hypotheses:

- `PastesText`: what a paste finds decodes to something. Without it the property
  is false (see below, pasting a lone byte-order mark over a selection).
- `NoMarks`: texts have no byte-order mark. Without it the property is false too (see
  below, saving a text that has come to begin with one).
- `RopeRules`: `Nodes` is the set of ropes, of any finite height (leaves of at most
  `LeafMax` code points, branches over two ropes that hold something), and each
  function that calls itself returns on them what its definition says. That is what
  it means for a recursion to be defined by its equation: each of these functions
  calls itself on lower trees or shorter lists only, so there is exactly one
  function that does.
- `UsesRopes`: the editor's buffers are ropes, and its methods those of `Rope`.
  `Editor.cfg` sees to both for the ropes of the run.

The history needs the whole of it: that an undo goes where its entry says is not
inductive, since what it leaves must fit the entry before. `Fits` says of an entry
and its place in the log that one text is the other with the entry's text spliced
in; `Undoes` and `Redoes` that the logged texts form a chain that ends at, or begins
with, the text shown. Coalescing makes the last entry longer at one end, which is
an equation on splices (a text put in behind, or in front of, one that was put in);
dropping at the cap shortens a chain at its far end. `FileInv` carries `FlagsAreTrue`
over the steps that change no text.

What is said of all ropes is proved by least counterexample: the heights of the
ropes that fail it are naturals, so there would be a lowest one (`RopeInduction`), and
its children do not fail it. `JoinKeeps`, `SplitKeeps`, `PairKeeps`, `CollectKeeps`
and `ReadsKeep` have that form, and so has `SavedIsReadBack` over the length of a
text. The balance: joining two AVL trees gives one as high as the higher or one
higher, so that the branch above is off by at most two, which one rotation, single
or double, repairs (`BalanceAVL`, `DoubleHeights`); a text of up to four leaves is
paired into an AVL tree (`BuildKeeps`). Reading: `Lines` counts the newlines before an
offset; it adds up over the two halves of a branch (`LinesOfHalves`), which is what
lookups that descend by the cached counts rely on, and grows with the offset, so
that a line has one start (`LineStartIs`) and ends behind every offset on it
(`LineEndIs`).

Model-checked only:

- Liveness, which is out of this prover's reach: `EvalReturns`, `DropReturns`,
  `CurrentComesFree`, `ReadsSeeClose`, `RequestsReachDrain`, `GpaneReturns`, `RestartServed`,
  `QueryIsServed`, `RetryComesUp`, `CompileEnds`.
- `ReadsBack`, `ExitsOnlyInLoops`, `MeaningKept` and `EffectSound` of `Compiler`.
  They are about parse trees and two machines that run them, defined by RECURSIVE
  operators, which the prover cannot unfold. What was done for the rope could be
  done for each pass, but only together with both machines.

## Where the code and its comments disagree

Shown by a run, with the comments it contradicts quoted in `PROJECT.json`:

- `needs_span`: resolution keys its targets by Span, a position without a file,
  over a program merged from several files. Two needed files with a reference at
  the same position share an entry: `: inc 1 + ;` in one and `: dec 1 - ;` in
  another make `inc` subtract.

Contained in the models, and excepted by the properties above.

Session and input:

- A worker detached after a timeout looks up `CURRENT` when its callbacks run
  (`src/session.rs:1518`). It takes commands of the Session created after it, which
  then answers `Ok` for a source its own VM never saw, although `:374` promises
  that dropping the Session and calling `Session::new()` recovers.
- `nf_rt_next_command` waits inside `with_current` (`src/session.rs:1473`), so the
  `CURRENT` mutex is held while the listener is idle, and a second `Session::new`
  blocks instead of returning `AlreadyRunning`. The comment at `:1392` says
  that no callback holds the mutex across a blocking operation;
  `tests/session_smoke.rs:103` passes only while the first worker is booting.
- A Break while the listener is idle fires in `nf-listener-loop`, outside the
  `recover` of `nf-listener-eval`, and ends the listener
  (`vm-build/vm/factor.cpp:357`; the comments at `:351` and at
  `src/bin/newfactor_ui.rs:289` say that the session stays alive).
- `close_input` stores and notifies without the queue's mutex
  (`src/session.rs:505`). Between the reader's look at `input_closed` and its wait
  both are missed, and KEY sleeps on a queue that is empty and closed (`:1427`
  promises -1). `ReadsSeeClose` speaks of reads that look after the close.
- Dropping a Session while a detached worker of an earlier one is left over may
  never return: that worker can take the `__exit__` (`src/session.rs:538`). Nor
  does it return after a panic of the flush closure, which ends the dispatcher.
- When the worker thread cannot be spawned, `CURRENT` stays installed and every
  later `Session::new` is refused (`src/session.rs:360`).
- A worker that panics while booting may be recorded as `WorkerGone`
  (`src/session.rs:396`, `:440`): its Receiver is dropped before the panic is
  recorded.
- Between the worker's return and the reset of `CURRENT_INTERRUPTER` in `drop`, a
  Break calls into the unloaded DLL (`src/session.rs:543`).

IDE, mailbox and panes:

- A Session that died is replaced by one with an empty dictionary, and the compile
  context is kept (`src/bin/newfactor_ui.rs:334`; `:272` and
  `src/compiler/mod.rs:60` say that they are reset together; `newfactor_ui.rs:324`
  says that the VM persists, and the user is told at `:333` that "your dictionary
  persists").
- After a timeout the IDE has a detached worker, and what is said of it above
  holds here: it can take a definition meant for the new Session, which answers
  `Ok` and does not have the word; its late flush goes to the pane of another eval;
  and the restart that should get rid of it may hang in `drop(session)`
  (`src/bin/newfactor_ui.rs:298`, `:334`; `src/session.rs:538`).
- The output of a REPL's eval goes to that REPL's pane: `handle_eval_repl` sets the
  sink (`src/bin/newfactor_ui.rs:532`), and `deliver_line` (`:370`) follows it. The
  comment at `:549` says that it goes to the shared console "rather than per-REPL".
- A ReplSubmit dropped by a full mailbox leaves its input pending: the next submit
  of that pane evaluates it, and every later one the input before its own
  (`crates/igui/src/repl_pane.rs:1224`). A restart dropped so is gone.
- Nothing keeps the pushes and pops of offsets of a batch in balance. A surplus push
  stays in the transform of the pane's target for all later frames; a pop too many
  takes what a failed frame, of any pane, has left, and is ignored when there is
  nothing (`crates/igui/src/child.rs:668`, `:681`).
- A worker ended by the crash handler never drops its Session, so the one that
  replaces it cannot boot (`crates/igui/src/crash_handler.rs:332`; `:182` says that
  a fresh session is booted).
- With two language threads, an event parked by one after the other's look at the
  stash is overtaken by a later one, and a call with a deadline blocks behind one
  without (`crates/igui/src/channels.rs:350`, `:416`).
- A Forth event loop that receives `FrameClose` takes it from the drain loop
  (`crates/igui/src/channels.rs:302`).
- A text query builds its batch in the thread's one batch in progress: what was
  drawn since `begin` is gone (`crates/igui/src/batch.rs:367`; `restore_current` is
  there for this and has no caller).
- A batch submitted for a pane that has just closed stays in `PANE_STATES`, and the
  slot of a query that timed out stays in `SLOTS`.

Image:

- Two processes that inflate at once share the `.tmp`: one truncates or writes what
  the other renames, and `NoHalfImage` fails with `Procs = {p1, p2}`
  (`src/session.rs:216`).
- On a first start from an installation there is only the `.zst` beside the
  executable. `resolve_default_paths` asks for the raw image and falls back to the
  crate's directory (`src/session.rs:193`), so the inflation that the comment at
  `:291` describes is looked for elsewhere.

Compiler:

- A NEEDS whose compile fails leaves its file in the include-once set with no word
  of it defined; a second attempt expands to nothing (`src/compiler/mod.rs:408`).
  A missing file is recorded under its literal path, so it can be retried once it
  is there.
- A file that comes to be between canonicalize and read_to_string of one directive
  (`src/compiler/mod.rs:405`, `:412`) is recorded under its literal path and spliced;
  the next NEEDS of it, under its canonical path, splices it again, although the
  comment at `:367` says "once per file for the session".
- The context takes the names of a compile before the VM has seen the code
  (`src/compiler/mod.rs:241`). If Factor refuses it, the words are known to the
  compiler and not to the VM, and a NEEDS of their file expands to nothing.
- `do-loop` ends when the index is not below the limit
  (`factor/forth/runtime/runtime.factor:272`). ANS Forth ends when the index crosses
  from limit-1 to limit: a DO that starts at its limit or above it goes round the
  whole range of numbers there, once here (the comment at `:324` takes the one
  round for the standard), and a +LOOP that counts down from above its limit ends
  after its first round here. The bodies of the run have no negative steps.
  `docs/ans-gap-analysis.md:83` lists these words as done.
- Factor's effect checker may refuse a body that `effect.rs` lets pass with a
  warning; `MeaningKept` speaks of the code, whether or not it is let in.
- A CASE that EXITs: the tail becomes the default, which runs under the selector
  and loses its top cell to the drop of ENDCASE (`src/compiler/lower_exit.rs:153`
  says that "no match falls through to whatever followed the case" is preserved).
  An EXIT in a match expression is neither lowered nor found.
- An EXIT in a loop is left to `with-return`, whose continuation brings back the
  data stack of the call; `tests/diag_exit.rs:121` notes that Factor's checker
  refuses such a body anyway, and that EXIT in loops is still to be made to work.
- `parse_case` drops what stands between the last ENDOF and DEFAULT
  (`src/compiler/parse.rs:1135`).
- The effect of an UNTIL body that leaves more than its flag, and that of a +LOOP,
  describe one round (`src/compiler/effect.rs:771`, `:819`).

Editor:

- `build_rope_from_slice` makes a tree that is not AVL from five leaves, and
  joining never repairs it (`crates/igui/src/rope_buffer.rs:423`).
- Text that decodes to nothing (a lone byte-order mark on the clipboard), pasted
  over a selection, deletes the selection and keeps the redo history, whose
  entries no longer fit (`crates/igui/src/fedit.rs:704`).
- Typing over a selection makes two undo entries (the comment at
  `crates/igui/src/fedit.rs:695` says one), and `do_replace`, which would make one,
  has no caller.
- A text that comes to begin with a byte-order mark (pasted in the middle of a
  text, when what precedes it is deleted) is saved as a file whose opening drops
  the mark (`crates/igui/src/rope_buffer.rs:773`). The run has no such character.
- Undoing back to the saved text leaves the window marked, which is allowed by
  `FlagsAreTrue`.
- The star in the title never appears: `update_title`
  (`crates/igui/src/fedit.rs:2013`) is called by `load_from` and `save_to` only, right
  after `dirty` was cleared. What follows `dirty` is the mark in the status line
  (`:1317`), which `FlagsAreTrue` is about.
- Diagnostics are not "cleared when the buffer is edited" (`crates/igui/src/fedit.rs:427`)
  but kept and marked as stale.

## What is not modelled

- A panic inside an `extern "C-unwind"` callback: whether it unwinds through
  Factor frames, aborts or is caught depends on the VM build.
- The Factor VM itself, except the queued interrupt and its safepoints.
- A mutex held by the IDE worker when a hardware fault ends it.
- A power failure during inflation, which may lose blocks already written; the
  contents of crash dumps.
- The bound of the stash: it has none in the code.
- Of the compiler: the lexer, locals, values, classes, templates and docs, which
  ride on the same passes; `lower_recurse` (it renames one word) and
  `lower_classes`; the names and declarations in the emitted text; the LET language.
- Of the panes: what is drawn, clips and save slots, resizing as anything but a
  repaint, menus, MDI layout, the console, stack, crash and log panes.
- Of the editor: painting and its token cache, scrolling, find, `text_view`.
- `selkie` and the documentation crates: pure functions from text to pictures,
  and most of the repository's lines. They have no state, no concurrency and no
  failure to recover from; a model of them would repeat their code.
- The command line: straight-line use of the compiler and of Session.

## Plan

The modelling is complete as planned, and every safety property that a run checks
is proved, except those of `Compiler`. What is left:

1. `Compiler`: its passes as operators whose recursion a configuration closes, as
   in `Rope`. First the stack of open structures, which `ExitsOnlyInLoops` is about,
   apart from the trees built on the way; then `lower_qdup` and `lower_exit` one at
   a time, each against `ForthMachine`.
2. `Session` and `Panes` over more instances for liveness, where only the runs speak.

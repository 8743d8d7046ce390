# Kocoro: TLA+ models and proofs

Kocoro (`shan`) is a command-line agent whose daemon lives for weeks: it takes
messages from a Desktop app (HTTP), from chat channels (a WebSocket to Kocoro
Cloud), from schedules and from watchers, runs an LLM agent loop for each
conversation, asks the user for approvals, keeps sessions on disk and uploads
them to the Cloud. Several of these happen to the same conversation at once,
and the process may die between any two of them; that is where the code is
hardest to get right and to test. This directory models those parts in TLA+,
checks the models with TLC and proves the main invariants with TLAPS.

## Running

    tlc -workers 2 -config MCRouteLock.cfg MCRouteLock
    tlapm RouteLockProofs.tla

`PROJECT.json` lists the runs, what each definition stands for in the source
(`map`), one mutant for every checked property, the hazards and the theorems.

## Inventory of the system

| Component (source) | State | Operations | Meets | What is hard | What makes it correct |
|---|---|---|---|---|---|
| Route lock (`internal/daemon/router.go`, `SessionCache`, `routeEntry`) | per route: a mutex held for a whole run; cancel function, done channel, pending-cancel flag, two generations, eviction mark, session manager, all under the cache mutex | lock (preempting, try, safe boundary), publish, register cancel, clear, unlock, cancel, evict | every entry point that starts or stops a run | two nested locks, snapshots used after the unlock, cancels that arrive before there is anything to cancel, deferred eviction | published state belongs to the owner; a cancel hits the run it was meant for; managers neither leak nor close under a run; nobody waits for ever |
| Inject window and retract ledgers (`router.go`, `agent/loop.go`) | a buffered channel per run, tombstones and commit marks per route | inject, drain, drain-or-close, retract | HTTP handlers, agent loop | a follow-up that lands between the last drain and the teardown; a retract that races a drain | every accepted follow-up is read or parked, once; the retract answer is true |
| Durable mailbox (`router_mailbox.go`, `mailbox_store.go`, `agenttypes/mailbox.go`) | an in-memory queue per route and a SQLite table | enqueue, re-enqueue survivors, drain, mark consumed, retract, purge, seed at start | RunAgent, HTTP handlers, start-up | two copies of the truth, a crash between any two steps, calls that fail half way | nothing in memory without a pending row; consumed only after a save; no replay of a consumed row |
| Pending interactions (`pending.go`, `approval.go`, `question_broker.go`) | a map of open requests, a one-slot channel each, an `emitted` flag | ask, send, publish, resolve, time out, cancel all | agent loop, HTTP, WebSocket, event bus | four parties settle the same request; the card and its dismissal must keep their order | settled once, the card dismissed before the agent goes on, both with the same decision |
| RunAgent (`runner.go`) | locals of one run | lock, publish, drain, save, loop, save, teardown | all of the above, the session store | many exits, one clean-up | each use of shared state is in the module of that state |
| Agent loop (`agent/`) | the transcript of one run, reply targets, pending acks, retry latch | LLM call, tool batches, commits of follow-ups, checkpoints | tools, handlers, journal | follow-ups that arrive at the end of a turn, tool batches in flight at a cancel | answers go to the messages they are about; a call in doubt is not repeated |
| Side-effect journal and recovery (`side_effect_journal.go`, `interrupted_recovery.go`, `session/tool_execution.go`) | execution records and an interrupted-turn marker inside the session file | prepare, dispatching, committed, unknown; start-up scan, claim, resume or review | agent loop, session store | a crash between effect and record, saves that fail, a foreground run that comes before the recovery | no effect without a record; nothing done is called safe to repeat; bounded resumes |
| Cloud WebSocket client (`client.go`, `cmd/daemon.go`) | connection, slots, claims, reply plans | claim, run or inject, reply, ack, reconnect | Cloud, RunAgent, the brokers | lost claims, replies and acks; messages merged into another's run | ack only after the answer; one reply per delivery; slots come back |
| Session sync (`internal/sync`) | marker file: watermark and failed sessions | scan, load, batch, send, write marker | session store, Cloud | partial acceptance, transport errors, edits while scanning, crash before the marker is written | a changed session is sent until it is accepted or given up on |
| Event bus and notifications (`events.go`, `notif_store.go`) | two rings, ids, subscribers, a notification log | emit, subscribe with replay, poll, restore | Desktop's SSE stream | slow subscribers, replay gap, torn write, restart | replay and live stream meet without a hole or a double |
| Session store (`internal/session`) | JSON files and a search index | load, save, append, truncate | everything | two writers, partial saves | the last complete save is readable |
| Scheduler (`scheduler.go`, `internal/schedule`) | schedules on disk, last-run times | tick, due, run, mark | RunAgent | a slow run past its next due time, concurrent edits of the file | no double start, edits not lost |
| Realtime usage outbox (`realtime_usage_outbox.go`) | one file per usage report | enqueue, recover, replay | Cloud gateway | crash between write and rename, two replayers | each report reaches the gateway; none is sent to another account |
| Koe voice companion, Desktop RPC, MCP supervisor, memory and compaction, heartbeat and watcher, agents and skills, permissions and audit, gateway and cloud workflows, tools and GUI control, TUI and commands, sharing, uploads and updates | see `components` in PROJECT.json | | | mostly I/O, data or presentation | |

## Modules

| Module | Models | Used by |
|---|---|---|
| `RouteLock` | one route of `SessionCache`: ownership, cancels, evictions, children | `MCRouteLock`, `RouteLockProofs`, `RouteHistoryProofs` |
| `InjectDelivery` | follow-ups, the mailbox, its table and the session file, with crashes | `MCInjectDelivery`, `InjectDeliveryProofs` |
| `OneShot` | what an approval or question promises (abstract) | `PendingInteraction` |
| `PendingInteraction` | `pendingCore`, shown to implement `OneShot` | its own cfg, `PendingInteractionProofs` |
| `DispatchJournal` | execution records, checkpoints and startup recovery of one session, with crashes and failing saves | `MCDispatchJournal`, `DispatchJournalProofs` |
| `CloudDelivery` | messages from the Cloud to their reply and ack, over a connection that drops | its own cfgs, `CloudDeliveryProofs` |
| `SessionSync` | upload of changed sessions, watermark and failures | its own cfgs, `SessionSyncProofs` |
| `EventBus` | replay ring, notification ring and log, streaming and polling clients | its own cfg, `EventBusProofs` |
| `RouteLockProofs`, `RouteHistoryProofs`, `InjectDeliveryProofs`, `PendingInteractionProofs`, `DispatchJournalProofs`, `CloudDeliveryProofs`, `SessionSyncProofs`, `EventBusProofs` | theorems and their proofs | |

The modules meet at the state they share, and each keeps of the others only
what it needs. `RouteLock` shows that one run owns a route at a time, so
`InjectDelivery`, `DispatchJournal` and `CloudDelivery` have a single owner.
`CloudDelivery` has its own small inject channel, window and mailbox: the fine
steps of those are in `InjectDelivery`, which shows that an accepted message is
neither stranded nor doubled. `EventBus` gives the order of ids that
`PendingInteraction`'s `story` relies on.

### RouteLock

A request is a goroutine that goes through the route once; its kind (`Runs`,
`Slashes`, `Children`, `Edits`, `Cancels`, `Restores`, `Rewinds`, `Evicts`) says
which function it calls, `pc` where in it it is. One critical section under `sc.mu` is one
action, and so is one call that may block or that other goroutines can see
(`LockMu`, `AwaitPrevious`, `CloseDone`, `FireCancel`, `CloseManager`). Code
between two such points touches only locals and is folded into its neighbour.

`cancel` and `done` hold the request whose function or channel is stored in the
entry; the Go values are closures and channels whose only relevant identity is
their run. Session managers are numbered as they are made, which keeps "closed"
and "still used" apart. `seen` and `between` are history variables: they record
in which phase a cancellation reached a runner, and who locked the route while a
child was queued. No guard reads them. A goroutine that has used what it
captured forgets it (`Forget`), which merges states that nothing can tell apart.

`CancelForRestore`, `FireRestore`, `AwaitRun` and `SliceSession` are
`CancelRouteForRestore`: a restore waits for the run, takes `entry.mu` without
`LockRoute` and releases it without `UnlockRoute`. A rewind calls it without
`restoreLast` and cuts the transcript itself (`CutSession`), outside `entry.mu`.

Left out: working directories and cancel reasons (data nobody here tells apart),
the session manager a restore captured before it waited, `CloseAll`, lookups and session bindings, the
session-keyed ad-hoc routes, the wrap-around of 64-bit generations, and the
spurious failure of `TryLock`.

### InjectDelivery

`phase` is the one run that owns the route; the HTTP handlers run beside it,
each SQLite call and each critical section an action. `window` joins
`entry.done` and `entry.injectCh`, which are set and cleared together: neither,
`done` alone (during start-up), both. What a run drains from the mailbox is text
of its `prompt`, a local, until `StartLoop` enters it in a turn; before that the
window opens (`OpenInject`), the prompt may be saved (`PreSave`, which also stamps
the rows), and `FailEarly`, any early return of RunAgent in between, drops the
prompt: nobody puts it back in the mailbox (`lost` "early"). `ClearRun` drops the
locals. `FilterInjected` is one call of
`ConsumeInjectRetractedOrMarkCommitted`, `EndTurn` is
`DrainSurvivorsOrCloseInject(key, true)`, and `Rescue`, `Park`, `ParkingDone`
are the loop of `ReEnqueueInjectSurvivors`, whose calls of `EnqueueMessage` go
through the same `Append`, `Insert`, `MailboxFull`, `Rollback` as those of
`POST /queue`. `Crash` empties everything but `row` (the table) and `saved` (the
session file), and may happen between any two actions; `Recover` is
`LoadAllPending` with `SeedMailbox`. A SQLite delete, insert or update and a
session save may each fail.

`entered`, `viaMailbox` and `lost` are history variables. Messages sit in sets:
priorities and order within a queue are left out, and so are the ledgers' expiry
(ten minutes) and cap (256), their removal when an agent is deleted,
working-directory conflicts and attachments.

### PendingInteraction and OneShot

`pc` follows one call of `run`. `Emit` and `SettledBeforeEmit` are the two sides
of the guarded publication, `Claim` and `ClaimLost` the two outcomes of
`claimForCleanup`, reached from the timeout and from the end of the context
alike. `Cleanup` runs outside the mutex, as in the code. `Resolve` and
`CancelAll` publish, buffer and delete in one critical section. `story` is what
the event bus has shown about a request, in the order of bus ids, with the next
event of the agent at its end. A failed send is taken to have shown nothing to
anybody.

`OneShot` states the promise: a question is settled in one step by one decision,
its card is dismissed in that step, and the agent goes on afterwards with that
decision. The mapping (`stage`, `decision`) counts a request as settled when a
decision is buffered on its channel or `run` has its result.

### DispatchJournal

One session: its JSON file (`disk`), the copy of the run that has it (`mem`),
each holding the execution record and the transcript's result of every call and
the interrupted-turn marker. A save is an atomic rename (`writeFileAtomic`), so
`Save` happens or `SaveFails`; `Reconcile` is the part of every save that turns
a committed record with its result in the transcript into a checkpointed one.
The tool's effect is an action of its own (`Effect`), free to happen at any time
while the tool runs, so that a crash finds the call done or not done.

`Dispatch`, `DispatchFails`, `DispatchCancelled` are the three ways through
`prepareApprovedToolCall`; `ToolAnswers`, `AnswerUnsaved`, `ToolLost` those
through the rest of `runApprovedToolCall`; an error of the journal stops the
response (`Abort`) and forces the next checkpoint. `ArmGate` is the retry latch.
`Checkpoint`, `CheckpointFails` and `CheckpointSkipped` are the iteration
checkpoint with its debounce. `Discover` reads the file beside the foreground
runs, without the route; `ClaimSuperseded`, `ClaimEnds`, `ClaimResumes` are the
outcomes of `claimInterruptedResume` under the route, with `Guarded` the
synthetic results it appends. `Restamp` stands for the checkpoint times by which
a claim recognises that the turn it discovered has moved on.

Left out: the trim of old terminal records, sessions without a turn payload, the
recovery marker files beside the sessions (discovery reads the file itself),
read-only tools, the validation of voice runs, the work plan.

### CloudDelivery

Every delivery has a handler, a goroutine of `handleMessage`. `pc` follows it
through the slot, the claim, the callback in `cmd/daemon.go`, and either the
injection into the active run or a run of its own, to the reply and the acks.
`to` and `pend` are the loop's reply target and `pendingAckIDs`, `turn` the
messages the text being written is about, `sup` and `late` the same two for an
intermediate answer. `plans` is `pendingReplies`, by message id as in the code.
`told`, `unsaid` and `replies` are history variables. A send fails when the
connection is down and arrives when it is up; the Cloud (external) delivers
delivers what is not acknowledged again on each new connection. `Reject` is the
notice that answers a message the active run cannot take: a full channel, another
working directory, or a run that is still starting. (A cancelled run's window is
not modelled here; `InjectDelivery` and `RouteLock` have it.)

`ExclusiveClaims` is the assumption that the Cloud does not deliver a message to
a daemon whose handler is still working on it; the code relies on it (a plan is
found by message id, not by handler). Left out: several routes, remote requests,
heartbeats, authentication failures, progress frames.

### SessionSync

Time is one counter of ticks; a session's version is the time of its last edit.
The index keeps that version as text in the zone of the machine, `BehindUTC`
ticks behind; the scan compares it with the text of the UTC watermark
(`TextAfter`). RFC3339Nano drops the zeros at the end of a fraction, so a time
that is whole in one of the `Places` (up to a `Second`) has a text that begins
that of a later time, and what follows it there decides: `Z` sorts after a digit
or a point, the sign of an offset before. `ReadDir` and
`SkipDir` are one turn of the loop over session directories, `AddRetries` the
failed sessions that are due (any subset: the delays of the backoff are left
out), `BuildBatches` the loading, `SendBatch` and `SendFails` one upload with
any per-session answer, `WriteMarker` the rename at the end and `Abandon` an
early return or a crash. `left` is a history variable: why a changed session may
from now on be missing from a run; "near" is a text that sorts before the
watermark's, less than a second (and the zone's offset) past it. Left out: exclusion filters, byte limits of
a batch, lock contention, corrupt markers, dry runs.

### EventBus

Every operation of the bus holds its mutex and is one action; the SSE
connections (`SubscribeWithReplay`, `Receive`, `Unsubscribe`) and the poller
(`Notifications`) run beside it. An event is named by its place in `emitted`
since ids may be given out twice across restarts. `AppendTorn` is a write of the
log that fails, is cut in the middle of a line or just before its newline;
`tail` says how the log ends, and `Lines` what a reader makes of the next line
then. The loops of a replay and a poll are a recursive function (`Kept`), which can
be proved about. The rewrite of a compaction, at an append or at start-up, may
fail and leave the log as it was. Left out: read errors of the log, filters of the
poll, over-long lines, the recommendation sink.

## Runs

| Run | Question | Instance | Distinct states |
|---|---|---|---|
| `route_lock` | are ownership, cancels, evictions and managers consistent in every interleaving? | 2 runs, slash, child, rewind with its cancel, eviction | 3.5 million |
| `route_lock_live` | is every request served, does every cancel arrive? | run, child, agent edit, cancel, restore | 37 thousand |
| `inject_delivery` | is an accepted message stranded, doubled or lost in a crash, is a retract answer false? | 2 follow-ups, 1 queued message, 2 runs, 1 crash, failing calls | 3.9 million |
| `pending_interaction` | same decision on both sides, everybody returns; implements `OneShot` | 3 requests, 2 decisions | 43 thousand |
| `dispatch_journal` | is every effect recorded, none called safe to repeat or retried blindly, recovery bounded? | 2 calls, 2 runs, 2 resumes, 3 crashes, 2 failing saves | 0.5 million |
| `event_bus` | do replay, live stream, poll and log meet without hole or double? | 4 events, rings of 2, channel of 1, 1 restart, 1 torn write, failing rewrites | 4.4 million |
| `session_sync` | is a session forgotten, listed wrongly, a failure dropped? | 2 sessions in 2 directories, 3 edits, 3 runs, cap of 2, local time UTC, seconds of 2 ticks | 3.3 million |
| `cloud_delivery` | is anything acknowledged unanswered or answered twice, does a slot leak? | 2 messages, 3 deliveries, 2 drops, 1 crash, channel of 1 | 0.27 million |
| `rewind_race`, `dispatch_review`, `sync_zone`, `cloud_merged` | does the code do what a comment or the changelog says? It does not; see Findings | smallest that shows it | |

Why the bounds are enough. Interference on a route is pairwise: an owner, one
that waits, and a third party that cancels or evicts. `route_lock` has two
preempting runs, so one can wait while the other tears down, a slash command, a
child, an eviction, and a rewind, whose cancel is published and fired as that of
`POST /cancel`. Agent edits, plain cancels and restores, which publish no run,
are in the liveness run and, for any number of them, in the proofs; evictions are
in the safety run, where the check for deadlock covers them. Queues, rings and channels have capacity one or two, so
"full" and "empty" are a message apart and both are reached. In
`inject_delivery` two runs let a message be parked by one and drained by the
other, and a crash or an early return may come anywhere on the way, including
before the second run's drain and between its drain and its loop. In `dispatch_journal` a response may hold both calls, or the second
call may be a retry of the first in the same run, a resumed one or a later one;
three crashes with two resumes are one more than the cap of attempts allows, and
two failing saves are what it takes to lose a record and its correction. In
`event_bus` four events overflow both rings and the channel, and the log is
compacted. In `session_sync` three runs are a failure, a retry and the cap; three
edits leave one session edited between the scan and the upload while another
moves the watermark, and with seconds of two ticks a session can be saved half a
second after a watermark that is whole. In `cloud_delivery` a message can be delivered, merged into
the run of another, and delivered once more after a lost connection or a crash;
an ack sent on a broken connection is lost. Symmetry is used between requests,
messages or acts of a kind in safety runs and never with liveness.

Deadlock is checked in the runs of `RouteLock`, `InjectDelivery` and
`PendingInteraction`: `Quiet` is the step of a daemon with nothing under way; it
is enabled only when each request is finished or was never sent, so a request
that is stuck half way is reported. The other models stop when their bounds on
events, edits, runs or deliveries are used up, so it is switched off there;
`HandlersReturn` says in `CloudDelivery` that nothing is stuck.

Fairness. `RouteLock`: weak fairness of every request's own steps once it has
started. Goroutines are scheduled, `sync.Mutex` hands over to a starving waiter,
and a run returns because the loop is capped in iterations and guarded by idle
timeouts. Nobody is obliged to send a request, a cancel or an eviction, and the
loop is not obliged to close its window at an end of turn. `PendingInteraction`:
weak fairness of `RunStep`: the transport's send returns and `time.After` fires.
Answers are not fair, so `Returns` holds when the user never answers.
`CloudDelivery`: weak fairness of each handler's steps: the claim has a timeout,
the route lock and the slots are handed over, and the run returns. The
connection need not come back and the Cloud need not deliver.

## Proofs

Eight modules prove, for every choice of the constants that meets their named
assumptions, what the runs check on small instances: every invariant and action
property of a passing run is stated by a theorem. Each module rests on an
inductive invariant, checked by TLC before it was proved, that holds initially
and is kept by every action; the theorems follow by temporal logic.

`RouteLockProofs`, for any sets of requests (finite or not) of disjoint kinds:

- `TypeCorrect`: `TypeOK`. The invariant adds, kind by kind, which request can be
  at which `pc`, and that a captured cancel function is not nil where it is called;
- `OwnerCorrect`: `StateOwnedByHolder`. It is inductive once it also says where
  in its program the request named by `cancel` or `done` is: a registered cancel
  function belongs to a request from `starting` to `unlock`;
- `EvictionCorrect`: `EvictionHasFinisher`, from the owner invariant: whoever sets
  the mark saw `cancel` or `done` set, so the owner is between publication and
  the critical section of `UnlockRoute`;
- `ManagerCorrect`: `ManagerHeldOpen`, which needs in addition that the current
  manager is not closed and that no request holds it for closing;
- `NoLeakCorrect`: `NoManagerLeak`, from the fact that only a request at
  `release` or `closeMgr` captures a manager to close.

`RouteHistoryProofs` has the three properties of `RouteLock` about the past:
`StartupCorrect` (`StartupCancelHonoured`), `StaleCorrect`
(`NoStaleCancel`) and `ChildCorrect` (`ChildAfterParent`). To the owner
invariant they add where the history variables and the flags come from: a
pending cancel or a fired function was put there while its run was starting or
running, and a child whose generation still matches was queued while no other
run had locked the route.

`InjectDeliveryProofs`, for any messages, runs, channel sizes, crashes and failing
calls: `TypeCorrect`, `QueuedNeverVanishes` (`QueuedSurvives`), `MailboxBacked`
(`MailboxIsBacked`), `ConsumedStaysOut` (`ConsumedNotReplayed`), `AcceptedIsKept`
(`AcceptedNotLost`), `NoSecondTurn` (`EntersOnce`) and `RetractAnswersTruly`
(`RetractIsHonest`). The invariant is built in layers, each from the one before:
where in its program the run is and that until the loop it has drained just its
prompt (`StageInv`), that a message is in one place at a
time (`PlaceInv`), what its row says of that place (`RowInv`), which turn and
which saved transcript hold it (`TurnInv`), what the ledgers remember
(`LedgerInv`), and that an accepted message still has a place (`KeptInv`).

`PendingInteractionProofs`, for all sets of requests and decisions with
`Terminal` a decision and `None` none, rests on `StoryInv`: `TypeOK` and a
`Shape` for each request that ties its `pc`, its membership in `pending` and
`emitted`, its channel and its result to the exact events published. From it
follow `TypeCorrect`, `StoryCorrect` (the bus shows no card after its dismissal,
never dismisses twice, and the agent's next event is last), `DecisionCorrect`,
and `Refinement`: each step of `pendingCore` is an `Ask`, `Show`, `Settle` or
`GoOn` of `OneShot`, or leaves the abstract state alone.

`DispatchJournalProofs`, for any calls, acts, runs, resumes, crashes and failing
saves, with `None` no turn (`NoneIsNoTurn`): `TypeCorrect`, `LedgerCorrect`
(`LedgerIsTrue`), `SafeIsSafe` (`SafeUnlessOvertaken`), `CrashLoopsEnd`
(`CrashLoopBounded`), `ResumeIsInformed` (`ResumeKnowsEffects`) and `NoRetryInDoubt`
(`NoBlindRetry`). `CallsInv` says, call by call and for each stage of the run, what
the file's record, the record in memory, both transcripts' results and the effect
may be together; `TurnInv` ties the interrupted-turn marker, its attempts and the
claims to the run, and `StageInv` the rest of the state to the stage. The file is
one save or one failed save behind memory, and that pairing is what has to be
carried through every action.

`CloudDeliveryProofs`, for any messages and bounds: `CloudTypeCorrect`
(`TypeOK`; the invariant adds that a handler's reply target is a message and that
nothing is queued while a run begins), and `AcknowledgedIsSaid`
(`AckedOrUnsaid`), which assumes `ExclusiveClaims`. Its invariant `AckInv`
follows an id from the place where its acknowledgement is planned to the text
that is to be sent before: `Owed` says for each `pc` that the ids still to be
acknowledged are in the text under way or said already, `Planned` the same of the
plan a handler finds at its end, and `PlanOwned` and `Exclusive` that this plan
is its own. Without `ExclusiveClaims` the last is false. `RepliesCorrect`
(`RepliesBounded`), under the same assumption, counts: the replies made for an id
and the places that still owe it one (`Owing`: a handler's own reply, the
intermediate answer it is sending, a place of the inject channel) are together
no more than its deliveries (`ReplyInv`).

`SessionSyncProofs`, for any sessions, batch size, cap, number of edits and
runs, zone and precision of the times: `SyncTypeCorrect`,
`SyncForgetsNothing` (`ForgottenOnlyIfLeft`), `SyncListsChanges`
(`ListsWhatChanged`) and `SyncSettlesFailures` (`FailuresSettle`). `SyncInv` orders the times (`Ordered`, `EntryOrdered`) and
says for each session where the knowledge of its change is (`NotForgotten`): a
candidate, then a loaded body, then an entry of the marker, or else its edit is
later than anything the watermark may move to (`Fresh`). `ChangedIfNotNear` is
what the texts have left of the order of times: from a second on, beyond the
offset of the zone, they sort as the times do.

`EventBusProofs`, for any number of clients, any sizes of the rings, the channel
and the log, any number of events, restarts and bad writes: `TypeCorrect`,
`StreamInOrder` (`OnceInOrder`), `StreamHasNoGap` (the action property
`NoSilentGap`), `PolledOnce` (`PollOnce`) and `LossIsBounded` (`LossBounded`).
`RingInv` says that ids ascend within a life of the process and that the ring
holds this life only, so a higher id in the ring is a later event; `GapInv` that
behind anything a client has or will get, each ringed event is on its way or
excused; `LogInv` that while all writes succeed the log and the ring hold the
newest notifications, and the ids restored from them exceed all earlier ones;
`LossInv` weighs what the log lacks together with what its unfinished end will
still swallow. What the filter loop `Kept` returns is shown by induction on its
length; the induction rule (`Induct`) is itself derived from the pigeonhole
principle for finite sets, since the library's rule takes an operator, which
the provers cannot instantiate.

Only model-checked: liveness (`Served`, `CancelReaches`, `Returns`,
`HandlersReturn`), which is out of the prover's reach, and the absence of
deadlock, which is about ENABLED. The properties of the four runs that expect a
violation are false of the code, so there is nothing to prove; what does hold in
their place is.

## Findings

Four statements in the source claim more than the code does. Each is a run that
TLC refutes; PROJECT.json quotes the lines.

1. `rewind_handler.go:73-74` and `19`: a rewind does not wait for the run it
   cancels, nor cut under `entry.mu`; `CancelRouteForRestore` returns before
   either when `restoreLast` is false (`rewind_race`). The run's last save may
   then bring the cut messages back.
2. `CHANGELOG.md:93` and `runner.go:4636-4637`: when a foreground run takes a
   session before the recovery does, the crashed run's dispatched call is left
   `dispatching`, without review (`dispatch_review`). `LedgerIsTrue` and
   `SafeUnlessOvertaken` state what does hold.
3. `index.go:672`: `updated_at` is compared as text between two time zones; west
   of UTC a changed session is not listed (`sync_zone`). Even in UTC the text does
   not sort by time within a second, since zeros at the end of its fraction are
   dropped: `12:00:00.5Z` sorts before `12:00:00Z`. `ListsWhatChanged` and
   `ForgottenOnlyIfLeft` except those cases, by name, and hold in every zone.
4. `client.go:643-648`: when the intermediate answer to a merged turn fails, only
   one of its messages is kept un-acked (`cloud_merged`). `AckedOrUnsaid` states
   what does hold.

## Known divergences without a run

Smaller disagreements between comments and code met while modelling. The models
do what the code does, and the properties are stated so that they hold of it.

- `router.go:352-354`: a cancel in a run's startup window is erased when another
  request announces itself (line 356). `StartupCancelHonoured` states the rest.
- `router.go:410-414`: a slash command that wins the route does not change
  `runGeneration` (`runner.go:5125`), so a waiting child does not fail closed.
  `ChildAfterParent` states what holds.
- `router.go:1039-1054`: a retract can be answered "retracted" although the
  message entered a prompt through the mailbox drain, which marks nothing as
  committed (`router_mailbox.go:243`). `RetractIsHonest` excepts it.
- `router.go:709-713` ("never silently dropped after returning InjectOK"): a full
  mailbox is no error of `EnqueueMessage`, so `ReEnqueueInjectSurvivors` counts a
  survivor that did not fit as re-queued (`router_mailbox.go:213`).
  `AcceptedNotLost` states what holds.
- `runner.go:2931-2932` ("every routed run that drains here later reaches at least
  one of those save sites"): between the drain and the first of them RunAgent may
  return (3054, 3083, 3128-3165, 3183, 3316, 3324, 3383, 3544, 3922). The drained
  text goes with its locals and nobody puts it back in the mailbox; the rows stay
  pending, so the next start of the daemon brings it back, and nothing before.
  `AcceptedNotLost` names this cause and says that the row is still there;
  `QueuedSurvives` holds of it as it stands.
- `router_mailbox.go:296-300`: the row a failed delete leaves behind is pending,
  not consumed, so no sweep removes it and a restart brings the message back.
- `router_mailbox.go:198-201`: the de-duplication by Cloud id counts consumed
  rows, so a redelivered survivor may not be parked; it is then delivered again.
- `unknown_outcome_gate.go:52-54` says the latch is cleared when an injected
  follow-up is committed; the commit at the end of a turn (`loop.go:5967`) does
  not. `FollowUp` models the one that does.
- `events.go:203-207`: restored ids go on from the notification log; ids of other
  events are given out again, and an SSE client that comes back with a higher one
  gets no replay (`events.go:384`) until they have been passed.
- `notif_store.go:226-229`: one `Write` does not rule out a line without its
  newline; the next line is lost with it. `LossBounded` allows two per bad write.
- `internal/sync/scanner.go:60-62` ("no data loss") and `:132` ("not used to
  advance marker"): the watermark moves past sessions of a skipped directory, and
  the synthetic time of a retry does move it (`sync.go:140`).
- `session/store.go:774-793` and `930-949`: discovery may remove the recovery
  marker that a concurrent save has just written.

## Not modelled, and why

Prompt building, LLM and tool calls, rendering, file formats and the transports
are data or I/O without shared state of their own; so are the terminal UI, the
tools, the renderers and the gateway client, which make up most of the code. The
scheduler, the usage outbox, Desktop RPC and the MCP supervisor have state of
their own; the first two are in the plan. Parts of the modelled components that
are left out are named above, with each module, and in `components`.

## Plan

Done, in this order: `RouteLock` (every run passes through it), its proofs;
`InjectDelivery`; `OneShot`, `PendingInteraction`, their proofs;
`DispatchJournal`; `EventBus`; `SessionSync`, its proofs; `CloudDelivery`, its
proofs; then the proofs of `RouteLock`'s history, `InjectDelivery`,
`DispatchJournal` and `EventBus`, and the two properties of `CloudDelivery` and
`SessionSync` that were left.

Next, by importance:

1. Proofs: what no theorem states yet is how the modules meet. An abstract
   specification of an accepted message (accepted, then in a turn, parked,
   retracted or excused) that `InjectDelivery` implements, and one of the replay
   stream for `EventBus`, as `OneShot` is for `PendingInteraction`.
2. `RouteLock`: `CloseAll` and the ad-hoc session routes.
3. `DispatchJournal`: the recovery marker files and discovery's removal of them.
4. `Scheduler` and the usage outbox.

---------------------------- MODULE InjectDelivery ----------------------------
(***************************************************************************)
(* How a message sent to a route that may be busy reaches an LLM turn      *)
(* (src/internal/daemon/router.go, router_mailbox.go, mailbox_store.go,    *)
(* runner.go).                                                             *)
(*                                                                         *)
(*   FollowUps  POST /message with a client_message_id while a run is at   *)
(*              work: InjectMessage puts them in the run's injectCh; what  *)
(*              the run leaves there is parked in the mailbox.             *)
(*   Queued     POST /queue: EnqueueMessage stores a row in SQLite, then   *)
(*              puts the message in the route's in-memory mailbox.         *)
(*                                                                         *)
(* entry.mu lets one run at a time own the route (module RouteLock), so    *)
(* one `phase' is enough for the owner; the HTTP handlers run beside it.   *)
(* A critical section under sc.mu, the mailbox mutex, or one SQLite call   *)
(* is one action.  The daemon may crash between any two of them.           *)
(***************************************************************************)
EXTENDS Naturals, FiniteSets

CONSTANTS
  FollowUps, Queued,
  ChanCap,     \* capacity of injectCh
  DrainLimit,  \* the limit RunAgent gives DrainMailbox
  MailCap,     \* daemon.mailbox_max_per_route
  MaxRuns,     \* bound: runs that start
  MaxCrashes   \* bound: crashes of the daemon

Messages == FollowUps \cup Queued

ASSUME KindsDiffer == FollowUps \cap Queued = {}
ASSUME FinitelyMany == IsFiniteSet(Messages)
ASSUME CapsPositive == {ChanCap, DrainLimit, MailCap} \subseteq Nat \ {0}
ASSUME BoundsAreNat == {MaxRuns, MaxCrashes} \subseteq Nat

VARIABLES
  up,            \* the daemon process runs
  phase,         \* where the run that owns the route is
  window,        \* entry.done and entry.injectCh: neither, done alone, both
  cancelPending, \* entry.cancelPending
  injectCh,      \* what is buffered in entry.injectCh
  loopBatch,     \* received from injectCh by the loop, not yet filtered
  batch,         \* dequeued by DrainMailbox, not yet filtered
  prompt,        \* drained, and so far only text of the run's prompt
  drained,       \* drainedMailboxIDs of the run
  consumedOnce,  \* mailboxConsumed of the run
  turn,          \* the user messages in the run's conversation
  parking,       \* survivors ReEnqueueInjectSurvivors has still to enqueue
  retracted,     \* sc.retractedInjects[key]
  committed,     \* sc.committedInjects[key]
  mailbox,       \* entry.mailbox
  row,           \* the mailbox table
  saved,         \* the messages in the session file
  enq,           \* where each EnqueueMessage call is
  del,           \* where each retract or delete call is
  answer,        \* what the sender of each message was told
  verdict,       \* what the one who retracted it was told
  entered,       \* history: how many turns each message entered
  viaMailbox,    \* history: the messages that entered by DrainMailbox
  lost,          \* history: why a message came to nothing in this process
  runs, crashes

run == <<phase, window, cancelPending, runs>>
loopVars == <<loopBatch, batch, prompt, drained, consumedOnce, turn, parking>>
ledgers == <<retracted, committed>>
durable == <<row, saved>>
calls == <<enq, del, answer, verdict>>
process == <<up, crashes>>
history == <<entered, viaMailbox, lost>>
vars == <<run, injectCh, loopVars, ledgers, mailbox, durable, calls, process, history>>

Phases == {"idle", "drain", "filter", "prep", "open", "markOpen", "loop", "commit",
           "mark", "ending", "markEnd", "teardown", "park", "clear"}

TypeOK ==
  /\ up \in BOOLEAN
  /\ phase \in Phases
  /\ window \in {"none", "busy", "open"}
  /\ cancelPending \in BOOLEAN
  /\ injectCh \subseteq FollowUps
  /\ Cardinality(injectCh) <= ChanCap
  /\ loopBatch \subseteq FollowUps
  /\ batch \subseteq Messages
  /\ prompt \subseteq Messages
  /\ drained \subseteq Messages
  /\ consumedOnce \in BOOLEAN
  /\ turn \subseteq Messages
  /\ parking \subseteq FollowUps
  /\ retracted \subseteq FollowUps
  /\ committed \subseteq FollowUps
  /\ mailbox \subseteq Messages
  /\ Cardinality(mailbox) <= MailCap
  /\ row \in [Messages -> {"absent", "pending", "consumed"}]
  /\ saved \subseteq Messages
  /\ enq \in [Messages -> {"no", "persist", "insert", "rollback"}]
  /\ del \in [Messages -> {"no", "removeRow", "cascade", "cascadeRow"}]
  /\ answer \in [Messages -> {"none", "ok", "refused", "retracted", "queued",
                              "full", "failed"}]
  /\ verdict \in [Messages -> {"none", "retracted", "already_committed", "removed"}]
  /\ entered \in [Messages -> Nat]
  /\ viaMailbox \subseteq Messages
  /\ lost \in [Messages -> {"no", "full", "store", "early"}]
  /\ runs \in 0 .. MaxRuns
  /\ crashes \in 0 .. MaxCrashes

Init ==
  /\ up = TRUE
  /\ phase = "idle"
  /\ window = "none"
  /\ cancelPending = FALSE
  /\ injectCh = {}
  /\ loopBatch = {} /\ batch = {} /\ prompt = {} /\ drained = {} /\ turn = {} /\ parking = {}
  /\ consumedOnce = FALSE
  /\ retracted = {} /\ committed = {}
  /\ mailbox = {}
  /\ row = [m \in Messages |-> "absent"]
  /\ saved = {}
  /\ enq = [m \in Messages |-> "no"]
  /\ del = [m \in Messages |-> "no"]
  /\ answer = [m \in Messages |-> "none"]
  /\ verdict = [m \in Messages |-> "none"]
  /\ entered = [m \in Messages |-> 0]
  /\ viaMailbox = {}
  /\ lost = [m \in Messages |-> "no"]
  /\ runs = 0 /\ crashes = 0

-----------------------------------------------------------------------------
(* Pieces shared by the handlers. *)

(* The messages of S enter an LLM turn. *)
Enter(S) ==
  /\ turn' = turn \cup S
  /\ entered' = [m \in Messages |-> IF m \in S THEN entered[m] + 1 ELSE entered[m]]

(* MailboxStore.Delete: most callers ignore its error. *)
DeleteRow(m) == row' \in {[row EXCEPT ![m] = "absent"], row}

(* EnqueueMessage(m) returns.  ReEnqueueInjectSurvivors, the caller for a *)
(* follow-up, goes on to the next survivor whatever the outcome.          *)
EnqueueReturns(m, outcome) ==
  /\ enq' = [enq EXCEPT ![m] = "no"]
  /\ parking' = parking \ {m}
  /\ answer' = IF m \in Queued THEN [answer EXCEPT ![m] = outcome] ELSE answer

-----------------------------------------------------------------------------
(* The run: mailbox drain at startup *)

(* LockRouteWithManager and the publication of the run, up to SetRouteCancel. *)
StartRun ==
  /\ up /\ phase = "idle" /\ runs < MaxRuns
  /\ phase' = "drain"
  /\ window' = "busy"
  /\ cancelPending' = FALSE
  /\ runs' = runs + 1
  /\ UNCHANGED <<injectCh, loopVars, ledgers, mailbox, durable, calls, process, history>>

(* Mailbox.DequeueBatch(limit). *)
DequeueBatch ==
  /\ phase = "drain"
  /\ \E taken \in SUBSET mailbox :
       /\ Cardinality(taken) <= DrainLimit
       /\ Cardinality(taken) = DrainLimit \/ taken = mailbox
       /\ batch' = taken
       /\ mailbox' = mailbox \ taken
  /\ phase' = "filter"
  /\ UNCHANGED <<window, cancelPending, runs, injectCh, loopBatch, prompt, drained,
                 consumedOnce, turn, parking, ledgers, durable, calls, process, history>>

(* A dequeued message without a tombstone is merged into the prompt of the *)
(* run, a local text until the loop begins.                                *)
KeepDrained(m) ==
  /\ phase = "filter" /\ m \in batch \ retracted
  /\ batch' = batch \ {m}
  /\ drained' = drained \cup {m}
  /\ prompt' = prompt \cup {m}
  /\ UNCHANGED <<run, injectCh, loopBatch, consumedOnce, turn, parking, ledgers,
                 mailbox, durable, calls, process, history>>

DropDrained(m) ==
  /\ phase = "filter" /\ m \in batch \cap retracted
  /\ batch' = batch \ {m}
  /\ retracted' = retracted \ {m}
  /\ DeleteRow(m)
  /\ UNCHANGED <<run, injectCh, loopBatch, prompt, drained, consumedOnce, turn, parking,
                 committed, mailbox, saved, calls, process, history>>

MailboxDrained ==
  /\ phase = "filter" /\ batch = {}
  /\ phase' = "prep"
  /\ UNCHANGED <<window, cancelPending, runs, injectCh, loopVars, ledgers, mailbox,
                 durable, calls, process, history>>

(* SetRouteRunState, still before the loop begins. *)
OpenInject ==
  /\ phase = "prep"
  /\ phase' = "open"
  /\ window' = "open"
  /\ UNCHANGED <<cancelPending, runs, injectCh, loopVars, ledgers, mailbox, durable,
                 calls, process, history>>

(* The user message is saved before the loop begins when the request has a     *)
(* source; then consumeDrainedMailbox.  A failed save is only logged.          *)
PreSave ==
  /\ phase = "open"
  /\ saved' = saved \cup prompt
  /\ phase' = IF drained # {} /\ ~consumedOnce THEN "markOpen" ELSE "open"
  /\ UNCHANGED <<window, cancelPending, runs, injectCh, loopVars, ledgers, mailbox,
                 row, calls, process, history>>

(* Mutant of FailEarly: the rows of what was drained are stamped all the same. *)
FailEarlyMarks ==
  /\ phase \in {"prep", "open"}
  /\ phase' = "teardown"
  /\ prompt' = {}
  /\ lost' = [m \in Messages |-> IF m \in prompt \ saved THEN "early" ELSE lost[m]]
  /\ row' = [m \in Messages |-> IF m \in prompt THEN "consumed" ELSE row[m]]
  /\ UNCHANGED <<window, cancelPending, runs, injectCh, loopBatch, batch, drained,
                 consumedOnce, turn, parking, ledgers, mailbox, saved, calls, process,
                 entered, viaMailbox>>

(* RunAgent returns before the loop begins, for an error or because the        *)
(* request was answered before.  The prompt goes with it: nobody puts what it  *)
(* drained back in the mailbox.                                                *)
FailEarly ==
  /\ phase \in {"prep", "open"}
  /\ phase' = "teardown"
  /\ prompt' = {}
  /\ lost' = [m \in Messages |-> IF m \in prompt \ saved THEN "early" ELSE lost[m]]
  /\ UNCHANGED <<window, cancelPending, runs, injectCh, loopBatch, batch, drained,
                 consumedOnce, turn, parking, ledgers, mailbox, durable, calls, process,
                 entered, viaMailbox>>

(* loop.Run begins with the prompt. *)
StartLoop ==
  /\ phase = "open"
  /\ phase' = "loop"
  /\ Enter(prompt)
  /\ viaMailbox' = viaMailbox \cup prompt
  /\ prompt' = {}
  /\ UNCHANGED <<window, cancelPending, runs, injectCh, loopBatch, batch, drained,
                 consumedOnce, parking, ledgers, mailbox, durable, calls, process, lost>>

-----------------------------------------------------------------------------
(* The run: the agent loop *)

(* drainInjected at the top of an iteration; the channel is not under sc.mu. *)
TakeInjected ==
  /\ phase = "loop" /\ injectCh # {}
  /\ loopBatch' = injectCh
  /\ injectCh' = {}
  /\ phase' = "commit"
  /\ UNCHANGED <<window, cancelPending, runs, batch, prompt, drained, consumedOnce, turn,
                 parking, ledgers, mailbox, durable, calls, process, history>>

(* Mutant of FilterInjected: the follow-up is not entered in the ledger. *)
FilterWithoutLedger(m) ==
  /\ phase = "commit" /\ m \in loopBatch
  /\ loopBatch' = loopBatch \ {m}
  /\ phase' = IF loopBatch = {m} THEN "loop" ELSE "commit"
  /\ retracted' = retracted \ {m}
  /\ Enter({m} \ retracted)
  /\ UNCHANGED <<window, cancelPending, runs, injectCh, batch, prompt, drained, consumedOnce,
                 parking, committed, mailbox, durable, calls, process, viaMailbox, lost>>

(* ConsumeInjectRetractedOrMarkCommitted for one follow-up of the batch. *)
FilterInjected(m) ==
  /\ phase = "commit" /\ m \in loopBatch
  /\ loopBatch' = loopBatch \ {m}
  /\ phase' = IF loopBatch = {m} THEN "loop" ELSE "commit"
  /\ retracted' = retracted \ {m}
  /\ committed' = committed \cup ({m} \ retracted)
  /\ Enter({m} \ retracted)
  /\ UNCHANGED <<window, cancelPending, runs, injectCh, batch, prompt, drained, consumedOnce,
                 parking, mailbox, durable, calls, process, viaMailbox, lost>>

(* A checkpoint; the first save that succeeds goes on to consumeDrainedMailbox. *)
Save ==
  /\ phase = "loop"
  /\ saved' = saved \cup turn
  /\ phase' = IF drained # {} /\ ~consumedOnce THEN "mark" ELSE "loop"
  /\ UNCHANGED <<window, cancelPending, runs, injectCh, loopVars, ledgers, mailbox,
                 row, calls, process, history>>

(* consumeDrainedMailbox: the flag is set first, so a failed update is not *)
(* tried again.                                                            *)
MarkConsumed ==
  /\ phase \in {"markOpen", "mark", "markEnd"}
  /\ consumedOnce' = TRUE
  /\ row' \in {[m \in Messages |-> IF m \in drained /\ row[m] = "pending"
                                     THEN "consumed" ELSE row[m]],
               row}
  /\ phase' = CASE phase = "markOpen" -> "open"
                [] phase = "mark" -> "loop"
                [] phase = "markEnd" -> "teardown"
  /\ UNCHANGED <<window, cancelPending, runs, injectCh, loopBatch, batch, prompt, drained,
                 turn, parking, ledgers, mailbox, saved, calls, process, history>>

(* Mutant of EndTurn: the survivors are copied, not received. *)
EndTurnPeeks ==
  /\ phase = "loop"
  /\ LET survivors == injectCh \ retracted IN
       /\ injectCh' = survivors
       /\ retracted' = retracted \ injectCh
       /\ committed' = committed \cup survivors
       /\ Enter(survivors)
       /\ window' = IF survivors = {} THEN "none" ELSE window
       /\ phase' = IF survivors = {} THEN "ending" ELSE "loop"
  /\ UNCHANGED <<cancelPending, runs, loopBatch, batch, prompt, drained, consumedOnce, parking,
                 mailbox, durable, calls, process, viaMailbox, lost>>

(* DrainSurvivorsOrCloseInject(key, true) at end_turn: the survivors join the *)
(* continuing run, or the window closes and the run is over.                  *)
EndTurn ==
  /\ phase = "loop"
  /\ LET survivors == injectCh \ retracted IN
       /\ injectCh' = {}
       /\ retracted' = retracted \ injectCh
       /\ committed' = committed \cup survivors
       /\ Enter(survivors)
       /\ window' = IF survivors = {} THEN "none" ELSE window
       /\ phase' = IF survivors = {} THEN "ending" ELSE "loop"
  /\ UNCHANGED <<cancelPending, runs, loopBatch, batch, prompt, drained, consumedOnce, parking,
                 mailbox, durable, calls, process, viaMailbox, lost>>

(* The loop stops without draining injectCh: iteration cap, empty final *)
(* response, soft error.                                                *)
StopTurn ==
  /\ phase = "loop"
  /\ phase' = "ending"
  /\ UNCHANGED <<window, cancelPending, runs, injectCh, loopVars, ledgers, mailbox,
                 durable, calls, process, history>>

(* A hard error: only the error stub is saved, and the rows stay pending. *)
HardError ==
  /\ phase = "loop"
  /\ phase' = "teardown"
  /\ saved' \in {saved, saved \cup turn}
  /\ UNCHANGED <<window, cancelPending, runs, injectCh, loopVars, ledgers, mailbox,
                 row, calls, process, history>>

FinalSave ==
  /\ phase = "ending"
  /\ saved' = saved \cup turn
  /\ phase' = IF drained # {} /\ ~consumedOnce THEN "markEnd" ELSE "teardown"
  /\ UNCHANGED <<window, cancelPending, runs, injectCh, loopVars, ledgers, mailbox,
                 row, calls, process, history>>

FinalSaveFails ==
  /\ phase = "ending"
  /\ phase' = "teardown"
  /\ UNCHANGED <<window, cancelPending, runs, injectCh, loopVars, ledgers, mailbox,
                 durable, calls, process, history>>

-----------------------------------------------------------------------------
(* The run: teardown *)

(* Mutant of Rescue: one drain, whose window is cleared without a second look. *)
RescueOnce ==
  /\ phase = "teardown"
  /\ LET survivors == injectCh \ retracted IN
       /\ window' = window
       /\ injectCh' = {}
       /\ retracted' = retracted \ injectCh
       /\ parking' = survivors
       /\ phase' = IF survivors = {} THEN "clear" ELSE "park"
  /\ UNCHANGED <<cancelPending, runs, loopBatch, batch, prompt, drained, consumedOnce, turn,
                 committed, mailbox, durable, calls, process, history>>

(* DrainSurvivorsOrCloseInject(key, false), called by ReEnqueueInjectSurvivors *)
(* until nothing survives.                                                     *)
Rescue ==
  /\ phase = "teardown"
  /\ IF window = "open"
       THEN LET survivors == injectCh \ retracted IN
              /\ injectCh' = {}
              /\ retracted' = retracted \ injectCh
              /\ parking' = survivors
              /\ window' = IF survivors = {} THEN "none" ELSE window
              /\ phase' = IF survivors = {} THEN "clear" ELSE "park"
       ELSE phase' = "clear" /\ UNCHANGED <<window, injectCh, retracted, parking>>
  /\ UNCHANGED <<cancelPending, runs, loopBatch, batch, prompt, drained, consumedOnce, turn,
                 committed, mailbox, durable, calls, process, history>>

Park(m) ==
  /\ phase = "park" /\ m \in parking
  /\ \A other \in parking : enq[other] = "no"
  /\ enq' = [enq EXCEPT ![m] = "persist"]
  /\ UNCHANGED <<run, injectCh, loopVars, ledgers, mailbox, durable, del, answer,
                 verdict, process, history>>

ParkingDone ==
  /\ phase = "park" /\ parking = {}
  /\ phase' = "teardown"
  /\ UNCHANGED <<window, cancelPending, runs, injectCh, loopVars, ledgers, mailbox,
                 durable, calls, process, history>>

(* ClearRouteRunState, then UnlockRoute.  The channel is dropped with whatever *)
(* it holds, and so are the locals of RunAgent.                                *)
ClearRun ==
  /\ phase = "clear"
  /\ phase' = "idle"
  /\ window' = "none"
  /\ injectCh' = {}
  /\ cancelPending' = FALSE
  /\ drained' = {} /\ turn' = {} /\ consumedOnce' = FALSE
  /\ UNCHANGED <<runs, loopBatch, batch, prompt, parking, ledgers, mailbox, durable,
                 calls, process, history>>

-----------------------------------------------------------------------------
(* EnqueueMessage: persist, then insert, and roll the row back when full *)

(* POST /queue. *)
Request(m) ==
  /\ up /\ m \in Queued /\ answer[m] = "none" /\ enq[m] = "no"
  /\ enq' = [enq EXCEPT ![m] = "persist"]
  /\ UNCHANGED <<run, injectCh, loopVars, ledgers, mailbox, durable, del, answer,
                 verdict, process, history>>

Append(m) ==
  /\ enq[m] = "persist"
  /\ row' = [row EXCEPT ![m] = "pending"]
  /\ enq' = [enq EXCEPT ![m] = "insert"]
  /\ UNCHANGED <<run, injectCh, loopVars, ledgers, mailbox, saved, del, answer,
                 verdict, process, history>>

(* Mutant of AppendFails: the message is put in memory all the same. *)
AppendFailsInserts(m) ==
  /\ enq[m] = "persist" /\ Cardinality(mailbox) < MailCap
  /\ mailbox' = mailbox \cup {m}
  /\ EnqueueReturns(m, "queued")
  /\ UNCHANGED <<run, injectCh, loopBatch, batch, prompt, drained, consumedOnce, turn, ledgers,
                 durable, del, verdict, process, history>>

AppendFails(m) ==
  /\ enq[m] = "persist"
  /\ EnqueueReturns(m, "failed")
  /\ lost' = IF m \in FollowUps THEN [lost EXCEPT ![m] = "store"] ELSE lost
  /\ UNCHANGED <<run, injectCh, loopBatch, batch, prompt, drained, consumedOnce, turn, ledgers,
                 mailbox, durable, del, verdict, process, entered, viaMailbox>>

Insert(m) ==
  /\ enq[m] = "insert" /\ Cardinality(mailbox) < MailCap
  /\ mailbox' = mailbox \cup {m}
  /\ EnqueueReturns(m, "queued")
  /\ UNCHANGED <<run, injectCh, loopBatch, batch, prompt, drained, consumedOnce, turn, ledgers,
                 durable, del, verdict, process, history>>

MailboxFull(m) ==
  /\ enq[m] = "insert" /\ Cardinality(mailbox) >= MailCap
  /\ enq' = [enq EXCEPT ![m] = "rollback"]
  /\ UNCHANGED <<run, injectCh, loopVars, ledgers, mailbox, durable, del, answer,
                 verdict, process, history>>

Rollback(m) ==
  /\ enq[m] = "rollback"
  /\ DeleteRow(m)
  /\ EnqueueReturns(m, IF row'[m] = "absent" THEN "full" ELSE "failed")
  /\ lost' = IF m \in FollowUps THEN [lost EXCEPT ![m] = "full"] ELSE lost
  /\ UNCHANGED <<run, injectCh, loopBatch, batch, prompt, drained, consumedOnce, turn, ledgers,
                 mailbox, saved, del, verdict, process, entered, viaMailbox>>

-----------------------------------------------------------------------------
(* InjectMessage *)

(* Mutant of InjectOK: the room in the channel is off by one. *)
InjectOKOverfull(m) ==
  /\ up /\ m \in FollowUps /\ answer[m] = "none"
  /\ ~cancelPending /\ window = "open"
  /\ m \notin retracted
  /\ Cardinality(injectCh) <= ChanCap
  /\ injectCh' = injectCh \cup {m}
  /\ answer' = [answer EXCEPT ![m] = "ok"]
  /\ UNCHANGED <<run, loopVars, ledgers, mailbox, durable, enq, del, verdict, process,
                 history>>

InjectOK(m) ==
  /\ up /\ m \in FollowUps /\ answer[m] = "none"
  /\ ~cancelPending /\ window = "open"
  /\ m \notin retracted
  /\ Cardinality(injectCh) < ChanCap
  /\ injectCh' = injectCh \cup {m}
  /\ answer' = [answer EXCEPT ![m] = "ok"]
  /\ UNCHANGED <<run, loopVars, ledgers, mailbox, durable, enq, del, verdict, process,
                 history>>

(* The client retracted the id before this POST arrived. *)
InjectRetracted(m) ==
  /\ up /\ m \in FollowUps /\ answer[m] = "none"
  /\ ~cancelPending /\ window = "open"
  /\ m \in retracted
  /\ retracted' = retracted \ {m}
  /\ answer' = [answer EXCEPT ![m] = "retracted"]
  /\ UNCHANGED <<run, injectCh, loopVars, committed, mailbox, durable, enq, del,
                 verdict, process, history>>

(* InjectNoActiveRun, InjectBusy, InjectQueueFull: the sender keeps the message. *)
InjectRefused(m) ==
  /\ up /\ m \in FollowUps /\ answer[m] = "none"
  /\ \/ cancelPending
     \/ window # "open"
     \/ m \notin retracted /\ Cardinality(injectCh) >= ChanCap
  /\ answer' = [answer EXCEPT ![m] = "refused"]
  /\ UNCHANGED <<run, injectCh, loopVars, ledgers, mailbox, durable, enq, del, verdict,
                 process, history>>

(* CancelRouteWithReason while a run owns the route. *)
Cancel ==
  /\ up /\ phase # "idle" /\ ~cancelPending
  /\ cancelPending' = TRUE
  /\ UNCHANGED <<phase, window, runs, injectCh, loopVars, ledgers, mailbox, durable,
                 calls, process, history>>

-----------------------------------------------------------------------------
(* POST /inject/retract and DELETE /queue/{id} *)

(* RetractInjectWithStatus *)
Retract(m) ==
  /\ up /\ m \in FollowUps /\ verdict[m] = "none" /\ del[m] = "no"
  /\ IF m \in committed
       THEN /\ verdict' = [verdict EXCEPT ![m] = "already_committed"]
            /\ UNCHANGED <<retracted, del>>
       ELSE /\ retracted' = retracted \cup {m}
            /\ del' = [del EXCEPT ![m] = "cascade"]
            /\ UNCHANGED verdict
  /\ UNCHANGED <<run, injectCh, loopVars, committed, mailbox, durable, enq, answer,
                 process, history>>

(* RetractMailboxByClientMessageID *)
Cascade(m) ==
  /\ del[m] = "cascade"
  /\ IF m \in mailbox
       THEN /\ mailbox' = mailbox \ {m}
            /\ del' = [del EXCEPT ![m] = "cascadeRow"]
            /\ UNCHANGED verdict
       ELSE /\ del' = [del EXCEPT ![m] = "no"]
            /\ verdict' = [verdict EXCEPT ![m] = "retracted"]
            /\ UNCHANGED mailbox
  /\ UNCHANGED <<run, injectCh, loopVars, ledgers, durable, enq, answer, process, history>>

(* MailboxRetract *)
Remove(m) ==
  /\ up /\ m \in mailbox /\ verdict[m] = "none" /\ del[m] = "no"
  /\ mailbox' = mailbox \ {m}
  /\ del' = [del EXCEPT ![m] = "removeRow"]
  /\ UNCHANGED <<run, injectCh, loopVars, ledgers, durable, enq, answer, verdict,
                 process, history>>

RemoveRow(m) ==
  /\ del[m] \in {"removeRow", "cascadeRow"}
  /\ DeleteRow(m)
  /\ del' = [del EXCEPT ![m] = "no"]
  /\ verdict' = [verdict EXCEPT ![m] =
                   IF del[m] = "removeRow" THEN "removed" ELSE "retracted"]
  /\ UNCHANGED <<run, injectCh, loopVars, ledgers, mailbox, saved, enq, answer, process,
                 history>>

-----------------------------------------------------------------------------
(* The daily purge, crashes and startup recovery *)

(* PurgeConsumedBefore *)
Purge(m) ==
  /\ up /\ row[m] = "consumed"
  /\ row' = [row EXCEPT ![m] = "absent"]
  /\ UNCHANGED <<run, injectCh, loopVars, ledgers, mailbox, saved, calls, process, history>>

(* Everything but the session file and the mailbox table is gone. *)
Crash ==
  /\ up /\ crashes < MaxCrashes
  /\ up' = FALSE
  /\ crashes' = crashes + 1
  /\ phase' = "idle" /\ window' = "none" /\ cancelPending' = FALSE
  /\ injectCh' = {} /\ loopBatch' = {} /\ batch' = {} /\ prompt' = {} /\ drained' = {}
  /\ consumedOnce' = FALSE /\ turn' = {} /\ parking' = {}
  /\ retracted' = {} /\ committed' = {} /\ mailbox' = {}
  /\ enq' = [m \in Messages |-> "no"]
  /\ del' = [m \in Messages |-> "no"]
  /\ answer' = [m \in Messages |-> IF enq[m] # "no" /\ m \in Queued THEN "failed"
                                   ELSE answer[m]]
  /\ UNCHANGED <<runs, durable, verdict, history>>

Pending == {m \in Messages : row[m] = "pending"}

(* Mutant of Recover: consumed rows that are not yet purged are seeded too. *)
RecoverAll ==
  /\ ~up
  /\ up' = TRUE
  /\ mailbox' = {m \in Messages : row[m] # "absent"}
  /\ UNCHANGED <<run, injectCh, loopVars, ledgers, durable, calls, crashes, history>>

(* LoadAllPending and SeedMailbox: rows beyond the cap stay in the table only. *)
Recover ==
  /\ ~up
  /\ up' = TRUE
  /\ mailbox' \in {seeded \in SUBSET Pending :
                     /\ Cardinality(seeded) <= MailCap
                     /\ Cardinality(seeded) = MailCap \/ seeded = Pending}
  /\ UNCHANGED <<run, injectCh, loopVars, ledgers, durable, calls, crashes, history>>

-----------------------------------------------------------------------------
(* Nothing is under way; the daemon waits for a message that never comes. *)
Quiet ==
  /\ up /\ phase = "idle"
  /\ \A m \in Messages : enq[m] = "no" /\ del[m] = "no"
  /\ UNCHANGED vars

Next ==
  \/ Quiet
  \/ StartRun \/ DequeueBatch \/ MailboxDrained \/ OpenInject \/ PreSave
  \/ FailEarly \/ StartLoop
  \/ TakeInjected \/ Save \/ MarkConsumed \/ EndTurn \/ StopTurn \/ HardError
  \/ FinalSave \/ FinalSaveFails \/ Rescue \/ ParkingDone \/ ClearRun
  \/ Cancel \/ Crash \/ Recover
  \/ \E m \in Messages :
       \/ KeepDrained(m) \/ DropDrained(m)
       \/ Request(m) \/ Append(m) \/ AppendFails(m) \/ Insert(m)
       \/ MailboxFull(m) \/ Rollback(m)
       \/ Remove(m) \/ RemoveRow(m) \/ Purge(m)
  \/ \E m \in FollowUps :
       \/ FilterInjected(m) \/ Park(m)
       \/ InjectOK(m) \/ InjectRetracted(m) \/ InjectRefused(m)
       \/ Retract(m) \/ Cascade(m)

Spec == Init /\ [][Next]_vars

-----------------------------------------------------------------------------
(* Properties *)

(* Every message that waits in the volatile mailbox has a pending row behind *)
(* it, so a crash of the daemon loses none of them: the persist-first order   *)
(* of EnqueueMessage and the row-last order of both retract paths.            *)
MailboxIsBacked == mailbox \subseteq Pending

(* A message the sender was told is queued is still in the table or already    *)
(* in the session, whatever crashes, failed runs and full mailboxes did to it, *)
(* until somebody deletes it.                                                  *)
QueuedSurvives ==
  \A m \in Queued :
    answer[m] = "queued" /\ verdict[m] = "none" /\ del[m] = "no"
      => row[m] = "pending" \/ m \in saved

InFlight(m) == m \in injectCh \cup loopBatch \cup parking \cup mailbox \cup batch \cup prompt

(* A message the sender was told is accepted (InjectOK, or queued) and nobody   *)
(* deletes reaches a turn or the session, or is on its way there, while the     *)
(* daemon lives.  Two cases fall short of that: the mailbox refused to park it  *)
(* at teardown, or the run that had drained it returned before its loop began;  *)
(* then its row is still pending, so the next start of the daemon brings it     *)
(* back.                                                                        *)
AcceptedNotLost ==
  \A m \in Messages :
    answer[m] \in {"ok", "queued"} /\ verdict[m] = "none" /\ del[m] = "no" /\ crashes = 0
      => \/ InFlight(m) \/ entered[m] > 0 \/ m \in saved
         \/ lost[m] \in {"full", "store"}
         \/ lost[m] = "early" /\ row[m] = "pending"

(* Without a crash no message enters two turns, whichever of the channel, the  *)
(* survivor path and the mailbox carries it.                                   *)
EntersOnce == crashes = 0 => \A m \in Messages : entered[m] <= 1

(* A message whose row is stamped consumed joins no prompt and no turn again,  *)
(* not even after a crash: recovery replays pending rows only.  It enters a     *)
(* turn just from the prompt that was saved when it was stamped.                *)
ConsumedNotReplayed ==
  [][\A m \in Messages : row[m] = "consumed" /\ m \notin prompt =>
       m \notin prompt' /\ entered'[m] = entered[m]]_vars

(* The retract answer tells the truth about the channel: already_committed     *)
(* means the text is in a turn, retracted means it is in none, unless the      *)
(* mailbox drain of a new run carried it.  A crash empties the ledgers.        *)
RetractIsHonest ==
  \A m \in FollowUps :
    /\ verdict[m] = "already_committed" => entered[m] > 0
    /\ verdict[m] = "retracted" /\ entered[m] > 0 /\ crashes = 0 => m \in viaMailbox

=============================================================================

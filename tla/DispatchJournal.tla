---------------------------- MODULE DispatchJournal ----------------------------
(***************************************************************************)
(* The side-effect journal of one session: what is saved around a tool     *)
(* call that changes the outside world (internal/agent/partition.go,       *)
(* internal/daemon/side_effect_journal.go, internal/session), and what the *)
(* startup recovery does with a turn the process died in                   *)
(* (claimInterruptedResume in internal/daemon/runner.go).                  *)
(*                                                                         *)
(* The session file is written whole by an atomic rename, so a save either *)
(* happens or does not, and a crash falls between saves.  A tool's effect  *)
(* is a step of its own: it may happen at any time while the tool runs.    *)
(* Material calls of a response run one after the other                    *)
(* (executeBatches puts each in a batch of one).                           *)
(***************************************************************************)
EXTENDS Integers, Sequences, FiniteSets

CONSTANTS
  Acts,         \* tool and arguments: what the retry latch compares
  None,
  MaxCalls,     \* bound on the tool calls of the session
  MaxRuns,      \* bound on the foreground runs
  MaxResumes,   \* InterruptedResumeMaxAttempts
  MaxCrashes,   \* bound on the crashes
  MaxSaveFails  \* bound on the saves that fail

ASSUME BoundsAreNaturals ==
  /\ MaxCalls \in Nat /\ MaxRuns \in Nat /\ MaxResumes \in Nat
  /\ MaxCrashes \in Nat /\ MaxSaveFails \in Nat

(* None stands for no interrupted turn.                                     *)
ASSUME NoneIsNoTurn == None \notin [run : 1..MaxRuns, att : 0..MaxResumes]

VARIABLES
  disk,    \* the session's JSON file
  mem,     \* the session in memory, of the run under way
  log,     \* the calls the model has asked for: run and act, by number
  pc,      \* where the daemon is with this session
  run,     \* the run that owns the route, 0 when none
  attempt, \* its recovery attempt, 0 for a foreground run
  out,     \* the results of the current response, by call
  forced,  \* resultCheckpointPending
  gate,    \* unknownOutcomeRetryGate
  cand,    \* the checkpoint discovery found, until it is claimed
  scanned, \* discovery has run in this process
  runs,    \* the foreground runs so far
  since,   \* the first call after the user's last message
  effects, \* the calls whose effect has happened
  resumed, \* how often each run was resumed
  crashes, fails

vars == <<disk, mem, log, pc, run, attempt, out, forced, gate, cand, scanned, runs,
          since, effects, resumed, crashes, fails>>

Calls == 1..MaxCalls
Runs == 1..MaxRuns

(* session.ToolExecutionState, "none" before Prepare.                       *)
RecStates == {"none", "prepared", "dispatching", "committed", "checkpointed",
              "failed_no_effect", "outcome_unknown", "abandoned"}
Unresolved == {"dispatching", "committed", "outcome_unknown"}

(* What the transcript holds of a call: nothing, its tool_use alone, the    *)
(* tool's own result, a result that says the outcome is unknown, or one     *)
(* that says the call was not made and is safe to make again.               *)
Results == {"none", "open", "real", "unknown", "safe"}

Turns == [run : Runs, att : 0..MaxResumes]
Sessions == [rec : [Calls -> RecStates], res : [Calls -> Results],
             turn : Turns \cup {None}]

TypeOK ==
  /\ disk \in Sessions
  /\ mem \in Sessions
  /\ log \in Seq([run : Runs, act : Acts]) /\ Len(log) <= MaxCalls
  /\ pc \in {"down", "up", "think", "batch", "running", "failed", "ending"}
  /\ run \in Runs \cup {0}
  /\ attempt \in 0..MaxResumes
  /\ DOMAIN out \subseteq 1..Len(log)
  /\ \A c \in DOMAIN out : out[c] \in {"pending", "real", "unknown", "safe"}
  /\ forced \in BOOLEAN
  /\ gate \subseteq Acts
  /\ cand \in Turns \cup {None}
  /\ scanned \in BOOLEAN
  /\ runs \in 0..MaxRuns
  /\ since \in 1..(MaxCalls + 1)
  /\ effects \subseteq 1..Len(log)
  /\ resumed \in [Runs -> 0..MaxResumes]
  /\ crashes \in 0..MaxCrashes
  /\ fails \in 0..MaxSaveFails

NewSession == [rec |-> [c \in Calls |-> "none"], res |-> [c \in Calls |-> "none"],
               turn |-> None]

Init ==
  /\ disk = NewSession /\ mem = NewSession
  /\ log = <<>>
  /\ pc = "up" /\ run = 0 /\ attempt = 0
  /\ out = <<>> /\ forced = FALSE /\ gate = {}
  /\ cand = None /\ scanned = TRUE
  /\ runs = 0 /\ since = 1
  /\ effects = {} /\ resumed = [r \in Runs |-> 0]
  /\ crashes = 0 /\ fails = 0

-----------------------------------------------------------------------------
(* Saving                                                                  *)

(* A committed record whose result the saved transcript holds becomes       *)
(* checkpointed in the same write.                                          *)
Reconcile(s) ==
  [s EXCEPT !.rec = [c \in Calls |->
     IF s.rec[c] = "committed" /\ s.res[c] \notin {"none", "open"}
       THEN "checkpointed" ELSE s.rec[c]]]

(* Mutant: a committed record does not block the recovery.                  *)
BlockingUnlessCommitted(s, r) ==
  {c \in 1..Len(log) : log[c].run = r /\ s.rec[c] \in Unresolved \ {"committed"}}

Blocking(s, r) == {c \in 1..Len(log) : log[c].run = r /\ s.rec[c] \in Unresolved}

Save(s) ==
  /\ disk' = Reconcile(s)
  /\ mem' = Reconcile(s)
  /\ UNCHANGED fails

(* n saves fail and the session stays s in memory.                          *)
SaveFails(n, s) ==
  /\ fails + n <= MaxSaveFails
  /\ fails' = fails + n
  /\ mem' = s
  /\ UNCHANGED disk

(* The checkpoint of a foreground run carries the time it was taken: a      *)
(* candidate discovered from an earlier one no longer matches.              *)
Restamp == cand' = IF cand # None /\ cand.run = run THEN None ELSE cand

Snapshot == [run |-> run, att |-> attempt]

-----------------------------------------------------------------------------
(* A run                                                                   *)

(* A foreground run loads the file and writes it back with the user's       *)
(* message; an interrupted turn it finds there stays until its first        *)
(* checkpoint.                                                              *)
StartRun ==
  /\ pc = "up" /\ runs < MaxRuns
  /\ runs' = runs + 1 /\ run' = runs + 1 /\ attempt' = 0
  /\ pc' = "think"
  /\ mem' = disk
  /\ since' = Len(log) + 1
  /\ UNCHANGED <<disk, log, out, forced, gate, cand, scanned, effects, resumed, crashes, fails>>

(* A follow-up enters the turn: the user has spoken, the latch is cleared.  *)
FollowUp ==
  /\ pc = "think"
  /\ gate' = {}
  /\ since' = Len(log) + 1
  /\ UNCHANGED <<disk, mem, log, pc, run, attempt, out, forced, cand, scanned, runs, effects,
                 resumed, crashes, fails>>

(* The model asks for one or two material calls; the latch rejects, before  *)
(* anything is dispatched, those it has seen end in doubt.                  *)
Respond ==
  /\ pc = "think"
  /\ \E as \in [1..1 -> Acts] \cup [1..2 -> Acts] :
       LET n == Len(log) IN
       /\ n + Len(as) <= MaxCalls
       /\ log' = log \o [i \in DOMAIN as |-> [run |-> run, act |-> as[i]]]
       /\ out' = [c \in (n + 1)..(n + Len(as)) |->
                    IF as[c - n] \in gate THEN "safe" ELSE "pending"]
  /\ pc' = "batch"
  /\ UNCHANGED <<disk, mem, run, attempt, forced, gate, cand, scanned, runs, since, effects,
                 resumed, crashes, fails>>

Pending == {c \in DOMAIN out : out[c] = "pending"}
Head1 == CHOOSE c \in Pending : \A d \in Pending : c <= d

Settle(c, r) == out' = [out EXCEPT ![c] = r]

(* Mutant: the calls after c keep the zero value of a result.               *)
AbortWithZeroValue(c, r) ==
  /\ out' = [d \in DOMAIN out |-> IF d = c THEN r
                                  ELSE IF out[d] = "pending" THEN "" ELSE out[d]]
  /\ forced' = TRUE

(* An error of the journal stops the response: the calls after c keep the   *)
(* result that says they were not made.                                     *)
Abort(c, r) ==
  /\ out' = [d \in DOMAIN out |-> IF d = c THEN r
                                  ELSE IF out[d] = "pending" THEN "safe" ELSE out[d]]
  /\ forced' = TRUE

(* The pre-dispatch checkpoint stages the response's tool calls and the     *)
(* InProgress snapshot; MarkDispatching saves them with the record.         *)
Staged ==
  [mem EXCEPT !.res = [c \in Calls |-> IF c \in DOMAIN out THEN "open" ELSE @[c]],
              !.turn = Snapshot]

(* Mutant: the dispatch is recorded in memory and left to the next save.    *)
DispatchUnsaved ==
  /\ pc = "batch" /\ Pending # {}
  /\ mem' = [Staged EXCEPT !.rec[Head1] = "dispatching"]
  /\ pc' = "running"
  /\ UNCHANGED <<disk, log, run, attempt, out, forced, gate, cand, scanned, runs, since, effects,
                 resumed, crashes, fails>>

Dispatch ==
  /\ pc = "batch" /\ Pending # {}
  /\ Save([Staged EXCEPT !.rec[Head1] = "dispatching"])
  /\ Restamp
  /\ pc' = "running"
  /\ UNCHANGED <<log, run, attempt, out, forced, gate, scanned, runs, since, effects, resumed, crashes>>

(* MarkDispatching could not save: the record is abandoned, if that saves.  *)
DispatchFails ==
  /\ pc = "batch" /\ Pending # {} /\ fails < MaxSaveFails
  /\ \/ /\ disk' = Reconcile([Staged EXCEPT !.rec[Head1] = "abandoned"])
        /\ mem' = disk'
        /\ fails' = fails + 1
        /\ Restamp
     \/ /\ SaveFails(2, [Staged EXCEPT !.rec[Head1] = "prepared"])
        /\ UNCHANGED cand
  /\ Abort(Head1, "safe")
  /\ UNCHANGED <<log, pc, run, attempt, gate, scanned, runs, since, effects, resumed, crashes>>

(* The run's context ended before the checkpoint: nothing is staged.        *)
DispatchCancelled ==
  /\ pc = "batch" /\ Pending # {}
  /\ \/ Save([mem EXCEPT !.rec[Head1] = "abandoned"])
     \/ SaveFails(1, [mem EXCEPT !.rec[Head1] = "prepared"])
  /\ Abort(Head1, "safe")
  /\ UNCHANGED <<log, pc, run, attempt, gate, cand, scanned, runs, since, effects, resumed, crashes>>

Effect ==
  /\ pc = "running" /\ Head1 \notin effects
  /\ effects' = effects \cup {Head1}
  /\ UNCHANGED <<disk, mem, log, pc, run, attempt, out, forced, gate, cand, scanned, runs, since,
                 resumed, crashes, fails>>

Recorded(state) == [mem EXCEPT !.rec[Head1] = state]

(* Tool.Run came back with an answer: its record is committed, or failed    *)
(* without effect when the tool can prove there was none.                   *)
ToolAnswers ==
  /\ pc = "running" /\ pc' = "batch"
  /\ \/ Save(Recorded("committed"))
     \/ Head1 \notin effects /\ Save(Recorded("failed_no_effect"))
  /\ Settle(Head1, "real")
  /\ UNCHANGED <<log, run, attempt, forced, gate, cand, scanned, runs, since, effects, resumed, crashes>>

(* The answer came but its record could not be saved, and is saved as       *)
(* unknown when the next save works.                                        *)
AnswerUnsaved ==
  /\ pc = "running" /\ pc' = "batch" /\ fails < MaxSaveFails
  /\ \/ /\ disk' = Reconcile(Recorded("outcome_unknown"))
        /\ mem' = disk'
        /\ fails' = fails + 1
     \/ SaveFails(2, mem)
  /\ Abort(Head1, "unknown")
  /\ UNCHANGED <<log, run, attempt, gate, cand, scanned, runs, since, effects, resumed, crashes>>

(* Tool.Run panicked, or its answer was lost.                               *)
ToolLost ==
  /\ pc = "running" /\ pc' = "batch"
  /\ Save(Recorded("outcome_unknown")) \/ SaveFails(1, mem)
  /\ Abort(Head1, "unknown")
  /\ UNCHANGED <<log, run, attempt, gate, cand, scanned, runs, since, effects, resumed, crashes>>

-----------------------------------------------------------------------------
(* The end of a response: results join the transcript, the latch is armed, *)
(* and the iteration's checkpoint is taken, forced or debounced.           *)

Joined ==
  [mem EXCEPT !.res = [c \in Calls |-> IF c \in DOMAIN out THEN out[c] ELSE @[c]]]

ResponseOver == pc = "batch" /\ Pending = {}

(* Mutant: the latch is not armed.                                          *)
ArmGateNever ==
  /\ gate' = gate
  /\ out' = <<>>
  /\ forced' = FALSE

ArmGate ==
  /\ gate' = gate \cup {log[c].act : c \in {d \in DOMAIN out : out[d] = "unknown"}}
  /\ out' = <<>>
  /\ forced' = FALSE

Checkpoint ==
  /\ ResponseOver /\ ArmGate
  /\ Save([Joined EXCEPT !.turn = Snapshot])
  /\ Restamp
  /\ pc' = "think"
  /\ UNCHANGED <<log, run, attempt, scanned, runs, since, effects, resumed, crashes>>

CheckpointFails ==
  /\ ResponseOver /\ ArmGate
  /\ SaveFails(1, [Joined EXCEPT !.turn = Snapshot])
  /\ pc' = IF forced THEN "failed" ELSE "think"
  /\ UNCHANGED <<log, run, attempt, cand, scanned, runs, since, effects, resumed, crashes>>

(* Debounced, or the context has ended: a forced checkpoint then ends the   *)
(* run with a soft error.                                                   *)
CheckpointSkipped ==
  /\ ResponseOver /\ ArmGate
  /\ mem' = Joined
  /\ pc' = IF forced THEN "ending" ELSE "think"
  /\ UNCHANGED <<disk, log, run, attempt, cand, scanned, runs, since, effects, resumed, crashes, fails>>

-----------------------------------------------------------------------------
(* The end of a run                                                        *)

LeaveRoute ==
  /\ pc' = "up" /\ run' = 0 /\ attempt' = 0
  /\ out' = <<>> /\ forced' = FALSE /\ gate' = {}

(* The last save of a run; when it fails the file keeps what it had, and    *)
(* the next run loads the file.                                             *)
SaveAndLeave(s) ==
  /\ \/ Save(s) /\ Restamp
     \/ SaveFails(1, disk) /\ UNCHANGED cand
  /\ LeaveRoute
  /\ UNCHANGED <<log, scanned, runs, since, effects, resumed, crashes>>

FinalTurn(s) == IF Blocking(s, run) # {} THEN Snapshot ELSE None

Finish ==
  /\ pc \in {"think", "ending"}
  /\ LET s == Reconcile(mem) IN SaveAndLeave([s EXCEPT !.turn = FinalTurn(s)])

(* A hard error ends a foreground turn; a recovery attempt stays eligible   *)
(* until its attempts are used up.                                          *)
HardErrorTurn(s) ==
  IF Blocking(s, run) # {} \/ (attempt > 0 /\ attempt < MaxResumes) THEN Snapshot ELSE None

HardError ==
  /\ pc \in {"think", "failed"}
  /\ LET s == Reconcile(mem) IN SaveAndLeave([s EXCEPT !.turn = HardErrorTurn(s)])

-----------------------------------------------------------------------------
(* Crash, restart and recovery                                             *)

Crash ==
  /\ pc # "down" /\ crashes < MaxCrashes
  /\ crashes' = crashes + 1
  /\ pc' = "down" /\ run' = 0 /\ attempt' = 0
  /\ mem' = disk
  /\ out' = <<>> /\ forced' = FALSE /\ gate' = {}
  /\ cand' = None /\ scanned' = FALSE
  /\ UNCHANGED <<disk, log, runs, since, effects, resumed, fails>>

Restart ==
  /\ pc = "down"
  /\ pc' = "up"
  /\ UNCHANGED <<disk, mem, log, run, attempt, out, forced, gate, cand, scanned, runs, since,
                 effects, resumed, crashes, fails>>

(* The recovery worker reads the files beside the foreground runs, without  *)
(* the route.                                                               *)
Discover ==
  /\ pc # "down" /\ ~scanned
  /\ scanned' = TRUE
  /\ cand' = disk.turn
  /\ UNCHANGED <<disk, mem, log, pc, run, attempt, out, forced, gate, runs, since, effects,
                 resumed, crashes, fails>>

(* Mutant: only outcomes already recorded as unknown are told as such.      *)
GuardedIfUnknown(r) ==
  [disk EXCEPT
     !.res = [c \in Calls |->
        IF @[c] # "open" THEN @[c]
        ELSE IF c \in Blocking(disk, r) /\ disk.rec[c] = "outcome_unknown"
               THEN "unknown" ELSE "safe"]]

(* appendInterruptedSyntheticToolResults looks at every call without a      *)
(* result and at the records of run r only; then the records of r that      *)
(* never reached dispatch are abandoned.                                    *)
Guarded(r) ==
  [disk EXCEPT
     !.res = [c \in Calls |->
        IF @[c] # "open" THEN @[c]
        ELSE IF c \in Blocking(disk, r) THEN "unknown" ELSE "safe"],
     !.rec = [c \in Calls |->
        IF @[c] = "prepared" /\ log[c].run = r THEN "abandoned" ELSE @[c]]]

InDoubt(s, r) ==
  [s EXCEPT !.rec = [c \in Calls |-> IF c \in Blocking(s, r) THEN "outcome_unknown" ELSE @[c]],
            !.turn = None]

Claiming == pc = "up" /\ cand # None
StillMine == disk.turn = cand

ClaimSuperseded ==
  /\ Claiming /\ ~StillMine
  /\ cand' = None
  /\ UNCHANGED <<disk, mem, log, pc, run, attempt, out, forced, gate, scanned, runs, since,
                 effects, resumed, crashes, fails>>

(* The claim ends without a run: for review, too old, or out of attempts.   *)
ClaimEnds ==
  /\ Claiming /\ StillMine
  /\ cand' = None
  /\ LET s == Guarded(cand.run) IN
       LET over == IF Blocking(s, cand.run) # {} THEN InDoubt(s, cand.run)
                   ELSE [s EXCEPT !.turn = None]
       IN Save(over) \/ SaveFails(1, disk)
  /\ UNCHANGED <<log, pc, run, attempt, out, forced, gate, scanned, runs, since, effects,
                 resumed, crashes>>

(* Mutant: the attempt is counted in memory only.                           *)
ClaimResumesUnsaved ==
  /\ Claiming /\ StillMine
  /\ cand.att < MaxResumes
  /\ Blocking(Guarded(cand.run), cand.run) = {}
  /\ cand' = None
  /\ mem' = [Guarded(cand.run) EXCEPT !.turn.att = @ + 1]
  /\ pc' = "think"
  /\ run' = cand.run /\ attempt' = cand.att + 1
  /\ resumed' = [resumed EXCEPT ![cand.run] = @ + 1]
  /\ UNCHANGED <<disk, log, out, forced, gate, scanned, runs, since, effects, crashes, fails>>

ClaimResumes ==
  /\ Claiming /\ StillMine
  /\ cand.att < MaxResumes
  /\ Blocking(Guarded(cand.run), cand.run) = {}
  /\ cand' = None
  /\ \/ /\ Save([Guarded(cand.run) EXCEPT !.turn.att = @ + 1])
        /\ pc' = "think"
        /\ run' = cand.run /\ attempt' = cand.att + 1
        /\ resumed' = [resumed EXCEPT ![cand.run] = @ + 1]
     \/ /\ SaveFails(1, disk)
        /\ UNCHANGED <<pc, run, attempt, resumed>>
  /\ UNCHANGED <<log, out, forced, gate, scanned, runs, since, effects, crashes>>

Next ==
  \/ StartRun \/ FollowUp \/ Respond
  \/ Dispatch \/ DispatchFails \/ DispatchCancelled
  \/ Effect \/ ToolAnswers \/ AnswerUnsaved \/ ToolLost
  \/ Checkpoint \/ CheckpointFails \/ CheckpointSkipped
  \/ Finish \/ HardError
  \/ Crash \/ Restart \/ Discover
  \/ ClaimSuperseded \/ ClaimEnds \/ ClaimResumes

Spec == Init /\ [][Next]_vars

-----------------------------------------------------------------------------
(* Properties                                                              *)

(* An effect on the outside world is never without a trace: from the moment *)
(* it happens, and through every crash, the file holds a record of it past  *)
(* the dispatch; and until a later foreground turn takes the session, the   *)
(* record is closed as checkpointed only when the tool's own result is in   *)
(* the transcript beside it (prepareApprovedToolCall,                       *)
(* ReconcileToolExecutionCheckpoints).                                      *)
LedgerIsTrue ==
  /\ \A c \in effects : disk.rec[c] \in Unresolved \cup {"checkpointed"}
  /\ \A c \in 1..Len(log) :
       disk.rec[c] = "checkpointed" /\ log[c].run = runs => disk.res[c] = "real"

(* What the transcript tells the user about a call is true: a result that   *)
(* says the call was not made and may be made again stands beside no        *)
(* effect, unless a foreground turn took the session before the recovery    *)
(* of the run that made the call (executeBatches,                           *)
(* appendInterruptedSyntheticToolResults).                                  *)
SafeUnlessOvertaken ==
  \A c \in effects : disk.res[c] = "safe" => log[c].run < runs

(* A turn goes on unattended after a crash only with the tool's own result  *)
(* of everything it had done: nothing it did is missing or in doubt         *)
(* (guardInterruptedToolExecutions).                                        *)
ResumeKnowsEffects ==
  [][attempt = 0 /\ attempt' > 0 =>
       \A c \in effects : log[c].run = run' => mem'.res[c] = "real"]_vars

(* The agent does not repeat an action on its own while an earlier try of   *)
(* it is in doubt: unless the user has spoken since, no call is dispatched  *)
(* when the same act of the same run may have happened without a result     *)
(* (unknown_outcome_gate.go within a process, the ledger across a crash).   *)
NoBlindRetry ==
  [][pc = "batch" /\ pc' = "running" =>
       \A c \in effects :
         c >= since /\ c # Head1 /\ log[c] = log[Head1] =>
           mem.res[c] = "real" \/ (c \in DOMAIN out /\ out[c] = "real")]_vars

(* A turn that crashes every time is not resumed for ever: no run enters    *)
(* the loop by recovery more often than configured, whatever save fails     *)
(* and whenever the process dies (claimInterruptedResume saves the attempt  *)
(* before the loop starts).                                                 *)
CrashLoopBounded ==
  /\ \A r \in Runs : resumed[r] <= MaxResumes
  /\ attempt > 0 => /\ resumed[run] = attempt
                    /\ disk.turn # None => disk.turn = Snapshot

(* "A crash between dispatch and response resolves to outcome_unknown"      *)
(* (CHANGELOG.md:93): a session at rest holds no record still dispatching.  *)
CrashResolvesToUnknown ==
  pc = "up" /\ disk.turn = None =>
    \A c \in Calls : disk.rec[c] \notin {"dispatching", "committed"}

=============================================================================

------------------------------ MODULE RouteLock ------------------------------
(***************************************************************************)
(* One route of the daemon's SessionCache (src/internal/daemon/router.go): *)
(* the mutex entry.mu that a request holds for its whole run, and the      *)
(* fields of routeEntry that other goroutines read and write meanwhile     *)
(* under the cache's own mutex sc.mu.  A critical section under sc.mu is   *)
(* one action; everything between two of them interleaves.                 *)
(*                                                                         *)
(* A request is one goroutine that passes through the route once:          *)
(*   Runs      RunAgent through LockRouteWithManager (cancel the run in    *)
(*             flight, wait for it, then lock);                            *)
(*   Slashes   slash commands, through TryLockRouteWithManager;            *)
(*   Children  execution-mode children, through                            *)
(*             LockRouteWithManagerAtSafeBoundary;                         *)
(*   Edits     agent create/update/delete handlers: LockRoute around file  *)
(*             edits, no published run;                                    *)
(*   Cancels   POST /cancel: CancelRouteWithReason, CancelBySessionID;     *)
(*   Restores  POST /cancel with restore_last: CancelRouteForRestore waits*)
(*             for the run and then cuts the last user message off;        *)
(*   Rewinds   POST /sessions/{id}/rewind: CancelRouteForRestore without   *)
(*             restoreLast, then a cut of the session's transcript;        *)
(*   Evicts    evictRoute, when the agent of the route is deleted.         *)
(***************************************************************************)
EXTENDS Naturals

CONSTANTS Runs, Slashes, Children, Edits, Cancels, Restores, Rewinds, Evicts, None

(* The requests that own the route to run an agent turn or a workflow. *)
Runners == Runs \cup Slashes \cup Children

(* Every request that can hold entry.mu. *)
Lockers == Runners \cup Edits \cup Evicts \cup Restores

Requests == Lockers \cup Cancels \cup Rewinds

ASSUME KindsAreDisjoint ==
  /\ Runs \cap (Slashes \cup Children \cup Edits \cup Cancels \cup Evicts) = {}
  /\ Slashes \cap (Children \cup Edits \cup Cancels \cup Evicts) = {}
  /\ Children \cap (Edits \cup Cancels \cup Evicts) = {}
  /\ Edits \cap (Cancels \cup Evicts) = {}
  /\ Cancels \cap Evicts = {}
  /\ Restores \cap (Runners \cup Edits \cup Cancels \cup Evicts \cup Rewinds) = {}
  /\ Rewinds \cap (Runners \cup Edits \cup Cancels \cup Evicts) = {}

ASSUME NoneIsNoRequest == None \notin Requests

VARIABLES
  mu,               \* the request holding entry.mu, or None
  cancel,           \* entry.cancel: the run whose cancel function is registered
  done,             \* entry.done: the run whose done channel is published
  cancelPending,    \* entry.cancelPending
  runGeneration,    \* entry.runGeneration
  cancelGeneration, \* entry.cancelGeneration
  evicting,         \* entry.evicting
  manager,          \* entry.manager: a session manager's number, 0 for nil
  made,             \* how many session managers this route has been given
  closed,           \* the managers whose Close has returned
  pc,               \* where each request is
  loc,              \* what each request captured under sc.mu
  ctxDone,          \* the runs whose context is cancelled
  seen,             \* history: the phases in which a cancellation reached a runner
  between           \* history: who locked the route while a child was queued

entry == <<mu, cancel, done, cancelPending, runGeneration, cancelGeneration,
           evicting, manager>>
managers == <<made, closed>>
history == <<seen, between>>
vars == <<entry, managers, pc, loc, ctxDone, history>>

(* What a request remembers: the run whose cancel function it will call, the *)
(* run whose done channel it waits on, a child's generation and cancellation *)
(* fences, the manager a runner works with and the one left to close.        *)
NoLocals == [cancel |-> None, done |-> None, gen |-> 0, cgen |-> 0,
             sess |-> 0, close |-> 0]

Locals == [cancel : Runners \cup {None}, done : Runners \cup {None},
           gen : Nat, cgen : Nat, sess : Nat, close : Nat]

QueuePCs == {"cancelPrev", "waitPrev", "wantMu", "waitParent", "tryMu"}
StartupPCs == {"revalidate", "publish", "register"}
RunPCs == {"starting", "looping"}
TeardownPCs == {"clear", "closeDone", "unlock"}
PCs == QueuePCs \cup StartupPCs \cup RunPCs \cup TeardownPCs
       \cup {"idle", "editing", "evictCheck", "release", "closeMgr", "fire",
             "waitRun", "slice", "cut", "gone"}

Phase(p) == CASE pc[p] \in QueuePCs -> "queued"
              [] pc[p] \in StartupPCs -> "startup"
              [] pc[p] \in RunPCs -> "running"
              [] OTHER -> "none"

(* closeRouteDone(routeDone) has run for p. *)
DoneClosed(p) == pc[p] \in {"unlock", "release", "closeMgr", "gone"}

TypeOK ==
  /\ mu \in Lockers \cup {None}
  /\ cancel \in Runners \cup {None}
  /\ done \in Runners \cup {None}
  /\ cancelPending \in BOOLEAN
  /\ runGeneration \in Nat
  /\ cancelGeneration \in Nat
  /\ evicting \in BOOLEAN
  /\ made \in Nat
  /\ manager \in 0 .. made
  /\ closed \subseteq 1 .. made
  /\ pc \in [Requests -> PCs]
  /\ loc \in [Requests -> Locals]
  /\ ctxDone \subseteq Runners
  /\ seen \in [Runners -> SUBSET {"queued", "startup", "running", "rival"}]
  /\ between \in [Children -> SUBSET Lockers]

Init ==
  /\ mu = None
  /\ cancel = None
  /\ done = None
  /\ cancelPending = FALSE
  /\ runGeneration = 0
  /\ cancelGeneration = 0
  /\ evicting = FALSE
  /\ manager = 0
  /\ made = 0
  /\ closed = {}
  /\ pc = [p \in Requests |-> "idle"]
  /\ loc = [p \in Requests |-> NoLocals]
  /\ ctxDone = {}
  /\ seen = [p \in Runners |-> {}]
  /\ between = [c \in Children |-> {}]

-----------------------------------------------------------------------------
(* Pieces shared by the handlers. *)

Goto(p, where) == pc' = [pc EXCEPT ![p] = where]

(* The request has no use for what it captured any more. *)
Forget(p) == loc' = [loc EXCEPT ![p] = NoLocals]

(* if entry.manager == nil { entry.manager = sc.newManager(sessionsDir) } *)
EnsureManager ==
  IF manager = 0
    THEN manager' = made + 1 /\ made' = made + 1
    ELSE UNCHANGED <<manager, made>>

(* markRouteCancelLocked.  Zero is never reached again by a counter that only *)
(* grows, so the skip of zero on wrap-around is left out.                     *)
PublishCancel ==
  /\ cancelPending' = TRUE
  /\ cancelGeneration' = cancelGeneration + 1
  /\ seen' = [p \in Runners |-> seen[p] \cup ({Phase(p)} \ {"none"})]

(* entry.mu is granted to p. *)
Acquire(p) ==
  /\ mu = None
  /\ mu' = p
  /\ between' = [c \in Children |->
                   IF c # p /\ Phase(c) = "queued" THEN between[c] \cup {p}
                                                   ELSE between[c]]

-----------------------------------------------------------------------------
(* LockRouteWithManager *)

(* Mutant of Announce: the pending cancel of an idle route is kept. *)
AnnounceKeepsPending(p) ==
  /\ pc[p] = "idle"
  /\ IF p \in Runs THEN EnsureManager ELSE UNCHANGED <<manager, made>>
  /\ Goto(p, "wantMu")
  /\ UNCHANGED <<mu, cancel, done, cancelPending, runGeneration, cancelGeneration,
                 evicting, closed, loc, ctxDone, history>>

(* The request is announced: manager created if needed, the cancel function *)
(* and done channel of the run in flight captured, the pending cancel of an *)
(* idle route cleared.                                                      *)
Announce(p) ==
  /\ pc[p] = "idle"
  /\ IF p \in Runs THEN EnsureManager ELSE UNCHANGED <<manager, made>>
  /\ LET inFlight == cancel # None /\ done # None IN
       /\ loc' = [loc EXCEPT ![p].cancel = IF inFlight THEN cancel ELSE None,
                             ![p].done = IF inFlight THEN done ELSE None]
       /\ Goto(p, IF inFlight THEN "cancelPrev" ELSE "wantMu")
       /\ seen' = [q \in Runners |->
                     IF inFlight /\ q = cancel THEN seen[q] \cup {"running"}
                     ELSE IF Phase(q) = "startup" THEN seen[q] \cup {"rival"}
                     ELSE seen[q]]
  /\ cancelPending' = FALSE
  /\ UNCHANGED <<mu, cancel, done, runGeneration, cancelGeneration, evicting,
                 closed, ctxDone, between>>

CancelPrevious(p) ==
  /\ pc[p] = "cancelPrev"
  /\ ctxDone' = ctxDone \cup {loc[p].cancel}
  /\ Goto(p, "waitPrev")
  /\ UNCHANGED <<entry, managers, loc, history>>

AwaitPrevious(p) ==
  /\ pc[p] = "waitPrev"
  /\ DoneClosed(loc[p].done)
  /\ Goto(p, "wantMu")
  /\ Forget(p)
  /\ UNCHANGED <<entry, managers, ctxDone, history>>

LockMu(p) ==
  /\ pc[p] = "wantMu"
  /\ Acquire(p)
  /\ Goto(p, IF p \in Evicts THEN "evictCheck"
             ELSE IF p \in Restores THEN "slice" ELSE "revalidate")
  /\ UNCHANGED <<cancel, done, cancelPending, runGeneration, cancelGeneration,
                 evicting, manager, managers, loc, ctxDone, seen>>

(* Mutant of Revalidate: the manager is not created again. *)
RevalidateNothing(p) ==
  /\ pc[p] = "revalidate"
  /\ Goto(p, IF p \in Runs THEN "publish" ELSE "editing")
  /\ UNCHANGED <<entry, managers, loc, ctxDone, history>>

(* An eviction may have taken the manager while the request waited. *)
Revalidate(p) ==
  /\ pc[p] = "revalidate"
  /\ IF p \in Runs THEN EnsureManager ELSE UNCHANGED <<manager, made>>
  /\ Goto(p, IF p \in Runs THEN "publish" ELSE "editing")
  /\ UNCHANGED <<mu, cancel, done, cancelPending, runGeneration, cancelGeneration,
                 evicting, closed, loc, ctxDone, history>>

-----------------------------------------------------------------------------
(* TryLockRouteWithManager *)

TryLock(p) ==
  /\ pc[p] = "idle"
  /\ EnsureManager
  /\ Acquire(p)
  /\ cancelPending' = FALSE
  /\ Goto(p, "publish")
  /\ UNCHANGED <<cancel, done, runGeneration, cancelGeneration, evicting, closed,
                 loc, ctxDone, seen>>

(* Mutant of TryLockBusy: the flag is cleared before the lock is tried. *)
TryLockBusyClears(p) ==
  /\ pc[p] = "idle"
  /\ mu # None
  /\ cancelPending' = FALSE
  /\ Goto(p, "gone")
  /\ UNCHANGED <<mu, cancel, done, runGeneration, cancelGeneration, evicting,
                 manager, managers, loc, ctxDone, history>>

TryLockBusy(p) ==
  /\ pc[p] = "idle"
  /\ mu # None
  /\ EnsureManager
  /\ Goto(p, "gone")
  /\ UNCHANGED <<mu, cancel, done, cancelPending, runGeneration, cancelGeneration,
                 evicting, closed, loc, ctxDone, history>>

-----------------------------------------------------------------------------
(* LockRouteWithManagerAtSafeBoundary, after ActiveRouteExecutionSnapshot *)

(* The child decision: both fences and the parent's done channel are taken in *)
(* one critical section.  Only RunAgent publishes an execution run, so the    *)
(* parent is never a slash command.                                           *)
DecideChild(c) ==
  /\ pc[c] = "idle"
  /\ done \in Runs \cup Children
  /\ ~cancelPending
  /\ loc' = [loc EXCEPT ![c].gen = runGeneration, ![c].cgen = cancelGeneration,
                        ![c].done = done]
  /\ Goto(c, "waitParent")
  /\ UNCHANGED <<entry, managers, ctxDone, history>>

AwaitParent(c) ==
  /\ pc[c] = "waitParent"
  /\ DoneClosed(loc[c].done)
  /\ Goto(c, "tryMu")
  /\ UNCHANGED <<entry, managers, loc, ctxDone, history>>

(* Mutant of FencesHold: only the run generation is compared. *)
GenerationFenceHolds(c) == runGeneration = loc[c].gen

FencesHold(c) == runGeneration = loc[c].gen /\ cancelGeneration = loc[c].cgen

ChildLock(c) ==
  /\ pc[c] = "tryMu"
  /\ FencesHold(c)
  /\ done = None
  /\ Acquire(c)
  /\ EnsureManager
  /\ Goto(c, "publish")
  /\ UNCHANGED <<cancel, done, cancelPending, runGeneration, cancelGeneration,
                 evicting, closed, loc, ctxDone, seen>>

ChildRefused(c) ==
  /\ pc[c] = "tryMu"
  /\ \/ ~FencesHold(c)
     \/ mu = None /\ done # None
  /\ Goto(c, "gone")
  /\ Forget(c)
  /\ UNCHANGED <<entry, managers, ctxDone, history>>

(* The child's own context ends while it waits. *)
ChildAbandons(c) ==
  /\ pc[c] \in {"waitParent", "tryMu"}
  /\ Goto(c, "gone")
  /\ Forget(c)
  /\ UNCHANGED <<entry, managers, ctxDone, history>>

-----------------------------------------------------------------------------
(* A run that owns the route: RunAgent and the slash path of runner.go *)

(* SetRouteActiveRunState, which only RunAgent calls, bumps runGeneration; *)
(* the slash path publishes with SetRouteRunState, which does not.          *)
PublishRun(p) ==
  /\ pc[p] = "publish"
  /\ done' = p
  /\ runGeneration' = IF p \in Slashes THEN runGeneration ELSE runGeneration + 1
  /\ loc' = [loc EXCEPT ![p].sess = manager]
  /\ Goto(p, "register")
  /\ UNCHANGED <<mu, cancel, cancelPending, cancelGeneration, evicting, manager,
                 managers, ctxDone, history>>

SetRouteCancel(p) ==
  /\ pc[p] = "register"
  /\ cancel' = p
  /\ cancelPending' = FALSE
  /\ ctxDone' = IF cancelPending THEN ctxDone \cup {p} ELSE ctxDone
  /\ Goto(p, "starting")
  /\ UNCHANGED <<mu, done, runGeneration, cancelGeneration, evicting, manager,
                 managers, loc, history>>

(* SetRouteRunState with the inject channel, just before loop.Run. *)
OpenInject(p) ==
  /\ p \notin Slashes
  /\ pc[p] = "starting"
  /\ done' = p
  /\ Goto(p, "looping")
  /\ UNCHANGED <<mu, cancel, cancelPending, runGeneration, cancelGeneration,
                 evicting, manager, managers, loc, ctxDone, history>>

(* DrainSurvivorsOrCloseInject at end_turn with nothing left to answer: the *)
(* route stops looking active although its run still owns entry.mu.         *)
CloseWindow(p) ==
  /\ pc[p] = "looping"
  /\ done = p
  /\ done' = None
  /\ UNCHANGED <<mu, cancel, cancelPending, runGeneration, cancelGeneration,
                 evicting, manager, managers, pc, loc, ctxDone, history>>

(* The run returns (answer, error, iteration cap or cancelled context) and    *)
(* ClearRouteRunState takes it off display; what RunAgent does between the     *)
(* two leaves this state alone.  The slash path first calls                    *)
(* SetRouteCancel(key, nil).                                                   *)
EndRun(p) ==
  /\ pc[p] \in RunPCs
  /\ IF p \in Slashes
       THEN cancel' = None /\ cancelPending' = FALSE /\ UNCHANGED done /\ Goto(p, "clear")
       ELSE done' = None /\ UNCHANGED <<cancel, cancelPending>> /\ Goto(p, "closeDone")
  /\ UNCHANGED <<mu, runGeneration, cancelGeneration, evicting, manager, managers,
                 loc, ctxDone, history>>

ClearRouteRunState(p) ==
  /\ pc[p] = "clear"
  /\ done' = None
  /\ Goto(p, "closeDone")
  /\ UNCHANGED <<mu, cancel, cancelPending, runGeneration, cancelGeneration,
                 evicting, manager, managers, loc, ctxDone, history>>

CloseDone(p) ==
  /\ pc[p] = "closeDone"
  /\ Goto(p, "unlock")
  /\ UNCHANGED <<entry, managers, loc, ctxDone, history>>

-----------------------------------------------------------------------------
(* UnlockRoute: its critical section, then entry.mu.Unlock, then mgr.Close *)

(* Mutant of UnlockRoute: the cancel function stays registered. *)
UnlockKeepsCancel(p) ==
  /\ pc[p] \in {"unlock", "editing"}
  /\ evicting' = FALSE
  /\ manager' = IF evicting THEN 0 ELSE manager
  /\ loc' = [loc EXCEPT ![p].close = IF evicting THEN manager ELSE 0]
  /\ Goto(p, "release")
  /\ UNCHANGED <<mu, cancel, done, cancelPending, runGeneration, cancelGeneration,
                 managers, ctxDone, history>>

(* Mutant of UnlockRoute: a deferred eviction is not carried out. *)
UnlockIgnoresEviction(p) ==
  /\ pc[p] \in {"unlock", "editing"}
  /\ cancel' = None
  /\ cancelPending' = FALSE
  /\ Goto(p, "release")
  /\ UNCHANGED <<mu, done, runGeneration, cancelGeneration, evicting, manager,
                 managers, loc, ctxDone, history>>

(* Mutant of UnlockRoute: the evicted manager is dropped and never closed. *)
UnlockDropsManager(p) ==
  /\ pc[p] \in {"unlock", "editing"}
  /\ cancel' = None
  /\ cancelPending' = FALSE
  /\ evicting' = FALSE
  /\ manager' = IF evicting THEN 0 ELSE manager
  /\ Goto(p, "release")
  /\ UNCHANGED <<mu, done, runGeneration, cancelGeneration, managers, loc, ctxDone,
                 history>>

UnlockRoute(p) ==
  /\ pc[p] \in {"unlock", "editing"}
  /\ cancel' = None
  /\ cancelPending' = FALSE
  /\ evicting' = FALSE
  /\ manager' = IF evicting THEN 0 ELSE manager
  /\ loc' = [loc EXCEPT ![p].close = IF evicting THEN manager ELSE 0]
  /\ Goto(p, "release")
  /\ UNCHANGED <<mu, done, runGeneration, cancelGeneration, managers, ctxDone,
                 history>>

(* Mutant of ReleaseMu: a restore returns without its deferred Unlock. *)
ReleaseUnlessRestoring(p) ==
  /\ pc[p] = "release"
  /\ mu' = IF p \in Restores THEN mu ELSE None
  /\ Goto(p, IF loc[p].close # 0 THEN "closeMgr" ELSE "gone")
  /\ UNCHANGED <<cancel, done, cancelPending, runGeneration, cancelGeneration,
                 evicting, manager, managers, loc, ctxDone, history>>

ReleaseMu(p) ==
  /\ pc[p] = "release"
  /\ mu' = None
  /\ Goto(p, IF loc[p].close # 0 THEN "closeMgr"
             ELSE IF p \in Evicts /\ loc[p].cancel # None THEN "fire" ELSE "gone")
  /\ UNCHANGED <<cancel, done, cancelPending, runGeneration, cancelGeneration,
                 evicting, manager, managers, loc, ctxDone, history>>

CloseManager(p) ==
  /\ pc[p] = "closeMgr"
  /\ closed' = closed \cup {loc[p].close}
  /\ Goto(p, "gone")
  /\ Forget(p)
  /\ UNCHANGED <<entry, made, ctxDone, history>>

-----------------------------------------------------------------------------
(* CancelRouteWithReason, and evictRoute *)

(* Mutant of CancelRoute: a run whose inject window is closed is not cancelled. *)
CancelRouteIfActive(x) ==
  /\ pc[x] = "idle"
  /\ PublishCancel
  /\ loc' = [loc EXCEPT ![x].cancel = cancel]
  /\ Goto(x, IF done = None THEN "gone" ELSE "fire")
  /\ UNCHANGED <<mu, cancel, done, runGeneration, evicting, manager, managers,
                 ctxDone, between>>

CancelRoute(x) ==
  /\ pc[x] = "idle"
  /\ PublishCancel
  /\ loc' = [loc EXCEPT ![x].cancel = cancel]
  /\ Goto(x, IF cancel = None THEN "gone" ELSE "fire")
  /\ UNCHANGED <<mu, cancel, done, runGeneration, evicting, manager, managers,
                 ctxDone, between>>

(* The captured cancel function is called after sc.mu is released. *)
FireCancel(x) ==
  /\ pc[x] = "fire"
  /\ ctxDone' = ctxDone \cup {loc[x].cancel}
  /\ Goto(x, "gone")
  /\ Forget(x)
  /\ UNCHANGED <<entry, managers, history>>

RunActive == cancel # None \/ done # None

EvictRoute(x) ==
  /\ pc[x] = "idle"
  /\ IF RunActive
       THEN /\ evicting' = TRUE
            /\ PublishCancel
            /\ loc' = [loc EXCEPT ![x].cancel = cancel]
            /\ Goto(x, IF cancel = None THEN "gone" ELSE "fire")
       ELSE /\ Goto(x, "wantMu")
            /\ UNCHANGED <<evicting, cancelPending, cancelGeneration, seen, loc>>
  /\ UNCHANGED <<mu, cancel, done, runGeneration, manager, managers, ctxDone, between>>

EvictIdle(x) ==
  /\ pc[x] = "evictCheck"
  /\ IF RunActive
       THEN /\ evicting' = TRUE
            /\ PublishCancel
            /\ loc' = [loc EXCEPT ![x].cancel = cancel]
            /\ UNCHANGED manager
       ELSE /\ manager' = 0
            /\ loc' = [loc EXCEPT ![x].close = manager]
            /\ UNCHANGED <<evicting, cancelPending, cancelGeneration, seen>>
  /\ Goto(x, "release")
  /\ UNCHANGED <<mu, cancel, done, runGeneration, managers, ctxDone, between>>

-----------------------------------------------------------------------------
(* CancelRouteForRestore, and the rewind that calls it *)

(* Mutant of CancelForRestore: the cancel function is not tested for nil.     *)
CancelForRestoreUnchecked(x) ==
  /\ pc[x] = "idle"
  /\ PublishCancel
  /\ loc' = [loc EXCEPT ![x].cancel = cancel, ![x].done = done]
  /\ Goto(x, "fire")
  /\ UNCHANGED <<mu, cancel, done, runGeneration, evicting, manager, managers,
                 ctxDone, between>>

(* Cancel function and done channel are captured, and the cancel published,  *)
(* in one critical section; without a registered cancel function the call is  *)
(* over.                                                                      *)
CancelForRestore(x) ==
  /\ pc[x] = "idle"
  /\ PublishCancel
  /\ loc' = [loc EXCEPT ![x].cancel = cancel,
                        ![x].done = IF cancel = None THEN None ELSE done]
  /\ Goto(x, IF cancel # None THEN "fire" ELSE IF x \in Rewinds THEN "cut" ELSE "gone")
  /\ UNCHANGED <<mu, cancel, done, runGeneration, evicting, manager, managers,
                 ctxDone, between>>

FireRestore(x) ==
  /\ pc[x] = "fire"
  /\ ctxDone' = ctxDone \cup {loc[x].cancel}
  /\ Goto(x, IF x \in Rewinds THEN "cut" ELSE "waitRun")
  /\ UNCHANGED <<entry, managers, loc, history>>

(* A done channel captured as nil, after ClearRouteRunState, is not waited    *)
(* for.                                                                       *)
AwaitRun(x) ==
  /\ pc[x] = "waitRun"
  /\ loc[x].done # None => DoneClosed(loc[x].done)
  /\ Goto(x, "wantMu")
  /\ Forget(x)
  /\ UNCHANGED <<entry, managers, ctxDone, history>>

(* The run did not exit within the timeout, or the route had no session id    *)
(* yet: the session is left alone.                                            *)
RestoreGivesUp(x) ==
  /\ pc[x] = "waitRun"
  /\ Goto(x, "gone")
  /\ Forget(x)
  /\ UNCHANGED <<entry, managers, ctxDone, history>>

(* SliceBeforeLastUser and the save, then entry.mu.Unlock without UnlockRoute. *)
SliceSession(x) ==
  /\ pc[x] = "slice"
  /\ Goto(x, "release")
  /\ UNCHANGED <<entry, managers, loc, ctxDone, history>>

(* rewindToMessage: TruncateAt and the save, outside entry.mu. *)
CutSession(x) ==
  /\ pc[x] = "cut"
  /\ Goto(x, "gone")
  /\ Forget(x)
  /\ UNCHANGED <<entry, managers, ctxDone, history>>

-----------------------------------------------------------------------------
LockRequest(p) == Announce(p)
LockStep(p) == CancelPrevious(p) \/ AwaitPrevious(p) \/ Revalidate(p)
SlashRequest(p) == TryLock(p) \/ TryLockBusy(p)
ChildStep(c) == AwaitParent(c) \/ ChildLock(c) \/ ChildRefused(c)
RunStep(p) == \/ PublishRun(p) \/ SetRouteCancel(p) \/ OpenInject(p) \/ EndRun(p)
              \/ ClearRouteRunState(p) \/ CloseDone(p)
UnlockStep(p) == UnlockRoute(p) \/ ReleaseMu(p) \/ CloseManager(p)

(* What a request does once it has started, and cannot decline to do. *)
Step(p) ==
  \/ p \in Runs \cup Edits /\ (LockStep(p) \/ LockMu(p))
  \/ p \in Evicts /\ (LockMu(p) \/ EvictIdle(p))
  \/ p \in Restores /\ (FireRestore(p) \/ AwaitRun(p) \/ LockMu(p) \/ SliceSession(p))
  \/ p \in Rewinds /\ (FireRestore(p) \/ CutSession(p))
  \/ p \in Children /\ ChildStep(p)
  \/ p \in Runners /\ RunStep(p)
  \/ p \in Lockers /\ UnlockStep(p)
  \/ p \in Cancels \cup Evicts /\ FireCancel(p)

(* All requests that came have been served; the daemon waits for more. *)
Quiet ==
  /\ \A p \in Requests : pc[p] \in {"idle", "gone"}
  /\ UNCHANGED vars

Next ==
  \/ \E p \in Runs \cup Edits : Announce(p)
  \/ \E p \in Runs \cup Edits : CancelPrevious(p)
  \/ \E p \in Runs \cup Edits : AwaitPrevious(p)
  \/ \E p \in Runs \cup Edits \cup Evicts \cup Restores : LockMu(p)
  \/ \E p \in Runs \cup Edits : Revalidate(p)
  \/ \E p \in Slashes : TryLock(p)
  \/ \E p \in Slashes : TryLockBusy(p)
  \/ \E c \in Children : DecideChild(c)
  \/ \E c \in Children : AwaitParent(c)
  \/ \E c \in Children : ChildLock(c)
  \/ \E c \in Children : ChildRefused(c)
  \/ \E c \in Children : ChildAbandons(c)
  \/ \E p \in Runners : PublishRun(p)
  \/ \E p \in Runners : SetRouteCancel(p)
  \/ \E p \in Runners : OpenInject(p)
  \/ \E p \in Runners : CloseWindow(p)
  \/ \E p \in Runners : EndRun(p)
  \/ \E p \in Slashes : ClearRouteRunState(p)
  \/ \E p \in Runners : CloseDone(p)
  \/ \E p \in Runners \cup Edits : UnlockRoute(p)
  \/ \E p \in Lockers : ReleaseMu(p)
  \/ \E p \in Lockers : CloseManager(p)
  \/ \E x \in Cancels : CancelRoute(x)
  \/ \E x \in Evicts : EvictRoute(x)
  \/ \E x \in Evicts : EvictIdle(x)
  \/ \E x \in Cancels \cup Evicts : FireCancel(x)
  \/ \E x \in Restores \cup Rewinds : CancelForRestore(x)
  \/ \E x \in Restores \cup Rewinds : FireRestore(x)
  \/ \E x \in Restores : AwaitRun(x)
  \/ \E x \in Restores : RestoreGivesUp(x)
  \/ \E x \in Restores : SliceSession(x)
  \/ \E x \in Rewinds : CutSession(x)
  \/ Quiet

Spec == Init /\ [][Next]_vars

(* Goroutines are scheduled, sync.Mutex is handed to a waiter eventually, and *)
(* RunAgent always returns: the loop is capped in iterations and guarded by   *)
(* idle timeouts.  Nobody is obliged to send a request.                       *)
FairSpec == Spec /\ \A p \in Requests : WF_vars(Step(p))

-----------------------------------------------------------------------------
(* Properties *)

HoldsMu(p) == pc[p] \in StartupPCs \cup RunPCs \cup TeardownPCs
                         \cup {"editing", "evictCheck", "slice", "release"}

(* The route's public run state belongs to the goroutine that owns the route: *)
(* exactly the request that router.go lets past entry.mu is at work, and a     *)
(* cancel function or done channel on display is the owner's, so POST /cancel  *)
(* and the next LockRouteWithManager never stop or wait for a run of the past. *)
StateOwnedByHolder ==
  /\ \A p \in Lockers : HoldsMu(p) <=> mu = p
  /\ cancel # None => cancel = mu
  /\ done # None => done = mu

(* An eviction deferred to UnlockRoute always has an owner left to carry it   *)
(* out: evictRoute never marks a route whose run has already passed the       *)
(* critical section that looks at the mark.                                   *)
EvictionHasFinisher ==
  evicting => /\ mu # None
              /\ pc[mu] \in {"register"} \cup RunPCs \cup TeardownPCs

(* While a run works, the route keeps the session manager the run started     *)
(* with, and nobody has closed it: neither evictRoute nor a second            *)
(* LockRouteWithManager replaces it underneath the run.                       *)
ManagerHeldOpen ==
  \A p \in Runners :
    pc[p] \in {"register"} \cup RunPCs \cup TeardownPCs =>
      /\ loc[p].sess = manager
      /\ manager # 0
      /\ manager \notin closed

(* No session manager leaks: each one the route was given is the route's      *)
(* current manager, is closed, or is captured by the request about to close   *)
(* it.                                                                        *)
NoManagerLeak ==
  \A m \in 1 .. made :
    m = manager \/ m \in closed \/ \E p \in Lockers : loc[p].close = m

(* A cancel that arrives in the owner's startup window (after it locked the   *)
(* route, before SetRouteCancel) stops that run, as CancelRoute's comment      *)
(* says, unless another LockRoute call was announced in the same window.      *)
StartupCancelHonoured ==
  \A p \in Runners :
    pc[p] \in RunPCs /\ "startup" \in seen[p] /\ "rival" \notin seen[p]
      => p \in ctxDone

(* A cancel aimed at an idle route or at an earlier run does not stop a later *)
(* run: a run whose context is cancelled saw a cancel, an eviction or a        *)
(* preemption after it was itself requested.                                  *)
NoStaleCancel ==
  \A p \in Runners : pc[p] \in RunPCs /\ p \in ctxDone => seen[p] # {}

(* The safe-boundary fences work: a child that owns the route was not          *)
(* cancelled while queued, its parent has let go of the route, and no other    *)
(* RunAgent generation ran in between.                                        *)
ChildAfterParent ==
  \A c \in Children :
    HoldsMu(c) => /\ "queued" \notin seen[c]
                  /\ ~HoldsMu(loc[c].done)
                  /\ between[c] \cap (Runs \cup Children) \subseteq {loc[c].done}

(* Everyone is served: no request waits for ever on a done channel nobody      *)
(* closes, on entry.mu or on a generation that will never come.               *)
Served == \A p \in Requests : (pc[p] # "idle") ~> (pc[p] = "gone")

(* A run that a cancel or a preemption caught with its cancel function         *)
(* registered has its context cancelled, even when the run tears down, the     *)
(* route changes hands and the cancel function is called late.                 *)
CancelReaches ==
  \A p \in Runners : ("running" \in seen[p]) ~> (p \in ctxDone)

(* A rewind cuts the session only when the run it cancelled has exited, as     *)
(* rewindToMessage says of its first step (CancelForRestore, CutSession).      *)
RewindWaits ==
  [][\A x \in Rewinds :
       pc[x] = "cut" /\ pc'[x] = "gone" /\ loc[x].cancel # None
         => DoneClosed(loc[x].cancel)]_vars

=============================================================================

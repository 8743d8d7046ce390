-------------------------- MODULE RouteHistoryProofs --------------------------
(***************************************************************************)
(* Proofs about what a request of RouteLock may rely on when it at last    *)
(* owns the route: which cancellations reached it, and who owned the route *)
(* while it waited.  Under the layers of RouteLockProofs, one more for     *)
(* each promise:                                                           *)
(*   StartupInv  a cancel of the owner before SetRouteCancel stays pending;*)
(*   PendingInv  a pending cancel hit everybody who waits or starts;       *)
(*   StaleInv    a cancel function is in hand only of a run that was hit;  *)
(*   ChildInv    what the fences of a queued child say of the meantime.    *)
(***************************************************************************)
EXTENDS RouteLockProofs

(* A cancel that reached the owner before it registered its cancel function    *)
(* waits in cancelPending; afterwards the context is done.                     *)
StartupOf(p) ==
  /\ pc[p] \in QueuePCs \cup {"idle"} => "startup" \notin seen[p]
  /\ pc[p] \in StartupPCs /\ "startup" \in seen[p] /\ "rival" \notin seen[p] => cancelPending
  /\ pc[p] \in RunPCs /\ "startup" \in seen[p] /\ "rival" \notin seen[p] => p \in ctxDone

StartupInv == \A p \in Runners : StartupOf(p)

(* The run is over: what still happens to its context matters to nobody.       *)
Past(p) == pc[p] \in TeardownPCs \cup {"release", "closeMgr", "gone"}

Hit(p) == seen[p] # {} \/ Past(p)

(* A pending cancel reached everybody who waits or starts.                     *)
PendingOf(p) == cancelPending /\ pc[p] \in QueuePCs \cup StartupPCs => seen[p] # {}

PendingInv == \A p \in Runners : PendingOf(p)

(* A cancel function in somebody's hands is that of a run that was hit, and so *)
(* is a context that is done.                                                  *)
StaleInv ==
  /\ \A x \in Requests : loc[x].cancel # None => Hit(loc[x].cancel)
  /\ \A p \in ctxDone : Hit(p)

(* While a child waits its fences are no newer than the route's counters, and  *)
(* older when it was cancelled, or when a run other than its parent's has been *)
(* published; one that is not published yet owns the route.                    *)
FencesOf(c) ==
  /\ loc[c].done \in Runners \ {c}
  /\ loc[c].cgen <= cancelGeneration /\ loc[c].gen <= runGeneration
  /\ "queued" \in seen[c] => loc[c].cgen < cancelGeneration
  /\ \A q \in between[c] \cap (Runs \cup Children) :
       q = loc[c].done \/ loc[c].gen < runGeneration \/ pc[q] \in {"revalidate", "publish"}

ChildOf(c) ==
  /\ pc[c] = "idle" => seen[c] = {} /\ between[c] = {}
  /\ pc[c] \in QueuePCs => pc[c] \in {"waitParent", "tryMu"} /\ FencesOf(c)
  /\ HoldsMu(c) => /\ "queued" \notin seen[c]
                   /\ loc[c].done \in Runners \ {c}
                   /\ between[c] \cap (Runs \cup Children) \subseteq {loc[c].done}

ChildInv == \A c \in Children : ChildOf(c)

-----------------------------------------------------------------------------

(* A cancel of the starting owner stays pending until SetRouteCancel finds it: *)
(* whoever clears the flag owns the route or is a rival.                       *)
LEMMA StartupNext == TypeOK /\ OwnerInv /\ StartupInv /\ [Next]_vars => StartupInv'
<1> SUFFICES ASSUME TypeOK, OwnerInv, StartupInv, [Next]_vars, NEW n \in Runners
             PROVE  StartupOf(n)'
  BY DEF StartupInv
<1> USE Kinds, KindsAreDisjoint, NoneIsNoRequest DEF TypeOK, OwnerInv,
   StateOwnedByHolder, StartupInv, StartupOf, Goto, Phase, entry, managers,
   history, HoldsMu, QueuePCs, StartupPCs, RunPCs, TeardownPCs
<1>1. ASSUME NEW p \in Runs \cup Edits, Announce(p) PROVE StartupOf(n)'
  BY <1>1 DEF Announce, EnsureManager
<1>2. ASSUME NEW p \in Runs \cup Edits, CancelPrevious(p) PROVE StartupOf(n)'
  BY <1>2 DEF CancelPrevious
<1>3. ASSUME NEW p \in Runs \cup Edits, AwaitPrevious(p) PROVE StartupOf(n)'
  BY <1>3 DEF AwaitPrevious
<1>4. ASSUME NEW p \in Runs \cup Edits \cup Evicts \cup Restores, LockMu(p) PROVE StartupOf(n)'
  BY <1>4 DEF LockMu, Acquire
<1>5. ASSUME NEW p \in Runs \cup Edits, Revalidate(p) PROVE StartupOf(n)'
  BY <1>5 DEF Revalidate, EnsureManager
<1>6. ASSUME NEW p \in Slashes, TryLock(p) PROVE StartupOf(n)'
  BY <1>6 DEF TryLock, Acquire, EnsureManager
<1>7. ASSUME NEW p \in Slashes, TryLockBusy(p) PROVE StartupOf(n)'
  BY <1>7 DEF TryLockBusy, EnsureManager
<1>8. ASSUME NEW p \in Children, DecideChild(p) PROVE StartupOf(n)'
  BY <1>8 DEF DecideChild
<1>9. ASSUME NEW p \in Children, AwaitParent(p) PROVE StartupOf(n)'
  BY <1>9 DEF AwaitParent
<1>10. ASSUME NEW p \in Children, ChildLock(p) PROVE StartupOf(n)'
  BY <1>10 DEF ChildLock, Acquire, EnsureManager, FencesHold
<1>11. ASSUME NEW p \in Children, ChildRefused(p) PROVE StartupOf(n)'
  BY <1>11 DEF ChildRefused, FencesHold
<1>12. ASSUME NEW p \in Children, ChildAbandons(p) PROVE StartupOf(n)'
  BY <1>12 DEF ChildAbandons
<1>13. ASSUME NEW p \in Runners, PublishRun(p) PROVE StartupOf(n)'
  BY <1>13 DEF PublishRun
<1>14. ASSUME NEW p \in Runners, SetRouteCancel(p) PROVE StartupOf(n)'
  BY <1>14 DEF SetRouteCancel
<1>15. ASSUME NEW p \in Runners, OpenInject(p) PROVE StartupOf(n)'
  BY <1>15 DEF OpenInject
<1>16. ASSUME NEW p \in Runners, CloseWindow(p) PROVE StartupOf(n)'
  BY <1>16 DEF CloseWindow
<1>17. ASSUME NEW p \in Runners, EndRun(p) PROVE StartupOf(n)'
  BY <1>17 DEF EndRun
<1>18. ASSUME NEW p \in Slashes, ClearRouteRunState(p) PROVE StartupOf(n)'
  BY <1>18 DEF ClearRouteRunState
<1>19. ASSUME NEW p \in Runners, CloseDone(p) PROVE StartupOf(n)'
  BY <1>19 DEF CloseDone
<1>20. ASSUME NEW p \in Runners \cup Edits, UnlockRoute(p) PROVE StartupOf(n)'
  BY <1>20 DEF UnlockRoute
<1>21. ASSUME NEW p \in Lockers, ReleaseMu(p) PROVE StartupOf(n)'
  BY <1>21 DEF ReleaseMu
<1>22. ASSUME NEW p \in Lockers, CloseManager(p) PROVE StartupOf(n)'
  BY <1>22 DEF CloseManager
<1>23. ASSUME NEW x \in Cancels, CancelRoute(x) PROVE StartupOf(n)'
  BY <1>23 DEF CancelRoute, PublishCancel
<1>24. ASSUME NEW x \in Evicts, EvictRoute(x) PROVE StartupOf(n)'
  BY <1>24 DEF EvictRoute, PublishCancel, RunActive
<1>25. ASSUME NEW x \in Evicts, EvictIdle(x) PROVE StartupOf(n)'
  BY <1>25 DEF EvictIdle, PublishCancel, RunActive
<1>26. ASSUME NEW x \in Cancels \cup Evicts, FireCancel(x) PROVE StartupOf(n)'
  BY <1>26 DEF FireCancel
<1>27. ASSUME NEW x \in Restores \cup Rewinds, CancelForRestore(x) PROVE StartupOf(n)'
  BY <1>27 DEF CancelForRestore, PublishCancel
<1>28. ASSUME NEW x \in Restores \cup Rewinds, FireRestore(x) PROVE StartupOf(n)'
  BY <1>28 DEF FireRestore
<1>29. ASSUME NEW x \in Restores, AwaitRun(x) PROVE StartupOf(n)'
  BY <1>29 DEF AwaitRun
<1>30. ASSUME NEW x \in Restores, RestoreGivesUp(x) PROVE StartupOf(n)'
  BY <1>30 DEF RestoreGivesUp
<1>31. ASSUME NEW x \in Restores, SliceSession(x) PROVE StartupOf(n)'
  BY <1>31 DEF SliceSession
<1>32. ASSUME NEW x \in Rewinds, CutSession(x) PROVE StartupOf(n)'
  BY <1>32 DEF CutSession
<1>33. CASE UNCHANGED vars
  BY <1>33 DEF vars
<1> QED
  BY <1>1, <1>2, <1>3, <1>4, <1>5, <1>6, <1>7, <1>8, <1>9, <1>10, <1>11, <1>12,
     <1>13, <1>14, <1>15, <1>16, <1>17, <1>18, <1>19, <1>20, <1>21, <1>22,
     <1>23, <1>24, <1>25, <1>26, <1>27, <1>28, <1>29, <1>30, <1>31, <1>32,
     <1>33 DEF Next, Quiet

(* A request that forgets its locals holds no cancel function any more.        *)
LEMMA ForgetCancel ==
  ASSUME TypeOK, NEW p \in Requests, Forget(p), NEW q \in Requests
  PROVE  loc'[q].cancel \in {None, loc[q].cancel}
<1>1. NoLocals.cancel = None
  BY DEF NoLocals
<1>2. loc'[q] = NoLocals \/ loc'[q] = loc[q]
  BY DEF Forget, TypeOK
<1> QED
  BY <1>1, <1>2

(* The requests of the other kinds are no runners.                             *)
LEMMA NotARunner == Runners \cap (Edits \cup Evicts \cup Cancels \cup Restores \cup Rewinds) = {}
  BY KindsAreDisjoint DEF Runners

(* A cancel published while a run is registered reaches it, or finds it over.  *)
LEMMA PublishHits ==
  ASSUME TypeOK, OwnerInv, NEW c \in Runners, c = cancel, PublishCancel, pc'[c] = pc[c]
  PROVE  Hit(c)'
<1>1. pc[c] \in RunPCs \cup TeardownPCs
  BY Kinds, NoneIsNoRequest DEF OwnerInv
<1>2. CASE pc[c] \in RunPCs
  <2>1. Phase(c) = "running"
    BY <1>2 DEF Phase, QueuePCs, StartupPCs, RunPCs
  <2> QED
    BY <1>1, <2>1 DEF PublishCancel, Hit
<1>3. CASE pc[c] \in TeardownPCs
  BY <1>3 DEF Hit, Past
<1> QED
  BY <1>1, <1>2, <1>3

(* The flag is set for everybody who waits or starts, and cleared before a     *)
(* request joins them.                                                         *)
LEMMA PendingNext == TypeOK /\ OwnerInv /\ PendingInv /\ [Next]_vars => PendingInv'
<1> SUFFICES ASSUME TypeOK, OwnerInv, PendingInv, [Next]_vars, NEW n \in Runners
             PROVE  PendingOf(n)'
  BY DEF PendingInv
<1> USE Kinds, KindsAreDisjoint, NoneIsNoRequest DEF TypeOK, OwnerInv,
   StateOwnedByHolder, PendingInv, PendingOf, Goto, Phase, entry, managers,
   history, HoldsMu, QueuePCs, StartupPCs, RunPCs, TeardownPCs
<1>1. ASSUME NEW p \in Runs \cup Edits, Announce(p) PROVE PendingOf(n)'
  BY <1>1 DEF Announce, EnsureManager
<1>2. ASSUME NEW p \in Runs \cup Edits, CancelPrevious(p) PROVE PendingOf(n)'
  BY <1>2 DEF CancelPrevious
<1>3. ASSUME NEW p \in Runs \cup Edits, AwaitPrevious(p) PROVE PendingOf(n)'
  BY <1>3 DEF AwaitPrevious
<1>4. ASSUME NEW p \in Runs \cup Edits \cup Evicts \cup Restores, LockMu(p) PROVE PendingOf(n)'
  BY <1>4 DEF LockMu, Acquire
<1>5. ASSUME NEW p \in Runs \cup Edits, Revalidate(p) PROVE PendingOf(n)'
  BY <1>5 DEF Revalidate, EnsureManager
<1>6. ASSUME NEW p \in Slashes, TryLock(p) PROVE PendingOf(n)'
  BY <1>6 DEF TryLock, Acquire, EnsureManager
<1>7. ASSUME NEW p \in Slashes, TryLockBusy(p) PROVE PendingOf(n)'
  BY <1>7 DEF TryLockBusy, EnsureManager
<1>8. ASSUME NEW p \in Children, DecideChild(p) PROVE PendingOf(n)'
  BY <1>8 DEF DecideChild
<1>9. ASSUME NEW p \in Children, AwaitParent(p) PROVE PendingOf(n)'
  BY <1>9 DEF AwaitParent
<1>10. ASSUME NEW p \in Children, ChildLock(p) PROVE PendingOf(n)'
  BY <1>10 DEF ChildLock, Acquire, EnsureManager, FencesHold
<1>11. ASSUME NEW p \in Children, ChildRefused(p) PROVE PendingOf(n)'
  BY <1>11 DEF ChildRefused, FencesHold
<1>12. ASSUME NEW p \in Children, ChildAbandons(p) PROVE PendingOf(n)'
  BY <1>12 DEF ChildAbandons
<1>13. ASSUME NEW p \in Runners, PublishRun(p) PROVE PendingOf(n)'
  BY <1>13 DEF PublishRun
<1>14. ASSUME NEW p \in Runners, SetRouteCancel(p) PROVE PendingOf(n)'
  BY <1>14 DEF SetRouteCancel
<1>15. ASSUME NEW p \in Runners, OpenInject(p) PROVE PendingOf(n)'
  BY <1>15 DEF OpenInject
<1>16. ASSUME NEW p \in Runners, CloseWindow(p) PROVE PendingOf(n)'
  BY <1>16 DEF CloseWindow
<1>17. ASSUME NEW p \in Runners, EndRun(p) PROVE PendingOf(n)'
  <2>1. cancelPending' => cancelPending
    BY <1>17 DEF EndRun
  <2>2. seen' = seen /\ (n # p => pc'[n] = pc[n]) /\ pc'[p] \in {"clear", "closeDone"}
    BY <1>17 DEF EndRun
  <2> QED
    BY <2>1, <2>2
<1>18. ASSUME NEW p \in Slashes, ClearRouteRunState(p) PROVE PendingOf(n)'
  BY <1>18 DEF ClearRouteRunState
<1>19. ASSUME NEW p \in Runners, CloseDone(p) PROVE PendingOf(n)'
  BY <1>19 DEF CloseDone
<1>20. ASSUME NEW p \in Runners \cup Edits, UnlockRoute(p) PROVE PendingOf(n)'
  BY <1>20 DEF UnlockRoute
<1>21. ASSUME NEW p \in Lockers, ReleaseMu(p) PROVE PendingOf(n)'
  BY <1>21 DEF ReleaseMu
<1>22. ASSUME NEW p \in Lockers, CloseManager(p) PROVE PendingOf(n)'
  BY <1>22 DEF CloseManager
<1>23. ASSUME NEW x \in Cancels, CancelRoute(x) PROVE PendingOf(n)'
  BY <1>23 DEF CancelRoute, PublishCancel
<1>24. ASSUME NEW x \in Evicts, EvictRoute(x) PROVE PendingOf(n)'
  <2>1. pc'[n] = pc[n]
    BY <1>24, NotARunner DEF EvictRoute
  <2>2. CASE RunActive
    <3>1. seen'[n] = seen[n] \cup ({Phase(n)} \ {"none"})
      BY <1>24, <2>2 DEF EvictRoute, PublishCancel
    <3>2. pc[n] \in QueuePCs \cup StartupPCs => Phase(n) # "none"
      OBVIOUS
    <3> QED
      BY <2>1, <3>1, <3>2
  <2>3. CASE ~RunActive
    <3>1. UNCHANGED <<cancelPending, seen>>
      BY <1>24, <2>3 DEF EvictRoute
    <3> QED
      BY <2>1, <3>1
  <2> QED
    BY <2>2, <2>3
<1>25. ASSUME NEW x \in Evicts, EvictIdle(x) PROVE PendingOf(n)'
  BY <1>25 DEF EvictIdle, PublishCancel, RunActive
<1>26. ASSUME NEW x \in Cancels \cup Evicts, FireCancel(x) PROVE PendingOf(n)'
  BY <1>26 DEF FireCancel
<1>27. ASSUME NEW x \in Restores \cup Rewinds, CancelForRestore(x) PROVE PendingOf(n)'
  BY <1>27 DEF CancelForRestore, PublishCancel
<1>28. ASSUME NEW x \in Restores \cup Rewinds, FireRestore(x) PROVE PendingOf(n)'
  BY <1>28 DEF FireRestore
<1>29. ASSUME NEW x \in Restores, AwaitRun(x) PROVE PendingOf(n)'
  BY <1>29 DEF AwaitRun
<1>30. ASSUME NEW x \in Restores, RestoreGivesUp(x) PROVE PendingOf(n)'
  BY <1>30 DEF RestoreGivesUp
<1>31. ASSUME NEW x \in Restores, SliceSession(x) PROVE PendingOf(n)'
  BY <1>31 DEF SliceSession
<1>32. ASSUME NEW x \in Rewinds, CutSession(x) PROVE PendingOf(n)'
  BY <1>32 DEF CutSession
<1>33. CASE UNCHANGED vars
  BY <1>33 DEF vars
<1> QED
  BY <1>1, <1>2, <1>3, <1>4, <1>5, <1>6, <1>7, <1>8, <1>9, <1>10, <1>11, <1>12,
     <1>13, <1>14, <1>15, <1>16, <1>17, <1>18, <1>19, <1>20, <1>21, <1>22,
     <1>23, <1>24, <1>25, <1>26, <1>27, <1>28, <1>29, <1>30, <1>31, <1>32,
     <1>33 DEF Next, Quiet

(* A run that was hit stays hit: nothing is forgotten of what reached it, and  *)
(* nobody comes back from the end of a run.                                    *)
LEMMA HitStays ==
  ASSUME TypeOK, OwnerInv, [Next]_vars, NEW n \in Runners, Hit(n)
  PROVE  Hit(n)'
<1> USE Kinds, KindsAreDisjoint, NoneIsNoRequest DEF TypeOK, Hit, Past, Goto,
   entry, managers, history, HoldsMu, QueuePCs, StartupPCs, RunPCs, TeardownPCs
<1>1. ASSUME NEW p \in Runs \cup Edits, Announce(p) PROVE Hit(n)'
  BY <1>1 DEF Announce, EnsureManager
<1>2. ASSUME NEW p \in Runs \cup Edits, CancelPrevious(p) PROVE Hit(n)'
  BY <1>2 DEF CancelPrevious
<1>3. ASSUME NEW p \in Runs \cup Edits, AwaitPrevious(p) PROVE Hit(n)'
  BY <1>3 DEF AwaitPrevious
<1>4. ASSUME NEW p \in Runs \cup Edits \cup Evicts \cup Restores, LockMu(p) PROVE Hit(n)'
  BY <1>4 DEF LockMu, Acquire
<1>5. ASSUME NEW p \in Runs \cup Edits, Revalidate(p) PROVE Hit(n)'
  BY <1>5 DEF Revalidate, EnsureManager
<1>6. ASSUME NEW p \in Slashes, TryLock(p) PROVE Hit(n)'
  BY <1>6 DEF TryLock, Acquire, EnsureManager
<1>7. ASSUME NEW p \in Slashes, TryLockBusy(p) PROVE Hit(n)'
  BY <1>7 DEF TryLockBusy, EnsureManager
<1>8. ASSUME NEW p \in Children, DecideChild(p) PROVE Hit(n)'
  BY <1>8 DEF DecideChild
<1>9. ASSUME NEW p \in Children, AwaitParent(p) PROVE Hit(n)'
  BY <1>9 DEF AwaitParent
<1>10. ASSUME NEW p \in Children, ChildLock(p) PROVE Hit(n)'
  BY <1>10 DEF ChildLock, Acquire, EnsureManager, FencesHold
<1>11. ASSUME NEW p \in Children, ChildRefused(p) PROVE Hit(n)'
  BY <1>11 DEF ChildRefused, FencesHold
<1>12. ASSUME NEW p \in Children, ChildAbandons(p) PROVE Hit(n)'
  BY <1>12 DEF ChildAbandons
<1>13. ASSUME NEW p \in Runners, PublishRun(p) PROVE Hit(n)'
  BY <1>13 DEF PublishRun
<1>14. ASSUME NEW p \in Runners, SetRouteCancel(p) PROVE Hit(n)'
  BY <1>14 DEF SetRouteCancel
<1>15. ASSUME NEW p \in Runners, OpenInject(p) PROVE Hit(n)'
  BY <1>15 DEF OpenInject
<1>16. ASSUME NEW p \in Runners, CloseWindow(p) PROVE Hit(n)'
  BY <1>16 DEF CloseWindow
<1>17. ASSUME NEW p \in Runners, EndRun(p) PROVE Hit(n)'
  BY <1>17 DEF EndRun
<1>18. ASSUME NEW p \in Slashes, ClearRouteRunState(p) PROVE Hit(n)'
  BY <1>18 DEF ClearRouteRunState
<1>19. ASSUME NEW p \in Runners, CloseDone(p) PROVE Hit(n)'
  BY <1>19 DEF CloseDone
<1>20. ASSUME NEW p \in Runners \cup Edits, UnlockRoute(p) PROVE Hit(n)'
  BY <1>20 DEF UnlockRoute
<1>21. ASSUME NEW p \in Lockers, ReleaseMu(p) PROVE Hit(n)'
  BY <1>21, NotARunner DEF ReleaseMu
<1>22. ASSUME NEW p \in Lockers, CloseManager(p) PROVE Hit(n)'
  BY <1>22 DEF CloseManager
<1>23. ASSUME NEW x \in Cancels, CancelRoute(x) PROVE Hit(n)'
  BY <1>23 DEF CancelRoute, PublishCancel
<1>24. ASSUME NEW x \in Evicts, EvictRoute(x) PROVE Hit(n)'
  BY <1>24 DEF EvictRoute, PublishCancel, RunActive
<1>25. ASSUME NEW x \in Evicts, EvictIdle(x) PROVE Hit(n)'
  BY <1>25 DEF EvictIdle, PublishCancel, RunActive
<1>26. ASSUME NEW x \in Cancels \cup Evicts, FireCancel(x) PROVE Hit(n)'
  BY <1>26 DEF FireCancel
<1>27. ASSUME NEW x \in Restores \cup Rewinds, CancelForRestore(x) PROVE Hit(n)'
  BY <1>27 DEF CancelForRestore, PublishCancel
<1>28. ASSUME NEW x \in Restores \cup Rewinds, FireRestore(x) PROVE Hit(n)'
  BY <1>28 DEF FireRestore
<1>29. ASSUME NEW x \in Restores, AwaitRun(x) PROVE Hit(n)'
  BY <1>29 DEF AwaitRun
<1>30. ASSUME NEW x \in Restores, RestoreGivesUp(x) PROVE Hit(n)'
  BY <1>30 DEF RestoreGivesUp
<1>31. ASSUME NEW x \in Restores, SliceSession(x) PROVE Hit(n)'
  BY <1>31 DEF SliceSession
<1>32. ASSUME NEW x \in Rewinds, CutSession(x) PROVE Hit(n)'
  BY <1>32 DEF CutSession
<1>33. CASE UNCHANGED vars
  BY <1>33 DEF vars
<1> QED
  BY <1>1, <1>2, <1>3, <1>4, <1>5, <1>6, <1>7, <1>8, <1>9, <1>10, <1>11, <1>12,
     <1>13, <1>14, <1>15, <1>16, <1>17, <1>18, <1>19, <1>20, <1>21, <1>22,
     <1>23, <1>24, <1>25, <1>26, <1>27, <1>28, <1>29, <1>30, <1>31, <1>32,
     <1>33 DEF Next, Quiet

(* Whoever takes the cancel function on display hits the run in the same       *)
(* critical section, or finds it over.                                         *)
LEMMA CaptureHits ==
  ASSUME TypeOK, OwnerInv, [Next]_vars, NEW y \in Requests, NEW c \in Runners,
         loc'[y].cancel = c, loc[y].cancel # c
  PROVE  Hit(c)'
<1> USE Kinds, KindsAreDisjoint, NoneIsNoRequest DEF TypeOK, Locals, Goto,
   entry, managers, history
<1>1. ASSUME NEW p \in Runs \cup Edits, Announce(p) PROVE Hit(c)'
  <2>1. cancel = c /\ done # None
    BY <1>1 DEF Announce
  <2>2. seen'[c] = seen[c] \cup {"running"}
    BY <1>1, <2>1 DEF Announce
  <2> QED
    BY <2>2 DEF Hit
<1>2. ASSUME NEW p \in Runs \cup Edits, CancelPrevious(p) PROVE Hit(c)'
  BY <1>2 DEF CancelPrevious
<1>3. ASSUME NEW p \in Runs \cup Edits, AwaitPrevious(p) PROVE Hit(c)'
  BY <1>3, ForgetCancel DEF AwaitPrevious
<1>4. ASSUME NEW p \in Runs \cup Edits \cup Evicts \cup Restores, LockMu(p) PROVE Hit(c)'
  BY <1>4 DEF LockMu, Acquire
<1>5. ASSUME NEW p \in Runs \cup Edits, Revalidate(p) PROVE Hit(c)'
  BY <1>5 DEF Revalidate, EnsureManager
<1>6. ASSUME NEW p \in Slashes, TryLock(p) PROVE Hit(c)'
  BY <1>6 DEF TryLock, Acquire, EnsureManager
<1>7. ASSUME NEW p \in Slashes, TryLockBusy(p) PROVE Hit(c)'
  BY <1>7 DEF TryLockBusy, EnsureManager
<1>8. ASSUME NEW p \in Children, DecideChild(p) PROVE Hit(c)'
  BY <1>8 DEF DecideChild
<1>9. ASSUME NEW p \in Children, AwaitParent(p) PROVE Hit(c)'
  BY <1>9 DEF AwaitParent
<1>10. ASSUME NEW p \in Children, ChildLock(p) PROVE Hit(c)'
  BY <1>10 DEF ChildLock, Acquire, EnsureManager, FencesHold
<1>11. ASSUME NEW p \in Children, ChildRefused(p) PROVE Hit(c)'
  BY <1>11, ForgetCancel DEF ChildRefused, FencesHold
<1>12. ASSUME NEW p \in Children, ChildAbandons(p) PROVE Hit(c)'
  BY <1>12, ForgetCancel DEF ChildAbandons
<1>13. ASSUME NEW p \in Runners, PublishRun(p) PROVE Hit(c)'
  BY <1>13 DEF PublishRun
<1>14. ASSUME NEW p \in Runners, SetRouteCancel(p) PROVE Hit(c)'
  BY <1>14 DEF SetRouteCancel
<1>15. ASSUME NEW p \in Runners, OpenInject(p) PROVE Hit(c)'
  BY <1>15 DEF OpenInject
<1>16. ASSUME NEW p \in Runners, CloseWindow(p) PROVE Hit(c)'
  BY <1>16 DEF CloseWindow
<1>17. ASSUME NEW p \in Runners, EndRun(p) PROVE Hit(c)'
  BY <1>17 DEF EndRun
<1>18. ASSUME NEW p \in Slashes, ClearRouteRunState(p) PROVE Hit(c)'
  BY <1>18 DEF ClearRouteRunState
<1>19. ASSUME NEW p \in Runners, CloseDone(p) PROVE Hit(c)'
  BY <1>19 DEF CloseDone
<1>20. ASSUME NEW p \in Runners \cup Edits, UnlockRoute(p) PROVE Hit(c)'
  BY <1>20 DEF UnlockRoute
<1>21. ASSUME NEW p \in Lockers, ReleaseMu(p) PROVE Hit(c)'
  BY <1>21 DEF ReleaseMu
<1>22. ASSUME NEW p \in Lockers, CloseManager(p) PROVE Hit(c)'
  BY <1>22, ForgetCancel DEF CloseManager
<1>23. ASSUME NEW x \in Cancels, CancelRoute(x) PROVE Hit(c)'
  <2>1. cancel = c /\ PublishCancel
    BY <1>23 DEF CancelRoute
  <2>2. pc'[c] = pc[c]
    BY <1>23, NotARunner DEF CancelRoute
  <2> QED
    BY <2>1, <2>2, PublishHits
<1>24. ASSUME NEW x \in Evicts, EvictRoute(x) PROVE Hit(c)'
  <2>1. cancel = c /\ PublishCancel
    BY <1>24 DEF EvictRoute
  <2>2. pc'[c] = pc[c]
    BY <1>24, NotARunner DEF EvictRoute
  <2> QED
    BY <2>1, <2>2, PublishHits
<1>25. ASSUME NEW x \in Evicts, EvictIdle(x) PROVE Hit(c)'
  <2>1. cancel = c /\ PublishCancel
    BY <1>25 DEF EvictIdle
  <2>2. pc'[c] = pc[c]
    BY <1>25, NotARunner DEF EvictIdle
  <2> QED
    BY <2>1, <2>2, PublishHits
<1>26. ASSUME NEW x \in Cancels \cup Evicts, FireCancel(x) PROVE Hit(c)'
  BY <1>26, ForgetCancel DEF FireCancel
<1>27. ASSUME NEW x \in Restores \cup Rewinds, CancelForRestore(x) PROVE Hit(c)'
  <2>1. cancel = c /\ PublishCancel
    BY <1>27 DEF CancelForRestore
  <2>2. pc'[c] = pc[c]
    BY <1>27, NotARunner DEF CancelForRestore
  <2> QED
    BY <2>1, <2>2, PublishHits
<1>28. ASSUME NEW x \in Restores \cup Rewinds, FireRestore(x) PROVE Hit(c)'
  BY <1>28 DEF FireRestore
<1>29. ASSUME NEW x \in Restores, AwaitRun(x) PROVE Hit(c)'
  BY <1>29, ForgetCancel DEF AwaitRun
<1>30. ASSUME NEW x \in Restores, RestoreGivesUp(x) PROVE Hit(c)'
  BY <1>30, ForgetCancel DEF RestoreGivesUp
<1>31. ASSUME NEW x \in Restores, SliceSession(x) PROVE Hit(c)'
  BY <1>31 DEF SliceSession
<1>32. ASSUME NEW x \in Rewinds, CutSession(x) PROVE Hit(c)'
  BY <1>32, ForgetCancel DEF CutSession
<1>33. CASE UNCHANGED vars
  BY <1>33 DEF vars
<1> QED
  BY <1>1, <1>2, <1>3, <1>4, <1>5, <1>6, <1>7, <1>8, <1>9, <1>10, <1>11, <1>12,
     <1>13, <1>14, <1>15, <1>16, <1>17, <1>18, <1>19, <1>20, <1>21, <1>22,
     <1>23, <1>24, <1>25, <1>26, <1>27, <1>28, <1>29, <1>30, <1>31, <1>32,
     <1>33 DEF Next, Quiet

(* A context is cancelled by whoever holds its cancel function, or by its run  *)
(* when it finds a cancel pending.                                             *)
LEMMA DoneBy ==
  ASSUME [Next]_vars, NEW n \in ctxDone', n \notin ctxDone
  PROVE  \/ \E x \in Requests : pc[x] \in {"cancelPrev", "fire"} /\ n = loc[x].cancel
         \/ n \in Runners /\ pc[n] = "register" /\ cancelPending /\ UNCHANGED seen
<1>1. CASE \E p \in Runs \cup Edits : CancelPrevious(p)
  BY <1>1, Kinds DEF CancelPrevious
<1>2. CASE \E x \in Cancels \cup Evicts : FireCancel(x)
  BY <1>2, Kinds DEF FireCancel
<1>3. CASE \E x \in Restores \cup Rewinds : FireRestore(x)
  BY <1>3, Kinds DEF FireRestore
<1>4. CASE \E p \in Runners : SetRouteCancel(p)
  BY <1>4 DEF SetRouteCancel, history
<1> QED
  BY <1>1, <1>2, <1>3, <1>4 DEF Next, Quiet, vars, Announce, AwaitPrevious,
     LockMu, Revalidate, TryLock, TryLockBusy, DecideChild, AwaitParent,
     ChildLock, ChildRefused, ChildAbandons, PublishRun, OpenInject,
     CloseWindow, EndRun, ClearRouteRunState, CloseDone, UnlockRoute,
     ReleaseMu, CloseManager, CancelRoute, EvictRoute, EvictIdle,
     CancelForRestore, AwaitRun, RestoreGivesUp, SliceSession, CutSession

(* A cancel function travels only from the route's display into the hands of   *)
(* a request that hit its run, and from there into the run's context.          *)
LEMMA StaleNext ==
  TypeInv /\ OwnerInv /\ PendingInv /\ StaleInv /\ [Next]_vars => StaleInv'
<1> SUFFICES ASSUME TypeInv, OwnerInv, PendingInv, StaleInv, [Next]_vars
             PROVE  StaleInv'
  OBVIOUS
<1>1. TypeOK /\ CapturesOK /\ TypeOK'
  BY TypeNext DEF TypeInv
<1>2. ASSUME NEW x \in Requests, NEW c \in Runners, loc'[x].cancel = c
      PROVE  Hit(c)'
  <2>1. CASE loc[x].cancel = c
    BY <1>1, <2>1, HitStays, Kinds, NoneIsNoRequest DEF StaleInv
  <2>2. CASE loc[x].cancel # c
    BY <1>1, <1>2, <2>2, CaptureHits
  <2> QED
    BY <2>1, <2>2
<1>3. ASSUME NEW n \in ctxDone' PROVE Hit(n)'
  <2>1. n \in Runners
    BY <1>1 DEF TypeOK
  <2>2. Hit(n) => Hit(n)'
    BY <1>1, <2>1, HitStays
  <2>3. CASE n \in ctxDone
    BY <2>2, <2>3 DEF StaleInv
  <2>4. ASSUME NEW x \in Requests, n = loc[x].cancel PROVE Hit(n)'
    BY <2>1, <2>2, <2>4, Kinds, NoneIsNoRequest DEF StaleInv
  <2>5. CASE pc[n] = "register" /\ cancelPending
    BY <2>1, <2>2, <2>5 DEF PendingInv, PendingOf, StartupPCs, Hit
  <2> QED
    BY <2>3, <2>4, <2>5, DoneBy
<1>4. \A x \in Requests : loc'[x].cancel \in Runners \cup {None}
  BY <1>1 DEF TypeOK, Locals
<1> QED
  BY <1>2, <1>3, <1>4 DEF StaleInv

(* A step that leaves a child alone and does not take a run back from the      *)
(* route keeps what the child may rely on.                                     *)
LEMMA ChildKept ==
  ASSUME TypeOK, OwnerInv, NEW n \in Children, ChildOf(n),
         loc'[n].done = loc[n].done, loc'[n].gen = loc[n].gen, loc'[n].cgen = loc[n].cgen,
         pc'[n] = pc[n], UNCHANGED <<seen, between, cancelGeneration, runGeneration>>,
         \A q \in Runners : pc[q] \in {"revalidate", "publish"} => pc'[q] = pc[q]
  PROVE  ChildOf(n)'
<1>1. \A q \in between[n] \cap (Runs \cup Children) : q \in Runners
  BY Kinds
<1> QED
  BY <1>1 DEF ChildOf, FencesOf, HoldsMu

(* A published cancel makes the counter of the route newer than the fence of   *)
(* every child that waits.                                                     *)
LEMMA ChildPublished ==
  ASSUME TypeOK, NEW n \in Children, ChildOf(n), PublishCancel,
         loc'[n] = loc[n], UNCHANGED <<between, runGeneration>>,
         \A q \in Runners : pc'[q] = pc[q]
  PROVE  ChildOf(n)'
<1>1. pc'[n] = pc[n] /\ \A q \in Runs \cup Children : pc'[q] = pc[q]
  BY Kinds
<1>2. seen'[n] = seen[n] \cup ({Phase(n)} \ {"none"}) /\ cancelGeneration' = cancelGeneration + 1
  BY Kinds DEF PublishCancel
<1>3. CASE pc[n] \in QueuePCs
  <2>1. loc[n].cgen \in Nat /\ loc[n].cgen <= cancelGeneration /\ cancelGeneration \in Nat
    BY <1>3, Kinds DEF ChildOf, FencesOf, TypeOK, Locals
  <2> QED
    BY <1>1, <1>2, <1>3, <2>1 DEF ChildOf, FencesOf, HoldsMu, QueuePCs, StartupPCs, RunPCs, TeardownPCs
<1>4. CASE pc[n] \notin QueuePCs
  <2>1. Phase(n) # "queued"
    BY <1>4 DEF Phase, StartupPCs, RunPCs
  <2>2. pc[n] = "idle" => Phase(n) = "none"
    BY DEF Phase, QueuePCs, StartupPCs, RunPCs
  <2> QED
    BY <1>1, <1>2, <1>4, <2>1, <2>2 DEF ChildOf, HoldsMu, QueuePCs, StartupPCs, RunPCs, TeardownPCs
<1> QED
  BY <1>3, <1>4

(* Every cancel and every published run moves one of the counters a waiting    *)
(* child compares when it locks the route.                                     *)
LEMMA ChildNext == TypeOK /\ OwnerInv /\ ChildInv /\ [Next]_vars => ChildInv'
<1> SUFFICES ASSUME TypeOK, OwnerInv, ChildInv, [Next]_vars, NEW n \in Children
             PROVE  ChildOf(n)'
  BY DEF ChildInv
<1> USE Kinds, KindsAreDisjoint, NoneIsNoRequest DEF TypeOK, OwnerInv,
   StateOwnedByHolder, ChildInv, ChildOf, FencesOf, Goto, Phase, entry,
   managers, history, HoldsMu, QueuePCs, StartupPCs, RunPCs, TeardownPCs
<1>1. ASSUME NEW p \in Runs \cup Edits, Announce(p) PROVE ChildOf(n)'
  BY <1>1 DEF Announce, EnsureManager
<1>2. ASSUME NEW p \in Runs \cup Edits, CancelPrevious(p) PROVE ChildOf(n)'
  BY <1>2 DEF CancelPrevious
<1>3. ASSUME NEW p \in Runs \cup Edits, AwaitPrevious(p) PROVE ChildOf(n)'
  <2>1. p # n => loc'[n] = loc[n] /\ pc'[n] = pc[n]
    BY <1>3, ForgetKeeps DEF AwaitPrevious
  <2>2. \A q \in Runners : pc[q] \in {"revalidate", "publish"} => pc'[q] = pc[q]
    BY <1>3 DEF AwaitPrevious
  <2>3. p # n
    BY NotARunner, KindsAreDisjoint
  <2> QED
    BY <1>3, <2>1, <2>2, <2>3, ChildKept DEF AwaitPrevious
<1>4. ASSUME NEW p \in Runs \cup Edits \cup Evicts \cup Restores, LockMu(p) PROVE ChildOf(n)'
  BY <1>4 DEF LockMu, Acquire
<1>5. ASSUME NEW p \in Runs \cup Edits, Revalidate(p) PROVE ChildOf(n)'
  BY <1>5 DEF Revalidate, EnsureManager
<1>6. ASSUME NEW p \in Slashes, TryLock(p) PROVE ChildOf(n)'
  BY <1>6 DEF TryLock, Acquire, EnsureManager
<1>7. ASSUME NEW p \in Slashes, TryLockBusy(p) PROVE ChildOf(n)'
  BY <1>7 DEF TryLockBusy, EnsureManager
<1>8. ASSUME NEW p \in Children, DecideChild(p) PROVE ChildOf(n)'
  BY <1>8 DEF DecideChild
<1>9. ASSUME NEW p \in Children, AwaitParent(p) PROVE ChildOf(n)'
  BY <1>9 DEF AwaitParent
<1>10. ASSUME NEW p \in Children, ChildLock(p) PROVE ChildOf(n)'
  BY <1>10 DEF ChildLock, Acquire, EnsureManager, FencesHold
<1>11. ASSUME NEW p \in Children, ChildRefused(p) PROVE ChildOf(n)'
  <2>1. p # n => loc'[n] = loc[n] /\ pc'[n] = pc[n]
    BY <1>11, ForgetKeeps DEF ChildRefused
  <2>2. \A q \in Runners : pc[q] \in {"revalidate", "publish"} => pc'[q] = pc[q]
    BY <1>11 DEF ChildRefused
  <2>3. CASE p = n
    BY <1>11, <2>3 DEF ChildRefused
  <2> QED
    BY <1>11, <2>1, <2>2, <2>3, ChildKept DEF ChildRefused
<1>12. ASSUME NEW p \in Children, ChildAbandons(p) PROVE ChildOf(n)'
  <2>1. p # n => loc'[n] = loc[n] /\ pc'[n] = pc[n]
    BY <1>12, ForgetKeeps DEF ChildAbandons
  <2>2. \A q \in Runners : pc[q] \in {"revalidate", "publish"} => pc'[q] = pc[q]
    BY <1>12 DEF ChildAbandons
  <2>3. CASE p = n
    BY <1>12, <2>3 DEF ChildAbandons
  <2> QED
    BY <1>12, <2>1, <2>2, <2>3, ChildKept DEF ChildAbandons
<1>13. ASSUME NEW p \in Runners, PublishRun(p) PROVE ChildOf(n)'
  <2>1. loc'[n].done = loc[n].done /\ loc'[n].gen = loc[n].gen /\ loc'[n].cgen = loc[n].cgen
    BY <1>13 DEF PublishRun, Locals
  <2>2. p \in Runs \cup Children => runGeneration' = runGeneration + 1
    BY <1>13 DEF PublishRun
  <2>3. runGeneration \in Nat /\ runGeneration <= runGeneration' /\ loc[n].gen \in Nat
    BY <1>13 DEF PublishRun, Locals
  <2>4. \A q \in Requests : q # p => pc'[q] = pc[q]
    BY <1>13 DEF PublishRun
  <2>5. CASE p = n
    BY <1>13, <2>1, <2>5 DEF PublishRun
  <2>6. CASE p # n
    BY <1>13, <2>1, <2>2, <2>3, <2>4, <2>6 DEF PublishRun
  <2> QED
    BY <2>5, <2>6
<1>14. ASSUME NEW p \in Runners, SetRouteCancel(p) PROVE ChildOf(n)'
  BY <1>14 DEF SetRouteCancel
<1>15. ASSUME NEW p \in Runners, OpenInject(p) PROVE ChildOf(n)'
  BY <1>15 DEF OpenInject
<1>16. ASSUME NEW p \in Runners, CloseWindow(p) PROVE ChildOf(n)'
  BY <1>16 DEF CloseWindow
<1>17. ASSUME NEW p \in Runners, EndRun(p) PROVE ChildOf(n)'
  BY <1>17 DEF EndRun
<1>18. ASSUME NEW p \in Slashes, ClearRouteRunState(p) PROVE ChildOf(n)'
  BY <1>18 DEF ClearRouteRunState
<1>19. ASSUME NEW p \in Runners, CloseDone(p) PROVE ChildOf(n)'
  BY <1>19 DEF CloseDone
<1>20. ASSUME NEW p \in Runners \cup Edits, UnlockRoute(p) PROVE ChildOf(n)'
  BY <1>20 DEF UnlockRoute
<1>21. ASSUME NEW p \in Lockers, ReleaseMu(p) PROVE ChildOf(n)'
  BY <1>21 DEF ReleaseMu
<1>22. ASSUME NEW p \in Lockers, CloseManager(p) PROVE ChildOf(n)'
  <2>1. p # n => loc'[n] = loc[n] /\ pc'[n] = pc[n]
    BY <1>22, ForgetKeeps DEF CloseManager
  <2>2. \A q \in Runners : pc[q] \in {"revalidate", "publish"} => pc'[q] = pc[q]
    BY <1>22 DEF CloseManager
  <2>3. CASE p = n
    BY <1>22, <2>3 DEF CloseManager
  <2> QED
    BY <1>22, <2>1, <2>2, <2>3, ChildKept DEF CloseManager
<1>23. ASSUME NEW x \in Cancels, CancelRoute(x) PROVE ChildOf(n)'
  <2>1. x # n /\ \A q \in Runners : q # x
    BY NotARunner
  <2> QED
    BY <1>23, <2>1, ChildPublished DEF CancelRoute
<1>24. ASSUME NEW x \in Evicts, EvictRoute(x) PROVE ChildOf(n)'
  <2>1. x # n /\ \A q \in Runners : q # x
    BY NotARunner
  <2>2. CASE RunActive
    BY <1>24, <2>1, <2>2, ChildPublished DEF EvictRoute
  <2>3. CASE ~RunActive
    BY <1>24, <2>1, <2>3, ChildKept DEF EvictRoute
  <2> QED
    BY <2>2, <2>3
<1>25. ASSUME NEW x \in Evicts, EvictIdle(x) PROVE ChildOf(n)'
  BY <1>25 DEF EvictIdle, PublishCancel, RunActive
<1>26. ASSUME NEW x \in Cancels \cup Evicts, FireCancel(x) PROVE ChildOf(n)'
  <2>1. x # n => loc'[n] = loc[n] /\ pc'[n] = pc[n]
    BY <1>26, ForgetKeeps DEF FireCancel
  <2>2. \A q \in Runners : pc[q] \in {"revalidate", "publish"} => pc'[q] = pc[q]
    BY <1>26 DEF FireCancel
  <2>3. x # n
    BY NotARunner
  <2> QED
    BY <1>26, <2>1, <2>2, <2>3, ChildKept DEF FireCancel
<1>27. ASSUME NEW x \in Restores \cup Rewinds, CancelForRestore(x) PROVE ChildOf(n)'
  <2>1. x # n /\ \A q \in Runners : q # x
    BY NotARunner
  <2> QED
    BY <1>27, <2>1, ChildPublished DEF CancelForRestore
<1>28. ASSUME NEW x \in Restores \cup Rewinds, FireRestore(x) PROVE ChildOf(n)'
  BY <1>28 DEF FireRestore
<1>29. ASSUME NEW x \in Restores, AwaitRun(x) PROVE ChildOf(n)'
  <2>1. x # n => loc'[n] = loc[n] /\ pc'[n] = pc[n]
    BY <1>29, ForgetKeeps DEF AwaitRun
  <2>2. \A q \in Runners : pc[q] \in {"revalidate", "publish"} => pc'[q] = pc[q]
    BY <1>29 DEF AwaitRun
  <2>3. x # n
    BY NotARunner
  <2> QED
    BY <1>29, <2>1, <2>2, <2>3, ChildKept DEF AwaitRun
<1>30. ASSUME NEW x \in Restores, RestoreGivesUp(x) PROVE ChildOf(n)'
  <2>1. x # n => loc'[n] = loc[n] /\ pc'[n] = pc[n]
    BY <1>30, ForgetKeeps DEF RestoreGivesUp
  <2>2. \A q \in Runners : pc[q] \in {"revalidate", "publish"} => pc'[q] = pc[q]
    BY <1>30 DEF RestoreGivesUp
  <2>3. x # n
    BY NotARunner
  <2> QED
    BY <1>30, <2>1, <2>2, <2>3, ChildKept DEF RestoreGivesUp
<1>31. ASSUME NEW x \in Restores, SliceSession(x) PROVE ChildOf(n)'
  BY <1>31 DEF SliceSession
<1>32. ASSUME NEW x \in Rewinds, CutSession(x) PROVE ChildOf(n)'
  <2>1. x # n => loc'[n] = loc[n] /\ pc'[n] = pc[n]
    BY <1>32, ForgetKeeps DEF CutSession
  <2>2. \A q \in Runners : pc[q] \in {"revalidate", "publish"} => pc'[q] = pc[q]
    BY <1>32 DEF CutSession
  <2>3. x # n
    BY NotARunner
  <2> QED
    BY <1>32, <2>1, <2>2, <2>3, ChildKept DEF CutSession
<1>33. CASE UNCHANGED vars
  BY <1>33 DEF vars
<1> QED
  BY <1>1, <1>2, <1>3, <1>4, <1>5, <1>6, <1>7, <1>8, <1>9, <1>10, <1>11, <1>12,
     <1>13, <1>14, <1>15, <1>16, <1>17, <1>18, <1>19, <1>20, <1>21, <1>22,
     <1>23, <1>24, <1>25, <1>26, <1>27, <1>28, <1>29, <1>30, <1>31, <1>32,
     <1>33 DEF Next, Quiet

-----------------------------------------------------------------------------
(* The history layers on top of those of RouteLockProofs. *)
HistoryInv == RouteInv /\ StartupInv /\ PendingInv /\ StaleInv /\ ChildInv

LEMMA HistoryInvariant == Spec => []HistoryInv
<1>1. Init => StartupInv /\ PendingInv /\ StaleInv /\ ChildInv
  BY Kinds DEF Init, StartupInv, StartupOf, PendingInv, PendingOf, StaleInv, ChildInv, ChildOf,
               HoldsMu, NoLocals, QueuePCs, StartupPCs, RunPCs, TeardownPCs
<1>2. RouteInv => TypeInv /\ TypeOK /\ OwnerInv
  BY DEF RouteInv, TypeInv
<1>3. RouteInv /\ StartupInv /\ PendingInv /\ StaleInv /\ ChildInv /\ [Next]_vars
        => StartupInv' /\ PendingInv' /\ StaleInv' /\ ChildInv'
  BY <1>2, StartupNext, PendingNext, StaleNext, ChildNext
<1> QED
  BY <1>1, <1>3, RouteInvariant, PTL DEF Spec, HistoryInv

(* A cancel that finds the owner of the route before SetRouteCancel stops its  *)
(* run, unless another LockRoute call was announced in that window, however    *)
(* many requests there are.                                                    *)
THEOREM StartupCorrect == Spec => []StartupCancelHonoured
<1>1. HistoryInv => StartupCancelHonoured
  BY DEF HistoryInv, StartupInv, StartupOf, StartupCancelHonoured
<1> QED
  BY <1>1, HistoryInvariant, PTL

(* No run is stopped by a cancel that was over before the run was requested:   *)
(* neither by a pending flag left on the route nor by a cancel function called *)
(* late.                                                                       *)
THEOREM StaleCorrect == Spec => []NoStaleCancel
<1>1. HistoryInv => NoStaleCancel
  BY DEF HistoryInv, StaleInv, Hit, Past, NoStaleCancel, RunPCs, TeardownPCs
<1> QED
  BY <1>1, HistoryInvariant, PTL

(* A child that got past its fences owns the route right after its parent: it  *)
(* was not cancelled while it waited, and nobody else's run came in between.   *)
THEOREM ChildCorrect == Spec => []ChildAfterParent
<1>1. HistoryInv => ChildAfterParent
  BY Kinds DEF HistoryInv, RouteInv, OwnerInv, StateOwnedByHolder, ChildInv, ChildOf, ChildAfterParent
<1> QED
  BY <1>1, HistoryInvariant, PTL

=============================================================================

--------------------------- MODULE RouteLockProofs ---------------------------
(***************************************************************************)
(* Proofs about RouteLock for any number of requests of every kind.  The   *)
(* induction is split in layers, each proved under the previous one:        *)
(*   TypeInv     types, with what a captured local may hold;               *)
(*   OwnerInv    who holds entry.mu, and what the route may then display;   *)
(*   EvictionHasFinisher                                                    *)
(*   ManagerInv  the life of session managers.                             *)
(***************************************************************************)
EXTENDS RouteLock, TLAPS

(* A captured cancel function is a runner's, a manager to close exists. *)
CapturesOK ==
  \A p \in Requests :
    /\ pc[p] \in {"cancelPrev", "fire"} => loc[p].cancel \in Runners
    /\ loc[p].close \in 0 .. made
    /\ pc[p] = "closeMgr" => loc[p].close # 0

TypeInv == TypeOK /\ CapturesOK

(* What the route may display, given where its owner is. *)
OwnerInv ==
  /\ StateOwnedByHolder
  /\ cancel # None => pc[cancel] \in RunPCs \cup TeardownPCs
  /\ done # None => pc[done] \in {"register"} \cup RunPCs \cup {"clear"}

(* A manager in use is never one that is closed or about to be. *)
ManagerInv ==
  /\ ManagerHeldOpen
  /\ \A p \in Runners : pc[p] = "publish" => manager # 0
  /\ manager \notin closed
  /\ manager # 0 => \A p \in Requests : loc[p].close # manager

(* Only a request that passed UnlockRoute or EvictIdle has a manager to close. *)
LeakInv ==
  /\ NoManagerLeak
  /\ \A p \in Lockers : pc[p] \notin {"release", "closeMgr", "gone"} => loc[p].close = 0

-----------------------------------------------------------------------------
(* Every value a variable, a captured local or a history variable takes is of *)
(* its type, so no handler ever calls a cancel function nobody registered or  *)
(* closes a manager the route never had.                                      *)
LEMMA TypeInit == Init => TypeInv
<1> SUFFICES ASSUME Init PROVE TypeInv
  OBVIOUS
<1>1. NoLocals \in Locals
  BY DEF NoLocals, Locals
<1>2. "idle" \in PCs
  BY DEF PCs
<1>3. /\ pc \in [Requests -> PCs]
      /\ loc \in [Requests -> Locals]
  BY <1>1, <1>2 DEF Init
<1>4. /\ seen \in [Runners -> SUBSET {"queued", "startup", "running", "rival"}]
      /\ between \in [Children -> SUBSET Lockers]
  BY DEF Init
<1>5. /\ manager \in 0 .. made
      /\ closed \subseteq 1 .. made
  BY DEF Init
<1>6. /\ mu \in Lockers \cup {None} /\ cancel \in Runners \cup {None}
      /\ done \in Runners \cup {None} /\ ctxDone \subseteq Runners
      /\ cancelPending \in BOOLEAN /\ evicting \in BOOLEAN
      /\ runGeneration \in Nat /\ cancelGeneration \in Nat /\ made \in Nat
  BY DEF Init
<1>7. TypeOK
  BY <1>3, <1>4, <1>5, <1>6, Zenon DEF TypeOK
<1>8. CapturesOK
  BY DEF Init, CapturesOK, NoLocals
<1> QED
  BY <1>7, <1>8 DEF TypeInv

LEMMA Kinds ==
  /\ Runs \subseteq Runners /\ Slashes \subseteq Runners /\ Children \subseteq Runners
  /\ Runners \subseteq Lockers /\ Edits \subseteq Lockers /\ Evicts \subseteq Lockers
  /\ Restores \subseteq Lockers /\ Lockers \subseteq Requests
  /\ Cancels \subseteq Requests /\ Rewinds \subseteq Requests
  BY DEF Runners, Lockers, Requests

LEMMA PhaseType ==
  ASSUME NEW p
  PROVE  Phase(p) \in {"queued", "startup", "running", "none"}
  BY DEF Phase

PublishCancelTypes ==
  /\ cancelPending' \in BOOLEAN
  /\ cancelGeneration' \in Nat
  /\ seen' \in [Runners -> SUBSET {"queued", "startup", "running", "rival"}]

LEMMA PublishType ==
  ASSUME TypeOK, PublishCancel
  PROVE  PublishCancelTypes
  BY PhaseType DEF PublishCancel, PublishCancelTypes, TypeOK

LEMMA BetweenType ==
  ASSUME TypeOK, NEW p \in Lockers, Acquire(p)
  PROVE  between' \in [Children -> SUBSET Lockers] /\ mu' = p
  BY DEF Acquire, TypeOK

(* What a request that forgets its locals is left with. *)
LEMMA ForgetKeeps ==
  ASSUME TypeOK, NEW p \in Requests, Forget(p)
  PROVE  /\ loc' \in [Requests -> Locals]
         /\ loc'[p].close = 0
         /\ \A q \in Requests : q # p => loc'[q] = loc[q]
<1>1. NoLocals \in Locals /\ NoLocals.close = 0
  BY DEF NoLocals, Locals
<1> QED
  BY <1>1 DEF Forget, TypeOK

LEMMA EnsureType ==
  ASSUME TypeOK, EnsureManager
  PROVE  /\ made' \in Nat /\ manager' \in 0 .. made' /\ made <= made'
         /\ closed \subseteq 1 .. made' /\ manager' # 0
  BY DEF EnsureManager, TypeOK

LEMMA ChildLocals ==
  ASSUME NEW l \in Locals, NEW g \in Nat, NEW h \in Nat, NEW d \in Runners \cup {None}
  PROVE  [l EXCEPT !.gen = g, !.cgen = h, !.done = d] \in Locals
  BY DEF Locals

LEMMA TypeNext == TypeInv /\ [Next]_vars => TypeInv'
<1> SUFFICES ASSUME TypeInv, [Next]_vars PROVE TypeInv'
  OBVIOUS
<1> USE DEF TypeInv
<1>1. ASSUME NEW p \in Runs \cup Edits, Announce(p) PROVE TypeInv'
  <2>1. loc' \in [Requests -> Locals]
    BY <1>1, Kinds DEF TypeOK, Locals, Announce
  <2>2. pc' \in [Requests -> PCs]
    BY <1>1, Kinds DEF TypeOK, PCs, QueuePCs, Announce, Goto
  <2>3. seen' \in [Runners -> SUBSET {"queued", "startup", "running", "rival"}]
    BY <1>1 DEF TypeOK, Announce
  <2>4. /\ made' \in Nat /\ manager' \in 0 .. made' /\ made <= made'
        /\ closed \subseteq 1 .. made'
    BY <1>1, EnsureType DEF TypeOK, Announce
  <2>5. TypeOK'
    BY <1>1, <2>1, <2>2, <2>3, <2>4 DEF TypeOK, Announce
  <2>6. CapturesOK'
    BY <1>1, <2>4, Kinds DEF TypeOK, CapturesOK, Locals, Announce, Goto
  <2> QED
    BY <2>5, <2>6
<1>2. ASSUME NEW p \in Runs \cup Edits, CancelPrevious(p) PROVE TypeInv'
  BY <1>2, Kinds DEF TypeOK, CapturesOK, CancelPrevious, Goto, PCs, QueuePCs, entry, managers, history
<1>3. ASSUME NEW p \in Runs \cup Edits, AwaitPrevious(p) PROVE TypeInv'
  BY <1>3, Kinds, ForgetKeeps DEF TypeOK, CapturesOK, AwaitPrevious, Goto, PCs, QueuePCs, entry, managers, history
<1>4. ASSUME NEW p \in Runs \cup Edits \cup Evicts \cup Restores, LockMu(p) PROVE TypeInv'
  BY <1>4, Kinds, BetweenType DEF TypeOK, CapturesOK, LockMu, Goto, PCs, StartupPCs, managers
<1>5. ASSUME NEW p \in Runs \cup Edits, Revalidate(p) PROVE TypeInv'
  BY <1>5, Kinds DEF TypeOK, CapturesOK, Revalidate, EnsureManager, Goto, PCs, StartupPCs, history
<1>6. ASSUME NEW p \in Slashes, TryLock(p) PROVE TypeInv'
  <2>1. pc' \in [Requests -> PCs]
    BY <1>6, Kinds DEF TypeOK, PCs, StartupPCs, TryLock, Goto
  <2>2. /\ made' \in Nat /\ manager' \in 0 .. made' /\ made <= made'
        /\ closed \subseteq 1 .. made'
    BY <1>6, EnsureType DEF TryLock
  <2>3. between' \in [Children -> SUBSET Lockers] /\ mu' \in Lockers
    BY <1>6, BetweenType, Kinds DEF TryLock
  <2>4. TypeOK'
    BY <1>6, <2>1, <2>2, <2>3 DEF TypeOK, TryLock
  <2>5. CapturesOK'
    BY <1>6, <2>2, Kinds DEF TypeOK, CapturesOK, Locals, TryLock, Goto
  <2> QED
    BY <2>4, <2>5
<1>7. ASSUME NEW p \in Slashes, TryLockBusy(p) PROVE TypeInv'
  BY <1>7, Kinds DEF TypeOK, CapturesOK, TryLockBusy, EnsureManager, Goto, PCs, history
<1>8. ASSUME NEW c \in Children, DecideChild(c) PROVE TypeInv'
  <2>1. [loc[c] EXCEPT !.gen = runGeneration, !.cgen = cancelGeneration,
                       !.done = done] \in Locals
    BY ChildLocals, Kinds DEF TypeOK
  <2>2. loc' \in [Requests -> Locals]
    BY <1>8, <2>1, Kinds DEF TypeOK, DecideChild
  <2>3. pc' \in [Requests -> PCs]
    BY <1>8, Kinds DEF TypeOK, PCs, QueuePCs, DecideChild, Goto
  <2>4. TypeOK'
    BY <1>8, <2>2, <2>3 DEF TypeOK, DecideChild, entry, managers, history
  <2>5. CapturesOK'
    BY <1>8, Kinds DEF TypeOK, CapturesOK, Locals, DecideChild, Goto, managers
  <2> QED
    BY <2>4, <2>5
<1>9. ASSUME NEW c \in Children, AwaitParent(c) PROVE TypeInv'
  BY <1>9, Kinds DEF TypeOK, CapturesOK, AwaitParent, Goto, PCs, QueuePCs, entry, managers, history
<1>10. ASSUME NEW c \in Children, ChildLock(c) PROVE TypeInv'
  BY <1>10, Kinds, BetweenType DEF TypeOK, CapturesOK, ChildLock, EnsureManager, Goto, PCs, StartupPCs
<1>11. ASSUME NEW c \in Children, ChildRefused(c) PROVE TypeInv'
  BY <1>11, Kinds, ForgetKeeps DEF TypeOK, CapturesOK, ChildRefused, Goto, PCs, entry, managers, history
<1>12. ASSUME NEW c \in Children, ChildAbandons(c) PROVE TypeInv'
  BY <1>12, Kinds, ForgetKeeps DEF TypeOK, CapturesOK, ChildAbandons, Goto, PCs, entry, managers, history
<1>13. ASSUME NEW p \in Runners, PublishRun(p) PROVE TypeInv'
  <2>1. loc' \in [Requests -> Locals]
    <3>1. [loc[p] EXCEPT !.sess = manager] \in Locals
      BY Kinds DEF TypeOK, Locals
    <3> QED
      BY <1>13, <3>1, Kinds DEF TypeOK, PublishRun
  <2>2. pc' \in [Requests -> PCs]
    BY <1>13, Kinds DEF TypeOK, PCs, QueuePCs, StartupPCs, PublishRun, Goto, managers, history
  <2>3. TypeOK'
    BY <1>13, <2>1, <2>2, Kinds DEF TypeOK, CapturesOK, PublishRun, Goto, managers, history
  <2>4. CapturesOK'
    BY <1>13, <2>1, <2>2, Kinds DEF TypeOK, CapturesOK, Locals, PublishRun, Goto, managers, history
  <2> QED
    BY <2>3, <2>4
<1>14. ASSUME NEW p \in Runners, SetRouteCancel(p) PROVE TypeInv'
  BY <1>14, Kinds DEF TypeOK, CapturesOK, SetRouteCancel, Goto, PCs, RunPCs, managers, history
<1>15. ASSUME NEW p \in Runners, OpenInject(p) PROVE TypeInv'
  BY <1>15, Kinds DEF TypeOK, CapturesOK, OpenInject, Goto, PCs, RunPCs, managers, history
<1>16. ASSUME NEW p \in Runners, CloseWindow(p) PROVE TypeInv'
  BY <1>16 DEF TypeOK, CapturesOK, CloseWindow, managers, history
<1>17. ASSUME NEW p \in Runners, EndRun(p) PROVE TypeInv'
  BY <1>17, Kinds DEF TypeOK, CapturesOK, EndRun, Goto, PCs, TeardownPCs, managers, history
<1>18. ASSUME NEW p \in Slashes, ClearRouteRunState(p) PROVE TypeInv'
  BY <1>18, Kinds DEF TypeOK, CapturesOK, ClearRouteRunState, Goto, PCs, TeardownPCs, managers, history
<1>19. ASSUME NEW p \in Runners, CloseDone(p) PROVE TypeInv'
  BY <1>19, Kinds DEF TypeOK, CapturesOK, CloseDone, Goto, PCs, TeardownPCs, entry, managers, history
<1>20. ASSUME NEW p \in Runners \cup Edits, UnlockRoute(p) PROVE TypeInv'
  <2>0. ASSUME NEW m \in Nat, loc' = [loc EXCEPT ![p].close = m]
        PROVE  loc' \in [Requests -> Locals]
    BY <2>0, Kinds, SMTT(20) DEF TypeOK, Locals
  <2>1. loc' \in [Requests -> Locals]
    <3>1. (IF evicting THEN manager ELSE 0) \in Nat
      BY DEF TypeOK
    <3> QED
      BY <1>20, <2>0, <3>1 DEF UnlockRoute
  <2>2. pc' \in [Requests -> PCs]
    BY <1>20, Kinds DEF TypeOK, PCs, UnlockRoute, Goto
  <2>3. manager' \in 0 .. made
    BY <1>20 DEF TypeOK, UnlockRoute
  <2>4. TypeOK'
    BY <1>20, <2>1, <2>2, <2>3 DEF TypeOK, UnlockRoute, managers, history
  <2>5. CapturesOK'
    BY <1>20, Kinds DEF TypeOK, CapturesOK, Locals, UnlockRoute, Goto, managers
  <2> QED
    BY <2>4, <2>5
<1>21. ASSUME NEW p \in Lockers, ReleaseMu(p) PROVE TypeInv'
  <2>1. loc' \in [Requests -> Locals]
    BY <1>21, Kinds DEF TypeOK, Locals, ReleaseMu, Goto, managers, history
  <2>2. pc' \in [Requests -> PCs]
    BY <1>21, Kinds DEF TypeOK, PCs, QueuePCs, StartupPCs, ReleaseMu, Goto, managers, history
  <2>3. TypeOK'
    BY <1>21, <2>1, <2>2, Kinds DEF TypeOK, CapturesOK, ReleaseMu, Goto, managers, history
  <2>4. CapturesOK'
    BY <1>21, <2>1, <2>2, Kinds DEF TypeOK, CapturesOK, Locals, ReleaseMu, Goto, managers, history
  <2> QED
    BY <2>3, <2>4
<1>22. ASSUME NEW p \in Lockers, CloseManager(p) PROVE TypeInv'
  <2>1. loc[p].close \in 1 .. made
    BY <1>22, Kinds, ForgetKeeps DEF TypeOK, CapturesOK, CloseManager
  <2>2. closed' \subseteq 1 .. made
    BY <1>22, <2>1 DEF TypeOK, CloseManager
  <2>3. pc' \in [Requests -> PCs]
    BY <1>22, Kinds DEF TypeOK, PCs, CloseManager, Goto
  <2>4. TypeOK'
    BY <1>22, <2>2, <2>3, Kinds, ForgetKeeps DEF TypeOK, CloseManager, entry, history
  <2>5. CapturesOK'
    BY <1>22, Kinds, ForgetKeeps DEF TypeOK, CapturesOK, CloseManager, Goto
  <2> QED
    BY <2>4, <2>5
<1>23. ASSUME NEW x \in Cancels, CancelRoute(x) PROVE TypeInv'
  <2>1. loc' \in [Requests -> Locals]
    <3>1. loc' = [loc EXCEPT ![x].cancel = cancel]
      BY <1>23 DEF CancelRoute
    <3> QED
      BY <3>1, Kinds DEF TypeOK, Locals
  <2>2. pc' \in [Requests -> PCs]
    BY <1>23, Kinds DEF TypeOK, PCs, CancelRoute, Goto
  <2>3. PublishCancelTypes
    BY <1>23, PublishType DEF CancelRoute
  <2>4. TypeOK'
    BY <1>23, <2>1, <2>2, <2>3 DEF TypeOK, PublishCancelTypes, CancelRoute, managers
  <2>5. CapturesOK'
    BY <1>23, Kinds DEF TypeOK, CapturesOK, Locals, CancelRoute, Goto, managers
  <2> QED
    BY <2>4, <2>5
<1>24. ASSUME NEW x \in Evicts, EvictRoute(x) PROVE TypeInv'
  <2>1. CASE RunActive
    <3>1. loc' \in [Requests -> Locals]
      <4>1. loc' = [loc EXCEPT ![x].cancel = cancel]
        BY <1>24, <2>1 DEF EvictRoute
      <4> QED
        BY <4>1, Kinds DEF TypeOK, Locals
    <3>2. pc' \in [Requests -> PCs]
      BY <1>24, <2>1, Kinds DEF TypeOK, PCs, EvictRoute, Goto
    <3>3. PublishCancelTypes
      BY <1>24, <2>1, PublishType DEF EvictRoute
    <3>4. TypeOK'
      BY <1>24, <2>1, <3>1, <3>2, <3>3 DEF TypeOK, PublishCancelTypes, EvictRoute, managers
    <3>5. CapturesOK'
      BY <1>24, <2>1, Kinds DEF TypeOK, CapturesOK, Locals, EvictRoute, Goto, managers
    <3> QED
      BY <3>4, <3>5
  <2>2. CASE ~RunActive
    BY <1>24, <2>2, Kinds DEF TypeOK, CapturesOK, EvictRoute, Goto, PCs, QueuePCs, managers
  <2> QED
    BY <2>1, <2>2
<1>25. ASSUME NEW x \in Evicts, EvictIdle(x) PROVE TypeInv'
  <2>1. pc' \in [Requests -> PCs]
    BY <1>25, Kinds DEF TypeOK, PCs, EvictIdle, Goto
  <2>2. CASE RunActive
    <3>1. loc' = [loc EXCEPT ![x].cancel = cancel]
      BY <1>25, <2>2 DEF EvictIdle
    <3>2. loc' \in [Requests -> Locals]
      BY <3>1, Kinds DEF TypeOK, Locals
    <3>3. PublishCancelTypes
      BY <1>25, <2>2, PublishType DEF EvictIdle
    <3>4. TypeOK'
      BY <1>25, <2>1, <2>2, <3>2, <3>3 DEF TypeOK, PublishCancelTypes, EvictIdle, managers
    <3>5. CapturesOK'
      BY <1>25, <2>2, <3>1, Kinds DEF TypeOK, CapturesOK, Locals, EvictIdle, Goto, managers
    <3> QED
      BY <3>4, <3>5
  <2>3. CASE ~RunActive
    <3>1. manager \in Nat
      BY DEF TypeOK
    <3>2. loc' = [loc EXCEPT ![x].close = manager]
      BY <1>25, <2>3 DEF EvictIdle
    <3>3. loc' \in [Requests -> Locals]
      BY <3>1, <3>2, Kinds DEF TypeOK, Locals
    <3>4. TypeOK'
      BY <1>25, <2>1, <2>3, <3>3 DEF TypeOK, EvictIdle, managers
    <3>5. CapturesOK'
      BY <1>25, <2>3, Kinds DEF TypeOK, CapturesOK, Locals, EvictIdle, Goto, managers
    <3> QED
      BY <3>4, <3>5
  <2> QED
    BY <2>2, <2>3
<1>26. ASSUME NEW x \in Cancels \cup Evicts, FireCancel(x) PROVE TypeInv'
  BY <1>26, Kinds, ForgetKeeps DEF TypeOK, CapturesOK, FireCancel, Goto, PCs, entry, managers, history
<1>27. CASE UNCHANGED vars
  BY <1>27 DEF TypeOK, CapturesOK, vars, entry, managers, history
<1>28. ASSUME NEW x \in Restores \cup Rewinds, CancelForRestore(x) PROVE TypeInv'
  <2>1. loc' \in [Requests -> Locals]
    BY <1>28, Kinds DEF TypeOK, Locals, CancelForRestore
  <2>2. pc' \in [Requests -> PCs]
    BY <1>28, Kinds DEF TypeOK, PCs, CancelForRestore, Goto
  <2>3. PublishCancelTypes
    BY <1>28, PublishType DEF CancelForRestore
  <2>4. TypeOK'
    BY <1>28, <2>1, <2>2, <2>3 DEF TypeOK, PublishCancelTypes, CancelForRestore, managers
  <2>5. CapturesOK'
    BY <1>28, Kinds DEF TypeOK, CapturesOK, Locals, CancelForRestore, Goto, managers
  <2> QED
    BY <2>4, <2>5
<1>29. ASSUME NEW x \in Restores \cup Rewinds, FireRestore(x) PROVE TypeInv'
  BY <1>29, Kinds DEF TypeOK, CapturesOK, FireRestore, Goto, PCs, QueuePCs, entry, managers, history
<1>30. ASSUME NEW x \in Restores, AwaitRun(x) PROVE TypeInv'
  BY <1>30, Kinds, ForgetKeeps DEF TypeOK, CapturesOK, AwaitRun, Goto, PCs, QueuePCs, entry, managers, history
<1>31. ASSUME NEW x \in Restores, RestoreGivesUp(x) PROVE TypeInv'
  BY <1>31, Kinds, ForgetKeeps DEF TypeOK, CapturesOK, RestoreGivesUp, Goto, PCs, QueuePCs, entry, managers, history
<1>32. ASSUME NEW x \in Restores, SliceSession(x) PROVE TypeInv'
  BY <1>32, Kinds DEF TypeOK, CapturesOK, SliceSession, Goto, PCs, QueuePCs, entry, managers, history
<1>33. ASSUME NEW x \in Rewinds, CutSession(x) PROVE TypeInv'
  BY <1>33, Kinds, ForgetKeeps DEF TypeOK, CapturesOK, CutSession, Goto, PCs, QueuePCs, entry, managers, history
<1> QED
  BY <1>1, <1>2, <1>3, <1>4, <1>5, <1>6, <1>7, <1>8, <1>9, <1>10, <1>11, <1>12, <1>13,
     <1>14, <1>15, <1>16, <1>17, <1>18, <1>19, <1>20, <1>21, <1>22, <1>23, <1>24, <1>25,
     <1>26, <1>27, <1>28, <1>29, <1>30, <1>31, <1>32, <1>33
  DEF Next, Quiet

(* A TypeInv-reachable route never leaves its types: routeEntry's fields, the  *)
(* managers and everything a goroutine carries out of a critical section.      *)
THEOREM TypeCorrect == Spec => []TypeOK
<1>1. Init => TypeInv
  BY TypeInit
<1>2. TypeInv /\ [Next]_vars => TypeInv'
  BY TypeNext
<1>3. TypeInv => TypeOK
  BY DEF TypeInv
<1> QED
  BY <1>1, <1>2, <1>3, PTL DEF Spec

-----------------------------------------------------------------------------
(* The owner of entry.mu is where OwnerInv says, in every handler. *)
LEMMA OwnerInit == Init => OwnerInv
  BY NoneIsNoRequest, Kinds
  DEF Init, OwnerInv, StateOwnedByHolder, HoldsMu, StartupPCs, RunPCs, TeardownPCs

LEMMA OwnerNext == TypeOK /\ OwnerInv /\ [Next]_vars => OwnerInv'
<1> SUFFICES ASSUME TypeOK, OwnerInv, [Next]_vars PROVE OwnerInv'
  OBVIOUS
<1>1. ASSUME NEW p \in Runs \cup Edits, Announce(p) PROVE OwnerInv'
  BY <1>1, Kinds, NoneIsNoRequest DEF TypeOK, OwnerInv, StateOwnedByHolder, HoldsMu, Goto, QueuePCs, StartupPCs, RunPCs, TeardownPCs, Announce
<1>2. ASSUME NEW p \in Runs \cup Edits, CancelPrevious(p) PROVE OwnerInv'
  BY <1>2, Kinds, NoneIsNoRequest DEF TypeOK, OwnerInv, StateOwnedByHolder, HoldsMu, Goto, QueuePCs, StartupPCs, RunPCs, TeardownPCs, CancelPrevious, entry
<1>3. ASSUME NEW p \in Runs \cup Edits, AwaitPrevious(p) PROVE OwnerInv'
  BY <1>3, Kinds, NoneIsNoRequest DEF TypeOK, OwnerInv, StateOwnedByHolder, HoldsMu, Goto, QueuePCs, StartupPCs, RunPCs, TeardownPCs, AwaitPrevious, entry
<1>4. ASSUME NEW p \in Runs \cup Edits \cup Evicts \cup Restores, LockMu(p) PROVE OwnerInv'
  BY <1>4, Kinds, NoneIsNoRequest DEF TypeOK, OwnerInv, StateOwnedByHolder, HoldsMu, Goto, QueuePCs, StartupPCs, RunPCs, TeardownPCs, LockMu, Acquire
<1>5. ASSUME NEW p \in Runs \cup Edits, Revalidate(p) PROVE OwnerInv'
  BY <1>5, Kinds, NoneIsNoRequest DEF TypeOK, OwnerInv, StateOwnedByHolder, HoldsMu, Goto, QueuePCs, StartupPCs, RunPCs, TeardownPCs, Revalidate
<1>6. ASSUME NEW p \in Slashes, TryLock(p) PROVE OwnerInv'
  BY <1>6, Kinds, NoneIsNoRequest DEF TypeOK, OwnerInv, StateOwnedByHolder, HoldsMu, Goto, QueuePCs, StartupPCs, RunPCs, TeardownPCs, TryLock, Acquire
<1>7. ASSUME NEW p \in Slashes, TryLockBusy(p) PROVE OwnerInv'
  BY <1>7, Kinds, NoneIsNoRequest DEF TypeOK, OwnerInv, StateOwnedByHolder, HoldsMu, Goto, QueuePCs, StartupPCs, RunPCs, TeardownPCs, TryLockBusy
<1>8. ASSUME NEW c \in Children, DecideChild(c) PROVE OwnerInv'
  BY <1>8, Kinds, NoneIsNoRequest DEF TypeOK, OwnerInv, StateOwnedByHolder, HoldsMu, Goto, QueuePCs, StartupPCs, RunPCs, TeardownPCs, DecideChild, entry
<1>9. ASSUME NEW c \in Children, AwaitParent(c) PROVE OwnerInv'
  BY <1>9, Kinds, NoneIsNoRequest DEF TypeOK, OwnerInv, StateOwnedByHolder, HoldsMu, Goto, QueuePCs, StartupPCs, RunPCs, TeardownPCs, AwaitParent, entry
<1>10. ASSUME NEW c \in Children, ChildLock(c) PROVE OwnerInv'
  BY <1>10, Kinds, NoneIsNoRequest DEF TypeOK, OwnerInv, StateOwnedByHolder, HoldsMu, Goto, QueuePCs, StartupPCs, RunPCs, TeardownPCs, ChildLock, Acquire
<1>11. ASSUME NEW c \in Children, ChildRefused(c) PROVE OwnerInv'
  BY <1>11, Kinds, NoneIsNoRequest DEF TypeOK, OwnerInv, StateOwnedByHolder, HoldsMu, Goto, QueuePCs, StartupPCs, RunPCs, TeardownPCs, ChildRefused, entry
<1>12. ASSUME NEW c \in Children, ChildAbandons(c) PROVE OwnerInv'
  BY <1>12, Kinds, NoneIsNoRequest DEF TypeOK, OwnerInv, StateOwnedByHolder, HoldsMu, Goto, QueuePCs, StartupPCs, RunPCs, TeardownPCs, ChildAbandons, entry
<1>13. ASSUME NEW p \in Runners, PublishRun(p) PROVE OwnerInv'
  BY <1>13, Kinds, NoneIsNoRequest DEF TypeOK, OwnerInv, StateOwnedByHolder, HoldsMu, Goto, QueuePCs, StartupPCs, RunPCs, TeardownPCs, PublishRun
<1>14. ASSUME NEW p \in Runners, SetRouteCancel(p) PROVE OwnerInv'
  BY <1>14, Kinds, NoneIsNoRequest DEF TypeOK, OwnerInv, StateOwnedByHolder, HoldsMu, Goto, QueuePCs, StartupPCs, RunPCs, TeardownPCs, SetRouteCancel
<1>15. ASSUME NEW p \in Runners, OpenInject(p) PROVE OwnerInv'
  BY <1>15, Kinds, NoneIsNoRequest DEF TypeOK, OwnerInv, StateOwnedByHolder, HoldsMu, Goto, QueuePCs, StartupPCs, RunPCs, TeardownPCs, OpenInject
<1>16. ASSUME NEW p \in Runners, CloseWindow(p) PROVE OwnerInv'
  BY <1>16, Kinds, NoneIsNoRequest DEF TypeOK, OwnerInv, StateOwnedByHolder, HoldsMu, Goto, QueuePCs, StartupPCs, RunPCs, TeardownPCs, CloseWindow
<1>17. ASSUME NEW p \in Runners, EndRun(p) PROVE OwnerInv'
  BY <1>17, Kinds, NoneIsNoRequest DEF TypeOK, OwnerInv, StateOwnedByHolder, HoldsMu, Goto, QueuePCs, StartupPCs, RunPCs, TeardownPCs, EndRun
<1>18. ASSUME NEW p \in Slashes, ClearRouteRunState(p) PROVE OwnerInv'
  BY <1>18, Kinds, NoneIsNoRequest DEF TypeOK, OwnerInv, StateOwnedByHolder, HoldsMu, Goto, QueuePCs, StartupPCs, RunPCs, TeardownPCs, ClearRouteRunState
<1>19. ASSUME NEW p \in Runners, CloseDone(p) PROVE OwnerInv'
  BY <1>19, Kinds, NoneIsNoRequest DEF TypeOK, OwnerInv, StateOwnedByHolder, HoldsMu, Goto, QueuePCs, StartupPCs, RunPCs, TeardownPCs, CloseDone, entry
<1>20. ASSUME NEW p \in Runners \cup Edits, UnlockRoute(p) PROVE OwnerInv'
  BY <1>20, Kinds, NoneIsNoRequest DEF TypeOK, OwnerInv, StateOwnedByHolder, HoldsMu, Goto, QueuePCs, StartupPCs, RunPCs, TeardownPCs, UnlockRoute
<1>21. ASSUME NEW p \in Lockers, ReleaseMu(p) PROVE OwnerInv'
  BY <1>21, Kinds, NoneIsNoRequest DEF TypeOK, OwnerInv, StateOwnedByHolder, HoldsMu, Goto, QueuePCs, StartupPCs, RunPCs, TeardownPCs, ReleaseMu
<1>22. ASSUME NEW p \in Lockers, CloseManager(p) PROVE OwnerInv'
  BY <1>22, Kinds, NoneIsNoRequest DEF TypeOK, OwnerInv, StateOwnedByHolder, HoldsMu, Goto, QueuePCs, StartupPCs, RunPCs, TeardownPCs, CloseManager, entry
<1>23. ASSUME NEW x \in Cancels, CancelRoute(x) PROVE OwnerInv'
  BY <1>23, Kinds, NoneIsNoRequest DEF TypeOK, OwnerInv, StateOwnedByHolder, HoldsMu, Goto, QueuePCs, StartupPCs, RunPCs, TeardownPCs, CancelRoute
<1>24. ASSUME NEW x \in Evicts, EvictRoute(x) PROVE OwnerInv'
  BY <1>24, Kinds, NoneIsNoRequest DEF TypeOK, OwnerInv, StateOwnedByHolder, HoldsMu, Goto, QueuePCs, StartupPCs, RunPCs, TeardownPCs, EvictRoute
<1>25. ASSUME NEW x \in Evicts, EvictIdle(x) PROVE OwnerInv'
  BY <1>25, Kinds, NoneIsNoRequest DEF TypeOK, OwnerInv, StateOwnedByHolder, HoldsMu, Goto, QueuePCs, StartupPCs, RunPCs, TeardownPCs, EvictIdle, RunActive
<1>26. ASSUME NEW x \in Cancels \cup Evicts, FireCancel(x) PROVE OwnerInv'
  BY <1>26, Kinds, NoneIsNoRequest DEF TypeOK, OwnerInv, StateOwnedByHolder, HoldsMu, Goto, QueuePCs, StartupPCs, RunPCs, TeardownPCs, FireCancel, entry
<1>27. CASE UNCHANGED vars
  BY <1>27 DEF TypeOK, OwnerInv, StateOwnedByHolder, HoldsMu, Goto, QueuePCs, StartupPCs, RunPCs, TeardownPCs, vars, entry
<1>28. ASSUME NEW x \in Restores \cup Rewinds, CancelForRestore(x) PROVE OwnerInv'
  BY <1>28, Kinds, NoneIsNoRequest DEF TypeOK, OwnerInv, StateOwnedByHolder, HoldsMu, Goto, QueuePCs, StartupPCs, RunPCs, TeardownPCs, CancelForRestore
<1>29. ASSUME NEW x \in Restores \cup Rewinds, FireRestore(x) PROVE OwnerInv'
  BY <1>29, Kinds, NoneIsNoRequest DEF TypeOK, OwnerInv, StateOwnedByHolder, HoldsMu, Goto, QueuePCs, StartupPCs, RunPCs, TeardownPCs, FireRestore, entry
<1>30. ASSUME NEW x \in Restores, AwaitRun(x) PROVE OwnerInv'
  BY <1>30, Kinds, NoneIsNoRequest DEF TypeOK, OwnerInv, StateOwnedByHolder, HoldsMu, Goto, QueuePCs, StartupPCs, RunPCs, TeardownPCs, AwaitRun, entry
<1>31. ASSUME NEW x \in Restores, RestoreGivesUp(x) PROVE OwnerInv'
  BY <1>31, Kinds, NoneIsNoRequest DEF TypeOK, OwnerInv, StateOwnedByHolder, HoldsMu, Goto, QueuePCs, StartupPCs, RunPCs, TeardownPCs, RestoreGivesUp, entry
<1>32. ASSUME NEW x \in Restores, SliceSession(x) PROVE OwnerInv'
  BY <1>32, Kinds, NoneIsNoRequest DEF TypeOK, OwnerInv, StateOwnedByHolder, HoldsMu, Goto, QueuePCs, StartupPCs, RunPCs, TeardownPCs, SliceSession, entry
<1>33. ASSUME NEW x \in Rewinds, CutSession(x) PROVE OwnerInv'
  BY <1>33, Kinds, NoneIsNoRequest DEF TypeOK, OwnerInv, StateOwnedByHolder, HoldsMu, Goto, QueuePCs, StartupPCs, RunPCs, TeardownPCs, CutSession, entry
<1> QED
  BY <1>1, <1>2, <1>3, <1>4, <1>5, <1>6, <1>7, <1>8, <1>9, <1>10, <1>11, <1>12, <1>13,
     <1>14, <1>15, <1>16, <1>17, <1>18, <1>19, <1>20, <1>21, <1>22, <1>23, <1>24,
     <1>25, <1>26, <1>27, <1>28, <1>29, <1>30, <1>31, <1>32, <1>33
  DEF Next, Quiet

-----------------------------------------------------------------------------
(* A deferred eviction never outlives the run that must carry it out. *)
LEMMA EvictionNext ==
  TypeOK /\ OwnerInv /\ EvictionHasFinisher /\ [Next]_vars => EvictionHasFinisher'
<1> SUFFICES ASSUME TypeOK, OwnerInv, EvictionHasFinisher, [Next]_vars
             PROVE  EvictionHasFinisher'
  OBVIOUS
<1>1. ASSUME NEW p \in Runs \cup Edits, Announce(p) PROVE EvictionHasFinisher'
  BY <1>1, Kinds, NoneIsNoRequest DEF TypeOK, OwnerInv, StateOwnedByHolder, HoldsMu, EvictionHasFinisher, Goto, QueuePCs, StartupPCs, RunPCs, TeardownPCs, Announce
<1>2. ASSUME NEW p \in Runs \cup Edits, CancelPrevious(p) PROVE EvictionHasFinisher'
  BY <1>2, Kinds, NoneIsNoRequest DEF TypeOK, OwnerInv, StateOwnedByHolder, HoldsMu, EvictionHasFinisher, Goto, QueuePCs, StartupPCs, RunPCs, TeardownPCs, CancelPrevious, entry
<1>3. ASSUME NEW p \in Runs \cup Edits, AwaitPrevious(p) PROVE EvictionHasFinisher'
  BY <1>3, Kinds, NoneIsNoRequest DEF TypeOK, OwnerInv, StateOwnedByHolder, HoldsMu, EvictionHasFinisher, Goto, QueuePCs, StartupPCs, RunPCs, TeardownPCs, AwaitPrevious, entry
<1>4. ASSUME NEW p \in Runs \cup Edits \cup Evicts \cup Restores, LockMu(p) PROVE EvictionHasFinisher'
  BY <1>4, Kinds, NoneIsNoRequest DEF TypeOK, OwnerInv, StateOwnedByHolder, HoldsMu, EvictionHasFinisher, Goto, QueuePCs, StartupPCs, RunPCs, TeardownPCs, LockMu, Acquire
<1>5. ASSUME NEW p \in Runs \cup Edits, Revalidate(p) PROVE EvictionHasFinisher'
  BY <1>5, Kinds, NoneIsNoRequest DEF TypeOK, OwnerInv, StateOwnedByHolder, HoldsMu, EvictionHasFinisher, Goto, QueuePCs, StartupPCs, RunPCs, TeardownPCs, Revalidate
<1>6. ASSUME NEW p \in Slashes, TryLock(p) PROVE EvictionHasFinisher'
  BY <1>6, Kinds, NoneIsNoRequest DEF TypeOK, OwnerInv, StateOwnedByHolder, HoldsMu, EvictionHasFinisher, Goto, QueuePCs, StartupPCs, RunPCs, TeardownPCs, TryLock, Acquire
<1>7. ASSUME NEW p \in Slashes, TryLockBusy(p) PROVE EvictionHasFinisher'
  BY <1>7, Kinds, NoneIsNoRequest DEF TypeOK, OwnerInv, StateOwnedByHolder, HoldsMu, EvictionHasFinisher, Goto, QueuePCs, StartupPCs, RunPCs, TeardownPCs, TryLockBusy
<1>8. ASSUME NEW c \in Children, DecideChild(c) PROVE EvictionHasFinisher'
  BY <1>8, Kinds, NoneIsNoRequest DEF TypeOK, OwnerInv, StateOwnedByHolder, HoldsMu, EvictionHasFinisher, Goto, QueuePCs, StartupPCs, RunPCs, TeardownPCs, DecideChild, entry
<1>9. ASSUME NEW c \in Children, AwaitParent(c) PROVE EvictionHasFinisher'
  BY <1>9, Kinds, NoneIsNoRequest DEF TypeOK, OwnerInv, StateOwnedByHolder, HoldsMu, EvictionHasFinisher, Goto, QueuePCs, StartupPCs, RunPCs, TeardownPCs, AwaitParent, entry
<1>10. ASSUME NEW c \in Children, ChildLock(c) PROVE EvictionHasFinisher'
  BY <1>10, Kinds, NoneIsNoRequest DEF TypeOK, OwnerInv, StateOwnedByHolder, HoldsMu, EvictionHasFinisher, Goto, QueuePCs, StartupPCs, RunPCs, TeardownPCs, ChildLock, Acquire
<1>11. ASSUME NEW c \in Children, ChildRefused(c) PROVE EvictionHasFinisher'
  BY <1>11, Kinds, NoneIsNoRequest DEF TypeOK, OwnerInv, StateOwnedByHolder, HoldsMu, EvictionHasFinisher, Goto, QueuePCs, StartupPCs, RunPCs, TeardownPCs, ChildRefused, entry
<1>12. ASSUME NEW c \in Children, ChildAbandons(c) PROVE EvictionHasFinisher'
  BY <1>12, Kinds, NoneIsNoRequest DEF TypeOK, OwnerInv, StateOwnedByHolder, HoldsMu, EvictionHasFinisher, Goto, QueuePCs, StartupPCs, RunPCs, TeardownPCs, ChildAbandons, entry
<1>13. ASSUME NEW p \in Runners, PublishRun(p) PROVE EvictionHasFinisher'
  BY <1>13, Kinds, NoneIsNoRequest DEF TypeOK, OwnerInv, StateOwnedByHolder, HoldsMu, EvictionHasFinisher, Goto, QueuePCs, StartupPCs, RunPCs, TeardownPCs, PublishRun
<1>14. ASSUME NEW p \in Runners, SetRouteCancel(p) PROVE EvictionHasFinisher'
  BY <1>14, Kinds, NoneIsNoRequest DEF TypeOK, OwnerInv, StateOwnedByHolder, HoldsMu, EvictionHasFinisher, Goto, QueuePCs, StartupPCs, RunPCs, TeardownPCs, SetRouteCancel
<1>15. ASSUME NEW p \in Runners, OpenInject(p) PROVE EvictionHasFinisher'
  BY <1>15, Kinds, NoneIsNoRequest DEF TypeOK, OwnerInv, StateOwnedByHolder, HoldsMu, EvictionHasFinisher, Goto, QueuePCs, StartupPCs, RunPCs, TeardownPCs, OpenInject
<1>16. ASSUME NEW p \in Runners, CloseWindow(p) PROVE EvictionHasFinisher'
  BY <1>16, Kinds, NoneIsNoRequest DEF TypeOK, OwnerInv, StateOwnedByHolder, HoldsMu, EvictionHasFinisher, Goto, QueuePCs, StartupPCs, RunPCs, TeardownPCs, CloseWindow
<1>17. ASSUME NEW p \in Runners, EndRun(p) PROVE EvictionHasFinisher'
  BY <1>17, Kinds, NoneIsNoRequest DEF TypeOK, OwnerInv, StateOwnedByHolder, HoldsMu, EvictionHasFinisher, Goto, QueuePCs, StartupPCs, RunPCs, TeardownPCs, EndRun
<1>18. ASSUME NEW p \in Slashes, ClearRouteRunState(p) PROVE EvictionHasFinisher'
  BY <1>18, Kinds, NoneIsNoRequest DEF TypeOK, OwnerInv, StateOwnedByHolder, HoldsMu, EvictionHasFinisher, Goto, QueuePCs, StartupPCs, RunPCs, TeardownPCs, ClearRouteRunState
<1>19. ASSUME NEW p \in Runners, CloseDone(p) PROVE EvictionHasFinisher'
  BY <1>19, Kinds, NoneIsNoRequest DEF TypeOK, OwnerInv, StateOwnedByHolder, HoldsMu, EvictionHasFinisher, Goto, QueuePCs, StartupPCs, RunPCs, TeardownPCs, CloseDone, entry
<1>20. ASSUME NEW p \in Runners \cup Edits, UnlockRoute(p) PROVE EvictionHasFinisher'
  BY <1>20, Kinds, NoneIsNoRequest DEF TypeOK, OwnerInv, StateOwnedByHolder, HoldsMu, EvictionHasFinisher, Goto, QueuePCs, StartupPCs, RunPCs, TeardownPCs, UnlockRoute
<1>21. ASSUME NEW p \in Lockers, ReleaseMu(p) PROVE EvictionHasFinisher'
  BY <1>21, Kinds, NoneIsNoRequest DEF TypeOK, OwnerInv, StateOwnedByHolder, HoldsMu, EvictionHasFinisher, Goto, QueuePCs, StartupPCs, RunPCs, TeardownPCs, ReleaseMu
<1>22. ASSUME NEW p \in Lockers, CloseManager(p) PROVE EvictionHasFinisher'
  BY <1>22, Kinds, NoneIsNoRequest DEF TypeOK, OwnerInv, StateOwnedByHolder, HoldsMu, EvictionHasFinisher, Goto, QueuePCs, StartupPCs, RunPCs, TeardownPCs, CloseManager, entry
<1>23. ASSUME NEW x \in Cancels, CancelRoute(x) PROVE EvictionHasFinisher'
  BY <1>23, Kinds, NoneIsNoRequest DEF TypeOK, OwnerInv, StateOwnedByHolder, HoldsMu, EvictionHasFinisher, Goto, QueuePCs, StartupPCs, RunPCs, TeardownPCs, CancelRoute
<1>24. ASSUME NEW x \in Evicts, EvictRoute(x) PROVE EvictionHasFinisher'
  BY <1>24, Kinds, NoneIsNoRequest DEF TypeOK, OwnerInv, StateOwnedByHolder, HoldsMu, EvictionHasFinisher, Goto, QueuePCs, StartupPCs, RunPCs, TeardownPCs, EvictRoute, RunActive
<1>25. ASSUME NEW x \in Evicts, EvictIdle(x) PROVE EvictionHasFinisher'
  BY <1>25, Kinds, NoneIsNoRequest DEF TypeOK, OwnerInv, StateOwnedByHolder, HoldsMu, EvictionHasFinisher, Goto, QueuePCs, StartupPCs, RunPCs, TeardownPCs, EvictIdle, RunActive
<1>26. ASSUME NEW x \in Cancels \cup Evicts, FireCancel(x) PROVE EvictionHasFinisher'
  BY <1>26, Kinds, NoneIsNoRequest DEF TypeOK, OwnerInv, StateOwnedByHolder, HoldsMu, EvictionHasFinisher, Goto, QueuePCs, StartupPCs, RunPCs, TeardownPCs, FireCancel, entry
<1>27. CASE UNCHANGED vars
  BY <1>27 DEF TypeOK, OwnerInv, StateOwnedByHolder, HoldsMu, EvictionHasFinisher, Goto, QueuePCs, StartupPCs, RunPCs, TeardownPCs, vars, entry, managers
<1>28. ASSUME NEW x \in Restores \cup Rewinds, CancelForRestore(x) PROVE EvictionHasFinisher'
  BY <1>28, Kinds, NoneIsNoRequest DEF TypeOK, OwnerInv, StateOwnedByHolder, HoldsMu, EvictionHasFinisher, Goto, QueuePCs, StartupPCs, RunPCs, TeardownPCs, CancelForRestore
<1>29. ASSUME NEW x \in Restores \cup Rewinds, FireRestore(x) PROVE EvictionHasFinisher'
  BY <1>29, Kinds, NoneIsNoRequest DEF TypeOK, OwnerInv, StateOwnedByHolder, HoldsMu, EvictionHasFinisher, Goto, QueuePCs, StartupPCs, RunPCs, TeardownPCs, FireRestore, entry
<1>30. ASSUME NEW x \in Restores, AwaitRun(x) PROVE EvictionHasFinisher'
  BY <1>30, Kinds, NoneIsNoRequest DEF TypeOK, OwnerInv, StateOwnedByHolder, HoldsMu, EvictionHasFinisher, Goto, QueuePCs, StartupPCs, RunPCs, TeardownPCs, AwaitRun, entry
<1>31. ASSUME NEW x \in Restores, RestoreGivesUp(x) PROVE EvictionHasFinisher'
  BY <1>31, Kinds, NoneIsNoRequest DEF TypeOK, OwnerInv, StateOwnedByHolder, HoldsMu, EvictionHasFinisher, Goto, QueuePCs, StartupPCs, RunPCs, TeardownPCs, RestoreGivesUp, entry
<1>32. ASSUME NEW x \in Restores, SliceSession(x) PROVE EvictionHasFinisher'
  BY <1>32, Kinds, NoneIsNoRequest DEF TypeOK, OwnerInv, StateOwnedByHolder, HoldsMu, EvictionHasFinisher, Goto, QueuePCs, StartupPCs, RunPCs, TeardownPCs, SliceSession, entry
<1>33. ASSUME NEW x \in Rewinds, CutSession(x) PROVE EvictionHasFinisher'
  BY <1>33, Kinds, NoneIsNoRequest DEF TypeOK, OwnerInv, StateOwnedByHolder, HoldsMu, EvictionHasFinisher, Goto, QueuePCs, StartupPCs, RunPCs, TeardownPCs, CutSession, entry
<1> QED
  BY <1>1, <1>2, <1>3, <1>4, <1>5, <1>6, <1>7, <1>8, <1>9, <1>10, <1>11, <1>12, <1>13,
     <1>14, <1>15, <1>16, <1>17, <1>18, <1>19, <1>20, <1>21, <1>22, <1>23, <1>24,
     <1>25, <1>26, <1>27, <1>28, <1>29, <1>30, <1>31, <1>32, <1>33
  DEF Next, Quiet

-----------------------------------------------------------------------------
(* Managers are created once, closed once, and never under their user. *)
LEMMA ManagerNext ==
  TypeInv /\ OwnerInv /\ ManagerInv /\ [Next]_vars => ManagerInv'
<1> SUFFICES ASSUME TypeInv, OwnerInv, ManagerInv, [Next]_vars PROVE ManagerInv'
  OBVIOUS
<1> USE DEF TypeInv
<1>1. ASSUME NEW p \in Runs \cup Edits, Announce(p) PROVE ManagerInv'
  BY <1>1, Kinds, NoneIsNoRequest DEF TypeOK, Locals, CapturesOK, OwnerInv, StateOwnedByHolder, HoldsMu, ManagerInv, ManagerHeldOpen, Goto, QueuePCs, StartupPCs, RunPCs, TeardownPCs, Announce, EnsureManager
<1>2. ASSUME NEW p \in Runs \cup Edits, CancelPrevious(p) PROVE ManagerInv'
  BY <1>2, Kinds, NoneIsNoRequest DEF TypeOK, Locals, CapturesOK, OwnerInv, StateOwnedByHolder, HoldsMu, ManagerInv, ManagerHeldOpen, Goto, QueuePCs, StartupPCs, RunPCs, TeardownPCs, CancelPrevious, entry, managers
<1>3. ASSUME NEW p \in Runs \cup Edits, AwaitPrevious(p) PROVE ManagerInv'
  <2>1. loc'[p].close = 0 /\ \A q \in Requests : q # p => loc'[q] = loc[q]
    BY <1>3, Kinds, ForgetKeeps DEF AwaitPrevious
  <2>2. \A q \in Requests : pc'[q] = IF q = p THEN "wantMu" ELSE pc[q]
    BY <1>3, Kinds DEF TypeOK, AwaitPrevious, Goto
  <2>3. manager' = manager /\ closed' = closed
    BY <1>3 DEF AwaitPrevious, entry, managers
  <2> QED
    BY <2>1, <2>2, <2>3, Kinds DEF ManagerInv, ManagerHeldOpen, RunPCs, TeardownPCs
<1>4. ASSUME NEW p \in Runs \cup Edits \cup Evicts \cup Restores, LockMu(p) PROVE ManagerInv'
  BY <1>4, Kinds, NoneIsNoRequest DEF TypeOK, Locals, CapturesOK, OwnerInv, StateOwnedByHolder, HoldsMu, ManagerInv, ManagerHeldOpen, Goto, QueuePCs, StartupPCs, RunPCs, TeardownPCs, LockMu, Acquire, managers
<1>5. ASSUME NEW p \in Runs \cup Edits, Revalidate(p) PROVE ManagerInv'
  BY <1>5, Kinds, NoneIsNoRequest DEF TypeOK, Locals, CapturesOK, OwnerInv, StateOwnedByHolder, HoldsMu, ManagerInv, ManagerHeldOpen, Goto, QueuePCs, StartupPCs, RunPCs, TeardownPCs, Revalidate, EnsureManager
<1>6. ASSUME NEW p \in Slashes, TryLock(p) PROVE ManagerInv'
  BY <1>6, Kinds, NoneIsNoRequest DEF TypeOK, Locals, CapturesOK, OwnerInv, StateOwnedByHolder, HoldsMu, ManagerInv, ManagerHeldOpen, Goto, QueuePCs, StartupPCs, RunPCs, TeardownPCs, TryLock, Acquire, EnsureManager
<1>7. ASSUME NEW p \in Slashes, TryLockBusy(p) PROVE ManagerInv'
  BY <1>7, Kinds, NoneIsNoRequest DEF TypeOK, Locals, CapturesOK, OwnerInv, StateOwnedByHolder, HoldsMu, ManagerInv, ManagerHeldOpen, Goto, QueuePCs, StartupPCs, RunPCs, TeardownPCs, TryLockBusy, EnsureManager
<1>8. ASSUME NEW c \in Children, DecideChild(c) PROVE ManagerInv'
  BY <1>8, Kinds, NoneIsNoRequest DEF TypeOK, Locals, CapturesOK, OwnerInv, StateOwnedByHolder, HoldsMu, ManagerInv, ManagerHeldOpen, Goto, QueuePCs, StartupPCs, RunPCs, TeardownPCs, DecideChild, entry, managers
<1>9. ASSUME NEW c \in Children, AwaitParent(c) PROVE ManagerInv'
  BY <1>9, Kinds, NoneIsNoRequest DEF TypeOK, Locals, CapturesOK, OwnerInv, StateOwnedByHolder, HoldsMu, ManagerInv, ManagerHeldOpen, Goto, QueuePCs, StartupPCs, RunPCs, TeardownPCs, AwaitParent, entry, managers
<1>10. ASSUME NEW c \in Children, ChildLock(c) PROVE ManagerInv'
  BY <1>10, Kinds, NoneIsNoRequest DEF TypeOK, Locals, CapturesOK, OwnerInv, StateOwnedByHolder, HoldsMu, ManagerInv, ManagerHeldOpen, Goto, QueuePCs, StartupPCs, RunPCs, TeardownPCs, ChildLock, Acquire, EnsureManager
<1>11. ASSUME NEW c \in Children, ChildRefused(c) PROVE ManagerInv'
  BY <1>11, Kinds, ForgetKeeps, NoneIsNoRequest, SMTT(20) DEF TypeOK, Locals, CapturesOK, OwnerInv, StateOwnedByHolder, HoldsMu, ManagerInv, ManagerHeldOpen, Goto, QueuePCs, StartupPCs, RunPCs, TeardownPCs, ChildRefused, entry, managers
<1>12. ASSUME NEW c \in Children, ChildAbandons(c) PROVE ManagerInv'
  BY <1>12, Kinds, ForgetKeeps, NoneIsNoRequest DEF TypeOK, Locals, CapturesOK, OwnerInv, StateOwnedByHolder, HoldsMu, ManagerInv, ManagerHeldOpen, Goto, QueuePCs, StartupPCs, RunPCs, TeardownPCs, ChildAbandons, entry, managers
<1>13. ASSUME NEW p \in Runners, PublishRun(p) PROVE ManagerInv'
  BY <1>13, Kinds, NoneIsNoRequest DEF TypeOK, Locals, CapturesOK, OwnerInv, StateOwnedByHolder, HoldsMu, ManagerInv, ManagerHeldOpen, Goto, QueuePCs, StartupPCs, RunPCs, TeardownPCs, PublishRun, managers
<1>14. ASSUME NEW p \in Runners, SetRouteCancel(p) PROVE ManagerInv'
  BY <1>14, Kinds, NoneIsNoRequest DEF TypeOK, Locals, CapturesOK, OwnerInv, StateOwnedByHolder, HoldsMu, ManagerInv, ManagerHeldOpen, Goto, QueuePCs, StartupPCs, RunPCs, TeardownPCs, SetRouteCancel, managers
<1>15. ASSUME NEW p \in Runners, OpenInject(p) PROVE ManagerInv'
  BY <1>15, Kinds, NoneIsNoRequest DEF TypeOK, Locals, CapturesOK, OwnerInv, StateOwnedByHolder, HoldsMu, ManagerInv, ManagerHeldOpen, Goto, QueuePCs, StartupPCs, RunPCs, TeardownPCs, OpenInject, managers
<1>16. ASSUME NEW p \in Runners, CloseWindow(p) PROVE ManagerInv'
  BY <1>16, Kinds, NoneIsNoRequest DEF TypeOK, Locals, CapturesOK, OwnerInv, StateOwnedByHolder, HoldsMu, ManagerInv, ManagerHeldOpen, Goto, QueuePCs, StartupPCs, RunPCs, TeardownPCs, CloseWindow, managers
<1>17. ASSUME NEW p \in Runners, EndRun(p) PROVE ManagerInv'
  BY <1>17, Kinds, NoneIsNoRequest DEF TypeOK, Locals, CapturesOK, OwnerInv, StateOwnedByHolder, HoldsMu, ManagerInv, ManagerHeldOpen, Goto, QueuePCs, StartupPCs, RunPCs, TeardownPCs, EndRun, managers
<1>18. ASSUME NEW p \in Slashes, ClearRouteRunState(p) PROVE ManagerInv'
  BY <1>18, Kinds, NoneIsNoRequest DEF TypeOK, Locals, CapturesOK, OwnerInv, StateOwnedByHolder, HoldsMu, ManagerInv, ManagerHeldOpen, Goto, QueuePCs, StartupPCs, RunPCs, TeardownPCs, ClearRouteRunState, managers
<1>19. ASSUME NEW p \in Runners, CloseDone(p) PROVE ManagerInv'
  BY <1>19, Kinds, NoneIsNoRequest DEF TypeOK, Locals, CapturesOK, OwnerInv, StateOwnedByHolder, HoldsMu, ManagerInv, ManagerHeldOpen, Goto, QueuePCs, StartupPCs, RunPCs, TeardownPCs, CloseDone, entry, managers
<1>20. ASSUME NEW p \in Runners \cup Edits, UnlockRoute(p) PROVE ManagerInv'
  BY <1>20, Kinds, NoneIsNoRequest DEF TypeOK, Locals, CapturesOK, OwnerInv, StateOwnedByHolder, HoldsMu, ManagerInv, ManagerHeldOpen, Goto, QueuePCs, StartupPCs, RunPCs, TeardownPCs, UnlockRoute, managers
<1>21. ASSUME NEW p \in Lockers, ReleaseMu(p) PROVE ManagerInv'
  BY <1>21, Kinds, NoneIsNoRequest DEF TypeOK, Locals, CapturesOK, OwnerInv, StateOwnedByHolder, HoldsMu, ManagerInv, ManagerHeldOpen, Goto, QueuePCs, StartupPCs, RunPCs, TeardownPCs, ReleaseMu, managers
<1>22. ASSUME NEW p \in Lockers, CloseManager(p) PROVE ManagerInv'
  <2>1. loc[p].close # manager
    BY <1>22, Kinds DEF CapturesOK, ManagerInv, CloseManager
  <2>2. manager' = manager /\ manager' \notin closed'
    BY <1>22, <2>1 DEF ManagerInv, CloseManager, entry
  <2>3. /\ loc'[p].close = 0
        /\ \A q \in Requests : q # p => loc'[q] = loc[q]
    BY <1>22, Kinds, ForgetKeeps DEF CloseManager
  <2>4. pc' = [pc EXCEPT ![p] = "gone"]
    BY <1>22 DEF CloseManager, Goto
  <2>5. manager' # 0 => \A q \in Requests : loc'[q].close # manager'
    BY <2>2, <2>3 DEF ManagerInv
  <2>6. \A q \in Runners : pc'[q] # "gone" => q # p /\ pc'[q] = pc[q] /\ loc'[q] = loc[q]
    BY <2>3, <2>4, Kinds DEF TypeOK
  <2>7. ManagerHeldOpen'
    BY <2>2, <2>6 DEF ManagerInv, ManagerHeldOpen, RunPCs, TeardownPCs
  <2>8. \A q \in Runners : pc'[q] = "publish" => manager' # 0
    BY <2>2, <2>6 DEF ManagerInv
  <2> QED
    BY <2>2, <2>5, <2>7, <2>8 DEF ManagerInv
<1>23. ASSUME NEW x \in Cancels, CancelRoute(x) PROVE ManagerInv'
  BY <1>23, Kinds, NoneIsNoRequest DEF TypeOK, Locals, CapturesOK, OwnerInv, StateOwnedByHolder, HoldsMu, ManagerInv, ManagerHeldOpen, Goto, QueuePCs, StartupPCs, RunPCs, TeardownPCs, CancelRoute, managers
<1>24. ASSUME NEW x \in Evicts, EvictRoute(x) PROVE ManagerInv'
  BY <1>24, Kinds, NoneIsNoRequest, SMTT(20) DEF TypeOK, Locals, CapturesOK, OwnerInv, StateOwnedByHolder, HoldsMu, ManagerInv, ManagerHeldOpen, Goto, QueuePCs, StartupPCs, RunPCs, TeardownPCs, EvictRoute, managers
<1>25. ASSUME NEW x \in Evicts, EvictIdle(x) PROVE ManagerInv'
  BY <1>25, Kinds, NoneIsNoRequest DEF TypeOK, Locals, CapturesOK, OwnerInv, StateOwnedByHolder, HoldsMu, ManagerInv, ManagerHeldOpen, Goto, QueuePCs, StartupPCs, RunPCs, TeardownPCs, EvictIdle, RunActive, managers
<1>26. ASSUME NEW x \in Cancels \cup Evicts, FireCancel(x) PROVE ManagerInv'
  BY <1>26, Kinds, ForgetKeeps, NoneIsNoRequest DEF TypeOK, Locals, CapturesOK, OwnerInv, StateOwnedByHolder, HoldsMu, ManagerInv, ManagerHeldOpen, Goto, QueuePCs, StartupPCs, RunPCs, TeardownPCs, FireCancel, entry, managers
<1>27. CASE UNCHANGED vars
  BY <1>27 DEF TypeOK, Locals, CapturesOK, OwnerInv, StateOwnedByHolder, HoldsMu, ManagerInv, ManagerHeldOpen, Goto, QueuePCs, StartupPCs, RunPCs, TeardownPCs, vars, entry, managers
<1>28. ASSUME NEW x \in Restores \cup Rewinds, CancelForRestore(x) PROVE ManagerInv'
  BY <1>28, Kinds, NoneIsNoRequest DEF TypeOK, Locals, CapturesOK, OwnerInv, StateOwnedByHolder, HoldsMu, ManagerInv, ManagerHeldOpen, Goto, QueuePCs, StartupPCs, RunPCs, TeardownPCs, CancelForRestore, managers
<1>29. ASSUME NEW x \in Restores \cup Rewinds, FireRestore(x) PROVE ManagerInv'
  BY <1>29, Kinds, NoneIsNoRequest DEF TypeOK, Locals, CapturesOK, OwnerInv, StateOwnedByHolder, HoldsMu, ManagerInv, ManagerHeldOpen, Goto, QueuePCs, StartupPCs, RunPCs, TeardownPCs, FireRestore, entry, managers
<1>30. ASSUME NEW x \in Restores, AwaitRun(x) PROVE ManagerInv'
  BY <1>30, Kinds, ForgetKeeps, NoneIsNoRequest DEF TypeOK, Locals, CapturesOK, OwnerInv, StateOwnedByHolder, HoldsMu, ManagerInv, ManagerHeldOpen, Goto, QueuePCs, StartupPCs, RunPCs, TeardownPCs, AwaitRun, entry, managers
<1>31. ASSUME NEW x \in Restores, RestoreGivesUp(x) PROVE ManagerInv'
  BY <1>31, Kinds, ForgetKeeps, NoneIsNoRequest DEF TypeOK, Locals, CapturesOK, OwnerInv, StateOwnedByHolder, HoldsMu, ManagerInv, ManagerHeldOpen, Goto, QueuePCs, StartupPCs, RunPCs, TeardownPCs, RestoreGivesUp, entry, managers
<1>32. ASSUME NEW x \in Restores, SliceSession(x) PROVE ManagerInv'
  BY <1>32, Kinds, NoneIsNoRequest DEF TypeOK, Locals, CapturesOK, OwnerInv, StateOwnedByHolder, HoldsMu, ManagerInv, ManagerHeldOpen, Goto, QueuePCs, StartupPCs, RunPCs, TeardownPCs, SliceSession, entry, managers
<1>33. ASSUME NEW x \in Rewinds, CutSession(x) PROVE ManagerInv'
  BY <1>33, Kinds, ForgetKeeps, NoneIsNoRequest DEF TypeOK, Locals, CapturesOK, OwnerInv, StateOwnedByHolder, HoldsMu, ManagerInv, ManagerHeldOpen, Goto, QueuePCs, StartupPCs, RunPCs, TeardownPCs, CutSession, entry, managers
<1> QED
  BY <1>1, <1>2, <1>3, <1>4, <1>5, <1>6, <1>7, <1>8, <1>9, <1>10, <1>11, <1>12, <1>13,
     <1>14, <1>15, <1>16, <1>17, <1>18, <1>19, <1>20, <1>21, <1>22, <1>23, <1>24,
     <1>25, <1>26, <1>27, <1>28, <1>29, <1>30, <1>31, <1>32, <1>33
  DEF Next, Quiet

-----------------------------------------------------------------------------
LEMMA EnsureKeeps ==
  ASSUME TypeOK, NoManagerLeak, EnsureManager, closed' = closed,
         \A q \in Lockers : loc'[q].close = loc[q].close
  PROVE  NoManagerLeak'
<1> SUFFICES ASSUME NEW m \in 1 .. made',
                    m # manager', m \notin closed'
             PROVE  \E q \in Lockers : loc'[q].close = m
  BY DEF NoManagerLeak
<1>1. m \in 1 .. made /\ m # manager
  BY DEF EnsureManager, TypeOK
<1> QED
  BY <1>1 DEF NoManagerLeak

(* No manager leaves the route without someone bound to close it. *)
LEMMA LeakNext == TypeInv /\ LeakInv /\ [Next]_vars => LeakInv'
<1> SUFFICES ASSUME TypeInv, LeakInv, [Next]_vars PROVE LeakInv'
  OBVIOUS
<1> USE DEF TypeInv
<1>1. ASSUME NEW p \in Runs \cup Edits, Announce(p) PROVE LeakInv'
  <2>1. \A q \in Lockers : loc'[q].close = loc[q].close
    BY <1>1, Kinds DEF TypeOK, Locals, Announce
  <2>2. NoManagerLeak'
    <3>1. CASE p \in Runs
      BY <1>1, <2>1, <3>1, EnsureKeeps DEF LeakInv, Announce
    <3>2. CASE p \notin Runs
      BY <1>1, <2>1, <3>2 DEF LeakInv, NoManagerLeak, Announce
    <3> QED
      BY <3>1, <3>2
  <2> QED
    BY <1>1, <2>1, <2>2, Kinds DEF TypeOK, LeakInv, Announce, Goto, QueuePCs, StartupPCs
<1>2. ASSUME NEW p \in Runs \cup Edits, CancelPrevious(p) PROVE LeakInv'
  BY <1>2, Kinds DEF TypeOK, Locals, CapturesOK, LeakInv, NoManagerLeak, Goto, QueuePCs, StartupPCs, RunPCs, TeardownPCs, CancelPrevious, entry, managers
<1>3. ASSUME NEW p \in Runs \cup Edits, AwaitPrevious(p) PROVE LeakInv'
  <2>1. \A q \in Lockers : loc'[q].close = loc[q].close
    BY <1>3, Kinds, ForgetKeeps DEF LeakInv, AwaitPrevious
  <2> QED
    BY <1>3, <2>1, Kinds DEF TypeOK, LeakInv, NoManagerLeak, AwaitPrevious, Goto, entry, managers
<1>4. ASSUME NEW p \in Runs \cup Edits \cup Evicts \cup Restores, LockMu(p) PROVE LeakInv'
  BY <1>4, Kinds DEF TypeOK, Locals, CapturesOK, LeakInv, NoManagerLeak, Goto, QueuePCs, StartupPCs, RunPCs, TeardownPCs, LockMu, managers
<1>5. ASSUME NEW p \in Runs \cup Edits, Revalidate(p) PROVE LeakInv'
  <2>1. \A q \in Lockers : loc'[q].close = loc[q].close
    BY <1>5, Kinds DEF TypeOK, Locals, Revalidate
  <2>2. NoManagerLeak'
    <3>1. CASE p \in Runs
      BY <1>5, <2>1, <3>1, EnsureKeeps DEF LeakInv, Revalidate
    <3>2. CASE p \notin Runs
      BY <1>5, <2>1, <3>2 DEF LeakInv, NoManagerLeak, Revalidate
    <3> QED
      BY <3>1, <3>2
  <2> QED
    BY <1>5, <2>1, <2>2, Kinds DEF TypeOK, LeakInv, Revalidate, Goto, QueuePCs, StartupPCs
<1>6. ASSUME NEW p \in Slashes, TryLock(p) PROVE LeakInv'
  <2>1. \A q \in Lockers : loc'[q].close = loc[q].close
    BY <1>6, Kinds DEF TypeOK, Locals, TryLock
  <2>2. NoManagerLeak'
    BY <1>6, <2>1, EnsureKeeps DEF LeakInv, TryLock
  <2> QED
    BY <1>6, <2>1, <2>2, Kinds DEF TypeOK, LeakInv, TryLock, Goto, QueuePCs, StartupPCs
<1>7. ASSUME NEW p \in Slashes, TryLockBusy(p) PROVE LeakInv'
  <2>1. \A q \in Lockers : loc'[q].close = loc[q].close
    BY <1>7, Kinds DEF TypeOK, Locals, TryLockBusy
  <2>2. NoManagerLeak'
    BY <1>7, <2>1, EnsureKeeps DEF LeakInv, TryLockBusy
  <2> QED
    BY <1>7, <2>1, <2>2, Kinds DEF TypeOK, LeakInv, TryLockBusy, Goto, QueuePCs, StartupPCs
<1>8. ASSUME NEW c \in Children, DecideChild(c) PROVE LeakInv'
  <2>1. \A q \in Lockers : loc'[q].close = loc[q].close
    BY <1>8, Kinds DEF TypeOK, Locals, DecideChild
  <2> QED
    BY <1>8, <2>1, Kinds, SMTT(20) DEF TypeOK, LeakInv, NoManagerLeak, DecideChild, Goto, entry, managers
<1>9. ASSUME NEW c \in Children, AwaitParent(c) PROVE LeakInv'
  BY <1>9, Kinds DEF TypeOK, Locals, CapturesOK, LeakInv, NoManagerLeak, Goto, QueuePCs, StartupPCs, RunPCs, TeardownPCs, AwaitParent, entry, managers
<1>10. ASSUME NEW c \in Children, ChildLock(c) PROVE LeakInv'
  <2>1. \A q \in Lockers : loc'[q].close = loc[q].close
    BY <1>10, Kinds DEF TypeOK, Locals, ChildLock
  <2>2. NoManagerLeak'
    BY <1>10, <2>1, EnsureKeeps DEF LeakInv, ChildLock
  <2> QED
    BY <1>10, <2>1, <2>2, Kinds DEF TypeOK, LeakInv, ChildLock, Goto, QueuePCs, StartupPCs
<1>11. ASSUME NEW c \in Children, ChildRefused(c) PROVE LeakInv'
  <2>1. \A q \in Lockers : loc'[q].close = loc[q].close
    BY <1>11, Kinds, ForgetKeeps DEF LeakInv, ChildRefused
  <2> QED
    BY <1>11, <2>1, Kinds DEF TypeOK, LeakInv, NoManagerLeak, ChildRefused, Goto, entry, managers
<1>12. ASSUME NEW c \in Children, ChildAbandons(c) PROVE LeakInv'
  <2>1. \A q \in Lockers : loc'[q].close = loc[q].close
    BY <1>12, Kinds, ForgetKeeps DEF LeakInv, ChildAbandons
  <2> QED
    BY <1>12, <2>1, Kinds DEF TypeOK, LeakInv, NoManagerLeak, ChildAbandons, Goto, entry, managers
<1>13. ASSUME NEW p \in Runners, PublishRun(p) PROVE LeakInv'
  BY <1>13, Kinds DEF TypeOK, Locals, CapturesOK, LeakInv, NoManagerLeak, Goto, QueuePCs, StartupPCs, RunPCs, TeardownPCs, PublishRun, managers
<1>14. ASSUME NEW p \in Runners, SetRouteCancel(p) PROVE LeakInv'
  BY <1>14, Kinds DEF TypeOK, Locals, CapturesOK, LeakInv, NoManagerLeak, Goto, QueuePCs, StartupPCs, RunPCs, TeardownPCs, SetRouteCancel, managers
<1>15. ASSUME NEW p \in Runners, OpenInject(p) PROVE LeakInv'
  BY <1>15, Kinds DEF TypeOK, Locals, CapturesOK, LeakInv, NoManagerLeak, Goto, QueuePCs, StartupPCs, RunPCs, TeardownPCs, OpenInject, managers
<1>16. ASSUME NEW p \in Runners, CloseWindow(p) PROVE LeakInv'
  BY <1>16, Kinds DEF TypeOK, Locals, CapturesOK, LeakInv, NoManagerLeak, Goto, QueuePCs, StartupPCs, RunPCs, TeardownPCs, CloseWindow, managers
<1>17. ASSUME NEW p \in Runners, EndRun(p) PROVE LeakInv'
  BY <1>17, Kinds DEF TypeOK, Locals, CapturesOK, LeakInv, NoManagerLeak, Goto, QueuePCs, StartupPCs, RunPCs, TeardownPCs, EndRun, managers
<1>18. ASSUME NEW p \in Slashes, ClearRouteRunState(p) PROVE LeakInv'
  BY <1>18, Kinds DEF TypeOK, Locals, CapturesOK, LeakInv, NoManagerLeak, Goto, QueuePCs, StartupPCs, RunPCs, TeardownPCs, ClearRouteRunState, managers
<1>19. ASSUME NEW p \in Runners, CloseDone(p) PROVE LeakInv'
  BY <1>19, Kinds DEF TypeOK, Locals, CapturesOK, LeakInv, NoManagerLeak, Goto, QueuePCs, StartupPCs, RunPCs, TeardownPCs, CloseDone, entry, managers
<1>20. ASSUME NEW p \in Runners \cup Edits, UnlockRoute(p) PROVE LeakInv'
  BY <1>20, Kinds DEF TypeOK, Locals, CapturesOK, LeakInv, NoManagerLeak, Goto, QueuePCs, StartupPCs, RunPCs, TeardownPCs, UnlockRoute, managers
<1>21. ASSUME NEW p \in Lockers, ReleaseMu(p) PROVE LeakInv'
  BY <1>21, Kinds DEF TypeOK, Locals, CapturesOK, LeakInv, NoManagerLeak, Goto, QueuePCs, StartupPCs, RunPCs, TeardownPCs, ReleaseMu, managers
<1>22. ASSUME NEW p \in Lockers, CloseManager(p) PROVE LeakInv'
  BY <1>22, Kinds, ForgetKeeps DEF TypeOK, Locals, CapturesOK, LeakInv, NoManagerLeak, Goto, QueuePCs, StartupPCs, RunPCs, TeardownPCs, CloseManager, entry
<1>23. ASSUME NEW x \in Cancels, CancelRoute(x) PROVE LeakInv'
  BY <1>23, Kinds DEF TypeOK, Locals, CapturesOK, LeakInv, NoManagerLeak, Goto, QueuePCs, StartupPCs, RunPCs, TeardownPCs, CancelRoute, managers
<1>24. ASSUME NEW x \in Evicts, EvictRoute(x) PROVE LeakInv'
  <2>1. \A q \in Lockers : loc'[q].close = loc[q].close
    <3>1. loc' = [loc EXCEPT ![x].cancel = cancel] \/ loc' = loc
      BY <1>24 DEF EvictRoute
    <3> QED
      BY <3>1, Kinds DEF TypeOK, Locals
  <2>2. \A q \in Lockers : pc'[q] \notin {"release", "closeMgr", "gone"} =>
                           pc[q] \notin {"release", "closeMgr", "gone"}
    BY <1>24, Kinds DEF TypeOK, EvictRoute, Goto
  <2> QED
    BY <1>24, <2>1, <2>2 DEF LeakInv, NoManagerLeak, EvictRoute, managers
<1>25. ASSUME NEW x \in Evicts, EvictIdle(x) PROVE LeakInv'
  <2>1. x \in Lockers /\ loc[x].close = 0
    BY <1>25, Kinds DEF LeakInv, EvictIdle
  <2>2. pc' = [pc EXCEPT ![x] = "release"] /\ UNCHANGED <<made, closed>>
    BY <1>25 DEF EvictIdle, Goto, managers
  <2>3. \A q \in Lockers : q # x => loc'[q] = loc[q]
    BY <1>25, Kinds DEF TypeOK, EvictIdle
  <2>4. \A q \in Lockers : pc'[q] \notin {"release", "closeMgr", "gone"} => loc'[q].close = 0
    BY <2>2, <2>3, Kinds DEF TypeOK, LeakInv
  <2>5. manager' = manager \/ loc'[x].close = manager
    BY <1>25, <2>1, Kinds DEF TypeOK, Locals, EvictIdle
  <2>6. NoManagerLeak'
    BY <2>1, <2>2, <2>3, <2>5 DEF LeakInv, NoManagerLeak, TypeOK
  <2> QED
    BY <2>4, <2>6 DEF LeakInv
<1>26. ASSUME NEW x \in Cancels \cup Evicts, FireCancel(x) PROVE LeakInv'
  <2>1. \A q \in Lockers : loc'[q].close = loc[q].close
    BY <1>26, Kinds, ForgetKeeps DEF LeakInv, FireCancel
  <2> QED
    BY <1>26, <2>1, Kinds DEF TypeOK, LeakInv, NoManagerLeak, FireCancel, Goto, entry, managers
<1>27. CASE UNCHANGED vars
  BY <1>27 DEF TypeOK, Locals, CapturesOK, LeakInv, NoManagerLeak, Goto, QueuePCs, StartupPCs, RunPCs, TeardownPCs, vars, entry, managers
<1>28. ASSUME NEW x \in Restores \cup Rewinds, CancelForRestore(x) PROVE LeakInv'
  <2>1. \A q \in Lockers : loc'[q].close = loc[q].close
    BY <1>28, Kinds DEF TypeOK, Locals, CancelForRestore
  <2>2. \A q \in Lockers : pc'[q] \notin {"release", "closeMgr", "gone"} =>
                           pc[q] \notin {"release", "closeMgr", "gone"}
    BY <1>28, Kinds DEF TypeOK, CancelForRestore, Goto
  <2>3. UNCHANGED <<made, closed, manager>>
    BY <1>28 DEF CancelForRestore, managers
  <2>4. NoManagerLeak'
    BY <2>1, <2>3 DEF LeakInv, NoManagerLeak
  <2>5. \A q \in Lockers : pc'[q] \notin {"release", "closeMgr", "gone"} => loc'[q].close = 0
    BY <2>1, <2>2 DEF LeakInv
  <2> QED
    BY <2>4, <2>5 DEF LeakInv
<1>29. ASSUME NEW x \in Restores \cup Rewinds, FireRestore(x) PROVE LeakInv'
  BY <1>29, Kinds DEF TypeOK, Locals, CapturesOK, LeakInv, NoManagerLeak, Goto, QueuePCs, StartupPCs, RunPCs, TeardownPCs, FireRestore, entry, managers
<1>30. ASSUME NEW x \in Restores, AwaitRun(x) PROVE LeakInv'
  <2>1. \A q \in Lockers : loc'[q].close = loc[q].close
    BY <1>30, Kinds, ForgetKeeps, KindsAreDisjoint DEF LeakInv, Lockers, AwaitRun
  <2> QED
    BY <1>30, <2>1, Kinds DEF TypeOK, LeakInv, NoManagerLeak, AwaitRun, Goto, entry, managers
<1>31. ASSUME NEW x \in Restores, RestoreGivesUp(x) PROVE LeakInv'
  <2>1. \A q \in Lockers : loc'[q].close = loc[q].close
    BY <1>31, Kinds, ForgetKeeps, KindsAreDisjoint DEF LeakInv, Lockers, RestoreGivesUp
  <2> QED
    BY <1>31, <2>1, Kinds DEF TypeOK, LeakInv, NoManagerLeak, RestoreGivesUp, Goto, entry, managers
<1>32. ASSUME NEW x \in Restores, SliceSession(x) PROVE LeakInv'
  BY <1>32, Kinds DEF TypeOK, Locals, CapturesOK, LeakInv, NoManagerLeak, Goto, QueuePCs, StartupPCs, RunPCs, TeardownPCs, SliceSession, entry, managers
<1>33. ASSUME NEW x \in Rewinds, CutSession(x) PROVE LeakInv'
  <2>1. \A q \in Lockers : loc'[q].close = loc[q].close
    BY <1>33, Kinds, ForgetKeeps, KindsAreDisjoint DEF LeakInv, Lockers, CutSession
  <2> QED
    BY <1>33, <2>1, Kinds DEF TypeOK, LeakInv, NoManagerLeak, CutSession, Goto, entry, managers
<1> QED
  BY <1>1, <1>2, <1>3, <1>4, <1>5, <1>6, <1>7, <1>8, <1>9, <1>10, <1>11, <1>12, <1>13,
     <1>14, <1>15, <1>16, <1>17, <1>18, <1>19, <1>20, <1>21, <1>22, <1>23, <1>24,
     <1>25, <1>26, <1>27, <1>28, <1>29, <1>30, <1>31, <1>32, <1>33
  DEF Next, Quiet

-----------------------------------------------------------------------------
(* The layers together. *)
RouteInv == TypeInv /\ OwnerInv /\ EvictionHasFinisher /\ ManagerInv /\ LeakInv

LEMMA RouteInvariant == Spec => []RouteInv
<1>1. Init => RouteInv
  <2>1. Init => ManagerInv /\ LeakInv /\ EvictionHasFinisher
    BY Kinds DEF Init, ManagerInv, ManagerHeldOpen, LeakInv, NoManagerLeak, NoLocals,
                 EvictionHasFinisher, RunPCs, TeardownPCs
  <2> QED
    BY <2>1, TypeInit, OwnerInit DEF RouteInv
<1>2. RouteInv /\ [Next]_vars => RouteInv'
  BY TypeNext, OwnerNext, EvictionNext, ManagerNext, LeakNext DEF RouteInv, TypeInv
<1> QED
  BY <1>1, <1>2, PTL DEF Spec

(* A cancel function or done channel on display belongs to the one request     *)
(* that holds entry.mu, however many requests of whatever kinds there are.     *)
THEOREM OwnerCorrect == Spec => []StateOwnedByHolder
<1>1. RouteInv => StateOwnedByHolder
  BY DEF RouteInv, OwnerInv
<1> QED
  BY <1>1, RouteInvariant, PTL

(* An eviction that evictRoute leaves to UnlockRoute always has a run in        *)
(* progress that has yet to reach UnlockRoute.                                *)
THEOREM EvictionCorrect == Spec => []EvictionHasFinisher
<1>1. RouteInv => EvictionHasFinisher
  BY DEF RouteInv
<1> QED
  BY <1>1, RouteInvariant, PTL

(* A run keeps the open session manager it started with until it unlocks.      *)
THEOREM ManagerCorrect == Spec => []ManagerHeldOpen
<1>1. RouteInv => ManagerHeldOpen
  BY DEF RouteInv, ManagerInv
<1> QED
  BY <1>1, RouteInvariant, PTL

(* Evictions, runs and edits never lose track of an open session manager.      *)
THEOREM NoLeakCorrect == Spec => []NoManagerLeak
<1>1. RouteInv => NoManagerLeak
  BY DEF RouteInv, LeakInv
<1> QED
  BY <1>1, RouteInvariant, PTL
=============================================================================

------------------------- MODULE InjectDeliveryProofs -------------------------
(***************************************************************************)
(* Proofs about InjectDelivery for any finite sets of messages and any     *)
(* capacities.  A message is in one place at a time; the layers are        *)
(*   TypeOK    types and the capacities of channel and mailbox;            *)
(*   StageInv  which buffers may hold something in which phase of a run;   *)
(*   PlaceInv  a message is in one buffer, and in none before it is sent;  *)
(*   RowInv    what the mailbox table says about a message in a buffer;    *)
(*   TurnInv   how often a message has entered a turn;                     *)
(*   LedgerInv what the retract ledgers say of a message;                  *)
(*   KeptInv   a message that was accepted is somewhere.                   *)
(***************************************************************************)
EXTENDS InjectDelivery, FiniteSetTheorems, TLAPS

(* Which of the run's buffers may hold something, by where the run is; what it *)
(* drained is its prompt until the loop begins, and in the conversation then.  *)
StageInv ==
  /\ loopBatch # {} => phase = "commit"
  /\ batch # {} => phase = "filter"
  /\ prompt # {} => phase \in {"filter", "prep", "open", "markOpen"}
  /\ parking # {} => phase = "park"
  /\ injectCh # {} => window = "open"
  /\ window = "open" => phase \notin {"idle", "drain", "filter", "prep", "clear"}
  /\ phase \in {"idle", "drain"} => drained = {}
  /\ phase \in {"filter", "prep", "open", "markOpen"} => drained = prompt
  /\ phase \in {"loop", "commit", "mark", "ending", "markEnd"} => drained \subseteq turn
  /\ phase \in {"markOpen", "mark", "markEnd"} => drained \subseteq saved
  /\ ~up => /\ mailbox = {} /\ turn = {} /\ phase = "idle" /\ retracted = {}
            /\ \A m \in Messages : enq[m] = "no" /\ del[m] = "no"
  /\ crashes = 0 => up

(* The sender has not been answered and EnqueueMessage has not stored it. *)
Unsent(m) == answer[m] = "none" /\ enq[m] \in {"no", "persist"}

(* A message is in one buffer at most, in none before it was accepted, and in  *)
(* none but parking while EnqueueMessage works on it.                          *)
Place(m) ==
  /\ m \in injectCh =>
       m \notin loopBatch \cup parking \cup mailbox \cup batch \cup prompt \cup turn
  /\ m \in loopBatch => m \notin parking \cup mailbox \cup batch \cup prompt \cup turn
  /\ m \in parking => m \notin mailbox \cup batch \cup prompt \cup turn
  /\ m \in mailbox => m \notin batch \cup prompt \cup turn
  /\ m \in batch => m \notin prompt \cup turn
  /\ m \in prompt => m \notin turn
  /\ answer[m] = "none" => ~InFlight(m) /\ m \notin turn
  /\ enq[m] # "no" => IF m \in FollowUps THEN m \in parking ELSE answer[m] = "none"
  /\ del[m] \in {"removeRow", "cascadeRow"} => ~InFlight(m) /\ answer[m] # "none"

PlaceInv == \A m \in Messages : Place(m)

(* The table: a row stands behind every message in the mailbox and behind one  *)
(* that is being inserted, and behind a drained one until it is saved; a       *)
(* consumed one is in the session and will join no prompt or turn again; a     *)
(* message nobody stored has none.                                             *)
RowOf(m) ==
  /\ m \in mailbox \/ enq[m] \in {"insert", "rollback"} => row[m] = "pending"
  /\ m \in batch \cup prompt /\ verdict[m] = "none" /\ del[m] = "no"
       => row[m] = "pending" \/ (m \in prompt /\ m \in saved)
  /\ row[m] = "consumed" =>
       m \in saved /\ m \notin injectCh \cup loopBatch \cup parking \cup mailbox \cup batch
  /\ Unsent(m) => row[m] = "absent"
  /\ m \in Queued /\ answer[m] = "queued" /\ verdict[m] = "none"
       => row[m] = "pending" \/ m \in saved

RowInv == \A m \in Messages : RowOf(m)

(* Without a crash a message that is on its way has not entered a turn yet.    *)
TurnsOf(m) ==
  crashes = 0 => /\ entered[m] <= 1
                 /\ InFlight(m) \/ answer[m] = "none" => entered[m] = 0

TurnInv == \A m \in Messages : TurnsOf(m)

(* The ledgers: what is committed has entered; without a crash, what entered   *)
(* through the channel is committed, and what somebody retracted is not and    *)
(* never will be.                                                              *)
LedgerOf(m) ==
  /\ m \in committed \/ verdict[m] = "already_committed" => entered[m] > 0
  /\ crashes = 0 /\ entered[m] > 0 => m \in committed \cup viaMailbox
  /\ crashes = 0 /\ (del[m] \in {"cascade", "cascadeRow"} \/ verdict[m] = "retracted") =>
       /\ m \notin committed
       /\ m \in retracted \/ (m \notin injectCh \cup loopBatch /\ answer[m] # "none")

LedgerInv == \A m \in FollowUps : LedgerOf(m)

(* A message that was accepted is somewhere; one that has a tombstone has a    *)
(* retract call under way or answered; one whose run returned early is in no   *)
(* buffer and no turn, so nothing touches its row before the next start.       *)
KeptOf(m) ==
  /\ m \in retracted => del[m] # "no" \/ verdict[m] # "none"
  /\ crashes = 0 /\ lost[m] = "early" =>
       answer[m] # "none" /\ enq[m] = "no" /\ ~InFlight(m) /\ m \notin turn
  /\ answer[m] \in {"ok", "queued"} /\ verdict[m] = "none" /\ del[m] = "no" /\ crashes = 0
       => \/ InFlight(m) \/ entered[m] > 0 \/ m \in saved
          \/ lost[m] \in {"full", "store"}
          \/ lost[m] = "early" /\ row[m] = "pending"

KeptInv == \A m \in Messages : KeptOf(m)

-----------------------------------------------------------------------------
(* Every set of messages is finite, so its size is a number.                   *)
LEMMA FiniteSubset ==
  ASSUME NEW S, S \subseteq Messages
  PROVE  IsFiniteSet(S) /\ Cardinality(S) \in Nat
  BY FinitelyMany, FS_Subset, FS_CardinalityType

(* One message more still fits when there was room.                            *)
LEMMA AddOne ==
  ASSUME NEW S, S \subseteq Messages, NEW m, NEW k \in Nat, Cardinality(S) < k
  PROVE  Cardinality(S \cup {m}) <= k
  BY FiniteSubset, FS_AddElement

(* What is left of a set is no larger.                                         *)
LEMMA NoMore ==
  ASSUME NEW S, S \subseteq Messages, NEW T, T \subseteq S, NEW k \in Nat, Cardinality(S) <= k
  PROVE  Cardinality(T) <= k
<1>1. Cardinality(T) <= Cardinality(S) /\ Cardinality(T) \in Nat /\ Cardinality(S) \in Nat
  BY FiniteSubset, FS_Subset
<1> QED
  BY <1>1

(* The capacities are numbers.                                                 *)
LEMMA Caps == ChanCap \in Nat /\ MailCap \in Nat
  BY CapsPositive

(* Follow-ups and queued messages are messages.                                *)
LEMMA Kinds == FollowUps \subseteq Messages /\ Queued \subseteq Messages
  BY DEF Messages

(* An empty queue is within its capacity.                                      *)
LEMMA EmptyIsSmall == Cardinality({}) <= ChanCap /\ Cardinality({}) <= MailCap
  BY Caps, FS_EmptySet

(* The types hold when the daemon starts.                                      *)
LEMMA TypeInit == Init => TypeOK
<1>1. 0 \in 0 .. MaxRuns /\ 0 \in 0 .. MaxCrashes
  BY BoundsAreNat
<1> SUFFICES ASSUME Init PROVE TypeOK
  OBVIOUS
<1>2. Cardinality(injectCh) <= ChanCap /\ Cardinality(mailbox) <= MailCap
  BY EmptyIsSmall DEF Init
<1> QED
  BY <1>1, <1>2 DEF Init, TypeOK, Phases

(* Every handler and every step of a run keeps each queue, ledger, row and     *)
(* answer within its type, and channel and mailbox within their capacity.      *)
LEMMA TypeNext == TypeOK /\ [Next]_vars => TypeOK'
<1> SUFFICES ASSUME TypeOK, [Next]_vars PROVE TypeOK'
  OBVIOUS
<1> USE Kinds DEF TypeOK, run, loopVars, ledgers, durable, calls, process,
   history, Enter, DeleteRow, EnqueueReturns
<1>1. ASSUME StartRun PROVE TypeOK'
  <2>1. runs' \in 0 .. MaxRuns
    BY <1>1, BoundsAreNat DEF StartRun
  <2> QED
    BY <1>1, <2>1 DEF StartRun, Phases
<1>2. ASSUME DequeueBatch PROVE TypeOK'
  <2>1. Cardinality(mailbox') <= MailCap
    BY <1>2, NoMore, Caps DEF DequeueBatch, Phases
  <2> QED
    BY <1>2, <2>1 DEF DequeueBatch, Phases
<1>3. ASSUME MailboxDrained PROVE TypeOK'
  BY <1>3 DEF MailboxDrained, Phases
<1>4. ASSUME FailEarly PROVE TypeOK'
  BY <1>4 DEF FailEarly, Phases
<1>5. ASSUME OpenInject PROVE TypeOK'
  BY <1>5 DEF OpenInject, Phases
<1>6. ASSUME TakeInjected PROVE TypeOK'
  <2>1. Cardinality(injectCh') <= ChanCap
    BY <1>6, EmptyIsSmall DEF TakeInjected, Phases
  <2> QED
    BY <1>6, <2>1 DEF TakeInjected, Phases
<1>7. ASSUME Save PROVE TypeOK'
  BY <1>7 DEF Save, Phases
<1>8. ASSUME MarkConsumed PROVE TypeOK'
  BY <1>8 DEF MarkConsumed, Phases
<1>9. ASSUME EndTurn PROVE TypeOK'
  <2>1. Cardinality(injectCh') <= ChanCap
    BY <1>9, EmptyIsSmall DEF EndTurn, Phases
  <2> QED
    BY <1>9, <2>1 DEF EndTurn, Phases
<1>10. ASSUME StopTurn PROVE TypeOK'
  BY <1>10 DEF StopTurn, Phases
<1>11. ASSUME HardError PROVE TypeOK'
  BY <1>11 DEF HardError, Phases
<1>12. ASSUME FinalSave PROVE TypeOK'
  BY <1>12 DEF FinalSave, Phases
<1>13. ASSUME FinalSaveFails PROVE TypeOK'
  BY <1>13 DEF FinalSaveFails, Phases
<1>14. ASSUME Rescue PROVE TypeOK'
  <2>1. Cardinality(injectCh') <= ChanCap
    BY <1>14, EmptyIsSmall DEF Rescue, Phases
  <2> QED
    BY <1>14, <2>1 DEF Rescue, Phases
<1>15. ASSUME ParkingDone PROVE TypeOK'
  BY <1>15 DEF ParkingDone, Phases
<1>16. ASSUME ClearRun PROVE TypeOK'
  <2>1. Cardinality(injectCh') <= ChanCap
    BY <1>16, EmptyIsSmall DEF ClearRun, Phases
  <2> QED
    BY <1>16, <2>1 DEF ClearRun, Phases
<1>17. ASSUME Cancel PROVE TypeOK'
  BY <1>17 DEF Cancel
<1>18. ASSUME Crash PROVE TypeOK'
  <2>1. Cardinality(injectCh') <= ChanCap /\ Cardinality(mailbox') <= MailCap
    BY <1>18, EmptyIsSmall DEF Crash
  <2>2. crashes' \in 0 .. MaxCrashes
    BY <1>18, BoundsAreNat DEF Crash
  <2>3. answer' \in [Messages -> {"none", "ok", "refused", "retracted", "queued",
                                  "full", "failed"}]
    BY <1>18 DEF Crash
  <2> QED
    BY <1>18, <2>1, <2>2, <2>3 DEF Crash, Phases
<1>19. ASSUME Recover PROVE TypeOK'
  BY <1>19 DEF Recover, Pending
<1>20. ASSUME NEW m \in Messages, KeepDrained(m) PROVE TypeOK'
  BY <1>20 DEF KeepDrained
<1>21. ASSUME NEW m \in Messages, DropDrained(m) PROVE TypeOK'
  BY <1>21 DEF DropDrained
<1>22. ASSUME NEW m \in Messages, Request(m) PROVE TypeOK'
  BY <1>22 DEF Request
<1>23. ASSUME NEW m \in Messages, Append(m) PROVE TypeOK'
  BY <1>23 DEF Append
<1>24. ASSUME NEW m \in Messages, AppendFails(m) PROVE TypeOK'
  BY <1>24 DEF AppendFails
<1>25. ASSUME NEW m \in Messages, Insert(m) PROVE TypeOK'
  <2>1. Cardinality(mailbox') <= MailCap
    BY <1>25, AddOne, Caps DEF Insert
  <2> QED
    BY <1>25, <2>1 DEF Insert
<1>26. ASSUME NEW m \in Messages, MailboxFull(m) PROVE TypeOK'
  BY <1>26 DEF MailboxFull
<1>27. ASSUME NEW m \in Messages, Rollback(m) PROVE TypeOK'
  BY <1>27 DEF Rollback
<1>28. ASSUME NEW m \in Messages, Remove(m) PROVE TypeOK'
  <2>1. Cardinality(mailbox') <= MailCap
    BY <1>28, NoMore, Caps DEF Remove
  <2> QED
    BY <1>28, <2>1 DEF Remove
<1>29. ASSUME NEW m \in Messages, RemoveRow(m) PROVE TypeOK'
  BY <1>29 DEF RemoveRow
<1>30. ASSUME NEW m \in Messages, Purge(m) PROVE TypeOK'
  BY <1>30 DEF Purge
<1>31. ASSUME NEW m \in FollowUps, FilterInjected(m) PROVE TypeOK'
  BY <1>31 DEF FilterInjected, Phases
<1>32. ASSUME NEW m \in FollowUps, Park(m) PROVE TypeOK'
  BY <1>32 DEF Park
<1>33. ASSUME NEW m \in FollowUps, InjectOK(m) PROVE TypeOK'
  <2>1. Cardinality(injectCh') <= ChanCap
    BY <1>33, AddOne, Caps DEF InjectOK
  <2> QED
    BY <1>33, <2>1 DEF InjectOK
<1>34. ASSUME NEW m \in FollowUps, InjectRetracted(m) PROVE TypeOK'
  BY <1>34 DEF InjectRetracted
<1>35. ASSUME NEW m \in FollowUps, InjectRefused(m) PROVE TypeOK'
  BY <1>35 DEF InjectRefused
<1>36. ASSUME NEW m \in FollowUps, Retract(m) PROVE TypeOK'
  BY <1>36 DEF Retract
<1>37. ASSUME NEW m \in FollowUps, Cascade(m) PROVE TypeOK'
  <2>1. Cardinality(mailbox') <= MailCap
    BY <1>37, NoMore, Caps DEF Cascade
  <2> QED
    BY <1>37, <2>1 DEF Cascade
<1>38. ASSUME PreSave PROVE TypeOK'
  BY <1>38 DEF PreSave, Phases
<1>39. ASSUME StartLoop PROVE TypeOK'
  BY <1>39 DEF StartLoop, Phases
<1>40. CASE UNCHANGED vars
  BY <1>40 DEF vars
<1> QED
  BY <1>1, <1>2, <1>3, <1>4, <1>5, <1>6, <1>7, <1>8, <1>9, <1>10, <1>11, <1>12,
     <1>13, <1>14, <1>15, <1>16, <1>17, <1>18, <1>19, <1>20, <1>21, <1>22,
     <1>23, <1>24, <1>25, <1>26, <1>27, <1>28, <1>29, <1>30, <1>31, <1>32,
     <1>33, <1>34, <1>35, <1>36, <1>37, <1>38, <1>39, <1>40 DEF Next, Quiet

(* A buffer of the run holds something only while the run is where it uses it; *)
(* a daemon that is down holds nothing.                                        *)
LEMMA StageNext == TypeOK /\ StageInv /\ [Next]_vars => StageInv'
<1> SUFFICES ASSUME TypeOK, StageInv, [Next]_vars PROVE StageInv'
  OBVIOUS
<1> USE Kinds DEF TypeOK, StageInv, run, loopVars, ledgers, durable, calls,
   process, history, Enter, DeleteRow, EnqueueReturns
<1>1. ASSUME StartRun PROVE StageInv'
  BY <1>1 DEF StartRun
<1>2. ASSUME DequeueBatch PROVE StageInv'
  BY <1>2 DEF DequeueBatch
<1>3. ASSUME MailboxDrained PROVE StageInv'
  BY <1>3 DEF MailboxDrained
<1>4. ASSUME FailEarly PROVE StageInv'
  BY <1>4 DEF FailEarly
<1>5. ASSUME OpenInject PROVE StageInv'
  BY <1>5 DEF OpenInject
<1>6. ASSUME TakeInjected PROVE StageInv'
  BY <1>6 DEF TakeInjected
<1>7. ASSUME Save PROVE StageInv'
  BY <1>7 DEF Save
<1>8. ASSUME MarkConsumed PROVE StageInv'
  BY <1>8 DEF MarkConsumed
<1>9. ASSUME EndTurn PROVE StageInv'
  BY <1>9 DEF EndTurn
<1>10. ASSUME StopTurn PROVE StageInv'
  BY <1>10 DEF StopTurn
<1>11. ASSUME HardError PROVE StageInv'
  BY <1>11 DEF HardError
<1>12. ASSUME FinalSave PROVE StageInv'
  BY <1>12 DEF FinalSave
<1>13. ASSUME FinalSaveFails PROVE StageInv'
  BY <1>13 DEF FinalSaveFails
<1>14. ASSUME Rescue PROVE StageInv'
  BY <1>14 DEF Rescue
<1>15. ASSUME ParkingDone PROVE StageInv'
  BY <1>15 DEF ParkingDone
<1>16. ASSUME ClearRun PROVE StageInv'
  BY <1>16 DEF ClearRun
<1>17. ASSUME Cancel PROVE StageInv'
  BY <1>17 DEF Cancel
<1>18. ASSUME Crash PROVE StageInv'
  BY <1>18 DEF Crash
<1>19. ASSUME Recover PROVE StageInv'
  BY <1>19 DEF Recover, Pending
<1>20. ASSUME NEW m \in Messages, KeepDrained(m) PROVE StageInv'
  BY <1>20 DEF KeepDrained
<1>21. ASSUME NEW m \in Messages, DropDrained(m) PROVE StageInv'
  BY <1>21 DEF DropDrained
<1>22. ASSUME NEW m \in Messages, Request(m) PROVE StageInv'
  BY <1>22 DEF Request
<1>23. ASSUME NEW m \in Messages, Append(m) PROVE StageInv'
  BY <1>23 DEF Append
<1>24. ASSUME NEW m \in Messages, AppendFails(m) PROVE StageInv'
  BY <1>24 DEF AppendFails
<1>25. ASSUME NEW m \in Messages, Insert(m) PROVE StageInv'
  BY <1>25 DEF Insert
<1>26. ASSUME NEW m \in Messages, MailboxFull(m) PROVE StageInv'
  BY <1>26 DEF MailboxFull
<1>27. ASSUME NEW m \in Messages, Rollback(m) PROVE StageInv'
  BY <1>27 DEF Rollback
<1>28. ASSUME NEW m \in Messages, Remove(m) PROVE StageInv'
  BY <1>28 DEF Remove
<1>29. ASSUME NEW m \in Messages, RemoveRow(m) PROVE StageInv'
  BY <1>29 DEF RemoveRow
<1>30. ASSUME NEW m \in Messages, Purge(m) PROVE StageInv'
  BY <1>30 DEF Purge
<1>31. ASSUME NEW m \in FollowUps, FilterInjected(m) PROVE StageInv'
  BY <1>31 DEF FilterInjected
<1>32. ASSUME NEW m \in FollowUps, Park(m) PROVE StageInv'
  BY <1>32 DEF Park
<1>33. ASSUME NEW m \in FollowUps, InjectOK(m) PROVE StageInv'
  BY <1>33 DEF InjectOK
<1>34. ASSUME NEW m \in FollowUps, InjectRetracted(m) PROVE StageInv'
  BY <1>34 DEF InjectRetracted
<1>35. ASSUME NEW m \in FollowUps, InjectRefused(m) PROVE StageInv'
  BY <1>35 DEF InjectRefused
<1>36. ASSUME NEW m \in FollowUps, Retract(m) PROVE StageInv'
  BY <1>36 DEF Retract
<1>37. ASSUME NEW m \in FollowUps, Cascade(m) PROVE StageInv'
  BY <1>37 DEF Cascade
<1>38. ASSUME PreSave PROVE StageInv'
  BY <1>38 DEF PreSave
<1>39. ASSUME StartLoop PROVE StageInv'
  BY <1>39 DEF StartLoop
<1>40. CASE UNCHANGED vars
  BY <1>40 DEF vars
<1> QED
  BY <1>1, <1>2, <1>3, <1>4, <1>5, <1>6, <1>7, <1>8, <1>9, <1>10, <1>11, <1>12,
     <1>13, <1>14, <1>15, <1>16, <1>17, <1>18, <1>19, <1>20, <1>21, <1>22,
     <1>23, <1>24, <1>25, <1>26, <1>27, <1>28, <1>29, <1>30, <1>31, <1>32,
     <1>33, <1>34, <1>35, <1>36, <1>37, <1>38, <1>39, <1>40 DEF Next, Quiet

(* No step puts a message where it could be taken twice: each handler and each *)
(* drain moves it from one buffer to the next, and recovery fills the mailbox  *)
(* of a daemon that holds nothing else.                                        *)
LEMMA PlaceNext ==
  TypeOK /\ StageInv /\ PlaceInv /\ RowInv /\ [Next]_vars => PlaceInv'
<1> SUFFICES ASSUME TypeOK, StageInv, PlaceInv, RowInv, [Next]_vars, NEW n \in Messages
             PROVE  Place(n)'
  BY DEF PlaceInv
<1> USE Kinds, KindsDiffer DEF TypeOK, StageInv, PlaceInv, Place, InFlight,
   run, loopVars, ledgers, durable, calls, process, history, Enter, DeleteRow,
   EnqueueReturns
<1>1. ASSUME StartRun PROVE Place(n)'
  BY <1>1 DEF StartRun
<1>2. ASSUME DequeueBatch PROVE Place(n)'
  BY <1>2 DEF DequeueBatch
<1>3. ASSUME MailboxDrained PROVE Place(n)'
  BY <1>3 DEF MailboxDrained
<1>4. ASSUME FailEarly PROVE Place(n)'
  BY <1>4 DEF FailEarly
<1>5. ASSUME OpenInject PROVE Place(n)'
  BY <1>5 DEF OpenInject
<1>6. ASSUME TakeInjected PROVE Place(n)'
  BY <1>6 DEF TakeInjected
<1>7. ASSUME Save PROVE Place(n)'
  BY <1>7 DEF Save
<1>8. ASSUME MarkConsumed PROVE Place(n)'
  BY <1>8 DEF MarkConsumed
<1>9. ASSUME EndTurn PROVE Place(n)'
  BY <1>9 DEF EndTurn
<1>10. ASSUME StopTurn PROVE Place(n)'
  BY <1>10 DEF StopTurn
<1>11. ASSUME HardError PROVE Place(n)'
  BY <1>11 DEF HardError
<1>12. ASSUME FinalSave PROVE Place(n)'
  BY <1>12 DEF FinalSave
<1>13. ASSUME FinalSaveFails PROVE Place(n)'
  BY <1>13 DEF FinalSaveFails
<1>14. ASSUME Rescue PROVE Place(n)'
  BY <1>14 DEF Rescue
<1>15. ASSUME ParkingDone PROVE Place(n)'
  BY <1>15 DEF ParkingDone
<1>16. ASSUME ClearRun PROVE Place(n)'
  BY <1>16 DEF ClearRun
<1>17. ASSUME Cancel PROVE Place(n)'
  BY <1>17 DEF Cancel
<1>18. ASSUME Crash PROVE Place(n)'
  BY <1>18 DEF Crash
<1>19. ASSUME Recover PROVE Place(n)'
  <2>1. \A k \in Pending : answer[k] # "none"
    BY <1>19 DEF Recover, Pending, RowInv, RowOf, Unsent
  <2>2. injectCh = {} /\ loopBatch = {} /\ parking = {} /\ batch = {} /\ prompt = {} /\ turn = {}
    BY <1>19 DEF Recover
  <2>3. del[n] = "no" /\ enq[n] = "no" /\ mailbox' \subseteq Pending
    BY <1>19 DEF Recover
  <2> QED
    BY <1>19, <2>1, <2>2, <2>3 DEF Recover
<1>20. ASSUME NEW m \in Messages, KeepDrained(m) PROVE Place(n)'
  BY <1>20 DEF KeepDrained
<1>21. ASSUME NEW m \in Messages, DropDrained(m) PROVE Place(n)'
  BY <1>21 DEF DropDrained
<1>22. ASSUME NEW m \in Messages, Request(m) PROVE Place(n)'
  BY <1>22 DEF Request
<1>23. ASSUME NEW m \in Messages, Append(m) PROVE Place(n)'
  BY <1>23 DEF Append
<1>24. ASSUME NEW m \in Messages, AppendFails(m) PROVE Place(n)'
  BY <1>24 DEF AppendFails
<1>25. ASSUME NEW m \in Messages, Insert(m) PROVE Place(n)'
  <2>1. enq[m] # "no" /\ Place(m) /\ Place(n)
    BY <1>25 DEF Insert
  <2>2. m \notin injectCh \cup loopBatch \cup mailbox \cup batch \cup prompt \cup turn
    BY <2>1
  <2>3. del[m] \notin {"removeRow", "cascadeRow"}
    BY <2>1
  <2>4. m \in FollowUps => answer[m] # "none"
    BY <2>1
  <2>5. CASE n = m
    BY <1>25, <2>2, <2>3, <2>4, <2>5 DEF Insert, Messages
  <2>6. CASE n # m
    BY <1>25, <2>1, <2>6 DEF Insert
  <2> QED
    BY <2>5, <2>6
<1>26. ASSUME NEW m \in Messages, MailboxFull(m) PROVE Place(n)'
  BY <1>26 DEF MailboxFull
<1>27. ASSUME NEW m \in Messages, Rollback(m) PROVE Place(n)'
  BY <1>27 DEF Rollback
<1>28. ASSUME NEW m \in Messages, Remove(m) PROVE Place(n)'
  BY <1>28 DEF Remove
<1>29. ASSUME NEW m \in Messages, RemoveRow(m) PROVE Place(n)'
  BY <1>29 DEF RemoveRow
<1>30. ASSUME NEW m \in Messages, Purge(m) PROVE Place(n)'
  BY <1>30 DEF Purge
<1>31. ASSUME NEW m \in FollowUps, FilterInjected(m) PROVE Place(n)'
  BY <1>31 DEF FilterInjected
<1>32. ASSUME NEW m \in FollowUps, Park(m) PROVE Place(n)'
  BY <1>32 DEF Park
<1>33. ASSUME NEW m \in FollowUps, InjectOK(m) PROVE Place(n)'
  BY <1>33 DEF InjectOK
<1>34. ASSUME NEW m \in FollowUps, InjectRetracted(m) PROVE Place(n)'
  BY <1>34 DEF InjectRetracted
<1>35. ASSUME NEW m \in FollowUps, InjectRefused(m) PROVE Place(n)'
  BY <1>35 DEF InjectRefused
<1>36. ASSUME NEW m \in FollowUps, Retract(m) PROVE Place(n)'
  BY <1>36 DEF Retract
<1>37. ASSUME NEW m \in FollowUps, Cascade(m) PROVE Place(n)'
  BY <1>37 DEF Cascade
<1>38. ASSUME PreSave PROVE Place(n)'
  BY <1>38 DEF PreSave
<1>39. ASSUME StartLoop PROVE Place(n)'
  BY <1>39 DEF StartLoop
<1>40. CASE UNCHANGED vars
  BY <1>40 DEF vars
<1> QED
  BY <1>1, <1>2, <1>3, <1>4, <1>5, <1>6, <1>7, <1>8, <1>9, <1>10, <1>11, <1>12,
     <1>13, <1>14, <1>15, <1>16, <1>17, <1>18, <1>19, <1>20, <1>21, <1>22,
     <1>23, <1>24, <1>25, <1>26, <1>27, <1>28, <1>29, <1>30, <1>31, <1>32,
     <1>33, <1>34, <1>35, <1>36, <1>37, <1>38, <1>39, <1>40 DEF Next, Quiet

(* The row is written before the message is inserted and deleted after it was  *)
(* taken out, and it is stamped consumed only for what the session holds.      *)
LEMMA RowNext ==
  TypeOK /\ StageInv /\ PlaceInv /\ RowInv /\ [Next]_vars => RowInv'
<1> SUFFICES ASSUME TypeOK, StageInv, PlaceInv, RowInv, [Next]_vars, NEW n \in Messages
             PROVE  RowOf(n)'
  BY DEF RowInv
<1> USE Kinds, KindsDiffer DEF TypeOK, StageInv, PlaceInv, Place, InFlight,
   RowInv, RowOf, Unsent, run, loopVars, ledgers, durable, calls, process,
   history, Enter, DeleteRow, EnqueueReturns
<1>1. ASSUME StartRun PROVE RowOf(n)'
  BY <1>1 DEF StartRun
<1>2. ASSUME DequeueBatch PROVE RowOf(n)'
  BY <1>2 DEF DequeueBatch
<1>3. ASSUME MailboxDrained PROVE RowOf(n)'
  BY <1>3 DEF MailboxDrained
<1>4. ASSUME FailEarly PROVE RowOf(n)'
  BY <1>4 DEF FailEarly
<1>5. ASSUME OpenInject PROVE RowOf(n)'
  BY <1>5 DEF OpenInject
<1>6. ASSUME TakeInjected PROVE RowOf(n)'
  BY <1>6 DEF TakeInjected
<1>7. ASSUME Save PROVE RowOf(n)'
  BY <1>7 DEF Save
<1>8. ASSUME MarkConsumed PROVE RowOf(n)'
  BY <1>8 DEF MarkConsumed
<1>9. ASSUME EndTurn PROVE RowOf(n)'
  BY <1>9 DEF EndTurn
<1>10. ASSUME StopTurn PROVE RowOf(n)'
  BY <1>10 DEF StopTurn
<1>11. ASSUME HardError PROVE RowOf(n)'
  BY <1>11 DEF HardError
<1>12. ASSUME FinalSave PROVE RowOf(n)'
  BY <1>12 DEF FinalSave
<1>13. ASSUME FinalSaveFails PROVE RowOf(n)'
  BY <1>13 DEF FinalSaveFails
<1>14. ASSUME Rescue PROVE RowOf(n)'
  BY <1>14 DEF Rescue
<1>15. ASSUME ParkingDone PROVE RowOf(n)'
  BY <1>15 DEF ParkingDone
<1>16. ASSUME ClearRun PROVE RowOf(n)'
  BY <1>16 DEF ClearRun
<1>17. ASSUME Cancel PROVE RowOf(n)'
  BY <1>17 DEF Cancel
<1>18. ASSUME Crash PROVE RowOf(n)'
  <2>1. Place(n) /\ RowOf(n)
    BY DEF PlaceInv, RowInv
  <2>2. Unsent(n)' => Unsent(n)
    BY <1>18, <2>1 DEF Crash, Messages
  <2> QED
    BY <1>18, <2>1, <2>2 DEF Crash
<1>19. ASSUME Recover PROVE RowOf(n)'
  BY <1>19 DEF Recover, Pending
<1>20. ASSUME NEW m \in Messages, KeepDrained(m) PROVE RowOf(n)'
  BY <1>20 DEF KeepDrained
<1>21. ASSUME NEW m \in Messages, DropDrained(m) PROVE RowOf(n)'
  BY <1>21 DEF DropDrained
<1>22. ASSUME NEW m \in Messages, Request(m) PROVE RowOf(n)'
  BY <1>22 DEF Request
<1>23. ASSUME NEW m \in Messages, Append(m) PROVE RowOf(n)'
  BY <1>23 DEF Append
<1>24. ASSUME NEW m \in Messages, AppendFails(m) PROVE RowOf(n)'
  BY <1>24 DEF AppendFails
<1>25. ASSUME NEW m \in Messages, Insert(m) PROVE RowOf(n)'
  <2>1. RowOf(n) /\ row[m] = "pending"
    BY <1>25 DEF Insert
  <2>2. CASE n = m
    <3>1. answer'[m] # "none"
      BY <1>25 DEF Insert, Messages
    <3> QED
      BY <1>25, <2>1, <2>2, <3>1 DEF Insert
  <2>3. CASE n # m
    BY <1>25, <2>1, <2>3 DEF Insert
  <2> QED
    BY <2>2, <2>3
<1>26. ASSUME NEW m \in Messages, MailboxFull(m) PROVE RowOf(n)'
  BY <1>26 DEF MailboxFull
<1>27. ASSUME NEW m \in Messages, Rollback(m) PROVE RowOf(n)'
  <2>1. Place(m) /\ RowOf(m) /\ RowOf(n) /\ row[m] = "pending" /\ enq[m] = "rollback"
    BY <1>27 DEF Rollback
  <2>2. m \notin mailbox /\ (m \in FollowUps => answer[m] # "none")
    BY <2>1
  <2>3. row' \in [Messages -> {"absent", "pending", "consumed"}] /\ row'[m] # "consumed"
    BY <1>27, <2>1 DEF Rollback
  <2>4. CASE n = m
    <3>1. answer'[n] # "none" /\ (n \in Queued => answer'[n] # "queued")
      BY <1>27, <2>2, <2>4 DEF Rollback, Messages
    <3> QED
      BY <1>27, <2>2, <2>3, <2>4, <3>1 DEF Rollback
  <2>5. CASE n # m
    <3>1. row'[n] = row[n] /\ enq'[n] = enq[n] /\ answer'[n] = answer[n]
      BY <1>27, <2>5 DEF Rollback
    <3> QED
      BY <1>27, <2>1, <2>5, <3>1 DEF Rollback
  <2> QED
    BY <2>4, <2>5
<1>28. ASSUME NEW m \in Messages, Remove(m) PROVE RowOf(n)'
  BY <1>28 DEF Remove
<1>29. ASSUME NEW m \in Messages, RemoveRow(m) PROVE RowOf(n)'
  BY <1>29 DEF RemoveRow
<1>30. ASSUME NEW m \in Messages, Purge(m) PROVE RowOf(n)'
  BY <1>30 DEF Purge
<1>31. ASSUME NEW m \in FollowUps, FilterInjected(m) PROVE RowOf(n)'
  BY <1>31 DEF FilterInjected
<1>32. ASSUME NEW m \in FollowUps, Park(m) PROVE RowOf(n)'
  BY <1>32 DEF Park
<1>33. ASSUME NEW m \in FollowUps, InjectOK(m) PROVE RowOf(n)'
  BY <1>33 DEF InjectOK
<1>34. ASSUME NEW m \in FollowUps, InjectRetracted(m) PROVE RowOf(n)'
  BY <1>34 DEF InjectRetracted
<1>35. ASSUME NEW m \in FollowUps, InjectRefused(m) PROVE RowOf(n)'
  BY <1>35 DEF InjectRefused
<1>36. ASSUME NEW m \in FollowUps, Retract(m) PROVE RowOf(n)'
  BY <1>36 DEF Retract
<1>37. ASSUME NEW m \in FollowUps, Cascade(m) PROVE RowOf(n)'
  BY <1>37 DEF Cascade
<1>38. ASSUME PreSave PROVE RowOf(n)'
  BY <1>38 DEF PreSave
<1>39. ASSUME StartLoop PROVE RowOf(n)'
  BY <1>39 DEF StartLoop
<1>40. CASE UNCHANGED vars
  BY <1>40 DEF vars
<1> QED
  BY <1>1, <1>2, <1>3, <1>4, <1>5, <1>6, <1>7, <1>8, <1>9, <1>10, <1>11, <1>12,
     <1>13, <1>14, <1>15, <1>16, <1>17, <1>18, <1>19, <1>20, <1>21, <1>22,
     <1>23, <1>24, <1>25, <1>26, <1>27, <1>28, <1>29, <1>30, <1>31, <1>32,
     <1>33, <1>34, <1>35, <1>36, <1>37, <1>38, <1>39, <1>40 DEF Next, Quiet

(* A message enters a turn when it leaves a buffer, and never comes back to    *)
(* one while the daemon lives.                                                 *)
LEMMA TurnNext ==
  TypeOK /\ StageInv /\ PlaceInv /\ TurnInv /\ [Next]_vars => TurnInv'
<1> SUFFICES ASSUME TypeOK, StageInv, PlaceInv, TurnInv, [Next]_vars, NEW n \in Messages
             PROVE  TurnsOf(n)'
  BY DEF TurnInv
<1> USE Kinds DEF TypeOK, StageInv, PlaceInv, Place, InFlight, TurnInv,
   TurnsOf, run, loopVars, ledgers, durable, calls, process, history, Enter,
   DeleteRow, EnqueueReturns
<1>1. ASSUME StartRun PROVE TurnsOf(n)'
  BY <1>1 DEF StartRun
<1>2. ASSUME DequeueBatch PROVE TurnsOf(n)'
  BY <1>2 DEF DequeueBatch
<1>3. ASSUME MailboxDrained PROVE TurnsOf(n)'
  BY <1>3 DEF MailboxDrained
<1>4. ASSUME FailEarly PROVE TurnsOf(n)'
  BY <1>4 DEF FailEarly
<1>5. ASSUME OpenInject PROVE TurnsOf(n)'
  BY <1>5 DEF OpenInject
<1>6. ASSUME TakeInjected PROVE TurnsOf(n)'
  BY <1>6 DEF TakeInjected
<1>7. ASSUME Save PROVE TurnsOf(n)'
  BY <1>7 DEF Save
<1>8. ASSUME MarkConsumed PROVE TurnsOf(n)'
  BY <1>8 DEF MarkConsumed
<1>9. ASSUME EndTurn PROVE TurnsOf(n)'
  BY <1>9 DEF EndTurn
<1>10. ASSUME StopTurn PROVE TurnsOf(n)'
  BY <1>10 DEF StopTurn
<1>11. ASSUME HardError PROVE TurnsOf(n)'
  BY <1>11 DEF HardError
<1>12. ASSUME FinalSave PROVE TurnsOf(n)'
  BY <1>12 DEF FinalSave
<1>13. ASSUME FinalSaveFails PROVE TurnsOf(n)'
  BY <1>13 DEF FinalSaveFails
<1>14. ASSUME Rescue PROVE TurnsOf(n)'
  BY <1>14 DEF Rescue
<1>15. ASSUME ParkingDone PROVE TurnsOf(n)'
  BY <1>15 DEF ParkingDone
<1>16. ASSUME ClearRun PROVE TurnsOf(n)'
  BY <1>16 DEF ClearRun
<1>17. ASSUME Cancel PROVE TurnsOf(n)'
  BY <1>17 DEF Cancel
<1>18. ASSUME Crash PROVE TurnsOf(n)'
  BY <1>18 DEF Crash
<1>19. ASSUME Recover PROVE TurnsOf(n)'
  BY <1>19 DEF Recover, Pending
<1>20. ASSUME NEW m \in Messages, KeepDrained(m) PROVE TurnsOf(n)'
  BY <1>20 DEF KeepDrained
<1>21. ASSUME NEW m \in Messages, DropDrained(m) PROVE TurnsOf(n)'
  BY <1>21 DEF DropDrained
<1>22. ASSUME NEW m \in Messages, Request(m) PROVE TurnsOf(n)'
  BY <1>22 DEF Request
<1>23. ASSUME NEW m \in Messages, Append(m) PROVE TurnsOf(n)'
  BY <1>23 DEF Append
<1>24. ASSUME NEW m \in Messages, AppendFails(m) PROVE TurnsOf(n)'
  BY <1>24 DEF AppendFails
<1>25. ASSUME NEW m \in Messages, Insert(m) PROVE TurnsOf(n)'
  BY <1>25 DEF Insert
<1>26. ASSUME NEW m \in Messages, MailboxFull(m) PROVE TurnsOf(n)'
  BY <1>26 DEF MailboxFull
<1>27. ASSUME NEW m \in Messages, Rollback(m) PROVE TurnsOf(n)'
  BY <1>27 DEF Rollback
<1>28. ASSUME NEW m \in Messages, Remove(m) PROVE TurnsOf(n)'
  BY <1>28 DEF Remove
<1>29. ASSUME NEW m \in Messages, RemoveRow(m) PROVE TurnsOf(n)'
  BY <1>29 DEF RemoveRow
<1>30. ASSUME NEW m \in Messages, Purge(m) PROVE TurnsOf(n)'
  BY <1>30 DEF Purge
<1>31. ASSUME NEW m \in FollowUps, FilterInjected(m) PROVE TurnsOf(n)'
  BY <1>31 DEF FilterInjected
<1>32. ASSUME NEW m \in FollowUps, Park(m) PROVE TurnsOf(n)'
  BY <1>32 DEF Park
<1>33. ASSUME NEW m \in FollowUps, InjectOK(m) PROVE TurnsOf(n)'
  BY <1>33 DEF InjectOK
<1>34. ASSUME NEW m \in FollowUps, InjectRetracted(m) PROVE TurnsOf(n)'
  BY <1>34 DEF InjectRetracted
<1>35. ASSUME NEW m \in FollowUps, InjectRefused(m) PROVE TurnsOf(n)'
  BY <1>35 DEF InjectRefused
<1>36. ASSUME NEW m \in FollowUps, Retract(m) PROVE TurnsOf(n)'
  BY <1>36 DEF Retract
<1>37. ASSUME NEW m \in FollowUps, Cascade(m) PROVE TurnsOf(n)'
  BY <1>37 DEF Cascade
<1>38. ASSUME PreSave PROVE TurnsOf(n)'
  BY <1>38 DEF PreSave
<1>39. ASSUME StartLoop PROVE TurnsOf(n)'
  BY <1>39 DEF StartLoop
<1>40. CASE UNCHANGED vars
  BY <1>40 DEF vars
<1> QED
  BY <1>1, <1>2, <1>3, <1>4, <1>5, <1>6, <1>7, <1>8, <1>9, <1>10, <1>11, <1>12,
     <1>13, <1>14, <1>15, <1>16, <1>17, <1>18, <1>19, <1>20, <1>21, <1>22,
     <1>23, <1>24, <1>25, <1>26, <1>27, <1>28, <1>29, <1>30, <1>31, <1>32,
     <1>33, <1>34, <1>35, <1>36, <1>37, <1>38, <1>39, <1>40 DEF Next, Quiet

(* Entering a turn from the channel and the entry in the committed ledger are  *)
(* one step, as are the verdict of Retract and its tombstone.                  *)
LEMMA LedgerNext ==
  TypeOK /\ StageInv /\ PlaceInv /\ LedgerInv /\ [Next]_vars => LedgerInv'
<1> SUFFICES ASSUME TypeOK, StageInv, PlaceInv, LedgerInv, [Next]_vars, NEW n \in FollowUps
             PROVE  LedgerOf(n)'
  BY DEF LedgerInv
<1> USE Kinds DEF TypeOK, StageInv, PlaceInv, Place, InFlight, LedgerInv,
   LedgerOf, run, loopVars, ledgers, durable, calls, process, history, Enter,
   DeleteRow, EnqueueReturns
<1>1. ASSUME StartRun PROVE LedgerOf(n)'
  BY <1>1 DEF StartRun
<1>2. ASSUME DequeueBatch PROVE LedgerOf(n)'
  BY <1>2 DEF DequeueBatch
<1>3. ASSUME MailboxDrained PROVE LedgerOf(n)'
  BY <1>3 DEF MailboxDrained
<1>4. ASSUME FailEarly PROVE LedgerOf(n)'
  BY <1>4 DEF FailEarly
<1>5. ASSUME OpenInject PROVE LedgerOf(n)'
  BY <1>5 DEF OpenInject
<1>6. ASSUME TakeInjected PROVE LedgerOf(n)'
  BY <1>6 DEF TakeInjected
<1>7. ASSUME Save PROVE LedgerOf(n)'
  BY <1>7 DEF Save
<1>8. ASSUME MarkConsumed PROVE LedgerOf(n)'
  BY <1>8 DEF MarkConsumed
<1>9. ASSUME EndTurn PROVE LedgerOf(n)'
  BY <1>9 DEF EndTurn
<1>10. ASSUME StopTurn PROVE LedgerOf(n)'
  BY <1>10 DEF StopTurn
<1>11. ASSUME HardError PROVE LedgerOf(n)'
  BY <1>11 DEF HardError
<1>12. ASSUME FinalSave PROVE LedgerOf(n)'
  BY <1>12 DEF FinalSave
<1>13. ASSUME FinalSaveFails PROVE LedgerOf(n)'
  BY <1>13 DEF FinalSaveFails
<1>14. ASSUME Rescue PROVE LedgerOf(n)'
  BY <1>14 DEF Rescue
<1>15. ASSUME ParkingDone PROVE LedgerOf(n)'
  BY <1>15 DEF ParkingDone
<1>16. ASSUME ClearRun PROVE LedgerOf(n)'
  BY <1>16 DEF ClearRun
<1>17. ASSUME Cancel PROVE LedgerOf(n)'
  BY <1>17 DEF Cancel
<1>18. ASSUME Crash PROVE LedgerOf(n)'
  BY <1>18 DEF Crash
<1>19. ASSUME Recover PROVE LedgerOf(n)'
  BY <1>19 DEF Recover, Pending
<1>20. ASSUME NEW m \in Messages, KeepDrained(m) PROVE LedgerOf(n)'
  BY <1>20 DEF KeepDrained
<1>21. ASSUME NEW m \in Messages, DropDrained(m) PROVE LedgerOf(n)'
  BY <1>21 DEF DropDrained
<1>22. ASSUME NEW m \in Messages, Request(m) PROVE LedgerOf(n)'
  BY <1>22 DEF Request
<1>23. ASSUME NEW m \in Messages, Append(m) PROVE LedgerOf(n)'
  BY <1>23 DEF Append
<1>24. ASSUME NEW m \in Messages, AppendFails(m) PROVE LedgerOf(n)'
  BY <1>24 DEF AppendFails
<1>25. ASSUME NEW m \in Messages, Insert(m) PROVE LedgerOf(n)'
  BY <1>25 DEF Insert
<1>26. ASSUME NEW m \in Messages, MailboxFull(m) PROVE LedgerOf(n)'
  BY <1>26 DEF MailboxFull
<1>27. ASSUME NEW m \in Messages, Rollback(m) PROVE LedgerOf(n)'
  BY <1>27 DEF Rollback
<1>28. ASSUME NEW m \in Messages, Remove(m) PROVE LedgerOf(n)'
  BY <1>28 DEF Remove
<1>29. ASSUME NEW m \in Messages, RemoveRow(m) PROVE LedgerOf(n)'
  BY <1>29 DEF RemoveRow
<1>30. ASSUME NEW m \in Messages, Purge(m) PROVE LedgerOf(n)'
  BY <1>30 DEF Purge
<1>31. ASSUME NEW m \in FollowUps, FilterInjected(m) PROVE LedgerOf(n)'
  BY <1>31 DEF FilterInjected
<1>32. ASSUME NEW m \in FollowUps, Park(m) PROVE LedgerOf(n)'
  BY <1>32 DEF Park
<1>33. ASSUME NEW m \in FollowUps, InjectOK(m) PROVE LedgerOf(n)'
  BY <1>33 DEF InjectOK
<1>34. ASSUME NEW m \in FollowUps, InjectRetracted(m) PROVE LedgerOf(n)'
  BY <1>34 DEF InjectRetracted
<1>35. ASSUME NEW m \in FollowUps, InjectRefused(m) PROVE LedgerOf(n)'
  BY <1>35 DEF InjectRefused
<1>36. ASSUME NEW m \in FollowUps, Retract(m) PROVE LedgerOf(n)'
  BY <1>36 DEF Retract
<1>37. ASSUME NEW m \in FollowUps, Cascade(m) PROVE LedgerOf(n)'
  BY <1>37 DEF Cascade
<1>38. ASSUME PreSave PROVE LedgerOf(n)'
  BY <1>38 DEF PreSave
<1>39. ASSUME StartLoop PROVE LedgerOf(n)'
  BY <1>39 DEF StartLoop
<1>40. CASE UNCHANGED vars
  BY <1>40 DEF vars
<1> QED
  BY <1>1, <1>2, <1>3, <1>4, <1>5, <1>6, <1>7, <1>8, <1>9, <1>10, <1>11, <1>12,
     <1>13, <1>14, <1>15, <1>16, <1>17, <1>18, <1>19, <1>20, <1>21, <1>22,
     <1>23, <1>24, <1>25, <1>26, <1>27, <1>28, <1>29, <1>30, <1>31, <1>32,
     <1>33, <1>34, <1>35, <1>36, <1>37, <1>38, <1>39, <1>40 DEF Next, Quiet

(* Whatever takes an accepted message out of a buffer puts it in a turn, in    *)
(* another buffer or in the session, or drops it for a tombstone, for a        *)
(* mailbox that refused it, or with the prompt of a run that ends early.       *)
LEMMA KeptNext ==
  TypeOK /\ StageInv /\ PlaceInv /\ RowInv /\ KeptInv /\ [Next]_vars => KeptInv'
<1> SUFFICES ASSUME TypeOK, StageInv, PlaceInv, RowInv, KeptInv, [Next]_vars, NEW n \in Messages
             PROVE  KeptOf(n)'
  BY DEF KeptInv
<1> USE Kinds, KindsDiffer DEF TypeOK, StageInv, PlaceInv, Place, InFlight, RowInv,
   RowOf, KeptInv, KeptOf, run, loopVars, ledgers, durable, calls, process, history,
   Enter, DeleteRow, EnqueueReturns
<1>1. ASSUME StartRun PROVE KeptOf(n)'
  BY <1>1 DEF StartRun
<1>2. ASSUME DequeueBatch PROVE KeptOf(n)'
  BY <1>2 DEF DequeueBatch
<1>3. ASSUME MailboxDrained PROVE KeptOf(n)'
  BY <1>3 DEF MailboxDrained
<1>4. ASSUME FailEarly PROVE KeptOf(n)'
  BY <1>4 DEF FailEarly
<1>5. ASSUME OpenInject PROVE KeptOf(n)'
  BY <1>5 DEF OpenInject
<1>6. ASSUME TakeInjected PROVE KeptOf(n)'
  BY <1>6 DEF TakeInjected
<1>7. ASSUME Save PROVE KeptOf(n)'
  BY <1>7 DEF Save
<1>8. ASSUME MarkConsumed PROVE KeptOf(n)'
  BY <1>8 DEF MarkConsumed
<1>9. ASSUME EndTurn PROVE KeptOf(n)'
  BY <1>9 DEF EndTurn
<1>10. ASSUME StopTurn PROVE KeptOf(n)'
  BY <1>10 DEF StopTurn
<1>11. ASSUME HardError PROVE KeptOf(n)'
  BY <1>11 DEF HardError
<1>12. ASSUME FinalSave PROVE KeptOf(n)'
  BY <1>12 DEF FinalSave
<1>13. ASSUME FinalSaveFails PROVE KeptOf(n)'
  BY <1>13 DEF FinalSaveFails
<1>14. ASSUME Rescue PROVE KeptOf(n)'
  BY <1>14 DEF Rescue
<1>15. ASSUME ParkingDone PROVE KeptOf(n)'
  BY <1>15 DEF ParkingDone
<1>16. ASSUME ClearRun PROVE KeptOf(n)'
  BY <1>16 DEF ClearRun
<1>17. ASSUME Cancel PROVE KeptOf(n)'
  BY <1>17 DEF Cancel
<1>18. ASSUME Crash PROVE KeptOf(n)'
  BY <1>18 DEF Crash
<1>19. ASSUME Recover PROVE KeptOf(n)'
  BY <1>19 DEF Recover, Pending
<1>20. ASSUME NEW m \in Messages, KeepDrained(m) PROVE KeptOf(n)'
  BY <1>20 DEF KeepDrained
<1>21. ASSUME NEW m \in Messages, DropDrained(m) PROVE KeptOf(n)'
  BY <1>21 DEF DropDrained
<1>22. ASSUME NEW m \in Messages, Request(m) PROVE KeptOf(n)'
  BY <1>22 DEF Request
<1>23. ASSUME NEW m \in Messages, Append(m) PROVE KeptOf(n)'
  BY <1>23 DEF Append
<1>24. ASSUME NEW m \in Messages, AppendFails(m) PROVE KeptOf(n)'
  BY <1>24 DEF AppendFails
<1>25. ASSUME NEW m \in Messages, Insert(m) PROVE KeptOf(n)'
  BY <1>25 DEF Insert
<1>26. ASSUME NEW m \in Messages, MailboxFull(m) PROVE KeptOf(n)'
  BY <1>26 DEF MailboxFull
<1>27. ASSUME NEW m \in Messages, Rollback(m) PROVE KeptOf(n)'
  BY <1>27 DEF Rollback
<1>28. ASSUME NEW m \in Messages, Remove(m) PROVE KeptOf(n)'
  BY <1>28 DEF Remove
<1>29. ASSUME NEW m \in Messages, RemoveRow(m) PROVE KeptOf(n)'
  BY <1>29 DEF RemoveRow
<1>30. ASSUME NEW m \in Messages, Purge(m) PROVE KeptOf(n)'
  BY <1>30 DEF Purge
<1>31. ASSUME NEW m \in FollowUps, FilterInjected(m) PROVE KeptOf(n)'
  BY <1>31 DEF FilterInjected
<1>32. ASSUME NEW m \in FollowUps, Park(m) PROVE KeptOf(n)'
  BY <1>32 DEF Park
<1>33. ASSUME NEW m \in FollowUps, InjectOK(m) PROVE KeptOf(n)'
  BY <1>33 DEF InjectOK
<1>34. ASSUME NEW m \in FollowUps, InjectRetracted(m) PROVE KeptOf(n)'
  BY <1>34 DEF InjectRetracted
<1>35. ASSUME NEW m \in FollowUps, InjectRefused(m) PROVE KeptOf(n)'
  BY <1>35 DEF InjectRefused
<1>36. ASSUME NEW m \in FollowUps, Retract(m) PROVE KeptOf(n)'
  BY <1>36 DEF Retract
<1>37. ASSUME NEW m \in FollowUps, Cascade(m) PROVE KeptOf(n)'
  BY <1>37 DEF Cascade
<1>38. ASSUME PreSave PROVE KeptOf(n)'
  BY <1>38 DEF PreSave
<1>39. ASSUME StartLoop PROVE KeptOf(n)'
  BY <1>39 DEF StartLoop
<1>40. CASE UNCHANGED vars
  BY <1>40 DEF vars
<1> QED
  BY <1>1, <1>2, <1>3, <1>4, <1>5, <1>6, <1>7, <1>8, <1>9, <1>10, <1>11, <1>12,
     <1>13, <1>14, <1>15, <1>16, <1>17, <1>18, <1>19, <1>20, <1>21, <1>22,
     <1>23, <1>24, <1>25, <1>26, <1>27, <1>28, <1>29, <1>30, <1>31, <1>32,
     <1>33, <1>34, <1>35, <1>36, <1>37, <1>38, <1>39, <1>40 DEF Next, Quiet

-----------------------------------------------------------------------------
(* The inductive invariant, layer by layer. *)
InjectInv ==
  TypeOK /\ StageInv /\ PlaceInv /\ RowInv /\ TurnInv /\ LedgerInv /\ KeptInv

(* A daemon that has just started holds nothing and has answered nobody.       *)
LEMMA InjectInit == Init => InjectInv
<1> SUFFICES ASSUME Init PROVE InjectInv
  OBVIOUS
<1>1. TypeOK
  BY TypeInit
<1>2. StageInv
  BY DEF Init, StageInv
<1>3. PlaceInv
  BY DEF Init, PlaceInv, Place, InFlight
<1>4. RowInv
  BY DEF Init, RowInv, RowOf, InFlight, Unsent
<1>5. TurnInv
  BY DEF Init, TurnInv, TurnsOf
<1>6. LedgerInv
  BY Kinds DEF Init, LedgerInv, LedgerOf
<1>7. KeptInv
  BY Kinds DEF Init, KeptInv, KeptOf
<1> QED
  BY <1>1, <1>2, <1>3, <1>4, <1>5, <1>6, <1>7 DEF InjectInv

(* The layers hold in every reachable state.                                   *)
LEMMA InjectInvariant == Spec => []InjectInv
<1>1. InjectInv /\ [Next]_vars => InjectInv'
  BY TypeNext, StageNext, PlaceNext, RowNext, TurnNext, LedgerNext, KeptNext DEF InjectInv
<1> QED
  BY InjectInit, <1>1, PTL DEF Spec

-----------------------------------------------------------------------------
(* What injection, the queue and retraction promise *)

(* No handler and no step of a run takes a variable out of its type, and the   *)
(* channel and the mailbox never hold more than their capacity.                *)
THEOREM TypeCorrect == Spec => []TypeOK
<1>1. InjectInv => TypeOK
  BY DEF InjectInv
<1> QED
  BY InjectInvariant, <1>1, PTL

(* At every moment a crash of the daemon would lose no message that waits in   *)
(* its mailbox: a pending row stands behind each (EnqueueMessage persists      *)
(* before it inserts; both retract paths delete the row last).                 *)
THEOREM MailboxBacked == Spec => []MailboxIsBacked
<1>1. InjectInv => MailboxIsBacked
  BY DEF InjectInv, TypeOK, RowInv, RowOf, MailboxIsBacked, Pending
<1> QED
  BY InjectInvariant, <1>1, PTL

(* A message POST /queue acknowledged stays in the table or is in the session, *)
(* through any number of crashes and failed runs, until somebody deletes it.   *)
THEOREM QueuedNeverVanishes == Spec => []QueuedSurvives
<1>1. InjectInv => QueuedSurvives
  BY Kinds DEF InjectInv, RowInv, RowOf, QueuedSurvives
<1> QED
  BY InjectInvariant, <1>1, PTL

(* While the daemon lives, a message that was accepted reaches a turn or the   *)
(* session or is on its way there, unless somebody deleted it, the mailbox     *)
(* refused it, or the run that had drained it returned before its loop began;  *)
(* then the row that brings it back at the next start is still pending.        *)
THEOREM AcceptedIsKept == Spec => []AcceptedNotLost
<1>1. InjectInv => AcceptedNotLost
  BY DEF InjectInv, KeptInv, KeptOf, AcceptedNotLost
<1> QED
  BY InjectInvariant, <1>1, PTL

(* While the daemon lives, no message enters two turns, whether the channel,   *)
(* the survivors at the end of a turn or the mailbox drain carries it.         *)
THEOREM NoSecondTurn == Spec => []EntersOnce
<1>1. InjectInv => EntersOnce
  BY DEF InjectInv, TurnInv, TurnsOf, EntersOnce
<1> QED
  BY InjectInvariant, <1>1, PTL

(* What RetractInjectWithStatus answers is true of the channel.                *)
THEOREM RetractAnswersTruly == Spec => []RetractIsHonest
<1>1. InjectInv => RetractIsHonest
  BY DEF InjectInv, LedgerInv, LedgerOf, RetractIsHonest
<1> QED
  BY InjectInvariant, <1>1, PTL

(* A step lets into a turn only what it takes from the channel, the batch of   *)
(* the loop or the prompt, and into the prompt only what DrainMailbox dequeued. *)
LEMMA OnlyFromBuffers ==
  ASSUME InjectInv, [Next]_vars, NEW m \in Messages, m \notin prompt,
         m \in prompt' \/ entered'[m] # entered[m]
  PROVE  m \in injectCh \cup loopBatch \cup batch
<1> USE DEF Enter, run, loopVars, ledgers, durable, calls, process, history
<1>1. CASE \E k \in Messages : KeepDrained(k)
  BY <1>1 DEF KeepDrained
<1>2. CASE \E k \in FollowUps : FilterInjected(k)
  BY <1>2 DEF FilterInjected
<1>3. CASE EndTurn
  BY <1>3 DEF EndTurn
<1>4. CASE StartLoop
  BY <1>4 DEF StartLoop
<1> QED
  BY <1>1, <1>2, <1>3, <1>4 DEF Next, Quiet, vars, StartRun, DequeueBatch,
     MailboxDrained, FailEarly, OpenInject, PreSave, TakeInjected, Save, MarkConsumed,
     StopTurn, HardError, FinalSave, FinalSaveFails, Rescue, ParkingDone,
     ClearRun, Cancel, Crash, Recover, DropDrained, Request, Append,
     AppendFails, Insert, MailboxFull, Rollback, Remove, RemoveRow, Purge,
     Park, InjectOK, InjectRetracted, InjectRefused, Retract, Cascade

(* A message whose row is stamped consumed joins no prompt and no turn again,  *)
(* not after a crash either.                                                   *)
THEOREM ConsumedStaysOut == Spec => ConsumedNotReplayed
<1>1. InjectInv /\ [Next]_vars =>
        [\A m \in Messages : row[m] = "consumed" /\ m \notin prompt =>
           m \notin prompt' /\ entered'[m] = entered[m]]_vars
  BY OnlyFromBuffers DEF InjectInv, RowInv, RowOf
<1> QED
  BY InjectInvariant, <1>1, PTL DEF Spec, ConsumedNotReplayed

=============================================================================

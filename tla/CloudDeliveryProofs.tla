------------------------- MODULE CloudDeliveryProofs -------------------------
(***************************************************************************)
(* Proofs about CloudDelivery, for any number of messages, handlers,         *)
(* slots, lost connections and crashes.                                      *)
(***************************************************************************)
EXTENDS CloudDelivery, SequenceTheorems, FiniteSetTheorems, TLAPS

(* What TypeOK rests on.                                                     *)
Typed(i) ==
  /\ pc[i] # "idle" => to[i] \in Msgs
  /\ pc[i] \in {"inter", "interAck"} => sup[i] \in Msgs
  /\ pc[i] = "begun" => queue = {} /\ window = "closed"

TypeInv == TypeOK /\ \A i \in Handlers : Typed(i)

(* The inductive invariant follows a message from the place where its        *)
(* acknowledgement is planned to the text that is to be sent before it.      *)
Said == told \cup unsaid

Owed(i) ==
  /\ pc[i] \in {"slot", "claim", "route", "accepted", "lock", "begun"} => to[i] = msg[i]
  /\ pc[i] = "begun" => msg[i] \in turn[i]
  /\ pc[i] \in {"loop", "inter", "interAck", "teardown", "plan"} => to[i] \in turn[i]
  /\ pc[i] \in {"loop", "interAck", "teardown", "plan", "reply"} => pend[i] \subseteq turn[i] \cup Said
  /\ pc[i] = "inter" => sup[i] \in late[i] /\ pend[i] \subseteq turn[i] \cup late[i] \cup Said
  /\ pc[i] = "interAck" => sup[i] \in late[i] /\ late[i] \subseteq told
  /\ pc[i] = "ack" => pend[i] \subseteq Said

(* The plan a handler finds at its end is the one it made itself.            *)
Planned(i) ==
  pc[i] = "finish" =>
    \/ plans[msg[i]] = Suppress
    \/ plans[msg[i]] = None /\ msg[i] \in turn[i]
    \/ /\ plans[msg[i]] \in Answers
       /\ plans[msg[i]].to \in turn[i]
       /\ plans[msg[i]].acks \subseteq turn[i] \cup Said

PlanOwned ==
  \A m \in Msgs : plans[m] # None => \E i \in Handlers : msg[i] = m /\ pc[i] = "finish"

Exclusive ==
  \A i, j \in Handlers : i # j /\ Live(i) /\ Live(j) => msg[i] # msg[j]

AckInv ==
  /\ TypeInv
  /\ \A i \in Handlers : Owed(i) /\ Planned(i)
  /\ PlanOwned /\ Exclusive
  /\ acked \subseteq Said

-----------------------------------------------------------------------------
LEMMA ChanFacts ==
  ASSUME NEW q \in Seq(Msgs)
  PROVE  /\ Range(q) \subseteq Msgs
         /\ q # <<>> => q[Len(q)] \in Range(q) /\ Len(q) > 0
         /\ \A m \in Msgs : Append(q, m) \in Seq(Msgs) /\ Len(Append(q, m)) = Len(q) + 1
BY DEF Range

LEMMA NoHandlerZero == 0 \notin Handlers
BY DEF Handlers

LEMMA PlanFacts ==
  /\ Suppress \notin Answers /\ None \notin Answers /\ None # Suppress /\ None \notin Msgs
  /\ \A t \in Msgs, a \in SUBSET Msgs :
       Answer(t, a) \in Answers /\ Answer(t, a).to = t /\ Answer(t, a).acks = a
  /\ \A p \in Answers : p.to \in Msgs /\ p.acks \in SUBSET Msgs
BY CloudConstants DEF Suppress, Answers, Answer

-----------------------------------------------------------------------------
LEMMA TypeInit == Init => TypeInv
BY CloudConstants, NoHandlerZero, PlanFacts DEF Init, TypeInv, TypeOK, Typed, Waiting, Busy

LEMMA TypeStep == TypeInv /\ [Next]_vars => TypeInv'
<1> SUFFICES ASSUME TypeInv, [Next]_vars PROVE TypeInv'
  OBVIOUS
<1> USE CloudConstants, NoHandlerZero, PlanFacts DEF TypeInv, TypeOK, Typed, Waiting, Busy, Goto, At, Live, wire, route, reply, history
<1>1. ASSUME NEW i \in Handlers, NEW m \in Msgs, Deliver(i, m) PROVE TypeInv'
  BY <1>1 DEF Deliver
<1>2. CASE Drop
  BY <1>2 DEF Drop
<1>3. CASE Reconnect
  BY <1>3 DEF Reconnect
<1>4. CASE Crash
  BY <1>4 DEF Crash
<1>5. ASSUME NEW i \in Handlers, Step(i) PROVE TypeInv'
  <2>1. CASE AcquireSlot(i)
    BY <2>1 DEF AcquireSlot
  <2>2. CASE Granted(i)
    BY <2>2 DEF Granted
  <2>3. CASE NotGranted(i)
    BY <2>3 DEF NotGranted, ClaimFails
  <2>4. CASE Inject(i)
    BY <2>4, ChanFacts DEF Inject
  <2>5. CASE SuppressReply(i)
    BY <2>5 DEF SuppressReply, Suppressed
  <2>6. CASE Reject(i)
    BY <2>6 DEF Reject
  <2>7. CASE NoActiveRun(i)
    BY <2>7 DEF NoActiveRun
  <2>8. CASE BeginRun(i)
    BY <2>8, SMTT(20) DEF BeginRun, RouteFree
  <2>9. CASE SetupFails(i)
    BY <2>9 DEF SetupFails
  <2>10. CASE EnterLoop(i)
    BY <2>10 DEF EnterLoop
  <2>11. CASE DrainInjected(i)
    BY <2>11, ChanFacts DEF DrainInjected, Commit
  <2>12. CASE EndTurnGoesOn(i)
    BY <2>12, ChanFacts DEF EndTurnGoesOn, Commit
  <2>13. CASE OnIntermediateAnswer(i)
    BY <2>13 DEF OnIntermediateAnswer
  <2>14. CASE IntermediateAck(i)
    BY <2>14 DEF IntermediateAck, Onward, RemovePendingAck
  <2>15. CASE IntermediateFails(i)
    BY <2>15 DEF IntermediateFails, Onward, RemovePendingAck
  <2>16. CASE EndTurn(i)
    BY <2>16 DEF EndTurn
  <2>17. CASE LoopFails(i)
    BY <2>17 DEF LoopFails
  <2>18. CASE ReEnqueueInjectSurvivors(i)
    <3>1. Range(chan) \subseteq Msgs /\ <<>> \in Seq(Msgs) /\ Len(<<>>) = 0
      BY ChanFacts
    <3> QED
      BY <2>18, <3>1 DEF ReEnqueueInjectSurvivors
  <2>19. CASE UnlockRoute(i)
    BY <2>19 DEF UnlockRoute
  <2>20. CASE SetReplyPlan(i)
    BY <2>20 DEF SetReplyPlan
  <2>21. CASE TakePlan(i)
    <3>1. msg[i] \in Msgs /\ plans[msg[i]] \in {None} \cup Answers
      BY <2>21 DEF TakePlan
    <3>2. ReplyID(i) \in Msgs /\ AckIDs(i) \in SUBSET Msgs
      BY <3>1 DEF ReplyID, AckIDs
    <3> QED
      BY <2>21, <3>1, <3>2 DEF TakePlan
  <2>22. CASE SendReply(i)
    BY <2>22 DEF SendReply
  <2>23. CASE ReplyNotSent(i)
    BY <2>23 DEF ReplyNotSent, ReplyFails
  <2>24. ASSUME NEW m \in Msgs, SendDeliveryAck(i, m) PROVE TypeInv'
    BY <2>24 DEF SendDeliveryAck
  <2>25. CASE TakeSuppression(i)
    BY <2>25 DEF TakeSuppression
  <2> QED
    BY <1>5, <2>1, <2>2, <2>3, <2>4, <2>5, <2>6, <2>7, <2>8, <2>9, <2>10, <2>11, <2>12, <2>13,
       <2>14, <2>15, <2>16, <2>17, <2>18, <2>19, <2>20, <2>21, <2>22, <2>23, <2>24, <2>25 DEF Step
<1>6. CASE UNCHANGED vars
  BY <1>6 DEF vars
<1> QED
  BY <1>1, <1>2, <1>3, <1>4, <1>5, <1>6 DEF Next

(* The types of CloudDelivery's state: in particular a handler owns the      *)
(* route exactly while its run does, and an open window has an owner.        *)
THEOREM CloudTypeCorrect == Spec => []TypeOK
<1>1. TypeInv => TypeOK
  BY DEF TypeInv
<1> QED
  BY <1>1, TypeInit, TypeStep, PTL DEF Spec

-----------------------------------------------------------------------------
LEMMA AckInit == Init => AckInv
<1> SUFFICES ASSUME Init PROVE AckInv
  OBVIOUS
<1>1. TypeInv
  BY TypeInit
<1> QED
  BY <1>1 DEF Init, AckInv, Owed, Planned, PlanOwned, Exclusive, Live, Waiting, Busy

LEMMA AckStep == ASSUME ExclusiveClaims PROVE AckInv /\ [Next]_vars => AckInv'
<1> SUFFICES ASSUME AckInv, [Next]_vars PROVE AckInv'
  OBVIOUS
<1>0. TypeInv'
  BY TypeStep DEF AckInv
<1> USE <1>0, PlanFacts
    DEF AckInv, TypeInv, TypeOK, Typed, Owed, Planned, PlanOwned, Exclusive, Said,
        Waiting, Busy, Goto, At, Live, wire, route, reply, history
<1>1. ASSUME NEW i \in Handlers, NEW m \in Msgs, Deliver(i, m) PROVE AckInv'
  BY <1>1 DEF Deliver
<1>2. CASE Drop
  BY <1>2 DEF Drop
<1>3. CASE Reconnect
  BY <1>3 DEF Reconnect
<1>4. CASE Crash
  <2>1. (\A j \in Handlers : Owed(j))'
    BY <1>4 DEF Crash
  <2>2. (\A j \in Handlers : Planned(j))'
    BY <1>4 DEF Crash
  <2>3. PlanOwned' /\ Exclusive' /\ (acked \subseteq Said)'
    BY <1>4 DEF Crash
  <2> QED
    BY <2>1, <2>2, <2>3
<1>5. ASSUME NEW i \in Handlers, Step(i) PROVE AckInv'
  <2>1. CASE AcquireSlot(i)
    BY <2>1 DEF AcquireSlot
  <2>2. CASE Granted(i)
    BY <2>2 DEF Granted
  <2>3. CASE NotGranted(i)
    BY <2>3 DEF NotGranted, ClaimFails
  <2>4. CASE Inject(i)
    BY <2>4 DEF Inject
  <2>5. CASE SuppressReply(i)
    BY <2>5 DEF SuppressReply, Suppressed
  <2>6. CASE Reject(i)
    BY <2>6 DEF Reject
  <2>7. CASE NoActiveRun(i)
    BY <2>7 DEF NoActiveRun
  <2>8. CASE BeginRun(i)
    <3>1. (\A j \in Handlers : Owed(j))'
      BY <2>8 DEF BeginRun, RouteFree
    <3>2. (\A j \in Handlers : Planned(j))'
      BY <2>8 DEF BeginRun, RouteFree
    <3>3. PlanOwned' /\ Exclusive' /\ (acked \subseteq Said)'
      BY <2>8 DEF BeginRun, RouteFree
    <3> QED
      BY <3>1, <3>2, <3>3
  <2>9. CASE SetupFails(i)
    <3>1. (\A j \in Handlers : Owed(j))'
      BY <2>9 DEF SetupFails
    <3>2. (\A j \in Handlers : Planned(j))'
      BY <2>9 DEF SetupFails
    <3>3. PlanOwned' /\ Exclusive' /\ (acked \subseteq Said)'
      BY <2>9 DEF SetupFails
    <3> QED
      BY <3>1, <3>2, <3>3
  <2>10. CASE EnterLoop(i)
    <3>1. (\A j \in Handlers : Owed(j))'
      BY <2>10 DEF EnterLoop
    <3>2. (\A j \in Handlers : Planned(j))'
      BY <2>10 DEF EnterLoop
    <3>3. PlanOwned' /\ Exclusive' /\ (acked \subseteq Said)'
      BY <2>10 DEF EnterLoop
    <3> QED
      BY <3>1, <3>2, <3>3
  <2>11. CASE DrainInjected(i)
    <3>1. (\A j \in Handlers : Owed(j))'
      BY <2>11, ChanFacts DEF DrainInjected, Commit
    <3>2. (\A j \in Handlers : Planned(j))'
      BY <2>11, ChanFacts DEF DrainInjected, Commit
    <3>3. PlanOwned' /\ Exclusive' /\ (acked \subseteq Said)'
      BY <2>11, ChanFacts DEF DrainInjected, Commit
    <3> QED
      BY <3>1, <3>2, <3>3
  <2>12. CASE EndTurnGoesOn(i)
    <3>1. (\A j \in Handlers : Owed(j))'
      BY <2>12, ChanFacts DEF EndTurnGoesOn, Commit
    <3>2. (\A j \in Handlers : Planned(j))'
      BY <2>12, ChanFacts DEF EndTurnGoesOn, Commit
    <3>3. PlanOwned' /\ Exclusive' /\ (acked \subseteq Said)'
      BY <2>12, ChanFacts DEF EndTurnGoesOn, Commit
    <3> QED
      BY <3>1, <3>2, <3>3
  <2>13. CASE OnIntermediateAnswer(i)
    BY <2>13 DEF OnIntermediateAnswer
  <2>14. CASE IntermediateAck(i)
    BY <2>14 DEF IntermediateAck, Onward, RemovePendingAck
  <2>15. CASE IntermediateFails(i)
    BY <2>15 DEF IntermediateFails, Onward, RemovePendingAck
  <2>16. CASE EndTurn(i)
    BY <2>16 DEF EndTurn
  <2>17. CASE LoopFails(i)
    BY <2>17 DEF LoopFails
  <2>18. CASE ReEnqueueInjectSurvivors(i)
    <3>1. (\A j \in Handlers : Owed(j))'
      BY <2>18 DEF ReEnqueueInjectSurvivors
    <3>2. (\A j \in Handlers : Planned(j))'
      BY <2>18 DEF ReEnqueueInjectSurvivors
    <3>3. PlanOwned' /\ Exclusive' /\ (acked \subseteq Said)'
      BY <2>18 DEF ReEnqueueInjectSurvivors
    <3> QED
      BY <3>1, <3>2, <3>3
  <2>19. CASE UnlockRoute(i)
    <3>1. (\A j \in Handlers : Owed(j))'
      BY <2>19 DEF UnlockRoute
    <3>2. (\A j \in Handlers : Planned(j))' /\ PlanOwned' /\ Exclusive' /\ (acked \subseteq Said)'
      BY <2>19 DEF UnlockRoute
    <3> QED
      BY <3>1, <3>2
  <2>20. CASE SetReplyPlan(i)
    BY <2>20 DEF SetReplyPlan
  <2>21. CASE TakeSuppression(i)
    BY <2>21 DEF TakeSuppression
  <2>22. CASE TakePlan(i)
    BY <2>22 DEF TakePlan, ReplyID, AckIDs
  <2>23. CASE SendReply(i)
    BY <2>23 DEF SendReply
  <2>24. CASE ReplyNotSent(i)
    BY <2>24 DEF ReplyNotSent, ReplyFails
  <2>25. ASSUME NEW m \in Msgs, SendDeliveryAck(i, m) PROVE AckInv'
    BY <2>25 DEF SendDeliveryAck
  <2> QED
    BY <1>5, <2>1, <2>2, <2>3, <2>4, <2>5, <2>6, <2>7, <2>8, <2>9, <2>10, <2>11, <2>12, <2>13, <2>14, <2>15, <2>16, <2>17, <2>18, <2>19, <2>20, <2>21, <2>22, <2>23, <2>24, <2>25 DEF Step
<1>6. CASE UNCHANGED vars
  BY <1>6 DEF vars
<1> QED
  BY <1>1, <1>2, <1>3, <1>4, <1>5, <1>6 DEF Next

(* No loss by acknowledgement: when the Cloud gives no message to two        *)
(* handlers at a time, a message is acknowledged only after a text about it  *)
(* was sent, or an intermediate answer that was about it was lost.           *)
THEOREM AcknowledgedIsSaid == ASSUME ExclusiveClaims PROVE Spec => []AckedOrUnsaid
<1>1. AckInv => AckedOrUnsaid
  BY DEF AckInv, Said, AckedOrUnsaid
<1> QED
  BY <1>1, AckInit, AckStep, PTL DEF Spec

-----------------------------------------------------------------------------
(* Who may still reply in the name of which message: a handler by the reply  *)
(* at its end ("to"), or by the intermediate answer it is sending ("sup"),   *)
(* and a place of the inject channel ("chan"), whose message the run will    *)
(* answer for.                                                               *)
Slots == {"to", "sup", "chan"} \X (1..MaxHandlers \cup 1..ChanCap)

Owes(i) ==
  IF pc[i] \in {"idle", "accepted", "ack", "done"} \/ (pc[i] = "finish" /\ plans[msg[i]] = Suppress)
  THEN None
  ELSE IF pc[i] = "finish" THEN ReplyID(i) ELSE to[i]

Owing ==
  [s \in Slots |->
     CASE s[1] = "to" /\ s[2] \in Handlers -> Owes(s[2])
       [] s[1] = "sup" /\ s[2] \in Handlers -> IF pc[s[2]] = "inter" THEN sup[s[2]] ELSE None
       [] s[1] = "chan" /\ s[2] \in DOMAIN chan -> chan[s[2]]
       [] OTHER -> None]

For(owing, m) == {s \in Slots : owing[s] = m}
Delivered(ms, m) == {i \in Handlers : ms[i] = m}

(* Each delivery of a message brings one reply, made or still owed.          *)
ReplyInv ==
  \A m \in Msgs : replies[m] + Cardinality(For(Owing, m)) <= Cardinality(Delivered(msg, m))

(* All these sets are finite.                                                *)
LEMMA SlotFacts ==
  /\ IsFiniteSet(Slots)
  /\ \A o, m : IsFiniteSet(For(o, m)) /\ Cardinality(For(o, m)) \in Nat
  /\ \A ms, m : IsFiniteSet(Delivered(ms, m)) /\ Cardinality(Delivered(ms, m)) \in Nat
<1>1. IsFiniteSet({"to", "sup", "chan"})
  <2>1. IsFiniteSet({"to"})
    BY FS_Singleton
  <2>2. IsFiniteSet({"to"} \cup {"sup"})
    BY <2>1, FS_AddElement
  <2>3. IsFiniteSet(({"to"} \cup {"sup"}) \cup {"chan"})
    BY <2>2, FS_AddElement
  <2>4. {"to", "sup", "chan"} = ({"to"} \cup {"sup"}) \cup {"chan"}
    OBVIOUS
  <2> QED
    BY <2>3, <2>4
<1>2. IsFiniteSet(Handlers) /\ IsFiniteSet(1..MaxHandlers) /\ IsFiniteSet(1..ChanCap)
  BY CloudConstants, FS_Interval DEF Handlers
<1>3. IsFiniteSet(1..MaxHandlers \cup 1..ChanCap)
  BY <1>2, FS_Union
<1>4. IsFiniteSet(Slots)
  BY <1>1, <1>3, FS_Product DEF Slots
<1>5. ASSUME NEW o, NEW m PROVE IsFiniteSet(For(o, m)) /\ Cardinality(For(o, m)) \in Nat
  <2>1. For(o, m) \in SUBSET Slots
    BY DEF For
  <2>2. IsFiniteSet(For(o, m))
    BY <1>4, <2>1, FS_Subset
  <2> QED
    BY <2>2, FS_CardinalityType
<1>6. ASSUME NEW ms, NEW m
      PROVE  IsFiniteSet(Delivered(ms, m)) /\ Cardinality(Delivered(ms, m)) \in Nat
  BY <1>2, FS_Subset, FS_CardinalityType DEF Delivered
<1> QED
  BY <1>4, <1>5, <1>6

(* When every message that is owed was owed before, at a place of its own,   *)
(* no message is owed more replies.                                          *)
LEMMA OwedMoves ==
  ASSUME NEW o, NEW o1, NEW from \in [Slots -> Slots], NEW m,
         \A s, t \in Slots : from[s] = from[t] => s = t,
         \A s \in Slots : o1[s] = m => o[from[s]] = m
  PROVE  Cardinality(For(o1, m)) <= Cardinality(For(o, m))
<1> DEFINE f == [s \in For(o1, m) |-> from[s]]
<1>1. f \in [For(o1, m) -> For(o, m)]
  BY DEF For
<1>2. \A s, t \in For(o1, m) : f[s] = f[t] => s = t
  BY DEF For
<1>3. f \in Injection(For(o1, m), For(o, m))
  BY <1>1, <1>2 DEF Injection, IsInjective
<1> QED
  BY <1>3, SlotFacts, FS_Injection

(* A reply that is made is no longer owed.                                   *)
LEMMA OwedPaid ==
  ASSUME NEW o, NEW o1, NEW s \in Slots, o[s] \in Msgs, o1[s] = None,
         \A t \in Slots \ {s} : o1[t] = o[t]
  PROVE  /\ Cardinality(For(o1, o[s])) = Cardinality(For(o, o[s])) - 1
         /\ \A m \in Msgs \ {o[s]} : For(o1, m) = For(o, m)
<1>1. None \notin Msgs
  BY PlanFacts
<1>2. s \in For(o, o[s]) /\ For(o1, o[s]) = For(o, o[s]) \ {s}
  BY <1>1 DEF For
<1>3. \A m \in Msgs \ {o[s]} : For(o1, m) = For(o, m)
  BY <1>1 DEF For
<1>4. IsFiniteSet(For(o, o[s]))
  BY SlotFacts
<1>5. Cardinality(For(o, o[s]) \ {s}) = Cardinality(For(o, o[s])) - 1
  BY <1>2, <1>4, FS_RemoveElement
<1> QED
  BY <1>2, <1>3, <1>5

(* The places of Slots, and what each owes.                                  *)
LEMMA SlotShape ==
  /\ \A s \in Slots : s[1] \in {"to", "sup", "chan"} /\ s[2] \in Nat /\ s = <<s[1], s[2]>>
  /\ \A i \in Handlers : <<"to", i>> \in Slots /\ <<"sup", i>> \in Slots
  /\ \A k \in 1..ChanCap : <<"chan", k>> \in Slots
BY CloudConstants DEF Slots, Handlers

(* A step that makes no reply and passes on what is owed, at most.           *)
LEMMA ReplyMoves ==
  ASSUME ReplyInv, UNCHANGED <<msg, replies>>, replies \in [Msgs -> Nat],
         NEW from \in [Slots -> Slots],
         \A s, t \in Slots : from[s] = from[t] => s = t,
         \A s \in Slots : Owing'[s] \in {None, Owing[from[s]]}
  PROVE  ReplyInv'
<1> SUFFICES ASSUME NEW m \in Msgs
             PROVE  replies[m] + Cardinality(For(Owing, m)') <= Cardinality(Delivered(msg, m))
  BY DEF ReplyInv, Delivered
<1>1. PICK o : o = Owing
  OBVIOUS
<1>2. PICK o1 : o1 = Owing'
  OBVIOUS
<1>3. \A s \in Slots : o1[s] = m => o[from[s]] = m
  BY <1>1, <1>2, PlanFacts
<1>4. Cardinality(For(o1, m)) <= Cardinality(For(o, m))
  BY <1>3, OwedMoves
<1>5. For(Owing, m)' = For(o1, m) /\ For(Owing, m) = For(o, m)
  BY <1>1, <1>2 DEF For
<1>6. /\ replies[m] \in Nat /\ Cardinality(For(o1, m)) \in Nat /\ Cardinality(For(o, m)) \in Nat
      /\ Cardinality(Delivered(msg, m)) \in Nat
  BY SlotFacts
<1>7. replies[m] + Cardinality(For(o, m)) <= Cardinality(Delivered(msg, m))
  BY <1>5 DEF ReplyInv
<1> QED
  BY <1>4, <1>5, <1>6, <1>7

(* A step that makes a reply which was owed.                                 *)
LEMMA ReplyPaid ==
  ASSUME ReplyInv, msg' = msg, replies \in [Msgs -> Nat],
         NEW s \in Slots, Owing[s] \in Msgs, Owing'[s] = None,
         \A t \in Slots \ {s} : Owing'[t] = Owing[t],
         replies' = [replies EXCEPT ![Owing[s]] = @ + 1]
  PROVE  ReplyInv'
<1> SUFFICES ASSUME NEW m \in Msgs
             PROVE  replies'[m] + Cardinality(For(Owing, m)') <= Cardinality(Delivered(msg, m))
  BY DEF ReplyInv, Delivered
<1>1. PICK o : o = Owing
  OBVIOUS
<1>2. PICK o1 : o1 = Owing'
  OBVIOUS
<1>3. /\ Cardinality(For(o1, o[s])) = Cardinality(For(o, o[s])) - 1
      /\ \A n \in Msgs \ {o[s]} : For(o1, n) = For(o, n)
  BY <1>1, <1>2, OwedPaid
<1>5. For(Owing, m)' = For(o1, m) /\ For(Owing, m) = For(o, m)
  BY <1>1, <1>2 DEF For
<1>6. /\ replies[m] \in Nat /\ Cardinality(For(o1, m)) \in Nat /\ Cardinality(For(o, m)) \in Nat
      /\ Cardinality(Delivered(msg, m)) \in Nat
  BY SlotFacts
<1>7. replies[m] + Cardinality(For(o, m)) <= Cardinality(Delivered(msg, m))
  BY <1>5 DEF ReplyInv
<1>8. CASE m = o[s]
  BY <1>1, <1>3, <1>5, <1>6, <1>7, <1>8
<1>9. CASE m # o[s]
  BY <1>1, <1>3, <1>5, <1>6, <1>7, <1>9
<1> QED
  BY <1>8, <1>9

(* A step that replies to nobody, and after which each owes what it did or   *)
(* nothing.                                                                  *)
LEMMA QuietOwing ==
  ASSUME ReplyInv, UNCHANGED <<msg, replies>>, replies \in [Msgs -> Nat],
         chan' \in {chan, <<>>},
         \A j \in Handlers : Owes(j)' \in {None, Owes(j)},
         \A j \in Handlers : pc'[j] = "inter" => pc[j] = "inter" /\ sup'[j] = sup[j]
  PROVE  ReplyInv'
<1> DEFINE from == [s \in Slots |-> s]
<1>1. from \in [Slots -> Slots] /\ \A s, t \in Slots : from[s] = from[t] => s = t
  OBVIOUS
<1>2. ASSUME NEW s \in Slots PROVE Owing'[s] \in {None, Owing[s]}
  <2>1. CASE s[1] = "to"
    BY <2>1 DEF Owing
  <2>2. CASE s[1] = "sup"
    BY <2>2 DEF Owing
  <2>3. CASE s[1] = "chan"
    BY <2>3 DEF Owing
  <2> QED
    BY <2>1, <2>2, <2>3, SlotShape
<1>3. \A s \in Slots : Owing'[s] \in {None, Owing[from[s]]}
  BY <1>2
<1> HIDE DEF from
<1> QED
  BY <1>1, <1>3, ReplyMoves

-----------------------------------------------------------------------------
(* At the start no reply is made or owed.                                    *)
LEMMA ReplyInit == Init => AckInv /\ ReplyInv
<1> SUFFICES ASSUME Init, NEW m \in Msgs
             PROVE  replies[m] + Cardinality(For(Owing, m)) <= Cardinality(Delivered(msg, m))
  BY AckInit DEF ReplyInv
<1>1. For(Owing, m) = {}
  <2>1. \A s \in Slots : Owing[s] = None
    BY SlotShape DEF Init, Owing, Owes
  <2> QED
    BY <2>1, PlanFacts DEF For
<1>2. replies[m] = 0 /\ Cardinality(For(Owing, m)) = 0
  BY <1>1, FS_EmptySet DEF Init
<1> QED
  BY <1>2, SlotFacts

(* What of AckInv the replies depend on: a plan belongs to one handler at its*)
(* end.                                                                      *)
LEMMA PlanAt ==
  ASSUME AckInv
  PROVE  /\ \A i \in Handlers : Live(i) /\ pc[i] # "finish" => plans[msg[i]] = None
         /\ \A i, j \in Handlers :
              i # j /\ pc[j] = "finish" /\ Live(i) => msg[i] # msg[j]
         /\ \A i \in Handlers : Live(i) => msg[i] \in Msgs
         /\ \A i \in Handlers : pc[i] \in {"slot", "claim", "route", "accepted", "lock", "begun"} => to[i] = msg[i]
BY DEF AckInv, PlanOwned, Exclusive, TypeInv, TypeOK, Live, Waiting, Busy, Owed

(* The last message of the inject channel has a place.                       *)
LEMMA LastFacts ==
  ASSUME NEW q \in Seq(Msgs), q # <<>>, Len(q) <= ChanCap
  PROVE  Len(q) \in 1..ChanCap /\ Len(q) \in DOMAIN q /\ q[Len(q)] \in Msgs
<1>1. Len(q) \in Nat /\ Len(q) > 0 /\ DOMAIN q = 1..Len(q)
  BY ChanFacts
<1>2. q[Len(q)] \in Msgs
  BY <1>1, ElementOfSeq
<1> QED
  BY <1>1, <1>2, CloudConstants

(* Every step keeps it: a message that moves takes its reply along.          *)
LEMMA ReplyStep ==
  ASSUME ExclusiveClaims, AckInv, ReplyInv, [Next]_vars
  PROVE  ReplyInv'
<1>0. /\ TypeInv /\ TypeInv' /\ replies \in [Msgs -> Nat] /\ chan \in Seq(Msgs)
      /\ pc \in [Handlers -> Waiting \cup Busy \cup {"idle", "done"}]
      /\ msg \in [Handlers -> Msgs \cup {None}] /\ to \in [Handlers -> Msgs \cup {None}]
      /\ sup \in [Handlers -> Msgs \cup {None}]
      /\ plans \in [Msgs -> {None, Suppress} \cup Answers]
  BY TypeStep DEF AckInv, TypeInv, TypeOK
<1> USE DEF wire, route, reply, history, Goto, At
<1>1. ASSUME NEW i \in Handlers, NEW n \in Msgs, Deliver(i, n) PROVE ReplyInv'
  <2>1. /\ msg[i] = None /\ msg' = [msg EXCEPT ![i] = n] /\ pc[i] = "idle" /\ pc' = [pc EXCEPT ![i] = "slot"]
        /\ to' = [to EXCEPT ![i] = n] /\ UNCHANGED <<replies, plans, chan, sup>>
    BY <1>0, <1>1 DEF Deliver, TypeInv, TypeOK
  <2>2. PICK s \in Slots : s = <<"to", i>>
    BY SlotShape
  <2>3. \A t \in Slots \ {s} : Owing'[t] \in {None, Owing[t]}
    <3>1. \A j \in Handlers \ {i} : Owes(j)' = Owes(j)
      BY <2>1, <1>0 DEF Owes, ReplyID
    <3> SUFFICES ASSUME NEW t \in Slots \ {s} PROVE Owing'[t] \in {None, Owing[t]}
      OBVIOUS
    <3>2. CASE t[1] = "to"
      <4>1. t[2] # i
        BY <2>2, <3>2, SlotShape
      <4> QED
        BY <3>1, <3>2, <4>1 DEF Owing
    <3>3. CASE t[1] = "sup"
      BY <1>0, <2>1, <3>3 DEF Owing
    <3>4. CASE t[1] = "chan"
      BY <2>1, <3>4 DEF Owing
    <3> QED
      BY <3>2, <3>3, <3>4, SlotShape
  <2>4. Owing'[s] = n
    BY <1>0, <2>1, <2>2 DEF Owing, Owes
  <2> SUFFICES ASSUME NEW m \in Msgs
               PROVE  replies[m] + Cardinality(For(Owing, m)') <= Cardinality(Delivered(msg', m))
    BY <2>1 DEF ReplyInv, Delivered
  <2>5. replies[m] + Cardinality(For(Owing, m)) <= Cardinality(Delivered(msg, m))
    BY DEF ReplyInv
  <2>6. IF m = n THEN /\ Delivered(msg', m) = Delivered(msg, m) \cup {i} /\ i \notin Delivered(msg, m)
                      /\ For(Owing, m)' \subseteq For(Owing, m) \cup {s}
                 ELSE /\ Delivered(msg', m) = Delivered(msg, m) /\ For(Owing, m)' \subseteq For(Owing, m)
    BY <1>0, <2>1, <2>3, <2>4, PlanFacts DEF Delivered, For
  <2>7. PICK o1 : o1 = Owing'
    OBVIOUS
  <2>8. For(Owing, m)' = For(o1, m)
    BY <2>7 DEF For
  <2>9. CASE m = n
    <3>0. PICK owed : owed = For(Owing, m)
      OBVIOUS
    <3>a. IsFiniteSet(owed) /\ Cardinality(owed) \in Nat
      BY <3>0, SlotFacts
    <3>b. IsFiniteSet(owed \cup {s}) /\ Cardinality(owed \cup {s}) <= Cardinality(owed) + 1
      BY <3>a, FS_AddElement
    <3>1. Cardinality(For(o1, m)) <= Cardinality(owed \cup {s})
      BY <2>6, <2>8, <2>9, <3>0, <3>b, FS_Subset
    <3>3. Cardinality(Delivered(msg', m)) = Cardinality(Delivered(msg, m)) + 1
      BY <2>6, <2>9, SlotFacts, FS_AddElement
    <3>4. Cardinality(owed \cup {s}) \in Nat
      BY <3>b, FS_CardinalityType
    <3>5. Cardinality(For(o1, m)) \in Nat /\ Cardinality(Delivered(msg, m)) \in Nat
      BY SlotFacts
    <3> QED
      BY <1>0, <2>5, <2>8, <3>0, <3>a, <3>b, <3>1, <3>3, <3>4, <3>5
  <2>10. CASE m # n
    <3>1. Cardinality(For(o1, m)) <= Cardinality(For(Owing, m))
      BY <2>6, <2>8, <2>10, SlotFacts, FS_Subset
    <3> QED
      BY <1>0, <2>5, <2>6, <2>8, <2>10, <3>1, SlotFacts
  <2> QED
    BY <2>9, <2>10
<1>2. CASE Drop \/ Reconnect \/ UNCHANGED vars
  <2>1. UNCHANGED <<msg, replies, chan, pc, to, sup, plans>>
    BY <1>2 DEF Drop, Reconnect, vars
  <2>2. \A j \in Handlers : Owes(j)' = Owes(j)
    BY <2>1 DEF Owes, ReplyID
  <2> QED
    BY <1>0, <2>1, <2>2, QuietOwing
<1>3. CASE Crash
  <2>1. UNCHANGED <<msg, replies>> /\ chan' = <<>>
    BY <1>3 DEF Crash
  <2>2. \A j \in Handlers : pc'[j] \in {"idle", "done"}
    BY <1>0, <1>3 DEF Crash, Live
  <2>3. \A j \in Handlers : Owes(j)' = None
    BY <2>2 DEF Owes
  <2> QED
    BY <1>0, <2>1, <2>2, <2>3, QuietOwing
<1>4. ASSUME NEW i \in Handlers, Step(i) PROVE ReplyInv'
  <2> DEFINE Quiet == /\ UNCHANGED <<msg, replies>> /\ chan' \in {chan, <<>>}
                      /\ \A j \in Handlers : Owes(j)' \in {None, Owes(j)}
                      /\ \A j \in Handlers : pc'[j] = "inter" => pc[j] = "inter" /\ sup'[j] = sup[j]
  <2>1. CASE AcquireSlot(i) \/ Granted(i) \/ NotGranted(i) \/ NoActiveRun(i)
    <3>1. Quiet
      BY <1>0, <2>1 DEF Owes, ReplyID, AcquireSlot, Granted, NotGranted, ClaimFails, NoActiveRun
    <3> QED
      BY <1>0, <3>1, QuietOwing
  <2>2. CASE SuppressReply(i)
    <3>1. Quiet
      BY <1>0, <2>2, PlanAt DEF Owes, ReplyID, SuppressReply, Suppressed, Live, Busy, Waiting
    <3> QED
      BY <1>0, <3>1, QuietOwing
  <2>3. CASE Reject(i) \/ SetupFails(i)
    <3>1. Quiet
      BY <1>0, <2>3, PlanAt DEF Owes, ReplyID, Reject, SetupFails, Live, Busy, Waiting
    <3> QED
      BY <1>0, <3>1, QuietOwing
  <2>4. CASE BeginRun(i) \/ EnterLoop(i)
    <3>1. Quiet
      BY <1>0, <2>4 DEF Owes, ReplyID, BeginRun, RouteFree, EnterLoop
    <3> QED
      BY <1>0, <3>1, QuietOwing
  <2>5. CASE EndTurn(i) \/ LoopFails(i) \/ ReEnqueueInjectSurvivors(i) \/ UnlockRoute(i)
    <3>1. Quiet
      BY <1>0, <2>5 DEF Owes, ReplyID, EndTurn, LoopFails, ReEnqueueInjectSurvivors, UnlockRoute
    <3> QED
      BY <1>0, <3>1, QuietOwing
  <2>6. CASE SetReplyPlan(i)
    <3>a. /\ pc[i] = "plan" /\ Live(i) /\ msg[i] \in Msgs /\ to[i] \in Msgs /\ pend[i] \in SUBSET Msgs
          /\ pc' = [pc EXCEPT ![i] = "finish"]
          /\ plans' = [plans EXCEPT ![msg[i]] = Answer(to[i], pend[i])]
          /\ UNCHANGED <<msg, replies, chan, to, sup>>
      BY <1>0, <2>6, PlanAt DEF SetReplyPlan, Live, Busy, Waiting, TypeInv, TypeOK, Typed
    <3>b. \A j \in Handlers \ {i} : pc[j] = "finish" => msg[j] # msg[i]
      BY <3>a, PlanAt
    <3>c. \A j \in Handlers \ {i} : Owes(j)' = Owes(j)
      BY <1>0, <3>a, <3>b DEF Owes, ReplyID
    <3>d. Owes(i)' = to[i] /\ Owes(i) = to[i]
      <4>1. Answer(to[i], pend[i]) \in Answers /\ Answer(to[i], pend[i]).to = to[i]
        BY <3>a, PlanFacts
      <4>2. plans'[msg'[i]] = Answer(to[i], pend[i]) /\ pc'[i] = "finish"
        BY <1>0, <3>a
      <4> QED
        BY <3>a, <4>1, <4>2, PlanFacts DEF Owes, ReplyID
    <3>1. Quiet
      BY <1>0, <3>a, <3>c, <3>d
    <3> QED
      BY <1>0, <3>1, QuietOwing
  <2>7. CASE TakeSuppression(i) \/ TakePlan(i)
    <3>1. Quiet
      BY <1>0, <2>7, PlanAt, PlanFacts DEF Owes, ReplyID, TakeSuppression, TakePlan, Live, Busy, Waiting
    <3> QED
      BY <1>0, <3>1, QuietOwing
  <2>8. CASE ReplyNotSent(i) \/ \E m \in Msgs : SendDeliveryAck(i, m)
    <3>1. Quiet
      BY <1>0, <2>8 DEF Owes, ReplyID, ReplyNotSent, ReplyFails, SendDeliveryAck
    <3> QED
      BY <1>0, <3>1, QuietOwing
  <2>9. CASE IntermediateAck(i) \/ IntermediateFails(i)
    <3>1. Quiet
      BY <1>0, <2>9 DEF Owes, ReplyID, IntermediateAck, IntermediateFails, Onward
    <3> QED
      BY <1>0, <3>1, QuietOwing
  <2>10. CASE Inject(i)
    <3>1. /\ pc[i] = "route" /\ pc' = [pc EXCEPT ![i] = "accepted"] /\ msg[i] \in Msgs /\ to[i] = msg[i]
          /\ Len(chan) < ChanCap /\ chan' = Append(chan, msg[i])
          /\ UNCHANGED <<msg, replies, to, sup, plans>>
      BY <1>0, <2>10, PlanAt DEF Inject, Live, Busy, Waiting
    <3>2. PICK k : k = Len(chan) + 1 /\ k \in 1..ChanCap /\ DOMAIN chan = 1..Len(chan)
      BY <1>0, <3>1, CloudConstants
    <3>3. PICK s \in Slots, t \in Slots : s = <<"to", i>> /\ t = <<"chan", k>>
      BY <3>2, SlotShape
    <3>4. Owing[s] = msg[i] /\ Owing'[s] = None
      BY <1>0, <3>1, <3>3 DEF Owing, Owes
    <3>5. Owing'[t] = msg[i]
      <4>1. k \in DOMAIN chan' /\ chan'[k] = msg[i]
        BY <1>0, <3>1, <3>2
      <4> QED
        BY <3>3, <4>1 DEF Owing
    <3>6. ASSUME NEW u \in Slots \ {s, t} PROVE Owing'[u] = Owing[u]
      <4>1. \A j \in Handlers \ {i} : Owes(j)' = Owes(j)
        BY <1>0, <3>1 DEF Owes, ReplyID
      <4>2. CASE u[1] = "to"
        <5>1. u[2] # i
          BY <3>3, <4>2, SlotShape
        <5> QED
          BY <4>1, <4>2, <5>1 DEF Owing
      <4>3. CASE u[1] = "sup"
        BY <1>0, <3>1, <4>3 DEF Owing
      <4>4. CASE u[1] = "chan"
        <5>1. u[2] # k
          BY <3>3, <4>4, SlotShape
        <5>2. (u[2] \in DOMAIN chan' <=> u[2] \in DOMAIN chan) /\ (u[2] \in DOMAIN chan => chan'[u[2]] = chan[u[2]])
          BY <1>0, <3>1, <3>2, <5>1
        <5> QED
          BY <4>4, <5>2 DEF Owing
      <4> QED
        BY <4>2, <4>3, <4>4, SlotShape
    <3> DEFINE from == [u \in Slots |-> IF u = t THEN s ELSE IF u = s THEN t ELSE u]
    <3>7. from \in [Slots -> Slots] /\ \A u, v \in Slots : from[u] = from[v] => u = v
      OBVIOUS
    <3>8. \A u \in Slots : Owing'[u] \in {None, Owing[from[u]]}
      BY <3>4, <3>5, <3>6
    <3> HIDE DEF from
    <3> QED
      BY <1>0, <3>1, <3>7, <3>8, ReplyMoves
  <2>11. CASE DrainInjected(i)
    <3>1. /\ pc[i] = "loop" /\ chan # <<>> /\ chan' = <<>>
          /\ to' = [to EXCEPT ![i] = chan[Len(chan)]]
          /\ UNCHANGED <<msg, replies, pc, sup, plans>>
      BY <2>11 DEF DrainInjected, Commit
    <3>2. PICK k : k = Len(chan) /\ k \in 1..ChanCap /\ k \in DOMAIN chan /\ chan[k] \in Msgs
      BY <1>0, <3>1, LastFacts DEF TypeInv, TypeOK
    <3>3. PICK s \in Slots, t \in Slots : s = <<"to", i>> /\ t = <<"chan", k>>
      BY <3>2, SlotShape
    <3>4. Owing[t] = chan[k]
      BY <3>2, <3>3 DEF Owing
    <3>5. Owing'[s] = chan[k] /\ Owing'[t] = None
      <4>1. DOMAIN chan' = {}
        BY <3>1
      <4>2. Owing'[t] = None
        BY <3>3, <4>1 DEF Owing
      <4> QED
        BY <1>0, <3>1, <3>2, <3>3, <4>2 DEF Owing, Owes
    <3>6. ASSUME NEW u \in Slots \ {s, t} PROVE Owing'[u] \in {None, Owing[u]}
      <4>1. \A j \in Handlers \ {i} : Owes(j)' = Owes(j)
        BY <1>0, <3>1 DEF Owes, ReplyID
      <4>2. CASE u[1] = "to"
        <5>1. u[2] # i
          BY <3>3, <4>2, SlotShape
        <5> QED
          BY <4>1, <4>2, <5>1 DEF Owing
      <4>3. CASE u[1] = "sup"
        BY <3>1, <4>3 DEF Owing
      <4>4. CASE u[1] = "chan"
        BY <3>1, <4>4 DEF Owing
      <4> QED
        BY <4>2, <4>3, <4>4, SlotShape
    <3> DEFINE from == [u \in Slots |-> IF u = t THEN s ELSE IF u = s THEN t ELSE u]
    <3>7. from \in [Slots -> Slots] /\ \A u, v \in Slots : from[u] = from[v] => u = v
      OBVIOUS
    <3>8. \A u \in Slots : Owing'[u] \in {None, Owing[from[u]]}
      BY <3>4, <3>5, <3>6
    <3> HIDE DEF from
    <3> QED
      BY <1>0, <3>1, <3>7, <3>8, ReplyMoves
  <2>12. CASE EndTurnGoesOn(i)
    <3>1. /\ pc[i] = "loop" /\ chan # <<>> /\ chan' = <<>>
          /\ to' = [to EXCEPT ![i] = chan[Len(chan)]] /\ sup' = [sup EXCEPT ![i] = to[i]]
          /\ pc' = [pc EXCEPT ![i] = "inter"]
          /\ UNCHANGED <<msg, replies, plans>>
      BY <2>12 DEF EndTurnGoesOn, Commit
    <3>2. PICK k : k = Len(chan) /\ k \in 1..ChanCap /\ k \in DOMAIN chan /\ chan[k] \in Msgs
      BY <1>0, <3>1, LastFacts DEF TypeInv, TypeOK
    <3>3. PICK s \in Slots, t \in Slots, w \in Slots :
            s = <<"to", i>> /\ t = <<"chan", k>> /\ w = <<"sup", i>>
      BY <3>2, SlotShape
    <3>x. s # t /\ s # w /\ t # w
      BY <3>3
    <3>4. Owing[t] = chan[k] /\ Owing[s] = to[i]
      BY <1>0, <3>1, <3>2, <3>3 DEF Owing, Owes
    <3>5. Owing'[s] = chan[k] /\ Owing'[t] = None /\ Owing'[w] = to[i]
      <4>1. DOMAIN chan' = {}
        BY <3>1
      <4>2. Owing'[t] = None
        BY <3>3, <4>1 DEF Owing
      <4>3. Owing'[w] = to[i]
        BY <1>0, <3>1, <3>3 DEF Owing
      <4> QED
        BY <1>0, <3>1, <3>2, <3>3, <4>2, <4>3 DEF Owing, Owes
    <3>6. ASSUME NEW u \in Slots \ {s, t, w} PROVE Owing'[u] \in {None, Owing[u]}
      <4>1. \A j \in Handlers \ {i} : Owes(j)' = Owes(j)
        BY <1>0, <3>1 DEF Owes, ReplyID
      <4>2. CASE u[1] = "to"
        <5>1. u[2] # i
          BY <3>3, <4>2, SlotShape
        <5> QED
          BY <4>1, <4>2, <5>1 DEF Owing
      <4>3. CASE u[1] = "sup"
        <5>1. u[2] # i
          BY <3>3, <4>3, SlotShape
        <5> QED
          BY <1>0, <3>1, <4>3, <5>1 DEF Owing
      <4>4. CASE u[1] = "chan"
        BY <3>1, <4>4 DEF Owing
      <4> QED
        BY <4>2, <4>3, <4>4, SlotShape
    <3> DEFINE from == [u \in Slots |-> IF u = w THEN s ELSE IF u = s THEN t ELSE IF u = t THEN w ELSE u]
    <3>7. from \in [Slots -> Slots] /\ \A u, v \in Slots : from[u] = from[v] => u = v
      BY <3>x
    <3>8. \A u \in Slots : Owing'[u] \in {None, Owing[from[u]]}
      BY <3>x, <3>4, <3>5, <3>6
    <3> HIDE DEF from
    <3> QED
      BY <1>0, <3>1, <3>7, <3>8, ReplyMoves
  <2>13. CASE OnIntermediateAnswer(i)
    <3>1. /\ pc[i] = "inter" /\ sup[i] \in Msgs /\ pc' = [pc EXCEPT ![i] = "interAck"]
          /\ replies' = [replies EXCEPT ![sup[i]] = @ + 1]
          /\ UNCHANGED <<msg, to, sup, plans, chan>>
      BY <1>0, <2>13 DEF OnIntermediateAnswer, TypeInv, Typed
    <3>2. PICK s \in Slots : s = <<"sup", i>>
      BY SlotShape
    <3>3. Owing[s] = sup[i] /\ Owing'[s] = None
      BY <1>0, <3>1, <3>2 DEF Owing
    <3>4. ASSUME NEW u \in Slots \ {s} PROVE Owing'[u] = Owing[u]
      <4>1. \A j \in Handlers : Owes(j)' = Owes(j)
        BY <1>0, <3>1 DEF Owes, ReplyID
      <4>2. CASE u[1] = "to"
        BY <4>1, <4>2 DEF Owing
      <4>3. CASE u[1] = "sup"
        <5>1. u[2] # i
          BY <3>2, <4>3, SlotShape
        <5> QED
          BY <1>0, <3>1, <4>3, <5>1 DEF Owing
      <4>4. CASE u[1] = "chan"
        BY <3>1, <4>4 DEF Owing
      <4> QED
        BY <4>2, <4>3, <4>4, SlotShape
    <3> QED
      BY <1>0, <3>1, <3>3, <3>4, ReplyPaid
  <2>14. CASE SendReply(i)
    <3>1. /\ pc[i] = "reply" /\ to[i] \in Msgs /\ pc' = [pc EXCEPT ![i] = "ack"]
          /\ replies' = [replies EXCEPT ![to[i]] = @ + 1]
          /\ UNCHANGED <<msg, to, sup, plans, chan>>
      BY <1>0, <2>14 DEF SendReply, TypeInv, Typed
    <3>2. PICK s \in Slots : s = <<"to", i>>
      BY SlotShape
    <3>3. Owing[s] = to[i] /\ Owing'[s] = None
      BY <1>0, <3>1, <3>2 DEF Owing, Owes
    <3>4. ASSUME NEW u \in Slots \ {s} PROVE Owing'[u] = Owing[u]
      <4>1. \A j \in Handlers \ {i} : Owes(j)' = Owes(j)
        BY <1>0, <3>1 DEF Owes, ReplyID
      <4>2. CASE u[1] = "to"
        <5>1. u[2] # i
          BY <3>2, <4>2, SlotShape
        <5> QED
          BY <4>1, <4>2, <5>1 DEF Owing
      <4>3. CASE u[1] = "sup"
        BY <1>0, <3>1, <4>3 DEF Owing
      <4>4. CASE u[1] = "chan"
        BY <3>1, <4>4 DEF Owing
      <4> QED
        BY <4>2, <4>3, <4>4, SlotShape
    <3> QED
      BY <1>0, <3>1, <3>3, <3>4, ReplyPaid
  <2> QED
    BY <1>4, <2>1, <2>2, <2>3, <2>4, <2>5, <2>6, <2>7, <2>8, <2>9, <2>10, <2>11, <2>12, <2>13, <2>14 DEF Step
<1> QED
  BY <1>1, <1>2, <1>3, <1>4 DEF Next

(* An id gets no more replies than it was delivered times, however handlers, *)
(* runs and connections interleave, if the Cloud gives no message to two     *)
(* handlers at a time (commitInjectedTurn, onIntermediateAnswer,             *)
(* handleMessage).                                                           *)
THEOREM RepliesCorrect == ASSUME ExclusiveClaims PROVE Spec => []RepliesBounded
<1>1. AckInv /\ ReplyInv => RepliesBounded
  <2> SUFFICES ASSUME AckInv, ReplyInv, NEW m \in Msgs
               PROVE  replies[m] <= Cardinality(Delivered(msg, m))
    BY DEF RepliesBounded, Delivered
  <2>1. replies[m] + Cardinality(For(Owing, m)) <= Cardinality(Delivered(msg, m))
    BY DEF ReplyInv
  <2>2. /\ replies[m] \in Nat /\ Cardinality(For(Owing, m)) \in Nat
        /\ Cardinality(Delivered(msg, m)) \in Nat
    BY SlotFacts DEF AckInv, TypeInv, TypeOK
  <2> QED
    BY <2>1, <2>2
<1>2. AckInv /\ ReplyInv /\ [Next]_vars => (AckInv /\ ReplyInv)'
  BY AckStep, ReplyStep
<1> QED
  BY <1>1, <1>2, ReplyInit, PTL DEF Spec

=============================================================================

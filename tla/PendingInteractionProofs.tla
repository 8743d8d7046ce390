----------------------- MODULE PendingInteractionProofs -----------------------
(***************************************************************************)
(* Proofs about PendingInteraction, for any set of requests and decisions. *)
(***************************************************************************)
EXTENDS PendingInteraction, Integers, SequenceTheorems, TLAPS

(* What the bus may have told about a request settled with d. *)
Told(d) == {<<>>, <<Dismissal(d)>>, <<Card, Dismissal(d)>>}

(* The inductive invariant ties the events about a request to the place where *)
(* its run is, to its entry in pending and to its channel.                     *)
IdleShape(r) ==
  pc[r] = "idle" =>
    /\ r \notin pending /\ r \notin sent /\ r \notin emitted
    /\ ch[r] = None /\ result[r] = None /\ story[r] = <<>>

OpenShape(r) ==
  pc[r] \in {"send", "guard"} =>
    /\ r \notin emitted /\ result[r] = None
    /\ pc[r] = "send" => r \notin sent
    /\ r \in pending => ch[r] = None /\ story[r] = <<>>
    /\ r \notin pending => ch[r] # None /\ story[r] \in {<<>>, <<Dismissal(ch[r])>>}
    /\ r \notin pending /\ r \notin sent => ch[r] = Terminal /\ story[r] = <<>>

WaitShape(r) ==
  pc[r] = "wait" =>
    /\ r \in emitted /\ result[r] = None
    /\ r \in pending => ch[r] = None /\ story[r] = <<Card>>
    /\ r \notin pending => ch[r] # None /\ story[r] = <<Card, Dismissal(ch[r])>>

ClaimedShape(r) ==
  pc[r] = "claimed" =>
    /\ r \notin pending /\ r \in emitted
    /\ ch[r] = None /\ result[r] = None /\ story[r] = <<Card>>

ReturnShape(r) ==
  pc[r] \in {"return", "done"} =>
    /\ result[r] # None
    /\ story[r] \in Told(result[r])
    /\ r \in pending => pc[r] = "return" /\ r \notin sent /\ r \notin emitted

OverShape(r) ==
  pc[r] = "over" =>
    /\ result[r] # None /\ r \notin pending
    /\ \E told \in Told(result[r]) : story[r] = Append(told, AgentEvent(result[r]))

Shape(r) ==
  /\ IdleShape(r) /\ OpenShape(r) /\ WaitShape(r)
  /\ ClaimedShape(r) /\ ReturnShape(r) /\ OverShape(r)

StoryInv == TypeOK /\ \A r \in Requests : Shape(r)

-----------------------------------------------------------------------------
(* An event keeps its kind, a story its type. *)
LEMMA EventTypes ==
  /\ Card \in Events
  /\ \A d \in Decisions : Dismissal(d) \in Events /\ AgentEvent(d) \in Events
BY DEF Events

(* A request's own fields decide its shape. *)
LEMMA SameShape ==
  ASSUME NEW r \in Requests, Shape(r),
         pc'[r] = pc[r], (r \in pending') <=> (r \in pending),
         (r \in emitted') <=> (r \in emitted), ch'[r] = ch[r],
         (r \in sent') <=> (r \in sent), result'[r] = result[r], story'[r] = story[r]
  PROVE  Shape(r)'
<1>1. IdleShape(r)' BY DEF Shape, IdleShape
<1>2. OpenShape(r)' BY DEF Shape, OpenShape
<1>3. WaitShape(r)' BY DEF Shape, WaitShape
<1>4. ClaimedShape(r)' BY DEF Shape, ClaimedShape
<1>5. ReturnShape(r)' BY DEF Shape, ReturnShape
<1>6. OverShape(r)' BY DEF Shape, OverShape
<1> QED BY <1>1, <1>2, <1>3, <1>4, <1>5, <1>6 DEF Shape

(* The stories are short enough to be written out. *)
LEMMA Appends ==
  ASSUME NEW e \in Events, NEW f \in Events
  PROVE  Append(<<>>, e) = <<e>> /\ Append(<<e>>, f) = <<e, f>>
<1>1. Append(<<>>, e) = <<e>>
  OBVIOUS
<1>2. <<e>> \in Seq(Events) /\ Len(<<e>>) = 1 /\ <<e>>[1] = e
  OBVIOUS
<1>3. Len(<<e, f>>) = 2 /\ <<e, f>>[1] = e /\ <<e, f>>[2] = f /\ <<e, f>> \in Seq(Events)
  OBVIOUS
<1>4. /\ Append(<<e>>, f) \in Seq(Events) /\ Len(Append(<<e>>, f)) = 2
      /\ Append(<<e>>, f)[1] = e /\ Append(<<e>>, f)[2] = f
  BY <1>2, AppendProperties
<1>5. \A i \in 1 .. Len(Append(<<e>>, f)) : Append(<<e>>, f)[i] = <<e, f>>[i]
  BY <1>3, <1>4
<1>6. Append(<<e>>, f) = <<e, f>>
  BY <1>3, <1>4, <1>5, SeqEqual
<1> QED BY <1>1, <1>6

(* The types hold at the start. *)
LEMMA TypeInit == Init => TypeOK
BY DEF Init, TypeOK, PCs

(* Every action keeps the types. *)
LEMMA TypeNext ==
  ASSUME TypeOK, \A r \in Requests : Shape(r), [Next]_vars
  PROVE  TypeOK'
<1> USE TerminalIsDecision, NoneIsNoDecision, EventTypes
<1>1. ASSUME NEW r \in Requests, Register(r) PROVE TypeOK'
  BY <1>1 DEF Register, Goto, TypeOK, PCs
<1>2. ASSUME NEW r \in Requests, SendOK(r) PROVE TypeOK'
  BY <1>2 DEF SendOK, Goto, TypeOK, PCs
<1>3. ASSUME NEW r \in Requests, SendFails(r) PROVE TypeOK'
  BY <1>3 DEF SendFails, Goto, Return, TypeOK, PCs
<1>4. ASSUME NEW r \in Requests, Emit(r) PROVE TypeOK'
  BY <1>4 DEF Emit, Goto, Publish, TypeOK, PCs
<1>5. ASSUME NEW r \in Requests, SettledBeforeEmit(r) PROVE TypeOK'
  BY <1>5 DEF SettledBeforeEmit, Goto, Return, Buffered, TypeOK, PCs
<1>6. ASSUME NEW r \in Requests, Receive(r) PROVE TypeOK'
  BY <1>6 DEF Receive, Goto, Return, TypeOK, PCs
<1>7. ASSUME NEW r \in Requests, Claim(r) PROVE TypeOK'
  BY <1>7 DEF Claim, Goto, TypeOK, PCs
<1>8. ASSUME NEW r \in Requests, ClaimLost(r) PROVE TypeOK'
  BY <1>8 DEF ClaimLost, Goto, Return, Buffered, TypeOK, PCs
<1>9. ASSUME NEW r \in Requests, Cleanup(r) PROVE TypeOK'
  BY <1>9 DEF Cleanup, Goto, Return, Publish, TypeOK, PCs
<1>10. ASSUME NEW r \in Requests, Deregister(r) PROVE TypeOK'
  BY <1>10 DEF Deregister, Goto, TypeOK, PCs
<1>11. ASSUME NEW r \in Requests, AgentGoesOn(r) PROVE TypeOK'
  BY <1>11 DEF AgentGoesOn, Goto, Publish, TypeOK, PCs, Shape, ReturnShape
<1>12. ASSUME NEW r \in Requests, NEW d \in Decisions, Resolve(r, d) PROVE TypeOK'
  BY <1>12 DEF Resolve, Publish, TypeOK
<1>13. CASE CancelAll
  BY <1>13 DEF CancelAll, TypeOK
<1>14. CASE UNCHANGED vars
  BY <1>14 DEF TypeOK, vars
<1> QED BY <1>1, <1>2, <1>3, <1>4, <1>5, <1>6, <1>7, <1>8, <1>9, <1>10, <1>11, <1>12, <1>13, <1>14 DEF Next, Quiet

(* The shapes hold at the start. *)
LEMMA ShapeInit == Init => \A r \in Requests : Shape(r)
BY DEF Init, Shape, IdleShape, OpenShape, WaitShape, ClaimedShape, ReturnShape, OverShape

(* Every action keeps the shape of the request it is about, and of the others. *)
LEMMA ShapeNext ==
  ASSUME TypeOK, \A r \in Requests : Shape(r), [Next]_vars
  PROVE  \A r \in Requests : Shape(r)'
<1> USE TerminalIsDecision, NoneIsNoDecision, EventTypes
<1>1. ASSUME NEW q \in Requests, Register(q), NEW r \in Requests PROVE Shape(r)'
  <2>1. CASE r = q
    BY <1>1, <2>1 DEF Register, Goto, TypeOK, Shape, IdleShape, OpenShape, WaitShape, ClaimedShape, ReturnShape, OverShape, Told
  <2>2. CASE r # q
    BY <1>1, <2>2, SameShape DEF Register, Goto, TypeOK
  <2> QED BY <2>1, <2>2
<1>2. ASSUME NEW q \in Requests, SendOK(q), NEW r \in Requests PROVE Shape(r)'
  <2>1. CASE r = q
    BY <1>2, <2>1 DEF SendOK, Goto, TypeOK, Shape, IdleShape, OpenShape, WaitShape, ClaimedShape, ReturnShape, OverShape, Told
  <2>2. CASE r # q
    BY <1>2, <2>2, SameShape DEF SendOK, Goto, TypeOK
  <2> QED BY <2>1, <2>2
<1>3. ASSUME NEW q \in Requests, SendFails(q), NEW r \in Requests PROVE Shape(r)'
  <2>1. CASE r = q
    BY <1>3, <2>1 DEF SendFails, Goto, Return, TypeOK, Shape, IdleShape, OpenShape, WaitShape, ClaimedShape, ReturnShape, OverShape, Told
  <2>2. CASE r # q
    BY <1>3, <2>2, SameShape DEF SendFails, Goto, Return, TypeOK
  <2> QED BY <2>1, <2>2
<1>4. ASSUME NEW q \in Requests, Emit(q), NEW r \in Requests PROVE Shape(r)'
  <2>1. CASE r = q
    BY <1>4, <2>1, Appends DEF Emit, Goto, Publish, TypeOK, Shape, IdleShape, OpenShape, WaitShape, ClaimedShape, ReturnShape, OverShape, Told
  <2>2. CASE r # q
    BY <1>4, <2>2, SameShape DEF Emit, Goto, Publish, TypeOK
  <2> QED BY <2>1, <2>2
<1>5. ASSUME NEW q \in Requests, SettledBeforeEmit(q), NEW r \in Requests PROVE Shape(r)'
  <2>1. CASE r = q
    BY <1>5, <2>1 DEF SettledBeforeEmit, Goto, Return, Buffered, TypeOK, Shape, IdleShape, OpenShape, WaitShape, ClaimedShape, ReturnShape, OverShape, Told
  <2>2. CASE r # q
    BY <1>5, <2>2, SameShape DEF SettledBeforeEmit, Goto, Return, Buffered, TypeOK
  <2> QED BY <2>1, <2>2
<1>6. ASSUME NEW q \in Requests, Receive(q), NEW r \in Requests PROVE Shape(r)'
  <2>1. CASE r = q
    BY <1>6, <2>1 DEF Receive, Goto, Return, TypeOK, Shape, IdleShape, OpenShape, WaitShape, ClaimedShape, ReturnShape, OverShape, Told
  <2>2. CASE r # q
    BY <1>6, <2>2, SameShape DEF Receive, Goto, Return, TypeOK
  <2> QED BY <2>1, <2>2
<1>7. ASSUME NEW q \in Requests, Claim(q), NEW r \in Requests PROVE Shape(r)'
  <2>1. CASE r = q
    BY <1>7, <2>1 DEF Claim, Goto, TypeOK, Shape, IdleShape, OpenShape, WaitShape, ClaimedShape, ReturnShape, OverShape, Told
  <2>2. CASE r # q
    BY <1>7, <2>2, SameShape DEF Claim, Goto, TypeOK
  <2> QED BY <2>1, <2>2
<1>8. ASSUME NEW q \in Requests, ClaimLost(q), NEW r \in Requests PROVE Shape(r)'
  <2>1. CASE r = q
    BY <1>8, <2>1 DEF ClaimLost, Goto, Return, Buffered, TypeOK, Shape, IdleShape, OpenShape, WaitShape, ClaimedShape, ReturnShape, OverShape, Told
  <2>2. CASE r # q
    BY <1>8, <2>2, SameShape DEF ClaimLost, Goto, Return, Buffered, TypeOK
  <2> QED BY <2>1, <2>2
<1>9. ASSUME NEW q \in Requests, Cleanup(q), NEW r \in Requests PROVE Shape(r)'
  <2>1. CASE r = q
    BY <1>9, <2>1, Appends DEF Cleanup, Goto, Return, Publish, TypeOK, Shape, IdleShape, OpenShape, WaitShape, ClaimedShape, ReturnShape, OverShape, Told
  <2>2. CASE r # q
    BY <1>9, <2>2, SameShape DEF Cleanup, Goto, Return, Publish, TypeOK
  <2> QED BY <2>1, <2>2
<1>10. ASSUME NEW q \in Requests, Deregister(q), NEW r \in Requests PROVE Shape(r)'
  <2>1. CASE r = q
    BY <1>10, <2>1 DEF Deregister, Goto, TypeOK, Shape, IdleShape, OpenShape, WaitShape, ClaimedShape, ReturnShape, OverShape, Told
  <2>2. CASE r # q
    BY <1>10, <2>2, SameShape DEF Deregister, Goto, TypeOK
  <2> QED BY <2>1, <2>2
<1>11. ASSUME NEW q \in Requests, AgentGoesOn(q), NEW r \in Requests PROVE Shape(r)'
  <2>1. CASE r = q
    BY <1>11, <2>1, Appends DEF AgentGoesOn, Goto, Publish, TypeOK, Shape, IdleShape, OpenShape, WaitShape, ClaimedShape, ReturnShape, OverShape, Told
  <2>2. CASE r # q
    BY <1>11, <2>2, SameShape DEF AgentGoesOn, Goto, Publish, TypeOK
  <2> QED BY <2>1, <2>2
<1>12. ASSUME NEW q \in Requests, NEW d \in Decisions, Resolve(q, d), NEW r \in Requests
      PROVE  Shape(r)'
  <2>1. CASE r = q
    BY <1>12, <2>1, Appends DEF Resolve, Publish, TypeOK, Shape, IdleShape, OpenShape, WaitShape, ClaimedShape, ReturnShape, OverShape
  <2>2. CASE r # q
    BY <1>12, <2>2, SameShape DEF Resolve, Publish, TypeOK
  <2> QED BY <2>1, <2>2
<1>13. ASSUME CancelAll, NEW r \in Requests PROVE Shape(r)'
  <2>1. CASE r \in pending
    BY <1>13, <2>1, Appends DEF CancelAll, TypeOK, Shape, IdleShape, OpenShape, WaitShape, ClaimedShape, ReturnShape, OverShape, Told
  <2>2. CASE r \notin pending
    BY <1>13, <2>2, SameShape DEF CancelAll, TypeOK
  <2> QED BY <2>1, <2>2
<1>14. ASSUME UNCHANGED vars, NEW r \in Requests PROVE Shape(r)'
  BY <1>14, SameShape DEF vars
<1> QED BY <1>1, <1>2, <1>3, <1>4, <1>5, <1>6, <1>7, <1>8, <1>9, <1>10, <1>11, <1>12, <1>13, <1>14 DEF Next, Quiet

-----------------------------------------------------------------------------
(* The whole invariant holds in every reachable state. *)
LEMMA Inductive == Spec => []StoryInv
<1>1. Init => StoryInv
  BY TypeInit, ShapeInit DEF StoryInv
<1>2. StoryInv /\ [Next]_vars => StoryInv'
  BY TypeNext, ShapeNext DEF StoryInv
<1> QED BY <1>1, <1>2, PTL DEF Spec

(* Every request stays in the states pendingCore can put it in. *)
THEOREM TypeCorrect == Spec => []TypeOK
<1>1. StoryInv => TypeOK
  BY DEF StoryInv
<1> QED BY <1>1, Inductive, PTL

(* Whatever the interleaving of answers, timeouts and a lost transport, the   *)
(* bus never tells Desktop an impossible story about a card.                   *)
THEOREM StoryCorrect == Spec => []StoryIsLegal
<1>1. StoryInv => StoryIsLegal
  <2> SUFFICES ASSUME StoryInv, NEW r \in Requests PROVE story[r] \in LegalStories
    BY DEF StoryIsLegal
  <2> DEFINE Heads == {<<>>} \cup {<<Dismissal(d)>> : d \in Decisions}
                      \cup {<<Card, Dismissal(d)>> : d \in Decisions}
  <2>1. /\ <<Card>> \in LegalStories /\ Heads \subseteq LegalStories
        /\ \A h \in Heads, d \in Decisions : Append(h, AgentEvent(d)) \in LegalStories
    BY DEF LegalStories
  <2>2. \A d \in Decisions : Told(d) \subseteq Heads
    BY DEF Told
  <2>3. <<>> \in Heads /\ \A d \in Decisions : {<<Dismissal(d)>>, <<Card, Dismissal(d)>>} \subseteq Heads
    OBVIOUS
  <2> HIDE DEF Heads
  <2>4. Shape(r) /\ pc[r] \in PCs /\ {ch[r], result[r]} \subseteq Decisions \cup {None}
    BY DEF StoryInv, TypeOK
  <2>5. CASE pc[r] \in {"idle", "send", "guard", "wait", "claimed"}
    BY <2>1, <2>3, <2>4, <2>5 DEF Shape, IdleShape, OpenShape, WaitShape, ClaimedShape
  <2>6. CASE pc[r] \in {"return", "done"}
    BY <2>1, <2>2, <2>4, <2>6 DEF Shape, ReturnShape
  <2>7. CASE pc[r] = "over"
    BY <2>1, <2>2, <2>4, <2>7 DEF Shape, OverShape
  <2> QED BY <2>4, <2>5, <2>6, <2>7 DEF PCs
<1> QED BY <1>1, Inductive, PTL

(* The user and the agent are never left with different decisions. *)
THEOREM DecisionCorrect == Spec => []DecisionAgrees
<1>1. StoryInv => DecisionAgrees
  <2> SUFFICES ASSUME StoryInv, NEW r \in Requests, result[r] # None,
                      NEW i \in DOMAIN story[r], story[r][i].kind # "request"
               PROVE  story[r][i].decision = result[r]
    BY DEF DecisionAgrees
  <2> DEFINE d == result[r]
  <2>1. Shape(r) /\ pc[r] \in PCs /\ d \in Decisions
    BY DEF StoryInv, TypeOK
  <2>2. /\ Card.kind = "request" /\ Dismissal(d).decision = d /\ AgentEvent(d).decision = d
    BY DEF Card, Dismissal, AgentEvent
  <2>3. pc[r] \in {"return", "done", "over"}
    BY <2>1 DEF PCs, Shape, IdleShape, OpenShape, WaitShape, ClaimedShape
  <2>4. \A told \in Told(d) : \A j \in DOMAIN told : told[j] = Card \/ told[j] = Dismissal(d)
    BY DEF Told
  <2>5. CASE pc[r] \in {"return", "done"}
    BY <2>1, <2>2, <2>4, <2>5 DEF Shape, ReturnShape
  <2>6. CASE pc[r] = "over"
    <3>1. PICK told \in Told(d) : story[r] = Append(told, AgentEvent(d))
      BY <2>1, <2>6 DEF Shape, OverShape
    <3>2. /\ Card \in Events /\ Dismissal(d) \in Events /\ AgentEvent(d) \in Events
          /\ told \in Seq(Events)
      <4>1. Card \in Events /\ Dismissal(d) \in Events /\ AgentEvent(d) \in Events
        BY <2>1, EventTypes
      <4>2. {<<>>, <<Dismissal(d)>>, <<Card, Dismissal(d)>>} \subseteq Seq(Events)
        BY <4>1
      <4> QED BY <4>1, <4>2 DEF Told
    <3>3. story[r][i] = Card \/ story[r][i] = Dismissal(d) \/ story[r][i] = AgentEvent(d)
      <4>1. /\ DOMAIN story[r] = 1 .. Len(told) + 1 /\ DOMAIN told = 1 .. Len(told)
            /\ \A j \in 1 .. Len(told) : story[r][j] = told[j]
            /\ story[r][Len(told) + 1] = AgentEvent(d) /\ Len(told) \in Nat
        BY <3>1, <3>2, AppendProperties
      <4>2. CASE i = Len(told) + 1
        BY <4>1, <4>2
      <4>3. CASE i \in 1 .. Len(told)
        BY <4>1, <4>3, <2>4
      <4> QED BY <4>1, <4>2, <4>3
    <3> QED BY <2>2, <3>3
  <2> QED BY <2>3, <2>5, <2>6
<1> QED BY <1>1, Inductive, PTL

-----------------------------------------------------------------------------
(* The refinement of OneShot *)

(* The mapped functions are determined by their values. *)
LEMMA MappedFunctions ==
  /\ stage = [r \in Requests |-> stage[r]] /\ stage' = [r \in Requests |-> stage'[r]]
  /\ decision = [r \in Requests |-> decision[r]]
  /\ decision' = [r \in Requests |-> decision'[r]]
BY DEF stage, decision

(* A step that leaves every mapped value alone is a stutter. *)
LEMMA Stutter ==
  ASSUME \A r \in Requests : stage'[r] = stage[r] /\ decision'[r] = decision[r],
         story' = story
  PROVE  UNCHANGED Abstract!vars
<1>1. stage' = stage /\ decision' = decision
  BY MappedFunctions
<1> QED BY <1>1 DEF Abstract!vars

(* A request's own fields decide how far it is. *)
LEMMA SameStage ==
  ASSUME NEW r \in Requests, pc'[r] = pc[r], (r \in emitted') <=> (r \in emitted),
         ch'[r] = ch[r], result'[r] = result[r]
  PROVE  stage'[r] = stage[r] /\ decision'[r] = decision[r]
BY DEF stage, decision, Settled

(* Settling the requests of S and dismissing the cards of T is a step of OneShot. *)
LEMMA SettleMaps ==
  ASSUME NEW S \in SUBSET Requests, NEW T \in SUBSET S, NEW d \in Decisions, S # {},
         \A r \in S : stage[r] \in {"asked", "shown"} /\ (stage[r] = "shown" => r \in T),
         \A r \in S : stage'[r] = "settled" /\ decision'[r] = d,
         \A r \in Requests \ S : stage'[r] = stage[r] /\ decision'[r] = decision[r],
         story' = [r \in Requests |-> IF r \in T THEN Append(story[r], Dismissal(d))
                                                ELSE story[r]]
  PROVE  Abstract!Next
<1>1. stage' = [r \in Requests |-> IF r \in S THEN "settled" ELSE stage[r]]
  BY MappedFunctions
<1>2. decision' = [r \in Requests |-> IF r \in S THEN d ELSE decision[r]]
  BY MappedFunctions
<1>3. Abstract!Settle(S, T, d)
  BY <1>1, <1>2 DEF Abstract!Settle, Abstract!Dismissal, Dismissal
<1> QED BY <1>3 DEF Abstract!Next

(* The same for a single request. *)
LEMMA SettleOneMaps ==
  ASSUME NEW q \in Requests, NEW T \in SUBSET {q}, NEW d \in Decisions,
         stage[q] \in {"asked", "shown"}, stage[q] = "shown" => q \in T,
         stage'[q] = "settled", decision'[q] = d,
         \A r \in Requests \ {q} : stage'[r] = stage[r] /\ decision'[r] = decision[r],
         story' = [r \in Requests |-> IF r \in T THEN Append(story[r], Dismissal(d))
                                                ELSE story[r]]
  PROVE  Abstract!Next
<1>1. stage' = [r \in Requests |-> IF r \in {q} THEN "settled" ELSE stage[r]]
  BY MappedFunctions
<1>2. decision' = [r \in Requests |-> IF r \in {q} THEN d ELSE decision[r]]
  BY MappedFunctions
<1>3. Abstract!Settle({q}, T, d)
  BY <1>1, <1>2 DEF Abstract!Settle, Abstract!Dismissal, Dismissal
<1>4. {q} \in SUBSET Requests
  OBVIOUS
<1> QED BY <1>3, <1>4 DEF Abstract!Next

(* Every step of pendingCore is a step of OneShot or a stutter. *)
LEMMA StepRefines ==
  ASSUME StoryInv, [Next]_vars
  PROVE  [Abstract!Next]_(Abstract!vars)
<1> USE TerminalIsDecision, NoneIsNoDecision
<1>0. /\ TypeOK
      /\ \A r \in Requests :
           IdleShape(r) /\ OpenShape(r) /\ WaitShape(r) /\ ClaimedShape(r) /\ ReturnShape(r)
  BY DEF StoryInv, Shape
<1>1. ASSUME NEW q \in Requests, Register(q) PROVE Abstract!Next
  <2>1. stage[q] = "new" /\ stage'[q] = "asked" /\ decision'[q] = decision[q]
    BY <1>0, <1>1 DEF Register, Goto, TypeOK, IdleShape, stage, decision, Settled
  <2>2. \A r \in Requests \ {q} : stage'[r] = stage[r] /\ decision'[r] = decision[r]
    BY <1>0, <1>1, SameStage DEF Register, Goto, TypeOK
  <2>3. Abstract!Ask(q)
    <3>1. stage' = [stage EXCEPT ![q] = "asked"] /\ decision' = decision
      BY <2>1, <2>2, MappedFunctions
    <3> QED BY <1>1, <2>1, <3>1 DEF Abstract!Ask, Register
  <2> QED BY <2>3 DEF Abstract!Next
<1>2. ASSUME NEW q \in Requests, SendOK(q) PROVE UNCHANGED Abstract!vars
  <2>1. stage'[q] = stage[q] /\ decision'[q] = decision[q]
    BY <1>0, <1>2 DEF SendOK, Goto, TypeOK, stage, decision, Settled
  <2>2. \A r \in Requests \ {q} : stage'[r] = stage[r] /\ decision'[r] = decision[r]
    BY <1>0, <1>2, SameStage DEF SendOK, Goto, TypeOK
  <2> QED BY <1>2, <2>1, <2>2, Stutter DEF SendOK
<1>3. ASSUME NEW q \in Requests, SendFails(q) PROVE [Abstract!Next]_(Abstract!vars)
  <2>1. \A r \in Requests \ {q} : stage'[r] = stage[r] /\ decision'[r] = decision[r]
    BY <1>0, <1>3, SameStage DEF SendFails, Return, Goto, TypeOK
  <2>2. stage'[q] = "settled" /\ decision'[q] = Terminal
    BY <1>0, <1>3 DEF SendFails, Return, Goto, TypeOK, stage, decision, Settled
  <2>3. CASE q \in pending
    <3>1. stage[q] = "asked"
      BY <1>0, <1>3, <2>3 DEF SendFails, TypeOK, OpenShape, stage, Settled
    <3> DEFINE T == {}
    <3>2. /\ T \in SUBSET {q}
          /\ story' = [r \in Requests |-> IF r \in T THEN Append(story[r], Dismissal(Terminal))
                                                    ELSE story[r]]
      BY <1>0, <1>3 DEF SendFails, TypeOK
    <3> HIDE DEF T
    <3> QED BY <2>1, <2>2, <3>1, <3>2, SettleOneMaps
  <2>4. CASE q \notin pending
    <3>1. stage[q] = "settled" /\ decision[q] = Terminal
      BY <1>0, <1>3, <2>4 DEF SendFails, TypeOK, OpenShape, stage, decision, Settled
    <3> QED BY <1>3, <2>1, <2>2, <3>1, Stutter DEF SendFails
  <2> QED BY <2>3, <2>4
<1>4. ASSUME NEW q \in Requests, Emit(q) PROVE Abstract!Next
  <2>1. stage[q] = "asked" /\ stage'[q] = "shown" /\ decision'[q] = decision[q]
    BY <1>0, <1>4 DEF Emit, Goto, TypeOK, OpenShape, stage, decision, Settled
  <2>2. \A r \in Requests \ {q} : stage'[r] = stage[r] /\ decision'[r] = decision[r]
    BY <1>0, <1>4, SameStage DEF Emit, Goto, TypeOK
  <2>3. Abstract!Show(q)
    <3>1. stage' = [stage EXCEPT ![q] = "shown"] /\ decision' = decision
      BY <2>1, <2>2, MappedFunctions
    <3> QED BY <1>4, <2>1, <3>1 DEF Abstract!Show, Abstract!Card, Card, Emit, Publish
  <2> QED BY <2>3 DEF Abstract!Next
<1>5. ASSUME NEW q \in Requests, SettledBeforeEmit(q) PROVE UNCHANGED Abstract!vars
  <2>1. stage'[q] = stage[q] /\ decision'[q] = decision[q]
    BY <1>0, <1>5 DEF SettledBeforeEmit, Return, Buffered, Goto, TypeOK, OpenShape, stage, decision, Settled
  <2>2. \A r \in Requests \ {q} : stage'[r] = stage[r] /\ decision'[r] = decision[r]
    BY <1>0, <1>5, SameStage DEF SettledBeforeEmit, Return, Goto, TypeOK
  <2> QED BY <1>5, <2>1, <2>2, Stutter DEF SettledBeforeEmit
<1>6. ASSUME NEW q \in Requests, Receive(q) PROVE UNCHANGED Abstract!vars
  <2>1. stage'[q] = stage[q] /\ decision'[q] = decision[q]
    BY <1>0, <1>6 DEF Receive, Return, Goto, TypeOK, WaitShape, stage, decision, Settled
  <2>2. \A r \in Requests \ {q} : stage'[r] = stage[r] /\ decision'[r] = decision[r]
    BY <1>0, <1>6, SameStage DEF Receive, Return, Goto, TypeOK
  <2> QED BY <1>6, <2>1, <2>2, Stutter DEF Receive
<1>7. ASSUME NEW q \in Requests, Claim(q) PROVE UNCHANGED Abstract!vars
  <2>1. stage'[q] = stage[q] /\ decision'[q] = decision[q]
    BY <1>0, <1>7 DEF Claim, Goto, TypeOK, WaitShape, stage, decision, Settled
  <2>2. \A r \in Requests \ {q} : stage'[r] = stage[r] /\ decision'[r] = decision[r]
    BY <1>0, <1>7, SameStage DEF Claim, Goto, TypeOK
  <2> QED BY <1>7, <2>1, <2>2, Stutter DEF Claim
<1>8. ASSUME NEW q \in Requests, ClaimLost(q) PROVE UNCHANGED Abstract!vars
  <2>1. stage'[q] = stage[q] /\ decision'[q] = decision[q]
    BY <1>0, <1>8 DEF ClaimLost, Return, Buffered, Goto, TypeOK, WaitShape, stage, decision, Settled
  <2>2. \A r \in Requests \ {q} : stage'[r] = stage[r] /\ decision'[r] = decision[r]
    BY <1>0, <1>8, SameStage DEF ClaimLost, Return, Goto, TypeOK
  <2> QED BY <1>8, <2>1, <2>2, Stutter DEF ClaimLost
<1>9. ASSUME NEW q \in Requests, Cleanup(q) PROVE Abstract!Next
  <2>1. stage[q] = "shown" /\ stage'[q] = "settled" /\ decision'[q] = Terminal
    BY <1>0, <1>9 DEF Cleanup, Return, Goto, TypeOK, ClaimedShape, stage, decision, Settled
  <2>2. \A r \in Requests \ {q} : stage'[r] = stage[r] /\ decision'[r] = decision[r]
    BY <1>0, <1>9, SameStage DEF Cleanup, Return, Goto, TypeOK
  <2>3. story' = [r \in Requests |-> IF r \in {q} THEN Append(story[r], Dismissal(Terminal))
                                                  ELSE story[r]]
    BY <1>0, <1>9 DEF Cleanup, Publish, TypeOK
  <2> QED BY <2>1, <2>2, <2>3, SettleOneMaps
<1>10. ASSUME NEW q \in Requests, Deregister(q) PROVE UNCHANGED Abstract!vars
  <2>1. stage'[q] = stage[q] /\ decision'[q] = decision[q]
    BY <1>0, <1>10 DEF Deregister, Goto, TypeOK, ReturnShape, stage, decision, Settled
  <2>2. \A r \in Requests \ {q} : stage'[r] = stage[r] /\ decision'[r] = decision[r]
    BY <1>0, <1>10, SameStage DEF Deregister, Goto, TypeOK
  <2> QED BY <1>10, <2>1, <2>2, Stutter DEF Deregister
<1>11. ASSUME NEW q \in Requests, AgentGoesOn(q) PROVE Abstract!Next
  <2>1. /\ stage[q] = "settled" /\ stage'[q] = "over"
        /\ decision[q] = result[q] /\ decision'[q] = decision[q]
    BY <1>0, <1>11 DEF AgentGoesOn, Goto, TypeOK, ReturnShape, stage, decision, Settled
  <2>2. \A r \in Requests \ {q} : stage'[r] = stage[r] /\ decision'[r] = decision[r]
    BY <1>0, <1>11, SameStage DEF AgentGoesOn, Goto, TypeOK
  <2>3. Abstract!GoOn(q)
    <3>1. stage' = [stage EXCEPT ![q] = "over"] /\ decision' = decision
      BY <2>1, <2>2, MappedFunctions
    <3> QED BY <1>11, <2>1, <3>1
            DEF Abstract!GoOn, Abstract!AgentEvent, AgentEvent, AgentGoesOn, Publish
  <2> QED BY <2>3 DEF Abstract!Next
<1>12. ASSUME NEW q \in Requests, NEW d \in Decisions, Resolve(q, d) PROVE Abstract!Next
  <2>1. /\ stage[q] \in {"asked", "shown"} /\ ch[q] = None /\ result[q] = None
        /\ pc[q] \in {"guard", "wait"} /\ (stage[q] = "shown" => q \in {q})
    BY <1>0, <1>12 DEF Resolve, TypeOK, PCs, IdleShape, OpenShape, WaitShape, ClaimedShape,
                      ReturnShape, StoryInv, Shape, OverShape, stage, Settled
  <2>2. stage'[q] = "settled" /\ decision'[q] = d
    BY <1>0, <1>12, <2>1 DEF Resolve, TypeOK, stage, decision, Settled
  <2>3. \A r \in Requests \ {q} : stage'[r] = stage[r] /\ decision'[r] = decision[r]
    BY <1>0, <1>12, SameStage DEF Resolve, TypeOK
  <2>4. story' = [r \in Requests |-> IF r \in {q} THEN Append(story[r], Dismissal(d))
                                                  ELSE story[r]]
    BY <1>0, <1>12 DEF Resolve, Publish, TypeOK
  <2> QED BY <2>1, <2>2, <2>3, <2>4, SettleOneMaps
<1>13. CASE CancelAll
  <2> DEFINE S == {r \in pending : result[r] = None}
             T == pending \cap emitted
  <2>1. T \subseteq S /\ S \subseteq Requests
    BY <1>0 DEF TypeOK, PCs, IdleShape, OpenShape, WaitShape, ClaimedShape, ReturnShape,
                StoryInv, Shape, OverShape
  <2>2. \A r \in S : stage[r] \in {"asked", "shown"} /\ (stage[r] = "shown" => r \in T)
    BY <1>0 DEF TypeOK, PCs, IdleShape, OpenShape, WaitShape, ClaimedShape, ReturnShape,
                StoryInv, Shape, OverShape, stage, Settled
  <2>3. \A r \in S : stage'[r] = "settled" /\ decision'[r] = Terminal
    BY <1>0, <1>13, <2>2 DEF PCs, IdleShape, OpenShape, WaitShape, ClaimedShape, ReturnShape,
                             StoryInv, Shape, OverShape,  CancelAll, TypeOK, stage, decision, Settled
  <2>4. \A r \in Requests \ S : stage'[r] = stage[r] /\ decision'[r] = decision[r]
    <3> SUFFICES ASSUME NEW r \in Requests \ S
                 PROVE  stage'[r] = stage[r] /\ decision'[r] = decision[r]
      OBVIOUS
    <3>1. CASE r \in pending
      BY <1>0, <1>13, <3>1 DEF CancelAll, TypeOK, stage, decision, Settled
    <3>2. CASE r \notin pending
      BY <1>0, <1>13, <3>2, SameStage DEF CancelAll, TypeOK
    <3> QED BY <3>1, <3>2
  <2>5. story' = [r \in Requests |-> IF r \in T THEN Append(story[r], Dismissal(Terminal))
                                                ELSE story[r]]
    BY <1>13 DEF CancelAll
  <2>6. CASE S = {}
    <3>1. story' = story
      BY <1>0, <2>1, <2>5, <2>6 DEF TypeOK
    <3> QED BY <2>4, <2>6, <3>1, Stutter
  <2>7. CASE S # {}
    <3> HIDE DEF S, T
    <3> QED BY <2>1, <2>2, <2>3, <2>4, <2>5, <2>7, SettleMaps
  <2> QED BY <2>6, <2>7
<1>14. CASE UNCHANGED vars
  BY <1>14, SameStage, Stutter DEF vars
<1> QED BY <1>1, <1>2, <1>3, <1>4, <1>5, <1>6, <1>7, <1>8, <1>9, <1>10, <1>11, <1>12,
           <1>13, <1>14 DEF Next, Quiet

(* pendingCore keeps the promise of OneShot: each interaction is settled once, *)
(* by one decision, in the step that dismisses its card, and the agent goes on   *)
(* afterwards with that decision.                                                *)
THEOREM Refinement == Spec => IsOneShot
<1>1. Init => Abstract!Init
  BY DEF Init, Abstract!Init, stage, decision
<1>2. StoryInv /\ [Next]_vars => [Abstract!Next]_(Abstract!vars)
  BY StepRefines
<1> QED BY <1>1, <1>2, Inductive, PTL DEF Spec, IsOneShot, Abstract!Spec

=============================================================================

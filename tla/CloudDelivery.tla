---------------------------- MODULE CloudDelivery ----------------------------
(***************************************************************************)
(* Messages from the Cloud, from their delivery over the WebSocket to the  *)
(* reply and the acknowledgement (client.go, the onMsg callback of         *)
(* cmd/daemon.go, and the reply targets the agent loop keeps).  Every      *)
(* delivery has a handler of its own.  It takes one of the slots, claims   *)
(* the message, and either puts it into the run that is active on the      *)
(* route, which then answers for it, or starts a run.  A run answers in    *)
(* the name of the last message it took in, and acknowledges the others    *)
(* along with it.  When it goes on after an answer for a follow-up that    *)
(* came in late, that answer is sent as an intermediate one.               *)
(*                                                                         *)
(* All messages are for one route.  A write on a broken connection fails,  *)
(* and one on a good connection arrives.  The Cloud is external: it        *)
(* delivers what is not acknowledged again on every new connection.        *)
(***************************************************************************)
EXTENDS Integers, Sequences, FiniteSets, Functions

CONSTANTS
  Msgs,
  None,
  MaxConcurrent,     \* slots for handlers
  ChanCap,           \* capacity of a run's inject channel
  MaxHandlers,       \* bounds on the deliveries,
  MaxDrops,          \* the lost connections
  MaxCrashes,        \* and the crashes
  ExclusiveClaims    \* the Cloud delivers no message that a handler is still working on

(* What pendingReplies holds for a message: skip its reply, or whom to       *)
(* answer and whom to acknowledge with it.                                  *)
Suppress == [kind |-> "suppress"]
Answers == [kind : {"answer"}, to : Msgs, acks : SUBSET Msgs]
Answer(id, acks) == [kind |-> "answer", to |-> id, acks |-> acks]

ASSUME CloudConstants ==
  /\ MaxConcurrent \in Nat \ {0} /\ ChanCap \in Nat \ {0} /\ MaxHandlers \in Nat
  /\ MaxDrops \in Nat /\ MaxCrashes \in Nat /\ ExclusiveClaims \in BOOLEAN
  /\ None \notin Msgs \cup Answers \cup {Suppress}

Handlers == 1..MaxHandlers

VARIABLES
  conn,      \* the connection
  seen,      \* the messages delivered on it
  acked,     \* the messages the Cloud holds an acknowledgement of
  pc, msg,   \* of every handler: where it is, its message
  to,        \* whom its run, or its reply, answers
  pend,      \* the ids still to be acknowledged along with the reply
  turn,      \* the messages the text it composes or sends is about
  sup, late, \* the same two, of the intermediate answer it is sending
  plans,     \* pendingReplies, by message id
  owner,     \* the handler whose run holds the route, 0 when none
  window,    \* the run takes injected messages
  chan,      \* its inject channel
  queue, rows,  \* the route's mailbox, in memory and pending in the database
  known,     \* the cloud ids the database has ever had a row for
  drops, crashes,
  told,      \* history: the messages a text that was sent was about
  unsaid,    \* those about which an intermediate answer could not be sent
  replies    \* how many replies each message id got

wire == <<conn, seen, acked, drops, crashes>>
route == <<owner, window, chan, queue, rows, known>>
reply == <<to, pend, turn, sup, late>>
history == <<told, unsaid, replies>>
vars == <<wire, pc, msg, reply, plans, route, history>>

Waiting == {"slot"}
Busy == {"claim", "route", "accepted", "lock", "begun", "loop", "inter", "interAck",
         "teardown", "plan", "finish", "reply", "ack"}
Live(i) == pc[i] \in Waiting \cup Busy

TypeOK ==
  /\ conn \in {"up", "down"} /\ seen \subseteq Msgs /\ acked \subseteq Msgs
  /\ drops \in 0..MaxDrops /\ crashes \in 0..MaxCrashes
  /\ pc \in [Handlers -> Waiting \cup Busy \cup {"idle", "done"}]
  /\ msg \in [Handlers -> Msgs \cup {None}]
  /\ \A i \in Handlers : (pc[i] = "idle") <=> (msg[i] = None)
  /\ to \in [Handlers -> Msgs \cup {None}]
  /\ pend \in [Handlers -> SUBSET Msgs] /\ turn \in [Handlers -> SUBSET Msgs]
  /\ sup \in [Handlers -> Msgs \cup {None}] /\ late \in [Handlers -> SUBSET Msgs]
  /\ plans \in [Msgs -> {None, Suppress} \cup Answers]
  /\ owner \in Handlers \cup {0}
  /\ \A i \in Handlers : (owner = i) <=> pc[i] \in {"begun", "loop", "inter", "interAck", "teardown"}
  /\ window \in {"open", "closed"} /\ (window = "open" => owner # 0)
  /\ chan \in Seq(Msgs) /\ Len(chan) <= ChanCap /\ (window = "closed" => chan = <<>>)
  /\ queue \subseteq rows /\ rows \subseteq known /\ known \subseteq Msgs
  /\ told \subseteq Msgs /\ unsaid \subseteq Msgs /\ replies \in [Msgs -> Nat]

Init ==
  /\ conn = "up" /\ seen = {} /\ acked = {} /\ drops = 0 /\ crashes = 0
  /\ pc = [i \in Handlers |-> "idle"] /\ msg = [i \in Handlers |-> None]
  /\ to = [i \in Handlers |-> None]
  /\ pend = [i \in Handlers |-> {}] /\ turn = [i \in Handlers |-> {}]
  /\ sup = [i \in Handlers |-> None] /\ late = [i \in Handlers |-> {}]
  /\ plans = [m \in Msgs |-> None]
  /\ owner = 0 /\ window = "closed" /\ chan = <<>>
  /\ queue = {} /\ rows = {} /\ known = {}
  /\ told = {} /\ unsaid = {} /\ replies = [m \in Msgs |-> 0]

Goto(i, l) == pc' = [pc EXCEPT ![i] = l]
At(i, l) == pc[i] = l

-----------------------------------------------------------------------------
(* The connection.                                                          *)

Deliver(i, m) ==
  /\ At(i, "idle") /\ \A j \in Handlers : j < i => ~At(j, "idle")
  /\ conn = "up" /\ m \notin seen \cup acked
  /\ ExclusiveClaims => \A j \in Handlers : msg[j] = m => ~Live(j)
  /\ seen' = seen \cup {m}
  /\ msg' = [msg EXCEPT ![i] = m] /\ Goto(i, "slot")
  /\ to' = [to EXCEPT ![i] = m]
  /\ UNCHANGED <<conn, acked, drops, crashes, pend, turn, sup, late, plans, route, history>>

(* The handlers go on: their context is that of the reconnect loop.         *)
Drop ==
  /\ conn = "up" /\ drops < MaxDrops
  /\ conn' = "down" /\ drops' = drops + 1
  /\ UNCHANGED <<seen, acked, crashes, pc, msg, reply, plans, route, history>>

Reconnect ==
  /\ conn = "down"
  /\ conn' = "up" /\ seen' = {}
  /\ UNCHANGED <<acked, drops, crashes, pc, msg, reply, plans, route, history>>

AcquireSlot(i) ==
  /\ At(i, "slot") /\ Cardinality({j \in Handlers : pc[j] \in Busy}) < MaxConcurrent
  /\ Goto(i, "claim")
  /\ UNCHANGED <<wire, msg, reply, plans, route, history>>

Granted(i) ==
  /\ At(i, "claim") /\ conn = "up"
  /\ Goto(i, "route")
  /\ UNCHANGED <<wire, msg, reply, plans, route, history>>

(* Mutant: the wait for the answer has no end.                              *)
OnlyWhenDenied(i) == At(i, "claim") /\ conn = "up"

(* The claim cannot be sent, is denied, or gets no answer in time.          *)
ClaimFails(i) == At(i, "claim")

NotGranted(i) ==
  /\ ClaimFails(i)
  /\ Goto(i, "done")
  /\ UNCHANGED <<wire, msg, reply, plans, route, history>>

-----------------------------------------------------------------------------
(* The callback, up to the run.                                             *)

Inject(i) ==
  /\ At(i, "route") /\ window = "open" /\ Len(chan) < ChanCap
  /\ chan' = Append(chan, msg[i])
  /\ Goto(i, "accepted")
  /\ UNCHANGED <<wire, msg, reply, plans, owner, window, queue, rows, known, history>>

(* Mutant: an accepted message is answered like a rejected one.             *)
NothingSuppressed(i) == plans

Suppressed(i) == [plans EXCEPT ![msg[i]] = Suppress]

SuppressReply(i) ==
  /\ At(i, "accepted")
  /\ plans' = Suppressed(i)
  /\ Goto(i, "finish")
  /\ UNCHANGED <<wire, msg, reply, route, history>>

(* The channel is full or the message is about another directory, or the    *)
(* run is still starting.  The text of the reply is a notice about the      *)
(* message.                                                                 *)
Reject(i) ==
  /\ At(i, "route") /\ (window = "open" \/ \E j \in Handlers : At(j, "begun"))
  /\ turn' = [turn EXCEPT ![i] = {msg[i]}]
  /\ Goto(i, "finish")
  /\ UNCHANGED <<wire, msg, to, pend, sup, late, plans, route, history>>

(* Until the run holding the route has registered, a message waits for it    *)
(* too.                                                                     *)
NoActiveRun(i) ==
  /\ At(i, "route") /\ window = "closed"
  /\ Goto(i, "lock")
  /\ UNCHANGED <<wire, msg, reply, plans, route, history>>

(* Mutant: a route that takes no messages is taken to be free.              *)
RouteClosed(i) == At(i, "lock") /\ window = "closed"

RouteFree(i) == At(i, "lock") /\ owner = 0

(* The run drains the mailbox; the rows are consumed when the session is    *)
(* saved.                                                                   *)
BeginRun(i) ==
  /\ RouteFree(i)
  /\ owner' = i /\ Goto(i, "begun")
  /\ turn' = [turn EXCEPT ![i] = {msg[i]} \cup queue]
  /\ queue' = {}
  /\ UNCHANGED <<wire, msg, to, pend, sup, late, plans, window, chan, rows, known, history>>

(* An error before the loop: there is no result, and so no plan.            *)
SetupFails(i) ==
  /\ At(i, "begun")
  /\ turn' = [turn EXCEPT ![i] = {msg[i]}]
  /\ owner' = 0 /\ Goto(i, "finish")
  /\ UNCHANGED <<wire, msg, to, pend, sup, late, plans, window, chan, queue, rows, known, history>>

EnterLoop(i) ==
  /\ At(i, "begun")
  /\ rows' = rows \ turn[i]
  /\ window' = "open"
  /\ pend' = [pend EXCEPT ![i] = {msg[i]}]
  /\ Goto(i, "loop")
  /\ UNCHANGED <<wire, msg, to, turn, sup, late, plans, owner, chan, queue, known, history>>

-----------------------------------------------------------------------------
(* The loop's reply targets.                                                *)

(* commitInjectedTurn: the last message becomes the one answered, and all   *)
(* of them are to be acknowledged.                                          *)
Commit(i) ==
  /\ to' = [to EXCEPT ![i] = chan[Len(chan)]]
  /\ pend' = [pend EXCEPT ![i] = @ \cup Range(chan)]
  /\ chan' = <<>>

DrainInjected(i) ==
  /\ At(i, "loop") /\ chan # <<>>
  /\ Commit(i)
  /\ turn' = [turn EXCEPT ![i] = @ \cup Range(chan)]
  /\ UNCHANGED <<wire, pc, msg, sup, late, plans, owner, window, queue, rows, known, history>>

(* The answer is ready and more messages have come in: they are committed,  *)
(* and the answer goes out in the name of the message answered before them. *)
EndTurnGoesOn(i) ==
  /\ At(i, "loop") /\ chan # <<>>
  /\ sup' = [sup EXCEPT ![i] = to[i]] /\ late' = [late EXCEPT ![i] = turn[i]]
  /\ Commit(i)
  /\ turn' = [turn EXCEPT ![i] = Range(chan)]
  /\ Goto(i, "inter")
  /\ UNCHANGED <<wire, msg, plans, owner, window, queue, rows, known, history>>

RemovePendingAck(i) == pend[i] \ {sup[i]}

(* Back in the loop, with the answer sent or not.                           *)
Onward(i) ==
  /\ pend' = [pend EXCEPT ![i] = RemovePendingAck(i)]
  /\ sup' = [sup EXCEPT ![i] = None] /\ late' = [late EXCEPT ![i] = {}]
  /\ Goto(i, "loop")
  /\ UNCHANGED <<msg, to, turn, plans, route>>

OnIntermediateAnswer(i) ==
  /\ At(i, "inter") /\ conn = "up"
  /\ told' = told \cup late[i] /\ replies' = [replies EXCEPT ![sup[i]] = @ + 1]
  /\ Goto(i, "interAck")
  /\ UNCHANGED <<wire, msg, reply, plans, route, unsaid>>

IntermediateAck(i) ==
  /\ At(i, "interAck")
  /\ acked' = IF conn = "up" THEN acked \cup {sup[i]} ELSE acked
  /\ Onward(i)
  /\ UNCHANGED <<conn, seen, drops, crashes, history>>

IntermediateFails(i) ==
  /\ At(i, "inter") /\ conn = "down"
  /\ unsaid' = unsaid \cup late[i]
  /\ Onward(i)
  /\ UNCHANGED <<wire, told, replies>>

(* The window closes together with the drain that finds nothing.            *)
EndTurn(i) ==
  /\ At(i, "loop") /\ chan = <<>>
  /\ window' = "closed" /\ Goto(i, "teardown")
  /\ UNCHANGED <<wire, msg, reply, plans, owner, chan, queue, rows, known, history>>

(* An error, the iteration limit, a tool that ends the turn: the channel is *)
(* not drained.  The text is the error or what there is of an answer.       *)
LoopFails(i) ==
  /\ At(i, "loop")
  /\ Goto(i, "teardown")
  /\ UNCHANGED <<wire, msg, reply, plans, route, history>>

(* A message the database had a row for already is not queued again.        *)
ReEnqueueInjectSurvivors(i) ==
  /\ At(i, "teardown") /\ chan # <<>>
  /\ rows' = rows \cup (Range(chan) \ known)
  /\ queue' = queue \cup (Range(chan) \ known)
  /\ known' = known \cup Range(chan)
  /\ chan' = <<>>
  /\ UNCHANGED <<wire, pc, msg, reply, plans, owner, window, history>>

UnlockRoute(i) ==
  /\ At(i, "teardown") /\ chan = <<>>
  /\ window' = "closed" /\ owner' = 0
  /\ Goto(i, "plan")
  /\ UNCHANGED <<wire, msg, reply, plans, chan, queue, rows, known, history>>

-----------------------------------------------------------------------------
(* The end of the callback and of handleMessage.                            *)

SetReplyPlan(i) ==
  /\ At(i, "plan")
  /\ plans' = [plans EXCEPT ![msg[i]] = Answer(to[i], pend[i])]
  /\ Goto(i, "finish")
  /\ UNCHANGED <<wire, msg, reply, route, history>>

(* Without a plan the handler answers and acknowledges its own message.     *)
ReplyID(i) == IF plans[msg[i]] = None THEN msg[i] ELSE plans[msg[i]].to
AckIDs(i) ==
  IF plans[msg[i]] = None \/ plans[msg[i]].acks = {} THEN {ReplyID(i)} ELSE plans[msg[i]].acks

TakeSuppression(i) ==
  /\ At(i, "finish") /\ plans[msg[i]] = Suppress
  /\ plans' = [plans EXCEPT ![msg[i]] = None]
  /\ Goto(i, "done")
  /\ UNCHANGED <<wire, msg, reply, route, history>>

TakePlan(i) ==
  /\ At(i, "finish") /\ plans[msg[i]] # Suppress
  /\ plans' = [plans EXCEPT ![msg[i]] = None]
  /\ to' = [to EXCEPT ![i] = ReplyID(i)] /\ pend' = [pend EXCEPT ![i] = AckIDs(i)]
  /\ Goto(i, "reply")
  /\ UNCHANGED <<wire, msg, turn, sup, late, route, history>>

SendReply(i) ==
  /\ At(i, "reply") /\ conn = "up"
  /\ told' = told \cup turn[i] /\ replies' = [replies EXCEPT ![to[i]] = @ + 1]
  /\ Goto(i, "ack")
  /\ UNCHANGED <<wire, msg, reply, plans, route, unsaid>>

(* Mutant: the ids are acknowledged although the reply was not sent.        *)
ReplyFailsButAcks(i) == At(i, "reply") /\ conn = "down" /\ Goto(i, "ack")

ReplyFails(i) == At(i, "reply") /\ conn = "down" /\ Goto(i, "done")

ReplyNotSent(i) == ReplyFails(i) /\ UNCHANGED <<wire, msg, reply, plans, route, history>>

SendDeliveryAck(i, m) ==
  /\ At(i, "ack") /\ m \in pend[i]
  /\ acked' = IF conn = "up" THEN acked \cup {m} ELSE acked
  /\ pend' = [pend EXCEPT ![i] = @ \ {m}]
  /\ Goto(i, IF pend[i] = {m} THEN "done" ELSE "ack")
  /\ UNCHANGED <<conn, seen, drops, crashes, msg, to, turn, sup, late, plans, route, history>>

-----------------------------------------------------------------------------
(* The daemon dies and starts again: the mailbox is read from the database. *)
Crash ==
  /\ crashes < MaxCrashes /\ crashes' = crashes + 1
  /\ conn' = "down"
  /\ pc' = [i \in Handlers |-> IF Live(i) THEN "done" ELSE pc[i]]
  /\ plans' = [m \in Msgs |-> None]
  /\ owner' = 0 /\ window' = "closed" /\ chan' = <<>>
  /\ queue' = rows
  /\ UNCHANGED <<seen, acked, drops, msg, reply, rows, known, history>>

Step(i) ==
  \/ AcquireSlot(i) \/ Granted(i) \/ NotGranted(i)
  \/ Inject(i) \/ SuppressReply(i) \/ Reject(i) \/ NoActiveRun(i)
  \/ BeginRun(i) \/ SetupFails(i) \/ EnterLoop(i)
  \/ DrainInjected(i) \/ EndTurnGoesOn(i)
  \/ OnIntermediateAnswer(i) \/ IntermediateAck(i) \/ IntermediateFails(i)
  \/ EndTurn(i) \/ LoopFails(i) \/ ReEnqueueInjectSurvivors(i) \/ UnlockRoute(i)
  \/ SetReplyPlan(i) \/ TakeSuppression(i) \/ TakePlan(i) \/ SendReply(i) \/ ReplyNotSent(i)
  \/ \E m \in Msgs : SendDeliveryAck(i, m)

Next ==
  \/ \E i \in Handlers, m \in Msgs : Deliver(i, m)
  \/ \E i \in Handlers : Step(i)
  \/ Drop \/ Reconnect \/ Crash

(* Handlers are goroutines of their own, a claim that is not answered times *)
(* out, RunAgent returns, and a slot or the route's lock that is given back  *)
(* goes to one that waits for it.                                           *)
Spec == Init /\ [][Next]_vars
FairSpec == Spec /\ \A i \in Handlers : WF_vars(Step(i))

-----------------------------------------------------------------------------
(* What is acknowledged is not delivered again, so its answer has to be out: *)
(* a text about the message was sent, or is lost for good.                   *)
AckedWasAnswered == acked \subseteq told

(* ... except, by the code, those merged into a turn whose intermediate      *)
(* answer could not be sent.                                                 *)
AckedOrUnsaid == acked \subseteq told \cup unsaid

(* However the handlers, runs and connections interleave, an id gets no more *)
(* replies than it was delivered times: one completion for each inbound.     *)
RepliesBounded ==
  \A m \in Msgs : replies[m] <= Cardinality({i \in Handlers : msg[i] = m})

(* A handler comes to its end, and gives its slot back.                      *)
HandlersReturn == \A i \in Handlers : Live(i) ~> At(i, "done")

=============================================================================

-------------------------- MODULE PendingInteraction --------------------------
(***************************************************************************)
(* pendingCore (src/internal/daemon/pending.go), the lifecycle shared by   *)
(* ApprovalBroker and QuestionBroker: an agent asks, the request is sent   *)
(* and published as a card, and whichever of the user's answer, the        *)
(* timeout, the end of the run's context and the loss of the transport     *)
(* comes first settles it.                                                 *)
(*                                                                         *)
(* Every critical section under the broker's mutex is one action.  The     *)
(* events about one request are kept in the order of their bus ids; the    *)
(* order between two requests' events matters to nobody.                   *)
(***************************************************************************)
EXTENDS Sequences

CONSTANTS
  Requests,
  Decisions,
  Terminal,  \* daemonTerminal: deny for approvals, cancel for questions
  None

ASSUME TerminalIsDecision == Terminal \in Decisions
ASSUME NoneIsNoDecision == None \notin Decisions

VARIABLES
  pc,       \* where each call of run is
  pending,  \* the keys of pendingCore.pending
  emitted,  \* the requests whose entry has emitted set
  ch,       \* the decision buffered on each entry's channel
  sent,     \* the requests a client has received
  result,   \* what run returned
  story     \* the bus events about each request

vars == <<pc, pending, emitted, ch, sent, result, story>>

PCs == {"idle", "send", "guard", "wait", "claimed", "return", "done", "over"}

Card == [kind |-> "request", decision |-> None]
Dismissal(d) == [kind |-> "resolved", decision |-> d]
AgentEvent(d) == [kind |-> "agent", decision |-> d]

Events == {Card} \cup {Dismissal(d) : d \in Decisions}
          \cup {AgentEvent(d) : d \in Decisions}

TypeOK ==
  /\ pc \in [Requests -> PCs]
  /\ pending \subseteq Requests
  /\ emitted \subseteq Requests
  /\ ch \in [Requests -> Decisions \cup {None}]
  /\ sent \subseteq Requests
  /\ result \in [Requests -> Decisions \cup {None}]
  /\ story \in [Requests -> Seq(Events)]

Init ==
  /\ pc = [r \in Requests |-> "idle"]
  /\ pending = {}
  /\ emitted = {}
  /\ ch = [r \in Requests |-> None]
  /\ sent = {}
  /\ result = [r \in Requests |-> None]
  /\ story = [r \in Requests |-> <<>>]

-----------------------------------------------------------------------------
Goto(r, where) == pc' = [pc EXCEPT ![r] = where]

Publish(r, event) == story' = [story EXCEPT ![r] = Append(@, event)]

(* select { case decision := <-pa.ch: ... default: daemonTerminal } *)
Buffered(r) == IF ch[r] = None THEN Terminal ELSE ch[r]

(* Mutant of Return: the decision is assigned to a shadowed variable. *)
ReturnShadowed(r, d) ==
  /\ Goto(r, "return")
  /\ UNCHANGED result

Return(r, d) ==
  /\ result' = [result EXCEPT ![r] = d]
  /\ Goto(r, "return")

(* run: the entry is registered before anything is sent. *)
Register(r) ==
  /\ pc[r] = "idle"
  /\ pending' = pending \cup {r}
  /\ Goto(r, "send")
  /\ UNCHANGED <<emitted, ch, sent, result, story>>

SendOK(r) ==
  /\ pc[r] = "send"
  /\ sent' = sent \cup {r}
  /\ Goto(r, "guard")
  /\ UNCHANGED <<pending, emitted, ch, result, story>>

(* The request is abandoned without onCleanup: nothing was ever shown. *)
SendFails(r) ==
  /\ pc[r] = "send"
  /\ Return(r, Terminal)
  /\ UNCHANGED <<pending, emitted, ch, sent, story>>

(* Mutant of Emit: the request is published without a look at pending. *)
EmitUnguarded(r) ==
  /\ pc[r] = "guard"
  /\ Publish(r, Card)
  /\ emitted' = emitted \cup {r}
  /\ Goto(r, "wait")
  /\ UNCHANGED <<pending, ch, sent, result>>

Emit(r) ==
  /\ pc[r] = "guard" /\ r \in pending
  /\ Publish(r, Card)
  /\ emitted' = emitted \cup {r}
  /\ Goto(r, "wait")
  /\ UNCHANGED <<pending, ch, sent, result>>

(* Somebody settled the request between the send and the guard. *)
SettledBeforeEmit(r) ==
  /\ pc[r] = "guard" /\ r \notin pending
  /\ Return(r, Buffered(r))
  /\ UNCHANGED <<pending, emitted, ch, sent, story>>

Receive(r) ==
  /\ pc[r] = "wait" /\ ch[r] # None
  /\ Return(r, ch[r])
  /\ UNCHANGED <<pending, emitted, ch, sent, story>>

(* Mutant of Claim: the timeout and the context do not end the wait. *)
ClaimIfAnswered(r) ==
  /\ pc[r] = "wait" /\ r \in pending /\ ch[r] # None
  /\ pending' = pending \ {r}
  /\ Goto(r, "claimed")
  /\ UNCHANGED <<emitted, ch, sent, result, story>>

(* The timeout or the context fires and claimForCleanup wins the race. *)
Claim(r) ==
  /\ pc[r] = "wait" /\ r \in pending
  /\ pending' = pending \ {r}
  /\ Goto(r, "claimed")
  /\ UNCHANGED <<emitted, ch, sent, result, story>>

(* Mutant of ClaimLost: the timeout wins over the answer that settled it. *)
ClaimLostDenies(r) ==
  /\ pc[r] = "wait" /\ r \notin pending
  /\ Return(r, Terminal)
  /\ UNCHANGED <<pending, emitted, ch, sent, story>>

(* The timeout or the context fires too late: the buffered decision stands. *)
ClaimLost(r) ==
  /\ pc[r] = "wait" /\ r \notin pending
  /\ Return(r, Buffered(r))
  /\ UNCHANGED <<pending, emitted, ch, sent, story>>

(* onCleanup, outside the mutex. *)
Cleanup(r) ==
  /\ pc[r] = "claimed"
  /\ Publish(r, Dismissal(Terminal))
  /\ Return(r, Terminal)
  /\ UNCHANGED <<pending, emitted, ch, sent>>

(* The deferred onDeregister and delete. *)
Deregister(r) ==
  /\ pc[r] = "return"
  /\ pending' = pending \ {r}
  /\ Goto(r, "done")
  /\ UNCHANGED <<emitted, ch, sent, result, story>>

(* The agent loop, which reads the decision, emits its next event. *)
AgentGoesOn(r) ==
  /\ pc[r] = "done"
  /\ Publish(r, AgentEvent(result[r]))
  /\ Goto(r, "over")
  /\ UNCHANGED <<pending, emitted, ch, sent, result>>

-----------------------------------------------------------------------------
(* The other goroutines *)

(* Resolve from POST /approval, POST /question or a WebSocket response.  When *)
(* the entry is gone it reports false and the caller emits nothing.           *)
Resolve(r, d) ==
  /\ r \in sent /\ r \in pending
  /\ Publish(r, Dismissal(d))
  /\ ch' = [ch EXCEPT ![r] = d]
  /\ pending' = pending \ {r}
  /\ UNCHANGED <<pc, emitted, sent, result>>

(* cancelAll, when the transport goes down. *)
CancelAll ==
  /\ pending # {}
  /\ story' = [r \in Requests |-> IF r \in pending \cap emitted
                                    THEN Append(story[r], Dismissal(Terminal))
                                    ELSE story[r]]
  /\ ch' = [r \in Requests |-> IF r \in pending THEN Terminal ELSE ch[r]]
  /\ pending' = {}
  /\ UNCHANGED <<pc, emitted, sent, result>>

-----------------------------------------------------------------------------
RunStep(r) ==
  \/ SendOK(r) \/ SendFails(r) \/ Emit(r) \/ SettledBeforeEmit(r)
  \/ Receive(r) \/ Claim(r) \/ ClaimLost(r) \/ Cleanup(r) \/ Deregister(r)
  \/ AgentGoesOn(r)

(* Every request is over. *)
Quiet == (\A r \in Requests : pc[r] = "over") /\ UNCHANGED vars

Next ==
  \/ \E r \in Requests :
       \/ Register(r) \/ SendOK(r) \/ SendFails(r) \/ Emit(r)
       \/ SettledBeforeEmit(r) \/ Receive(r) \/ Claim(r) \/ ClaimLost(r)
       \/ Cleanup(r) \/ Deregister(r) \/ AgentGoesOn(r)
  \/ \E r \in Requests, d \in Decisions : Resolve(r, d)
  \/ CancelAll
  \/ Quiet

Spec == Init /\ [][Next]_vars

(* The transport's send returns and time.After fires. *)
FairSpec == Spec /\ \A r \in Requests : WF_vars(RunStep(r))

-----------------------------------------------------------------------------
(* Properties *)

(* The bus tells one of these stories about a request, and every prefix of it: *)
(* nothing, a card that is dismissed once, or (the answer overtook the card)   *)
(* a dismissal alone; and the agent's next event comes last.                   *)
LegalStories ==
  LET Heads == {<<>>} \cup {<<Dismissal(d)>> : d \in Decisions}
               \cup {<<Card, Dismissal(d)>> : d \in Decisions}
  IN {<<Card>>} \cup Heads \cup {Append(h, AgentEvent(d)) : h \in Heads, d \in Decisions}

(* At most one terminal event per request, a card that is shown is dismissed    *)
(* before the agent's next event, and no card appears after its dismissal: the  *)
(* bus-id ordering that Resolve, cancelAll and claimForCleanup promise Desktop. *)
StoryIsLegal == \A r \in Requests : story[r] \in LegalStories

(* The agent acts on the decision the card was dismissed with: a timeout that  *)
(* races an answer, or two clients that race each other, never leave the user   *)
(* with one decision and the agent with another.                                *)
DecisionAgrees ==
  \A r \in Requests : result[r] # None =>
    \A i \in DOMAIN story[r] :
      story[r][i].kind # "request" => story[r][i].decision = result[r]

(* Every interaction the agent starts comes back to it: nobody waits for ever   *)
(* on a channel that was never written.                                          *)
Returns == \A r \in Requests : (pc[r] = "send") ~> (pc[r] = "over")

-----------------------------------------------------------------------------
(* A claimed request is settled when its cleanup event is published, any other *)
(* when a decision is buffered or run returns without one.                      *)
Settled(r) == ch[r] # None \/ result[r] # None

stage ==
  [r \in Requests |->
     CASE pc[r] = "idle" -> "new"
       [] pc[r] = "over" -> "over"
       [] pc[r] # "idle" /\ pc[r] # "over" /\ Settled(r) -> "settled"
       [] pc[r] # "idle" /\ ~Settled(r) /\ r \in emitted -> "shown"
       [] OTHER -> "asked"]

decision == [r \in Requests |-> IF result[r] # None THEN result[r] ELSE ch[r]]

Abstract == INSTANCE OneShot WITH stage <- stage, decision <- decision, story <- story

(* pendingCore implements the one-shot interaction. *)
IsOneShot == Abstract!Spec

=============================================================================

-------------------------------- MODULE OneShot --------------------------------
(***************************************************************************)
(* What an interaction promises the agent and the user: a question is      *)
(* settled once, in one step, by one decision; the card that shows it is   *)
(* dismissed in that same step; the agent goes on afterwards, with the     *)
(* decision the card was dismissed with.                                   *)
(***************************************************************************)
EXTENDS Sequences

CONSTANTS Requests, Decisions, None

VARIABLES
  stage,    \* how far each interaction is
  decision, \* what it was settled with
  story     \* the events about it, in the order of their bus ids

vars == <<stage, decision, story>>

Card == [kind |-> "request", decision |-> None]
Dismissal(d) == [kind |-> "resolved", decision |-> d]
AgentEvent(d) == [kind |-> "agent", decision |-> d]

Init ==
  /\ stage = [r \in Requests |-> "new"]
  /\ decision = [r \in Requests |-> None]
  /\ story = [r \in Requests |-> <<>>]

Ask(r) ==
  /\ stage[r] = "new"
  /\ stage' = [stage EXCEPT ![r] = "asked"]
  /\ UNCHANGED <<decision, story>>

Show(r) ==
  /\ stage[r] = "asked"
  /\ stage' = [stage EXCEPT ![r] = "shown"]
  /\ story' = [story EXCEPT ![r] = Append(@, Card)]
  /\ UNCHANGED decision

(* Some open interactions are settled with d; every card among them is      *)
(* dismissed, and a client that answered before its card was published may   *)
(* be told too.                                                              *)
Settle(S, T, d) ==
  /\ S # {}
  /\ \A r \in S : stage[r] \in {"asked", "shown"}
  /\ T \subseteq S
  /\ \A r \in S : stage[r] = "shown" => r \in T
  /\ stage' = [r \in Requests |-> IF r \in S THEN "settled" ELSE stage[r]]
  /\ decision' = [r \in Requests |-> IF r \in S THEN d ELSE decision[r]]
  /\ story' = [r \in Requests |-> IF r \in T THEN Append(story[r], Dismissal(d))
                                             ELSE story[r]]

GoOn(r) ==
  /\ stage[r] = "settled"
  /\ stage' = [stage EXCEPT ![r] = "over"]
  /\ story' = [story EXCEPT ![r] = Append(@, AgentEvent(decision[r]))]
  /\ UNCHANGED decision

Next ==
  \/ \E r \in Requests : Ask(r) \/ Show(r) \/ GoOn(r)
  \/ \E S \in SUBSET Requests, d \in Decisions : \E T \in SUBSET S : Settle(S, T, d)

Spec == Init /\ [][Next]_vars

=============================================================================

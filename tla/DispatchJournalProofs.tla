------------------------- MODULE DispatchJournalProofs -------------------------
(***************************************************************************)
(* Proofs about DispatchJournal for any number of calls, runs, crashes and *)
(* failed saves.  The induction has three parts:                           *)
(*   StageInv    what a run holds at each pc;                              *)
(*   TurnInv     which turn the file and the memory are snapshots of, and  *)
(*               how often that turn was resumed;                          *)
(*   CallsInv    what the file, the memory and the results of the response *)
(*               under way say of each call, against what really happened. *)
(***************************************************************************)
EXTENDS DispatchJournal, SequenceTheorems, TLAPS

(* A run is at work, and has results in hand only inside a response of one or  *)
(* two calls, the last of the log.                                             *)
StageInv ==
  /\ run # 0 <=> pc \notin {"down", "up"}
  /\ DOMAIN out # {} => pc \in {"batch", "running"}
  /\ DOMAIN out \subseteq {Len(log) - 1, Len(log)}
  /\ pc = "running" => Pending # {} /\ mem = disk
  /\ pc \in {"down", "up"} => mem = disk /\ attempt = 0
  /\ run <= runs
  /\ run # 0 /\ attempt = 0 => run = runs

(* A snapshot names its run's recovery attempts; a resumed run's snapshot is   *)
(* in the file and in memory from the start, a dispatching one's from Dispatch.*)
TurnOf(s) == s.turn # None => s.turn.run <= runs /\ resumed[s.turn.run] = s.turn.att

TurnInv ==
  /\ TurnOf(disk) /\ TurnOf(mem)
  /\ run # 0 => resumed[run] = attempt
  /\ attempt > 0 => disk.turn = Snapshot /\ mem.turn = Snapshot
  /\ pc = "running" => mem.turn = Snapshot
  /\ mem.turn # disk.turn => run # 0 /\ run = runs /\ mem.turn = Snapshot
  /\ \A r \in Runs : r > runs => resumed[r] = 0

(* Whose calls recovery may still have to judge: those of the last foreground  *)
(* run and those of the turn in the file.                                      *)
Live(c) == log[c].run = runs \/ (disk.turn # None /\ log[c].run = disk.turn.run)

(* What a session says of a call, in the file and in memory.  While the        *)
(* snapshot is an older turn's, the last run has dispatched nothing.           *)
CallOf(s, c) ==
  /\ c \in effects => s.rec[c] \in Unresolved \cup {"checkpointed"}
  /\ Live(c) => /\ s.rec[c] = "checkpointed" => s.res[c] = "real"
                /\ s.rec[c] = "committed" => s.res[c] \in {"none", "open", "real"}
                /\ c \in effects => s.res[c] # "safe"
  /\ s.turn # None /\ s.turn.run # runs /\ log[c].run = runs
       => s.rec[c] \in {"none", "prepared", "abandoned"}

(* Nothing is said of a call the model has not made.                           *)
Unmade(s) == \A c \in Calls : c > Len(log) => s.rec[c] = "none" /\ s.res[c] = "none"

Trying(c) == pc = "running" /\ c = Head1

(* What the results in hand say of a call of this response.                    *)
OutOf(c) ==
  /\ log[c].run = run
  /\ mem.res[c] \in {"none", "open"} /\ mem.rec[c] # "checkpointed"
  /\ mem.rec[c] = "committed" => out[c] = "real"
  /\ out[c] = "safe" => c \notin effects
  /\ out[c] = "unknown" => Pending = {}
  /\ out[c] = "pending" =>
       /\ log[c].act \notin gate
       /\ IF Trying(c) THEN mem.rec[c] = "dispatching" ELSE c \notin effects

(* What happened since the user spoke has its result in the transcript or in   *)
(* hand, or the latch holds its act.                                           *)
KnownOf(c) ==
  c \in effects /\ c >= since /\ log[c].run = run /\ run # 0 =>
    \/ mem.res[c] = "real"
    \/ c \in DOMAIN out /\ (out[c] \in {"real", "unknown"} \/ Trying(c))
    \/ log[c].act \in gate

CallsInv ==
  /\ Unmade(disk) /\ Unmade(mem)
  /\ \A c \in 1..Len(log) : log[c].run <= runs
  /\ \A c \in 1..Len(log) : CallOf(disk, c) /\ CallOf(mem, c) /\ KnownOf(c)
  /\ \A c \in DOMAIN out : OutOf(c)

-----------------------------------------------------------------------------
(* The pieces sessions are built from.                                        *)

(* None is told from a turn.                                                  *)
LEMMA NoneAside == None \notin Turns
  BY NoneIsNoTurn DEF Turns, Runs

(* Reconcile touches committed records only.                                  *)
LEMMA ReconcileShape ==
  ASSUME NEW s \in Sessions
  PROVE  /\ Reconcile(s) \in Sessions
         /\ Reconcile(s).res = s.res /\ Reconcile(s).turn = s.turn
         /\ \A c \in Calls : Reconcile(s).rec[c] =
              IF s.rec[c] = "committed" /\ s.res[c] \notin {"none", "open"}
                THEN "checkpointed" ELSE s.rec[c]
  BY DEF Reconcile, Sessions, RecStates

(* A session with another turn.                                               *)
LEMMA TurnShape ==
  ASSUME NEW s \in Sessions, NEW t \in Turns \cup {None}
  PROVE  LET u == [s EXCEPT !.turn = t]
         IN  u \in Sessions /\ u.rec = s.rec /\ u.res = s.res /\ u.turn = t
  BY DEF Sessions

(* A session in which one record has moved.                                   *)
LEMMA RecordShape ==
  ASSUME NEW s \in Sessions, NEW h \in Calls, NEW st \in RecStates
  PROVE  LET u == [s EXCEPT !.rec[h] = st]
         IN  u \in Sessions /\ u.rec = [s.rec EXCEPT ![h] = st] /\ u.res = s.res /\ u.turn = s.turn
  BY DEF Sessions

(* What a run's snapshot is.                                                  *)
LEMMA SnapshotType ==
  ASSUME TypeOK, run # 0
  PROVE  Snapshot \in Turns /\ Snapshot # None /\ Snapshot.run = run /\ Snapshot.att = attempt
<1>1. Snapshot \in Turns
  BY DEF TypeOK, Snapshot, Turns
<1> QED
  BY <1>1, NoneAside DEF Snapshot

(* The checkpoint before a dispatch opens the calls of the response.          *)
LEMMA StagedShape ==
  ASSUME TypeOK, run # 0
  PROVE  /\ Staged \in Sessions
         /\ Staged.turn = Snapshot /\ Staged.rec = mem.rec
         /\ \A c \in Calls : Staged.res[c] = IF c \in DOMAIN out THEN "open" ELSE mem.res[c]
<1>1. \A c \in Calls : mem.res[c] \in Results
  BY DEF TypeOK, Sessions
<1>2. [c \in Calls |-> IF c \in DOMAIN out THEN "open" ELSE mem.res[c]] \in [Calls -> Results]
  BY <1>1 DEF Results
<1>3. /\ Staged.rec = mem.rec /\ Staged.turn = Snapshot
      /\ Staged.res = [c \in Calls |-> IF c \in DOMAIN out THEN "open" ELSE mem.res[c]]
  BY DEF TypeOK, Sessions, Staged
<1>4. Staged \in Sessions
  BY <1>2, SnapshotType DEF TypeOK, Sessions, Staged
<1> QED
  BY <1>3, <1>4

(* The results of the response join the transcript.                           *)
LEMMA JoinedShape ==
  ASSUME TypeOK, Pending = {}
  PROVE  /\ Joined \in Sessions
         /\ Joined.turn = mem.turn /\ Joined.rec = mem.rec
         /\ \A c \in Calls : Joined.res[c] = IF c \in DOMAIN out THEN out[c] ELSE mem.res[c]
<1>1. \A c \in Calls : mem.res[c] \in Results
  BY DEF TypeOK, Sessions
<1>2. \A c \in DOMAIN out : out[c] \in Results
  BY DEF TypeOK, Pending, Results
<1>3. [c \in Calls |-> IF c \in DOMAIN out THEN out[c] ELSE mem.res[c]] \in [Calls -> Results]
  BY <1>1, <1>2
<1>4. /\ Joined.rec = mem.rec /\ Joined.turn = mem.turn
      /\ Joined.res = [c \in Calls |-> IF c \in DOMAIN out THEN out[c] ELSE mem.res[c]]
  BY DEF TypeOK, Sessions, Joined
<1>5. Joined \in Sessions
  BY <1>3 DEF TypeOK, Sessions, Joined
<1> QED
  BY <1>4, <1>5

(* Which calls of run r are unresolved in session s.                          *)
LEMMA BlockingIs ==
  ASSUME TypeOK, NEW s, NEW r
  PROVE  /\ Blocking(s, r) \subseteq Calls
         /\ \A c \in 1..Len(log) : c \in Blocking(s, r) <=> log[c].run = r /\ s.rec[c] \in Unresolved
  BY BoundsAreNaturals DEF TypeOK, Blocking, Calls

(* What recovery makes of the file: every open call gets a result, and a      *)
(* record of run r that never reached dispatch is abandoned.                  *)
LEMMA GuardedShape ==
  ASSUME TypeOK, NEW r
  PROVE  /\ Guarded(r) \in Sessions /\ Guarded(r).turn = disk.turn
         /\ \A c \in Calls :
              /\ Guarded(r).res[c] = IF disk.res[c] # "open" THEN disk.res[c]
                                     ELSE IF c \in Blocking(disk, r) THEN "unknown" ELSE "safe"
              /\ Guarded(r).rec[c] = IF disk.rec[c] = "prepared" /\ log[c].run = r
                                     THEN "abandoned" ELSE disk.rec[c]
<1> DEFINE res == [c \in Calls |-> IF disk.res[c] # "open" THEN disk.res[c]
                                   ELSE IF c \in Blocking(disk, r) THEN "unknown" ELSE "safe"]
           rec == [c \in Calls |-> IF disk.rec[c] = "prepared" /\ log[c].run = r
                                   THEN "abandoned" ELSE disk.rec[c]]
<1>1. res \in [Calls -> Results]
  BY DEF TypeOK, Sessions, Results
<1>2. rec \in [Calls -> RecStates]
  BY DEF TypeOK, Sessions, RecStates
<1>3. Guarded(r).rec = rec /\ Guarded(r).res = res /\ Guarded(r).turn = disk.turn
  BY DEF TypeOK, Sessions, Guarded
<1>4. Guarded(r) \in Sessions
  BY <1>1, <1>2 DEF TypeOK, Sessions, Guarded
<1> QED
  BY <1>3, <1>4

(* A turn put up for review: its unresolved records are in doubt.             *)
LEMMA InDoubtShape ==
  ASSUME TypeOK, NEW s \in Sessions, NEW r
  PROVE  /\ InDoubt(s, r) \in Sessions
         /\ InDoubt(s, r).res = s.res /\ InDoubt(s, r).turn = None
         /\ \A c \in Calls : InDoubt(s, r).rec[c] =
              IF c \in Blocking(s, r) THEN "outcome_unknown" ELSE s.rec[c]
<1> DEFINE rec == [c \in Calls |-> IF c \in Blocking(s, r) THEN "outcome_unknown" ELSE s.rec[c]]
<1>1. rec \in [Calls -> RecStates]
  BY DEF Sessions, RecStates
<1>2. InDoubt(s, r).rec = rec /\ InDoubt(s, r).res = s.res /\ InDoubt(s, r).turn = None
  BY DEF Sessions, InDoubt
<1>3. InDoubt(s, r) \in Sessions
  BY <1>1 DEF Sessions, InDoubt
<1> QED
  BY <1>2, <1>3

(* The next call to dispatch is the first of those that wait.                 *)
LEMMA HeadOK ==
  ASSUME TypeOK, StageInv, Pending # {}
  PROVE  /\ Head1 \in DOMAIN out /\ out[Head1] = "pending"
         /\ Head1 \in 1..Len(log) /\ Head1 \in Calls
<1>1. Pending \subseteq {Len(log) - 1, Len(log)} /\ Len(log) \in Nat
  BY DEF TypeOK, StageInv, Pending
<1>2. \E c \in Pending : \A d \in Pending : c <= d
  <2>1. CASE Len(log) - 1 \in Pending
    BY <1>1, <2>1
  <2>2. CASE Len(log) - 1 \notin Pending
    <3>1. Pending = {Len(log)}
      BY <1>1, <2>2
    <3> QED
      BY <1>1, <3>1
  <2> QED
    BY <2>1, <2>2
<1>3. Head1 \in Pending
  BY <1>2 DEF Head1
<1>4. DOMAIN out \subseteq 1..Len(log) /\ 1..Len(log) \subseteq Calls
  BY BoundsAreNaturals DEF TypeOK, Calls
<1> QED
  BY <1>3, <1>4 DEF Pending

(* It stays the same while the results do.                                    *)
LEMMA HeadStays ==
  ASSUME out' = out
  PROVE  Head1' = Head1 /\ Pending' = Pending
  BY DEF Head1, Pending

(* A turn that is taken up again.                                             *)
LEMMA ResumedShape ==
  ASSUME NEW s \in Sessions, s.turn # None, s.turn.att < MaxResumes
  PROVE  LET u == [s EXCEPT !.turn.att = @ + 1]
         IN  /\ u \in Sessions /\ u.rec = s.rec /\ u.res = s.res
             /\ u.turn # None /\ u.turn.run = s.turn.run /\ u.turn.att = s.turn.att + 1
<1> DEFINE u == [s EXCEPT !.turn.att = @ + 1]
           t == [s.turn EXCEPT !.att = @ + 1]
<1>1. s.turn \in Turns
  BY DEF Sessions
<1>2. t \in Turns /\ t.run = s.turn.run /\ t.att = s.turn.att + 1
  <2>1. s.turn.att \in 0..MaxResumes /\ s.turn.run \in Runs
    BY <1>1 DEF Turns
  <2>2. s.turn.att + 1 \in 0..MaxResumes
    BY <2>1, BoundsAreNaturals
  <2> QED
    BY <1>1, <2>2 DEF Turns
<1>3. u.rec = s.rec /\ u.res = s.res /\ u.turn = t
  BY DEF Sessions
<1>4. u \in Sessions
  BY <1>2 DEF Sessions
<1> QED
  BY <1>2, <1>3, <1>4, NoneAside

(* Calls in hand are numbered.                                                *)
LEMMA InHand ==
  ASSUME TypeOK
  PROVE  DOMAIN out \subseteq 1..Len(log) /\ 1..Len(log) \subseteq Calls
  BY BoundsAreNaturals DEF TypeOK, Calls

(* A snapshot is the last run's, or a resumed turn's that is in the file.     *)
LEMMA SnapshotCovers ==
  ASSUME TypeOK, StageInv, TurnInv, run # 0
  PROVE  \/ Snapshot.run = runs
         \/ disk.turn = Snapshot /\ mem.turn = Snapshot
<1>1. CASE attempt = 0
  BY <1>1, SnapshotType DEF StageInv
<1>2. CASE attempt # 0
  BY <1>2 DEF TypeOK, TurnInv
<1> QED
  BY <1>1, <1>2

-----------------------------------------------------------------------------
(* The types.                                                                 *)

(* Whatever is saved or kept is a session.                                    *)
LEMMA SessionsStay ==
  ASSUME TypeOK, StageInv, TurnInv, Next
  PROVE  disk' \in Sessions /\ mem' \in Sessions
<1> USE DEF RecStates
<1>0. disk \in Sessions /\ mem \in Sessions
  BY DEF TypeOK
<1>1. CASE StartRun \/ FollowUp \/ Respond
  BY <1>0, <1>1 DEF StartRun, FollowUp, Respond
<1>2. CASE Dispatch
  <2>1. run # 0 /\ Head1 \in Calls
    BY <1>2, HeadOK DEF Dispatch, StageInv
  <2> QED
    BY <1>2, <2>1, StagedShape, RecordShape, ReconcileShape DEF Dispatch, Save
<1>3. CASE DispatchFails
  <2>1. run # 0 /\ Head1 \in Calls
    BY <1>3, HeadOK DEF DispatchFails, StageInv
  <2>2. /\ [Staged EXCEPT !.rec[Head1] = "abandoned"] \in Sessions
        /\ [Staged EXCEPT !.rec[Head1] = "prepared"] \in Sessions
    BY <2>1, StagedShape, RecordShape
  <2> QED
    BY <1>0, <1>3, <2>2, ReconcileShape DEF DispatchFails, SaveFails
<1>4. CASE DispatchCancelled
  <2>1. Head1 \in Calls
    BY <1>4, HeadOK DEF DispatchCancelled
  <2>2. /\ [mem EXCEPT !.rec[Head1] = "abandoned"] \in Sessions
        /\ [mem EXCEPT !.rec[Head1] = "prepared"] \in Sessions
    BY <1>0, <2>1, RecordShape
  <2> QED
    BY <1>0, <1>4, <2>2, ReconcileShape DEF DispatchCancelled, Save, SaveFails
<1>5. CASE Effect
  BY <1>0, <1>5 DEF Effect
<1>6. CASE ToolAnswers \/ AnswerUnsaved \/ ToolLost
  <2>1. Head1 \in Calls
    BY <1>6, HeadOK DEF ToolAnswers, AnswerUnsaved, ToolLost, StageInv
  <2>2. /\ Recorded("committed") \in Sessions /\ Recorded("failed_no_effect") \in Sessions
        /\ Recorded("outcome_unknown") \in Sessions
    BY <1>0, <2>1, RecordShape DEF Recorded
  <2> QED
    BY <1>0, <1>6, <2>2, ReconcileShape DEF ToolAnswers, AnswerUnsaved, ToolLost, Save, SaveFails
<1>7. CASE Checkpoint \/ CheckpointFails \/ CheckpointSkipped
  <2>1. run # 0 /\ Pending = {}
    BY <1>7 DEF Checkpoint, CheckpointFails, CheckpointSkipped, ResponseOver, StageInv
  <2>2. Joined \in Sessions /\ [Joined EXCEPT !.turn = Snapshot] \in Sessions
    BY <2>1, JoinedShape, SnapshotType, TurnShape
  <2> QED
    BY <1>0, <1>7, <2>2, ReconcileShape
    DEF Checkpoint, CheckpointFails, CheckpointSkipped, Save, SaveFails
<1>8. CASE Finish \/ HardError
  <2> DEFINE s == Reconcile(mem)
  <2>1. run # 0 /\ s \in Sessions
    BY <1>0, <1>8, ReconcileShape DEF Finish, HardError, StageInv
  <2>2. FinalTurn(s) \in Turns \cup {None} /\ HardErrorTurn(s) \in Turns \cup {None}
    BY <2>1, SnapshotType DEF FinalTurn, HardErrorTurn
  <2>3. /\ [s EXCEPT !.turn = FinalTurn(s)] \in Sessions
        /\ [s EXCEPT !.turn = HardErrorTurn(s)] \in Sessions
    BY <2>1, <2>2, TurnShape
  <2> HIDE DEF s
  <2>4. \E u \in Sessions : SaveAndLeave(u)
    BY <1>8, <2>3 DEF Finish, HardError, s
  <2> QED
    BY <1>0, <2>4, ReconcileShape DEF SaveAndLeave, Save, SaveFails
<1>9. CASE Crash \/ Restart \/ Discover \/ ClaimSuperseded
  BY <1>0, <1>9 DEF Crash, Restart, Discover, ClaimSuperseded
<1>10. CASE ClaimEnds
  <2> DEFINE s == Guarded(cand.run)
  <2>1. s \in Sessions
    BY GuardedShape
  <2>2. InDoubt(s, cand.run) \in Sessions /\ [s EXCEPT !.turn = None] \in Sessions
    BY <2>1, InDoubtShape, TurnShape
  <2> HIDE DEF s
  <2>3. \E u \in Sessions : Save(u) \/ SaveFails(1, disk)
    BY <1>10, <2>2 DEF ClaimEnds, s
  <2> QED
    BY <1>0, <2>3, ReconcileShape DEF Save, SaveFails
<1>11. CASE ClaimResumes
  <2>1. Guarded(cand.run) \in Sessions /\ Guarded(cand.run).turn = cand /\ cand # None
    BY <1>11, GuardedShape DEF ClaimResumes, Claiming, StillMine
  <2>2. [Guarded(cand.run) EXCEPT !.turn.att = @ + 1] \in Sessions
    BY <1>11, <2>1, ResumedShape DEF ClaimResumes
  <2> QED
    BY <1>0, <1>11, <2>2, ReconcileShape DEF ClaimResumes, Save, SaveFails
<1> QED
  BY <1>1, <1>2, <1>3, <1>4, <1>5, <1>6, <1>7, <1>8, <1>9, <1>10, <1>11 DEF Next

(* The log after a response of n calls.                                       *)
LEMMA AskedShape ==
  ASSUME TypeOK, run \in Runs, NEW n \in {1, 2}, NEW as \in [1..n -> Acts],
         NEW l, l = log \o [i \in DOMAIN as |-> [run |-> run, act |-> as[i]]]
  PROVE  /\ Len(as) = n /\ DOMAIN as = 1..n
         /\ l \in Seq([run : Runs, act : Acts]) /\ Len(l) = Len(log) + n
         /\ \A c \in 1..Len(log) : l[c] = log[c]
         /\ \A i \in 1..n : l[Len(log) + i] = [run |-> run, act |-> as[i]]
<1> DEFINE new == [i \in 1..n |-> [run |-> run, act |-> as[i]]]
           Entry == [run : Runs, act : Acts]
<1>0. n \in Nat
  OBVIOUS
<1>1. DOMAIN as = 1..n /\ \A i \in 1..n : as[i] \in Acts
  OBVIOUS
<1>2. Len(as) = n
  BY <1>0, <1>1
<1>3. \A i \in 1..n : new[i] \in Entry /\ new[i] = [run |-> run, act |-> as[i]]
  BY <1>1
<1>4. DOMAIN new = 1..n
  OBVIOUS
<1>l. l = log \o new
  BY <1>1
<1> HIDE DEF new, Entry
<1>5. new \in Seq(Entry)
  <2>1. new = [i \in 1..n |-> new[i]]
    BY DEF new
  <2>2. new \in [1..n -> Entry]
    BY <1>3, <2>1
  <2> QED
    BY <1>0, <2>2
<1>6. Len(new) = n
  BY <1>0, <1>4
<1>7. log \in Seq(Entry) /\ Len(log) \in Nat
  BY DEF TypeOK, Entry
<1>8. /\ log \o new \in Seq(Entry) /\ Len(log \o new) = Len(log) + n
      /\ \A i \in 1..Len(log) + n :
           (log \o new)[i] = IF i <= Len(log) THEN log[i] ELSE new[i - Len(log)]
  BY <1>5, <1>6, <1>7, ConcatProperties
<1>9. \A c \in 1..Len(log) : (log \o new)[c] = log[c]
  BY <1>0, <1>7, <1>8
<1>10. \A i \in 1..n : (log \o new)[Len(log) + i] = [run |-> run, act |-> as[i]]
  <2> TAKE i \in 1..n
  <2> DEFINE c == Len(log) + i
  <2>1. c \in 1..Len(log) + n /\ ~(c <= Len(log)) /\ c - Len(log) = i
    BY <1>0, <1>7
  <2>2. (log \o new)[c] = new[i]
    BY <1>8, <2>1
  <2> QED
    BY <1>3, <2>2
<1>11. l \in Seq([run : Runs, act : Acts])
  BY <1>l, <1>8 DEF Entry
<1>12. Len(l) = Len(log) + n /\ \A c \in 1..Len(log) : l[c] = log[c]
  BY <1>l, <1>8, <1>9
<1>13. \A i \in 1..n : l[Len(log) + i] = [run |-> run, act |-> as[i]]
  BY <1>l, <1>10
<1> QED
  BY <1>1, <1>2, <1>11, <1>12, <1>13

(* What the model asks for: one or two calls, the last of the log from then on.*)
LEMMA RespondShape ==
  ASSUME TypeOK, StageInv, Respond
  PROVE  \E k \in {1, 2} : \E as \in [1..k -> Acts] :
           /\ log' \in Seq([run : Runs, act : Acts])
           /\ Len(log') = Len(log) + k /\ Len(log) + k <= MaxCalls
           /\ \A c \in 1..Len(log) : log'[c] = log[c]
           /\ \A c \in (Len(log) + 1)..(Len(log) + k) :
                log'[c].run = run /\ log'[c].act = as[c - Len(log)]
           /\ out' = [c \in (Len(log) + 1)..(Len(log) + k) |->
                        IF as[c - Len(log)] \in gate THEN "safe" ELSE "pending"]
<1>1. PICK as \in [1..1 -> Acts] \cup [1..2 -> Acts] :
        LET n == Len(log) IN
        /\ n + Len(as) <= MaxCalls
        /\ log' = log \o [i \in DOMAIN as |-> [run |-> run, act |-> as[i]]]
        /\ out' = [c \in (n + 1)..(n + Len(as)) |->
                     IF as[c - n] \in gate THEN "safe" ELSE "pending"]
  BY DEF Respond
<1>2. PICK k \in {1, 2} : as \in [1..k -> Acts]
  OBVIOUS
<1>3. run \in Runs /\ Len(log) \in Nat
  BY DEF Respond, TypeOK, StageInv
<1>4. PICK l : l = log'
  OBVIOUS
<1>5. l = log \o [i \in DOMAIN as |-> [run |-> run, act |-> as[i]]]
  BY <1>1, <1>4
<1>6. Len(as) = k /\ l \in Seq([run : Runs, act : Acts]) /\ Len(l) = Len(log) + k
  <2>1. Len(as) = k /\ Len(l) = Len(log) + k
    BY <1>2, <1>3, <1>5, AskedShape
  <2>2. l \in Seq([run : Runs, act : Acts])
    BY <1>2, <1>3, <1>5, AskedShape
  <2> QED
    BY <2>1, <2>2
<1>7. \A c \in 1..Len(log) : l[c] = log[c]
  BY <1>2, <1>3, <1>5, AskedShape
<1>8. ASSUME NEW c \in (Len(log) + 1)..(Len(log) + k)
      PROVE  l[c].run = run /\ l[c].act = as[c - Len(log)]
  <2>1. c - Len(log) \in 1..k /\ c = Len(log) + (c - Len(log))
    BY <1>3
  <2>2. PICK i \in 1..k : i = c - Len(log) /\ c = Len(log) + i
    BY <2>1
  <2>3. l[Len(log) + i] = [run |-> run, act |-> as[i]]
    BY <1>2, <1>3, <1>5, AskedShape
  <2> QED
    BY <2>2, <2>3
<1>9. /\ Len(log) + k <= MaxCalls
      /\ out' = [c \in (Len(log) + 1)..(Len(log) + k) |->
                   IF as[c - Len(log)] \in gate THEN "safe" ELSE "pending"]
  BY <1>1, <1>6
<1>10. /\ log' \in Seq([run : Runs, act : Acts])
       /\ Len(log') = Len(log) + k /\ Len(log) + k <= MaxCalls
       /\ \A c \in 1..Len(log) : log'[c] = log[c]
  BY <1>4, <1>6, <1>7, <1>9
<1>11. \A c \in (Len(log) + 1)..(Len(log) + k) :
         log'[c].run = run /\ log'[c].act = as[c - Len(log)]
  BY <1>4, <1>8
<1> QED
  BY <1>2, <1>9, <1>10, <1>11, Zenon

(* The results in hand keep their shape however they settle.                  *)
LEMMA OutKept ==
  ASSUME TypeOK, UNCHANGED log,
         NEW c, NEW r \in {"real", "unknown", "safe"},
         Settle(c, r) \/ Abort(c, r) \/ out' = out
  PROVE  /\ DOMAIN out' = DOMAIN out
         /\ \A d \in DOMAIN out' : out'[d] \in {"pending", "real", "unknown", "safe"}
  BY DEF TypeOK, Settle, Abort

(* A logged call is of a run, and of an act.                                  *)
LEMMA LogEntry ==
  ASSUME TypeOK, NEW c \in 1..Len(log)
  PROVE  log[c] \in [run : Runs, act : Acts] /\ log[c].run \in Runs /\ log[c].act \in Acts
<1>1. log[c] \in [run : Runs, act : Acts]
  BY ElementOfSeq DEF TypeOK
<1> QED
  BY <1>1

(* Every step keeps the types.                                                *)
LEMMA TypeNext ==
  ASSUME TypeOK, StageInv, TurnInv, Next
  PROVE  TypeOK'
<1> USE BoundsAreNaturals
<1>0. disk' \in Sessions /\ mem' \in Sessions
  BY SessionsStay
<1>. SUFFICES ASSUME disk' \in Sessions, mem' \in Sessions
     PROVE  TypeOK'
  BY <1>0
<1>e. DOMAIN <<>> = {}
  OBVIOUS
<1>1. CASE StartRun
  BY <1>1 DEF TypeOK, StartRun, Runs
<1>2. CASE FollowUp
  BY <1>2 DEF TypeOK, FollowUp
<1>3. CASE Respond
  <2>1. PICK k \in {1, 2} : \E as \in [1..k -> Acts] :
          /\ log' \in Seq([run : Runs, act : Acts])
          /\ Len(log') = Len(log) + k /\ Len(log) + k <= MaxCalls
          /\ out' = [c \in (Len(log) + 1)..(Len(log) + k) |->
                       IF as[c - Len(log)] \in gate THEN "safe" ELSE "pending"]
    BY <1>3, RespondShape
  <2>2. DOMAIN out' \subseteq 1..Len(log')
    BY <2>1 DEF TypeOK
  <2>3. \A c \in DOMAIN out' : out'[c] \in {"pending", "real", "unknown", "safe"}
    BY <2>1
  <2>4. effects' \subseteq 1..Len(log') /\ Len(log') <= MaxCalls
    <3>1. Len(log) \in Nat /\ effects' = effects /\ effects \subseteq 1..Len(log)
      BY <1>3 DEF TypeOK, Respond
    <3> QED
      BY <2>1, <3>1
  <2> QED
    BY <1>3, <2>1, <2>2, <2>3, <2>4 DEF TypeOK, Respond
<1>4. CASE Dispatch
  BY <1>4 DEF TypeOK, Dispatch, Save, Restamp
<1>5. CASE DispatchFails
  <2>1. /\ DOMAIN out' = DOMAIN out
        /\ \A d \in DOMAIN out' : out'[d] \in {"pending", "real", "unknown", "safe"}
    BY <1>5, OutKept DEF DispatchFails
  <2>2. fails' \in 0..MaxSaveFails
    <3>1. /\ fails' = fails + 1 \/ fails' = fails + 2
          /\ fails' <= MaxSaveFails
      <4>1. fails \in 0..MaxSaveFails
        BY DEF TypeOK
      <4> QED
        BY <1>5, <4>1 DEF DispatchFails, SaveFails
    <3>2. fails \in 0..MaxSaveFails
      BY DEF TypeOK
    <3> QED
      BY <3>1, <3>2
  <2>3. cand' \in Turns \cup {None}
    BY <1>5 DEF TypeOK, DispatchFails, Restamp
  <2> QED
    BY <1>5, <2>1, <2>2, <2>3 DEF TypeOK, DispatchFails, Abort
<1>6. CASE DispatchCancelled
  <2>1. /\ DOMAIN out' = DOMAIN out
        /\ \A d \in DOMAIN out' : out'[d] \in {"pending", "real", "unknown", "safe"}
    BY <1>6, OutKept DEF DispatchCancelled
  <2>2. fails' \in 0..MaxSaveFails
    BY <1>6 DEF TypeOK, DispatchCancelled, Save, SaveFails
  <2> QED
    BY <1>6, <2>1, <2>2 DEF TypeOK, DispatchCancelled, Abort
<1>7. CASE Effect
  <2>1. Head1 \in 1..Len(log)
    BY <1>7, HeadOK DEF Effect, StageInv
  <2> QED
    BY <1>7, <2>1 DEF TypeOK, Effect
<1>8. CASE ToolAnswers
  <2>1. /\ DOMAIN out' = DOMAIN out
        /\ \A d \in DOMAIN out' : out'[d] \in {"pending", "real", "unknown", "safe"}
    BY <1>8, OutKept DEF ToolAnswers
  <2> QED
    BY <1>8, <2>1 DEF TypeOK, ToolAnswers, Save
<1>9. CASE AnswerUnsaved
  <2>1. /\ DOMAIN out' = DOMAIN out
        /\ \A d \in DOMAIN out' : out'[d] \in {"pending", "real", "unknown", "safe"}
    BY <1>9, OutKept DEF AnswerUnsaved
  <2>2. fails' \in 0..MaxSaveFails
    BY <1>9 DEF TypeOK, AnswerUnsaved, SaveFails
  <2> QED
    BY <1>9, <2>1, <2>2 DEF TypeOK, AnswerUnsaved, Abort
<1>10. CASE ToolLost
  <2>1. /\ DOMAIN out' = DOMAIN out
        /\ \A d \in DOMAIN out' : out'[d] \in {"pending", "real", "unknown", "safe"}
    BY <1>10, OutKept DEF ToolLost
  <2>2. fails' \in 0..MaxSaveFails
    BY <1>10 DEF TypeOK, ToolLost, Save, SaveFails
  <2> QED
    BY <1>10, <2>1, <2>2 DEF TypeOK, ToolLost, Abort
<1>11. CASE Checkpoint \/ CheckpointFails \/ CheckpointSkipped
  <2>1. ArmGate /\ UNCHANGED <<log, run, attempt, scanned, runs, since, effects, resumed, crashes>>
    BY <1>11 DEF Checkpoint, CheckpointFails, CheckpointSkipped
  <2>2. gate' \subseteq Acts
    <3>1. \A c \in DOMAIN out : log[c].act \in Acts
      BY LogEntry, InHand
    <3> QED
      BY <2>1, <3>1 DEF ArmGate, TypeOK
  <2>3. fails' \in 0..MaxSaveFails
    BY <1>11 DEF TypeOK, Checkpoint, CheckpointFails, CheckpointSkipped, Save, SaveFails
  <2>4. cand' \in Turns \cup {None} /\ pc' \in {"think", "failed", "ending"}
    BY <1>11 DEF TypeOK, Checkpoint, CheckpointFails, CheckpointSkipped, Restamp
  <2> QED
    BY <1>e, <2>1, <2>2, <2>3, <2>4 DEF TypeOK, ArmGate
<1>12. CASE Finish \/ HardError
  <2>1. PICK u : SaveAndLeave(u)
    BY <1>12 DEF Finish, HardError
  <2>2. fails' \in 0..MaxSaveFails /\ cand' \in Turns \cup {None}
    BY <2>1 DEF TypeOK, SaveAndLeave, Save, SaveFails, Restamp
  <2>3. DOMAIN out' = {} /\ gate' = {} /\ run' = 0 /\ attempt' = 0 /\ pc' = "up" /\ forced' = FALSE
    BY <1>e, <2>1 DEF SaveAndLeave, LeaveRoute
  <2>4. UNCHANGED <<log, scanned, runs, since, effects, resumed, crashes>>
    BY <2>1 DEF SaveAndLeave
  <2>5. \A c \in DOMAIN out' : out'[c] \in {"pending", "real", "unknown", "safe"}
    BY <2>3
  <2>6. DOMAIN out' \subseteq 1..Len(log')
    BY <2>3
  <2>7. run' \in Runs \cup {0}
    BY <2>3
  <2>8. attempt' \in 0..MaxResumes
    BY <2>3
  <2>9. gate' \subseteq Acts /\ forced' \in BOOLEAN
    BY <2>3
  <2>10. pc' \in {"down", "up", "think", "batch", "running", "failed", "ending"}
    BY <2>3
  <2> QED
    BY <2>2, <2>4, <2>5, <2>6, <2>7, <2>8, <2>9, <2>10 DEF TypeOK
<1>13. CASE Crash
  <2>1. DOMAIN out' = {} /\ gate' = {} /\ run' = 0 /\ attempt' = 0
    BY <1>13, <1>e DEF Crash
  <2>2. \A c \in DOMAIN out' : out'[c] \in {"pending", "real", "unknown", "safe"}
    BY <2>1
  <2>3. DOMAIN out' \subseteq 1..Len(log')
    BY <2>1
  <2>4. run' \in Runs \cup {0} /\ gate' \subseteq Acts
    BY <2>1
  <2>5. attempt' \in 0..MaxResumes
    BY <2>1
  <2>6. /\ UNCHANGED <<log, runs, since, effects, resumed, fails>>
        /\ pc' = "down" /\ forced' = FALSE /\ cand' = None /\ scanned' = FALSE
    BY <1>13 DEF Crash
  <2>7. crashes' \in 0..MaxCrashes
    BY <1>13 DEF TypeOK, Crash
  <2> QED
    BY <2>2, <2>3, <2>4, <2>5, <2>6, <2>7 DEF TypeOK
<1>14. CASE Restart
  BY <1>14 DEF TypeOK, Restart
<1>15. CASE Discover
  <2>1. disk.turn \in Turns \cup {None}
    BY DEF TypeOK, Sessions
  <2> QED
    BY <1>15, <2>1 DEF TypeOK, Discover
<1>16. CASE ClaimSuperseded
  BY <1>16 DEF TypeOK, ClaimSuperseded
<1>17. CASE ClaimEnds
  <2>1. fails' \in 0..MaxSaveFails
    BY <1>17 DEF TypeOK, ClaimEnds, Save, SaveFails
  <2> QED
    BY <1>17, <2>1 DEF TypeOK, ClaimEnds
<1>18. CASE ClaimResumes
  <2>1. cand \in Turns /\ cand.run \in Runs /\ cand.att \in 0..MaxResumes /\ cand = disk.turn
    BY <1>18 DEF TypeOK, ClaimResumes, Claiming, StillMine, Turns
  <2>2. resumed[cand.run] = cand.att /\ cand.att + 1 \in 0..MaxResumes
    BY <1>18, <2>1 DEF TurnInv, TurnOf, ClaimResumes, Claiming
  <2>3. CASE SaveFails(1, disk) /\ UNCHANGED <<pc, run, attempt, resumed>>
    <3>1. fails' \in 0..MaxSaveFails /\ mem' = disk /\ disk' = disk
      <4>1. fails \in 0..MaxSaveFails
        BY DEF TypeOK
      <4> QED
        BY <2>3, <4>1 DEF SaveFails
    <3> QED
      BY <1>18, <2>3, <3>1 DEF TypeOK, ClaimResumes
  <2>4. CASE /\ UNCHANGED fails
             /\ pc' = "think"
             /\ run' = cand.run /\ attempt' = cand.att + 1
             /\ resumed' = [resumed EXCEPT ![cand.run] = @ + 1]
    <3>1. resumed' \in [Runs -> 0..MaxResumes]
      BY <2>1, <2>2, <2>4 DEF TypeOK
    <3> QED
      BY <1>18, <2>1, <2>2, <2>4, <3>1 DEF TypeOK, ClaimResumes
  <2> QED
    BY <1>18, <2>3, <2>4 DEF ClaimResumes, Save
<1> QED
  BY <1>1, <1>2, <1>3, <1>4, <1>5, <1>6, <1>7, <1>8, <1>9, <1>10, <1>11, <1>12, <1>13,
     <1>14, <1>15, <1>16, <1>17, <1>18 DEF Next

-----------------------------------------------------------------------------
(* The stages.                                                                *)

(* Every step keeps what each stage of the process may hold.                  *)
LEMMA StageNext ==
  ASSUME TypeOK, StageInv, TurnInv, Next
  PROVE  StageInv'
<1> USE DEF StageInv
<1>e. DOMAIN <<>> = {}
  OBVIOUS
<1>1. CASE StartRun
  BY <1>1 DEF TypeOK, StartRun
<1>2. CASE FollowUp
  BY <1>2, HeadStays DEF FollowUp
<1>3. CASE Respond
  <2>1. PICK k \in {1, 2} : Len(log') = Len(log) + k /\ DOMAIN out' = (Len(log) + 1)..(Len(log) + k)
    BY <1>3, RespondShape
  <2>2. DOMAIN out' \subseteq {Len(log') - 1, Len(log')}
    <3>1. Len(log) \in Nat
      BY DEF TypeOK
    <3>2. CASE k = 1
      BY <2>1, <3>1, <3>2
    <3>3. CASE k = 2
      BY <2>1, <3>1, <3>3
    <3> QED
      BY <3>2, <3>3
  <2> QED
    BY <1>3, <2>2 DEF Respond
<1>4. CASE Dispatch
  BY <1>4, HeadStays DEF Dispatch, Save
<1>5. CASE DispatchFails \/ DispatchCancelled
  <2>1. DOMAIN out' = DOMAIN out
    BY <1>5, OutKept DEF DispatchFails, DispatchCancelled
  <2> QED
    BY <1>5, <2>1 DEF DispatchFails, DispatchCancelled
<1>6. CASE Effect
  BY <1>6, HeadStays DEF Effect
<1>7. CASE ToolAnswers \/ AnswerUnsaved \/ ToolLost
  <2>1. DOMAIN out' = DOMAIN out
    BY <1>7, OutKept DEF ToolAnswers, AnswerUnsaved, ToolLost
  <2> QED
    BY <1>7, <2>1 DEF ToolAnswers, AnswerUnsaved, ToolLost
<1>8. CASE Checkpoint \/ CheckpointFails \/ CheckpointSkipped
  <2>1. DOMAIN out' = {} /\ pc' \in {"think", "failed", "ending"}
    BY <1>e, <1>8 DEF Checkpoint, CheckpointFails, CheckpointSkipped, ArmGate
  <2>2. pc = "batch" /\ UNCHANGED <<run, attempt, runs>>
    BY <1>8 DEF Checkpoint, CheckpointFails, CheckpointSkipped, ResponseOver
  <2> QED
    BY <2>1, <2>2
<1>9. CASE Finish \/ HardError
  <2>1. PICK s : SaveAndLeave(s)
    BY <1>9 DEF Finish, HardError
  <2>2. DOMAIN out' = {} /\ pc' = "up" /\ run' = 0 /\ attempt' = 0 /\ runs' = runs
    BY <1>e, <2>1 DEF SaveAndLeave, LeaveRoute
  <2>3. mem' = disk'
    BY <2>1 DEF SaveAndLeave, Save, SaveFails
  <2> QED
    BY <2>2, <2>3 DEF TypeOK
<1>10. CASE Crash
  <2>1. DOMAIN out' = {} /\ pc' = "down" /\ run' = 0 /\ attempt' = 0 /\ runs' = runs /\ mem' = disk'
    BY <1>e, <1>10 DEF Crash
  <2> QED
    BY <2>1 DEF TypeOK
<1>11. CASE Restart
  BY <1>11 DEF Restart
<1>12. CASE Discover
  BY <1>12, HeadStays DEF Discover
<1>13. CASE ClaimSuperseded
  BY <1>13 DEF ClaimSuperseded, Claiming
<1>14. CASE ClaimEnds
  <2>1. mem' = disk'
    BY <1>14 DEF ClaimEnds, Save, SaveFails
  <2> QED
    BY <1>14, <2>1 DEF ClaimEnds, Claiming
<1>15. CASE ClaimResumes
  <2>1. cand \in Turns /\ cand.run \in Runs /\ cand.att \in 0..MaxResumes /\ cand.run <= runs
    BY <1>15 DEF TypeOK, ClaimResumes, Claiming, StillMine, Turns, TurnInv, TurnOf
  <2>2. cand.run # 0 /\ cand.att + 1 # 0
    BY <2>1, BoundsAreNaturals DEF Runs
  <2>3. CASE SaveFails(1, disk) /\ UNCHANGED <<pc, run, attempt, resumed>>
    BY <1>15, <2>3 DEF ClaimResumes, Claiming, SaveFails
  <2>4. CASE pc' = "think" /\ run' = cand.run /\ attempt' = cand.att + 1
    BY <1>15, <2>1, <2>2, <2>4 DEF ClaimResumes, Claiming
  <2> QED
    BY <1>15, <2>3, <2>4 DEF ClaimResumes
<1> QED
  BY <1>1, <1>2, <1>3, <1>4, <1>5, <1>6, <1>7, <1>8, <1>9, <1>10, <1>11, <1>12, <1>13,
     <1>14, <1>15 DEF Next

-----------------------------------------------------------------------------
(* What a save does to the turns and to the calls.                            *)

(* A run saves its snapshot, or leaves the turn as it was.                    *)
LEMMA TurnMoved ==
  ASSUME TypeOK, StageInv, TurnInv, run # 0, UNCHANGED <<run, attempt, runs, resumed>>,
         NEW s \in Sessions, s.turn = mem.turn \/ s.turn = Snapshot,
         \/ mem' = Reconcile(s) /\ disk' = Reconcile(s)
         \/ mem' = s /\ disk' = disk,
         pc' = "running" => mem'.turn = Snapshot
  PROVE  TurnInv'
<1>1. /\ mem'.turn = mem.turn \/ mem'.turn = Snapshot
      /\ disk'.turn = disk.turn \/ disk'.turn = mem'.turn
  BY ReconcileShape
<1>2. Snapshot' = Snapshot
  BY DEF Snapshot
<1>3. Snapshot # None /\ Snapshot.run = run /\ Snapshot.att = attempt
  BY SnapshotType
<1>4. Snapshot.run <= runs /\ resumed[Snapshot.run] = Snapshot.att
  BY <1>3 DEF StageInv, TurnInv
<1>5. TurnOf(mem)' /\ TurnOf(disk)'
  BY <1>1, <1>4 DEF TurnInv, TurnOf
<1>6. attempt > 0 => disk'.turn = Snapshot /\ mem'.turn = Snapshot
  BY <1>1 DEF TurnInv
<1>7. mem'.turn # disk'.turn => run # 0 /\ run = runs /\ mem'.turn = Snapshot
  BY <1>1, <1>3, SnapshotCovers DEF TurnInv
<1> QED
  BY <1>2, <1>5, <1>6, <1>7 DEF TurnInv

(* A turn a session may be saved with: whose calls are still live.            *)
Covered(s) == s.turn # None => s.turn.run = runs \/ (disk.turn # None /\ s.turn.run = disk.turn.run)

(* Reconciling a session keeps what it says of the calls.                     *)
LEMMA ReconciledCalls ==
  ASSUME NEW s \in Sessions, NEW c \in Calls, CallOf(s, c)
  PROVE  CallOf(Reconcile(s), c)
<1>1. /\ Reconcile(s).res = s.res /\ Reconcile(s).turn = s.turn
      /\ Reconcile(s).rec[c] =
              IF s.rec[c] = "committed" /\ s.res[c] \notin {"none", "open"}
                THEN "checkpointed" ELSE s.rec[c]
  BY ReconcileShape
<1> QED
  BY <1>1 DEF CallOf, Unresolved

(* What a save leaves in memory or in the file agrees with the log if s does.  *)
LEMMA CallsMoved ==
  ASSUME TypeOK, CallsInv, UNCHANGED <<log, effects, runs>>,
         NEW s \in Sessions, Unmade(s), \A c \in 1..Len(log) : CallOf(s, c), Covered(s),
         mem' \in {s, Reconcile(s), disk}, disk' \in {disk, Reconcile(s)}
  PROVE  /\ Unmade(disk)' /\ Unmade(mem)'
         /\ \A c \in 1..Len(log') : log'[c].run <= runs' /\ CallOf(disk, c)' /\ CallOf(mem, c)'
<1>1. Reconcile(s).res = s.res /\ Reconcile(s).turn = s.turn
  BY ReconcileShape
<1>2. Unmade(Reconcile(s))
  <2>1. ASSUME NEW c \in Calls, c > Len(log)
        PROVE  Reconcile(s).rec[c] = "none" /\ Reconcile(s).res[c] = "none"
    <3>1. s.rec[c] = "none" /\ s.res[c] = "none"
      BY <2>1 DEF Unmade
    <3> QED
      BY <1>1, <3>1, ReconcileShape
  <2> QED
    BY <2>1 DEF Unmade
<1>3. Unmade(disk)' /\ Unmade(mem)'
  BY <1>2 DEF Unmade, CallsInv
<1>4. ASSUME NEW c \in 1..Len(log)
      PROVE  log'[c].run <= runs' /\ CallOf(disk, c)' /\ CallOf(mem, c)'
  <2>1. c \in Calls
    BY InHand
  <2>2. Live(c)' => Live(c)
    BY <1>1 DEF Live, Covered
  <2>3. CallOf(s, c) /\ CallOf(Reconcile(s), c) /\ CallOf(disk, c)
    BY <2>1, ReconciledCalls DEF CallsInv
  <2>4. ASSUME NEW t, CallOf(t, c), t = mem'
        PROVE  CallOf(mem, c)'
    BY <2>2, <2>4 DEF CallOf
  <2>5. ASSUME NEW t, CallOf(t, c), t = disk'
        PROVE  CallOf(disk, c)'
    BY <2>2, <2>5 DEF CallOf
  <2> QED
    BY <2>3, <2>4, <2>5 DEF CallsInv
<1> QED
  BY <1>3, <1>4

-----------------------------------------------------------------------------
(* The steps of a response: the head call's record moves in a session that was*)
(* staged for its dispatch or not, and its result settles.                    *)

(* The memory with the head call's record moved to st, and with or without the*)
(* response's calls opened and the snapshot taken.  Past the dispatch there is*)
(* a snapshot; an effect keeps the record unresolved.                         *)
Moved(s, st) ==
  /\ st \in {"prepared", "abandoned", "dispatching", "committed", "failed_no_effect",
             "outcome_unknown"}
  /\ \A c \in Calls :
       /\ s.rec[c] = IF c = Head1 THEN st ELSE mem.rec[c]
       /\ s.res[c] = mem.res[c] \/ (c \in DOMAIN out /\ s.res[c] = "open")
  /\ s.turn = Snapshot \/ (s.turn = mem.turn /\ st \in {"prepared", "abandoned"})
  /\ Head1 \in effects => st \in Unresolved

(* A session in which the record of the head call has moved to st, and no other.*)
LEMMA HeadCalls ==
  ASSUME TypeOK, StageInv, TurnInv, CallsInv, run # 0, Pending # {},
         NEW s \in Sessions, NEW st, Moved(s, st)
  PROVE  /\ Unmade(s) /\ Covered(s)
         /\ \A c \in 1..Len(log) : CallOf(s, c)
         /\ \A c \in DOMAIN out :
              /\ s.res[c] \in {"none", "open"}
              /\ s.rec[c] = IF c = Head1 THEN st ELSE mem.rec[c]
              /\ Reconcile(s).rec[c] = s.rec[c]
         /\ Reconcile(s).res = s.res
<1>1. /\ Head1 \in DOMAIN out /\ out[Head1] = "pending" /\ Head1 \in 1..Len(log) /\ Head1 \in Calls
      /\ OutOf(Head1)
  BY HeadOK DEF CallsInv
<1>2. \A c \in Calls : s.rec[c] = IF c = Head1 THEN st ELSE mem.rec[c]
  BY DEF Moved
<1>3. Reconcile(s).res = s.res
  BY ReconcileShape
<1>4. ASSUME NEW c \in DOMAIN out
      PROVE  /\ c \in Calls /\ s.res[c] \in {"none", "open"}
             /\ s.rec[c] = IF c = Head1 THEN st ELSE mem.rec[c]
             /\ Reconcile(s).rec[c] = s.rec[c]
  <2>1. c \in Calls /\ mem.res[c] \in {"none", "open"}
    BY InHand DEF CallsInv, OutOf
  <2>2. s.res[c] \in {"none", "open"}
    BY <2>1 DEF Moved
  <2> QED
    BY <1>2, <2>1, <2>2, ReconcileShape
<1>5. Unmade(s)
  <2>1. ASSUME NEW c \in Calls, c > Len(log)
        PROVE  s.rec[c] = "none" /\ s.res[c] = "none"
    <3>1. c # Head1 /\ c \notin DOMAIN out
      BY <1>1, <2>1, InHand DEF TypeOK
    <3>2. mem.rec[c] = "none" /\ mem.res[c] = "none"
      BY <2>1 DEF CallsInv, Unmade
    <3> QED
      BY <1>2, <3>1, <3>2 DEF Moved
  <2> QED
    BY <2>1 DEF Unmade
<1>6. Covered(s)
  <2>1. Snapshot.run = runs \/ disk.turn = Snapshot
    BY SnapshotCovers
  <2>2. mem.turn = disk.turn \/ mem.turn = Snapshot
    BY DEF TurnInv
  <2> QED
    BY <2>1, <2>2 DEF Covered, Moved
<1>7. ASSUME NEW c \in 1..Len(log)
      PROVE  CallOf(s, c)
  <2>1. c \in Calls /\ CallOf(mem, c)
    BY InHand DEF CallsInv
  <2>2. s.turn # None /\ s.turn.run # runs => mem.turn # None /\ mem.turn.run # runs
    BY SnapshotCovers DEF Moved
  <2>3. CASE c = Head1
    <3>1. s.rec[c] = st /\ s.res[c] \in {"none", "open"}
      BY <1>1, <1>4, <2>3
    <3>2. log[c].run = run
      BY <1>1, <2>3 DEF OutOf
    <3>3. s.turn = Snapshot /\ s.turn.run # runs => log[c].run # runs
      BY <3>2, SnapshotType
    <3> QED
      BY <2>3, <3>1, <3>3 DEF CallOf, Moved
  <2>4. CASE c # Head1 /\ c \in DOMAIN out
    <3>1. s.rec[c] = mem.rec[c] /\ s.res[c] \in {"none", "open"} /\ mem.rec[c] # "checkpointed"
      BY <1>4, <2>4 DEF CallsInv, OutOf
    <3> QED
      BY <2>1, <2>2, <3>1 DEF CallOf
  <2>5. CASE c \notin DOMAIN out
    <3>1. s.rec[c] = mem.rec[c] /\ s.res[c] = mem.res[c]
      BY <1>1, <1>2, <2>1, <2>5 DEF Moved
    <3> QED
      BY <2>1, <2>2, <3>1 DEF CallOf
  <2> QED
    BY <2>3, <2>4, <2>5
<1> QED
  BY <1>3, <1>4, <1>5, <1>6, <1>7

(* The head call settles, alone or with the rest of the response told that it *)
(* was not made.                                                              *)
LEMMA HandSettles ==
  ASSUME TypeOK, StageInv, CallsInv, Pending # {}, run # 0,
         UNCHANGED <<log, run, gate, since, effects>>, pc' = "batch",
         NEW st, st # "checkpointed",
         NEW r \in {"real", "unknown", "safe"},
         Settle(Head1, r) \/ Abort(Head1, r), r = "unknown" => Abort(Head1, r),
         r = "safe" => pc # "running", st = "committed" => r = "real",
         \A c \in DOMAIN out : /\ mem'.res[c] \in {"none", "open"}
                               /\ mem'.rec[c] = IF c = Head1 THEN st ELSE mem.rec[c],
         \A c \in 1..Len(log) : c \notin DOMAIN out => mem'.res[c] = mem.res[c]
  PROVE  /\ \A c \in DOMAIN out' : OutOf(c)'
         /\ \A c \in 1..Len(log') : KnownOf(c)'
<1>1. Head1 \in DOMAIN out /\ out[Head1] = "pending"
  BY HeadOK
<1>2. DOMAIN out' = DOMAIN out
  BY OutKept
<1>3. /\ out'[Head1] = r
      /\ \A c \in DOMAIN out : c # Head1 /\ out[c] # "pending" => out'[c] = out[c]
      /\ \A c \in DOMAIN out : c # Head1 /\ out[c] = "pending" => out'[c] \in {"pending", "safe"}
      /\ r = "unknown" => \A c \in DOMAIN out : out'[c] # "pending"
  BY <1>1 DEF Settle, Abort
<1>4. \A c \in DOMAIN out : out[c] # "unknown"
  BY DEF CallsInv, OutOf
<1>5. ASSUME NEW c \in DOMAIN out
      PROVE  OutOf(c)'
  <2>1. OutOf(c)
    BY DEF CallsInv
  <2>2. log'[c].run = run' /\ mem'.res[c] \in {"none", "open"} /\ mem'.rec[c] # "checkpointed"
    BY <2>1 DEF OutOf
  <2>3. mem'.rec[c] = "committed" => out'[c] = "real"
    BY <1>1, <1>3, <2>1 DEF OutOf
  <2>4. out'[c] = "safe" => c \notin effects'
    BY <1>1, <1>3, <2>1 DEF OutOf, Trying
  <2>5. out'[c] = "unknown" => Pending' = {}
    BY <1>2, <1>3, <1>4 DEF Pending
  <2>6. out'[c] = "pending" => c # Head1 /\ out[c] = "pending"
    BY <1>1, <1>3, <1>4 DEF TypeOK
  <2>7. out'[c] = "pending" => log'[c].act \notin gate' /\ c \notin effects'
    BY <2>1, <2>6 DEF OutOf, Trying
  <2>8. ~Trying(c)'
    BY DEF Trying
  <2> QED
    BY <2>2, <2>3, <2>4, <2>5, <2>7, <2>8 DEF OutOf
<1>6. ASSUME NEW c \in 1..Len(log)
      PROVE  KnownOf(c)'
  <2>1. KnownOf(c) /\ (c \in DOMAIN out => OutOf(c))
    BY DEF CallsInv
  <2>2. CASE c \notin DOMAIN out
    BY <1>2, <2>1, <2>2 DEF KnownOf
  <2>3. CASE c \in DOMAIN out
    <3>1. SUFFICES ASSUME c \in effects, c >= since, log[c].run = run
                   PROVE  \/ out'[c] \in {"real", "unknown"}
                          \/ log[c].act \in gate
      BY <1>2, <2>3 DEF KnownOf
    <3>2. mem.res[c] # "real"
      BY <2>1, <2>3 DEF OutOf
    <3>3. CASE c = Head1
      BY <1>1, <1>3, <2>1, <2>3, <3>1, <3>3 DEF OutOf, Trying
    <3>4. CASE c # Head1
      BY <1>3, <2>1, <3>1, <3>2, <3>4 DEF KnownOf, Trying
    <3> QED
      BY <3>3, <3>4
  <2> QED
    BY <2>2, <2>3
<1> QED
  BY <1>2, <1>5, <1>6

(* Both together, for every way a head call settles.                          *)
LEMMA HeadSettles ==
  ASSUME TypeOK, StageInv, TurnInv, CallsInv, run # 0, Pending # {},
         UNCHANGED <<log, run, attempt, gate, runs, since, effects, resumed>>, pc' = "batch",
         NEW s \in Sessions, NEW st, Moved(s, st),
         \/ mem' = Reconcile(s) /\ disk' = Reconcile(s)
         \/ mem' = s /\ disk' = disk,
         NEW r \in {"real", "unknown", "safe"},
         Settle(Head1, r) \/ Abort(Head1, r), r = "unknown" => Abort(Head1, r),
         r = "safe" => pc # "running", st = "committed" => r = "real"
  PROVE  TurnInv' /\ CallsInv'
<1>1. /\ Unmade(s) /\ Covered(s)
      /\ \A c \in 1..Len(log) : CallOf(s, c)
      /\ \A c \in DOMAIN out :
           /\ s.res[c] \in {"none", "open"}
           /\ s.rec[c] = IF c = Head1 THEN st ELSE mem.rec[c]
           /\ Reconcile(s).rec[c] = s.rec[c]
      /\ Reconcile(s).res = s.res
  BY HeadCalls
<1>2. TurnInv'
  BY TurnMoved DEF Moved
<1>3. /\ Unmade(disk)' /\ Unmade(mem)'
      /\ \A c \in 1..Len(log') : log'[c].run <= runs' /\ CallOf(disk, c)' /\ CallOf(mem, c)'
  BY <1>1, CallsMoved
<1>4. /\ \A c \in DOMAIN out : /\ mem'.res[c] \in {"none", "open"}
                               /\ mem'.rec[c] = IF c = Head1 THEN st ELSE mem.rec[c]
      /\ \A c \in 1..Len(log) : c \notin DOMAIN out => mem'.res[c] = mem.res[c]
  BY <1>1, InHand DEF Moved
<1>5. st # "checkpointed"
  BY DEF Moved
<1>6. /\ \A c \in DOMAIN out' : OutOf(c)'
      /\ \A c \in 1..Len(log') : KnownOf(c)'
  BY <1>4, <1>5, HandSettles
<1> QED
  BY <1>2, <1>3, <1>6 DEF CallsInv

(* The sessions a response saves.                                             *)
LEMMA HeadRecorded ==
  ASSUME TypeOK, StageInv, run # 0, Pending # {},
         NEW st \in {"prepared", "abandoned", "dispatching", "committed", "failed_no_effect",
                     "outcome_unknown"},
         Head1 \in effects => st \in Unresolved
  PROVE  /\ LET s == [Staged EXCEPT !.rec[Head1] = st]
            IN  s \in Sessions /\ Moved(s, st) /\ s.turn = Snapshot
         /\ LET s == [mem EXCEPT !.rec[Head1] = st]
            IN  /\ s \in Sessions /\ s.turn = mem.turn
                /\ st \in {"prepared", "abandoned"} \/ mem.turn = Snapshot => Moved(s, st)
<1>1. Head1 \in Calls /\ st \in RecStates
  BY HeadOK DEF RecStates
<1>2. mem \in Sessions /\ mem.rec \in [Calls -> RecStates]
  BY DEF TypeOK, Sessions
<1>3. ASSUME NEW b \in Sessions, b.rec = mem.rec
      PROVE  \A c \in Calls : [b EXCEPT !.rec[Head1] = st].rec[c]
                              = IF c = Head1 THEN st ELSE mem.rec[c]
  BY <1>1, <1>2, <1>3, RecordShape
<1> DEFINE s == [Staged EXCEPT !.rec[Head1] = st]
           m == [mem EXCEPT !.rec[Head1] = st]
<1>4. s \in Sessions /\ s.res = Staged.res /\ s.turn = Snapshot
  BY <1>1, RecordShape, StagedShape
<1>5. m \in Sessions /\ m.res = mem.res /\ m.turn = mem.turn
  BY <1>1, <1>2, RecordShape
<1>6. \A c \in Calls : s.rec[c] = IF c = Head1 THEN st ELSE mem.rec[c]
  BY <1>3, StagedShape
<1>7. \A c \in Calls : m.rec[c] = IF c = Head1 THEN st ELSE mem.rec[c]
  BY <1>2, <1>3
<1> HIDE DEF s, m
<1>8. Moved(s, st)
  BY <1>4, <1>6, StagedShape DEF Moved
<1>9. st \in {"prepared", "abandoned"} \/ mem.turn = Snapshot => Moved(m, st)
  BY <1>5, <1>7 DEF Moved
<1> QED
  BY <1>4, <1>5, <1>8, <1>9 DEF s, m

(* A dispatch writes its record before the tool is called.                    *)
LEMMA DispatchNext ==
  ASSUME TypeOK, StageInv, TurnInv, CallsInv, Dispatch
  PROVE  TurnInv' /\ CallsInv'
<1>1. /\ pc = "batch" /\ pc' = "running" /\ run # 0 /\ Pending # {} /\ out' = out
      /\ UNCHANGED <<log, run, attempt, gate, runs, since, effects, resumed>>
  BY DEF Dispatch, StageInv
<1>2. Head1 \in DOMAIN out /\ out[Head1] = "pending" /\ Head1 \in 1..Len(log) /\ Head1 \in Calls
  BY <1>1, HeadOK
<1>3. PICK s \in Sessions : /\ Moved(s, "dispatching") /\ s.turn = Snapshot
                            /\ mem' = Reconcile(s) /\ disk' = Reconcile(s)
  BY <1>1, HeadRecorded DEF Dispatch, Save, Unresolved
<1>5. /\ Unmade(s) /\ Covered(s)
      /\ \A c \in 1..Len(log) : CallOf(s, c)
      /\ \A c \in DOMAIN out :
           /\ s.res[c] \in {"none", "open"}
           /\ s.rec[c] = IF c = Head1 THEN "dispatching" ELSE mem.rec[c]
           /\ Reconcile(s).rec[c] = s.rec[c]
      /\ Reconcile(s).res = s.res
  BY <1>1, <1>3, HeadCalls
<1>6. mem'.turn = Snapshot
  BY <1>3, ReconcileShape
<1>7. TurnInv'
  BY <1>1, <1>3, <1>6, TurnMoved
<1>8. /\ Unmade(disk)' /\ Unmade(mem)'
      /\ \A c \in 1..Len(log') : log'[c].run <= runs' /\ CallOf(disk, c)' /\ CallOf(mem, c)'
  BY <1>1, <1>3, <1>5, CallsMoved
<1>9. Head1' = Head1 /\ Pending' = Pending
  BY <1>1, HeadStays
<1>10. ASSUME NEW c \in DOMAIN out
       PROVE  OutOf(c)'
  <2>1. OutOf(c) /\ ~Trying(c) /\ (Trying(c)' <=> c = Head1)
    BY <1>1, <1>9 DEF CallsInv, Trying
  <2>2. /\ mem'.res[c] \in {"none", "open"}
        /\ mem'.rec[c] = IF c = Head1 THEN "dispatching" ELSE mem.rec[c]
    BY <1>3, <1>5
  <2> QED
    BY <1>1, <1>2, <1>9, <2>1, <2>2 DEF OutOf
<1>11. ASSUME NEW c \in 1..Len(log)
       PROVE  KnownOf(c)'
  <2>1. KnownOf(c) /\ ~Trying(c)
    BY <1>1 DEF CallsInv, Trying
  <2>2. c \notin DOMAIN out => mem'.res[c] = mem.res[c]
    BY <1>3, <1>5, InHand DEF Moved
  <2>3. c \in DOMAIN out => mem.res[c] # "real"
    BY DEF CallsInv, OutOf
  <2> QED
    BY <1>1, <2>1, <2>2, <2>3 DEF KnownOf
<1> QED
  BY <1>1, <1>7, <1>8, <1>10, <1>11 DEF CallsInv

(* Every step that settles the call at the head of the batch keeps CallsInv.  *)
LEMMA HeadStepNext ==
  ASSUME TypeOK, StageInv, TurnInv, CallsInv,
         DispatchFails \/ DispatchCancelled \/ ToolAnswers \/ AnswerUnsaved \/ ToolLost
  PROVE  TurnInv' /\ CallsInv'
<1>1. /\ run # 0 /\ Pending # {} /\ pc' = "batch"
      /\ UNCHANGED <<log, run, attempt, gate, runs, since, effects, resumed>>
  BY DEF DispatchFails, DispatchCancelled, ToolAnswers, AnswerUnsaved, ToolLost, StageInv
<1>2. Head1 \in DOMAIN out /\ out[Head1] = "pending" /\ Head1 \in Calls /\ OutOf(Head1)
  BY <1>1, HeadOK DEF CallsInv
<1>3. pc = "batch" => Head1 \notin effects
  BY <1>2 DEF OutOf, Trying
<1>4. pc = "running" => mem.turn = Snapshot /\ mem.rec[Head1] = "dispatching"
  BY <1>2 DEF TurnInv, OutOf, Trying
<1>5. CASE DispatchFails
  <2>1. pc # "running" /\ Abort(Head1, "safe")
    BY <1>5 DEF DispatchFails
  <2>2. PICK s \in Sessions, st \in {"prepared", "abandoned"} :
          /\ Moved(s, st)
          /\ \/ mem' = Reconcile(s) /\ disk' = Reconcile(s)
             \/ mem' = s /\ disk' = disk
    BY <1>1, <1>3, <1>5, HeadRecorded DEF DispatchFails, SaveFails
  <2> QED
    BY <1>1, <2>1, <2>2, HeadSettles
<1>6. CASE DispatchCancelled
  <2>1. pc # "running" /\ Abort(Head1, "safe")
    BY <1>6 DEF DispatchCancelled
  <2>2. PICK s \in Sessions, st \in {"prepared", "abandoned"} :
          /\ Moved(s, st)
          /\ \/ mem' = Reconcile(s) /\ disk' = Reconcile(s)
             \/ mem' = s /\ disk' = disk
    BY <1>1, <1>3, <1>6, HeadRecorded DEF DispatchCancelled, Save, SaveFails
  <2> QED
    BY <1>1, <2>1, <2>2, HeadSettles
<1>7. CASE ToolAnswers
  <2>1. pc = "running" /\ Settle(Head1, "real")
    BY <1>7 DEF ToolAnswers
  <2>2. PICK s \in Sessions, st \in {"committed", "failed_no_effect"} :
          Moved(s, st) /\ mem' = Reconcile(s) /\ disk' = Reconcile(s)
    <3>1. CASE Save(Recorded("committed"))
      BY <1>1, <1>4, <2>1, <3>1, HeadRecorded DEF Save, Recorded, Unresolved
    <3>2. CASE Head1 \notin effects /\ Save(Recorded("failed_no_effect"))
      BY <1>1, <1>4, <2>1, <3>2, HeadRecorded DEF Save, Recorded
    <3> QED
      BY <1>7, <3>1, <3>2 DEF ToolAnswers
  <2> QED
    BY <1>1, <2>1, <2>2, HeadSettles
<1>8. CASE AnswerUnsaved \/ ToolLost
  <2>1. pc = "running" /\ Abort(Head1, "unknown")
    BY <1>8 DEF AnswerUnsaved, ToolLost
  <2>2. Moved(mem, "dispatching") /\ mem \in Sessions
    BY <1>2, <1>4, <2>1 DEF Moved, Unresolved, TypeOK
  <2>3. Moved(Recorded("outcome_unknown"), "outcome_unknown") /\ Recorded("outcome_unknown") \in Sessions
    BY <1>1, <1>4, <2>1, HeadRecorded DEF Recorded, Unresolved
  <2>4. PICK s \in Sessions, st \in {"dispatching", "outcome_unknown"} :
          /\ Moved(s, st)
          /\ \/ mem' = Reconcile(s) /\ disk' = Reconcile(s)
             \/ mem' = s /\ disk' = disk
    BY <1>8, <2>2, <2>3 DEF AnswerUnsaved, ToolLost, Save, SaveFails
  <2> QED
    BY <1>1, <2>1, <2>4, HeadSettles
<1> QED
  BY <1>5, <1>6, <1>7, <1>8

(* The effect happens while its record says dispatching, in the file too.     *)
LEMMA EffectNext ==
  ASSUME TypeOK, StageInv, TurnInv, CallsInv, Effect
  PROVE  TurnInv' /\ CallsInv'
<1>1. /\ pc = "running" /\ effects' = effects \cup {Head1} /\ run # 0 /\ mem = disk
      /\ UNCHANGED <<disk, mem, log, pc, run, attempt, out, gate, runs, since, resumed>>
  BY DEF Effect, StageInv
<1>2. /\ Head1 \in DOMAIN out /\ out[Head1] = "pending" /\ Head1 \in Calls /\ OutOf(Head1)
      /\ Trying(Head1)
  BY <1>1, HeadOK DEF CallsInv, StageInv, Trying
<1>3. mem.rec[Head1] = "dispatching" /\ mem.res[Head1] \in {"none", "open"}
  BY <1>2 DEF OutOf
<1>4. Head1' = Head1 /\ Pending' = Pending
  BY <1>1, HeadStays
<1>5. TurnInv'
  BY <1>1 DEF TurnInv, TurnOf, Snapshot
<1>6. Unmade(disk)' /\ Unmade(mem)'
  BY <1>1 DEF CallsInv, Unmade
<1>7. ASSUME NEW c \in 1..Len(log)
      PROVE  log'[c].run <= runs' /\ CallOf(disk, c)' /\ CallOf(mem, c)'
  BY <1>1, <1>3 DEF CallsInv, CallOf, Live, Unresolved
<1>8. ASSUME NEW c \in 1..Len(log)
      PROVE  KnownOf(c)'
  <2>1. Trying(c)' <=> c = Head1
    BY <1>1, <1>4 DEF Trying
  <2>2. Trying(c) <=> c = Head1
    BY <1>1 DEF Trying
  <2> QED
    BY <1>1, <1>2, <2>1, <2>2 DEF CallsInv, KnownOf
<1>9. ASSUME NEW c \in DOMAIN out
      PROVE  OutOf(c)'
  <2>1. Trying(c)' <=> c = Head1
    BY <1>1, <1>4 DEF Trying
  <2>2. (Trying(c) <=> c = Head1) /\ OutOf(c)
    BY <1>1 DEF Trying, CallsInv
  <2> QED
    BY <1>1, <1>2, <1>4, <2>1, <2>2 DEF OutOf
<1> QED
  BY <1>1, <1>5, <1>6, <1>7, <1>8, <1>9 DEF CallsInv

-----------------------------------------------------------------------------
(* The other steps of a run.                                                  *)

(* A foreground run starts from the file.                                     *)
LEMMA StartNext ==
  ASSUME TypeOK, StageInv, TurnInv, CallsInv, StartRun
  PROVE  TurnInv' /\ CallsInv'
<1>1. /\ pc = "up" /\ pc' = "think" /\ runs' = runs + 1 /\ run' = runs + 1 /\ attempt' = 0
      /\ runs < MaxRuns /\ mem = disk /\ mem' = disk /\ DOMAIN out = {} /\ attempt = 0
      /\ UNCHANGED <<disk, log, out, gate, effects, resumed>>
      /\ since' = Len(log) + 1
  BY DEF StartRun, StageInv
<1>2. runs \in Nat /\ runs + 1 \in Runs /\ runs + 1 > runs /\ Len(log) \in Nat
  BY <1>1, BoundsAreNaturals DEF TypeOK, Runs
<1>3. TurnInv'
  <2>1. resumed[runs + 1] = 0 /\ \A r \in Runs : r > runs + 1 => resumed[r] = 0
    BY <1>2 DEF TurnInv, Runs
  <2>2. disk.turn # None => disk.turn.run \in Runs
    BY DEF TypeOK, Sessions, Turns
  <2>3. TurnOf(disk)' /\ TurnOf(mem)'
    BY <1>1, <1>2, <2>2 DEF TurnInv, TurnOf, Runs
  <2> QED
    BY <1>1, <2>1, <2>3 DEF TurnInv
<1>4. Unmade(disk)' /\ Unmade(mem)'
  BY <1>1 DEF CallsInv, Unmade
<1>5. ASSUME NEW c \in 1..Len(log)
      PROVE  log'[c].run <= runs' /\ CallOf(disk, c)' /\ CallOf(mem, c)'
  <2>1. log[c].run \in Runs /\ log[c].run <= runs
    BY LogEntry DEF CallsInv
  <2>2. log[c].run # runs' /\ log[c].run <= runs'
    BY <1>1, <1>2, <2>1 DEF Runs
  <2>3. Live(c)' => Live(c)
    BY <1>1, <2>2 DEF Live
  <2> QED
    BY <1>1, <2>2, <2>3 DEF CallsInv, CallOf
<1>6. ASSUME NEW c \in 1..Len(log)
      PROVE  KnownOf(c)'
  BY <1>1, <1>2 DEF KnownOf
<1> QED
  BY <1>1, <1>3, <1>4, <1>5, <1>6 DEF CallsInv

(* The user speaks: nothing is held against what happened before.             *)
LEMMA FollowNext ==
  ASSUME TypeOK, StageInv, TurnInv, CallsInv, FollowUp
  PROVE  TurnInv' /\ CallsInv'
<1>1. /\ pc = "think" /\ DOMAIN out = {} /\ since' = Len(log) + 1
      /\ UNCHANGED <<disk, mem, log, pc, run, attempt, out, runs, effects, resumed>>
  BY DEF FollowUp, StageInv
<1>2. TurnInv'
  BY <1>1 DEF TurnInv, TurnOf, Snapshot
<1>3. ASSUME NEW c \in 1..Len(log)
      PROVE  log'[c].run <= runs' /\ CallOf(disk, c)' /\ CallOf(mem, c)'
  BY <1>1 DEF CallsInv, CallOf, Live
<1>4. ASSUME NEW c \in 1..Len(log)
      PROVE  KnownOf(c)'
  BY <1>1 DEF KnownOf, TypeOK
<1> QED
  BY <1>1, <1>2, <1>3, <1>4 DEF CallsInv, Unmade

(* The model asks for calls nobody has made.                                  *)
LEMMA RespondNext ==
  ASSUME TypeOK, StageInv, TurnInv, CallsInv, Respond
  PROVE  TurnInv' /\ CallsInv'
<1>1. /\ pc = "think" /\ pc' = "batch" /\ DOMAIN out = {} /\ run # 0
      /\ UNCHANGED <<disk, mem, run, attempt, gate, runs, since, effects, resumed>>
  BY DEF Respond, StageInv
<1>2. run \in Runs /\ Len(log) \in Nat /\ run <= runs
  BY <1>1 DEF TypeOK, StageInv
<1>3. PICK k \in {1, 2} : \E as \in [1..k -> Acts] :
        /\ Len(log') = Len(log) + k /\ Len(log) + k <= MaxCalls
        /\ \A c \in 1..Len(log) : log'[c] = log[c]
        /\ \A c \in (Len(log) + 1)..(Len(log) + k) :
             log'[c].run = run /\ log'[c].act = as[c - Len(log)]
        /\ out' = [c \in (Len(log) + 1)..(Len(log) + k) |->
                     IF as[c - Len(log)] \in gate THEN "safe" ELSE "pending"]
  BY RespondShape
<1>4. DOMAIN out' = (Len(log) + 1)..(Len(log) + k)
  BY <1>3
<1>5. ASSUME NEW c \in (Len(log) + 1)..(Len(log) + k)
      PROVE  log'[c].run = run /\ out'[c] = IF log'[c].act \in gate THEN "safe" ELSE "pending"
  BY <1>3
<1>6. Len(log') = Len(log) + k /\ Len(log) + k <= MaxCalls /\ \A c \in 1..Len(log) : log'[c] = log[c]
  BY <1>3
<1>7. TurnInv'
  BY <1>1 DEF TurnInv, TurnOf, Snapshot
<1>8. Unmade(disk)' /\ Unmade(mem)'
  BY <1>1, <1>2, <1>6 DEF CallsInv, Unmade, Calls
<1>9. ASSUME NEW c \in (Len(log) + 1)..(Len(log) + k)
      PROVE  /\ c \in Calls /\ c > Len(log) /\ c \notin effects
             /\ disk.rec[c] = "none" /\ disk.res[c] = "none"
             /\ mem.rec[c] = "none" /\ mem.res[c] = "none"
  <2>1. c \in Calls /\ c > Len(log)
    BY <1>2, <1>6, BoundsAreNaturals DEF Calls
  <2>2. c \notin effects
    BY <1>2, <2>1 DEF TypeOK
  <2> QED
    BY <2>1, <2>2 DEF CallsInv, Unmade
<1>10. ASSUME NEW c \in 1..Len(log')
       PROVE  log'[c].run <= runs' /\ CallOf(disk, c)' /\ CallOf(mem, c)' /\ KnownOf(c)'
  <2>1. CASE c \in 1..Len(log)
    <3>1. Live(c)' <=> Live(c)
      BY <1>1, <1>6, <2>1 DEF Live
    <3>2. CallOf(disk, c)' /\ CallOf(mem, c)' /\ log'[c].run <= runs'
      BY <1>1, <1>6, <2>1, <3>1 DEF CallsInv, CallOf
    <3>3. KnownOf(c)'
      BY <1>1, <1>6, <2>1 DEF CallsInv, KnownOf
    <3> QED
      BY <3>2, <3>3
  <2>2. CASE c \notin 1..Len(log)
    <3>1. c \in (Len(log) + 1)..(Len(log) + k)
      BY <1>2, <1>6, <2>2
    <3>2. log'[c].run = run
      BY <1>5, <3>1
    <3> QED
      BY <1>1, <1>2, <1>9, <3>1, <3>2 DEF CallOf, KnownOf
  <2> QED
    BY <2>1, <2>2
<1>11. ASSUME NEW c \in DOMAIN out'
       PROVE  OutOf(c)'
  <2>1. log'[c].run = run /\ out'[c] = IF log'[c].act \in gate THEN "safe" ELSE "pending"
    BY <1>4, <1>5
  <2>2. ~Trying(c)'
    BY <1>1 DEF Trying
  <2> QED
    BY <1>1, <1>4, <1>9, <2>1, <2>2 DEF OutOf
<1> QED
  BY <1>7, <1>8, <1>10, <1>11 DEF CallsInv

(* The results join the transcript and the latch is armed.                    *)
LEMMA CheckpointNext ==
  ASSUME TypeOK, StageInv, TurnInv, CallsInv, Checkpoint \/ CheckpointFails \/ CheckpointSkipped
  PROVE  TurnInv' /\ CallsInv'
<1>1. /\ pc = "batch" /\ Pending = {} /\ run # 0 /\ pc' # "running" /\ ArmGate
      /\ UNCHANGED <<log, run, attempt, runs, since, effects, resumed>>
  BY DEF Checkpoint, CheckpointFails, CheckpointSkipped, ResponseOver, StageInv
<1>2. /\ Joined \in Sessions /\ Joined.turn = mem.turn /\ Joined.rec = mem.rec
      /\ \A c \in Calls : Joined.res[c] = IF c \in DOMAIN out THEN out[c] ELSE mem.res[c]
  BY <1>1, JoinedShape
<1>3. PICK s \in Sessions :
        /\ s.rec = mem.rec
        /\ s.turn = mem.turn \/ s.turn = Snapshot
        /\ \A c \in Calls : s.res[c] = IF c \in DOMAIN out THEN out[c] ELSE mem.res[c]
        /\ \/ mem' = Reconcile(s) /\ disk' = Reconcile(s)
           \/ mem' = s /\ disk' = disk
  <2> DEFINE s == [Joined EXCEPT !.turn = Snapshot]
  <2>1. s \in Sessions /\ s.rec = mem.rec /\ s.res = Joined.res /\ s.turn = Snapshot
    BY <1>1, <1>2, SnapshotType, TurnShape
  <2>2. \/ mem' = Reconcile(s) /\ disk' = Reconcile(s)
        \/ mem' = s /\ disk' = disk
        \/ mem' = Joined /\ disk' = disk
    BY DEF Checkpoint, CheckpointFails, CheckpointSkipped, Save, SaveFails
  <2> HIDE DEF s
  <2> QED
    BY <1>2, <2>1, <2>2
<1>4. ASSUME NEW c \in DOMAIN out
      PROVE  c \in 1..Len(log) /\ c \in Calls /\ OutOf(c) /\ out[c] \in {"real", "unknown", "safe"}
  BY <1>1, InHand DEF CallsInv, TypeOK, Pending
<1>5. TurnInv'
  BY <1>1, <1>3, TurnMoved
<1>6. Unmade(s)
  <2>1. ASSUME NEW c \in Calls, c > Len(log)
        PROVE  s.rec[c] = "none" /\ s.res[c] = "none"
    <3>1. c \notin DOMAIN out
      BY <1>4, <2>1 DEF TypeOK
    <3> QED
      BY <1>3, <2>1, <3>1 DEF CallsInv, Unmade
  <2> QED
    BY <2>1 DEF Unmade
<1>7. Covered(s)
  <2>1. Snapshot.run = runs \/ disk.turn = Snapshot
    BY <1>1, SnapshotCovers
  <2>2. mem.turn = disk.turn \/ mem.turn = Snapshot
    BY DEF TurnInv
  <2> QED
    BY <1>3, <2>1, <2>2 DEF Covered
<1>8. ASSUME NEW c \in 1..Len(log)
      PROVE  CallOf(s, c)
  <2>1. c \in Calls /\ CallOf(mem, c) /\ s.rec[c] = mem.rec[c]
    BY <1>3, InHand DEF CallsInv
  <2>2. s.turn # None /\ s.turn.run # runs => mem.turn # None /\ mem.turn.run # runs
    BY <1>1, <1>3, SnapshotCovers
  <2>3. CASE c \in DOMAIN out
    <3>1. s.res[c] = out[c]
      BY <1>3, <2>1, <2>3
    <3> QED
      BY <1>4, <2>1, <2>2, <2>3, <3>1 DEF CallOf, OutOf
  <2>4. CASE c \notin DOMAIN out
    <3>1. s.res[c] = mem.res[c]
      BY <1>3, <2>1, <2>4
    <3> QED
      BY <2>1, <2>2, <3>1 DEF CallOf
  <2> QED
    BY <2>3, <2>4
<1>9. /\ Unmade(disk)' /\ Unmade(mem)'
      /\ \A c \in 1..Len(log') : log'[c].run <= runs' /\ CallOf(disk, c)' /\ CallOf(mem, c)'
  BY <1>1, <1>3, <1>6, <1>7, <1>8, CallsMoved
<1>10. DOMAIN out' = {}
  <2>1. DOMAIN <<>> = {}
    OBVIOUS
  <2> QED
    BY <1>1, <2>1 DEF ArmGate
<1>11. ASSUME NEW c \in 1..Len(log)
       PROVE  KnownOf(c)'
  <2>1. KnownOf(c) /\ ~Trying(c) /\ c \in Calls
    BY <1>1, InHand DEF CallsInv, Trying
  <2>2. mem'.res[c] = IF c \in DOMAIN out THEN out[c] ELSE mem.res[c]
    BY <1>3, <2>1, ReconcileShape
  <2>3. c \in DOMAIN out /\ out[c] = "unknown" => log[c].act \in gate'
    BY <1>1 DEF ArmGate
  <2>4. gate \subseteq gate'
    BY <1>1 DEF ArmGate
  <2>5. c \in DOMAIN out => mem.res[c] # "real"
    BY <1>4 DEF OutOf
  <2> QED
    BY <1>1, <2>1, <2>2, <2>3, <2>4, <2>5 DEF KnownOf
<1> QED
  BY <1>1, <1>5, <1>9, <1>10, <1>11 DEF CallsInv

-----------------------------------------------------------------------------
(* The end of a run, crashes and recovery: nothing is in hand afterwards.     *)

(* Without a run and without results, what is left to show of the calls.      *)
LEMMA AtRest ==
  ASSUME run' = 0 \/ UNCHANGED <<run, mem, out, gate, since, effects, log, pc>>, CallsInv,
         run' = 0 => DOMAIN out' = {},
         Unmade(disk)', Unmade(mem)', UNCHANGED log,
         \A c \in 1..Len(log') : log'[c].run <= runs' /\ CallOf(disk, c)' /\ CallOf(mem, c)'
  PROVE  CallsInv'
<1>1. CASE run' = 0
  BY <1>1 DEF CallsInv, KnownOf
<1>2. CASE UNCHANGED <<run, mem, out, gate, since, effects, log, pc>>
  <2>1. Head1' = Head1 /\ Pending' = Pending
    BY <1>2, HeadStays
  <2>2. \A c \in 1..Len(log) : (Trying(c)' <=> Trying(c)) /\ KnownOf(c)'
    BY <1>2, <2>1 DEF CallsInv, KnownOf, Trying
  <2>3. \A c \in DOMAIN out : OutOf(c)'
    BY <1>2, <2>1 DEF CallsInv, OutOf, Trying
  <2> QED
    BY <1>2, <2>2, <2>3 DEF CallsInv
<1> QED
  BY <1>1, <1>2

(* The end of a run, whole or by an error, keeps CallsInv.                    *)
LEMMA EndNext ==
  ASSUME TypeOK, StageInv, TurnInv, CallsInv, Finish \/ HardError
  PROVE  TurnInv' /\ CallsInv'
<1>1. run # 0
  BY DEF Finish, HardError, StageInv
<1>2. PICK s \in Sessions :
        /\ s.rec = Reconcile(mem).rec /\ s.res = Reconcile(mem).res
        /\ s.turn = Snapshot \/ s.turn = None
        /\ SaveAndLeave(s)
  <2> DEFINE m == Reconcile(mem)
  <2>1. m \in Sessions
    BY ReconcileShape DEF TypeOK
  <2>2. FinalTurn(m) \in {Snapshot, None} /\ HardErrorTurn(m) \in {Snapshot, None}
    BY DEF FinalTurn, HardErrorTurn
  <2>3. Snapshot \in Turns
    BY <1>1, SnapshotType
  <2> HIDE DEF m
  <2>4. PICK t \in {Snapshot, None} : SaveAndLeave([m EXCEPT !.turn = t])
    BY <2>2 DEF Finish, HardError, m
  <2>5. LET s == [m EXCEPT !.turn = t]
        IN  s \in Sessions /\ s.rec = m.rec /\ s.res = m.res /\ s.turn = t
    BY <2>1, <2>3, TurnShape
  <2> QED
    BY <2>4, <2>5 DEF m
<1>3. /\ UNCHANGED <<log, effects, runs, resumed>> /\ run' = 0 /\ attempt' = 0 /\ out' = <<>> /\ pc' = "up"
      /\ \/ mem' = Reconcile(s) /\ disk' = Reconcile(s)
         \/ mem' = disk /\ disk' = disk
  BY <1>2 DEF SaveAndLeave, LeaveRoute, Save, SaveFails
<1>4. \A c \in Calls : s.res[c] = mem.res[c] /\ (Unmade(mem) /\ c > Len(log) => s.rec[c] = "none")
  BY <1>2, ReconcileShape DEF TypeOK, Unmade
<1>5. Unmade(s)
  BY <1>4 DEF CallsInv, Unmade
<1>6. ASSUME NEW c \in 1..Len(log)
      PROVE  CallOf(s, c)
  <2>1. c \in Calls /\ CallOf(mem, c) /\ mem \in Sessions
    BY InHand DEF CallsInv, TypeOK
  <2>2. CallOf(Reconcile(mem), c) /\ Reconcile(mem).turn = mem.turn
    BY <2>1, ReconciledCalls, ReconcileShape
  <2>3. s.turn # None /\ s.turn.run # runs => mem.turn # None /\ mem.turn.run # runs
    BY <1>1, <1>2, SnapshotCovers
  <2> QED
    BY <1>2, <2>2, <2>3 DEF CallOf
<1>7. Covered(s)
  BY <1>1, <1>2, SnapshotCovers, SnapshotType DEF Covered
<1>8. /\ Unmade(disk)' /\ Unmade(mem)'
      /\ \A c \in 1..Len(log') : log'[c].run <= runs' /\ CallOf(disk, c)' /\ CallOf(mem, c)'
  BY <1>2, <1>3, <1>5, <1>6, <1>7, CallsMoved
<1>9. TurnInv'
  <2>1. mem' = disk' /\ (disk'.turn = disk.turn \/ disk'.turn = Snapshot \/ disk'.turn = None)
    BY <1>2, <1>3, ReconcileShape
  <2>2. Snapshot.run <= runs /\ resumed[Snapshot.run] = Snapshot.att
    BY <1>1, SnapshotType DEF StageInv, TurnInv
  <2>3. TurnOf(disk)' /\ TurnOf(mem)'
    BY <1>3, <2>1, <2>2 DEF TurnInv, TurnOf
  <2> QED
    BY <1>3, <2>1, <2>3 DEF TurnInv
<1>10. DOMAIN out' = {}
  <2>1. DOMAIN <<>> = {}
    OBVIOUS
  <2> QED
    BY <1>3, <2>1
<1> QED
  BY <1>3, <1>8, <1>9, <1>10, AtRest

(* Steps that write no file.                                                  *)
LEMMA QuietNext ==
  ASSUME TypeOK, StageInv, TurnInv, CallsInv,
         Crash \/ Restart \/ Discover \/ ClaimSuperseded \/ UNCHANGED vars
  PROVE  TurnInv' /\ CallsInv'
<1>1. /\ UNCHANGED <<disk, log, runs, effects, resumed>>
      /\ \/ run' = 0 /\ attempt' = 0 /\ out' = <<>> /\ mem' = disk /\ pc' = "down"
         \/ run = 0 /\ pc' = "up" /\ UNCHANGED <<mem, run, attempt, out>>
         \/ UNCHANGED <<run, attempt, mem, out, gate, since, effects, log, pc>>
  BY DEF Crash, Restart, Discover, ClaimSuperseded, vars, StageInv
<1>2. TurnInv'
  BY <1>1 DEF TurnInv, TurnOf, Snapshot, TypeOK
<1>3. Unmade(disk)' /\ Unmade(mem)'
  BY <1>1 DEF CallsInv, Unmade
<1>4. \A c \in 1..Len(log') : log'[c].run <= runs' /\ CallOf(disk, c)' /\ CallOf(mem, c)'
  BY <1>1 DEF CallsInv, CallOf, Live
<1>5. run' = 0 => DOMAIN out' = {}
  <2>1. DOMAIN <<>> = {} /\ (run = 0 => DOMAIN out = {})
    BY DEF StageInv
  <2> QED
    BY <1>1, <2>1
<1> QED
  BY <1>1, <1>2, <1>3, <1>4, <1>5, AtRest

(* What recovery writes of the calls of the turn it found.                    *)
LEMMA GuardedCalls ==
  ASSUME TypeOK, CallsInv, disk.turn # None,
         NEW s \in Sessions, s.res = Guarded(disk.turn.run).res,
         \A c \in Calls : s.rec[c] = IF c \in Blocking(Guarded(disk.turn.run), disk.turn.run)
                                       THEN "outcome_unknown" ELSE Guarded(disk.turn.run).rec[c],
         s.turn # None => /\ s.turn.run = disk.turn.run
                          /\ Blocking(Guarded(disk.turn.run), disk.turn.run) = {}
  PROVE  /\ Unmade(s) /\ Covered(s)
         /\ \A c \in 1..Len(log) : CallOf(s, c)
<1> DEFINE r == disk.turn.run
           g == Guarded(r)
<1>1. \A c \in Calls :
        /\ g.res[c] = IF disk.res[c] # "open" THEN disk.res[c]
                      ELSE IF c \in Blocking(disk, r) THEN "unknown" ELSE "safe"
        /\ g.rec[c] = IF disk.rec[c] = "prepared" /\ log[c].run = r
                      THEN "abandoned" ELSE disk.rec[c]
  BY GuardedShape
<1>2. /\ Blocking(disk, r) \subseteq 1..Len(log) /\ Blocking(g, r) \subseteq 1..Len(log)
      /\ \A c \in 1..Len(log) : c \in Blocking(disk, r) <=> log[c].run = r /\ disk.rec[c] \in Unresolved
      /\ \A c \in 1..Len(log) : c \in Blocking(g, r) <=> log[c].run = r /\ g.rec[c] \in Unresolved
  BY DEF Blocking
<1>3. /\ \A c \in Calls : s.rec[c] = IF c \in Blocking(g, r) THEN "outcome_unknown" ELSE g.rec[c]
      /\ s.turn # None => s.turn.run = r /\ Blocking(g, r) = {}
  OBVIOUS
<1> HIDE DEF g, r
<1>4. Covered(s)
  BY <1>3 DEF Covered, r
<1>5. Unmade(s)
  <2>1. ASSUME NEW c \in Calls, c > Len(log)
        PROVE  s.rec[c] = "none" /\ s.res[c] = "none"
    <3>1. disk.rec[c] = "none" /\ disk.res[c] = "none"
      BY <2>1 DEF CallsInv, Unmade
    <3>2. c \notin Blocking(g, r) /\ c \notin Blocking(disk, r)
      BY <1>2, <2>1 DEF TypeOK
    <3> QED
      BY <1>1, <1>3, <3>1, <3>2 DEF g, r
  <2> QED
    BY <2>1 DEF Unmade
<1>6. ASSUME NEW c \in 1..Len(log)
      PROVE  CallOf(s, c)
  <2>1. c \in Calls /\ CallOf(disk, c)
    BY InHand DEF CallsInv
  <2>2. c \in Blocking(disk, r) <=> log[c].run = r /\ disk.rec[c] \in Unresolved
    BY <1>2
  <2>3. c \in Blocking(g, r) <=> c \in Blocking(disk, r)
    BY <1>1, <1>2, <2>1 DEF Unresolved
  <2>4. s.res[c] = IF disk.res[c] # "open" THEN disk.res[c]
                   ELSE IF c \in Blocking(disk, r) THEN "unknown" ELSE "safe"
    BY <1>1, <2>1 DEF g, r
  <2>5. s.rec[c] = IF c \in Blocking(disk, r) THEN "outcome_unknown"
                   ELSE IF disk.rec[c] = "prepared" /\ log[c].run = r THEN "abandoned" ELSE disk.rec[c]
    BY <1>1, <1>3, <2>1, <2>3
  <2>6. c \in effects => disk.rec[c] \in Unresolved \cup {"checkpointed"} /\ s.rec[c] \in Unresolved \cup {"checkpointed"}
    BY <2>1, <2>5 DEF CallOf, Unresolved
  <2>7. Live(c) /\ ~(log[c].run = r) => disk.rec[c] \in {"none", "prepared", "abandoned"}
    BY <2>1 DEF Live, CallOf, r
  <2>8. log[c].run = r => Live(c)
    BY DEF Live, r
  <2>9. Live(c) /\ s.rec[c] = "checkpointed" => s.res[c] = "real"
    BY <2>1, <2>4, <2>5 DEF CallOf
  <2>10. Live(c) => s.rec[c] # "committed"
    BY <2>2, <2>5, <2>7 DEF Unresolved
  <2>11. Live(c) /\ c \in effects => s.res[c] # "safe"
    BY <2>1, <2>2, <2>4, <2>6, <2>7 DEF CallOf, Unresolved
  <2>12. s.turn # None /\ s.turn.run # runs /\ log[c].run = runs => s.rec[c] \in {"none", "prepared", "abandoned"}
    BY <1>3, <2>1, <2>3, <2>5 DEF CallOf, r
  <2> QED
    BY <2>6, <2>9, <2>10, <2>11, <2>12 DEF CallOf
<1> QED
  BY <1>4, <1>5, <1>6

(* A turn is taken up again only with the result of all it had done.          *)
LEMMA ResumeKnows ==
  ASSUME TypeOK, StageInv, CallsInv, ClaimResumes, attempt' > 0,
         NEW c \in effects, log[c].run = run'
  PROVE  mem'.res[c] = "real"
<1> DEFINE r == cand.run
           g == Guarded(r)
<1>1. /\ disk.turn = cand /\ disk.turn # None /\ attempt = 0
      /\ cand.att < MaxResumes /\ Blocking(g, r) = {}
  BY DEF ClaimResumes, Claiming, StillMine, StageInv
<1>2. Save([g EXCEPT !.turn.att = @ + 1]) /\ run' = r
  BY <1>1 DEF ClaimResumes
<1>3. g \in Sessions /\ g.turn = cand
  BY <1>1, GuardedShape
<1> HIDE DEF g, r
<1>4. mem'.res = g.res
  <2>1. LET s == [g EXCEPT !.turn.att = @ + 1]
        IN  s \in Sessions /\ s.res = g.res
    BY <1>1, <1>3, ResumedShape
  <2> QED
    BY <1>2, <2>1, ReconcileShape DEF Save
<1>5. c \in 1..Len(log) /\ c \in Calls /\ CallOf(disk, c) /\ Live(c)
  BY <1>1, <1>2, InHand DEF TypeOK, CallsInv, Live, r
<1>6. disk.rec[c] \in Unresolved \cup {"checkpointed"}
  BY <1>5 DEF CallOf
<1>7. g.rec[c] = disk.rec[c]
  BY <1>5, <1>6, GuardedShape DEF g, Unresolved
<1>8. g.rec[c] \notin Unresolved
  BY <1>1, <1>2, <1>5, BlockingIs
<1>9. disk.res[c] = "real"
  BY <1>5, <1>6, <1>7, <1>8 DEF CallOf
<1> QED
  BY <1>4, <1>5, <1>9, GuardedShape DEF g

(* The recovery of an interrupted turn keeps CallsInv, however it ends.       *)
LEMMA ClaimNext ==
  ASSUME TypeOK, StageInv, TurnInv, CallsInv, ClaimEnds \/ ClaimResumes
  PROVE  TurnInv' /\ CallsInv'
<1>1. /\ pc = "up" /\ cand # None /\ disk.turn = cand /\ disk.turn # None
      /\ mem = disk /\ attempt = 0 /\ run = 0
      /\ UNCHANGED <<log, out, gate, runs, since, effects>> /\ DOMAIN out = {}
  BY DEF ClaimEnds, ClaimResumes, Claiming, StillMine, StageInv
<1> DEFINE r == cand.run
           g == Guarded(r)
<1>2. g \in Sessions /\ g.turn = cand
  BY <1>1, GuardedShape
<1>3. cand \in Turns /\ r \in Runs /\ cand.att \in 0..MaxResumes /\ r <= runs /\ resumed[r] = cand.att
  BY <1>1 DEF TypeOK, TurnInv, TurnOf, Turns
<1> HIDE DEF g, r
<1>4. CASE ClaimEnds
  <2>1. PICK s \in Sessions :
          /\ s.res = g.res /\ s.turn = None
          /\ \A c \in Calls : s.rec[c] = IF c \in Blocking(g, r) THEN "outcome_unknown" ELSE g.rec[c]
          /\ Save(s) \/ SaveFails(1, disk)
    <3>1. CASE Blocking(g, r) # {}
      <4>1. Save(InDoubt(g, r)) \/ SaveFails(1, disk)
        BY <1>4, <3>1 DEF ClaimEnds, g, r
      <4> QED
        BY <1>2, <4>1, InDoubtShape
    <3>2. CASE Blocking(g, r) = {}
      <4>1. Save([g EXCEPT !.turn = None]) \/ SaveFails(1, disk)
        BY <1>4, <3>2 DEF ClaimEnds, g, r
      <4>2. LET s == [g EXCEPT !.turn = None]
            IN  s \in Sessions /\ s.rec = g.rec /\ s.res = g.res /\ s.turn = None
        BY <1>2, TurnShape
      <4>3. PICK s : s = [g EXCEPT !.turn = None]
        OBVIOUS
      <4>4. /\ s \in Sessions /\ s.rec = g.rec /\ s.res = g.res /\ s.turn = None
            /\ Save(s) \/ SaveFails(1, disk)
        BY <4>1, <4>2, <4>3
      <4>5. \A c \in Calls : s.rec[c] = IF c \in Blocking(g, r) THEN "outcome_unknown" ELSE g.rec[c]
        BY <3>2, <4>4
      <4> QED
        BY <4>4, <4>5
    <3> QED
      BY <3>1, <3>2
  <2>2. Unmade(s) /\ Covered(s) /\ \A c \in 1..Len(log) : CallOf(s, c)
    BY <1>1, <2>1, GuardedCalls DEF g, r
  <2>3. /\ mem' = disk' /\ disk' \in {disk, Reconcile(s)}
        /\ pc' = "up" /\ UNCHANGED <<run, attempt, resumed>>
    BY <1>1, <1>4, <2>1 DEF ClaimEnds, Save, SaveFails
  <2>4. /\ Unmade(disk)' /\ Unmade(mem)'
        /\ \A c \in 1..Len(log') : log'[c].run <= runs' /\ CallOf(disk, c)' /\ CallOf(mem, c)'
    BY <1>1, <2>2, <2>3, CallsMoved
  <2>5. disk'.turn = disk.turn \/ disk'.turn = None
    BY <2>1, <2>3, ReconcileShape
  <2>6. TurnInv'
    BY <1>1, <2>3, <2>5 DEF TurnInv, TurnOf
  <2>7. CallsInv'
    BY <1>1, <2>3, <2>4, AtRest
  <2> QED
    BY <2>6, <2>7
<1>5. CASE ClaimResumes
  <2>1. cand.att < MaxResumes /\ Blocking(g, r) = {}
    BY <1>5 DEF ClaimResumes, g, r
  <2>2. PICK s \in Sessions :
          /\ s.res = g.res /\ s.rec = g.rec /\ s.turn # None
          /\ s.turn.run = r /\ s.turn.att = cand.att + 1
          /\ \/ /\ Save(s) /\ pc' = "think" /\ run' = r /\ attempt' = cand.att + 1
                /\ resumed' = [resumed EXCEPT ![r] = @ + 1]
             \/ SaveFails(1, disk) /\ UNCHANGED <<pc, run, attempt, resumed>>
    <3>1. LET s == [g EXCEPT !.turn.att = @ + 1]
          IN  /\ s \in Sessions /\ s.rec = g.rec /\ s.res = g.res
              /\ s.turn # None /\ s.turn.run = r /\ s.turn.att = cand.att + 1
      BY <1>1, <1>2, <2>1, ResumedShape DEF r
    <3> QED
      BY <1>5, <3>1 DEF ClaimResumes, g, r
  <2>3. Unmade(s) /\ Covered(s) /\ \A c \in 1..Len(log) : CallOf(s, c)
    BY <1>1, <2>1, <2>2, GuardedCalls DEF g, r
  <2>4. mem' = disk' /\ disk' \in {disk, Reconcile(s)}
    BY <1>1, <2>2 DEF Save, SaveFails
  <2>5. /\ Unmade(disk)' /\ Unmade(mem)'
        /\ \A c \in 1..Len(log') : log'[c].run <= runs' /\ CallOf(disk, c)' /\ CallOf(mem, c)'
    BY <1>1, <2>3, <2>4, CallsMoved
  <2>6. CASE SaveFails(1, disk) /\ UNCHANGED <<pc, run, attempt, resumed>>
    <3>1. disk' = disk /\ mem' = disk
      BY <2>6 DEF SaveFails
    <3>2. TurnInv'
      BY <1>1, <2>6, <3>1 DEF TurnInv, TurnOf
    <3>3. CallsInv'
      BY <1>1, <2>5, <2>6, <3>1, AtRest
    <3> QED
      BY <3>2, <3>3
  <2>7. CASE /\ Save(s) /\ pc' = "think" /\ run' = r /\ attempt' = cand.att + 1
             /\ resumed' = [resumed EXCEPT ![r] = @ + 1]
    <3>1. /\ mem' = Reconcile(s) /\ disk' = Reconcile(s)
          /\ disk'.turn = s.turn /\ mem'.turn = s.turn /\ mem'.res = g.res
      BY <2>2, <2>7, ReconcileShape DEF Save
    <3>2. /\ resumed'[r] = cand.att + 1
          /\ \A q \in Runs : q # r => resumed'[q] = resumed[q]
      BY <1>3, <2>7 DEF TypeOK
    <3>3. Snapshot' = s.turn
      <4>1. s.turn \in Turns
        BY <2>2 DEF Sessions
      <4> QED
        BY <2>2, <2>7, <4>1 DEF Snapshot, Turns
    <3>4. TurnOf(disk)' /\ TurnOf(mem)'
      BY <1>1, <1>3, <2>2, <3>1, <3>2 DEF TurnOf
    <3>5. TurnInv'
      <4>1. \A q \in Runs : q > runs' => resumed'[q] = 0
        BY <1>1, <1>3, <3>2 DEF TurnInv, TypeOK, Runs
      <4>2. /\ resumed'[run'] = attempt' /\ pc' # "running"
            /\ disk'.turn = Snapshot' /\ mem'.turn = Snapshot'
        BY <2>7, <3>1, <3>2, <3>3
      <4> QED
        BY <3>4, <4>1, <4>2 DEF TurnInv
    <3>6. ASSUME NEW c \in effects, log[c].run = r
          PROVE  mem'.res[c] = "real"
      BY <1>3, <1>5, <2>7, <3>6, ResumeKnows
    <3>7. \A c \in 1..Len(log') : KnownOf(c)'
      BY <1>1, <2>7, <3>6 DEF KnownOf
    <3>8. CallsInv'
      BY <1>1, <2>5, <3>7 DEF CallsInv
    <3> QED
      BY <3>5, <3>8
  <2> QED
    BY <2>2, <2>6, <2>7
<1> QED
  BY <1>4, <1>5

-----------------------------------------------------------------------------
(* The invariant.                                                             *)

JournalInv == TypeOK /\ StageInv /\ TurnInv /\ CallsInv

(* The process starts in the invariant.                                       *)
LEMMA JournalInit ==
  ASSUME Init
  PROVE  JournalInv
<1> USE DEF Init
<1>1. NewSession \in Sessions /\ NewSession.turn = None
      /\ \A c \in Calls : NewSession.rec[c] = "none" /\ NewSession.res[c] = "none"
  BY DEF NewSession, Sessions, RecStates, Results
<1>2. DOMAIN <<>> = {} /\ Len(log) = 0 /\ log \in Seq([run : Runs, act : Acts])
  BY EmptySeq
<1>3. DOMAIN out = {} /\ \A c \in DOMAIN out : FALSE
  BY <1>2
<1>4. TypeOK
  <2>1. disk \in Sessions /\ mem \in Sessions
    BY <1>1
  <2>2. /\ run \in Runs \cup {0} /\ attempt \in 0..MaxResumes /\ runs \in 0..MaxRuns
        /\ since \in 1..(MaxCalls + 1) /\ crashes \in 0..MaxCrashes /\ fails \in 0..MaxSaveFails
        /\ Len(log) <= MaxCalls
    BY <1>2, BoundsAreNaturals
  <2>3. resumed \in [Runs -> 0..MaxResumes]
    BY BoundsAreNaturals
  <2>4. DOMAIN out \subseteq 1..Len(log) /\ gate \subseteq Acts /\ effects \subseteq 1..Len(log)
    BY <1>3
  <2> QED
    BY <1>2, <1>3, <2>1, <2>2, <2>3, <2>4 DEF TypeOK
<1>5. StageInv
  BY <1>3 DEF StageInv
<1>6. TurnInv
  BY <1>1 DEF TurnInv, TurnOf
<1>7. \A c \in 1..Len(log) : FALSE
  BY <1>2
<1>8. CallsInv
  BY <1>1, <1>3, <1>7 DEF CallsInv, Unmade
<1> QED
  BY <1>4, <1>5, <1>6, <1>8 DEF JournalInv

(* A step that changes nothing keeps it.                                      *)
LEMMA JournalStutters ==
  ASSUME TypeOK, StageInv, UNCHANGED vars
  PROVE  TypeOK' /\ StageInv'
<1>1. Pending' = Pending
  BY HeadStays DEF vars
<1> QED
  BY <1>1 DEF vars, TypeOK, StageInv

(* Every step of the journal keeps it.                                        *)
LEMMA JournalNext ==
  ASSUME JournalInv, [Next]_vars
  PROVE  JournalInv'
<1> USE DEF JournalInv
<1>1. TypeOK' /\ StageInv'
  BY TypeNext, StageNext, JournalStutters
<1>2. TurnInv' /\ CallsInv'
  <2>1. CASE StartRun \/ FollowUp \/ Respond
    BY <2>1, StartNext, FollowNext, RespondNext
  <2>2. CASE Dispatch \/ Effect
    BY <2>2, DispatchNext, EffectNext
  <2>3. CASE DispatchFails \/ DispatchCancelled \/ ToolAnswers \/ AnswerUnsaved \/ ToolLost
    BY <2>3, HeadStepNext
  <2>4. CASE Checkpoint \/ CheckpointFails \/ CheckpointSkipped
    BY <2>4, CheckpointNext
  <2>5. CASE Finish \/ HardError
    BY <2>5, EndNext
  <2>6. CASE Crash \/ Restart \/ Discover \/ ClaimSuperseded \/ UNCHANGED vars
    BY <2>6, QuietNext
  <2>7. CASE ClaimEnds \/ ClaimResumes
    BY <2>7, ClaimNext
  <2> QED
    BY <2>1, <2>2, <2>3, <2>4, <2>5, <2>6, <2>7 DEF Next
<1> QED
  BY <1>1, <1>2

(* So it holds in every reachable state.                                      *)
LEMMA JournalInvariant == Spec => []JournalInv
<1>1. Init => JournalInv
  BY JournalInit
<1>2. JournalInv /\ [Next]_vars => JournalInv'
  BY JournalNext
<1> QED
  BY <1>1, <1>2, PTL DEF Spec

-----------------------------------------------------------------------------
(* The theorems.                                                              *)

(* Every variable keeps its type: no save, crash or recovery builds a session *)
(* that is not one, and every bound holds.                                    *)
THEOREM TypeCorrect == Spec => []TypeOK
<1>1. JournalInv => TypeOK
  BY DEF JournalInv
<1> QED
  BY <1>1, JournalInvariant, PTL

(* An effect on the outside world is never without a record past the dispatch *)
(* in the file, and the last run's records are closed only beside the tool's  *)
(* own result (prepareApprovedToolCall, ReconcileToolExecutionCheckpoints).   *)
THEOREM LedgerCorrect == Spec => []LedgerIsTrue
<1>1. JournalInv => LedgerIsTrue
  <2> SUFFICES ASSUME JournalInv
               PROVE  LedgerIsTrue
    OBVIOUS
  <2>1. effects \subseteq 1..Len(log)
    BY DEF JournalInv, TypeOK
  <2>2. \A c \in 1..Len(log) : log[c].run = runs => Live(c)
    BY DEF Live
  <2> QED
    BY <2>1, <2>2 DEF JournalInv, CallsInv, CallOf, LedgerIsTrue
<1> QED
  BY <1>1, JournalInvariant, PTL

(* A result that says a call was not made stands beside no effect, unless a   *)
(* later foreground turn took the session first                               *)
(* (appendInterruptedSyntheticToolResults, executeBatches).                   *)
THEOREM SafeIsSafe == Spec => []SafeUnlessOvertaken
<1>1. JournalInv => SafeUnlessOvertaken
  <2> SUFFICES ASSUME JournalInv, NEW c \in effects, disk.res[c] = "safe"
               PROVE  log[c].run < runs
    BY DEF SafeUnlessOvertaken
  <2>1. c \in 1..Len(log) /\ runs \in Nat
    BY DEF JournalInv, TypeOK
  <2>2. log[c].run \in Nat /\ log[c].run <= runs
    BY <2>1, LogEntry DEF JournalInv, CallsInv, Runs
  <2>3. log[c].run # runs
    BY <2>1 DEF JournalInv, CallsInv, CallOf, Live
  <2> QED
    BY <2>1, <2>2, <2>3
<1> QED
  BY <1>1, JournalInvariant, PTL

(* No run enters the loop by recovery more often than configured, whatever    *)
(* save fails and whenever the process dies (claimInterruptedResume).         *)
THEOREM CrashLoopsEnd == Spec => []CrashLoopBounded
<1>1. JournalInv => CrashLoopBounded
  <2> SUFFICES ASSUME JournalInv
               PROVE  CrashLoopBounded
    OBVIOUS
  <2>1. \A r \in Runs : resumed[r] <= MaxResumes
    BY BoundsAreNaturals DEF JournalInv, TypeOK
  <2>2. attempt > 0 => run # 0
    BY DEF JournalInv, StageInv
  <2> QED
    BY <2>1, <2>2 DEF JournalInv, TurnInv, CrashLoopBounded
<1> QED
  BY <1>1, JournalInvariant, PTL

(* A turn goes on unattended only with the tool's own result of everything it *)
(* had done (guardInterruptedToolExecutions).                                 *)
THEOREM ResumeIsInformed == Spec => ResumeKnowsEffects
<1>1. JournalInv /\ [Next]_vars =>
        [attempt = 0 /\ attempt' > 0 =>
           \A c \in effects : log[c].run = run' => mem'.res[c] = "real"]_vars
  <2> SUFFICES ASSUME JournalInv, Next, attempt = 0, attempt' > 0
               PROVE  \A c \in effects : log[c].run = run' => mem'.res[c] = "real"
    OBVIOUS
  <2>1. ClaimResumes
    BY DEF Next, StartRun, FollowUp, Respond, Dispatch, DispatchFails, DispatchCancelled, Effect,
           ToolAnswers, AnswerUnsaved, ToolLost, Checkpoint, CheckpointFails, CheckpointSkipped,
           Finish, HardError, SaveAndLeave, LeaveRoute, Crash, Restart, Discover,
           ClaimSuperseded, ClaimEnds
  <2> QED
    BY <2>1, ResumeKnows DEF JournalInv
<1> QED
  BY <1>1, JournalInvariant, PTL DEF Spec, ResumeKnowsEffects

(* Unless the user has spoken since, no call is dispatched while an earlier   *)
(* try of the same act in the same run may have happened without a result     *)
(* (unknown_outcome_gate.go within a process, the ledger across a crash).     *)
THEOREM NoRetryInDoubt == Spec => NoBlindRetry
<1>1. JournalInv /\ [Next]_vars =>
        [pc = "batch" /\ pc' = "running" =>
           \A c \in effects :
             c >= since /\ c # Head1 /\ log[c] = log[Head1] =>
               mem.res[c] = "real" \/ (c \in DOMAIN out /\ out[c] = "real")]_vars
  <2> SUFFICES ASSUME JournalInv, Next, pc = "batch", pc' = "running",
                      NEW c \in effects, c >= since, c # Head1, log[c] = log[Head1]
               PROVE  mem.res[c] = "real" \/ (c \in DOMAIN out /\ out[c] = "real")
    OBVIOUS
  <2>1. Dispatch
    BY DEF Next, StartRun, FollowUp, Respond, DispatchFails, DispatchCancelled, Effect,
           ToolAnswers, AnswerUnsaved, ToolLost, Checkpoint, CheckpointFails, CheckpointSkipped,
           Finish, HardError, SaveAndLeave, LeaveRoute, Crash, Restart, Discover,
           ClaimSuperseded, ClaimEnds, ClaimResumes, Claiming
  <2>2. Head1 \in DOMAIN out /\ out[Head1] = "pending" /\ Pending # {} /\ run # 0
    BY <2>1, HeadOK DEF Dispatch, JournalInv, StageInv
  <2>3. log[Head1].run = run /\ log[Head1].act \notin gate
    BY <2>2 DEF JournalInv, CallsInv, OutOf
  <2>4. c \in 1..Len(log) /\ KnownOf(c) /\ ~Trying(c)
    BY DEF JournalInv, TypeOK, CallsInv, Trying
  <2>5. c \in DOMAIN out => out[c] # "unknown"
    BY <2>2 DEF JournalInv, CallsInv, OutOf
  <2> QED
    BY <2>2, <2>3, <2>4, <2>5 DEF KnownOf
<1> QED
  BY <1>1, JournalInvariant, PTL DEF Spec, NoBlindRetry

=====

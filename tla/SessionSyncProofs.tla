-------------------------- MODULE SessionSyncProofs --------------------------
(***************************************************************************)
(* Proofs about SessionSync, for any number of sessions, edits and runs, any *)
(* batch size and attempt cap, any zone and any precision of the times.      *)
(***************************************************************************)
EXTENDS SessionSync, TLAPS

Transient(m, s) == Is(m.failed[s], "transient")
Permanent(m, s) == Is(m.failed[s], "permanent")

(* The order of times: nothing is later than the clock, and what the marker  *)
(* file holds is from before the run.                                        *)
Ordered ==
  /\ clock = edits + runs /\ now <= clock
  /\ disk.last <= clock /\ marker.last <= clock
  /\ pc # "idle" => now > 0 /\ disk.last < now /\ runs > 0
  /\ \A s \in Sessions : updated[s] <= clock /\ cands[s] <= clock /\ body[s] <= updated[s]

EntryOrdered(s) ==
  /\ disk.failed[s] # None =>
       /\ 0 < disk.failed[s].at /\ disk.failed[s].at <= clock
       /\ disk.failed[s].observed <= clock /\ disk.failed[s].attempts <= runs
       /\ pc # "idle" => disk.failed[s].at < now /\ disk.failed[s].attempts < runs
  /\ marker.failed[s] # None =>
       /\ 0 < marker.failed[s].at /\ marker.failed[s].at <= now
       /\ marker.failed[s].observed <= clock /\ marker.failed[s].attempts <= runs

(* Where the run is decides what it holds.                                   *)
Phase ==
  /\ pc = "idle" => cands = NoTimes
  /\ pc # "sending" => body = NoTimes
  /\ pc \in {"scanning", "found"} => marker = disk
  /\ \A s \in Sessions : s \in unread => cands[s] = 0
  /\ \A s \in Sessions : body[s] > 0 => cands[s] > 0 /\ marker.failed[s] = disk.failed[s]

(* Session s was edited after the run had asked every directory.             *)
Fresh(s) == updated[s] > now /\ \A t \in Sessions : updated[s] > cands[t]

(* A permanent failure that was not edited since is one left out for good.   *)
RefusedInv(s) ==
  /\ Permanent(disk, s) /\ updated[s] <= disk.failed[s].observed => left[s] = "refused"
  /\ Permanent(marker, s) /\ updated[s] <= marker.failed[s].observed => left[s] = "refused"
  /\ Permanent(disk, s) /\ cands[s] > 0 => updated[s] > disk.failed[s].observed

Behind(s) == left[s] = "no" /\ cloud[s] < updated[s]

(* Nothing that the Cloud lacks and that is not left out escapes a run: it   *)
(* becomes a candidate, then a loaded body, then an entry of the marker;     *)
(* otherwise its edit is later than anything the watermark may move to.      *)
NotForgotten(s) ==
  /\ Behind(s) => updated[s] > disk.last \/ Transient(disk, s)
  /\ pc \in {"scanning", "found"} /\ s \notin unread /\ Behind(s) /\ updated[s] > disk.last
       => cands[s] > 0 \/ (unread = {} /\ Fresh(s))
  /\ pc = "sending" /\ Behind(s) =>
       \/ body[s] = updated[s]
       \/ Fresh(s) /\ updated[s] > marker.last
       \/ body[s] = 0 /\ Transient(marker, s)
  /\ pc = "sending" /\ body[s] > 0 /\ body[s] # updated[s] => Fresh(s) /\ updated[s] > marker.last

(* An entry that the run took out of the marker.                             *)
Settled(s) ==
  pc = "sending" /\ disk.failed[s] # None /\ marker.failed[s] = None =>
    cloud[s] = updated[s] \/ left[s] = "dropped" \/ (Fresh(s) /\ updated[s] > marker.last)

SyncInv ==
  /\ TypeOK /\ Ordered /\ Phase
  /\ \A s \in Sessions : EntryOrdered(s) /\ RefusedInv(s) /\ NotForgotten(s) /\ Settled(s)

-----------------------------------------------------------------------------
LEMMA EntryFacts ==
  /\ None \notin Entries
  /\ \A e \in Entries :
       /\ e.cat \in {"transient", "permanent"} /\ e.attempts \in 1..MaxRuns
       /\ e.at \in Times /\ e.observed \in Times
BY SyncConstants DEF Entries

LEMMA FailureFacts ==
  ASSUME NEW s \in Sessions, NEW cat \in {"transient", "permanent"},
         Attempts(s) \in 1..MaxRuns, now \in Times, cands[s] \in Times
  PROVE  /\ Failure(s, cat) \in Entries /\ Failure(s, cat) # None
         /\ Failure(s, cat).cat = cat /\ Failure(s, cat).attempts = Attempts(s)
         /\ Failure(s, cat).at = now /\ Failure(s, cat).observed = cands[s]
BY EntryFacts DEF Failure, Entries

LEMMA SyncInit == Init => SyncInv
BY SyncConstants DEF Init, SyncInv, TypeOK, Ordered, Phase, EntryOrdered, RefusedInv, NotForgotten, Settled,
   Markers, Times, MaxTime, NoTimes, EmptyMarker, Behind, Transient, Permanent, Is

(* The texts of two times sort as the times do, from a second apart.         *)
LEMMA ChangedIfNotNear ==
  ASSUME NEW s \in Sessions, updated[s] \in Nat, disk.last \in Nat,
         indexed[s] = updated[s], updated[s] > disk.last, ~Near(s)
  PROVE  Changed(s)
<1>1. updated[s] - BehindUTC >= disk.last + Second
  BY SyncConstants DEF Near
<1>2. updated[s] - BehindUTC > disk.last
  BY <1>1, SyncConstants
<1>3. ~EndsIn(disk.last, updated[s] - BehindUTC)
  <2> DEFINE local == updated[s] - BehindUTC
  <2>1. local \in Int /\ local >= disk.last + Second
    BY <1>1, SyncConstants
  <2>2. ASSUME NEW u \in Places PROVE ~(local < disk.last + u)
    <3>1. u \in Int /\ Second \in Int /\ u <= Second
      BY SyncConstants
    <3> QED
      BY <2>1, <3>1
  <2> QED
    BY <2>2 DEF EndsIn
<1> QED
  BY <1>2, <1>3 DEF Changed, TextAfter

(* So a session read as it was edited last is a candidate, left alone after  *)
(* a permanent failure, or marked as near.                                   *)
LEMMA ReadDirLists ==
  ASSUME TypeOK, NEW s \in Sessions, ReadDir(s), updated[s] > disk.last
  PROVE  \/ cands'[s] > 0
         \/ NoChurn(s) /\ indexed[s] = updated[s]
         \/ left'[s] \in {"missed", "refused"}
         \/ left'[s] = "near" /\ Near(s)
<1>1. /\ updated[s] \in Nat /\ indexed[s] \in Nat /\ disk.last \in Nat
  BY DEF TypeOK, Markers, Times
<1>2. /\ cands'[s] = IF Changed(s) /\ ~NoChurn(s) THEN indexed[s] ELSE 0
      /\ left[s] # "refused" => left'[s] =
           CASE indexed[s] # updated[s] -> "missed"
             [] indexed[s] = updated[s] /\ ~Changed(s) /\ Near(s) -> "near"
             [] OTHER -> "no"
      /\ left[s] = "refused" => left'[s] = "refused"
  BY DEF ReadDir, Leave, TypeOK
<1>3. CASE indexed[s] = updated[s] /\ Changed(s)
  BY <1>1, <1>2, <1>3 DEF Changed
<1>4. CASE indexed[s] = updated[s] /\ ~Changed(s)
  BY <1>1, <1>2, <1>4, ChangedIfNotNear
<1>5. CASE indexed[s] # updated[s]
  BY <1>2, <1>5
<1> QED
  BY <1>3, <1>4, <1>5

LEMMA SyncStep == SyncInv /\ [Next]_vars => SyncInv'
<1> SUFFICES ASSUME SyncInv, [Next]_vars PROVE SyncInv'
  OBVIOUS
<1> USE SyncConstants, EntryFacts
    DEF SyncInv, TypeOK, Ordered, Phase, EntryOrdered, RefusedInv, NotForgotten, Settled, Fresh, Behind,
        Transient, Permanent, Is, Times, MaxTime, Markers, NoTimes
<1>1. ASSUME NEW s \in Sessions, Edit(s) PROVE SyncInv'
  <2>1. TypeOK'
    BY <1>1 DEF Edit
  <2>2. Ordered' /\ Phase'
    BY <1>1 DEF Edit
  <2>3. ASSUME NEW t \in Sessions PROVE EntryOrdered(t)' /\ RefusedInv(t)'
    BY <1>1 DEF Edit
  <2>4. ASSUME NEW t \in Sessions PROVE NotForgotten(t)'
    BY <1>1 DEF Edit
  <2>5. ASSUME NEW t \in Sessions PROVE Settled(t)'
    BY <1>1 DEF Edit
  <2> HIDE DEF TypeOK, Ordered, Phase, EntryOrdered, RefusedInv, NotForgotten, Settled
  <2> QED
    BY <2>1, <2>2, <2>3, <2>4, <2>5
<1>2. ASSUME NEW s \in Sessions, UpsertSession(s) PROVE SyncInv'
  BY <1>2 DEF UpsertSession
<1>3. ASSUME NEW s \in Sessions, ReadDir(s) PROVE SyncInv'
  <2>1. TypeOK' /\ Ordered' /\ Phase'
    BY <1>3 DEF ReadDir, Leave, Changed, NoChurn
  <2>2. ASSUME NEW t \in Sessions PROVE EntryOrdered(t)' /\ RefusedInv(t)' /\ Settled(t)'
    BY <1>3 DEF ReadDir, Leave, Changed, NoChurn
  <2>3. ASSUME NEW t \in Sessions PROVE NotForgotten(t)'
    <3>1. CASE t = s
      <4>1. /\ left'[s] = "no" => left[s] = "no" \/ updated[s] > disk.last
            /\ left[s] = "refused" => left'[s] = "refused"
            /\ pc = "scanning" /\ s \in unread
            /\ UNCHANGED <<updated, disk, cloud, pc, body, marker>>
        BY <1>3 DEF ReadDir, Leave
      <4>2. NoChurn(s) => left[s] = "refused" \/ indexed[s] # updated[s]
        BY DEF NoChurn
      <4>3. left'[s] = "no" /\ updated[s] > disk.last => cands'[s] > 0
        BY <1>3, <4>1, <4>2, ReadDirLists
      <4> QED
        BY <3>1, <4>1, <4>3
    <3>2. CASE t # s
      BY <1>3, <3>2 DEF ReadDir, Leave
    <3> QED
      BY <3>1, <3>2
  <2> HIDE DEF TypeOK, Ordered, Phase, EntryOrdered, RefusedInv, NotForgotten, Settled
  <2> QED
    BY <2>1, <2>2, <2>3
<1>4. ASSUME NEW s \in Sessions, SkipDir(s) PROVE SyncInv'
  BY <1>4 DEF SkipDir, Leave
<1>5. CASE StartRun
  <2>1. TypeOK'
    BY <1>5 DEF StartRun
  <2>2. Ordered' /\ Phase'
    BY <1>5 DEF StartRun
  <2>3. ASSUME NEW t \in Sessions PROVE EntryOrdered(t)' /\ RefusedInv(t)'
    BY <1>5 DEF StartRun
  <2>4. ASSUME NEW t \in Sessions PROVE NotForgotten(t)'
    BY <1>5 DEF StartRun
  <2>5. ASSUME NEW t \in Sessions PROVE Settled(t)'
    BY <1>5 DEF StartRun
  <2> HIDE DEF TypeOK, Ordered, Phase, EntryOrdered, RefusedInv, NotForgotten, Settled
  <2> QED
    BY <2>1, <2>2, <2>3, <2>4, <2>5
<1>6. CASE AddRetries
  <2>1. TypeOK'
    BY <1>6 DEF AddRetries
  <2>2. Ordered' /\ Phase'
    BY <1>6 DEF AddRetries
  <2>3. ASSUME NEW t \in Sessions PROVE EntryOrdered(t)' /\ RefusedInv(t)'
    BY <1>6 DEF AddRetries
  <2>4. ASSUME NEW t \in Sessions PROVE NotForgotten(t)'
    BY <1>6 DEF AddRetries
  <2>5. ASSUME NEW t \in Sessions PROVE Settled(t)'
    BY <1>6 DEF AddRetries
  <2> HIDE DEF TypeOK, Ordered, Phase, EntryOrdered, RefusedInv, NotForgotten, Settled
  <2> QED
    BY <2>1, <2>2, <2>3, <2>4, <2>5
<1>7. CASE BuildBatches
  <2>0. PICK bad \in SUBSET Candidates :
          /\ marker' = [marker EXCEPT !.failed = [s \in Sessions |->
                          IF s \in bad THEN Failure(s, "permanent") ELSE @[s]]]
          /\ body' = [s \in Sessions |-> IF s \in Candidates \ bad THEN updated[s] ELSE 0]
          /\ left' = [s \in Sessions |-> IF s \in bad THEN "refused" ELSE left[s]]
    BY <1>7 DEF BuildBatches
  <2>a. /\ pc = "found" /\ pc' = "sending" /\ marker = disk /\ body = NoTimes
        /\ UNCHANGED <<clock, edits, runs, updated, indexed, cloud, disk, unread, now, cands>>
    BY <1>7 DEF BuildBatches
  <2>b. \A s \in Candidates : s \in Sessions /\ cands[s] > 0 /\ Attempts(s) \in 1..MaxRuns /\ Attempts(s) <= runs
    BY <2>a DEF Candidates, Attempts
  <2>c. \A s \in bad :
          /\ Failure(s, "permanent") \in Entries /\ Failure(s, "permanent") # None
          /\ Failure(s, "permanent").cat = "permanent" /\ Failure(s, "permanent").attempts <= runs
          /\ Failure(s, "permanent").at = now /\ Failure(s, "permanent").observed = cands[s]
    BY <2>b, FailureFacts
  <2>d. /\ marker' \in [last : Times, failed : [Sessions -> Entries \cup {None}]]
        /\ marker'.last = disk.last
        /\ \A s \in Sessions : marker'.failed[s] = IF s \in bad THEN Failure(s, "permanent") ELSE disk.failed[s]
    BY <2>0, <2>a, <2>c
  <2>e. \A s \in Sessions :
          /\ body'[s] = IF cands[s] > 0 /\ s \notin bad THEN updated[s] ELSE 0
          /\ left'[s] = IF s \in bad THEN "refused" ELSE left[s]
    BY <2>0 DEF Candidates
  <2>1. TypeOK'
    BY <2>0, <2>a, <2>b, <2>c, <2>d, <2>e
  <2>2. Ordered' /\ Phase'
    BY <2>0, <2>a, <2>b, <2>c, <2>d, <2>e
  <2>3. ASSUME NEW t \in Sessions PROVE EntryOrdered(t)'
    BY <2>0, <2>a, <2>b, <2>c, <2>d, <2>e
  <2>4. ASSUME NEW t \in Sessions PROVE RefusedInv(t)'
    BY <2>0, <2>a, <2>b, <2>c, <2>d, <2>e
  <2>5. ASSUME NEW t \in Sessions PROVE NotForgotten(t)'
    BY <2>0, <2>a, <2>b, <2>c, <2>d, <2>e
  <2>6. ASSUME NEW t \in Sessions PROVE Settled(t)'
    BY <2>0, <2>a, <2>b, <2>c, <2>d, <2>e
  <2> HIDE DEF TypeOK, Ordered, Phase, EntryOrdered, RefusedInv, NotForgotten, Settled
  <2> QED
    BY <2>1, <2>2, <2>3, <2>4, <2>5, <2>6
<1>8. CASE SendBatch
  <2>0. PICK b \in Batches : \E answer \in [b -> {"accepted", "transient", "permanent", "missing"}] :
          \E last \in Latest(marker.last, Got(b, answer, "accepted")) :
          /\ marker' = [last |-> last,
                        failed |-> [s \in Sessions |->
                          CASE s \notin b \/ s \in Got(b, answer, "missing") -> marker.failed[s]
                            [] s \in Got(b, answer, "accepted") -> None
                            [] OTHER -> Rejected(s, answer[s])]]
          /\ cloud' = Stored(Got(b, answer, "accepted"))
          /\ body' = Sent(b)
          /\ left' = [s \in Sessions |->
                        IF s \in b /\ body[s] = updated[s] THEN Outcome(s, answer[s]) ELSE left[s]]
    BY <1>8 DEF SendBatch
  <2>p. PICK answer \in [b -> {"accepted", "transient", "permanent", "missing"}] :
          \E last \in Latest(marker.last, Got(b, answer, "accepted")) :
          /\ marker' = [last |-> last,
                        failed |-> [s \in Sessions |->
                          CASE s \notin b \/ s \in Got(b, answer, "missing") -> marker.failed[s]
                            [] s \in Got(b, answer, "accepted") -> None
                            [] OTHER -> Rejected(s, answer[s])]]
          /\ cloud' = Stored(Got(b, answer, "accepted"))
          /\ body' = Sent(b)
          /\ left' = [s \in Sessions |->
                        IF s \in b /\ body[s] = updated[s] THEN Outcome(s, answer[s]) ELSE left[s]]
    BY <2>0
  <2>q. PICK last \in Latest(marker.last, Got(b, answer, "accepted")) :
          /\ marker' = [last |-> last,
                        failed |-> [s \in Sessions |->
                          CASE s \notin b \/ s \in Got(b, answer, "missing") -> marker.failed[s]
                            [] s \in Got(b, answer, "accepted") -> None
                            [] OTHER -> Rejected(s, answer[s])]]
          /\ cloud' = Stored(Got(b, answer, "accepted"))
          /\ body' = Sent(b)
          /\ left' = [s \in Sessions |->
                        IF s \in b /\ body[s] = updated[s] THEN Outcome(s, answer[s]) ELSE left[s]]
    BY <2>p
  <2>a. /\ pc = "sending" /\ pc' = "sending"
        /\ UNCHANGED <<clock, edits, runs, updated, indexed, disk, unread, now, cands>>
    BY <1>8 DEF SendBatch
  <2>b. \A s \in b : /\ s \in Sessions /\ body[s] > 0 /\ marker.failed[s] = disk.failed[s]
                     /\ Attempts(s) \in 1..MaxRuns /\ Attempts(s) <= runs
                     /\ answer[s] \in {"accepted", "transient", "permanent", "missing"}
    BY <2>a DEF Batches, Loaded, Attempts
  <2>c. \A s \in b, cat \in {"transient", "permanent"} :
          /\ Rejected(s, cat) # None =>
               /\ Rejected(s, cat) \in Entries /\ Rejected(s, cat).cat = cat
               /\ Rejected(s, cat).attempts <= runs
               /\ Rejected(s, cat).at = now /\ Rejected(s, cat).observed = cands[s]
          /\ Rejected(s, cat) = None => cat = "transient"
    BY <2>b, FailureFacts DEF Rejected
  <2>d. /\ marker' \in [last : Times, failed : [Sessions -> Entries \cup {None}]]
        /\ marker'.last = last /\ last <= clock
        /\ \A s \in Sessions : Fresh(s) /\ updated[s] > marker.last => updated[s] > last
        /\ \A s \in Sessions :
             /\ s \notin b \/ answer[s] = "missing" => marker'.failed[s] = marker.failed[s]
             /\ s \in b /\ answer[s] = "accepted" => marker'.failed[s] = None
             /\ s \in b /\ answer[s] \in {"transient", "permanent"} =>
                  marker'.failed[s] = Rejected(s, answer[s])
    <3>1. last \in Times /\ last <= clock
      BY <2>b DEF Latest, Got
    <3>2. \A s \in Sessions : Fresh(s) /\ updated[s] > marker.last => updated[s] > last
      BY <2>b DEF Latest, Got
    <3>3. \A s \in Sessions :
             /\ s \notin b \/ answer[s] = "missing" => marker'.failed[s] = marker.failed[s]
             /\ s \in b /\ answer[s] = "accepted" => marker'.failed[s] = None
             /\ s \in b /\ answer[s] \in {"transient", "permanent"} =>
                  marker'.failed[s] = Rejected(s, answer[s])
      BY <2>q, <2>b DEF Got
    <3>4. \A s \in Sessions : marker'.failed[s] \in Entries \cup {None}
      BY <3>3, <2>b, <2>c
    <3> QED
      BY <2>q, <3>1, <3>2, <3>3, <3>4
  <2>e. \A s \in Sessions :
          /\ body'[s] = IF s \in b THEN 0 ELSE body[s]
          /\ cloud'[s] = IF s \in b /\ answer[s] = "accepted" THEN body[s] ELSE cloud[s]
          /\ left'[s] = IF s \in b /\ body[s] = updated[s] THEN Outcome(s, answer[s]) ELSE left[s]
    BY <2>q DEF Stored, Sent, Got
  <2>f. \A s \in b :
          /\ answer[s] = "accepted" => Outcome(s, answer[s]) = "no"
          /\ answer[s] = "missing" => Outcome(s, answer[s]) = "unanswered"
          /\ answer[s] = "permanent" => Outcome(s, answer[s]) = "refused"
          /\ answer[s] = "transient" =>
               Outcome(s, answer[s]) = IF Rejected(s, "transient") = None THEN "dropped" ELSE left[s]
    BY <2>b DEF Outcome
  <2>g. /\ cloud' \in [Sessions -> Times] /\ body' \in [Sessions -> Times]
        /\ left' \in [Sessions -> {"no", "skipped", "missed", "near", "unanswered", "dropped", "refused"}]
    <3>1. /\ cloud' = [s \in Sessions |-> cloud'[s]] /\ body' = [s \in Sessions |-> body'[s]]
          /\ left' = [s \in Sessions |-> left'[s]]
      BY <2>q DEF Stored, Sent
    <3> QED
      BY <3>1, <2>b, <2>e, <2>f, SMTT(20)
  <2>1. TypeOK'
    BY <2>a, <2>b, <2>c, <2>d, <2>e, <2>f, <2>g
  <2>2. Ordered' /\ Phase'
    BY <2>a, <2>b, <2>c, <2>d, <2>e, <2>f, <2>g
  <2>3. ASSUME NEW t \in Sessions PROVE EntryOrdered(t)'
    BY <2>a, <2>b, <2>c, <2>d, <2>e, <2>f, <2>g
  <2>4. ASSUME NEW t \in Sessions PROVE RefusedInv(t)'
    BY <2>a, <2>b, <2>c, <2>d, <2>e, <2>f, <2>g
  <2>5. ASSUME NEW t \in Sessions PROVE NotForgotten(t)'
    <3>1. Fresh(t)' <=> Fresh(t)
      BY <2>a
    <3>2. CASE t \in b /\ body[t] = updated[t]
      BY <3>2, <2>a, <2>b, <2>c, <2>d, <2>e, <2>f
    <3>3. CASE t \in b /\ body[t] # updated[t]
      <4>1. Fresh(t) /\ updated[t] > marker.last /\ updated[t] > last /\ updated[t] > disk.last
        BY <3>3, <2>a, <2>b, <2>d
      <4> QED
        BY <3>1, <3>3, <4>1, <2>a, <2>d, <2>e
    <3>4. CASE t \notin b
      BY <3>1, <3>4, <2>a, <2>d, <2>e
    <3> QED
      BY <3>2, <3>3, <3>4
  <2>6. ASSUME NEW t \in Sessions PROVE Settled(t)'
    BY <2>a, <2>b, <2>c, <2>d, <2>e, <2>f, <2>g
  <2> HIDE DEF TypeOK, Ordered, Phase, EntryOrdered, RefusedInv, NotForgotten, Settled
  <2> QED
    BY <2>1, <2>2, <2>3, <2>4, <2>5, <2>6
<1>9. CASE SendFails
  <2>1. TypeOK'
    BY <1>9 DEF SendFails, Batches, Loaded, Stored
  <2>2. Ordered' /\ Phase'
    BY <1>9 DEF SendFails, Batches, Loaded, Stored
  <2>3. ASSUME NEW t \in Sessions PROVE EntryOrdered(t)' /\ RefusedInv(t)'
    BY <1>9 DEF SendFails, Batches, Loaded, Stored
  <2>4. ASSUME NEW t \in Sessions PROVE NotForgotten(t)'
    BY <1>9 DEF SendFails, Batches, Loaded, Stored
  <2>5. ASSUME NEW t \in Sessions PROVE Settled(t)'
    BY <1>9 DEF SendFails, Batches, Loaded, Stored
  <2> HIDE DEF TypeOK, Ordered, Phase, EntryOrdered, RefusedInv, NotForgotten, Settled
  <2> QED
    BY <2>1, <2>2, <2>3, <2>4, <2>5
<1>10. CASE WriteMarker
  <2>1. TypeOK'
    BY <1>10 DEF WriteMarker, EndRun, Loaded, EmptyMarker, NoTimes
  <2>2. Ordered' /\ Phase'
    BY <1>10 DEF WriteMarker, EndRun, Loaded, EmptyMarker, NoTimes
  <2>3. ASSUME NEW t \in Sessions PROVE EntryOrdered(t)' /\ RefusedInv(t)'
    BY <1>10 DEF WriteMarker, EndRun, Loaded, EmptyMarker, NoTimes
  <2>4. ASSUME NEW t \in Sessions PROVE NotForgotten(t)'
    BY <1>10 DEF WriteMarker, EndRun, Loaded, EmptyMarker, NoTimes
  <2>5. ASSUME NEW t \in Sessions PROVE Settled(t)'
    BY <1>10 DEF WriteMarker, EndRun, Loaded, EmptyMarker, NoTimes
  <2> HIDE DEF TypeOK, Ordered, Phase, EntryOrdered, RefusedInv, NotForgotten, Settled
  <2> QED
    BY <2>1, <2>2, <2>3, <2>4, <2>5
<1>11. CASE Abandon
  BY <1>11 DEF Abandon, EndRun, EmptyMarker, NoTimes
<1>12. CASE UNCHANGED vars
  BY <1>12 DEF vars
<1> QED
  BY <1>1, <1>2, <1>3, <1>4, <1>5, <1>6, <1>7, <1>8, <1>9, <1>10, <1>11, <1>12 DEF Next

(* The types of SessionSync's state.                                         *)
THEOREM SyncTypeCorrect == Spec => []TypeOK
<1>1. SyncInv => TypeOK
  BY DEF SyncInv
<1> QED
  BY <1>1, SyncInit, SyncStep, PTL DEF Spec

(* The watermark passes no session the Cloud lacks, for any number of        *)
(* sessions, runs and failures, unless it was left out for one of the        *)
(* reasons the model records; one of them is a text that sorts before the    *)
(* watermark's, which only a session less than a second past it (with the    *)
(* offset of the zone) can have.                                             *)
THEOREM SyncForgetsNothing == Spec => []ForgottenOnlyIfLeft
<1>1. SyncInv => ForgottenOnlyIfLeft
  BY DEF SyncInv, TypeOK, NotForgotten, Behind, Transient, ForgottenOnlyIfLeft, Remembered
<1> QED
  BY <1>1, SyncInit, SyncStep, PTL DEF Spec

(* A failed session's entry leaves the marker for one of three reasons only. *)
THEOREM SyncSettlesFailures == Spec => FailuresSettle
<1> DEFINE Settles == \A s \in Sessions : disk.failed[s] # None /\ disk'.failed[s] = None =>
                         \/ cloud[s] = updated[s]
                         \/ left'[s] = "dropped"
                         \/ updated[s] > disk'.last
<1>1. SyncInv /\ [Next]_vars => [Settles]_vars
  <2> SUFFICES ASSUME SyncInv, Next PROVE Settles
    BY DEF vars
  <2>1. CASE UNCHANGED disk
    BY <2>1
  <2>2. CASE WriteMarker
    <3> SUFFICES ASSUME NEW s \in Sessions, disk.failed[s] # None, marker.failed[s] = None
                 PROVE  \/ cloud[s] = updated[s]
                        \/ left'[s] = "dropped"
                        \/ updated[s] > marker.last
      BY <2>2 DEF WriteMarker
    <3>1. left'[s] = left[s] /\ pc = "sending"
      BY <2>2 DEF WriteMarker, Is
    <3> QED
      BY <3>1 DEF SyncInv, Settled
  <2> QED
    BY <2>1, <2>2 DEF Next, Edit, UpsertSession, ReadDir, SkipDir, StartRun, AddRetries,
       BuildBatches, SendBatch, SendFails, Abandon
<1> QED
  BY <1>1, SyncInit, SyncStep, PTL DEF Spec, FailuresSettle

-----------------------------------------------------------------------------
(* What a run has asked for so far, it has, or it is known why not.  A       *)
(* session left alone after its failure is in the index as it was edited     *)
(* last, so no save can turn it into one that should have been listed.       *)
Listed(s) ==
  /\ pc \in {"scanning", "found"} /\ s \notin unread
  /\ updated[s] > disk.last /\ updated[s] < now
  => \/ cands[s] > 0
     \/ NoChurn(s) /\ indexed[s] = updated[s]
     \/ left[s] \in {"skipped", "missed", "refused"}
     \/ left[s] = "near" /\ Near(s)

ListInv == \A s \in Sessions : Listed(s)

(* Every step keeps it: an edit made during the run is later than its start. *)
LEMMA ListStep ==
  ASSUME SyncInv, ListInv, [Next]_vars
  PROVE  ListInv'
<1> SUFFICES ASSUME NEW s \in Sessions PROVE Listed(s)'
  BY DEF ListInv
<1>0. /\ TypeOK /\ Ordered /\ EntryOrdered(s) /\ Listed(s)
  BY DEF SyncInv, ListInv
<1>1. ASSUME NEW t \in Sessions, Edit(t) PROVE Listed(s)'
  <2>1. now <= clock /\ clock \in Times /\ now \in Times
    BY <1>0 DEF TypeOK, Ordered
  <2>2. CASE s = t
    <3>1. updated'[s] = clock + 1 /\ now' = now
      BY <1>0, <1>1, <2>2 DEF Edit, TypeOK
    <3> QED
      BY <2>1, <3>1 DEF Listed, Times, MaxTime
  <2>3. CASE s # t
    BY <1>0, <1>1, <2>3 DEF Edit, Listed, NoChurn, Near, TypeOK
  <2> QED
    BY <2>2, <2>3
<1>2. ASSUME NEW t \in Sessions, UpsertSession(t) PROVE Listed(s)'
  BY <1>0, <1>2 DEF UpsertSession, Listed, NoChurn, Near, TypeOK
<1>3. ASSUME NEW t \in Sessions, ReadDir(t) PROVE Listed(s)'
  <2>1. CASE s = t
    <3>1. UNCHANGED <<pc, now, updated, indexed, disk>>
      BY <1>3, <2>1 DEF ReadDir
    <3>2. (NoChurn(s)' <=> NoChurn(s)) /\ (Near(s)' <=> Near(s))
      BY <3>1 DEF NoChurn, Near
    <3> QED
      BY <1>0, <1>3, <2>1, <3>1, <3>2, ReadDirLists DEF Listed
  <2>2. CASE s # t
    BY <1>0, <1>3, <2>2 DEF ReadDir, Leave, Listed, NoChurn, Near, TypeOK
  <2> QED
    BY <2>1, <2>2
<1>4. ASSUME NEW t \in Sessions, SkipDir(t) PROVE Listed(s)'
  BY <1>0, <1>4 DEF SkipDir, Leave, Listed, NoChurn, Near, TypeOK
<1>5. CASE StartRun
  BY <1>5 DEF StartRun, Listed
<1>6. CASE AddRetries
  <2>1. PICK due \in SUBSET {u \in Sessions : cands[u] = 0 /\ Is(disk.failed[u], "transient")} :
          /\ cands' = [u \in Sessions |-> IF u \in due THEN disk.failed[u].at ELSE cands[u]]
          /\ left' = [u \in Sessions |-> IF u \in due /\ left[u] \in {"skipped", "near"} THEN "no" ELSE left[u]]
    BY <1>6 DEF AddRetries
  <2>2. pc = "scanning" /\ UNCHANGED <<unread, now, updated, indexed, disk>>
    BY <1>6 DEF AddRetries
  <2>3. CASE s \in due
    <3>1. disk.failed[s] # None
      BY <2>3 DEF Is
    <3>2. cands'[s] = disk.failed[s].at /\ 0 < disk.failed[s].at
      BY <1>0, <2>1, <2>3, <3>1 DEF EntryOrdered
    <3> QED
      BY <3>2 DEF Listed
  <2>4. CASE s \notin due
    BY <1>0, <2>1, <2>2, <2>4 DEF Listed, NoChurn, Near
  <2> QED
    BY <2>3, <2>4
<1>7. CASE BuildBatches \/ SendBatch \/ SendFails
  BY <1>7 DEF BuildBatches, SendBatch, SendFails, Listed
<1>8. CASE WriteMarker \/ Abandon
  BY <1>8 DEF WriteMarker, Abandon, EndRun, Listed
<1>9. CASE UNCHANGED vars
  BY <1>0, <1>9 DEF vars, Listed, NoChurn, Near
<1> QED
  BY <1>1, <1>2, <1>3, <1>4, <1>5, <1>6, <1>7, <1>8, <1>9 DEF Next

(* A run's candidates include every session saved before it and past the     *)
(* watermark that was not left out for a reason the model records, in any    *)
(* zone (DiscoverCandidates, ListUpdatedSince).                              *)
THEOREM SyncListsChanges == Spec => []ListsWhatChanged
<1>1. Init => ListInv
  BY DEF Init, ListInv, Listed
<1>2. SyncInv /\ ListInv => ListsWhatChanged
  BY DEF SyncInv, TypeOK, ListInv, Listed, ListsWhatChanged, ToList
<1>3. SyncInv /\ ListInv /\ [Next]_vars => (SyncInv /\ ListInv)'
  BY SyncStep, ListStep
<1> QED
  BY <1>1, <1>2, <1>3, SyncInit, PTL DEF Spec

=============================================================================

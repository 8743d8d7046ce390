------------------------------ MODULE SessionSync ------------------------------
(***************************************************************************)
(* The upload of changed sessions to the Cloud (internal/sync).  A run     *)
(* takes the lock, reads the marker, asks one session directory's index    *)
(* after the other what changed after the marker's watermark, adds the     *)
(* failed sessions that are due again, loads them, sends them in batches   *)
(* and writes the marker once, at its end.  Users go on editing sessions   *)
(* all the while.                                                          *)
(*                                                                         *)
(* Times are the ticks of one clock, which every edit and every run        *)
(* advances.  A session's version is the time of its last edit.  The index *)
(* keeps it as text in the zone of the machine and the scan compares that  *)
(* text with the watermark's in UTC (TextAfter).  Every session is in a    *)
(* directory of its own: sessions of one directory are read by one query,  *)
(* which is the case with no edit in between.                              *)
(***************************************************************************)
EXTENDS Integers, FiniteSets

CONSTANTS
  Sessions,
  None,
  BatchMaxSessions,
  AttemptsCap,  \* FailedMaxAttemptsTransient
  BehindUTC,  \* how far local time is behind UTC, in ticks
  Second,     \* the ticks of a second
  Places,     \* the units a time can be whole in, from a tick to a second
  MaxEdits, MaxRuns  \* bounds on the edits and on the runs

MaxTime == MaxEdits + MaxRuns
Times == 0..MaxTime

(* A failed session in the marker, and the marker.                          *)
Entries == [cat : {"transient", "permanent"}, attempts : 1..MaxRuns,
            at : Times, observed : Times]
Markers == [last : Times, failed : [Sessions -> Entries \cup {None}]]

ASSUME SyncConstants ==
  /\ BatchMaxSessions \in Nat \ {0} /\ AttemptsCap \in Nat \ {0}
  /\ BehindUTC \in Int
  /\ Second \in Nat \ {0} /\ Second \in Places /\ Places \subseteq 1..Second
  /\ MaxEdits \in Nat /\ MaxRuns \in Nat
  /\ None \notin Entries

VARIABLES
  clock, edits, runs,
  updated,  \* each session's UpdatedAt, 0 before it exists
  indexed,  \* the version of it in its directory's index
  cloud,    \* the version of it the Cloud has stored
  disk,     \* the marker file
  pc,       \* the run: "idle", "scanning", "found", "sending"
  unread,   \* the directories it has still to ask
  now,      \* the time the run started
  marker,   \* its marker
  cands,    \* its candidates, by the UpdatedAt they were found with
  body,     \* the version loaded of each session still to be sent, 0 when none
  left      \* why a changed session may be left out from now on, or "no"

vars == <<clock, edits, runs, updated, indexed, cloud, disk, pc, unread, now, marker,
          cands, body, left>>

TypeOK ==
  /\ clock \in Times /\ edits \in 0..MaxEdits /\ runs \in 0..MaxRuns
  /\ updated \in [Sessions -> Times]
  /\ indexed \in [Sessions -> Times] /\ \A s \in Sessions : indexed[s] <= updated[s]
  /\ cloud \in [Sessions -> Times] /\ \A s \in Sessions : cloud[s] <= updated[s]
  /\ disk \in Markers /\ marker \in Markers
  /\ pc \in {"idle", "scanning", "found", "sending"}
  /\ unread \subseteq Sessions /\ (unread # {} => pc = "scanning")
  /\ now \in Times
  /\ cands \in [Sessions -> Times] /\ body \in [Sessions -> Times]
  /\ left \in [Sessions -> {"no", "skipped", "missed", "near", "unanswered", "dropped", "refused"}]

NoTimes == [s \in Sessions |-> 0]
EmptyMarker == [last |-> 0, failed |-> [s \in Sessions |-> None]]

Init ==
  /\ clock = 0 /\ edits = 0 /\ runs = 0
  /\ updated = NoTimes /\ indexed = NoTimes /\ cloud = NoTimes
  /\ disk = EmptyMarker /\ marker = EmptyMarker
  /\ pc = "idle" /\ unread = {} /\ now = 0 /\ cands = NoTimes /\ body = NoTimes
  /\ left = [s \in Sessions |-> "no"]

Is(e, cat) == e # None /\ e.cat = cat

-----------------------------------------------------------------------------

Edit(s) ==
  /\ edits < MaxEdits /\ edits' = edits + 1
  /\ clock' = clock + 1
  /\ updated' = [updated EXCEPT ![s] = clock + 1]
  /\ left' = [left EXCEPT ![s] = IF unread # {} /\ s \notin unread THEN "missed" ELSE "no"]
  /\ UNCHANGED <<runs, indexed, cloud, disk, pc, unread, now, marker, cands, body>>

(* The end of the save, which may fail: the session stays as it was indexed *)
(* before.                                                                  *)
UpsertSession(s) ==
  /\ indexed[s] # updated[s]
  /\ indexed' = [indexed EXCEPT ![s] = updated[s]]
  /\ UNCHANGED <<clock, edits, runs, updated, cloud, disk, pc, unread, now, marker,
                 cands, body, left>>

StartRun ==
  /\ pc = "idle" /\ runs < MaxRuns
  /\ runs' = runs + 1 /\ clock' = clock + 1 /\ now' = clock + 1
  /\ marker' = disk
  /\ pc' = "scanning" /\ unread' = Sessions
  /\ UNCHANGED <<edits, updated, indexed, cloud, disk, cands, body, left>>

(* Mutant: the watermark is rounded up to a coarser unit.                   *)
ChangedCoarsely(s) == indexed[s] > 0 /\ (disk.last = 0 \/ indexed[s] > disk.last + Second)

(* The text of time a ends where that of b goes on, with more digits of the *)
(* fraction of the second: RFC3339Nano drops the zeros at its end.          *)
EndsIn(a, b) == \E u \in Places : a % u = 0 /\ a < b /\ b < a + u

(* The text of local time a, in the index, sorts after that of UTC time b.  *)
(* Where one ends in the other, "Z" sorts after the "." or the digit that   *)
(* the other goes on with, and the sign of a zone's offset before it.       *)
TextAfter(a, b) ==
  LET local == a - BehindUTC IN
    \/ local > b /\ ~EndsIn(b, local)
    \/ BehindUTC = 0 /\ EndsIn(local, b)

(* ListUpdatedSince; the zero time sorts before every other.                *)
Changed(s) == indexed[s] > 0 /\ (disk.last = 0 \/ TextAfter(indexed[s], disk.last))

(* In the text of the index session s is less than a second past the        *)
(* watermark, so that it may sort before it.                                *)
Near(s) == updated[s] - BehindUTC < disk.last + Second

(* Permanent failures are left alone until the session is edited.           *)
NoChurn(s) == Is(disk.failed[s], "permanent") /\ indexed[s] <= disk.failed[s].observed

Leave(s, why) == left' = [left EXCEPT ![s] = IF updated[s] > disk.last /\ @ # "refused" THEN why ELSE @]

ReadDir(s) ==
  /\ s \in unread
  /\ unread' = unread \ {s}
  /\ cands' = [cands EXCEPT ![s] = IF Changed(s) /\ ~NoChurn(s) THEN indexed[s] ELSE 0]
  /\ Leave(s, CASE indexed[s] # updated[s] -> "missed"
                [] indexed[s] = updated[s] /\ ~Changed(s) /\ Near(s) -> "near"
                [] OTHER -> "no")
  /\ UNCHANGED <<clock, edits, runs, updated, indexed, cloud, disk, pc, now, marker, body>>

(* The directory's index cannot be opened or queried.                       *)
SkipDir(s) ==
  /\ s \in unread
  /\ unread' = unread \ {s}
  /\ Leave(s, "skipped")
  /\ UNCHANGED <<clock, edits, runs, updated, indexed, cloud, disk, pc, now, marker, cands, body>>

(* Which retries are due is up to the backoff.  A retry finds its session's *)
(* file by name, whatever its directory's index said.                       *)
AddRetries ==
  /\ pc = "scanning" /\ unread = {}
  /\ \E due \in SUBSET {s \in Sessions : cands[s] = 0 /\ Is(disk.failed[s], "transient")} :
       /\ cands' = [s \in Sessions |-> IF s \in due THEN disk.failed[s].at ELSE cands[s]]
       /\ left' = [s \in Sessions |-> 
                     IF s \in due /\ left[s] \in {"skipped", "near"} THEN "no" ELSE left[s]]
  /\ pc' = "found"
  /\ UNCHANGED <<clock, edits, runs, updated, indexed, cloud, disk, unread, now, marker, body>>

Candidates == {s \in Sessions : cands[s] > 0}

(* Mutant: an attempt is counted when it is made and when it fails.         *)
AttemptsTwice(s) == IF marker.failed[s] = None THEN 2 ELSE marker.failed[s].attempts + 2

Attempts(s) == IF marker.failed[s] = None THEN 1 ELSE marker.failed[s].attempts + 1
Failure(s, cat) == [cat |-> cat, attempts |-> Attempts(s), at |-> now, observed |-> cands[s]]

(* All candidates are loaded before anything is sent; those that cannot be  *)
(* loaded or are too large become permanent failures (recordFailed).        *)
BuildBatches ==
  /\ pc = "found"
  /\ \E bad \in SUBSET Candidates :
       /\ marker' = [marker EXCEPT !.failed = [s \in Sessions |->
                       IF s \in bad THEN Failure(s, "permanent") ELSE @[s]]]
       /\ body' = [s \in Sessions |-> IF s \in Candidates \ bad THEN updated[s] ELSE 0]
       /\ left' = [s \in Sessions |-> IF s \in bad THEN "refused" ELSE left[s]]
  /\ pc' = "sending"
  /\ UNCHANGED <<clock, edits, runs, updated, indexed, cloud, disk, unread, now, cands>>

Loaded == {s \in Sessions : body[s] > 0}

(* Candidates come out of a map, so a batch is any of those still loaded.   *)
Batches == {b \in SUBSET Loaded : b # {} /\ Cardinality(b) <= BatchMaxSessions}

(* Mutant: the watermark moves to the time of the answer.                   *)
LatestIsClock(t, S) == {IF S = {} THEN t ELSE clock}

(* The later of t and the newest of S, as a set.                            *)
Latest(t, S) == LET U == {t} \cup {cands[s] : s \in S} IN
                {m \in U : \A u \in U : u <= m}

(* Mutant: the cap drops permanent failures too.                            *)
RejectedCapsAll(s, cat) == IF Attempts(s) >= AttemptsCap THEN None ELSE Failure(s, cat)

(* recordRejection: a transient failure is dropped at the cap.              *)
Rejected(s, cat) ==
  IF cat = "transient" /\ Attempts(s) >= AttemptsCap THEN None ELSE Failure(s, cat)

Stored(S) == [s \in Sessions |-> IF s \in S THEN body[s] ELSE cloud[s]]
Sent(b) == [s \in Sessions |-> IF s \in b THEN 0 ELSE body[s]]

Outcome(s, answer) ==
  CASE answer = "accepted" -> "no"
    [] answer = "missing" -> "unanswered"
    [] answer = "permanent" -> "refused"
    [] answer = "transient" -> IF Rejected(s, answer) = None THEN "dropped" ELSE left[s]

(* The sessions of the batch that got answer a.                             *)
Got(b, answer, a) == {s \in b : answer[s] = a}

(* The Cloud answers; it may leave sessions of the batch out.               *)
SendBatch ==
  /\ pc = "sending"
  /\ \E b \in Batches : \E answer \in [b -> {"accepted", "transient", "permanent", "missing"}] :
       \E last \in Latest(marker.last, Got(b, answer, "accepted")) :
       /\ marker' =
            [last |-> last,
             failed |-> [s \in Sessions |->
                CASE s \notin b \/ s \in Got(b, answer, "missing") -> marker.failed[s]
                  [] s \in Got(b, answer, "accepted") -> None
                  [] OTHER -> Rejected(s, answer[s])]]
       /\ cloud' = Stored(Got(b, answer, "accepted"))
       /\ body' = Sent(b)
       /\ left' = [s \in Sessions |->
                     IF s \in b /\ body[s] = updated[s] THEN Outcome(s, answer[s]) ELSE left[s]]
  /\ UNCHANGED <<clock, edits, runs, updated, indexed, disk, pc, unread, now, cands>>

(* A transport error stops the run; what the Cloud had received of the      *)
(* batch it may have stored.                                                *)
SendFails ==
  /\ pc = "sending"
  /\ \E b \in Batches : cloud' \in {cloud, Stored(b)}
  /\ left' = [s \in Sessions |-> IF s \in Loaded /\ body[s] = updated[s] THEN "unanswered" ELSE left[s]]
  /\ body' = NoTimes
  /\ UNCHANGED <<clock, edits, runs, updated, indexed, disk, pc, unread, now, marker, cands>>

EndRun ==
  /\ pc' = "idle" /\ unread' = {} /\ now' = 0
  /\ cands' = NoTimes /\ body' = NoTimes

(* The sessions with a transient failure in it come back by that.           *)
WriteMarker ==
  /\ pc = "sending" /\ Loaded = {}
  /\ disk' = marker
  /\ left' = [s \in Sessions |-> IF Is(marker.failed[s], "transient") THEN "no" ELSE left[s]]
  /\ marker' = EmptyMarker
  /\ EndRun
  /\ UNCHANGED <<clock, edits, runs, updated, indexed, cloud>>

(* An error before the marker is written, or a crash: the file stays as it  *)
(* was.                                                                     *)
Abandon ==
  /\ pc # "idle"
  /\ marker' = EmptyMarker
  /\ EndRun
  /\ UNCHANGED <<clock, edits, runs, updated, indexed, cloud, disk, left>>

Next ==
  \/ \E s \in Sessions : Edit(s) \/ UpsertSession(s) \/ ReadDir(s) \/ SkipDir(s)
  \/ StartRun \/ AddRetries \/ BuildBatches
  \/ SendBatch \/ SendFails
  \/ WriteMarker \/ Abandon

Spec == Init /\ [][Next]_vars

-----------------------------------------------------------------------------
(* Properties                                                              *)

(* The next runs may see session s: it is above the watermark, or a failure  *)
(* that is retried.                                                         *)
Remembered(s) == updated[s] > disk.last \/ Is(disk.failed[s], "transient")

(* A session the Cloud does not have is not forgotten, unless it was turned *)
(* down for good or at the cap, a run skipped its directory or left it      *)
(* without an answer, its last edit was not in the index when its directory *)
(* was read and another's was still to be, or its text in the index sorted  *)
(* before the watermark it was less than a second past ("near", with the    *)
(* offset of the zone).  No other order of edits, rejections, crashes and   *)
(* lost answers makes the watermark pass it (Run, recordRejection,          *)
(* DiscoverCandidates).                                                     *)
ForgottenOnlyIfLeft ==
  \A s \in Sessions : cloud[s] < updated[s] => Remembered(s) \/ left[s] # "no"

(* The entry of a failed session goes only when the Cloud has its latest    *)
(* version, the cap was reached, or it was edited after the watermark; a    *)
(* run cut short takes no entry with it (recordRejection,                   *)
(* WriteMarkerAtomic).                                                      *)
FailuresSettle ==
  [][\A s \in Sessions : disk.failed[s] # None /\ disk'.failed[s] = None =>
       \/ cloud[s] = updated[s]
       \/ left'[s] = "dropped"
       \/ updated[s] > disk'.last]_vars

(* The sessions saved before the run and past the watermark, but for those  *)
(* in a skipped directory, those turned down for good and those indexed too *)
(* late.                                                                    *)
ToList == {s \in Sessions : /\ updated[s] > disk.last /\ updated[s] < now
                            /\ ~NoChurn(s)
                            /\ left[s] \notin {"skipped", "missed", "refused"}}

(* The candidates of a run include every one of them, except one whose text *)
(* is less than a second past the watermark's (DiscoverCandidates,          *)
(* ListUpdatedSince).                                                       *)
ListsWhatChanged ==
  pc = "found" => \A s \in ToList : cands[s] > 0 \/ (left[s] = "near" /\ Near(s))

(* Those too: "ListUpdatedSince returns all sessions whose updated_at       *)
(* strictly exceeds after" (index.go:672).  The code does not keep this.    *)
ListsStrictlyAfter == pc = "found" => \A s \in ToList : cands[s] > 0

=============================================================================

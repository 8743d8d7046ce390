-------------------------------- MODULE EventBus --------------------------------
(***************************************************************************)
(* The daemon's event bus (internal/daemon/events.go) with its two         *)
(* histories: the replay ring that a reconnecting SSE client is served     *)
(* from, and the notification ring, whose log (notif_store.go) outlives    *)
(* the process and which clients poll with a cursor.                       *)
(*                                                                         *)
(* Every operation of the bus holds its mutex, so each is one action; the  *)
(* clients' connections run beside them.  An event is known by its place   *)
(* in emitted, since an id may be given out again after a restart.         *)
(***************************************************************************)
EXTENDS Integers, Sequences, FiniteSets

CONSTANTS
  Clients,
  RingSize,      \* ringSize
  NotifSize,     \* notifRingSize
  BufSize,       \* the buffer of a subscriber's channel
  CompactEvery,  \* notifCompactEvery
  MaxEvents,     \* bound on the events
  MaxRestarts,   \* bound on the restarts
  MaxTears       \* bound on the log writes that fail or are cut short

ASSUME SizesArePositive ==
  /\ RingSize \in Nat \ {0} /\ NotifSize \in Nat \ {0} /\ BufSize \in Nat \ {0}
  /\ CompactEvery \in Nat \ {0}
  /\ MaxEvents \in Nat /\ MaxRestarts \in Nat /\ MaxTears \in Nat

VARIABLES
  emitted,     \* every event so far: id, type, process life, where it was kept
  nextID,
  ring,        \* the replay ring, oldest first
  notif,       \* the notification ring, oldest first
  file,        \* the readable lines of the log, oldest first
  tail,        \* how the log ends: "closed", "garbage" or a line "bare" of its newline
  appendCount,
  conn,        \* the connected clients
  pend,        \* the replay still to be written to each client
  ch,          \* each subscriber's channel
  last,        \* the last event each client received, 0 before the first
  excused,     \* later events a client may miss: dropped on a full buffer, or out of the ring
  cursor,      \* the poller's next_cursor
  polled,      \* the notifications it was given
  asOf,        \* how many events there were when it last asked
  restarts, tears

sse == <<conn, pend, ch, last, excused>>
log == <<file, tail, appendCount, tears>>
poller == <<cursor, polled, asOf>>
vars == <<emitted, nextID, ring, notif, sse, log, poller, restarts>>

(* A banner is EventNotification, a notice EventApprovalNotice; an alert is *)
(* any other type of isNotificationType; the rest is plain.                 *)
Types == {"banner", "notice", "alert", "plain"}
IsNotification(t) == t \in {"banner", "alert"}
Numbers == 1..MaxEvents

TypeOK ==
  /\ emitted \in Seq([id : Numbers, type : Types, life : 0..MaxRestarts,
                      ringed : BOOLEAN, retained : BOOLEAN])
  /\ nextID \in 0..Len(emitted)
  /\ ring \in Seq(Numbers) /\ Len(ring) <= RingSize
  /\ notif \in Seq(Numbers) /\ Len(notif) <= NotifSize
  /\ file \in Seq(Numbers)
  /\ tail \in {"closed", "garbage", "bare"}
  /\ appendCount \in 0..(CompactEvery - 1)
  /\ conn \subseteq Clients
  /\ pend \in [Clients -> Seq(Numbers)]
  /\ ch \in [Clients -> Seq(Numbers)] /\ \A c \in Clients : Len(ch[c]) <= BufSize
  /\ last \in [Clients -> 0..MaxEvents]
  /\ excused \in [Clients -> SUBSET Numbers]
  /\ cursor \in 0..MaxEvents /\ asOf \in 0..Len(emitted)
  /\ polled \in Seq(Numbers)
  /\ restarts \in 0..MaxRestarts /\ tears \in 0..MaxTears

Init ==
  /\ emitted = <<>> /\ nextID = 0 /\ ring = <<>> /\ notif = <<>>
  /\ file = <<>> /\ tail = "closed" /\ appendCount = 0
  /\ conn = {} /\ pend = [c \in Clients |-> <<>>] /\ ch = [c \in Clients |-> <<>>]
  /\ last = [c \in Clients |-> 0] /\ excused = [c \in Clients |-> {}]
  /\ cursor = 0 /\ polled = <<>> /\ asOf = 0
  /\ restarts = 0 /\ tears = 0

-----------------------------------------------------------------------------

(* Mutants: a ring one larger than it should be, and a cut at the wrong end. *)
NewestAndOne(s, k) == IF Len(s) <= k + 1 THEN s ELSE SubSeq(s, Len(s) - k, Len(s))
Oldest(s, k) == IF Len(s) <= k THEN s ELSE SubSeq(s, 1, k)

Newest(s, k) == IF Len(s) <= k THEN s ELSE SubSeq(s, Len(s) - k + 1, Len(s))
Elements(s) == {s[i] : i \in DOMAIN s}
ID(n) == emitted[n].id

(* The loop that copies the members of S, in their order; with it, the      *)
(* events a client has not seen.                                            *)
Kept(s, S) ==
  LET out[i \in 0..Len(s)] ==
        IF i = 0 THEN <<>>
        ELSE IF s[i] \in S THEN Append(out[i - 1], s[i]) ELSE out[i - 1]
  IN out[Len(s)]

Above(id, s) == Kept(s, {n \in DOMAIN emitted : ID(n) > id})

(* The line of event n reaches the log.  A tail without its newline         *)
(* swallows it.  Every CompactEvery appends the log is cut to its newest    *)
(* NotifSize readable lines, and rewritten if that drops any; a rewrite     *)
(* that fails leaves it as it is.                                           *)
Lines(n) ==
  IF tail = "closed" THEN Append(file, n)
  ELSE IF tail = "bare" THEN SubSeq(file, 1, Len(file) - 1)
  ELSE file

AppendLine(n) ==
  /\ tail' = "closed"
  /\ appendCount' = (appendCount + 1) % CompactEvery
  /\ file' \in {Lines(n)} \cup (IF appendCount' = 0 THEN {Newest(Lines(n), NotifSize)} ELSE {})
  /\ UNCHANGED tears

(* The write fails, wholly, in the middle of the line, or at its newline.   *)
AppendTorn(n) ==
  /\ tears < MaxTears /\ tears' = tears + 1
  /\ \/ UNCHANGED <<file, tail>>
     \/ /\ tail' = "garbage"
        /\ file' = IF tail = "bare" THEN Lines(n) ELSE file
     \/ /\ tail = "closed" /\ tail' = "bare"
        /\ file' = Append(file, n)
  /\ UNCHANGED appendCount

Room == {c \in conn : Len(ch[c]) < BufSize}

(* The send to every subscriber with room, the notification ring and its    *)
(* log, then the replay ring: a banner or a notice nobody received stays    *)
(* out of both rings.                                                       *)
EmitTo(t) ==
  /\ Len(emitted) < MaxEvents
  /\ LET n == Len(emitted) + 1
         delivered == Room # {}
         retained == IsNotification(t) /\ (t # "banner" \/ delivered)
         ringed == t \notin {"banner", "notice"} \/ delivered
     IN
     /\ nextID' = nextID + 1
     /\ emitted' = Append(emitted, [id |-> nextID + 1, type |-> t, life |-> restarts,
                                    ringed |-> ringed, retained |-> retained])
     /\ ch' = [c \in Clients |-> IF c \in Room THEN Append(ch[c], n) ELSE ch[c]]
     /\ excused' = [c \in Clients |-> IF c \in conn \ Room THEN excused[c] \cup {n}
                                      ELSE excused[c]]
     /\ notif' = IF retained THEN Newest(Append(notif, n), NotifSize) ELSE notif
     /\ IF retained THEN AppendLine(n) \/ AppendTorn(n) ELSE UNCHANGED log
     /\ ring' = IF ringed THEN Newest(Append(ring, n), RingSize) ELSE ring
  /\ UNCHANGED <<conn, pend, last, poller, restarts>>

(* Mutants: the replay starts at the event the client has, or stops one     *)
(* short of the newest.                                                     *)
MissedInclusive(c) == IF last[c] = 0 THEN <<>> ELSE Above(ID(last[c]) - 1, ring)
MissedButNewest(c) ==
  IF last[c] = 0 \/ ID(last[c]) >= nextID \/ ring = <<>> THEN <<>>
  ELSE Above(ID(last[c]), SubSeq(ring, 1, Len(ring) - 1))

(* handleEvents: a client that has received an event names its id and gets  *)
(* the ring above it; one that has none is only subscribed.                 *)
Missed(c) == IF last[c] = 0 \/ ID(last[c]) >= nextID THEN <<>> ELSE Above(ID(last[c]), ring)

SubscribeWithReplay(c) ==
  /\ c \notin conn
  /\ conn' = conn \cup {c}
  /\ pend' = [pend EXCEPT ![c] = Missed(c)]
  /\ ch' = [ch EXCEPT ![c] = <<>>]
  /\ excused' = [excused EXCEPT ![c] = @ \cup ((last[c] + 1) .. Len(emitted) \ Elements(ring))]
  /\ UNCHANGED <<emitted, nextID, ring, notif, last, log, poller, restarts>>

(* The connection writes the replay first, then what is on the channel.     *)
Receive(c) ==
  /\ c \in conn
  /\ \/ /\ pend[c] # <<>>
        /\ last' = [last EXCEPT ![c] = Head(pend[c])]
        /\ pend' = [pend EXCEPT ![c] = Tail(@)]
        /\ UNCHANGED ch
     \/ /\ pend[c] = <<>> /\ ch[c] # <<>>
        /\ last' = [last EXCEPT ![c] = Head(ch[c])]
        /\ ch' = [ch EXCEPT ![c] = Tail(@)]
        /\ UNCHANGED pend
  /\ excused' = [excused EXCEPT ![c] = {n \in @ : n > last'[c]}]
  /\ UNCHANGED <<emitted, nextID, ring, notif, conn, log, poller, restarts>>

(* The connection breaks: what it had not written is gone with it.          *)
Unsubscribe(c) ==
  /\ c \in conn
  /\ conn' = conn \ {c}
  /\ pend' = [pend EXCEPT ![c] = <<>>]
  /\ ch' = [ch EXCEPT ![c] = <<>>]
  /\ UNCHANGED <<emitted, nextID, ring, notif, last, excused, log, poller, restarts>>

(* GET /notifications?since=cursor.                                         *)
Notifications ==
  LET events == Above(cursor, notif) IN
  /\ cursor' = IF events = <<>> THEN cursor ELSE ID(events[Len(events)])
  /\ polled' = polled \o events
  /\ asOf' = Len(emitted)
  /\ UNCHANGED <<emitted, nextID, ring, notif, sse, log, restarts>>

(* The process ends and starts again: the rings and the channels are gone,  *)
(* the log is loaded, cut and, if that dropped lines, rewritten, which may  *)
(* fail; the ids go on from the highest loaded.                             *)
Highest(s) == IF s = <<>> THEN 0
              ELSE CHOOSE i \in {ID(n) : n \in Elements(s)} : \A n \in Elements(s) : ID(n) <= i

(* Mutant: the ids start again from one.                                    *)
RestoreWithoutIDs ==
  /\ restarts < MaxRestarts /\ restarts' = restarts + 1
  /\ notif' = Newest(file, NotifSize)
  /\ \/ file' = notif' /\ tail' = IF Len(file) > NotifSize THEN "closed" ELSE tail
     \/ UNCHANGED <<file, tail>>
  /\ nextID' = 0
  /\ ring' = <<>> /\ appendCount' = 0
  /\ conn' = {} /\ pend' = [c \in Clients |-> <<>>] /\ ch' = [c \in Clients |-> <<>>]
  /\ UNCHANGED <<emitted, last, excused, poller, tears>>

RestoreNotifications ==
  /\ restarts < MaxRestarts /\ restarts' = restarts + 1
  /\ notif' = Newest(file, NotifSize)
  /\ \/ file' = notif' /\ tail' = IF Len(file) > NotifSize THEN "closed" ELSE tail
     \/ UNCHANGED <<file, tail>>
  /\ nextID' = Highest(notif')
  /\ ring' = <<>> /\ appendCount' = 0
  /\ conn' = {} /\ pend' = [c \in Clients |-> <<>>] /\ ch' = [c \in Clients |-> <<>>]
  /\ UNCHANGED <<emitted, last, excused, poller, tears>>

Next ==
  \/ \E t \in Types : EmitTo(t)
  \/ \E c \in Clients : SubscribeWithReplay(c) \/ Receive(c) \/ Unsubscribe(c)
  \/ Notifications
  \/ RestoreNotifications

Spec == Init /\ [][Next]_vars

-----------------------------------------------------------------------------
(* Properties                                                              *)

(* Whatever the drops, breaks and replays in between, a client receives     *)
(* every event at most once and in the order they were emitted: what is on  *)
(* its way, replay before channel, is in order and all after the last event *)
(* it has (SubscribeWithReplay registers and takes the ring in one critical *)
(* section).                                                                *)
OnceInOrder ==
  \A c \in Clients :
    LET coming == <<last[c]>> \o pend[c] \o ch[c] IN
    \A i, j \in DOMAIN coming : i < j => coming[i] < coming[j]

(* When a client receives an event, it has received everything put in the   *)
(* ring since the one before, within one life of the daemon, except what    *)
(* its own full buffer dropped and what the ring had lost when it came back *)
(* (EmitTo, SubscribeWithReplay).                                           *)
NoSilentGap ==
  [][\A c \in Clients : last[c] > 0 /\ last'[c] # last[c] =>
       \A n \in (last[c] + 1)..(last'[c] - 1) :
         emitted[n].ringed /\ emitted[n].life = emitted[last[c]].life
           => n \in excused[c] \/ emitted[last'[c]].life # emitted[last[c]].life]_vars

(* One bad write costs the log two notifications at the most, its own and   *)
(* the one that follows it: every other of the newest NotifSize retained    *)
(* ones is there to be restored (notifStore.Append,                         *)
(* loadAndCompactNotifications).                                            *)
Retained == {n \in DOMAIN emitted : emitted[n].retained}

Wanted == {n \in Retained : Cardinality({m \in Retained : m > n}) < NotifSize}

LossBounded == Cardinality(Wanted \ Elements(file)) <= 2 * tears

(* A client that polls with the cursor it was given sees every notification *)
(* once, across restarts too, unless the ring overflowed between two polls  *)
(* or the log lost a line (RestoreNotifications, Notifications).            *)
PollOnce ==
  /\ \A i, j \in DOMAIN polled : i < j => polled[i] < polled[j]
  /\ tears = 0 =>
       \A n \in Retained :
         \/ n > asOf
         \/ n \in Elements(polled)
         \/ Cardinality({m \in Retained : n < m /\ m <= asOf}) >= NotifSize

=============================================================================

----------------------------- MODULE IngestTick -----------------------------
(***************************************************************************)
(* One turn after the other of the ingest loop of src/src/ingest.rs with   *)
(* what hangs on its timer block: the lookups and the saved routes of      *)
(* Enrichment, the saved coverage of receiver_map.rs, and the messages of  *)
(* the compact listeners (compact_ingest.rs), which threads of their own   *)
(* put into a channel that the block drains; and the limiter of the reduce *)
(* output (reduce.rs).  The process may crash anywhere and start again.    *)
(*                                                                         *)
(* The thread waits for the poll, for the answer to a lookup, for a file,  *)
(* and for the locks of what the HTTP threads and the WebSocket read (see  *)
(* CacheLocks); time passes meanwhile.  No one of them has a bound in the  *)
(* code (the timeout of http_get is that of one read, not of the answer),  *)
(* so the properties measure the time by the longest round so far.         *)
(***************************************************************************)
EXTENDS Enrichment

CONSTANTS
  Icaos,           \* aircraft
  Traffic,         \* bound: sets of inputs, one of which a behaviour carries
  PairTimeout,     \* CPR_PAIR_TIMEOUT
  ReduceInterval,  \* --beast-reduce-interval
  MaxPositions,    \* bound: positions counted in the coverage
  MaxChan          \* bound: messages in the channel

Parities == {"even", "odd"}
Input == [callsign : Callsigns] \cup [icao : Icaos] \cup [half : Parities] \cup {[taught |-> TRUE]}

ASSUME TickAssumption ==
  /\ \A t \in Traffic : t \subseteq Input
  /\ {PairTimeout, ReduceInterval, MaxPositions, MaxChan} \subseteq Nat \ {0}

VARIABLES
  traffic,    \* the inputs of this behaviour
  chan,       \* the demod channel
  halves,     \* the slot of receiver 0: the halves of an aircraft's position
  gap,        \* history: how far apart the halves of the last pair were sent
  lastSent,   \* age of ReduceState.last_sent
  emitted,    \* history: since when no frame of an aircraft has been emitted
  positions,  \* ReceiverMap.receivers: the positions counted
  mapFile,    \* its CACHE_FILE, or TornMap
  sinceMap,   \* age of its last_persist
  taught,     \* history: since when so many positions have been counted
  mapWritten  \* history: no write has failed since the file was last complete

outside == <<chan, halves, gap, lastSent, emitted, positions, mapFile, sinceMap, taught,
             mapWritten>>
vars == <<traffic, pc, enrichment, outside>>

AgeCap == PairTimeout + 2 * MaxRound + 2  \* more than the age of any half in use
NoHalf == [stamp |-> PairTimeout + 1, sent |-> AgeCap]
TornMap == -1

Init ==
  /\ EnrichmentInit
  /\ traffic \in Traffic
  /\ pc = "loop"
  /\ chan = <<>>
  /\ halves = [k \in Parities |-> NoHalf]
  /\ gap = 0
  /\ lastSent = [i \in Icaos |-> ReduceInterval]
  /\ emitted = [i \in Icaos |-> ReduceInterval]
  /\ positions = 0
  /\ mapFile = TornMap
  /\ sinceMap = 0
  /\ taught = [n \in 1..MaxPositions |-> 0]
  /\ mapWritten = TRUE

-----------------------------------------------------------------------------
(* A frame with a callsign (aircraft.rs:174-181).  An aircraft that has a  *)
(* route does not ask for one; then this step is not taken.                *)
HearCallsign(c) ==
  /\ pc = "loop" /\ GetRoute(c)
  /\ UNCHANGED <<traffic, pc, outside>>

(* The decoded frames of a turn go to the reduce output at its end.        *)
ShouldEmitRenewing(i) ==  \* seeded bug: every frame renews the time
  IF lastSent[i] < ReduceInterval THEN [sent |-> 0, emit |-> FALSE]
  ELSE [sent |-> 0, emit |-> TRUE]
ShouldEmit(i) ==
  IF lastSent[i] < ReduceInterval THEN [sent |-> lastSent[i], emit |-> FALSE]
  ELSE [sent |-> 0, emit |-> TRUE]
HearFrame(i) ==
  /\ pc = "loop"
  /\ lastSent' = [lastSent EXCEPT ![i] = ShouldEmit(i).sent]
  /\ emitted' = IF ShouldEmit(i).emit THEN [emitted EXCEPT ![i] = 0] ELSE emitted
  /\ UNCHANGED <<traffic, pc, enrichment, chan, halves, gap, positions, mapFile,
                 sinceMap, taught, mapWritten>>

(* position_received counts a position for an identified receiver.         *)
Teach ==
  /\ pc = "loop" /\ positions < MaxPositions
  /\ positions' = positions + 1
  /\ taught' = [taught EXCEPT ![positions + 1] = 0]
  /\ UNCHANGED <<traffic, pc, enrichment, chan, halves, gap, lastSent, emitted, mapFile,
                 sinceMap, mapWritten>>

(* A compact connection's thread decodes a message and sends it.  One that *)
(* comes while the block drains, which takes no time, is drained as if it  *)
(* had come just before, or waits as if it had come just after.            *)
Send(k) ==
  /\ pc # "drain" /\ Len(chan) < MaxChan
  /\ chan' = Append(chan, [half |-> k, sent |-> 0])
  /\ UNCHANGED <<traffic, pc, enrichment, halves, gap, lastSent, emitted, positions,
                 mapFile, sinceMap, taught, mapWritten>>

-----------------------------------------------------------------------------
(* The timer block: reap_stale with tick and persist, then the drain.      *)
BeginTurn ==
  /\ pc = "loop" /\ BeginTick
  /\ UNCHANGED <<traffic, outside>>
Turn == TickStep /\ UNCHANGED <<traffic, outside>>

MapDue == sinceMap >= PersistInterval
MapUnchanged ==
  UNCHANGED <<traffic, enrichment, chan, halves, gap, lastSent, emitted, positions, taught>>
MapBegins ==
  /\ pc = "ticked" /\ MapDue
  /\ sinceMap' = 0
  /\ mapFile' = TornMap /\ mapWritten' = FALSE
  /\ pc' = "map"
  /\ MapUnchanged
MapRefused ==  \* the file does not open
  /\ pc = "ticked" /\ MapDue
  /\ sinceMap' = 0
  /\ mapWritten' = FALSE
  /\ pc' = "drain"
  /\ MapUnchanged /\ UNCHANGED mapFile
MapEnds ==
  /\ pc = "map"
  /\ mapFile' = positions /\ mapWritten' = TRUE
  /\ pc' = "drain"
  /\ MapUnchanged /\ UNCHANGED sinceMap
MapBreaks ==  \* the write breaks off
  /\ pc = "map"
  /\ mapWritten' = FALSE
  /\ pc' = "drain"
  /\ MapUnchanged /\ UNCHANGED <<mapFile, sinceMap>>
MapNotDue ==
  /\ pc = "ticked" /\ ~MapDue
  /\ pc' = "drain"
  /\ UNCHANGED <<traffic, enrichment, outside>>
Map == MapBegins \/ MapRefused \/ MapEnds \/ MapBreaks \/ MapNotDue

(* update stamps a message with the time at which it is drained, and the   *)
(* pair is judged by these stamps (aircraft.rs:281).                       *)
UpdatedAnyAge(m) ==  \* seeded bug: halves of any age are paired
  LET other == halves[CHOOSE k \in Parities : k # m.half]
      far == other.sent - m.sent
  IN [halves |-> [halves EXCEPT ![m.half] = [stamp |-> 0, sent |-> m.sent]],
      gap |-> IF other # NoHalf THEN IF far < 0 THEN -far ELSE far ELSE gap]
Updated(m) ==
  LET other == halves[CHOOSE k \in Parities : k # m.half]
      far == other.sent - m.sent
  IN [halves |-> [halves EXCEPT ![m.half] = [stamp |-> 0, sent |-> m.sent]],
      gap |-> IF other.stamp <= PairTimeout THEN IF far < 0 THEN -far ELSE far ELSE gap]
Drain ==
  /\ pc = "drain" /\ chan # <<>>
  /\ halves' = Updated(Head(chan)).halves
  /\ gap' = Updated(Head(chan)).gap
  /\ chan' = Tail(chan)
  /\ UNCHANGED <<traffic, pc, enrichment, lastSent, emitted, positions, mapFile, sinceMap,
                 taught, mapWritten>>
Drained ==
  /\ pc = "drain" /\ chan = <<>>
  /\ pc' = "rebuild"
  /\ UNCHANGED <<traffic, enrichment, outside>>

(* The rest of the turn takes the write locks of the caches and of the     *)
(* kick list.                                                              *)
Rebuilt ==
  /\ pc = "rebuild"
  /\ pc' = "loop"
  /\ UNCHANGED <<traffic, enrichment, outside>>

(* ReceiverMap::new; what is not saved is lost, and what cannot be read.   *)
Files == {"routes", "map"}
Restart(readable) ==
  /\ NewEnrichment("routes" \in readable)
  /\ pc' = "loop"
  /\ chan' = <<>>
  /\ halves' = [k \in Parities |-> NoHalf]
  /\ lastSent' = [i \in Icaos |-> ReduceInterval]
  /\ positions' = IF "map" \notin readable \/ mapFile = TornMap THEN 0 ELSE mapFile
  /\ sinceMap' = 0
  /\ mapWritten' = TRUE
  /\ UNCHANGED <<traffic, gap, emitted, mapFile, taught>>

(* Where the thread waits: in a poll and what comes of it, for an answer,  *)
(* in a write, for a lock.                                                 *)
Waits == {"loop", "lookup", "write", "map", "rebuild"}
Clock ==
  /\ pc \in Waits /\ sinceNow < MaxRound
  /\ EnrichmentAges
  /\ chan' = [j \in DOMAIN chan |-> [chan[j] EXCEPT !.sent = Older(@, AgeCap)]]
  /\ halves' = [k \in Parities |-> [stamp |-> Older(halves[k].stamp, PairTimeout + 1),
                                    sent |-> Older(halves[k].sent, AgeCap)]]
  /\ lastSent' = [i \in Icaos |-> Older(lastSent[i], ReduceInterval)]
  /\ emitted' = [i \in Icaos |-> Older(emitted[i], ReduceInterval)]
  /\ sinceMap' = Older(sinceMap, PersistInterval)
  /\ taught' = [n \in 1..MaxPositions |->
       IF n > positions THEN 0 ELSE Older(taught[n], LossCap)]
  /\ UNCHANGED <<traffic, pc, gap, positions, mapFile, mapWritten>>

Hear ==
  \/ \E c \in Callsigns : [callsign |-> c] \in traffic /\ HearCallsign(c)
  \/ \E i \in Icaos : [icao |-> i] \in traffic /\ HearFrame(i)
  \/ \E k \in Parities : [half |-> k] \in traffic /\ Send(k)
  \/ [taught |-> TRUE] \in traffic /\ Teach
Loop == BeginTurn \/ Turn \/ Map \/ Drain \/ Drained \/ Rebuilt
Next == Hear \/ Loop \/ (\E readable \in SUBSET Files : Restart(readable)) \/ Clock
Spec == Init /\ [][Next]_vars

(* The thread goes on: it gets its locks and its answers in the end.  And  *)
(* however short its rounds are, time passes.                              *)
Fairness == WF_vars(Loop) /\ SF_vars(Clock)
FairSpec == Spec /\ Fairness

-----------------------------------------------------------------------------
(* The service that knows the routes is asked for a callsign once, and for *)
(* one that it did not know again only after RETRY_AFTER, whatever is      *)
(* heard meanwhile; a failure is stamped with the beginning of its batch,  *)
(* which is a round ago at most (enrichment.rs:47-61, 77-90).              *)
AskedSparingly ==
  [][\A c \in Callsigns : asked'[c] = 0 /\ asked[c] # 0 =>
       routes[c] = "unknown" /\ asked[c] >= RetryAfter - longest]_vars

(* A callsign that waits for its lookup gets it: none waits for ever,     *)
(* however few wait with it and although only a batch is taken at a time   *)
(* (enrichment.rs:77-87).                                                  *)
RequestsAreMet == \A c \in Callsigns : []<>~Contains(pending, c)

(* A crash loses at most what was learned in the last PERSIST_INTERVAL and *)
(* two rounds, if the last write of the file did not fail or break off and *)
(* the file can be read: however long the loop was kept from saving        *)
(* (enrichment.rs:89-92, 143-149; receiver_map.rs:43-69).                  *)
LearnedSurvives ==
  [][\A readable \in SUBSET Files : Restart(readable) =>
       /\ "routes" \in readable /\ written => \A c \in Callsigns :
            routes[c] # "unknown" /\ learned[c] >= LossBound => routes'[c] = routes[c]
       /\ "map" \in readable /\ mapWritten => \A n \in 1..positions :
            taught[n] >= LossBound => n <= positions']_vars

(* The store pairs halves of one position only if they were sent within    *)
(* CPR_PAIR_TIMEOUT and two rounds of each other: the stamps are of the    *)
(* drain, for which a message waits the rest of the round in which it came *)
(* and the next one up to its drain (ingest.rs:246-254, aircraft.rs:281).  *)
PairsAreNear == gap <= PairTimeout + 2 * longest

(* "Global decode: requires even+odd pair within 10s" (PLAN.md:54), give   *)
(* or take the poll of the loop.                                           *)
PairedInTime == gap <= PairTimeout + 1

(* The limiter does not silence an aircraft that is heard all the time:    *)
(* whenever a frame of it comes, the reduce output has emitted one in the  *)
(* last interval (reduce.rs:13-18).                                        *)
ReduceIsCurrent ==
  [][\A i \in Icaos : (HearFrame(i) => emitted'[i] < ReduceInterval)]_vars
=============================================================================

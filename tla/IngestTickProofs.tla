-------------------------- MODULE IngestTickProofs --------------------------
(***************************************************************************)
(* Proofs about IngestTick: what a crash may lose, how often the routes    *)
(* are asked for, which halves are paired, and what the limiter of the     *)
(* reduce output lets through.                                             *)
(*                                                                         *)
(* No round of the loop is longer than the longest (TickInv); on that rest *)
(* three independent invariants: who waits for a lookup and when it failed *)
(* (WaitInv), how long something has been learned and not saved (SaveInv), *)
(* and how old the messages and the halves are (PairInv).  The limiter     *)
(* needs one of its own (LimitInv).                                        *)
(***************************************************************************)
EXTENDS IngestTick, SequenceTheorems, TLAPS

Known == {"route", "bare"}
Points == {"loop", "lookup", "save", "write", "ticked", "map", "drain", "rebuild"}

Message == [half : Parities, sent : Nat]
LookupTypes ==
  /\ pc \in Points
  /\ routes \in [Callsigns -> Known \cup {"unknown"}]
  /\ pending \in Seq(Callsigns) /\ batch \in Seq(Callsigns)
  /\ failed \in [Callsigns -> Nat] /\ asked \in [Callsigns -> Nat]
  /\ learned \in [Callsigns -> Nat]
  /\ sinceNow \in Nat /\ sinceSave \in Nat /\ longest \in Nat /\ written \in BOOLEAN
  /\ file = Torn \/ file \in [Callsigns -> Known \cup {"unknown"}]
LoopTypes ==
  /\ chan \in Seq(Message)
  /\ halves \in [Parities -> [stamp : Nat, sent : Nat]]
  /\ gap \in Nat
  /\ lastSent \in [Icaos -> Nat] /\ emitted \in [Icaos -> Nat]
  /\ positions \in 0..MaxPositions
  /\ mapFile \in -1..MaxPositions
  /\ sinceMap \in Nat
  /\ taught \in [1..MaxPositions -> Nat]
  /\ mapWritten \in BOOLEAN
TypeInv == LookupTypes /\ LoopTypes

(* A batch is under way as long as the tick looks it up.  No round, and    *)
(* not the one under way, is longer than the longest.                      *)
TickInv ==
  /\ batch # <<>> <=> pc = "lookup"
  /\ sinceNow <= longest /\ longest <= MaxRound

(* Those that wait for a lookup, in the batch or for one, wait once and    *)
(* have not failed lately; and a failure is hardly younger than the lookup *)
(* that failed.                                                            *)
WaitInv ==
  /\ \A j, l \in DOMAIN batch : batch[j] = batch[l] => j = l
  /\ \A j, l \in DOMAIN pending : pending[j] = pending[l] => j = l
  /\ \A j \in DOMAIN batch, l \in DOMAIN pending : batch[j] # pending[l]
  /\ \A j \in DOMAIN batch :
       routes[batch[j]] = "unknown" /\ failed[batch[j]] >= RetryAfter
  /\ \A j \in DOMAIN pending :
       routes[pending[j]] = "unknown" /\ failed[pending[j]] >= RetryAfter
  /\ \A c \in Callsigns : routes[c] = "unknown" => failed[c] <= asked[c] + longest

(* What a new process would not find in the file has been learned since    *)
(* it was written, if that went well.  A tick that begins late enough      *)
(* writes it; so before a round decides whether to save, it was learned an *)
(* interval, a round, and the time since the tick ago at most, and after   *)
(* that an interval and the time since the tick.                           *)
Unsaved(c) == written /\ routes[c] # "unknown" /\ Loaded(file)[c] # routes[c]
Uncounted(n) == mapWritten /\ mapFile < n /\ n <= positions
Late(age) == age < PersistInterval + longest + sinceNow
Soon(age) == age < PersistInterval + sinceNow
RouteInv ==
  \A c \in Callsigns : Unsaved(c) =>
    /\ learned[c] <= sinceSave \/ sinceSave >= SaveCap
    /\ Late(learned[c])
    /\ pc \notin {"lookup", "save"} => Soon(learned[c])
CoverageInv ==
  \A n \in 1..MaxPositions : Uncounted(n) =>
    /\ taught[n] <= sinceMap \/ sinceMap >= PersistInterval
    /\ Late(taught[n])
    /\ pc \in {"drain", "rebuild", "loop"} => Soon(taught[n])
SaveInv == RouteInv /\ CoverageInv

(* A message waits in the channel for the rest of the round in which it    *)
(* came and for the next one up to its drain; so a half is stamped at most *)
(* that late.                                                              *)
Waiting == IF pc \in {"rebuild", "loop"} THEN sinceNow ELSE longest + sinceNow
PairInv ==
  /\ \A j \in DOMAIN chan : chan[j].sent <= Waiting
  /\ \A k \in Parities : halves[k].stamp <= PairTimeout =>
       halves[k].sent <= halves[k].stamp + 2 * longest
  /\ PairsAreNear

(* The limiter remembers no frame that is younger than the last emitted.   *)
LimitInv == \A i \in Icaos : lastSent[i] < ReduceInterval => emitted[i] <= lastSent[i]

-----------------------------------------------------------------------------
(* The constants, and what follows from how far the two ages reach.        *)
LEMMA Bounds ==
  /\ BatchSize \in Nat /\ BatchSize > 0 /\ MaxRound \in Nat
  /\ PersistInterval \in Nat /\ PersistInterval > 0 /\ RetryAfter \in Nat /\ RetryAfter > 0
  /\ PairTimeout \in Nat /\ ReduceInterval \in Nat /\ ReduceInterval > 0
  /\ BatchInterval \in Nat /\ MaxPositions \in Nat
  /\ SaveCap = PersistInterval + MaxRound /\ SaveCap \in Nat
  /\ LossCap \in Nat /\ AgeCap \in Nat
PROOF
  BY EnrichmentAssumption, TickAssumption DEF SaveCap, LossCap, AgeCap

LEMMA OlderByOne ==
  ASSUME NEW age \in Nat, NEW cap
  PROVE  Older(age, cap) \in Nat /\ Older(age, cap) <= age + 1 /\ Older(age, cap) >= age
PROOF
  BY DEF Older

(* What a lookup does with the callsign that it is about.                  *)
LEMMA LookupCases ==
  ASSUME LookupTypes, Lookup, batch # <<>>
  PROVE  /\ Head(batch) \in Callsigns /\ Tail(batch) \in Seq(Callsigns)
         /\ \/ /\ failed' = [failed EXCEPT ![Head(batch)] = sinceNow]
               /\ routes' = routes /\ learned' = learned
            \/ /\ \E a \in Known : routes' = [routes EXCEPT ![Head(batch)] = a]
               /\ learned' = [learned EXCEPT ![Head(batch)] = 0]
               /\ failed' = failed
PROOF
  <1>1. /\ Head(batch) \in Callsigns /\ Tail(batch) \in Seq(Callsigns)
    BY HeadTailProperties DEF LookupTypes
  <1>2. PICK a \in Answers :
          IF a = "fails"
          THEN /\ failed' = [failed EXCEPT ![Head(batch)] = sinceNow]
               /\ UNCHANGED <<routes, learned>>
          ELSE /\ routes' = [routes EXCEPT ![Head(batch)] = a]
               /\ learned' = [learned EXCEPT ![Head(batch)] = 0]
               /\ UNCHANGED failed
    BY DEF Lookup
  <1>3. a = "fails" \/ (a \in Known /\ a # "fails")
    BY EnrichmentAssumption DEF Known
  <1> QED
    BY <1>1, <1>2, <1>3

(* What a drained message does: the other half is of the other parity.     *)
Distance(a, b) == IF a - b < 0 THEN -(a - b) ELSE a - b
LEMMA UpdatedBy ==
  ASSUME LoopTypes, NEW m \in Message
  PROVE  \E o \in Parities :
           /\ Updated(m).halves = [halves EXCEPT ![m.half] = [stamp |-> 0, sent |-> m.sent]]
           /\ Updated(m).gap = IF halves[o].stamp <= PairTimeout
                               THEN Distance(halves[o].sent, m.sent) ELSE gap
PROOF
  <1>1. PICK o : o = CHOOSE k \in Parities : k # m.half
    OBVIOUS
  <1>2. \E k \in Parities : k # m.half
    BY DEF Parities
  <1>3. o \in Parities
    BY <1>1, <1>2
  <1>4. /\ Updated(m).halves = [halves EXCEPT ![m.half] = [stamp |-> 0, sent |-> m.sent]]
        /\ Updated(m).gap = IF halves[o].stamp <= PairTimeout
                            THEN Distance(halves[o].sent, m.sent) ELSE gap
    BY <1>1 DEF Updated, Distance
  <1> QED
    BY <1>3, <1>4

LEMMA TypeInit == Init => TypeInv
PROOF
  <1>1. Init => LookupTypes
    BY Bounds DEF Init, EnrichmentInit, LookupTypes, Points, Known, Nothing
  <1>2. Init => LoopTypes
    BY Bounds DEF Init, LoopTypes, NoHalf, TornMap
  <1> QED
    BY <1>1, <1>2 DEF TypeInv

LEMMA LookupTypesStep ==
  ASSUME LookupTypes, TickInv, [Next]_vars
  PROVE  LookupTypes'
PROOF
  <1> USE DEF LookupTypes
  <1>1. ASSUME NEW c \in Callsigns, HearCallsign(c)
        PROVE  LookupTypes'
    <2>1. Append(pending, c) \in Seq(Callsigns)
      OBVIOUS
    <2> QED
      BY <1>1, <2>1 DEF HearCallsign, GetRoute, outside
  <1>2. ASSUME BeginTurn
        PROVE  LookupTypes'
    <2>1. /\ Len(pending) \in Nat /\ BatchLen \in 0..Len(pending)
          /\ \A j \in 1..Len(pending) : pending[j] \in Callsigns
      BY Bounds DEF BatchLen
    <2>2. /\ SubSeq(pending, 1, BatchLen) \in Seq(Callsigns)
          /\ SubSeq(pending, BatchLen + 1, Len(pending)) \in Seq(Callsigns)
      BY <2>1, SubSeqProperties
    <2> QED
      BY <1>2, <2>2 DEF BeginTurn, BeginTick, outside, Points
  <1>3. ASSUME Lookup, UNCHANGED <<traffic, outside>>, batch # <<>>
        PROVE  LookupTypes'
    <2>1. /\ routes' \in [Callsigns -> Known \cup {"unknown"}]
          /\ learned' \in [Callsigns -> Nat]
          /\ failed' \in [Callsigns -> Nat]
          /\ Head(batch) \in Callsigns /\ Tail(batch) \in Seq(Callsigns)
      <3>1. CASE /\ failed' = [failed EXCEPT ![Head(batch)] = sinceNow]
                 /\ routes' = routes /\ learned' = learned
        BY <1>3, <3>1, LookupCases
      <3>2. CASE /\ \E a \in Known : routes' = [routes EXCEPT ![Head(batch)] = a]
                 /\ learned' = [learned EXCEPT ![Head(batch)] = 0]
                 /\ failed' = failed
        BY <1>3, <3>2, LookupCases
      <3> QED
        BY <1>3, <3>1, <3>2, LookupCases
    <2> QED
      BY <1>3, <2>1 DEF Lookup, Points
  <1>4. ASSUME SaveBegins \/ SaveRefused \/ SaveEnds \/ SaveBreaks \/ SaveNotDue
        PROVE  LookupTypes'
    BY <1>4 DEF SaveBegins, SaveRefused, SaveEnds, SaveBreaks, SaveNotDue, Persisted,
                enrichment, Points
  <1>5. ASSUME UNCHANGED enrichment, pc' \in Points
        PROVE  LookupTypes'
    BY <1>5 DEF enrichment
  <1>6. ASSUME NEW readable, Restart(readable)
        PROVE  LookupTypes'
    <2>1. routes' \in [Callsigns -> Known \cup {"unknown"}]
      BY <1>6 DEF Restart, NewEnrichment, Loaded, Nothing, Known
    <2>2. failed' \in [Callsigns -> Nat] /\ asked' \in [Callsigns -> Nat]
      BY <1>6, Bounds DEF Restart, NewEnrichment
    <2> QED
      BY <1>6, <2>1, <2>2 DEF Restart, NewEnrichment, Points
  <1>7. ASSUME Clock
        PROVE  LookupTypes'
    <2>1. EnrichmentAges /\ pc' = pc
      BY <1>7 DEF Clock
    <2>2. /\ failed' \in [Callsigns -> Nat] /\ asked' \in [Callsigns -> Nat]
      BY <2>1 DEF EnrichmentAges, Older
    <2>3. learned' \in [Callsigns -> Nat] /\ sinceSave' \in Nat
      BY <2>1 DEF EnrichmentAges, Older
    <2> QED
      BY <2>1, <2>2, <2>3 DEF EnrichmentAges
  <1>8. ASSUME Map \/ Drain \/ Drained \/ Rebuilt \/ Teach
        PROVE  UNCHANGED enrichment /\ pc' \in Points
    BY <1>8 DEF Map, MapBegins, MapRefused, MapEnds, MapBreaks, MapNotDue, MapUnchanged,
                Drain, Drained, Rebuilt, Teach, Points
  <1>9. ASSUME NEW i \in Icaos, HearFrame(i)
        PROVE  UNCHANGED enrichment /\ pc' \in Points
    BY <1>9 DEF HearFrame
  <1>10. ASSUME NEW k \in Parities, Send(k)
         PROVE  UNCHANGED enrichment /\ pc' \in Points
    BY <1>10 DEF Send
  <1>11. ASSUME UNCHANGED vars
         PROVE  UNCHANGED enrichment /\ pc' \in Points
    BY <1>11 DEF vars
  <1> QED
    BY <1>1, <1>2, <1>3, <1>4, <1>5, <1>6, <1>7, <1>8, <1>9, <1>10, <1>11
       DEF Next, Hear, Loop, Turn, TickStep, TickInv, Lookup

LEMMA LoopTypesStep ==
  ASSUME LoopTypes, [Next]_vars
  PROVE  LoopTypes'
PROOF
  <1>1. ASSUME NEW i \in Icaos, HearFrame(i)
        PROVE  LoopTypes'
    BY <1>1, Bounds DEF HearFrame, ShouldEmit, LoopTypes
  <1>2. ASSUME Teach
        PROVE  LoopTypes'
    BY <1>2, Bounds DEF Teach, LoopTypes
  <1>3. ASSUME NEW k \in Parities, Send(k)
        PROVE  LoopTypes'
    <2>1. [half |-> k, sent |-> 0] \in Message
      BY DEF Message
    <2> QED
      BY <1>3, <2>1 DEF Send, LoopTypes
  <1>4. ASSUME MapBegins \/ MapRefused \/ MapEnds \/ MapBreaks
        PROVE  LoopTypes'
    <2>1. UNCHANGED <<chan, halves, gap, lastSent, emitted, positions, taught>>
      BY <1>4 DEF MapBegins, MapRefused, MapEnds, MapBreaks, MapUnchanged
    <2>2. mapFile' \in {mapFile, positions, -1} /\ sinceMap' \in {0, sinceMap}
      BY <1>4 DEF MapBegins, MapRefused, MapEnds, MapBreaks, TornMap
    <2>3. mapWritten' \in BOOLEAN
      BY <1>4 DEF MapBegins, MapRefused, MapEnds, MapBreaks
    <2>4. mapFile' \in -1..MaxPositions /\ sinceMap' \in Nat
      BY <2>2, Bounds DEF LoopTypes
    <2> QED
      BY <2>1, <2>3, <2>4 DEF LoopTypes
  <1>5. ASSUME Drain
        PROVE  LoopTypes'
    <2>1. PICK m : m = Head(chan)
      OBVIOUS
    <2>2. m \in Message /\ Tail(chan) \in Seq(Message)
      BY <1>5, <2>1, HeadTailProperties DEF Drain, LoopTypes
    <2>3. PICK o \in Parities :
            /\ Updated(m).halves = [halves EXCEPT ![m.half] = [stamp |-> 0, sent |-> m.sent]]
            /\ Updated(m).gap = IF halves[o].stamp <= PairTimeout
                                THEN Distance(halves[o].sent, m.sent) ELSE gap
      BY <2>2, UpdatedBy
    <2>4. m.half \in Parities /\ m.sent \in Nat /\ halves[o].sent \in Nat
      BY <2>2 DEF Message, LoopTypes
    <2>5. halves' \in [Parities -> [stamp : Nat, sent : Nat]]
      <3>1. halves' = [halves EXCEPT ![m.half] = [stamp |-> 0, sent |-> m.sent]]
        BY <1>5, <2>1, <2>3 DEF Drain
      <3> QED
        BY <2>4, <3>1 DEF LoopTypes
    <2>6. gap' \in Nat
      BY <1>5, <2>1, <2>3, <2>4 DEF Drain, Distance, LoopTypes
    <2> QED
      BY <1>5, <2>2, <2>5, <2>6 DEF Drain, LoopTypes
  <1>6. ASSUME NEW readable, Restart(readable)
        PROVE  LoopTypes'
    BY <1>6, Bounds DEF Restart, NoHalf, TornMap, LoopTypes
  <1>7. ASSUME Clock
        PROVE  LoopTypes'
    <2>1. /\ chan' = [j \in DOMAIN chan |-> [chan[j] EXCEPT !.sent = Older(@, AgeCap)]]
          /\ halves' = [k \in Parities |-> [stamp |-> Older(halves[k].stamp, PairTimeout + 1),
                                            sent |-> Older(halves[k].sent, AgeCap)]]
          /\ lastSent' = [i \in Icaos |-> Older(lastSent[i], ReduceInterval)]
          /\ emitted' = [i \in Icaos |-> Older(emitted[i], ReduceInterval)]
          /\ sinceMap' = Older(sinceMap, PersistInterval)
          /\ taught' = [n \in 1..MaxPositions |->
                          IF n > positions THEN 0 ELSE Older(taught[n], LossCap)]
      BY <1>7 DEF Clock
    <2>2. \A cap : \A age \in Nat : Older(age, cap) \in Nat
      BY DEF Older
    <2>3. chan' \in Seq(Message)
      <3>1. \A m \in Message : [m EXCEPT !.sent = Older(@, AgeCap)] \in Message
        BY <2>2 DEF Message
      <3>2. chan \in Seq(Message)
        BY DEF LoopTypes
      <3> QED
        BY <2>1, <3>1, <3>2
    <2>4. halves' \in [Parities -> [stamp : Nat, sent : Nat]]
      <3>1. \A k \in Parities : halves[k].stamp \in Nat /\ halves[k].sent \in Nat
        BY DEF LoopTypes
      <3> QED
        BY <2>1, <2>2, <3>1
    <2>5. lastSent' \in [Icaos -> Nat] /\ emitted' \in [Icaos -> Nat]
      BY <2>1, <2>2 DEF LoopTypes
    <2>6. taught' \in [1..MaxPositions -> Nat] /\ sinceMap' \in Nat
      <3>1. \A n \in 1..MaxPositions : taught[n] \in Nat
        BY DEF LoopTypes
      <3>2. sinceMap \in Nat
        BY DEF LoopTypes
      <3> QED
        BY <2>1, <2>2, <3>1, <3>2
    <2> QED
      BY <1>7, <2>3, <2>4, <2>5, <2>6 DEF Clock, LoopTypes
  <1>8. ASSUME UNCHANGED outside
        PROVE  LoopTypes'
    BY <1>8 DEF outside, LoopTypes
  <1>9. ASSUME NEW c \in Callsigns, HearCallsign(c)
        PROVE  UNCHANGED outside
    BY <1>9 DEF HearCallsign
  <1>10. ASSUME BeginTurn \/ Turn \/ MapNotDue \/ Drained \/ Rebuilt \/ UNCHANGED vars
         PROVE  UNCHANGED outside
    BY <1>10 DEF BeginTurn, Turn, MapNotDue, Drained, Rebuilt, vars
  <1> QED
    BY <1>1, <1>2, <1>3, <1>4, <1>5, <1>6, <1>7, <1>8, <1>9, <1>10
       DEF Next, Hear, Loop, Map

-----------------------------------------------------------------------------
(* The batch and the rounds.                                               *)
LEMMA TickInit == Init => TickInv
PROOF
  BY Bounds DEF Init, EnrichmentInit, TickInv

LEMMA TickInvStep ==
  ASSUME LookupTypes, TickInv, [Next]_vars
  PROVE  TickInv'
PROOF
  <1>1. /\ batch \in Seq(Callsigns) /\ pc \in Points
        /\ sinceNow \in Nat /\ longest \in Nat /\ MaxRound \in Nat
    BY Bounds DEF LookupTypes
  <1>2. ASSUME BeginTurn
        PROVE  TickInv'
    <2>1. CASE BatchDue
      <3>1. /\ pending \in Seq(Callsigns) /\ Len(pending) \in Nat /\ Len(pending) > 0
            /\ \A j \in 1..Len(pending) : pending[j] \in Callsigns
        BY <2>1 DEF LookupTypes, BatchDue
      <3>2. BatchLen \in 1..BatchSize /\ BatchLen <= Len(pending)
        BY <3>1, Bounds DEF BatchLen
      <3>3. /\ batch' = SubSeq(pending, 1, BatchLen)
            /\ pc' = "lookup" /\ sinceNow' = 0 /\ longest' = longest
        BY <1>2, <2>1 DEF BeginTurn, BeginTick
      <3>4. Len(batch') = BatchLen
        BY <3>1, <3>2, <3>3, SubSeqProperties
      <3> QED
        BY <1>1, <3>2, <3>3, <3>4 DEF TickInv
    <2>2. CASE ~BatchDue
      BY <1>1, <1>2, <2>2 DEF BeginTurn, BeginTick, TickInv
    <2> QED
      BY <2>1, <2>2
  <1>3. ASSUME Lookup
        PROVE  TickInv'
    BY <1>3 DEF Lookup, TickInv
  <1>4. ASSUME UNCHANGED <<batch, longest, sinceNow>>, pc # "lookup", pc' # "lookup"
        PROVE  TickInv'
    BY <1>4 DEF TickInv
  <1>5. ASSUME NEW readable, Restart(readable)
        PROVE  TickInv'
    BY <1>1, <1>5 DEF Restart, NewEnrichment, TickInv
  <1>6. ASSUME Clock
        PROVE  TickInv'
    BY <1>1, <1>6 DEF Clock, EnrichmentAges, TickInv
  <1>7. ASSUME UNCHANGED <<batch, longest, sinceNow, pc>>
        PROVE  TickInv'
    BY <1>7 DEF TickInv
  <1>8. ASSUME SaveBegins \/ SaveRefused \/ SaveEnds \/ SaveBreaks \/ SaveNotDue
        PROVE  TickInv'
    BY <1>4, <1>8 DEF SaveBegins, SaveRefused, SaveEnds, SaveBreaks, SaveNotDue, Persisted,
                      enrichment
  <1>9. ASSUME Map \/ Drained \/ Rebuilt
        PROVE  TickInv'
    BY <1>4, <1>9 DEF Map, MapBegins, MapRefused, MapEnds, MapBreaks, MapNotDue, MapUnchanged,
                      Drained, Rebuilt, enrichment
  <1>10. ASSUME NEW c \in Callsigns, HearCallsign(c)
         PROVE  TickInv'
    BY <1>7, <1>10 DEF HearCallsign, GetRoute
  <1>11. ASSUME NEW i \in Icaos, HearFrame(i)
         PROVE  TickInv'
    BY <1>7, <1>11 DEF HearFrame, enrichment
  <1>12. ASSUME NEW k \in Parities, Send(k)
         PROVE  TickInv'
    BY <1>7, <1>12 DEF Send, enrichment
  <1>13. ASSUME Teach \/ Drain \/ UNCHANGED vars
         PROVE  TickInv'
    BY <1>7, <1>13 DEF Teach, Drain, enrichment, vars
  <1> QED
    BY <1>2, <1>3, <1>5, <1>6, <1>8, <1>9, <1>10, <1>11, <1>12, <1>13
       DEF Next, Hear, Loop, Turn, TickStep

(* The invariants of the types and of the tick together: what the others   *)
(* are relative to.                                                        *)
LEMMA BaseInvariant == Spec => [](TypeInv /\ TickInv)
PROOF
  <1>1. Init => TypeInv /\ TickInv
    BY TypeInit, TickInit
  <1>2. TypeInv /\ TickInv /\ [Next]_vars => (TypeInv /\ TickInv)'
    BY LookupTypesStep, LoopTypesStep, TickInvStep DEF TypeInv
  <1> QED
    BY <1>1, <1>2, PTL DEF Spec

-----------------------------------------------------------------------------
(* The limiter of the reduce output.                                       *)
LEMMA LimitStep ==
  ASSUME LoopTypes, LimitInv, [Next]_vars
  PROVE  LimitInv'
PROOF
  <1>1. /\ lastSent \in [Icaos -> Nat] /\ emitted \in [Icaos -> Nat]
        /\ ReduceInterval \in Nat
    BY Bounds DEF LoopTypes
  <1>2. ASSUME NEW i \in Icaos, HearFrame(i)
        PROVE  LimitInv'
    BY <1>1, <1>2 DEF HearFrame, ShouldEmit, LimitInv
  <1>3. ASSUME NEW readable, Restart(readable)
        PROVE  LimitInv'
    BY <1>1, <1>3 DEF Restart, LimitInv
  <1>4. ASSUME Clock
        PROVE  LimitInv'
    <2>1. /\ lastSent' = [i \in Icaos |-> Older(lastSent[i], ReduceInterval)]
          /\ emitted' = [i \in Icaos |-> Older(emitted[i], ReduceInterval)]
      BY <1>4 DEF Clock
    <2> QED
      BY <1>1, <2>1 DEF Older, LimitInv
  <1>5. ASSUME UNCHANGED <<lastSent, emitted>>
        PROVE  LimitInv'
    BY <1>5 DEF LimitInv
  <1>6. ASSUME NEW c \in Callsigns, HearCallsign(c)
        PROVE  UNCHANGED <<lastSent, emitted>>
    BY <1>6 DEF HearCallsign, outside
  <1>7. ASSUME NEW k \in Parities, Send(k)
        PROVE  UNCHANGED <<lastSent, emitted>>
    BY <1>7 DEF Send
  <1>8. ASSUME Teach \/ Loop \/ UNCHANGED vars
        PROVE  UNCHANGED <<lastSent, emitted>>
    BY <1>8 DEF Teach, Loop, BeginTurn, Turn, Map, MapBegins, MapRefused, MapEnds, MapBreaks,
                MapNotDue, MapUnchanged, Drain, Drained, Rebuilt, outside, vars
  <1> QED
    BY <1>2, <1>3, <1>4, <1>5, <1>6, <1>7, <1>8 DEF Next, Hear

(* An aircraft that is heard is never silent for longer than the interval: *)
(* the limiter holds a frame back only while the last one it let through   *)
(* is younger (reduce.rs:13-18), also across a restart.                    *)
THEOREM HeardIsEmitted == Spec => ReduceIsCurrent
PROOF
  <1>1. Init => LimitInv
    BY Bounds DEF Init, LimitInv
  <1>2. TypeInv /\ LimitInv /\ [Next]_vars => LimitInv'
    BY LimitStep DEF TypeInv
  <1>3. TypeInv /\ LimitInv =>
          \A i \in Icaos : HearFrame(i) => emitted'[i] < ReduceInterval
    BY Bounds DEF TypeInv, LoopTypes, LimitInv, HearFrame, ShouldEmit
  <1> QED
    BY <1>1, <1>2, <1>3, BaseInvariant, PTL DEF Spec, ReduceIsCurrent

-----------------------------------------------------------------------------
(* What has been learned and not saved.  The coverage: a round that is not *)
(* too early writes it.                                                    *)
LEMMA CoverageStep ==
  ASSUME TypeInv, TickInv, TickInv', CoverageInv, [Next]_vars
  PROVE  CoverageInv'
PROOF
  <1>1. /\ pc \in Points /\ sinceNow \in Nat /\ longest \in Nat /\ sinceMap \in Nat
        /\ positions \in 0..MaxPositions /\ mapFile \in -1..MaxPositions
        /\ taught \in [1..MaxPositions -> Nat] /\ mapWritten \in BOOLEAN
        /\ MaxPositions \in Nat /\ PersistInterval \in Nat /\ PersistInterval > 0
    BY Bounds DEF TypeInv, LookupTypes, LoopTypes
  <1>2. ASSUME UNCHANGED <<positions, mapFile, mapWritten, taught, sinceMap, sinceNow, longest>>,
               pc' \in {"drain", "rebuild", "loop"} => pc \in {"drain", "rebuild", "loop"}
        PROVE  CoverageInv'
    BY <1>2 DEF CoverageInv, Uncounted, Late, Soon
  <1>3. ASSUME Teach
        PROVE  CoverageInv'
    <2>1. /\ positions' = positions + 1 /\ positions < MaxPositions /\ pc' = pc
          /\ taught' = [taught EXCEPT ![positions + 1] = 0]
          /\ UNCHANGED <<mapFile, mapWritten, sinceMap, sinceNow, longest>>
      BY <1>3 DEF Teach, enrichment
    <2>2. taught'[positions + 1] = 0
      BY <1>1, <2>1
    <2>3. ASSUME NEW n \in 1..MaxPositions, n # positions + 1, Uncounted(n)'
          PROVE  taught'[n] = taught[n] /\ Uncounted(n)
      BY <1>1, <2>1, <2>3 DEF Uncounted
    <2> QED
      BY <1>1, <2>1, <2>2, <2>3 DEF CoverageInv, Late, Soon
  <1>4. ASSUME BeginTurn
        PROVE  CoverageInv'
    <2>1. /\ UNCHANGED <<positions, mapFile, mapWritten, taught, sinceMap, longest>>
          /\ pc = "loop" /\ pc' \in {"lookup", "save"} /\ sinceNow' = 0
      BY <1>4 DEF BeginTurn, BeginTick, outside
    <2>2. sinceNow <= longest
      BY DEF TickInv
    <2> QED
      BY <1>1, <2>1, <2>2 DEF CoverageInv, Uncounted, Late, Soon
  <1>5. ASSUME TickStep, UNCHANGED <<traffic, outside>>
        PROVE  CoverageInv'
    <2>1. /\ UNCHANGED <<positions, mapFile, mapWritten, taught, sinceMap, sinceNow, longest>>
          /\ pc' \in {"lookup", "save", "write", "ticked"}
      BY <1>5 DEF TickStep, Lookup, SaveBegins, SaveRefused, SaveEnds, SaveBreaks, SaveNotDue,
                  Persisted, outside, enrichment
    <2> QED
      BY <1>2, <2>1
  <1>6. ASSUME MapBegins \/ MapRefused
        PROVE  CoverageInv'
    BY <1>6 DEF MapBegins, MapRefused, CoverageInv, Uncounted
  <1>7. ASSUME MapEnds
        PROVE  CoverageInv'
    BY <1>1, <1>7 DEF MapEnds, MapUnchanged, CoverageInv, Uncounted
  <1>8. ASSUME MapBreaks
        PROVE  CoverageInv'
    BY <1>8 DEF MapBreaks, CoverageInv, Uncounted
  <1>9. ASSUME MapNotDue
        PROVE  CoverageInv'
    <2>1. /\ UNCHANGED <<positions, mapFile, mapWritten, taught, sinceMap, sinceNow, longest>>
          /\ sinceMap < PersistInterval
      BY <1>1, <1>9 DEF MapNotDue, MapDue, outside, enrichment
    <2>2. \A n \in 1..MaxPositions : Uncounted(n) => Soon(taught[n])
      BY <1>1, <2>1 DEF CoverageInv, Soon
    <2> QED
      BY <2>1, <2>2 DEF CoverageInv, Uncounted, Late, Soon
  <1>10. ASSUME Drain \/ Drained \/ Rebuilt
         PROVE  CoverageInv'
    BY <1>2, <1>10 DEF Drain, Drained, Rebuilt, outside, enrichment
  <1>11. ASSUME NEW readable, Restart(readable)
         PROVE  CoverageInv'
    BY <1>1, <1>11 DEF Restart, NewEnrichment, CoverageInv, Uncounted, TornMap
  <1>12. ASSUME Clock
         PROVE  CoverageInv'
    <2>1. /\ UNCHANGED <<pc, positions, mapFile, mapWritten>>
          /\ sinceNow' = sinceNow + 1
          /\ longest' = IF sinceNow < longest THEN longest ELSE sinceNow + 1
          /\ sinceMap' = Older(sinceMap, PersistInterval)
          /\ taught' = [n \in 1..MaxPositions |->
                         IF n > positions THEN 0 ELSE Older(taught[n], LossCap)]
      BY <1>12 DEF Clock, EnrichmentAges
    <2>2. ASSUME NEW n \in 1..MaxPositions, Uncounted(n)'
          PROVE  /\ Uncounted(n)
                 /\ taught[n] \in Nat /\ taught'[n] \in Nat /\ taught'[n] <= taught[n] + 1
      BY <1>1, <2>1, <2>2 DEF Uncounted, Older
    <2>3. sinceMap' = IF sinceMap < PersistInterval THEN sinceMap + 1 ELSE sinceMap
      BY <2>1 DEF Older
    <2>4. longest' \in Nat /\ longest' >= longest
      BY <1>1, <2>1
    <2> QED
      BY <1>1, <2>1, <2>2, <2>3, <2>4 DEF CoverageInv, Late, Soon
  <1>13. ASSUME NEW c \in Callsigns, HearCallsign(c)
         PROVE  CoverageInv'
    BY <1>2, <1>13 DEF HearCallsign, GetRoute, outside
  <1>14. ASSUME NEW i \in Icaos, HearFrame(i)
         PROVE  CoverageInv'
    BY <1>2, <1>14 DEF HearFrame, enrichment
  <1>15. ASSUME NEW k \in Parities, Send(k)
         PROVE  CoverageInv'
    BY <1>2, <1>15 DEF Send, enrichment
  <1>16. CASE UNCHANGED vars
    BY <1>2, <1>16 DEF vars, enrichment, outside
  <1> QED
    BY <1>3, <1>4, <1>5, <1>6, <1>7, <1>8, <1>9, <1>10, <1>11, <1>12, <1>13, <1>14, <1>15, <1>16
       DEF Next, Hear, Loop, Turn, Map

(* The routes, likewise; last_persist and the test that reads it are       *)
(* instants of the beginning of the tick.                                  *)
LEMMA RouteStep ==
  ASSUME TypeInv, TickInv, TickInv', RouteInv, [Next]_vars
  PROVE  RouteInv'
PROOF
  <1>1. /\ pc \in Points /\ sinceNow \in Nat /\ longest \in Nat /\ sinceSave \in Nat
        /\ learned \in [Callsigns -> Nat] /\ written \in BOOLEAN
        /\ PersistInterval \in Nat /\ PersistInterval > 0 /\ MaxRound \in Nat
        /\ SaveCap = PersistInterval + MaxRound
    BY Bounds DEF TypeInv, LookupTypes
  <1>2. ASSUME UNCHANGED <<routes, file, written, learned, sinceSave, sinceNow, longest>>,
               pc' \in {"lookup", "save"} \/ pc \notin {"lookup", "save"}
        PROVE  RouteInv'
    BY <1>2 DEF RouteInv, Unsaved, Late, Soon
  <1>3. ASSUME BeginTurn
        PROVE  RouteInv'
    <2>1. /\ UNCHANGED <<routes, file, written, learned, sinceSave, longest>> /\ pc = "loop"
          /\ pc' \in {"lookup", "save"} /\ sinceNow' = 0
      BY <1>3 DEF BeginTurn, BeginTick
    <2>2. sinceNow <= longest
      BY DEF TickInv
    <2> QED
      BY <1>1, <2>1, <2>2 DEF RouteInv, Unsaved, Late, Soon
  <1>4. ASSUME Lookup
        PROVE  RouteInv'
    <2>1. /\ pc = "lookup" /\ pc' \in {"lookup", "save"}
          /\ UNCHANGED <<file, written, sinceSave, sinceNow, longest>> /\ batch # <<>>
      BY <1>4 DEF Lookup, TickInv
    <2>2. Head(batch) \in Callsigns
      BY <1>4, <2>1, LookupCases DEF TypeInv
    <2>3. CASE routes' = routes /\ learned' = learned
      BY <1>2, <2>1, <2>3
    <2>4. CASE /\ \E a \in Known : routes' = [routes EXCEPT ![Head(batch)] = a]
               /\ learned' = [learned EXCEPT ![Head(batch)] = 0]
      <3>1. learned'[Head(batch)] = 0
        BY <1>1, <2>2, <2>4
      <3>2. ASSUME NEW c \in Callsigns, c # Head(batch)
            PROVE  learned'[c] = learned[c] /\ routes'[c] = routes[c]
        BY <1>1, <2>4, <3>2 DEF TypeInv, LookupTypes
      <3>3. ASSUME NEW c \in Callsigns, Unsaved(c)'
            PROVE  /\ learned'[c] <= sinceSave' \/ sinceSave' >= SaveCap
                   /\ Late(learned[c])'
        <4>1. CASE c = Head(batch)
          BY <1>1, <2>1, <3>1, <4>1 DEF Late
        <4>2. CASE c # Head(batch)
          <5>1. Unsaved(c) /\ learned'[c] = learned[c]
            BY <2>1, <3>2, <3>3, <4>2 DEF Unsaved
          <5> QED
            BY <1>1, <2>1, <5>1 DEF RouteInv, Late
        <4> QED
          BY <4>1, <4>2
      <3> QED
        BY <2>1, <3>3 DEF RouteInv
    <2> QED
      BY <1>4, <2>1, <2>3, <2>4, LookupCases DEF TypeInv
  <1>5. ASSUME SaveBegins \/ SaveRefused
        PROVE  RouteInv'
    BY <1>5 DEF SaveBegins, SaveRefused, RouteInv, Unsaved
  <1>6. ASSUME SaveEnds
        PROVE  RouteInv'
    <2>1. routes # Torn => Loaded(routes) = routes
      BY DEF Loaded
    <2>2. \A c \in Callsigns : Nothing[c] = "unknown"
      BY DEF Nothing
    <2>3. ASSUME NEW c \in Callsigns, routes[c] # "unknown"
          PROVE  Loaded(routes)[c] = routes[c]
      <3>1. routes \in [Callsigns -> Known \cup {"unknown"}]
        BY DEF TypeInv, LookupTypes
      <3>2. DOMAIN Torn = {}
        BY DEF Torn
      <3> QED
        BY <2>1, <3>1, <3>2
    <2> QED
      BY <1>6, <2>3 DEF SaveEnds, Persisted, RouteInv, Unsaved
  <1>7. ASSUME SaveBreaks
        PROVE  RouteInv'
    BY <1>7 DEF SaveBreaks, RouteInv, Unsaved
  <1>8. ASSUME SaveNotDue
        PROVE  RouteInv'
    <2>1. /\ UNCHANGED <<routes, file, written, learned, sinceSave, sinceNow, longest>>
          /\ sinceSave - sinceNow < PersistInterval
      BY <1>1, <1>8 DEF SaveNotDue, SaveDue, enrichment
    <2>2. sinceSave < SaveCap
      BY <1>1, <2>1 DEF TickInv
    <2>3. \A c \in Callsigns : Unsaved(c) => Soon(learned[c])
      BY <1>1, <2>1, <2>2 DEF RouteInv, Soon
    <2> QED
      BY <2>1, <2>3 DEF RouteInv, Unsaved, Late, Soon
  <1>9. ASSUME Map \/ Drain \/ Drained \/ Rebuilt
        PROVE  RouteInv'
    BY <1>2, <1>9 DEF Map, MapBegins, MapRefused, MapEnds, MapBreaks, MapNotDue, MapUnchanged,
                      Drain, Drained, Rebuilt, enrichment
  <1>10. ASSUME NEW readable, Restart(readable)
         PROVE  RouteInv'
    BY <1>10 DEF Restart, NewEnrichment, Nothing, RouteInv, Unsaved
  <1>11. ASSUME Clock
         PROVE  RouteInv'
    <2>1. /\ UNCHANGED <<pc, routes, file, written>>
          /\ sinceNow' = sinceNow + 1
          /\ longest' = IF sinceNow < longest THEN longest ELSE sinceNow + 1
          /\ sinceSave' = IF sinceSave < SaveCap THEN sinceSave + 1 ELSE sinceSave
          /\ learned' = [c \in Callsigns |->
                          IF routes[c] = "unknown" THEN 0 ELSE Older(learned[c], LossCap)]
      BY <1>11 DEF Clock, EnrichmentAges, Older
    <2>2. ASSUME NEW c \in Callsigns
          PROVE  /\ learned[c] \in Nat /\ learned'[c] \in Nat /\ learned'[c] <= learned[c] + 1
      BY <1>1, <2>1 DEF Older
    <2>3. ASSUME NEW c \in Callsigns, Unsaved(c)'
          PROVE  Unsaved(c)
      BY <2>1, <2>3 DEF Unsaved
    <2>4. longest' \in Nat /\ longest' >= longest
      BY <1>1, <2>1
    <2> QED
      BY <1>1, <2>1, <2>2, <2>3, <2>4 DEF RouteInv, Late, Soon
  <1>12. ASSUME NEW c \in Callsigns, HearCallsign(c)
         PROVE  RouteInv'
    BY <1>2, <1>12 DEF HearCallsign, GetRoute
  <1>13. ASSUME NEW i \in Icaos, HearFrame(i)
         PROVE  RouteInv'
    BY <1>2, <1>13 DEF HearFrame, enrichment
  <1>14. ASSUME NEW k \in Parities, Send(k)
         PROVE  RouteInv'
    BY <1>2, <1>14 DEF Send, enrichment
  <1>15. ASSUME Teach \/ UNCHANGED vars
         PROVE  RouteInv'
    BY <1>2, <1>15 DEF Teach, vars, enrichment
  <1> QED
    BY <1>3, <1>4, <1>5, <1>6, <1>7, <1>8, <1>9, <1>10, <1>11, <1>12, <1>13, <1>14, <1>15
       DEF Next, Hear, Loop, Turn, TickStep

(* A crash loses nothing that was learned longer ago than the interval of  *)
(* the saving and two rounds, if the last write went well and the file can *)
(* be read (enrichment.rs:89-92, 143-149; receiver_map.rs:43-69): neither  *)
(* the round whose tick came just too early to save nor the next one,      *)
(* whose lookups come before its saving, lets a route grow older.          *)
THEOREM CrashLoses == Spec => LearnedSurvives
PROOF
  <1>1. Init => SaveInv
    BY Bounds DEF Init, EnrichmentInit, Nothing, SaveInv, RouteInv, CoverageInv, Unsaved,
                  Uncounted, TornMap
  <1>2. TypeInv /\ TickInv /\ SaveInv /\ [Next]_vars => SaveInv'
    <2>1. TypeInv /\ TickInv /\ [Next]_vars => TickInv'
      BY TickInvStep DEF TypeInv
    <2> QED
      BY <2>1, CoverageStep, RouteStep DEF SaveInv
  <1> DEFINE Survives ==
        \A readable \in SUBSET Files : Restart(readable) =>
          /\ "routes" \in readable /\ written => \A c \in Callsigns :
               routes[c] # "unknown" /\ learned[c] >= LossBound => routes'[c] = routes[c]
          /\ "map" \in readable /\ mapWritten => \A n \in 1..positions :
               taught[n] >= LossBound => n <= positions'
  <1>3. ASSUME TypeInv, TickInv, SaveInv, NEW readable \in SUBSET Files, Restart(readable)
        PROVE  /\ "routes" \in readable /\ written => \A c \in Callsigns :
                    routes[c] # "unknown" /\ learned[c] >= LossBound => routes'[c] = routes[c]
               /\ "map" \in readable /\ mapWritten => \A n \in 1..positions :
                    taught[n] >= LossBound => n <= positions'
    <2>1. /\ sinceNow \in Nat /\ longest \in Nat /\ PersistInterval \in Nat
          /\ learned \in [Callsigns -> Nat] /\ taught \in [1..MaxPositions -> Nat]
          /\ positions \in 0..MaxPositions /\ mapFile \in -1..MaxPositions
          /\ MaxPositions \in Nat /\ sinceNow <= longest
          /\ LossBound = PersistInterval + 2 * longest
      BY <1>3, Bounds DEF TypeInv, LookupTypes, LoopTypes, TickInv, LossBound
    <2>2. ASSUME NEW age \in Nat, Late(age)
          PROVE  age < LossBound
      BY <2>1, <2>2 DEF Late
    <2>3. ASSUME NEW c \in Callsigns, "routes" \in readable, written,
                 routes[c] # "unknown", learned[c] >= LossBound
          PROVE  routes'[c] = routes[c]
      <3>1. ~Late(learned[c])
        BY <2>1, <2>2, <2>3
      <3>2. Loaded(file)[c] = routes[c]
        BY <1>3, <2>3, <3>1 DEF SaveInv, RouteInv, Unsaved
      <3> QED
        BY <1>3, <2>3, <3>2 DEF Restart, NewEnrichment
    <2>4. ASSUME NEW n \in 1..positions, "map" \in readable, mapWritten, taught[n] >= LossBound
          PROVE  n <= positions'
      <3>1. n \in 1..MaxPositions /\ taught[n] \in Nat
        BY <2>1
      <3>2. ~Late(taught[n])
        BY <2>1, <2>2, <2>4, <3>1
      <3>3. n <= mapFile
        BY <1>3, <2>1, <2>4, <3>1, <3>2 DEF SaveInv, CoverageInv, Uncounted
      <3> QED
        BY <1>3, <2>1, <2>4, <3>3 DEF Restart, TornMap
    <2> QED
      BY <2>3, <2>4
  <1>4. TypeInv /\ TickInv /\ SaveInv => Survives
    BY <1>3
  <1> QED
    BY <1>1, <1>2, <1>4, BaseInvariant, PTL DEF Spec, LearnedSurvives

-----------------------------------------------------------------------------
(* The halves of a position, with how long they waited in the channel.     *)
Near(h) == h.stamp <= PairTimeout => h.sent <= h.stamp + 2 * longest
LEMMA PairStep ==
  ASSUME TypeInv, TickInv, PairInv, [Next]_vars
  PROVE  PairInv'
PROOF
  <1>1. /\ pc \in Points /\ sinceNow \in Nat /\ longest \in Nat /\ chan \in Seq(Message)
        /\ halves \in [Parities -> [stamp : Nat, sent : Nat]] /\ gap \in Nat
        /\ PairTimeout \in Nat
    BY Bounds DEF TypeInv, LookupTypes, LoopTypes
  <1>2. Waiting \in Nat /\ Waiting <= 2 * longest
    BY <1>1 DEF Waiting, TickInv
  <1>3. \A j \in DOMAIN chan : chan[j] \in Message /\ chan[j].sent \in Nat
    <2>1. \A j \in DOMAIN chan : chan[j] \in Message
      BY <1>1
    <2> QED
      BY <2>1 DEF Message
  <1>4. ASSUME UNCHANGED <<chan, halves, gap, longest>>, Waiting' \in Nat, Waiting <= Waiting'
        PROVE  PairInv'
    <2>1. \A j \in DOMAIN chan : chan[j].sent <= Waiting'
      BY <1>2, <1>3, <1>4 DEF PairInv
    <2> QED
      BY <1>4, <2>1 DEF PairInv, PairsAreNear
  <1>5. ASSUME UNCHANGED <<chan, halves, gap, pc, sinceNow, longest>>
        PROVE  PairInv'
    BY <1>5 DEF PairInv, PairsAreNear, Waiting
  <1>6. ASSUME NEW k \in Parities, Send(k)
        PROVE  PairInv'
    <2>1. /\ UNCHANGED <<halves, gap, pc, sinceNow, longest>>
          /\ chan' = Append(chan, [half |-> k, sent |-> 0])
      BY <1>6 DEF Send, enrichment
    <2>2. Waiting' = Waiting
      BY <2>1 DEF Waiting
    <2>3. ASSUME NEW j \in DOMAIN chan'
          PROVE  chan'[j].sent <= Waiting
      <3>1. (j \in DOMAIN chan /\ chan'[j] = chan[j]) \/ chan'[j] = [half |-> k, sent |-> 0]
        BY <1>1, <2>1
      <3> QED
        BY <1>2, <3>1 DEF PairInv
    <2> QED
      BY <2>1, <2>2, <2>3 DEF PairInv, PairsAreNear
  <1>7. ASSUME BeginTurn
        PROVE  PairInv'
    <2>1. /\ UNCHANGED <<chan, halves, gap, longest>>
          /\ pc = "loop" /\ pc' \in {"lookup", "save"} /\ sinceNow' = 0
      BY <1>7 DEF BeginTurn, BeginTick, outside
    <2>2. Waiting <= longest /\ Waiting' = longest
      BY <1>1, <2>1 DEF Waiting, TickInv
    <2> QED
      BY <1>1, <1>4, <2>1, <2>2
  <1>8. ASSUME TickStep, UNCHANGED <<traffic, outside>>
        PROVE  PairInv'
    <2>1. /\ UNCHANGED <<chan, halves, gap, sinceNow, longest>>
          /\ pc \notin {"rebuild", "loop"} /\ pc' \notin {"rebuild", "loop"}
      BY <1>8 DEF TickStep, Lookup, SaveBegins, SaveRefused, SaveEnds, SaveBreaks, SaveNotDue,
                  Persisted, outside, enrichment
    <2>2. Waiting' = Waiting
      BY <2>1 DEF Waiting
    <2> QED
      BY <1>2, <1>4, <2>1, <2>2
  <1>9. ASSUME Map
        PROVE  PairInv'
    <2>1. /\ UNCHANGED <<chan, halves, gap, sinceNow, longest>>
          /\ pc \notin {"rebuild", "loop"} /\ pc' \notin {"rebuild", "loop"}
      BY <1>9 DEF Map, MapBegins, MapRefused, MapEnds, MapBreaks, MapNotDue, MapUnchanged,
                  outside, enrichment
    <2>2. Waiting' = Waiting
      BY <2>1 DEF Waiting
    <2> QED
      BY <1>2, <1>4, <2>1, <2>2
  <1>10. ASSUME Drain
         PROVE  PairInv'
    <2>1. /\ pc = "drain" /\ chan # <<>> /\ chan' = Tail(chan)
          /\ UNCHANGED <<pc, sinceNow, longest>>
      BY <1>10 DEF Drain, enrichment
    <2>2. Waiting' = Waiting
      BY <2>1 DEF Waiting
    <2>3. PICK m : m = Head(chan)
      OBVIOUS
    <2>4. m \in Message /\ m.sent \in Nat /\ m.sent <= 2 * longest /\ m.half \in Parities
      <3>1. m = chan[1] /\ 1 \in DOMAIN chan
        BY <1>1, <2>1, <2>3
      <3>2. m \in Message /\ m.sent \in Nat /\ m.sent <= Waiting
        BY <1>3, <3>1 DEF PairInv
      <3>3. m.half \in Parities
        BY <3>2 DEF Message
      <3> QED
        BY <1>1, <1>2, <3>2, <3>3
    <2>5. PICK o \in Parities :
            /\ Updated(m).halves = [halves EXCEPT ![m.half] = [stamp |-> 0, sent |-> m.sent]]
            /\ Updated(m).gap = IF halves[o].stamp <= PairTimeout
                                THEN Distance(halves[o].sent, m.sent) ELSE gap
      BY <2>4, UpdatedBy DEF TypeInv
    <2>6. /\ halves' = [halves EXCEPT ![m.half] = [stamp |-> 0, sent |-> m.sent]]
          /\ gap' = IF halves[o].stamp <= PairTimeout
                    THEN Distance(halves[o].sent, m.sent) ELSE gap
      BY <1>10, <2>3, <2>5 DEF Drain
    <2>7. gap' <= PairTimeout + 2 * longest
      <3>1. halves[o].stamp \in Nat /\ halves[o].sent \in Nat
        BY <1>1
      <3>2. CASE halves[o].stamp <= PairTimeout
        <4>1. halves[o].sent <= PairTimeout + 2 * longest
          BY <1>1, <3>1, <3>2 DEF PairInv
        <4>2. gap' = Distance(halves[o].sent, m.sent)
          BY <2>6, <3>2
        <4> QED
          BY <1>1, <2>4, <3>1, <4>1, <4>2 DEF Distance
      <3>3. CASE ~(halves[o].stamp <= PairTimeout)
        BY <2>6, <3>3 DEF PairInv, PairsAreNear
      <3> QED
        BY <3>2, <3>3
    <2>8. \A k \in Parities : Near(halves'[k])
      <3>1. halves'[m.half] = [stamp |-> 0, sent |-> m.sent]
        BY <1>1, <2>4, <2>6
      <3>2. Near([stamp |-> 0, sent |-> m.sent])
        BY <1>1, <2>4 DEF Near
      <3>3. \A k \in Parities : k # m.half => halves'[k] = halves[k]
        BY <1>1, <2>6
      <3> QED
        BY <3>1, <3>2, <3>3 DEF PairInv, Near
    <2>9. \A j \in DOMAIN chan' : chan'[j].sent <= Waiting
      <3>1. /\ Len(Tail(chan)) = Len(chan) - 1 /\ Tail(chan) \in Seq(Message)
            /\ \A j \in 1..Len(Tail(chan)) : Tail(chan)[j] = chan[j + 1]
        BY <1>1, <2>1, HeadTailProperties
      <3>2. \A j \in DOMAIN chan' : j + 1 \in DOMAIN chan /\ chan'[j] = chan[j + 1]
        BY <1>1, <2>1, <3>1
      <3> QED
        BY <3>2 DEF PairInv
    <2> QED
      BY <2>1, <2>2, <2>7, <2>8, <2>9 DEF PairInv, PairsAreNear, Near
  <1>11. ASSUME Drained \/ Rebuilt
         PROVE  PairInv'
    <2>1. /\ UNCHANGED <<chan, halves, gap, sinceNow, longest>>
          /\ Drained => chan = <<>>
          /\ Rebuilt => pc = "rebuild" /\ pc' = "loop"
      BY <1>11 DEF Drained, Rebuilt, enrichment, outside
    <2>2. CASE Drained
      BY <2>1, <2>2 DEF PairInv, PairsAreNear
    <2>3. CASE Rebuilt
      BY <2>1, <2>3, <1>2, <1>4 DEF Waiting
    <2> QED
      BY <1>11, <2>2, <2>3
  <1>12. ASSUME NEW readable, Restart(readable)
         PROVE  PairInv'
    <2>1. /\ chan' = <<>> /\ halves' = [k \in Parities |-> NoHalf]
          /\ UNCHANGED <<gap, longest>>
      BY <1>12 DEF Restart, NewEnrichment
    <2>2. ~(NoHalf.stamp <= PairTimeout)
      BY <1>1 DEF NoHalf
    <2> QED
      BY <2>1, <2>2 DEF PairInv, PairsAreNear
  <1>13. ASSUME Clock
         PROVE  PairInv'
    <2>1. /\ pc' = pc /\ gap' = gap
          /\ sinceNow' = sinceNow + 1
          /\ longest' = IF sinceNow < longest THEN longest ELSE sinceNow + 1
          /\ chan' = [j \in DOMAIN chan |-> [chan[j] EXCEPT !.sent = Older(@, AgeCap)]]
          /\ halves' = [k \in Parities |-> [stamp |-> Older(halves[k].stamp, PairTimeout + 1),
                                            sent |-> Older(halves[k].sent, AgeCap)]]
      BY <1>13 DEF Clock, EnrichmentAges
    <2>2. /\ Waiting' \in Nat /\ Waiting' >= Waiting + 1
          /\ longest' \in Nat /\ longest' >= longest
      BY <1>1, <2>1 DEF Waiting
    <2>3. ASSUME NEW j \in DOMAIN chan'
          PROVE  chan'[j].sent <= Waiting'
      <3>1. j \in DOMAIN chan /\ chan'[j] = [chan[j] EXCEPT !.sent = Older(@, AgeCap)]
        BY <2>1
      <3>2. chan'[j].sent = Older(chan[j].sent, AgeCap)
        BY <1>3, <3>1 DEF Message
      <3>3. chan[j].sent \in Nat /\ chan[j].sent <= Waiting
        BY <1>3, <3>1 DEF PairInv
      <3>4. Older(chan[j].sent, AgeCap) \in Nat /\ Older(chan[j].sent, AgeCap) <= chan[j].sent + 1
        BY <3>3, OlderByOne
      <3> QED
        BY <1>2, <2>2, <3>2, <3>3, <3>4
    <2>4. ASSUME NEW k \in Parities
          PROVE  Near(halves[k])'
      <3>1. halves[k].stamp \in Nat /\ halves[k].sent \in Nat /\ Near(halves[k])
        BY <1>1 DEF PairInv, Near
      <3>2. /\ halves'[k].stamp = Older(halves[k].stamp, PairTimeout + 1)
            /\ halves'[k].sent = Older(halves[k].sent, AgeCap)
        BY <2>1
      <3> QED
        BY <1>1, <2>2, <3>1, <3>2 DEF Older, Near
    <2>5. gap' <= PairTimeout + 2 * longest'
      BY <1>1, <2>1, <2>2 DEF PairInv, PairsAreNear
    <2>6. (\A j \in DOMAIN chan : chan[j].sent <= Waiting)'
      BY <2>3
    <2>7. (\A k \in Parities : halves[k].stamp <= PairTimeout =>
             halves[k].sent <= halves[k].stamp + 2 * longest)'
      BY <2>4 DEF Near
    <2> QED
      BY <2>5, <2>6, <2>7 DEF PairInv, PairsAreNear
  <1>14. ASSUME NEW c \in Callsigns, HearCallsign(c)
         PROVE  PairInv'
    BY <1>5, <1>14 DEF HearCallsign, GetRoute, outside
  <1>15. ASSUME NEW i \in Icaos, HearFrame(i)
         PROVE  PairInv'
    BY <1>5, <1>15 DEF HearFrame, enrichment
  <1>16. ASSUME Teach \/ UNCHANGED vars
         PROVE  PairInv'
    BY <1>5, <1>16 DEF Teach, vars, enrichment, outside
  <1> QED
    BY <1>6, <1>7, <1>8, <1>9, <1>10, <1>11, <1>12, <1>13, <1>14, <1>15, <1>16
       DEF Next, Hear, Loop, Turn

(* Only halves that were sent within CPR_PAIR_TIMEOUT and two rounds of    *)
(* each other are paired, however long those are: the stamps are of the    *)
(* drain (ingest.rs:246-254, aircraft.rs:281), which empties the channel   *)
(* once in every round.                                                    *)
THEOREM PairedAreNear == Spec => []PairsAreNear
PROOF
  <1>1. Init => PairInv
    <2>1. ~(NoHalf.stamp <= PairTimeout)
      BY Bounds DEF NoHalf
    <2> QED
      BY <2>1, Bounds DEF Init, EnrichmentInit, PairInv, PairsAreNear
  <1>2. TypeInv /\ TickInv /\ PairInv /\ [Next]_vars => PairInv'
    BY PairStep
  <1>3. PairInv => PairsAreNear
    BY DEF PairInv
  <1> QED
    BY <1>1, <1>2, <1>3, BaseInvariant, PTL DEF Spec

-----------------------------------------------------------------------------
(* Who waits for a lookup.  Positions of the two queues are told apart by  *)
(* what happens to them: an unknown callsign is appended, the head of the  *)
(* pending ones becomes the batch, and the head of the batch is looked up. *)
Ready(c) == routes[c] = "unknown" /\ failed[c] >= RetryAfter
Once(s) == \A j, l \in DOMAIN s : s[j] = s[l] => j = l
Apart(s, t) == \A j \in DOMAIN s, l \in DOMAIN t : s[j] # t[l]
Close == \A c \in Callsigns : routes[c] = "unknown" => failed[c] <= asked[c] + longest
LEMMA WaitParts ==
  WaitInv <=> /\ Once(batch) /\ Once(pending) /\ Apart(batch, pending)
              /\ \A j \in DOMAIN batch : Ready(batch[j])
              /\ \A j \in DOMAIN pending : Ready(pending[j])
              /\ Close
PROOF
  BY DEF WaitInv, Once, Apart, Ready, Close

LEMMA WaitStep ==
  ASSUME TypeInv, TickInv, WaitInv, [Next]_vars
  PROVE  WaitInv'
PROOF
  <1>1. /\ pc \in Points /\ sinceNow \in Nat
        /\ pending \in Seq(Callsigns) /\ batch \in Seq(Callsigns)
        /\ routes \in [Callsigns -> Known \cup {"unknown"}]
        /\ failed \in [Callsigns -> Nat] /\ asked \in [Callsigns -> Nat]
        /\ RetryAfter \in Nat /\ longest \in Nat
    BY Bounds DEF TypeInv, LookupTypes
  <1>2. /\ Once(batch) /\ Once(pending) /\ Apart(batch, pending)
        /\ \A j \in DOMAIN batch : Ready(batch[j])
        /\ \A j \in DOMAIN pending : Ready(pending[j])
        /\ Close
    BY WaitParts
  <1>3. ASSUME UNCHANGED <<pending, batch, routes, failed, asked, longest>>
        PROVE  WaitInv'
    BY <1>3 DEF WaitInv
  <1>4. ASSUME NEW c \in Callsigns, HearCallsign(c)
        PROVE  WaitInv'
    <2>1. /\ pc = "loop" /\ UNCHANGED <<batch, routes, failed, asked, longest>>
          /\ pending' = IF MayQueue(c) THEN Append(pending, c) ELSE pending
      BY <1>4 DEF HearCallsign, GetRoute
    <2>2. CASE MayQueue(c)
      <3>1. batch = <<>>
        BY <2>1 DEF TickInv
      <3>2. /\ \A j \in DOMAIN pending : pending[j] # c
            /\ Ready(c)
        BY <1>1, <2>2 DEF MayQueue, Contains, Ready
      <3>3. /\ DOMAIN pending' = DOMAIN pending \cup {Len(pending) + 1}
            /\ pending'[Len(pending) + 1] = c
            /\ \A j \in DOMAIN pending : pending'[j] = pending[j]
        BY <1>1, <2>1, <2>2
      <3>4. Once(pending)'
        BY <1>2, <3>2, <3>3 DEF Once
      <3>5. \A j \in DOMAIN pending' : Ready(pending'[j])
        BY <1>2, <3>2, <3>3
      <3>6. (\A j \in DOMAIN pending : Ready(pending[j]))'
        BY <2>1, <3>5 DEF Ready
      <3> QED
        BY <2>1, <3>1, <3>4, <3>6, <1>2 DEF WaitInv, Once, Ready, Close
    <2>3. CASE ~MayQueue(c)
      BY <1>3, <2>1, <2>3
    <2> QED
      BY <2>2, <2>3
  <1>5. ASSUME BeginTurn
        PROVE  WaitInv'
    <2>1. CASE BatchDue
      <3>1. /\ batch' = SubSeq(pending, 1, BatchLen)
            /\ pending' = SubSeq(pending, BatchLen + 1, Len(pending))
            /\ UNCHANGED <<routes, failed, asked, longest>>
        BY <1>5, <2>1 DEF BeginTurn, BeginTick
      <3>2. PICK b : b = BatchLen
        OBVIOUS
      <3>3. PICK n : n = Len(pending)
        OBVIOUS
      <3>4. b \in 0..n /\ n \in Nat /\ DOMAIN pending = 1..n
        BY <1>1, <3>2, <3>3, Bounds DEF BatchLen
      <3>5. \A j \in 1..n : pending[j] \in Callsigns
        BY <1>1, <3>4
      <3>6. /\ Len(batch') = b /\ batch' \in Seq(Callsigns)
            /\ \A j \in 1..b : batch'[j] = pending[j]
        BY <3>1, <3>2, <3>4, <3>5, SubSeqProperties
      <3>7. /\ Len(pending') = n - b /\ pending' \in Seq(Callsigns)
            /\ \A j \in 1..(n - b) : pending'[j] = pending[b + j]
        BY <3>1, <3>2, <3>3, <3>4, <3>5, SubSeqProperties
      <3>8. DOMAIN batch' = 1..b /\ DOMAIN pending' = 1..(n - b)
        BY <3>6, <3>7
      <3>9. /\ \A j \in DOMAIN batch' : j \in DOMAIN pending /\ batch'[j] = pending[j]
            /\ \A j \in DOMAIN pending' : b + j \in DOMAIN pending /\ pending'[j] = pending[b + j]
        BY <3>4, <3>6, <3>7, <3>8
      <3>10. Once(batch)' /\ Once(pending)'
        BY <1>2, <3>4, <3>8, <3>9 DEF Once
      <3>11. Apart(batch, pending)'
        <4> SUFFICES ASSUME NEW j \in DOMAIN batch', NEW l \in DOMAIN pending',
                            batch'[j] = pending'[l]
                     PROVE  FALSE
          BY DEF Apart
        <4>1. j = b + l
          BY <1>2, <3>9 DEF Once
        <4> QED
          BY <3>4, <3>8, <4>1
      <3>12. /\ (\A j \in DOMAIN batch : Ready(batch[j]))'
             /\ (\A j \in DOMAIN pending : Ready(pending[j]))'
        BY <1>2, <3>1, <3>9 DEF Ready
      <3>13. Close'
        BY <1>2, <3>1 DEF Close
      <3> QED
        BY <3>10, <3>11, <3>12, <3>13 DEF WaitInv, Once, Apart, Ready, Close
    <2>2. CASE ~BatchDue
      BY <1>3, <1>5, <2>2 DEF BeginTurn, BeginTick
    <2> QED
      BY <2>1, <2>2
  <1>6. ASSUME Lookup
        PROVE  WaitInv'
    <2>1. /\ pc = "lookup" /\ batch # <<>> /\ batch' = Tail(batch) /\ pending' = pending
          /\ asked' = [asked EXCEPT ![Head(batch)] = 0]
          /\ sinceNow <= longest /\ longest' = longest
      BY <1>6 DEF Lookup, TickInv
    <2>2. PICK c : c = Head(batch)
      OBVIOUS
    <2>3. /\ c \in Callsigns /\ c = batch[1] /\ 1 \in DOMAIN batch
          /\ \A j \in DOMAIN batch' : j + 1 \in DOMAIN batch /\ j + 1 # 1 /\ j \in Nat
                                      /\ batch'[j] = batch[j + 1]
      <3>1. /\ Head(batch) \in Callsigns /\ Tail(batch) \in Seq(Callsigns)
            /\ Len(Tail(batch)) = Len(batch) - 1
            /\ \A j \in 1..Len(Tail(batch)) : Tail(batch)[j] = batch[j + 1]
        BY <1>1, <2>1, HeadTailProperties
      <3>2. c = batch[1] /\ 1 \in DOMAIN batch
        BY <1>1, <2>1, <2>2
      <3> QED
        BY <1>1, <2>1, <2>2, <3>1, <3>2
    <2>4. /\ \A j \in DOMAIN batch' : batch'[j] # c
          /\ \A j \in DOMAIN pending : pending[j] # c
      BY <1>2, <2>3 DEF Once, Apart
    <2>5. Once(batch)'
      BY <1>2, <2>3 DEF Once
    <2>6. Apart(batch, pending)'
      BY <1>2, <2>1, <2>3 DEF Apart
    <2>7. \/ failed' = [failed EXCEPT ![c] = sinceNow] /\ routes' = routes
          \/ (\E a \in Known : routes' = [routes EXCEPT ![c] = a]) /\ failed' = failed
      BY <1>6, <2>1, <2>2, LookupCases DEF TypeInv
    <2>8. ASSUME NEW d \in Callsigns, d # c
          PROVE  failed'[d] = failed[d] /\ routes'[d] = routes[d] /\ asked'[d] = asked[d]
      BY <1>1, <2>1, <2>2, <2>7, <2>8
    <2>9. \A d \in Callsigns : d # c /\ Ready(d) => Ready(d)'
      BY <2>8 DEF Ready
    <2>10. (\A j \in DOMAIN batch : Ready(batch[j]))'
      <3>1. \A j \in DOMAIN batch' : batch'[j] \in Callsigns /\ Ready(batch'[j])
        BY <1>1, <1>2, <2>3
      <3>2. \A j \in DOMAIN batch' :
              routes'[batch'[j]] = "unknown" /\ failed'[batch'[j]] >= RetryAfter
        BY <2>4, <2>8, <3>1 DEF Ready
      <3> QED
        BY <3>2 DEF Ready
    <2>11. (\A j \in DOMAIN pending : Ready(pending[j]))'
      <3>1. \A j \in DOMAIN pending : pending[j] \in Callsigns /\ Ready(pending[j])
        BY <1>1, <1>2
      <3>2. \A j \in DOMAIN pending :
              routes'[pending[j]] = "unknown" /\ failed'[pending[j]] >= RetryAfter
        BY <2>4, <2>8, <3>1 DEF Ready
      <3> QED
        BY <2>1, <3>2 DEF Ready
    <2>12. Close'
      <3>1. routes'[c] = "unknown" => failed'[c] <= asked'[c] + longest'
        <4>1. asked'[c] = 0
          BY <1>1, <2>1, <2>2, <2>3
        <4>2. CASE failed' = [failed EXCEPT ![c] = sinceNow]
          <5>1. failed'[c] = sinceNow
            BY <1>1, <2>3, <4>2
          <5> QED
            BY <1>1, <2>1, <4>1, <5>1
        <4>3. CASE \E a \in Known : routes' = [routes EXCEPT ![c] = a]
          BY <1>1, <2>3, <4>3 DEF Known
        <4> QED
          BY <2>7, <4>2, <4>3
      <3>2. ASSUME NEW d \in Callsigns, d # c, routes'[d] = "unknown"
            PROVE  failed'[d] <= asked'[d] + longest'
        BY <1>2, <2>1, <2>8, <3>2 DEF Close
      <3> QED
        BY <3>1, <3>2 DEF Close
    <2>13. Once(pending)'
      BY <1>2, <2>1 DEF Once
    <2> QED
      BY <2>5, <2>6, <2>10, <2>11, <2>12, <2>13 DEF WaitInv, Once, Apart, Ready, Close
  <1>7. ASSUME NEW readable, Restart(readable)
        PROVE  WaitInv'
    <2>1. /\ pending' = <<>> /\ batch' = <<>> /\ longest' = longest
          /\ failed' = [c \in Callsigns |-> RetryAfter]
          /\ asked' = [c \in Callsigns |-> RetryAfter]
      BY <1>7 DEF Restart, NewEnrichment
    <2> QED
      BY <1>1, <2>1 DEF WaitInv
  <1>8. ASSUME Clock
        PROVE  WaitInv'
    <2>1. /\ UNCHANGED <<routes, pending, batch>>
          /\ longest' = IF sinceNow < longest THEN longest ELSE sinceNow + 1
          /\ failed' = [c \in Callsigns |-> Older(failed[c], RetryAfter)]
          /\ asked' = [c \in Callsigns |-> Older(asked[c], RetryAfter)]
      BY <1>8 DEF Clock, EnrichmentAges
    <2>2. \A c \in Callsigns : Ready(c) => routes'[c] = "unknown" /\ failed'[c] >= RetryAfter
      BY <1>1, <2>1 DEF Ready, Older
    <2>3. /\ \A j \in DOMAIN batch : batch[j] \in Callsigns
          /\ \A j \in DOMAIN pending : pending[j] \in Callsigns
      BY <1>1
    <2>4. /\ (\A j \in DOMAIN batch : Ready(batch[j]))'
          /\ (\A j \in DOMAIN pending : Ready(pending[j]))'
      BY <1>2, <2>1, <2>2, <2>3 DEF Ready
    <2>5. Close'
      BY <1>1, <1>2, <2>1 DEF Close, Older
    <2> QED
      BY <1>2, <2>1, <2>4, <2>5 DEF WaitInv, Once, Apart, Ready, Close
  <1>9. ASSUME SaveBegins \/ SaveRefused \/ SaveEnds \/ SaveBreaks \/ SaveNotDue \/ Map
        PROVE  WaitInv'
    BY <1>3, <1>9 DEF SaveBegins, SaveRefused, SaveEnds, SaveBreaks, SaveNotDue, Persisted, Map,
                      MapBegins, MapRefused, MapEnds, MapBreaks, MapNotDue, MapUnchanged, enrichment
  <1>10. ASSUME NEW i \in Icaos, HearFrame(i)
         PROVE  WaitInv'
    BY <1>3, <1>10 DEF HearFrame, enrichment
  <1>11. ASSUME NEW k \in Parities, Send(k)
         PROVE  WaitInv'
    BY <1>3, <1>11 DEF Send, enrichment
  <1>12. ASSUME Teach \/ Drain \/ Drained \/ Rebuilt \/ UNCHANGED vars
         PROVE  WaitInv'
    BY <1>3, <1>12 DEF Teach, Drain, Drained, Rebuilt, vars, enrichment
  <1> QED
    BY <1>4, <1>5, <1>6, <1>7, <1>8, <1>9, <1>10, <1>11, <1>12
       DEF Next, Hear, Loop, Turn, TickStep

(* Only callsigns without a route are asked for, and one that was asked    *)
(* for lately is not asked for again before RETRY_AFTER, less a round of   *)
(* the loop: its failure is stamped with the beginning of the batch        *)
(* (enrichment.rs:47-61, 77-90).  It holds whatever waits in the *)
(* queue, because nobody waits twice and nobody fails while waiting.       *)
THEOREM LookupsAreSparse == Spec => AskedSparingly
PROOF
  <1>1. Init => WaitInv
    BY Bounds DEF Init, EnrichmentInit, WaitInv
  <1>2. TypeInv /\ TickInv /\ WaitInv /\ [Next]_vars => WaitInv'
    BY WaitStep
  <1> DEFINE Sparse(c) ==
        asked'[c] = 0 /\ asked[c] # 0 => routes[c] = "unknown" /\ asked[c] >= RetryAfter - longest
  <1>3. ASSUME TypeInv, TickInv, WaitInv, [Next]_vars, NEW c \in Callsigns
        PROVE  Sparse(c)
    <2>1. /\ failed \in [Callsigns -> Nat] /\ asked \in [Callsigns -> Nat]
          /\ batch \in Seq(Callsigns)
          /\ RetryAfter \in Nat /\ RetryAfter > 0 /\ longest \in Nat
      BY <1>3, Bounds DEF TypeInv, LookupTypes
    <2>2. CASE Lookup
      <3>1. batch # <<>> /\ asked' = [asked EXCEPT ![Head(batch)] = 0]
        BY <1>3, <2>2 DEF Lookup, TickInv
      <3>2. 1 \in DOMAIN batch /\ Head(batch) = batch[1]
        BY <2>1, <3>1
      <3>3. Ready(Head(batch))
        BY <1>3, <3>2, WaitParts
      <3>4. CASE c = Head(batch)
        <4>1. failed[c] <= asked[c] + longest /\ routes[c] = "unknown" /\ failed[c] >= RetryAfter
          BY <1>3, <3>3, <3>4 DEF WaitInv, Ready
        <4> QED
          BY <2>1, <4>1
      <3>5. CASE c # Head(batch)
        BY <2>1, <3>1, <3>5
      <3> QED
        BY <3>4, <3>5
    <2>3. ASSUME NEW readable, Restart(readable)
          PROVE  Sparse(c)
      <3>1. asked'[c] = RetryAfter
        BY <2>3 DEF Restart, NewEnrichment
      <3> QED
        BY <2>1, <3>1
    <2>4. CASE Clock
      <3>1. asked'[c] = Older(asked[c], RetryAfter)
        BY <2>4 DEF Clock, EnrichmentAges
      <3> QED
        BY <2>1, <3>1 DEF Older
    <2>5. CASE UNCHANGED asked
      BY <2>5
    <2>6. ASSUME NEW d \in Callsigns, HearCallsign(d)
          PROVE  UNCHANGED asked
      BY <2>6 DEF HearCallsign, GetRoute
    <2>7. ASSUME NEW i \in Icaos, HearFrame(i)
          PROVE  UNCHANGED asked
      BY <2>7 DEF HearFrame, enrichment
    <2>8. ASSUME NEW k \in Parities, Send(k)
          PROVE  UNCHANGED asked
      BY <2>8 DEF Send, enrichment
    <2>9. ASSUME \/ Teach \/ BeginTurn \/ SaveBegins \/ SaveRefused \/ SaveEnds \/ SaveBreaks
                 \/ SaveNotDue \/ Map \/ Drain \/ Drained \/ Rebuilt \/ UNCHANGED vars
          PROVE  UNCHANGED asked
      BY <2>9 DEF Teach, BeginTurn, BeginTick, SaveBegins, SaveRefused, SaveEnds, SaveBreaks,
                  SaveNotDue, Persisted, Map, MapBegins, MapRefused, MapEnds, MapBreaks,
                  MapNotDue, MapUnchanged, Drain, Drained, Rebuilt, vars, enrichment
    <2> QED
      BY <1>3, <2>2, <2>3, <2>4, <2>5, <2>6, <2>7, <2>8, <2>9
         DEF Next, Hear, Loop, Turn, TickStep
  <1>4. TypeInv /\ TickInv /\ WaitInv /\ [Next]_vars => \A c \in Callsigns : Sparse(c)
    BY <1>3
  <1> QED
    BY <1>1, <1>2, <1>4, BaseInvariant, PTL DEF Spec, AskedSparingly
=============================================================================

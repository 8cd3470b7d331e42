--------------------------- MODULE AircraftStore ----------------------------
(***************************************************************************)
(* How an aircraft gets its position: Store of src/src/decode/aircraft.rs, *)
(* with the self-learned coverage of src/src/decode/receiver_map.rs.       *)
(*                                                                         *)
(* A position frame holds one half (even or odd) of a compressed position. *)
(* The first position of an aircraft needs both halves from one receiver   *)
(* ("global" decode), later ones a single frame and the previous position  *)
(* ("relative" decode).  A new position must pass the speed check, and     *)
(* then the coverage learned for the receiver of the message, or the       *)
(* aircraft loses its position and starts again.                           *)
(*                                                                         *)
(* Places lie on a meridian.  A tick is the 0.1 s below which the speed    *)
(* check is not made, and the clock is assumed never to be set back.  Ages *)
(* saturate once every comparison with them is decided.                    *)
(***************************************************************************)
EXTENDS Integers, Sequences

CONSTANTS
  Icaos,         \* aircraft
  Receivers,     \* receiver ids
  NoId,          \* receiver id 0: the feeder has not said who it is
  Places,        \* positions
  Polar,         \* those beyond 82 degrees of latitude
  Reach,         \* what an aircraft covers in a tick at SPEED_MAX_KT
  HalfCell,      \* how far a relative decode sees
  PairGap,       \* how far apart the halves of one position may be
  TrustRange,    \* the 27 nm of the fast track
  PairTimeout,   \* CPR_PAIR_TIMEOUT
  StaleTimeout,  \* STALE_TIMEOUT
  AgeCap,        \* bound: an age after which no distance is too long
  MinPositions,  \* MIN_POSITIONS
  MaxRange,      \* MAX_RANGE_KM
  GrowthMargin,  \* GROWTH_MARGIN_KM
  MaxTrace       \* the 1000 points of a trace

None == -1
Ids == Receivers \cup {NoId}
Parities == {"even", "odd"}
Distance(p, q) == IF p > q THEN p - q ELSE q - p

ASSUME StoreAssumption ==
  /\ NoId \notin Receivers
  /\ Places \subseteq Nat
  /\ Polar \subseteq Places
  /\ {Reach, HalfCell, PairGap, TrustRange, PairTimeout, MaxRange} \subseteq Nat
  /\ {StaleTimeout, AgeCap, MinPositions, GrowthMargin, MaxTrace} \subseteq Nat \ {0}
  /\ \A p, q \in Places : Distance(p, q) <= Reach * AgeCap

VARIABLES
  seen,      \* age of the last message of each aircraft, or None: not in map
  slots,     \* cpr_slots: the halves heard by each receiver
  latest,    \* cpr_even and cpr_odd: the halves heard last by anyone
  fix,       \* the reference position, its reliability, and lat/lon
  trace,     \* the positions published, for /api/trace
  coverage,  \* ReceiverMap.receivers
  pub        \* history: what the last step has published, or Nothing

vars == <<seen, slots, latest, fix, trace, coverage, pub>>

PlaceOrNone == Places \cup {None}
Slot == [at : [Parities -> PlaceOrNone], newest : Parities,
         age : 0..(PairTimeout + 1), gap : 0..(PairTimeout + 1)]
NoSlot == [at |-> [k \in Parities |-> None], newest |-> "even", age |-> 0, gap |-> 0]

Half == [place : PlaceOrNone, rid : Ids]
NoHalf == [place |-> None, rid |-> NoId]
Halves == [at : [Parities -> Half], newest : Parities]
NoHalves == [at |-> [k \in Parities |-> NoHalf], newest |-> "even"]

Fix == [prev : PlaceOrNone, age : 0..AgeCap, odd : 0..2, even : 0..2, lat : PlaceOrNone]
NoFix == [prev |-> None, age |-> 0, odd |-> 0, even |-> 0, lat |-> None]

Unknown == [lo |-> None, hi |-> None, n |-> 0]

Nothing == <<>>

Init ==
  /\ seen = [i \in Icaos |-> None]
  /\ slots = [i \in Icaos |-> [r \in Ids |-> NoSlot]]
  /\ latest = [i \in Icaos |-> NoHalves]
  /\ fix = [i \in Icaos |-> NoFix]
  /\ trace = [i \in Icaos |-> <<>>]
  /\ coverage = [r \in Receivers |-> Unknown]
  /\ pub = Nothing

-----------------------------------------------------------------------------
(* The two stores of halves; gap is the time between them, 0 for one half. *)
Older(age, cap) == IF age < cap THEN age + 1 ELSE age
Capped(n, cap) == IF n > cap THEN cap ELSE n

Heard(s, p, k) ==
  [at |-> [s.at EXCEPT ![k] = p], newest |-> k, age |-> 0,
   gap |-> IF \E j \in Parities \ {k} : s.at[j] = None THEN 0
           ELSE IF k = s.newest THEN Capped(s.gap + s.age, PairTimeout + 1) ELSE s.age]
HeardLast(l, p, r, k) ==
  [at |-> [l.at EXCEPT ![k] = [place |-> p, rid |-> r]], newest |-> k]

Paired(s) == (\A k \in Parities : s.at[k] # None) /\ s.gap <= PairTimeout

(* The half a relative decode uses: the newest one, but one that was heard *)
(* by an unidentified receiver is passed over for the other.               *)
Identified(l) == {k \in Parities : l.at[k].place # None /\ l.at[k].rid # NoId}
Chosen(l) == IF l.newest \in Identified(l) THEN {l.newest} ELSE Identified(l)

-----------------------------------------------------------------------------
(* What a decode can give (cpr.rs): two halves that belong together give   *)
(* the place of the newer one, a half near the reference its own place,    *)
(* unless a zone boundary is in between; others give any place in reach.   *)
Global(s) ==
  {None} \cup
  IF Distance(s.at["even"], s.at["odd"]) <= PairGap THEN {s.at[s.newest]} ELSE Places
Relative(ref, p) ==
  {None} \cup
  IF Distance(ref, p) <= HalfCell THEN {p}
  ELSE {q \in Places : Distance(ref, q) <= HalfCell}

(* speed_check; a move is along the reported track or against it.          *)
Courses == {"along", "against"}
SpeedOkOften(f, p, course) ==  \* seeded bug: the exemption lasts a tick longer
  /\ p \notin Polar
  /\ \/ f.prev = None
     \/ f.age <= 1
     \/ Distance(f.prev, p) <= Reach * f.age /\ course = "along"
SpeedOk(f, p, course) ==
  /\ p \notin Polar
  /\ \/ f.prev = None
     \/ f.age = 0
     \/ Distance(f.prev, p) <= Reach * f.age /\ course = "along"

(* A position is taken: it becomes the reference, the halves it used count *)
(* as reliable, and it is published when both do.                          *)
Counted(n, up) == IF up THEN Capped(n + 1, 2) ELSE n
Taken(f, p, halves) ==
  LET odd == Counted(f.odd, "odd" \in halves)
      even == Counted(f.even, "even" \in halves)
  IN [prev |-> p, age |-> 0, odd |-> odd, even |-> even,
      lat |-> IF odd >= 1 /\ even >= 1 THEN p ELSE f.lat]

(* try_position: the fixes it can leave, and whether it has published.     *)
Kept(f) == [fix |-> f, published |-> FALSE]
Published(f) == [fix |-> f, published |-> f.odd >= 1 /\ f.even >= 1]
Moved(f, p, course, halves) ==
  IF p # None /\ SpeedOk(f, p, course) THEN Published(Taken(f, p, halves)) ELSE Kept(f)
FromHalf(f, h, k) ==
  {Moved(f, p, course, {k}) : p \in Relative(f.prev, h.place), course \in Courses}
ByRelative(f, l) ==
  IF Chosen(l) = {} THEN {Kept(f)} ELSE UNION {FromHalf(f, l.at[k], k) : k \in Chosen(l)}

(* A global decode that fails the speed check counts against the newer     *)
(* half; a reset is due when one has no credit left.  A position that is   *)
(* close to the published one is trusted at once.                          *)
Credited(f, odd, even) ==
  [prev |-> f.prev, age |-> f.age, odd |-> odd, even |-> even, lat |-> f.lat]
Blamed(f, k) ==
  LET odd == IF k = "odd" THEN f.odd - 1 ELSE f.odd
      even == IF k = "even" THEN f.even - 1 ELSE f.even
  IN IF odd < 0 \/ even < 0 THEN NoFix ELSE Credited(f, odd, even)
Trusted(f, p) ==
  IF f.lat # None /\ Distance(f.lat, p) < TrustRange
  THEN Credited(f, 2, 2) ELSE f
FromPair(f, s) ==
  {IF p = None THEN Kept(f)
   ELSE IF ~SpeedOk(f, p, course) THEN Kept(Blamed(f, s.newest))
   ELSE Published(Taken(Trusted(f, p), p, Parities))
   : p \in Global(s), course \in Courses}
ByGlobal(f, ss) ==
  LET pairs == {r \in Ids : Paired(ss[r])}
  IN IF pairs = {} THEN {Kept(f)} ELSE UNION {FromPair(f, ss[r]) : r \in pairs}

TryPosition(f, l, ss) == IF f.prev # None THEN ByRelative(f, l) ELSE ByGlobal(f, ss)

-----------------------------------------------------------------------------
(* receiver_map.rs.  In one dimension the centre and the range of an       *)
(* extent are half the sum and half the difference of its ends.            *)
CheckPositionLate(r, p) ==  \* seeded bug: off by one where the count saturates
  \/ r = NoId
  \/ coverage[r].n <= MinPositions
  \/ LET e == coverage[r]
     IN Distance(2 * p, e.lo + e.hi) < (e.hi - e.lo) + 2 * MaxRange
CheckPosition(r, p) ==
  \/ r = NoId
  \/ coverage[r].n < MinPositions
  \/ LET e == coverage[r]
     IN Distance(2 * p, e.lo + e.hi) < (e.hi - e.lo) + 2 * MaxRange

LearnedInward(e, p) ==  \* seeded bug: the comparisons are swapped
  IF e = Unknown THEN [lo |-> p, hi |-> p, n |-> 1]
  ELSE [lo |-> IF p > e.lo /\ p - e.lo < GrowthMargin THEN p ELSE e.lo,
        hi |-> IF p < e.hi /\ e.hi - p < GrowthMargin THEN p ELSE e.hi,
        n |-> Capped(e.n + 1, MinPositions)]
Learned(e, p) ==
  IF e = Unknown THEN [lo |-> p, hi |-> p, n |-> 1]
  ELSE [lo |-> IF p < e.lo /\ e.lo - p < GrowthMargin THEN p ELSE e.lo,
        hi |-> IF p > e.hi /\ p - e.hi < GrowthMargin THEN p ELSE e.hi,
        n |-> Capped(e.n + 1, MinPositions)]
PositionReceived(r, p) ==
  coverage' = IF r = NoId THEN coverage ELSE [coverage EXCEPT ![r] = Learned(@, p)]

Recorded(s, p) ==
  LET all == Append(s, p) IN IF Len(all) > MaxTrace THEN Tail(all) ELSE all

-----------------------------------------------------------------------------
(* A position out of the receiver's range is taken back. *)
RevokedInPart(f) ==  \* seeded bug: the reference stays
  [prev |-> f.prev, age |-> f.age, odd |-> 0, even |-> 0, lat |-> None]
Revoked(f) == NoFix

(* update with a position frame: store the half, try for a position, and   *)
(* validate what has been published.                                       *)
Position(i, r, p, k) ==
  /\ seen' = [seen EXCEPT ![i] = 0]
  /\ slots' = [slots EXCEPT ![i][r] = Heard(@, p, k)]
  /\ latest' = [latest EXCEPT ![i] = HeardLast(@, p, r, k)]
  /\ \E o \in TryPosition(fix[i], latest'[i], slots'[i]) :
       IF ~o.published
       THEN /\ fix' = [fix EXCEPT ![i] = o.fix]
            /\ pub' = Nothing
            /\ UNCHANGED <<trace, coverage>>
       ELSE /\ trace' = [trace EXCEPT ![i] = Recorded(@, o.fix.lat)]
            /\ pub' = [icao |-> i, rid |-> r]
            /\ IF CheckPosition(r, o.fix.lat)
               THEN /\ fix' = [fix EXCEPT ![i] = o.fix]
                    /\ PositionReceived(r, o.fix.lat)
               ELSE /\ fix' = [fix EXCEPT ![i] = Revoked(@)]
                    /\ UNCHANGED coverage

(* Any other message that update keeps: an ADS-B message without position, *)
(* or a Mode-S reply with altitude or squawk.                              *)
OtherMessage(i) ==
  /\ seen' = [seen EXCEPT ![i] = 0]
  /\ pub' = Nothing
  /\ UNCHANGED <<slots, latest, fix, trace, coverage>>

(* reap_stale.  An aircraft that is heard again starts as Aircraft::new.   *)
ReapStale ==
  LET gone == {i \in Icaos : seen[i] >= StaleTimeout}
  IN /\ gone # {}
     /\ seen' = [i \in Icaos |-> IF i \in gone THEN None ELSE seen[i]]
     /\ slots' = [i \in Icaos |-> IF i \in gone THEN [r \in Ids |-> NoSlot] ELSE slots[i]]
     /\ latest' = [i \in Icaos |-> IF i \in gone THEN NoHalves ELSE latest[i]]
     /\ fix' = [i \in Icaos |-> IF i \in gone THEN NoFix ELSE fix[i]]
     /\ trace' = [i \in Icaos |-> IF i \in gone THEN <<>> ELSE trace[i]]
     /\ pub' = Nothing
     /\ UNCHANGED coverage

OlderFix(f) ==
  [prev |-> f.prev, age |-> Older(f.age, AgeCap), odd |-> f.odd, even |-> f.even,
   lat |-> f.lat]
OlderSlot(s) ==
  IF \A k \in Parities : s.at[k] = None THEN s
  ELSE [at |-> s.at, newest |-> s.newest, age |-> Older(s.age, PairTimeout + 1), gap |-> s.gap]
Tick ==
  /\ seen' = [i \in Icaos |-> IF seen[i] = None THEN None ELSE Older(seen[i], StaleTimeout)]
  /\ slots' = [i \in Icaos |-> [r \in Ids |-> OlderSlot(slots[i][r])]]
  /\ fix' = [i \in Icaos |->
       IF fix[i].prev = None THEN fix[i] ELSE OlderFix(fix[i])]
  /\ pub' = Nothing
  /\ UNCHANGED <<latest, trace, coverage>>

Next ==
  \/ \E i \in Icaos :
       \/ \E r \in Ids, p \in Places, k \in Parities : Position(i, r, p, k)
       \/ OtherMessage(i)
  \/ ReapStale
  \/ Tick

Spec == Init /\ [][Next]_vars

-----------------------------------------------------------------------------
(* The position state never comes apart, whatever mixture of decodes,      *)
(* failed checks and revocations an aircraft has been through: it has a    *)
(* reference exactly when it has a published position, the two are the     *)
(* same place and the last of the trace, both halves are then reliable,    *)
(* and nothing of the old credit survives a reset.  (Three places reset    *)
(* it.  It follows that the counters never keep a position back, and that  *)
(* the fast track of lines 298-305 is never taken.)                        *)
PositionCoherent ==
  \A i \in Icaos :
    LET f == fix[i]
    IN /\ f.prev = f.lat
       /\ IF f.lat = None THEN f.odd = 0 /\ f.even = 0 ELSE f.odd >= 1 /\ f.even >= 1
       /\ seen[i] = None => f.lat = None
       /\ f.lat # None => Len(trace[i]) > 0 /\ trace[i][Len(trace[i])] = f.lat

(* A published position is never replaced by one that the aircraft could   *)
(* not have flown to since, if 0.1 s have passed (speed_check).            *)
SpeedChecked ==
  [][\A i \in Icaos :
       fix[i].lat # None /\ fix'[i].lat # None /\ fix[i].age > 0 =>
         Distance(fix[i].lat, fix'[i].lat) <= Reach * fix[i].age]_vars

(* What a receiver has taught the map is never one bad position away from  *)
(* nonsense: a coverage changes only by a position that stays published,   *)
(* that lies within range of the coverage as it was once enough is known,  *)
(* and that moves its ends by less than the margin.                        *)
InRange(e, p) == e.lo - MaxRange < p /\ p < e.hi + MaxRange
OnlyConfirmedTeaches ==
  [][\A r \in Receivers :
       LET old == coverage[r]
           new == coverage'[r]
       IN new # old =>
         /\ pub' # Nothing /\ pub'.rid = r
         /\ LET place == fix'[pub'.icao].lat
            IN place # None /\ (old.n = MinPositions => InRange(old, place))
         /\ old # Unknown =>
              /\ new.lo <= old.lo /\ old.lo - new.lo < GrowthMargin
              /\ new.hi >= old.hi /\ new.hi - old.hi < GrowthMargin]_vars

(* The other half: a position reported by a receiver whose coverage is     *)
(* known stays published only within its range (lines 211-230).            *)
PublishedInRange ==
  [][pub' # Nothing /\ pub'.rid # NoId =>
       LET place == fix'[pub'.icao].lat
           extent == coverage[pub'.rid]
       IN place # None /\ extent.n = MinPositions => InRange(extent, place)]_vars
=============================================================================

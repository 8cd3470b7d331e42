------------------------ MODULE AircraftStoreProofs -------------------------
(***************************************************************************)
(* For every set of aircraft, receivers and places, and every value of the *)
(* timeouts: the position state of an aircraft is coherent, and because it *)
(* is, the speed check always compares with what was published last.       *)
(***************************************************************************)
EXTENDS AircraftStore, TLAPS

(* What is true of one aircraft's fix; its second part is what             *)
(* PositionCoherent says of it.                                            *)
Agrees(f) ==
  /\ f.prev = f.lat
  /\ IF f.lat = None THEN f.odd = 0 /\ f.even = 0 ELSE f.odd >= 1 /\ f.even >= 1
Coherent(f) == f \in Fix /\ Agrees(f)

EndsAt(s, p) == Len(s) > 0 /\ s[Len(s)] = p

Frames ==
  /\ slots \in [Icaos -> [Ids -> Slot]]
  /\ latest \in [Icaos -> Halves]
Fixes ==
  /\ fix \in [Icaos -> Fix]
  /\ trace \in [Icaos -> Seq(Places)]
  /\ seen \in [Icaos -> Nat \cup {None}]
  /\ \A i \in Icaos : /\ Agrees(fix[i])
                      /\ seen[i] = None => fix[i].lat = None
                      /\ fix[i].lat # None => EndsAt(trace[i], fix[i].lat)
Inv == Frames /\ Fixes

USE StoreAssumption DEF Ids, Parities

LEMMA Constants ==
  /\ NoFix \in Fix /\ Agrees(NoFix) /\ NoFix.lat = None /\ NoFix.prev = None
  /\ NoHalf \in Half /\ NoHalves \in Halves /\ NoSlot \in Slot
  /\ None \notin Places
  /\ PairTimeout \in Nat /\ AgeCap \in Nat
<1>1. PairTimeout \in Nat /\ AgeCap \in Nat /\ None \notin Places
  BY DEF None
<1>2. NoFix \in Fix /\ Agrees(NoFix) /\ NoFix.lat = None /\ NoFix.prev = None
  BY <1>1 DEF NoFix, Fix, Agrees, PlaceOrNone
<1>3. NoHalf \in Half
  BY <1>1 DEF NoHalf, Half, PlaceOrNone
<1>4. NoHalves \in Halves
  BY <1>3 DEF NoHalves, Halves
<1>5. NoSlot \in Slot
  BY <1>1 DEF NoSlot, Slot, PlaceOrNone
<1> QED
  BY <1>1, <1>2, <1>3, <1>4, <1>5

LEMMA HeardType ==
  ASSUME NEW s \in Slot, NEW p \in Places, NEW k \in Parities
  PROVE  Heard(s, p, k) \in Slot
<1>1. [s.at EXCEPT ![k] = p] \in [Parities -> PlaceOrNone]
  BY DEF Slot, PlaceOrNone
<1>2. (IF k = s.newest THEN Capped(s.gap + s.age, PairTimeout + 1) ELSE s.age)
        \in 0..(PairTimeout + 1)
  BY Constants DEF Slot, Capped
<1> QED
  BY <1>1, <1>2, Constants DEF Heard, Slot

LEMMA HeardLastType ==
  ASSUME NEW l \in Halves, NEW p \in Places, NEW r \in Ids, NEW k \in Parities
  PROVE  HeardLast(l, p, r, k) \in Halves
<1>1. [place |-> p, rid |-> r] \in Half
  BY Constants DEF Half, PlaceOrNone
<1>2. [l.at EXCEPT ![k] = [place |-> p, rid |-> r]] \in [Parities -> Half]
  BY <1>1 DEF Halves
<1> QED
  BY <1>2 DEF HeardLast, Halves

(* A position that is taken leaves a coherent fix, and is published.       *)
LEMMA TakenIsCoherent ==
  ASSUME NEW f \in Fix, NEW p \in Places, NEW halves,
         \/ f.odd >= 1 /\ f.even >= 1
         \/ halves = Parities
  PROVE  LET g == Taken(f, p, halves)
         IN Coherent(g) /\ g.lat = p /\ g.odd >= 1 /\ g.even >= 1
<1> DEFINE odd == Counted(f.odd, "odd" \in halves)
           even == Counted(f.even, "even" \in halves)
<1>1. odd \in 1..2 /\ even \in 1..2
  BY DEF Counted, Capped, Fix
<1>2. Taken(f, p, halves) = [prev |-> p, age |-> 0, odd |-> odd, even |-> even, lat |-> p]
  BY <1>1 DEF Taken
<1> HIDE DEF odd, even
<1>3. Taken(f, p, halves) \in Fix
  BY <1>1, <1>2, Constants DEF Fix, PlaceOrNone
<1> QED
  BY <1>1, <1>2, <1>3, Constants DEF Coherent, Agrees

(* What a decode can return. *)
LEMMA DecodeTypes ==
  /\ \A ref, p : p \in PlaceOrNone => Relative(ref, p) \subseteq PlaceOrNone
  /\ \A s \in Slot : Global(s) \subseteq PlaceOrNone
<1>1. ASSUME NEW ref, NEW p \in PlaceOrNone PROVE Relative(ref, p) \subseteq PlaceOrNone
  BY DEF Relative, PlaceOrNone
<1>2. ASSUME NEW s \in Slot PROVE Global(s) \subseteq PlaceOrNone
  BY DEF Global, Slot, PlaceOrNone
<1> QED
  BY <1>1, <1>2

(* Every way try_position can end, from a coherent fix.                    *)
Outcome(f, o) ==
  /\ Coherent(o.fix)
  /\ IF o.published THEN o.fix.lat \in Places ELSE o.fix.lat \in {None, f.lat}
  /\ f.lat # None /\ o.fix.lat # None /\ f.age > 0 =>
       \/ o.fix.lat = f.lat
       \/ Distance(f.lat, o.fix.lat) <= Reach * f.age

LEMMA RelativeOutcome ==
  ASSUME NEW f, Coherent(f), f.prev # None,
         NEW l \in Halves, NEW o \in ByRelative(f, l)
  PROVE  Outcome(f, o)
<1>1. Outcome(f, Kept(f))
  BY DEF Outcome, Kept
<1>2. CASE o = Kept(f)
  BY <1>1, <1>2
<1>3. CASE o # Kept(f)
  <2>1. PICK k \in Chosen(l) : o \in FromHalf(f, l.at[k], k)
    BY <1>3 DEF ByRelative
  <2>2. PICK p \in Relative(f.prev, l.at[k].place), course \in Courses :
          o = Moved(f, p, course, {k})
    <3> DEFINE near == Relative(f.prev, l.at[k].place)
               used == {k}
    <3>1. o \in {Moved(f, q, course, used) : q \in near, course \in Courses}
      BY ONLY <2>1 DEF FromHalf
    <3> HIDE DEF near, used
    <3>2. \E q \in near : \E course \in Courses : o = Moved(f, q, course, used)
      BY <3>1
    <3> QED
      BY <3>2 DEF near, used
  <2>8. /\ p # None /\ SpeedOk(f, p, course)
        /\ o = Published(Taken(f, p, {k}))
    BY <1>3, <2>2 DEF Moved
  <2>3. k \in Parities
    BY DEF Chosen, Identified
  <2>4. l.at[k].place \in PlaceOrNone
    BY <2>3 DEF Halves, Half
  <2>5. p \in Places
    BY <2>2, <2>4, <2>8, DecodeTypes DEF PlaceOrNone
  <2>6. LET g == Taken(f, p, {k}) IN Coherent(g) /\ g.lat = p /\ g.odd >= 1 /\ g.even >= 1
    BY <2>5, TakenIsCoherent DEF Coherent, Agrees
  <2>7. o.fix = Taken(f, p, {k}) /\ o.published
    BY <2>6, <2>8 DEF Published
  <2>9. f.age > 0 => Distance(f.lat, p) <= Reach * f.age
    BY <2>8 DEF SpeedOk, Coherent, Agrees, Fix
  <2> QED
    BY <2>5, <2>6, <2>7, <2>9 DEF Outcome
<1> QED
  BY <1>2, <1>3

LEMMA GlobalOutcome ==
  ASSUME NEW f, Coherent(f), f.prev = None,
         NEW ss \in [Ids -> Slot], NEW o \in ByGlobal(f, ss)
  PROVE  Outcome(f, o)
<1>1. f \in Fix /\ f.lat = None /\ f.odd = 0 /\ f.even = 0
  BY DEF Coherent, Agrees
<1>2. Outcome(f, Kept(f))
  BY DEF Outcome, Kept
<1>3. \A k \in Parities : Outcome(f, Kept(Blamed(f, k)))
  <2>1. \A k \in Parities : Blamed(f, k) = NoFix
    BY <1>1 DEF Blamed
  <2> QED
    BY <1>1, <2>1, Constants DEF Outcome, Kept, Coherent
<1>4. CASE o # Kept(f) /\ \A k \in Parities : o # Kept(Blamed(f, k))
  <2>1. PICK r \in Ids : o \in FromPair(f, ss[r])
    BY <1>4 DEF ByGlobal
  <2>2. ss[r] \in Slot /\ ss[r].newest \in Parities
    BY DEF Slot
  <2>3. PICK p \in Global(ss[r]) :
          p # None /\ o = Published(Taken(Trusted(f, p), p, Parities))
    BY <1>4, <2>1, <2>2 DEF FromPair
  <2>4. p \in Places
    BY <2>2, <2>3, DecodeTypes DEF PlaceOrNone
  <2>5. Trusted(f, p) = f
    BY <1>1 DEF Trusted
  <2>6. LET g == Taken(f, p, Parities)
        IN Coherent(g) /\ g.lat = p /\ g.odd >= 1 /\ g.even >= 1
    BY <1>1, <2>4, TakenIsCoherent
  <2>7. o.fix = Taken(f, p, Parities) /\ o.published
    BY <2>3, <2>5, <2>6 DEF Published
  <2> QED
    BY <1>1, <2>4, <2>6, <2>7 DEF Outcome
<1> QED
  BY <1>2, <1>3, <1>4

LEMMA TryOutcome ==
  ASSUME NEW f, Coherent(f), NEW l \in Halves, NEW ss \in [Ids -> Slot],
         NEW o \in TryPosition(f, l, ss)
  PROVE  Outcome(f, o)
BY RelativeOutcome, GlobalOutcome DEF TryPosition

LEMMA RecordedEnds ==
  ASSUME NEW s \in Seq(Places), NEW p \in Places
  PROVE  Recorded(s, p) \in Seq(Places) /\ EndsAt(Recorded(s, p), p)
<1>1. Append(s, p) \in Seq(Places) /\ EndsAt(Append(s, p), p)
  BY DEF EndsAt
<1>2. ASSUME Len(Append(s, p)) > MaxTrace
      PROVE  Tail(Append(s, p)) \in Seq(Places) /\ EndsAt(Tail(Append(s, p)), p)
  <2>1. Len(Append(s, p)) > 1
    BY <1>2
  <2> QED
    BY <1>1, <2>1 DEF EndsAt
<1> QED
  BY <1>1, <1>2 DEF Recorded

LEMMA InitInv == Init => Inv
BY Constants DEF Init, Inv, Frames, Fixes

(* Only the aircraft of a message changes. *)
LEMMA OneFixChanges ==
  ASSUME Fixes, NEW i \in Icaos, seen' = [seen EXCEPT ![i] = 0],
         fix' \in [Icaos -> Fix], trace' \in [Icaos -> Seq(Places)],
         \A j \in Icaos \ {i} : fix'[j] = fix[j] /\ trace'[j] = trace[j],
         Agrees(fix'[i]), fix'[i].lat # None => EndsAt(trace'[i], fix'[i].lat)
  PROVE  Fixes'
<1>1. seen' \in [Icaos -> Nat \cup {None}] /\ seen'[i] = 0
  BY DEF Fixes
<1>2. 0 # None
  BY DEF None
<1>3. ASSUME NEW j \in Icaos
      PROVE  /\ Agrees(fix'[j])
             /\ seen'[j] = None => fix'[j].lat = None
             /\ fix'[j].lat # None => EndsAt(trace'[j], fix'[j].lat)
  <2>1. CASE j = i
    BY <1>1, <1>2, <2>1
  <2>2. CASE j # i
    BY <2>2 DEF Fixes
  <2> QED
    BY <2>1, <2>2
<1> QED
  BY <1>1, <1>3 DEF Fixes

LEMMA PositionKeepsInv ==
  ASSUME Inv, NEW i \in Icaos, NEW r \in Ids, NEW p \in Places, NEW k \in Parities,
         Position(i, r, p, k)
  PROVE  /\ Inv'
         /\ fix[i].lat # None /\ fix'[i].lat # None /\ fix[i].age > 0 =>
              \/ fix'[i].lat = fix[i].lat
              \/ Distance(fix[i].lat, fix'[i].lat) <= Reach * fix[i].age
         /\ \A j \in Icaos \ {i} : fix'[j] = fix[j]
<1> USE DEF Inv, Frames, Fixes
<1>1. /\ slots' = [slots EXCEPT ![i][r] = Heard(@, p, k)]
      /\ latest' = [latest EXCEPT ![i] = HeardLast(@, p, r, k)]
      /\ seen' = [seen EXCEPT ![i] = 0]
  BY DEF Position
<1>2. Heard(slots[i][r], p, k) \in Slot /\ HeardLast(latest[i], p, r, k) \in Halves
  BY HeardType, HeardLastType
<1>3. Frames'
  BY <1>1, <1>2
<1>4. PICK o \in TryPosition(fix[i], latest'[i], slots'[i]) :
        IF ~o.published
        THEN fix' = [fix EXCEPT ![i] = o.fix] /\ trace' = trace
        ELSE /\ trace' = [trace EXCEPT ![i] = Recorded(@, o.fix.lat)]
             /\ \/ fix' = [fix EXCEPT ![i] = o.fix]
                \/ fix' = [fix EXCEPT ![i] = Revoked(@)]
  BY DEF Position
<1>5. Coherent(fix[i])
  BY DEF Coherent
<1>6. Outcome(fix[i], o)
  BY <1>3, <1>5, TryOutcome
<1>7. \A j \in Icaos \ {i} : fix'[j] = fix[j] /\ trace'[j] = trace[j]
  BY <1>4
<1>8. CASE ~o.published
  <2>1. fix'[i] = o.fix /\ trace' = trace
    BY <1>4, <1>8
  <2>2. Coherent(o.fix) /\ o.fix.lat \in {None, fix[i].lat}
    BY <1>6, <1>8 DEF Outcome
  <2>3. fix' \in [Icaos -> Fix]
    BY <1>4, <1>8, <2>2 DEF Coherent
  <2>4. o.fix.lat # None => EndsAt(trace[i], o.fix.lat)
    BY <2>2
  <2>5. Fixes'
    BY <1>1, <1>7, <2>1, <2>2, <2>3, <2>4, OneFixChanges DEF Coherent
  <2> QED
    BY <1>3, <1>7, <2>1, <2>2, <2>5
<1>9. CASE o.published
  <2>1. Coherent(o.fix) /\ o.fix.lat \in Places
    BY <1>6, <1>9 DEF Outcome
  <2>2. /\ Recorded(trace[i], o.fix.lat) \in Seq(Places)
        /\ EndsAt(Recorded(trace[i], o.fix.lat), o.fix.lat)
    BY <2>1, RecordedEnds
  <2>3. /\ trace' \in [Icaos -> Seq(Places)]
        /\ EndsAt(trace'[i], o.fix.lat)
    BY <1>4, <1>9, <2>2
  <2>4. CASE fix' = [fix EXCEPT ![i] = o.fix]
    <3>1. fix' \in [Icaos -> Fix] /\ fix'[i] = o.fix
      BY <2>1, <2>4 DEF Coherent
    <3>2. Fixes'
      BY <1>1, <1>7, <2>1, <2>3, <3>1, OneFixChanges DEF Coherent
    <3> QED
      BY <1>3, <1>6, <1>7, <3>1, <3>2 DEF Outcome
  <2>5. CASE fix' = [fix EXCEPT ![i] = Revoked(@)]
    <3>1. fix' \in [Icaos -> Fix] /\ fix'[i] = NoFix
      BY <2>5, Constants DEF Revoked
    <3>2. Fixes'
      BY <1>1, <1>7, <2>3, <3>1, Constants, OneFixChanges
    <3> QED
      BY <1>3, <1>7, <3>1, <3>2, Constants
  <2> QED
    BY <1>4, <1>9, <2>4, <2>5
<1> QED
  BY <1>8, <1>9

LEMMA ReapKeepsInv == ASSUME Inv, ReapStale PROVE Inv'
<1> USE DEF Inv, Frames, Fixes
<1> DEFINE gone == {i \in Icaos : seen[i] >= StaleTimeout}
<1>1. /\ seen' = [i \in Icaos |-> IF i \in gone THEN None ELSE seen[i]]
      /\ slots' = [i \in Icaos |-> IF i \in gone THEN [r \in Ids |-> NoSlot] ELSE slots[i]]
      /\ latest' = [i \in Icaos |-> IF i \in gone THEN NoHalves ELSE latest[i]]
      /\ fix' = [i \in Icaos |-> IF i \in gone THEN NoFix ELSE fix[i]]
      /\ trace' = [i \in Icaos |-> IF i \in gone THEN <<>> ELSE trace[i]]
  BY DEF ReapStale
<1> HIDE DEF gone
<1>2. Frames'
  BY <1>1, Constants
<1>3. Fixes'
  BY <1>1, Constants
<1> QED
  BY <1>2, <1>3

LEMMA TickKeepsInv ==
  ASSUME Inv, Tick
  PROVE  Inv' /\ \A i \in Icaos : fix'[i].lat = fix[i].lat
<1> USE DEF Inv, Frames, Fixes
<1>1. \A s \in Slot : OlderSlot(s) \in Slot
  BY Constants DEF OlderSlot, Slot, Older
<1>3. ASSUME NEW f \in Fix PROVE OlderFix(f) \in Fix
  BY Constants DEF OlderFix, Fix, Older
<1>4. \A f \in Fix : /\ OlderFix(f).lat = f.lat /\ OlderFix(f).prev = f.prev
                     /\ OlderFix(f).odd = f.odd /\ OlderFix(f).even = f.even
  BY DEF OlderFix
<1>5. slots' \in [Icaos -> [Ids -> Slot]]
  BY <1>1 DEF Tick
<1>6. latest' \in [Icaos -> Halves]
  BY DEF Tick
<1>7. /\ fix' = [i \in Icaos |-> IF fix[i].prev = None THEN fix[i] ELSE OlderFix(fix[i])]
      /\ trace' = trace
  BY DEF Tick
<1>8. fix' \in [Icaos -> Fix]
  BY <1>3, <1>7
<1>9. ASSUME NEW i \in Icaos
      PROVE  /\ Agrees(fix'[i]) /\ fix'[i].lat = fix[i].lat
             /\ seen'[i] = None => seen[i] = None
  <2>1. /\ fix'[i].lat = fix[i].lat /\ fix'[i].prev = fix[i].prev
        /\ fix'[i].odd = fix[i].odd /\ fix'[i].even = fix[i].even
    BY <1>4, <1>7
  <2>2. seen'[i] = None => seen[i] = None
    BY DEF Tick, Older, None
  <2> QED
    BY <2>1, <2>2 DEF Agrees
<1>10. seen' \in [Icaos -> Nat \cup {None}]
  BY DEF Tick, Older, None
<1> QED
  BY <1>5, <1>6, <1>7, <1>8, <1>9, <1>10

LEMMA MessageKeepsInv ==
  ASSUME Inv, NEW i \in Icaos, OtherMessage(i)
  PROVE  Inv'
<1> USE DEF Inv, Frames
<1>1. Fixes'
  BY OneFixChanges DEF OtherMessage, Fixes
<1> QED
  BY <1>1 DEF OtherMessage

LEMMA NextKeepsInv == Inv /\ [Next]_vars => Inv'
<1> SUFFICES ASSUME Inv, [Next]_vars PROVE Inv'
  OBVIOUS
<1>1. CASE UNCHANGED vars
  BY <1>1 DEF vars, Inv, Frames, Fixes
<1> QED
  BY <1>1, PositionKeepsInv, MessageKeepsInv, ReapKeepsInv, TickKeepsInv DEF Next

LEMMA InvHolds == Spec => []Inv
BY InitInv, NextKeepsInv, PTL DEF Spec

(* The reference, the published position, the trace and the two            *)
(* reliability counters of an aircraft always agree.                       *)
THEOREM PositionsCohere == Spec => []PositionCoherent
<1>1. Inv => PositionCoherent
  BY DEF Inv, Fixes, Agrees, EndsAt, PositionCoherent
<1> QED
  BY <1>1, InvHolds, PTL

LEMMA NoDistance == \A p \in PlaceOrNone : Distance(p, p) = 0
BY DEF PlaceOrNone, None, Distance

LEMMA ReachIsNat ==
  ASSUME NEW n \in Nat
  PROVE  Reach * n \in Nat
OBVIOUS

(* No published position is replaced by one that is out of reach, unless   *)
(* it comes within 0.1 s.                                                  *)
THEOREM SpeedIsChecked == Spec => SpeedChecked
<1> DEFINE Checked(i) ==
      fix[i].lat # None /\ fix'[i].lat # None /\ fix[i].age > 0 =>
        Distance(fix[i].lat, fix'[i].lat) <= Reach * fix[i].age
<1>1. ASSUME Inv, [Next]_vars, NEW i \in Icaos PROVE Checked(i)
  <2>1. fix[i] \in Fix
    BY <1>1 DEF Inv, Fixes
  <2>2. Reach * fix[i].age \in Nat
    BY <2>1, ReachIsNat DEF Fix
  <2>3. CASE fix'[i].lat = fix[i].lat
    <3>1. Distance(fix[i].lat, fix[i].lat) = 0
      BY <2>1, NoDistance DEF Fix
    <3>2. 0 <= Reach * fix[i].age
      BY <2>2
    <3>3. Distance(fix[i].lat, fix'[i].lat) = 0
      BY <2>3, <3>1, Zenon
    <3> HIDE DEF Checked
    <3> QED
      BY <3>2, <3>3 DEF Checked
  <2>4. CASE UNCHANGED vars \/ Tick \/ \E j \in Icaos : OtherMessage(j)
    BY <1>1, <2>3, <2>4, TickKeepsInv DEF vars, OtherMessage
  <2>5. CASE ReapStale
    BY <2>3, <2>5, Constants DEF ReapStale
  <2>6. ASSUME NEW j \in Icaos, NEW r \in Ids, NEW p \in Places, NEW k \in Parities,
               Position(j, r, p, k)
        PROVE  Checked(i)
    <3>1. CASE i = j
      BY <1>1, <2>3, <2>6, <3>1, PositionKeepsInv
    <3>2. CASE i # j
      BY <1>1, <2>3, <2>6, <3>2, PositionKeepsInv
    <3> QED
      BY <3>1, <3>2
  <2> QED
    BY <1>1, <2>4, <2>5, <2>6 DEF Next
<1>2. Inv /\ [Next]_vars =>
        [\A i \in Icaos :
           fix[i].lat # None /\ fix'[i].lat # None /\ fix[i].age > 0 =>
             Distance(fix[i].lat, fix'[i].lat) <= Reach * fix[i].age]_vars
  BY <1>1
<1> QED
  BY <1>2, InvHolds, PTL DEF Spec, SpeedChecked

-----------------------------------------------------------------------------
(* The ends of a coverage are in order.                                    *)
Extent == [lo : Places \cup {None}, hi : Places \cup {None}, n : Nat]
Ordered(e) == e = Unknown \/ (e.lo \in Places /\ e.hi \in Places /\ e.lo <= e.hi)
Known == coverage \in [Receivers -> Extent] /\ \A r \in Receivers : Ordered(coverage[r])

LEMMA LearnedLemma ==
  ASSUME NEW e \in Extent, Ordered(e), NEW p \in Places
  PROVE  /\ Learned(e, p) \in Extent /\ Ordered(Learned(e, p))
         /\ e # Unknown =>
              /\ Learned(e, p).lo <= e.lo /\ e.lo - Learned(e, p).lo < GrowthMargin
              /\ Learned(e, p).hi >= e.hi /\ Learned(e, p).hi - e.hi < GrowthMargin
<1>1. CASE e = Unknown
  <2>1. Learned(e, p) = [lo |-> p, hi |-> p, n |-> 1]
    BY <1>1 DEF Learned
  <2> QED
    BY <1>1, <2>1 DEF Extent, Ordered
<1>2. CASE e # Unknown
  <2>1. e.lo \in Places /\ e.hi \in Places /\ e.lo <= e.hi /\ e.n \in Nat
    BY <1>2 DEF Ordered, Extent
  <2> DEFINE lo == IF p < e.lo /\ e.lo - p < GrowthMargin THEN p ELSE e.lo
             hi == IF p > e.hi /\ p - e.hi < GrowthMargin THEN p ELSE e.hi
             n == Capped(e.n + 1, MinPositions)
  <2>2. Learned(e, p) = [lo |-> lo, hi |-> hi, n |-> n]
    BY <1>2 DEF Learned
  <2>3. /\ lo \in Places /\ lo <= e.lo /\ e.lo - lo < GrowthMargin
        /\ hi \in Places /\ hi >= e.hi /\ hi - e.hi < GrowthMargin
        /\ lo <= hi
    <3>1. p \in Nat /\ e.lo \in Nat /\ e.hi \in Nat /\ GrowthMargin \in Nat \ {0}
      BY <2>1
    <3>2. lo = e.lo \/ (lo = p /\ p < e.lo /\ e.lo - p < GrowthMargin)
      OBVIOUS
    <3>3. hi = e.hi \/ (hi = p /\ p > e.hi /\ p - e.hi < GrowthMargin)
      OBVIOUS
    <3> HIDE DEF lo, hi
    <3> QED
      BY <2>1, <3>1, <3>2, <3>3
  <2>4. n \in Nat
    BY <2>1 DEF Capped
  <2> HIDE DEF lo, hi, n
  <2>5. Learned(e, p) \in Extent
    BY <2>2, <2>3, <2>4 DEF Extent
  <2>6. Learned(e, p).lo = lo /\ Learned(e, p).hi = hi
    BY <2>2
  <2> QED
    BY <2>3, <2>5, <2>6 DEF Ordered
<1> QED
  BY <1>1, <1>2

(* What the check of a known coverage lets pass is within its range.       *)
LEMMA CheckedIsInRange ==
  ASSUME NEW r \in Receivers, NEW p \in Places, coverage[r] \in Extent, Ordered(coverage[r]),
         coverage[r].n = MinPositions, CheckPosition(r, p)
  PROVE  InRange(coverage[r], p)
<1>1. coverage[r].lo \in Places /\ coverage[r].hi \in Places /\ coverage[r].lo <= coverage[r].hi
  BY DEF Ordered, Unknown
<1>2. Distance(2 * p, coverage[r].lo + coverage[r].hi)
        < (coverage[r].hi - coverage[r].lo) + 2 * MaxRange
  BY DEF CheckPosition
<1>3. /\ p \in Int /\ coverage[r].lo \in Int /\ coverage[r].hi \in Int /\ MaxRange \in Int
  <2>1. Places \subseteq Nat /\ MaxRange \in Nat /\ Nat \subseteq Int
    OBVIOUS
  <2> QED
    BY <1>1, <2>1, Zenon
<1>4. \A a, b, m, q \in Int :
        a <= b /\ Distance(2 * q, a + b) < (b - a) + 2 * m => a - m < q /\ q < b + m
  BY DEF Distance
<1>5. coverage[r].lo - MaxRange < p /\ p < coverage[r].hi + MaxRange
  BY <1>1, <1>2, <1>3, <1>4, Zenon
<1> QED
  BY <1>5 DEF InRange

(* A position message either publishes nothing and teaches nothing, or     *)
(* publishes a place: if it does not pass the check it is taken back, and  *)
(* if it does, the receiver's coverage learns it.                          *)
LEMMA PositionStep ==
  ASSUME Inv, NEW i \in Icaos, NEW r \in Ids, NEW p \in Places, NEW k \in Parities,
         Position(i, r, p, k)
  PROVE  \/ pub' = Nothing /\ coverage' = coverage
         \/ /\ pub' = [icao |-> i, rid |-> r] /\ fix'[i].lat = None
            /\ coverage' = coverage
         \/ /\ pub' = [icao |-> i, rid |-> r] /\ fix'[i].lat \in Places
            /\ CheckPosition(r, fix'[i].lat) /\ PositionReceived(r, fix'[i].lat)
<1> USE DEF Inv, Frames, Fixes
<1>1. /\ slots' = [slots EXCEPT ![i][r] = Heard(@, p, k)]
      /\ latest' = [latest EXCEPT ![i] = HeardLast(@, p, r, k)]
  BY DEF Position
<1>2. Heard(slots[i][r], p, k) \in Slot /\ HeardLast(latest[i], p, r, k) \in Halves
  BY HeardType, HeardLastType
<1>3. slots'[i] \in [Ids -> Slot] /\ latest'[i] \in Halves
  BY <1>1, <1>2
<1>4. PICK o \in TryPosition(fix[i], latest'[i], slots'[i]) :
        IF ~o.published
        THEN pub' = Nothing /\ coverage' = coverage
        ELSE /\ pub' = [icao |-> i, rid |-> r]
             /\ IF CheckPosition(r, o.fix.lat)
                THEN fix' = [fix EXCEPT ![i] = o.fix] /\ PositionReceived(r, o.fix.lat)
                ELSE fix' = [fix EXCEPT ![i] = Revoked(@)] /\ coverage' = coverage
  BY DEF Position
<1>5. Outcome(fix[i], o)
  BY <1>3, TryOutcome DEF Coherent
<1>6. CASE ~o.published
  BY <1>4, <1>6
<1>7. CASE o.published /\ CheckPosition(r, o.fix.lat)
  <2>1. o.fix.lat \in Places
    BY <1>5, <1>7 DEF Outcome
  <2>2. fix'[i].lat = o.fix.lat
    BY <1>4, <1>7
  <2> QED
    BY <1>4, <1>7, <2>1, <2>2
<1>8. CASE o.published /\ ~CheckPosition(r, o.fix.lat)
  <2>1. fix'[i].lat = None
    BY <1>4, <1>8, Constants DEF Revoked
  <2> QED
    BY <1>4, <1>8, <2>1
<1> QED
  BY <1>6, <1>7, <1>8

LEMMA NextKeepsKnown == Inv /\ Known /\ [Next]_vars => Known'
<1> SUFFICES ASSUME Inv, Known, [Next]_vars PROVE Known'
  OBVIOUS
<1>1. ASSUME NEW i \in Icaos, NEW r \in Ids, NEW p \in Places, NEW k \in Parities,
             Position(i, r, p, k)
      PROVE  Known'
  <2>1. CASE coverage' = coverage
    BY <2>1 DEF Known
  <2>2. CASE fix'[i].lat \in Places /\ PositionReceived(r, fix'[i].lat) /\ r # NoId
    <3>1. r \in Receivers /\ coverage[r] \in Extent /\ Ordered(coverage[r])
      BY <2>2 DEF Known
    <3>2. Learned(coverage[r], fix'[i].lat) \in Extent /\ Ordered(Learned(coverage[r], fix'[i].lat))
      BY <2>2, <3>1, LearnedLemma
    <3>3. coverage' = [coverage EXCEPT ![r] = Learned(coverage[r], fix'[i].lat)]
      BY <2>2 DEF PositionReceived
    <3> QED
      BY <3>1, <3>2, <3>3 DEF Known
  <2> QED
    BY <1>1, <2>1, <2>2, PositionStep DEF PositionReceived
<1>2. ASSUME coverage' = coverage PROVE Known'
  BY <1>2 DEF Known
<1> QED
  BY <1>1, <1>2 DEF Next, OtherMessage, ReapStale, Tick, vars

LEMMA KnownHolds == Spec => [](Inv /\ Known)
<1>1. Init => Known
  BY DEF Init, Known, Extent, Ordered, Unknown
<1> QED
  BY <1>1, InitInv, NextKeepsInv, NextKeepsKnown, PTL DEF Spec

(* A coverage learns nothing but positions that stay published, that lie   *)
(* in its range once it has one, and never by more than the margin.        *)
THEOREM ConfirmedTeaches == Spec => OnlyConfirmedTeaches
<1> DEFINE Taught ==
      \A r \in Receivers :
        LET old == coverage[r]
            new == coverage'[r]
        IN new # old =>
          /\ pub' # Nothing /\ pub'.rid = r
          /\ LET place == fix'[pub'.icao].lat
             IN place # None /\ (old.n = MinPositions => InRange(old, place))
          /\ old # Unknown =>
               /\ new.lo <= old.lo /\ old.lo - new.lo < GrowthMargin
               /\ new.hi >= old.hi /\ new.hi - old.hi < GrowthMargin
<1>1. ASSUME Inv, Known, NEW i \in Icaos, NEW s \in Ids, NEW p \in Places, NEW k \in Parities,
             Position(i, s, p, k), NEW r \in Receivers, coverage'[r] # coverage[r]
      PROVE  /\ pub' # Nothing /\ pub'.rid = r
             /\ fix'[pub'.icao].lat # None
             /\ coverage[r].n = MinPositions => InRange(coverage[r], fix'[pub'.icao].lat)
             /\ coverage[r] # Unknown =>
                  /\ coverage'[r].lo <= coverage[r].lo
                  /\ coverage[r].lo - coverage'[r].lo < GrowthMargin
                  /\ coverage'[r].hi >= coverage[r].hi
                  /\ coverage'[r].hi - coverage[r].hi < GrowthMargin
  <2>1. /\ pub' = [icao |-> i, rid |-> s] /\ fix'[i].lat \in Places
        /\ CheckPosition(s, fix'[i].lat) /\ PositionReceived(s, fix'[i].lat)
    BY <1>1, PositionStep
  <2>2. coverage[r] \in Extent /\ Ordered(coverage[r]) /\ coverage \in [Receivers -> Extent]
    BY <1>1 DEF Known
  <2>3. s = r /\ coverage'[r] = Learned(coverage[r], fix'[i].lat)
    BY <1>1, <2>1, <2>2 DEF PositionReceived
  <2>4. pub' # Nothing /\ pub'.rid = r /\ pub'.icao = i
    BY <2>1, <2>3 DEF Nothing
  <2>5. coverage[r].n = MinPositions => InRange(coverage[r], fix'[i].lat)
    BY <2>1, <2>2, <2>3, CheckedIsInRange
  <2> QED
    BY <2>1, <2>2, <2>3, <2>4, <2>5, LearnedLemma, Constants
<1>2. ASSUME Inv, Known, [Next]_vars PROVE [Taught]_vars
  <2>1. CASE coverage' = coverage
    BY <2>1
  <2>2. CASE coverage' # coverage
    <3>1. PICK i \in Icaos, s \in Ids, p \in Places, k \in Parities : Position(i, s, p, k)
      BY <1>2, <2>2 DEF Next, OtherMessage, ReapStale, Tick, vars
    <3> QED
      BY <1>1, <1>2, <3>1
  <2> QED
    BY <2>1, <2>2
<1> QED
  BY <1>2, KnownHolds, PTL DEF Spec, OnlyConfirmedTeaches

(* What a receiver with a known coverage reports stays published only in   *)
(* its range.                                                              *)
THEOREM PublishedIsInRange == Spec => PublishedInRange
<1> DEFINE Ranged ==
      pub' # Nothing /\ pub'.rid # NoId =>
        LET place == fix'[pub'.icao].lat
            extent == coverage[pub'.rid]
        IN place # None /\ extent.n = MinPositions => InRange(extent, place)
<1>1. ASSUME Inv, Known, NEW i \in Icaos, NEW r \in Ids, NEW p \in Places, NEW k \in Parities,
             Position(i, r, p, k), pub' # Nothing, pub'.rid # NoId,
             fix'[pub'.icao].lat # None, coverage[pub'.rid].n = MinPositions
      PROVE  InRange(coverage[pub'.rid], fix'[pub'.icao].lat)
  <2>1. pub' = [icao |-> i, rid |-> r]
    BY <1>1, PositionStep
  <2>2. pub'.icao = i /\ pub'.rid = r /\ r \in Receivers
    BY <1>1, <2>1
  <2>3. fix'[i].lat \in Places /\ CheckPosition(r, fix'[i].lat)
    BY <1>1, <2>2, PositionStep
  <2>4. coverage[r] \in Extent /\ Ordered(coverage[r])
    BY <1>1, <2>2 DEF Known
  <2> QED
    BY <1>1, <2>2, <2>3, <2>4, CheckedIsInRange
<1>2. ASSUME Inv, Known, [Next]_vars PROVE [Ranged]_vars
  <2>1. CASE pub' = Nothing \/ UNCHANGED vars
    BY <2>1
  <2>2. CASE pub' # Nothing /\ ~UNCHANGED vars
    <3>1. PICK i \in Icaos, r \in Ids, p \in Places, k \in Parities : Position(i, r, p, k)
      BY <1>2, <2>2 DEF Next, OtherMessage, ReapStale, Tick
    <3> QED
      BY <1>1, <1>2, <3>1
  <2> QED
    BY <2>1, <2>2
<1> QED
  BY <1>2, KnownHolds, PTL DEF Spec, PublishedInRange
=============================================================================

----------------------------- MODULE AisReader ------------------------------
(***************************************************************************)
(* The AIS side of the server: one reader thread per source                *)
(* (src/src/ais/mod.rs) that normalises lines, drops repeated sentences    *)
(* (dedup.rs), assembles multi-part reports and decodes them (decode.rs);  *)
(* a channel; the consumer and the reaper thread of main.rs, which share   *)
(* the vessel store (vessel.rs) behind a lock that each takes once per     *)
(* frame or sweep.                                                         *)
(*                                                                         *)
(* A report is what a ship sends.  A sentence is a part of one under a     *)
(* tag; the same part may come under several tags, and several reports may *)
(* share a sequence id and channel, their key.  A source may lose, repeat, *)
(* reorder and mix lines.  Instants are ages that saturate.  The speed,    *)
(* course, type and dimensions of a ship go the way of the fields that are *)
(* kept here.                                                              *)
(***************************************************************************)
EXTENDS Integers, SequencesExt

CONSTANTS
  Sources,      \* connections of --ais-sources
  Reports,      \* the reports that are sent
  Traffic,      \* bound: sets of lines, one of which a behaviour carries
  DedupTtl,     \* the 30 s of DedupCache
  AssembleTtl,  \* the 30 s of FragmentAssembler
  ReapAfter,    \* the 30 min of reap_stale
  MaxChan       \* bound: frames in the channel

Tags == {"AI", "BS", "$", "XX"}  \* how a sentence starts: "XX" is anything else
Heard == UNION Traffic
Mmsis == {r.mmsi : r \in Reports}
Keys == {r.key : r \in Reports}
Texts == {r.name : r \in Reports} \cup {r.callsign : r \in Reports}

(* The sentence of a line, out of the stamp or other text around it.       *)
Bare(l) == [l EXCEPT !.around = ""]
Sentences == {Bare(l) : l \in Heard}

ASSUME AisAssumption ==
  /\ \A r \in Reports :
       /\ {r.type, r.bits, r.page, r.total} \subseteq Nat /\ r.total > 0
       /\ {r.lon, r.lat} \subseteq Int
  /\ Heard \subseteq [around : {"", "junk"}, tag : Tags, report : Reports, part : Nat]
  /\ {DedupTtl, AssembleTtl, ReapAfter, MaxChan} \subseteq Nat \ {0}
  /\ "" \in Texts

VARIABLES
  traffic, \* the lines that sources carry
  alive,   \* the reader threads that have not panicked
  conn,    \* the sources that are connected
  dedup,   \* per source: the age of the entry of each sentence
  frags,   \* per source and key: the parts that wait for the others
  chan,    \* the frames sent to the consumer
  store,   \* the vessel store, by MMSI
  heard,   \* history: since when a vessel has not been heard
  sent,    \* history: since when a sentence has not brought a frame about
  alone    \* history: the parts that came to a key at rest and are its last

aisVars == <<traffic, alive, conn, dedup, frags, chan, store, heard, sent, alone>>

(* An Option is a set: empty, or with the value as its one member. *)
None == {}
NoEntry == [parts |-> <<>>, age |-> 0]
NoVessel == [place |-> None, name |-> None, callsign |-> None, age |-> ReapAfter]

AisInit ==
  /\ traffic \in Traffic
  /\ alive = Sources
  /\ conn = {}
  /\ dedup = [s \in Sources |-> [t \in Heard \cup Sentences |-> DedupTtl]]
  /\ frags = [s \in Sources |-> [k \in Keys |-> NoEntry]]
  /\ chan = <<>>
  /\ store = [m \in Mmsis |-> NoVessel]
  /\ heard = [m \in Mmsis |-> ReapAfter]
  /\ sent = [s \in Sources |-> [t \in Sentences |-> DedupTtl]]
  /\ alone = [s \in Sources |-> {}]

-----------------------------------------------------------------------------
(* decode_ais: the type tells the fields, every type has a least length.   *)
Whole(r, bits) == r.bits >= bits

(* validate_position, in 1/10000 minutes. *)
NotAvailable(lon, lat) == lon = 108600000 \/ lat = 54600000
Valid(lon, lat) ==
  /\ ~NotAvailable(lon, lat) /\ ~(lon = 0 /\ lat = 0)
  /\ lon \in -108000000..108000000 /\ lat \in -54000000..54000000

(* Type 27 gives 1/10 minutes; the code multiplies them by 600. *)
Lon(r) == IF r.type = 27 THEN 600 * r.lon ELSE r.lon
Lat(r) == IF r.type = 27 THEN 600 * r.lat ELSE r.lat

ClassA(r) == r.type \in 1..3 /\ Whole(r, 168)
ClassB(r) == (r.type = 18 /\ Whole(r, 168)) \/ (r.type = 19 /\ Whole(r, 312))
LongRange(r) == r.type = 27 /\ Whole(r, 96)
PositionFrame(r) == (ClassA(r) \/ ClassB(r) \/ LongRange(r)) /\ Valid(Lon(r), Lat(r))
Static5(r) == r.type = 5 /\ Whole(r, 424)
Static24(r) ==
  /\ r.type = 24
  /\ \/ r.page = 0 /\ Whole(r, 160)
     \/ r.page = 1 /\ Whole(r, 168)
AtoNFrame(r) == r.type = 21 /\ Whole(r, 272) /\ Valid(r.lon, r.lat)

(* A payload that can be a report at all: a type and an MMSI. *)
Readable(r) == r.bits >= 38 /\ r.mmsi # 0

(* The frame of a payload.  Its fields lie in the first part; the other    *)
(* parts only bring the bits that part lacks.  Page A of type 24 has no    *)
(* callsign and page B no name.                                            *)
Decoded(payload) ==
  LET r == (CHOOSE t \in payload[1] : TRUE).report
      frame(kind) == [kind |-> kind, mmsi |-> r.mmsi, from |-> UNION Range(payload),
                      place |-> <<Lon(r), Lat(r)>>,
                      name |-> IF r.type = 24 /\ r.page = 1 THEN "" ELSE r.name,
                      callsign |-> IF r.type = 24 /\ r.page = 0 THEN "" ELSE r.callsign]
  IN IF ~Readable(r) THEN {}
     ELSE IF PositionFrame(r) THEN {frame("position")}
     ELSE IF Static5(r) \/ Static24(r) THEN {frame("static")}
     ELSE IF AtoNFrame(r) THEN {frame("aton")} ELSE {}

-----------------------------------------------------------------------------
(* normalize_nmea cuts a sentence out of what surrounds it in its line;    *)
(* the tag and the sequence id stay, and the cache tells sentences by them.*)
NormalisedKeepsJunk(l) == IF l.tag = "XX" THEN {} ELSE {l}  \* seeded bug
Normalised(l) == IF l.tag = "XX" THEN {} ELSE {Bare(l)}

IsDuplicate(s, t) == dedup[s][t] < DedupTtl
DedupRefreshed(s, t) ==  \* seeded bug: a duplicate renews its entry
  [dedup EXCEPT ![s][t] = 0]
DedupOnDuplicate(s, t) == dedup

(* FragmentAssembler::process on a part of several. *)
KeptAll(fs) == fs  \* seeded bug: no clean-up
Kept(fs) == [k \in Keys |-> IF fs[k].age < AssembleTtl THEN fs[k] ELSE NoEntry]

EntryRestarted(e, t) ==  \* seeded bug: any part begins a new entry
  [parts |-> [[i \in 1..t.report.total |-> None] EXCEPT ![t.part] = {t}], age |-> 0]
Entry(e, t) ==
  LET fresh == [parts |-> [i \in 1..t.report.total |-> None], age |-> 0]
  IN [(IF Len(e.parts) = t.report.total THEN e ELSE fresh) EXCEPT !.parts[t.part] = {t}]
Complete(e) == None \notin Range(e.parts)

Numbered(t) == t.part > 0
Panics(t) == t.report.total > 1 /\ t.part > t.report.total

(* What an accepted sentence does to the fragments and what it yields. *)
Processed(s, t) ==
  LET fs == Kept(frags[s])
      e == Entry(fs[t.report.key], t)
      k == t.report.key
  IN IF ~Numbered(t) THEN [frags |-> fs, payload |-> <<>>]
     ELSE IF t.report.total = 1 THEN [frags |-> fs, payload |-> <<{t}>>]
     ELSE IF Complete(e) THEN [frags |-> [fs EXCEPT ![k] = NoEntry], payload |-> e.parts]
     ELSE [frags |-> [fs EXCEPT ![k] = e], payload |-> <<>>]

-----------------------------------------------------------------------------
(* History: a key rests when no part with it was accepted for AssembleTtl. *)
AtRest(s, k) ==
  \A u \in Sentences :
    u.report.key = k /\ u.report.total > 1 => dedup[s][u] >= AssembleTtl
NowAlone(s, t) ==
  IF t.report.total = 1 THEN alone
  ELSE [alone EXCEPT ![s] = {u \in @ : u.report.key # t.report.key}
                            \cup (IF AtRest(s, t.report.key) THEN {t} ELSE {})]

(* The vessel of a one-part sentence is heard even if the sentence is a    *)
(* repetition.                                                             *)
Vessels(frames) == {f.mmsi : f \in {g \in frames : g.kind # "aton"}}
HeardOf(t) == IF t.report.total = 1 /\ t.part = 1 THEN Vessels(Decoded(<<{t}>>)) ELSE {}
NowHeard(ms) == [m \in Mmsis |-> IF m \in ms THEN 0 ELSE heard[m]]

Ignore(s, t) ==
  /\ IsDuplicate(s, t)
  /\ dedup' = DedupOnDuplicate(s, t)
  /\ heard' = NowHeard(HeardOf(t))
  /\ UNCHANGED <<alive, conn, frags, chan, sent, alone>>

(* The vector of parts is indexed by the number in the sentence.           *)
Panic(s, t) ==
  /\ ~IsDuplicate(s, t) /\ Panics(t)
  /\ alive' = alive \ {s}
  /\ conn' = conn \ {s}
  /\ UNCHANGED <<dedup, frags, chan, heard, sent, alone>>

Accept(s, t) ==
  LET p == Processed(s, t)
      frames == IF p.payload = <<>> THEN {} ELSE Decoded(p.payload)
  IN /\ ~IsDuplicate(s, t) /\ ~Panics(t)
     /\ dedup' = [dedup EXCEPT ![s][t] = 0]
     /\ frags' = [frags EXCEPT ![s] = p.frags]
     /\ chan' = chan \o SetToSeq(frames)
     /\ heard' = NowHeard(HeardOf(t) \cup Vessels(frames))
     /\ sent' = IF frames = {} THEN sent ELSE [sent EXCEPT ![s][Bare(t)] = 0]
     /\ alone' = NowAlone(s, t)
     /\ UNCHANGED <<alive, conn>>

ReadLine(s, l) ==
  /\ s \in conn /\ Len(chan) < MaxChan
  /\ \E t \in Normalised(l) : Ignore(s, t) \/ Panic(s, t) \/ Accept(s, t)
  /\ UNCHANGED <<traffic, store>>

(* The cache and the assembler belong to the thread, not the connection.   *)
Connect(s) ==
  /\ s \in alive \ conn
  /\ conn' = conn \cup {s}
  /\ UNCHANGED <<traffic, alive, dedup, frags, chan, store, heard, sent, alone>>
Disconnect(s) ==
  /\ s \in conn
  /\ conn' = conn \ {s}
  /\ UNCHANGED <<traffic, alive, dedup, frags, chan, store, heard, sent, alone>>

-----------------------------------------------------------------------------
(* update_position and update_static: an empty text changes nothing.       *)
Updated(v, f) ==
  [place |-> IF f.kind = "position" THEN {f.place} ELSE v.place,
   name |-> IF f.kind = "static" /\ f.name # "" THEN {f.name} ELSE v.name,
   callsign |-> IF f.kind = "static" /\ f.callsign # "" THEN {f.callsign} ELSE v.callsign,
   age |-> 0]

Consume ==
  /\ chan # <<>>
  /\ LET f == Head(chan)
     IN store' = IF f.kind = "aton" THEN store ELSE [store EXCEPT ![f.mmsi] = Updated(@, f)]
  /\ chan' = Tail(chan)
  /\ UNCHANGED <<traffic, alive, conn, dedup, frags, heard, sent, alone>>

ReapedUnnamed(v) ==  \* seeded bug: a vessel with a name stays
  IF v.age < ReapAfter \/ v.name # None THEN v ELSE NoVessel
Reaped(v) == IF v.age < ReapAfter THEN v ELSE NoVessel
ReapStale ==
  /\ store' = [m \in Mmsis |-> Reaped(store[m])]
  /\ UNCHANGED <<traffic, alive, conn, dedup, frags, chan, heard, sent, alone>>

Aged(age, bound) == IF age < bound THEN age + 1 ELSE age
AisTick ==
  /\ dedup' = [s \in Sources |-> [t \in Heard \cup Sentences |-> Aged(dedup[s][t], DedupTtl)]]
  /\ frags' = [s \in Sources |-> [k \in Keys |->
       IF frags[s][k] = NoEntry THEN NoEntry
       ELSE [frags[s][k] EXCEPT !.age = Aged(@, AssembleTtl)]]]
  /\ store' = [m \in Mmsis |-> [store[m] EXCEPT !.age = Aged(@, ReapAfter)]]
  /\ heard' = [m \in Mmsis |-> Aged(heard[m], ReapAfter)]
  /\ sent' = [s \in Sources |-> [t \in Sentences |-> Aged(sent[s][t], DedupTtl)]]
  /\ UNCHANGED <<traffic, alive, conn, chan, alone>>

AisNext ==
  \/ \E s \in Sources : Connect(s) \/ Disconnect(s) \/ \E l \in traffic : ReadLine(s, l)
  \/ Consume
  \/ ReapStale
  \/ AisTick

AisSpec == AisInit /\ [][AisNext]_aisVars

(* Threads that wait for the channel or for time are scheduled.            *)
AisFairSpec == AisSpec /\ WF_aisVars(Consume) /\ WF_aisVars(ReapStale) /\ WF_aisVars(AisTick)

-----------------------------------------------------------------------------
(* A vessel that is heard stays: deduplication swallows its repeated       *)
(* sentences, but never for so long that reap_stale takes the vessel for a *)
(* silent one (dedup.rs:29-34 does not renew an entry; vessel.rs:73-76).   *)
Pending(m) == \E i \in DOMAIN chan : chan[i].mmsi = m
HeardVesselStays ==
  \A m \in Mmsis :
    heard[m] <= ReapAfter - DedupTtl /\ ~Pending(m) => store[m] # NoVessel

(* A vessel that falls silent leaves the store (main.rs:118-121), whatever *)
(* is known of it and whatever other vessels send.                         *)
SilentVesselLeaves ==
  \A m \in Mmsis : []<>(store[m] = NoVessel \/ heard[m] < ReapAfter)

(* The sentences of the frame that a step of a source sends.  The source   *)
(* of a frame is the one that enters its sentence in its cache.            *)
Sends(s) == Len(chan') > Len(chan) /\ dedup'[s] # dedup[s]
Sent == chan'[Len(chan')].from

(* What is assembled belongs together as far as the assembler can tell:    *)
(* the parts of a frame have one key and one total, there is one in each   *)
(* place, and each was accepted less than 30 s before; what is older is    *)
(* gone, also across reconnections (decode.rs:252, 278, 284).  Parts of    *)
(* two reports with one key and one total do mix.                          *)
AssembledInTime ==
  [][\A s \in Sources : Sends(s) =>
       \A t, u \in Sent :
         /\ t.report.key = u.report.key /\ t.report.total = u.report.total
         /\ t.part = u.part => t = u
         /\ t.report.total > 1 => {v.part : v \in Sent} = 1..t.report.total
         /\ dedup'[s][t] < AssembleTtl]_aisVars

(* Deduplication and assembly do not defeat each other: the second part of *)
(* a report of two that is not a repetition completes it, if the first was *)
(* accepted less than 30 s ago, when its key was at rest, and no part with *)
(* the key has been accepted since (dedup.rs:29, decode.rs:252-284).       *)
PartsMeet ==
  [][\A s \in Sources, t \in Sentences : dedup'[s][t] = 0 /\ dedup[s][t] = DedupTtl =>
       \A u \in Sentences : u.report = t.report /\ t.report.total = 2 /\ {t.part, u.part} = 1..2
       /\ u \in alone[s] /\ dedup[s][u] < AssembleTtl =>
         \/ Sends(s) /\ Sent = {t, u}
         \/ Decoded(<<{t}>>) = {}]_aisVars

(* A sentence that has brought a frame about, alone or as the last of its  *)
(* parts to come, is in no other frame of its source for 30 s, whatever    *)
(* surrounds it in its line and whatever comes between ("same sentence     *)
(* rejected within window", ARCHITECTURE.md:115).                          *)
NoEarlyRepeat ==
  [][\A s \in Sources : Sends(s) =>
       \A t \in Sent : sent[s][Bare(t)] = DedupTtl]_aisVars
=============================================================================

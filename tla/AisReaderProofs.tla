-------------------------- MODULE AisReaderProofs ---------------------------
(***************************************************************************)
(* For every set of sources, reports and lines, and every value of the     *)
(* timeouts: what is assembled has one key and none of it is old,          *)
(* deduplication does not keep parts from meeting, no sentence brings two  *)
(* frames about within the time of the cache, and a vessel that is heard   *)
(* stays in the store.                                                     *)
(***************************************************************************)
EXTENDS AisReader, FiniteSetTheorems, SequenceTheorems, TLAPS

Kinds == {"position", "static", "aton"}
Frames == [kind : Kinds, mmsi : Mmsis, from : SUBSET Sentences, place : Int \X Int,
           name : Texts, callsign : Texts]
Entries == [parts : Seq(SUBSET Sentences), age : 0..AssembleTtl]
Cached == Heard \cup Sentences
VesselRecords == [place : SUBSET (Int \X Int), name : SUBSET Texts,
                  callsign : SUBSET Texts, age : 0..ReapAfter]

TypeInv ==
  /\ traffic \subseteq Heard
  /\ dedup \in [Sources -> [Cached -> 0..DedupTtl]]
  /\ frags \in [Sources -> [Keys -> Entries]]
  /\ chan \in Seq(Frames)
  /\ store \in [Mmsis -> VesselRecords]
  /\ heard \in [Mmsis -> 0..ReapAfter]
  /\ sent \in [Sources -> [Sentences -> 0..DedupTtl]]
  /\ alone \in [Sources -> SUBSET Sentences]

-----------------------------------------------------------------------------
(* The constants and the values that stand for nothing.                    *)
LEMMA Ages ==
  {DedupTtl, AssembleTtl, ReapAfter, MaxChan} \subseteq Nat \ {0}
BY AisAssumption

LEMMA ReportNumbers ==
  ASSUME NEW r \in Reports
  PROVE  r.lon \in Int /\ r.lat \in Int /\ r.total \in Nat \ {0}
<1>1. {r.type, r.bits, r.page, r.total} \subseteq Nat /\ r.total > 0 /\ {r.lon, r.lat} \subseteq Int
  BY AisAssumption
<1> QED
  BY <1>1

LEMMA Sentence ==
  ASSUME NEW t \in Sentences
  PROVE  /\ t.report \in Reports /\ t.part \in Nat
         /\ t.report.total \in Nat \ {0}
         /\ t.report.key \in Keys
         /\ Bare(t) = t
<1>1. PICK l \in Heard : t = Bare(l)
  BY DEF Sentences
<1>2. l \in [around : {"", "junk"}, tag : Tags, report : Reports, part : Nat]
  BY AisAssumption
<1>3. t = [around |-> "", tag |-> l.tag, report |-> l.report, part |-> l.part]
  BY <1>1, <1>2 DEF Bare
<1>4. PICK tag, r, p : t = [around |-> "", tag |-> tag, report |-> r, part |-> p]
                       /\ r \in Reports /\ p \in Nat
  BY <1>2, <1>3
<1>5. t.report \in Reports /\ t.part \in Nat
  BY <1>4
<1>7. Bare(t) = t
  <2>1. Bare(t) = [t EXCEPT !.around = ""]
    BY DEF Bare
  <2> QED
    BY <1>4, <2>1
<1>6. t.report.total \in Nat \ {0}
  BY <1>5, ReportNumbers
<1> QED
  BY <1>5, <1>6, <1>7 DEF Keys

LEMMA Blank ==
  /\ NoEntry \in Entries /\ Len(NoEntry.parts) = 0 /\ NoEntry.age = 0
  /\ NoVessel \in VesselRecords /\ NoVessel.age = ReapAfter
<1>1. NoEntry \in Entries /\ Len(NoEntry.parts) = 0 /\ NoEntry.age = 0
  BY Ages DEF NoEntry, Entries
<1>2. NoVessel \in VesselRecords /\ NoVessel.age = ReapAfter
  BY Ages DEF NoVessel, VesselRecords, None
<1> QED
  BY <1>1, <1>2

LEMMA AgedType ==
  ASSUME NEW bound \in Nat, NEW age \in 0..bound
  PROVE  /\ Aged(age, bound) \in 0..bound
         /\ age < bound => Aged(age, bound) = age + 1
         /\ Aged(bound, bound) = bound
BY DEF Aged

-----------------------------------------------------------------------------
(* The frame of a payload is that of the report in its first part.         *)
ReportOf(payload) == (CHOOSE t \in payload[1] : TRUE).report

LEMMA DecodedFrames ==
  ASSUME NEW payload, ReportOf(payload) \in Reports, UNION Range(payload) \subseteq Sentences
  PROVE  \/ Decoded(payload) = {}
         \/ \E f \in Frames : Decoded(payload) = {f} /\ f.from = UNION Range(payload)
<1> DEFINE r == ReportOf(payload)
           frame(kind) == [kind |-> kind, mmsi |-> r.mmsi, from |-> UNION Range(payload),
                           place |-> <<Lon(r), Lat(r)>>,
                           name |-> IF r.type = 24 /\ r.page = 1 THEN "" ELSE r.name,
                           callsign |-> IF r.type = 24 /\ r.page = 0 THEN "" ELSE r.callsign]
<1>1. Lon(r) \in Int /\ Lat(r) \in Int
  <2>1. r.lon \in Int /\ r.lat \in Int
    BY ReportNumbers
  <2> HIDE DEF r
  <2> QED
    BY <2>1 DEF Lon, Lat
<1>2. r.mmsi \in Mmsis /\ r.name \in Texts /\ r.callsign \in Texts /\ "" \in Texts
  BY AisAssumption DEF Mmsis, Texts
<1>3. ASSUME NEW kind \in Kinds
      PROVE  frame(kind) \in Frames /\ frame(kind).from = UNION Range(payload)
  BY <1>1, <1>2 DEF Frames
<1>4. Decoded(payload) \in {{}, {frame("position")}, {frame("static")}, {frame("aton")}}
  BY DEF Decoded, ReportOf
<1> QED
  BY <1>3, <1>4 DEF Kinds

(* Whether there is a frame at all is up to the report.                    *)
LEMMA SamePayload ==
  ASSUME NEW p, NEW q, ReportOf(p) = ReportOf(q)
  PROVE  Decoded(p) = {} <=> Decoded(q) = {}
<1> DEFINE silent(r) ==
             ~ /\ Readable(r)
               /\ PositionFrame(r) \/ Static5(r) \/ Static24(r) \/ AtoNFrame(r)
<1>1. (Decoded(p) = {} <=> silent(ReportOf(p))) /\ (Decoded(q) = {} <=> silent(ReportOf(q)))
  BY DEF Decoded, ReportOf
<1> HIDE DEF silent
<1> QED
  BY <1>1

LEMMA OneReport ==
  ASSUME NEW payload, NEW r, payload[1] # {}, \A t \in payload[1] : t.report = r
  PROVE  ReportOf(payload) = r
BY DEF ReportOf

LEMMA AsSequence ==
  /\ SetToSeq({}) = <<>>
  /\ \A x : SetToSeq({x}) = <<x>>
<1>1. Cardinality({}) = 0 /\ SetToSeq({}) \in [1..0 -> {}]
  <2>1. Cardinality({}) = 0
    BY FS_EmptySet
  <2>2. \E f \in [1..0 -> {}] : IsInjective(f)
    <3>1. [i \in 1..0 |-> 0] \in [1..0 -> {}] /\ IsInjective([i \in 1..0 |-> 0])
      BY DEF IsInjective
    <3> QED
      BY <3>1
  <2> QED
    BY <2>1, <2>2 DEF SetToSeq
<1>2. SetToSeq({}) = <<>>
  BY <1>1
<1>3. ASSUME NEW x PROVE SetToSeq({x}) = <<x>>
  <2>1. Cardinality({x}) = 1
    BY FS_Singleton
  <2>2. <<x>> \in [1..1 -> {x}] /\ IsInjective(<<x>>)
    BY DEF IsInjective
  <2>3. SetToSeq({x}) \in [1..1 -> {x}]
    BY <2>1, <2>2 DEF SetToSeq
  <2> QED
    BY <2>3
<1> QED
  BY <1>2, <1>3

-----------------------------------------------------------------------------
(* Entries of the assembler.  One that is neither empty nor stale holds    *)
(* sentences of its key that have as many parts as it has places, each in  *)
(* its place, and none that was accepted before the entry was made.        *)
Belongs(e, d, k) ==
  /\ Len(e.parts) > 1
  /\ \A i \in 1..Len(e.parts) : \A x \in e.parts[i] :
       /\ e.parts[i] = {x} /\ x.part = i
       /\ x.report.key = k /\ x.report.total = Len(e.parts)
       /\ d[x] <= e.age
  /\ \E i \in 1..Len(e.parts) : e.parts[i] # {}
Sound(e, d, k) ==
  \/ e = NoEntry
  \/ e.age = AssembleTtl
  \/ Belongs(e, d, k)

KeptEntry(e) == IF e.age < AssembleTtl THEN e ELSE NoEntry

LEMMA KeptAt ==
  ASSUME NEW fs \in [Keys -> Entries]
  PROVE  /\ Kept(fs) \in [Keys -> Entries]
         /\ \A k \in Keys : Kept(fs)[k] = KeptEntry(fs[k])
BY Blank DEF Kept, KeptEntry

(* A part in the entry of its key: the rest of the entry stays if it has   *)
(* as many places as the report, and is empty otherwise.                   *)
LEMMA EntryFacts ==
  ASSUME NEW e \in Entries, NEW t \in Sentences, t.part \in 1..t.report.total
  PROVE  LET n == Entry(e, t)
             joins == Len(e.parts) = t.report.total
         IN /\ n \in Entries
            /\ Len(n.parts) = t.report.total
            /\ n.parts[t.part] = {t}
            /\ \A i \in 1..t.report.total :
                 i # t.part => n.parts[i] = IF joins THEN e.parts[i] ELSE {}
            /\ n.age = IF joins THEN e.age ELSE 0
<1> DEFINE total == t.report.total
           blank == [i \in 1..total |-> None]
           fresh == [parts |-> blank, age |-> 0]
           joins == Len(e.parts) = total
           base == IF joins THEN e ELSE fresh
<1>1. total \in Nat \ {0}
  BY Sentence
<1>2. blank \in Seq(SUBSET Sentences) /\ Len(blank) = total /\ \A i \in 1..total : blank[i] = {}
  BY <1>1 DEF None
<1>3. fresh \in Entries
  BY <1>2, Ages DEF Entries
<1>4. base \in Entries /\ Len(base.parts) = total
      /\ (\A i \in 1..total : base.parts[i] = IF joins THEN e.parts[i] ELSE {})
      /\ base.age = IF joins THEN e.age ELSE 0
  BY <1>2, <1>3
<1>5. Entry(e, t) = [base EXCEPT !.parts[t.part] = {t}]
  BY DEF Entry
<1> HIDE DEF base, blank, fresh, joins
<1>6. Entry(e, t) = [parts |-> [base.parts EXCEPT ![t.part] = {t}], age |-> base.age]
  BY <1>4, <1>5 DEF Entries
<1>7. base.parts \in Seq(SUBSET Sentences) /\ base.age \in 0..AssembleTtl
  BY <1>4 DEF Entries
<1>8. [base.parts EXCEPT ![t.part] = {t}] \in Seq(SUBSET Sentences)
      /\ Len([base.parts EXCEPT ![t.part] = {t}]) = total
  BY <1>4, <1>7
<1>9. \A i \in 1..total : [base.parts EXCEPT ![t.part] = {t}][i]
                            = IF i = t.part THEN {t} ELSE base.parts[i]
  BY <1>4, <1>7
<1> QED
  BY <1>4, <1>6, <1>7, <1>8, <1>9 DEF Entries, joins

(* The entry after a part of its key, whatever report the part is of.      *)
LEMMA Assembles ==
  ASSUME NEW k \in Keys, NEW e \in Entries, NEW d \in [Cached -> 0..DedupTtl], Sound(e, d, k),
         NEW t \in Sentences, t.report.key = k, t.report.total > 1, t.part \in 1..t.report.total
  PROVE  Belongs(Entry(KeptEntry(e), t), [d EXCEPT ![t] = 0], k)
<1> DEFINE total == t.report.total
           b == KeptEntry(e)
           n == Entry(b, t)
           dd == [d EXCEPT ![t] = 0]
<1>1. b \in Entries
  BY Blank DEF KeptEntry
<1>2. /\ n \in Entries /\ Len(n.parts) = total /\ n.parts[t.part] = {t}
      /\ \A i \in 1..total :
           i # t.part => n.parts[i] = IF Len(b.parts) = total THEN b.parts[i] ELSE {}
      /\ n.age = IF Len(b.parts) = total THEN b.age ELSE 0
  BY <1>1, EntryFacts
<1>3. total \in Nat
  BY Sentence
<1>4. n.age \in Nat /\ dd[t] = 0 /\ \A x \in Sentences : dd[x] = IF x = t THEN 0 ELSE d[x]
  BY <1>2, Ages DEF Entries, Cached
<1>5. \A i \in 1..total : n.parts[i] \subseteq Sentences
  BY <1>2 DEF Entries
<1>6. Len(b.parts) = total => b = e /\ Belongs(e, d, k)
  BY <1>3, Blank, Ages DEF KeptEntry, Sound
<1>7. ASSUME NEW i \in 1..total, NEW x \in n.parts[i]
      PROVE  /\ n.parts[i] = {x} /\ x.part = i
             /\ x.report.key = k /\ x.report.total = total
             /\ dd[x] <= n.age
  <2>1. CASE i = t.part
    BY <1>2, <1>4, <1>7, <2>1
  <2>2. CASE i # t.part
    <3>1. Len(b.parts) = total /\ n.parts[i] = b.parts[i] /\ n.age = b.age
      BY <1>2, <1>7, <2>2
    <3>2. b = e /\ Belongs(e, d, k)
      BY <1>6, <3>1
    <3>3. /\ n.parts[i] = {x} /\ x.part = i /\ x.report.key = k /\ x.report.total = total
          /\ d[x] <= n.age
      BY <1>7, <3>1, <3>2 DEF Belongs
    <3>4. dd[x] <= n.age
      BY <1>4, <1>5, <1>7, <3>3
    <3> QED
      BY <3>3, <3>4
  <2> QED
    BY <2>1, <2>2
<1>8. \E i \in 1..total : n.parts[i] # {}
  BY <1>2
<1> HIDE DEF n, dd
<1>9. Belongs(n, dd, k)
  BY <1>2, <1>7, <1>8 DEF Belongs
<1> QED
  BY <1>9 DEF n, dd

-----------------------------------------------------------------------------
(* FragmentAssembler on the fragments fs of a source: the new fragments g  *)
(* and the payload.                                                        *)
Handles(fs, t, g, payload) ==
  LET k == t.report.key
      n == Entry(KeptEntry(fs[k]), t)
  IN /\ g \in [Keys -> Entries]
     /\ \A j \in Keys \ {k} : g[j] = KeptEntry(fs[j])
     /\ \/ ~Numbered(t) /\ g[k] = KeptEntry(fs[k]) /\ payload = <<>>
        \/ Numbered(t) /\ t.report.total = 1 /\ g[k] = KeptEntry(fs[k]) /\ payload = <<{t}>>
        \/ /\ t.report.total > 1 /\ t.part \in 1..t.report.total
           /\ Complete(n) /\ g[k] = NoEntry /\ payload = n.parts
        \/ /\ t.report.total > 1 /\ t.part \in 1..t.report.total
           /\ ~Complete(n) /\ g[k] = n /\ payload = <<>>

LEMMA ProcessedFacts ==
  ASSUME NEW s \in Sources, frags[s] \in [Keys -> Entries], NEW t \in Sentences, ~Panics(t)
  PROVE  Handles(frags[s], t, Processed(s, t).frags, Processed(s, t).payload)
<1> DEFINE k == t.report.key
           fs == Kept(frags[s])
           n == Entry(KeptEntry(frags[s][k]), t)
<1>0. PICK p : p = Processed(s, t)
  OBVIOUS
<1> SUFFICES Handles(frags[s], t, p.frags, p.payload)
  BY <1>0
<1>1. /\ k \in Keys /\ t.part \in Nat /\ t.report.total \in Nat \ {0}
      /\ t.part > t.report.total => t.report.total = 1
  BY Sentence DEF Panics
<1>2. fs \in [Keys -> Entries] /\ \A j \in Keys : fs[j] = KeptEntry(frags[s][j])
  BY KeptAt
<1>3. Entry(fs[k], t) = n /\ KeptEntry(frags[s][k]) \in Entries
  BY <1>1, <1>2
<1>4. CASE ~Numbered(t)
  <2>1. p = [frags |-> fs, payload |-> <<>>]
    BY <1>0, <1>4 DEF Processed
  <2>2. p.frags = fs /\ p.payload = <<>>
    BY <2>1
  <2> HIDE DEF fs
  <2> QED
    BY <1>1, <1>2, <1>4, <2>2 DEF Handles
<1>5. CASE Numbered(t) /\ t.report.total = 1
  <2>1. p = [frags |-> fs, payload |-> <<{t}>>]
    BY <1>0, <1>5 DEF Processed
  <2>2. p.frags = fs /\ p.payload = <<{t}>>
    BY <2>1
  <2> HIDE DEF fs
  <2> QED
    BY <1>1, <1>2, <1>5, <2>2 DEF Handles
<1>6. CASE Numbered(t) /\ t.report.total # 1
  <2>1. t.report.total > 1 /\ t.part \in 1..t.report.total
    BY <1>1, <1>6 DEF Numbered
  <2>2. n \in Entries
    BY <1>3, <2>1, EntryFacts
  <2>3. CASE Complete(n)
    <3>1. p = [frags |-> [fs EXCEPT ![k] = NoEntry], payload |-> n.parts]
      BY <1>0, <1>3, <1>6, <2>3, Zenon DEF Processed
    <3>2. p.frags = [fs EXCEPT ![k] = NoEntry] /\ p.payload = n.parts
      BY <3>1
    <3> HIDE DEF fs, n
    <3>3. p.frags \in [Keys -> Entries] /\ p.frags[k] = NoEntry
          /\ \A j \in Keys \ {k} : p.frags[j] = KeptEntry(frags[s][j])
      BY <1>1, <1>2, <3>2, Blank
    <3> QED
      BY <2>1, <2>3, <3>2, <3>3 DEF Handles, n
  <2>4. CASE ~Complete(n)
    <3>1. p = [frags |-> [fs EXCEPT ![k] = n], payload |-> <<>>]
      BY <1>0, <1>3, <1>6, <2>4, Zenon DEF Processed
    <3>2. p.frags = [fs EXCEPT ![k] = n] /\ p.payload = <<>>
      BY <3>1
    <3> HIDE DEF fs, n
    <3>3. p.frags \in [Keys -> Entries] /\ p.frags[k] = n
          /\ \A j \in Keys \ {k} : p.frags[j] = KeptEntry(frags[s][j])
      BY <1>1, <1>2, <2>2, <3>2
    <3> QED
      BY <2>1, <2>4, <3>2, <3>3 DEF Handles, n
  <2> QED
    BY <2>3, <2>4
<1> QED
  BY <1>4, <1>5, <1>6

(* A payload is of sentences, and there is one in its first place.         *)
LEMMA PayloadFacts ==
  ASSUME NEW fs \in [Keys -> Entries], NEW t \in Sentences, NEW g, NEW payload,
         Handles(fs, t, g, payload), payload # <<>>
  PROVE  /\ payload \in Seq(SUBSET Sentences) /\ UNION Range(payload) \subseteq Sentences
         /\ payload[1] # {} /\ ReportOf(payload) \in Reports
<1> DEFINE n == Entry(KeptEntry(fs[t.report.key]), t)
<1>1. t.report.key \in Keys /\ KeptEntry(fs[t.report.key]) \in Entries
  BY Sentence, Blank DEF KeptEntry
<1>2. payload \in Seq(SUBSET Sentences) /\ 1 \in DOMAIN payload /\ payload[1] # {}
  <2>1. CASE payload = <<{t}>>
    BY <2>1
  <2>2. CASE t.report.total > 1 /\ t.part \in 1..t.report.total /\ Complete(n) /\ payload = n.parts
    <3>1. n \in Entries /\ Len(n.parts) = t.report.total /\ t.report.total \in Nat
      BY <1>1, <2>2, EntryFacts, Sentence
    <3> HIDE DEF n
    <3>2. n.parts \in Seq(SUBSET Sentences) /\ 1 \in DOMAIN n.parts
      BY <2>2, <3>1 DEF Entries
    <3> QED
      BY <2>2, <3>2 DEF Complete, Range, None
  <2> QED
    BY <2>1, <2>2 DEF Handles
<1>3. UNION Range(payload) \subseteq Sentences /\ payload[1] \subseteq Sentences
  BY <1>2 DEF Range
<1>4. \A x \in Sentences : x.report \in Reports
  BY Sentence
<1> QED
  BY <1>2, <1>3, <1>4 DEF ReportOf

(* What Accept does: to the fragments, and with the frame or without one.  *)
Silent(t, payload) ==
  /\ payload = <<>> \/ Decoded(payload) = {}
  /\ chan' = chan /\ sent' = sent /\ heard' = NowHeard(HeardOf(t))
Passes(s, t, payload) ==
  \E f \in Frames :
    /\ payload # <<>> /\ Decoded(payload) = {f}
    /\ f.from = UNION Range(payload)
    /\ chan' = chan \o <<f>>
    /\ sent' = [sent EXCEPT ![s][t] = 0]
    /\ heard' = NowHeard(HeardOf(t) \cup Vessels({f}))
Yields(s, t, g, payload) ==
  /\ Handles(frags[s], t, g, payload)
  /\ frags' = [frags EXCEPT ![s] = g]
  /\ alone' = NowAlone(s, t)
  /\ Silent(t, payload) \/ Passes(s, t, payload)

LEMMA Accepts ==
  ASSUME TypeInv, NEW s \in Sources, NEW t \in Sentences, Accept(s, t)
  PROVE  /\ dedup[s][t] = DedupTtl /\ ~Panics(t)
         /\ dedup' = [dedup EXCEPT ![s][t] = 0]
         /\ \E g, payload : Yields(s, t, g, payload)
<1>1. dedup[s][t] \in 0..DedupTtl /\ chan \in Seq(Frames) /\ frags[s] \in [Keys -> Entries]
  BY DEF TypeInv, Cached
<1>2. dedup[s][t] = DedupTtl /\ ~Panics(t) /\ dedup' = [dedup EXCEPT ![s][t] = 0]
  BY <1>1, Ages DEF Accept, IsDuplicate
<1>3. Handles(frags[s], t, Processed(s, t).frags, Processed(s, t).payload)
  BY <1>1, <1>2, ProcessedFacts
<1>4. PICK g, payload : g = Processed(s, t).frags /\ payload = Processed(s, t).payload
  OBVIOUS
<1>5. Handles(frags[s], t, g, payload)
  BY <1>3, <1>4
<1> DEFINE frames == IF payload = <<>> THEN {} ELSE Decoded(payload)
<1>6. /\ frags' = [frags EXCEPT ![s] = g]
      /\ alone' = NowAlone(s, t)
      /\ chan' = chan \o SetToSeq(frames)
      /\ heard' = NowHeard(HeardOf(t) \cup Vessels(frames))
      /\ sent' = IF frames = {} THEN sent ELSE [sent EXCEPT ![s][t] = 0]
  <2>1. Bare(t) = t
    BY Sentence
  <2> QED
    BY <1>4, <2>1, Zenon DEF Accept
<1>7. CASE frames = {}
  <2>1. SetToSeq(frames) = <<>> /\ Vessels(frames) = {}
    BY <1>7, AsSequence DEF Vessels
  <2>2. chan' = chan
    BY <1>1, <1>6, <2>1
  <2>3. sent' = sent /\ heard' = NowHeard(HeardOf(t)) /\ (payload = <<>> \/ Decoded(payload) = {})
    <3>1. HeardOf(t) \cup Vessels(frames) = HeardOf(t)
      BY <2>1
    <3> QED
      BY <1>6, <1>7, <3>1
  <2>4. Silent(t, payload)
    BY <2>2, <2>3 DEF Silent
  <2> QED
    BY <1>2, <1>5, <1>6, <2>4 DEF Yields
<1>8. CASE frames # {}
  <2>1. payload # <<>> /\ frames = Decoded(payload)
    BY <1>8
  <2>2. ReportOf(payload) \in Reports /\ UNION Range(payload) \subseteq Sentences
    BY <1>1, <1>5, <2>1, PayloadFacts
  <2>3. PICK f \in Frames : Decoded(payload) = {f} /\ f.from = UNION Range(payload)
    BY <1>8, <2>1, <2>2, DecodedFrames
  <2>4. SetToSeq(frames) = <<f>>
    BY <2>1, <2>3, AsSequence
  <2>5. chan' = chan \o <<f>> /\ heard' = NowHeard(HeardOf(t) \cup Vessels({f}))
    BY <1>6, <2>1, <2>3, <2>4
  <2>6. sent' = [sent EXCEPT ![s][t] = 0]
    BY <1>6, <1>8
  <2>7. Passes(s, t, payload)
    BY <2>1, <2>3, <2>5, <2>6 DEF Passes
  <2> QED
    BY <1>2, <1>5, <1>6, <2>7 DEF Yields
<1> QED
  BY <1>7, <1>8

LEMMA Reads ==
  ASSUME NEW s \in Sources, traffic \subseteq Heard, NEW l \in traffic, ReadLine(s, l)
  PROVE  /\ UNCHANGED <<traffic, store>>
         /\ \E t \in Sentences : Ignore(s, t) \/ Panic(s, t) \/ Accept(s, t)
BY DEF ReadLine, Normalised, Sentences

-----------------------------------------------------------------------------
(* The variables have their types.                                         *)
LEMMA NowHeardType ==
  ASSUME TypeInv, NEW ms
  PROVE  /\ NowHeard(ms) \in [Mmsis -> 0..ReapAfter]
         /\ \A m \in Mmsis : NowHeard(ms)[m] = IF m \in ms THEN 0 ELSE heard[m]
BY Ages DEF TypeInv, NowHeard

LEMMA UpdatedType ==
  ASSUME NEW v \in VesselRecords, NEW f \in Frames
  PROVE  Updated(v, f) \in VesselRecords /\ Updated(v, f).age = 0
<1>1. /\ (IF f.kind = "position" THEN {f.place} ELSE v.place) \in SUBSET (Int \X Int)
      /\ (IF f.kind = "static" /\ f.name # "" THEN {f.name} ELSE v.name) \in SUBSET Texts
      /\ (IF f.kind = "static" /\ f.callsign # "" THEN {f.callsign} ELSE v.callsign) \in SUBSET Texts
  BY DEF VesselRecords, Frames
<1>2. 0 \in 0..ReapAfter
  BY Ages
<1>3. \A p, n, c :
        p \in SUBSET (Int \X Int) /\ n \in SUBSET Texts /\ c \in SUBSET Texts =>
          [place |-> p, name |-> n, callsign |-> c, age |-> 0] \in VesselRecords
  BY <1>2 DEF VesselRecords
<1>4. Updated(v, f) \in VesselRecords
  BY <1>1, <1>3, Zenon DEF Updated
<1>5. Updated(v, f).age = 0
  BY DEF Updated
<1> QED
  BY <1>4, <1>5

LEMMA AcceptType ==
  ASSUME TypeInv, NEW s \in Sources, NEW t \in Sentences, Accept(s, t),
         UNCHANGED <<traffic, store>>
  PROVE  TypeInv'
<1>2. PICK g, payload : Yields(s, t, g, payload)
  BY Accepts, Zenon
<1>3. frags' \in [Sources -> [Keys -> Entries]]
  BY <1>2 DEF TypeInv, Handles, Yields
<1>4. chan' \in Seq(Frames)
  <2>1. chan' = chan \/ \E f \in Frames : chan' = chan \o <<f>>
    BY <1>2, Zenon DEF Yields, Silent, Passes
  <2>2. chan \in Seq(Frames) /\ \A f \in Frames : <<f>> \in Seq(Frames)
    BY DEF TypeInv
  <2> QED
    BY <2>1, <2>2, ConcatProperties
<1>5. dedup' \in [Sources -> [Cached -> 0..DedupTtl]]
  <2>1. dedup' = [dedup EXCEPT ![s][t] = 0]
    BY Accepts, Zenon
  <2>2. dedup \in [Sources -> [Cached -> 0..DedupTtl]] /\ 0 \in 0..DedupTtl
    BY Ages DEF TypeInv
  <2> QED
    BY <2>1, <2>2
<1>6. sent' \in [Sources -> [Sentences -> 0..DedupTtl]]
  <2>1. sent' = sent \/ sent' = [sent EXCEPT ![s][t] = 0]
    BY <1>2, Zenon DEF Yields, Silent, Passes
  <2>2. [sent EXCEPT ![s][t] = 0] \in [Sources -> [Sentences -> 0..DedupTtl]]
    BY Ages DEF TypeInv
  <2> QED
    BY <2>1, <2>2 DEF TypeInv
<1>7. heard' \in [Mmsis -> 0..ReapAfter]
  <2>1. \E ms : heard' = NowHeard(ms)
    BY <1>2, Zenon DEF Yields, Silent, Passes
  <2> QED
    BY <2>1, NowHeardType
<1>8. alone' \in [Sources -> SUBSET Sentences]
  <2>1. alone' = NowAlone(s, t)
    BY <1>2 DEF Yields
  <2> QED
    BY <2>1 DEF TypeInv, NowAlone
<1> QED
  BY <1>3, <1>4, <1>5, <1>6, <1>7, <1>8 DEF TypeInv

LEMMA TickType ==
  ASSUME TypeInv, AisTick
  PROVE  TypeInv'
<1>1. dedup' \in [Sources -> [Cached -> 0..DedupTtl]]
  BY AgedType, Ages DEF TypeInv, AisTick, Cached
<1>2. frags' \in [Sources -> [Keys -> Entries]]
  <2>1. ASSUME NEW e \in Entries PROVE [e EXCEPT !.age = Aged(@, AssembleTtl)] \in Entries
    BY AgedType, Ages DEF Entries
  <2> QED
    BY <2>1, Blank DEF TypeInv, AisTick
<1>3. store' \in [Mmsis -> VesselRecords]
  <2>1. ASSUME NEW v \in VesselRecords
        PROVE  [v EXCEPT !.age = Aged(@, ReapAfter)] \in VesselRecords
    BY AgedType, Ages DEF VesselRecords
  <2> QED
    BY <2>1 DEF TypeInv, AisTick
<1>5. heard' \in [Mmsis -> 0..ReapAfter]
  BY AgedType, Ages DEF TypeInv, AisTick
<1>6. sent' \in [Sources -> [Sentences -> 0..DedupTtl]]
  BY AgedType, Ages DEF TypeInv, AisTick
<1> QED
  BY <1>1, <1>2, <1>3, <1>5, <1>6 DEF TypeInv, AisTick

LEMMA TypeInit == AisInit => TypeInv
<1> SUFFICES ASSUME AisInit PROVE TypeInv
  OBVIOUS
<1>1. traffic \subseteq Heard
  BY DEF AisInit, Heard
<1> QED
  BY <1>1, Blank, Ages DEF AisInit, TypeInv, Cached

LEMMA TypeStep == TypeInv /\ [AisNext]_aisVars => TypeInv'
<1> SUFFICES ASSUME TypeInv, [AisNext]_aisVars PROVE TypeInv'
  OBVIOUS
<1>1. ASSUME NEW s \in Sources, NEW l \in traffic, ReadLine(s, l) PROVE TypeInv'
  <2>1. UNCHANGED <<traffic, store>>
    BY <1>1, Reads DEF TypeInv
  <2>2. PICK t \in Sentences : Ignore(s, t) \/ Panic(s, t) \/ Accept(s, t)
    BY <1>1, Reads DEF TypeInv
  <2>4. CASE Ignore(s, t)
    BY <2>1, <2>4, NowHeardType DEF TypeInv, Ignore, DedupOnDuplicate
  <2>5. CASE Panic(s, t)
    BY <2>1, <2>5 DEF TypeInv, Panic
  <2>6. CASE Accept(s, t)
    BY <2>1, <2>2, <2>6, AcceptType
  <2> QED
    BY <2>2, <2>4, <2>5, <2>6
<1>2. CASE Consume
  <2>1. Head(chan) \in Frames /\ chan' \in Seq(Frames)
    BY <1>2 DEF TypeInv, Consume
  <2>2. PICK f : f = Head(chan)
    OBVIOUS
  <2>3. f.mmsi \in Mmsis
    BY <2>1, <2>2 DEF Frames
  <2>4. store' = store \/ store' = [store EXCEPT ![f.mmsi] = Updated(@, f)]
    BY <1>2, <2>2 DEF Consume
  <2>5. store' \in [Mmsis -> VesselRecords]
    <3>1. store \in [Mmsis -> VesselRecords] /\ store[f.mmsi] \in VesselRecords
      BY <2>3 DEF TypeInv
    <3>2. Updated(store[f.mmsi], f) \in VesselRecords
      BY <2>1, <2>2, <3>1, UpdatedType
    <3> QED
      BY <2>3, <2>4, <3>1, <3>2
  <2> QED
    BY <1>2, <2>1, <2>5 DEF TypeInv, Consume
<1>3. CASE ReapStale
  BY <1>3, Blank DEF TypeInv, ReapStale, Reaped
<1>4. ASSUME NEW s \in Sources, Connect(s) \/ Disconnect(s) PROVE TypeInv'
  BY <1>4 DEF TypeInv, Connect, Disconnect
<1>5. CASE UNCHANGED aisVars
  BY <1>5 DEF TypeInv, aisVars
<1> QED
  BY <1>1, <1>2, <1>3, <1>4, <1>5, TickType DEF AisNext

THEOREM TypeCorrect == AisSpec => []TypeInv
BY TypeInit, TypeStep, PTL DEF AisSpec

-----------------------------------------------------------------------------
(* Every entry is empty, stale or of sentences of its key.                 *)
FragsInv ==
  \A s \in Sources, k \in Keys : Sound(frags[s][k], dedup[s], k)

LEMMA KeptSound ==
  ASSUME NEW e, NEW d, NEW k, Sound(e, d, k)
  PROVE  Sound(KeptEntry(e), d, k)
BY DEF Sound, KeptEntry

LEMMA FresherSound ==
  ASSUME NEW e \in Entries, NEW d \in [Cached -> 0..DedupTtl], NEW k, Sound(e, d, k),
         NEW t \in Sentences
  PROVE  Sound(e, [d EXCEPT ![t] = 0], k)
<1> DEFINE dd == [d EXCEPT ![t] = 0]
<1>1. e.parts \in Seq(SUBSET Sentences) /\ e.age \in Nat
  BY Ages DEF Entries
<1>2. \A x \in Sentences : dd[x] = 0 \/ dd[x] = d[x]
  BY DEF Cached
<1> HIDE DEF dd
<1>3. \A i \in 1..Len(e.parts) : \A x \in e.parts[i] : d[x] <= e.age => dd[x] <= e.age
  BY <1>1, <1>2
<1>4. Sound(e, dd, k)
  BY <1>3 DEF Sound, Belongs
<1> QED
  BY <1>4 DEF dd

LEMMA OlderSound ==
  ASSUME NEW e \in Entries, NEW d \in [Cached -> 0..DedupTtl], NEW k, Sound(e, d, k)
  PROVE  Sound(IF e = NoEntry THEN NoEntry ELSE [e EXCEPT !.age = Aged(@, AssembleTtl)],
               [t \in Cached |-> Aged(d[t], DedupTtl)], k)
<1> DEFINE ee == [e EXCEPT !.age = Aged(@, AssembleTtl)]
           dd == [t \in Cached |-> Aged(d[t], DedupTtl)]
<1>1. e.age \in 0..AssembleTtl /\ e.parts \in Seq(SUBSET Sentences)
  BY DEF Entries
<1>2. ee.parts = e.parts /\ ee.age = Aged(e.age, AssembleTtl)
  BY DEF Entries
<1>3. \A t \in Sentences : dd[t] = Aged(d[t], DedupTtl) /\ d[t] \in 0..DedupTtl
  BY DEF Cached
<1> HIDE DEF ee, dd
<1>4. CASE e = NoEntry
  BY <1>4 DEF Sound
<1>5. CASE e # NoEntry /\ e.age = AssembleTtl
  <2>1. ee.age = AssembleTtl
    BY <1>2, <1>5, AgedType, Ages
  <2> QED
    BY <1>5, <2>1 DEF Sound, ee
<1>6. CASE e # NoEntry /\ e.age # AssembleTtl
  <2>1. Belongs(e, d, k)
    BY <1>6 DEF Sound
  <2>2. ee.age = e.age + 1 /\ e.age \in Nat
    BY <1>1, <1>2, <1>6, Ages DEF Aged
  <2>3. \A x \in Sentences : d[x] <= e.age => dd[x] <= ee.age
    BY <1>3, <2>2, Ages DEF Aged
  <2>4. \A i \in 1..Len(e.parts) : \A x \in e.parts[i] : dd[x] <= ee.age
    BY <1>1, <2>1, <2>3 DEF Belongs
  <2>5. Belongs(ee, dd, k)
    BY <1>2, <2>1, <2>4 DEF Belongs
  <2> QED
    BY <1>6, <2>5 DEF Sound, ee, dd
<1> QED
  BY <1>4, <1>5, <1>6

(* The fragments of another source, or of another key, are as they were.   *)
LEMMA AcceptFrags ==
  ASSUME TypeInv, FragsInv, NEW s \in Sources, NEW t \in Sentences, Accept(s, t)
  PROVE  FragsInv'
<1>1. PICK g, payload : Yields(s, t, g, payload)
  BY Accepts, Zenon
<1>2. dedup' = [dedup EXCEPT ![s][t] = 0]
  BY Accepts, Zenon
<1>3. ASSUME NEW z \in Sources, z # s, NEW j \in Keys
      PROVE  Sound(frags'[z][j], dedup'[z], j)
  <2>1. frags'[z] = frags[z] /\ dedup'[z] = dedup[z]
    BY <1>1, <1>2, <1>3 DEF TypeInv, Yields
  <2> QED
    BY <2>1 DEF FragsInv
<1>4. ASSUME NEW j \in Keys PROVE Sound(frags'[s][j], dedup'[s], j)
  <2>1. PICK e, d : e = frags[s][j] /\ d = dedup[s]
    OBVIOUS
  <2>2. e \in Entries /\ d \in [Cached -> 0..DedupTtl] /\ Sound(e, d, j)
    BY <2>1 DEF TypeInv, FragsInv
  <2>3. dedup'[s] = [d EXCEPT ![t] = 0] /\ frags'[s][j] = g[j]
    BY <1>1, <1>2, <2>1 DEF TypeInv, Yields
  <2>4. Sound(KeptEntry(e), [d EXCEPT ![t] = 0], j)
    BY <2>2, KeptSound, FresherSound, Blank DEF KeptEntry
  <2>5. CASE g[j] = KeptEntry(e)
    BY <2>3, <2>4, <2>5
  <2>6. CASE g[j] = NoEntry
    BY <2>3, <2>6 DEF Sound
  <2>7. CASE /\ j = t.report.key /\ t.report.total > 1 /\ t.part \in 1..t.report.total
             /\ g[j] = Entry(KeptEntry(e), t)
    <3>1. Belongs(Entry(KeptEntry(e), t), [d EXCEPT ![t] = 0], j)
      BY <2>2, <2>7, Assembles
    <3> QED
      BY <2>3, <2>7, <3>1 DEF Sound
  <2> QED
    BY <1>1, <2>1, <2>5, <2>6, <2>7 DEF Handles, Yields
<1> QED
  BY <1>3, <1>4 DEF FragsInv

(* What a step can do to the caches, the fragments and the channel.        *)
LEMMA StepKinds ==
  ASSUME TypeInv, [AisNext]_aisVars
  PROVE  \/ \E s \in Sources, t \in Sentences : Accept(s, t)
         \/ AisTick
         \/ UNCHANGED <<dedup, frags, sent, alone>> /\ Len(chan') <= Len(chan)
<1>0. Len(chan) \in Nat /\ (chan # <<>> => Len(Tail(chan)) <= Len(chan))
  BY DEF TypeInv
<1>1. ASSUME NEW s \in Sources, NEW l \in traffic, ReadLine(s, l)
      PROVE  \/ \E t \in Sentences : Accept(s, t)
             \/ UNCHANGED <<dedup, frags, sent, alone>> /\ Len(chan') <= Len(chan)
  <2>1. PICK t \in Sentences : Ignore(s, t) \/ Panic(s, t) \/ Accept(s, t)
    BY <1>1, Reads DEF TypeInv
  <2>2. CASE Ignore(s, t) \/ Panic(s, t)
    BY <1>0, <2>2 DEF Ignore, Panic, DedupOnDuplicate
  <2> QED
    BY <2>1, <2>2
<1>2. CASE Consume \/ ReapStale \/ UNCHANGED aisVars
  BY <1>0, <1>2 DEF Consume, ReapStale, aisVars
<1>3. ASSUME NEW s \in Sources, Connect(s) \/ Disconnect(s)
      PROVE  UNCHANGED <<dedup, frags, sent, alone>> /\ Len(chan') <= Len(chan)
  BY <1>0, <1>3 DEF Connect, Disconnect
<1> QED
  BY <1>1, <1>2, <1>3, Zenon DEF AisNext

LEMMA FragsStep ==
  ASSUME TypeInv, FragsInv, [AisNext]_aisVars
  PROVE  FragsInv'
<1>1. CASE AisTick
  <2> SUFFICES ASSUME NEW z \in Sources, NEW j \in Keys
               PROVE  Sound(frags'[z][j], dedup'[z], j)
    BY DEF FragsInv
  <2>1. PICK e, d : e = frags[z][j] /\ d = dedup[z]
    OBVIOUS
  <2>2. e \in Entries /\ d \in [Cached -> 0..DedupTtl] /\ Sound(e, d, j)
    BY <2>1 DEF TypeInv, FragsInv
  <2>3. /\ frags'[z][j] = IF e = NoEntry THEN NoEntry ELSE [e EXCEPT !.age = Aged(@, AssembleTtl)]
        /\ dedup'[z] = [t \in Cached |-> Aged(d[t], DedupTtl)]
    BY <1>1, <2>1 DEF AisTick, Cached
  <2> QED
    BY <2>2, <2>3, OlderSound
<1>2. CASE UNCHANGED <<dedup, frags, sent, alone>>
  BY <1>2 DEF FragsInv
<1> QED
  BY <1>1, <1>2, StepKinds, AcceptFrags

LEMMA FragsInit == AisInit => FragsInv
BY DEF AisInit, FragsInv, Sound

LEMMA FragsAlways == AisSpec => [](TypeInv /\ FragsInv)
<1>1. AisInit => TypeInv /\ FragsInv
  BY TypeInit, FragsInit
<1>2. TypeInv /\ FragsInv /\ [AisNext]_aisVars => (TypeInv /\ FragsInv)'
  BY TypeStep, FragsStep
<1> QED
  BY <1>1, <1>2, PTL DEF AisSpec

(* A frame is sent by a sentence that its source accepts.                  *)
LEMMA SendsFacts ==
  ASSUME TypeInv, [AisNext]_aisVars, NEW s \in Sources, Sends(s)
  PROVE  \E t \in Sentences : \E g, payload :
           /\ Handles(frags[s], t, g, payload) /\ payload # <<>>
           /\ dedup[s][t] = DedupTtl /\ dedup'[s] = [dedup[s] EXCEPT ![t] = 0]
           /\ Sent = UNION Range(payload)
<1>0. chan \in Seq(Frames) /\ Len(chan) \in Nat /\ Len(chan') > Len(chan) /\ dedup'[s] # dedup[s]
  BY DEF TypeInv, Sends
<1>1. CASE AisTick
  BY <1>0, <1>1 DEF AisTick
<1>2. CASE Len(chan') <= Len(chan)
  BY <1>0, <1>2
<1>3. ASSUME NEW z \in Sources, NEW t \in Sentences, Accept(z, t)
      PROVE  /\ z = s /\ dedup[s][t] = DedupTtl /\ dedup'[s] = [dedup[s] EXCEPT ![t] = 0]
             /\ \E g, payload : /\ Handles(frags[s], t, g, payload) /\ payload # <<>>
                                /\ Sent = UNION Range(payload)
  <2>1. dedup[z][t] = DedupTtl /\ dedup' = [dedup EXCEPT ![z][t] = 0]
    BY <1>3, Accepts, Zenon
  <2>2. z = s /\ dedup'[s] = [dedup[s] EXCEPT ![t] = 0]
    BY <1>0, <2>1 DEF TypeInv
  <2>3. PICK g, payload : Yields(s, t, g, payload)
    BY <1>3, <2>2, Accepts, Zenon
  <2>4. ~Silent(t, payload)
    BY <1>0 DEF Silent
  <2>5. PICK f \in Frames : payload # <<>> /\ f.from = UNION Range(payload) /\ chan' = chan \o <<f>>
    BY <2>3, <2>4, Zenon DEF Yields, Passes
  <2>6. Sent = UNION Range(payload)
    BY <1>0, <2>5 DEF Sent
  <2> QED
    BY <2>1, <2>2, <2>3, <2>5, <2>6 DEF Yields
<1> QED
  BY <1>1, <1>2, <1>3, StepKinds

(* What a payload of sentences is by the times d of their acceptance.      *)
Timely(from, d) ==
  \A t, u \in from :
    /\ t.report.key = u.report.key /\ t.report.total = u.report.total
    /\ t.part = u.part => t = u
    /\ t.report.total > 1 => {v.part : v \in from} = 1..t.report.total
    /\ d[t] < AssembleTtl

LEMMA CompleteIsTimely ==
  ASSUME NEW n \in Entries, NEW d, NEW k, Belongs(n, d, k), Complete(n), n.age < AssembleTtl,
         \A x \in Sentences : d[x] \in Nat
  PROVE  Timely(UNION Range(n.parts), d)
<1>1. n.parts \in Seq(SUBSET Sentences) /\ n.age \in Nat /\ AssembleTtl \in Nat
  BY Ages DEF Entries
<1>2. \A i \in 1..Len(n.parts) : n.parts[i] # {}
  BY <1>1 DEF Complete, Range, None
<1>3. ASSUME NEW x \in UNION Range(n.parts)
      PROVE  /\ x.part \in 1..Len(n.parts) /\ n.parts[x.part] = {x}
             /\ x.report.key = k /\ x.report.total = Len(n.parts) /\ d[x] < AssembleTtl
  <2>1. PICK i \in 1..Len(n.parts) : x \in n.parts[i] /\ x \in Sentences
    BY <1>1 DEF Range
  <2> QED
    BY <1>1, <2>1 DEF Belongs
<1>4. ASSUME NEW i \in 1..Len(n.parts)
      PROVE  \E x \in UNION Range(n.parts) : x.part = i
  <2>1. PICK x : x \in n.parts[i]
    BY <1>2
  <2>2. x.part = i /\ x \in UNION Range(n.parts)
    BY <1>1, <2>1 DEF Belongs, Range
  <2> QED
    BY <2>2
<1>5. {v.part : v \in UNION Range(n.parts)} = 1..Len(n.parts)
  BY <1>3, <1>4
<1> QED
  BY <1>3, <1>5 DEF Timely

LEMMA PayloadIsTimely ==
  ASSUME TypeInv, FragsInv, NEW s \in Sources, NEW t \in Sentences,
         NEW g, NEW payload, Handles(frags[s], t, g, payload), payload # <<>>
  PROVE  Timely(UNION Range(payload), [dedup[s] EXCEPT ![t] = 0])
<1>1. PICK k, e, d : k = t.report.key /\ e = frags[s][k] /\ d = dedup[s]
  OBVIOUS
<1>2. k \in Keys
  BY <1>1, Sentence
<1>3. e \in Entries /\ d \in [Cached -> 0..DedupTtl] /\ Sound(e, d, k) /\ KeptEntry(e) \in Entries
  BY <1>1, <1>2, Blank DEF TypeInv, FragsInv, KeptEntry
<1> DEFINE dd == [d EXCEPT ![t] = 0]
<1>4. dd[t] = 0 /\ \A x \in Sentences : dd[x] \in Nat
  BY <1>3, Ages DEF Cached
<1>5. CASE t.report.total = 1 /\ payload = <<{t}>>
  <2>1. UNION Range(payload) = {t}
    BY <1>5 DEF Range
  <2> HIDE DEF dd
  <2>2. Timely({t}, dd)
    BY <1>4, <1>5, Ages DEF Timely
  <2> QED
    BY <1>1, <2>1, <2>2 DEF dd
<1>6. CASE /\ t.report.total > 1 /\ t.part \in 1..t.report.total
           /\ Complete(Entry(KeptEntry(e), t)) /\ payload = Entry(KeptEntry(e), t).parts
  <2>1. PICK n : n = Entry(KeptEntry(e), t)
    OBVIOUS
  <2>2. n \in Entries /\ (n.age = KeptEntry(e).age \/ n.age = 0)
    BY <1>3, <1>6, <2>1, EntryFacts
  <2>3. n.age < AssembleTtl
    BY <2>2, Blank, Ages DEF KeptEntry
  <2>4. Belongs(n, dd, k)
    BY <1>1, <1>2, <1>3, <1>6, <2>1, Assembles
  <2> HIDE DEF dd
  <2>5. Timely(UNION Range(n.parts), dd)
    BY <1>4, <1>6, <2>1, <2>2, <2>3, <2>4, CompleteIsTimely
  <2> QED
    BY <1>1, <1>6, <2>1, <2>5 DEF dd
<1> QED
  BY <1>1, <1>5, <1>6 DEF Handles

(* AssembledInTime: the parts of a frame have one key and one total, there *)
(* is one in each place, and none is as old as the assembler keeps parts   *)
(* (decode.rs:252, 278, 284).                                              *)
THEOREM PartsInTime == AisSpec => AssembledInTime
<1> DEFINE InTime(s) == Sends(s) =>
      \A t, u \in Sent :
        /\ t.report.key = u.report.key /\ t.report.total = u.report.total
        /\ t.part = u.part => t = u
        /\ t.report.total > 1 => {v.part : v \in Sent} = 1..t.report.total
        /\ dedup'[s][t] < AssembleTtl
<1>1. ASSUME TypeInv, FragsInv, [AisNext]_aisVars, NEW s \in Sources PROVE InTime(s)
  <2> SUFFICES ASSUME Sends(s) PROVE Timely(Sent, dedup'[s])
    BY DEF Timely
  <2>1. PICK t \in Sentences : \E g, payload :
          /\ Handles(frags[s], t, g, payload) /\ payload # <<>>
          /\ dedup[s][t] = DedupTtl /\ dedup'[s] = [dedup[s] EXCEPT ![t] = 0]
          /\ Sent = UNION Range(payload)
    BY <1>1, SendsFacts
  <2>2. PICK g, payload :
          /\ Handles(frags[s], t, g, payload) /\ payload # <<>>
          /\ dedup'[s] = [dedup[s] EXCEPT ![t] = 0] /\ Sent = UNION Range(payload)
    BY <2>1
  <2>3. Timely(UNION Range(payload), [dedup[s] EXCEPT ![t] = 0])
    BY <1>1, <2>2, PayloadIsTimely
  <2> QED
    BY <2>2, <2>3
<1>2. TypeInv /\ FragsInv /\ [AisNext]_aisVars => [\A s \in Sources : InTime(s)]_aisVars
  BY <1>1
<1> QED
  BY <1>2, FragsAlways, PTL DEF AisSpec, AssembledInTime

-----------------------------------------------------------------------------
(* A sentence brought a frame about when it was accepted, or later; none   *)
(* that waits for others has done so within the time of the cache.         *)
Held(e) == IF e.age < AssembleTtl THEN UNION Range(e.parts) ELSE {}
SentInv ==
  \A s \in Sources :
    /\ \A t \in Sentences : dedup[s][t] <= sent[s][t]
    /\ \A k \in Keys : \A t \in Held(frags[s][k]) : sent[s][t] = DedupTtl

LEMMA HeldFacts ==
  ASSUME NEW e \in Entries
  PROVE  /\ Held(e) \subseteq Sentences
         /\ \A x : x \in Held(e) <=>
              e.age < AssembleTtl /\ \E i \in 1..Len(e.parts) : x \in e.parts[i]
         /\ Held(KeptEntry(e)) = Held(e) /\ Held(NoEntry) = {}
<1>1. e.parts \in Seq(SUBSET Sentences)
  BY DEF Entries
<1>2. Held(NoEntry) = {}
  BY DEF Held, NoEntry, Range
<1>3. \A x : x \in UNION Range(e.parts) <=> \E i \in 1..Len(e.parts) : x \in e.parts[i]
  BY <1>1 DEF Range
<1>4. Held(e) \subseteq Sentences
  BY <1>1 DEF Held, Range
<1>5. Held(KeptEntry(e)) = Held(e)
  BY <1>2 DEF Held, KeptEntry
<1> QED
  BY <1>2, <1>3, <1>4, <1>5 DEF Held

LEMMA EntryHolds ==
  ASSUME NEW e \in Entries, NEW t \in Sentences, t.part \in 1..t.report.total
  PROVE  LET n == Entry(KeptEntry(e), t)
         IN /\ Held(n) \subseteq Held(e) \cup {t}
            /\ UNION Range(n.parts) \subseteq Held(e) \cup {t}
<1> DEFINE b == KeptEntry(e)
           n == Entry(b, t)
<1>1. b \in Entries /\ b.age < AssembleTtl
  BY Blank, Ages DEF KeptEntry
<1>2. n \in Entries /\ Len(n.parts) = t.report.total /\ n.parts[t.part] = {t}
      /\ \A i \in 1..t.report.total :
           i # t.part => n.parts[i] = IF Len(b.parts) = t.report.total THEN b.parts[i] ELSE {}
  BY <1>1, EntryFacts
<1>3. Held(b) = Held(e) /\ \A x, i : i \in 1..Len(b.parts) /\ x \in b.parts[i] => x \in Held(b)
  BY <1>1, HeldFacts
<1> HIDE DEF b, n
<1>4. \A i \in 1..Len(n.parts) : \A x \in n.parts[i] : x \in Held(e) \cup {t}
  BY <1>2, <1>3
<1>5. n.parts \in Seq(SUBSET Sentences)
  BY <1>2 DEF Entries
<1>6. UNION Range(n.parts) \subseteq Held(e) \cup {t}
  BY <1>4, <1>5 DEF Range
<1>7. Held(n) \subseteq Held(e) \cup {t}
  BY <1>2, <1>4, HeldFacts
<1> QED
  BY <1>6, <1>7 DEF b, n

(* What waits, and what makes the payload, waited before or comes now; and *)
(* what comes now and brings a payload about waits nowhere.                *)
LEMMA AfterHandles ==
  ASSUME TypeInv, FragsInv, NEW s \in Sources, NEW t \in Sentences,
         NEW g, NEW payload, Handles(frags[s], t, g, payload)
  PROVE  /\ \A j \in Keys : Held(g[j]) \subseteq Held(frags[s][j]) \cup {t}
         /\ payload # <<>> =>
              /\ UNION Range(payload) \subseteq Held(frags[s][t.report.key]) \cup {t}
              /\ \A j \in Keys : t \notin Held(g[j])
<1>1. t.report.key \in Keys /\ \A j \in Keys : frags[s][j] \in Entries
  BY Sentence DEF TypeInv
<1>2. \A j \in Keys : Held(KeptEntry(frags[s][j])) = Held(frags[s][j])
  BY <1>1, HeldFacts
<1>3. Held(NoEntry) = {} /\ \A e \in Entries : \A x : x \in Held(e) <=>
        e.age < AssembleTtl /\ \E i \in 1..Len(e.parts) : x \in e.parts[i]
  BY HeldFacts, Blank
<1>4. ASSUME NEW j \in Keys PROVE Held(g[j]) \subseteq Held(frags[s][j]) \cup {t}
  <2>1. CASE g[j] = KeptEntry(frags[s][j]) \/ g[j] = NoEntry
    BY <1>2, <1>3, <2>1
  <2>2. CASE /\ j = t.report.key /\ t.part \in 1..t.report.total
             /\ g[j] = Entry(KeptEntry(frags[s][j]), t)
    BY <1>1, <2>2, EntryHolds
  <2> QED
    BY <2>1, <2>2 DEF Handles
<1>5. ASSUME payload # <<>>
      PROVE  UNION Range(payload) \subseteq Held(frags[s][t.report.key]) \cup {t}
  <2>1. CASE payload = <<{t}>>
    BY <2>1 DEF Range
  <2>2. CASE /\ t.part \in 1..t.report.total
             /\ payload = Entry(KeptEntry(frags[s][t.report.key]), t).parts
    BY <1>1, <2>2, EntryHolds
  <2> QED
    BY <1>5, <2>1, <2>2 DEF Handles
<1>6. ASSUME NEW j \in Keys, t \in Held(frags[s][j])
      PROVE  t.report.key = j /\ t.report.total > 1
  <2>1. PICK e : e = frags[s][j]
    OBVIOUS
  <2>2. e \in Entries /\ Sound(e, dedup[s], j)
    BY <2>1 DEF TypeInv, FragsInv
  <2>3. e.age < AssembleTtl /\ \E i \in 1..Len(e.parts) : t \in e.parts[i]
    BY <1>3, <1>6, <2>1, <2>2
  <2>4. e # NoEntry
    BY <2>3, Blank
  <2>5. Belongs(e, dedup[s], j)
    BY <2>2, <2>3, <2>4, Ages DEF Sound
  <2> QED
    BY <2>3, <2>5 DEF Belongs
<1>7. ASSUME payload # <<>>, NEW j \in Keys PROVE t \notin Held(g[j])
  <2>1. CASE t.report.total = 1 \/ j # t.report.key
    <3>1. g[j] = KeptEntry(frags[s][j])
      BY <1>7, <2>1 DEF Handles
    <3> QED
      BY <1>2, <1>6, <2>1, <3>1
  <2>2. CASE t.report.total # 1 /\ j = t.report.key
    <3>1. g[j] = NoEntry
      BY <1>7, <2>2 DEF Handles
    <3> QED
      BY <1>3, <3>1
  <2> QED
    BY <2>1, <2>2
<1> QED
  BY <1>4, <1>5, <1>7

LEMMA SentAccept ==
  ASSUME TypeInv, FragsInv, SentInv, NEW s \in Sources, NEW t \in Sentences, Accept(s, t)
  PROVE  SentInv'
<1>1. dedup[s][t] = DedupTtl /\ dedup' = [dedup EXCEPT ![s][t] = 0]
  BY Accepts, Zenon
<1>2. PICK g, payload : Yields(s, t, g, payload)
  BY Accepts, Zenon
<1>3. Handles(frags[s], t, g, payload) /\ frags' = [frags EXCEPT ![s] = g]
  BY <1>2 DEF Yields
<1>4. sent' = sent \/ (payload # <<>> /\ sent' = [sent EXCEPT ![s][t] = 0])
  BY <1>2, Zenon DEF Yields, Silent, Passes
<1>5. t \in Cached /\ Sentences \subseteq Cached
  BY DEF Cached
<1>6. sent[s][t] = DedupTtl
  BY <1>1, Ages DEF SentInv, TypeInv
<1> SUFFICES ASSUME NEW z \in Sources
             PROVE  /\ \A x \in Sentences : dedup'[z][x] <= sent'[z][x]
                    /\ \A k \in Keys : \A x \in Held(frags'[z][k]) : sent'[z][x] = DedupTtl
  BY DEF SentInv
<1>7. CASE z # s
  <2>1. dedup'[z] = dedup[z] /\ frags'[z] = frags[z] /\ sent'[z] = sent[z]
    BY <1>1, <1>3, <1>4, <1>7 DEF TypeInv
  <2> QED
    BY <2>1 DEF SentInv
<1>8. CASE z = s
  <2>1. /\ dedup'[s][t] = 0 /\ frags'[s] = g
        /\ \A x \in Sentences \ {t} : dedup'[s][x] = dedup[s][x] /\ sent'[s][x] = sent[s][x]
        /\ sent'[s][t] \in {0, DedupTtl}
    BY <1>1, <1>3, <1>4, <1>5, <1>6 DEF TypeInv
  <2>2. \A x \in Sentences : dedup'[s][x] <= sent'[s][x]
    BY <2>1, Ages DEF SentInv
  <2>3. ASSUME NEW k \in Keys, NEW x \in Held(g[k]) PROVE sent'[s][x] = DedupTtl
    <3>1. x \in Held(frags[s][k]) \cup {t} /\ (payload # <<>> => x # t)
      <4>1. /\ Held(g[k]) \subseteq Held(frags[s][k]) \cup {t}
            /\ payload # <<>> => t \notin Held(g[k])
        BY <1>3, <2>3, AfterHandles
      <4> QED
        BY <2>3, <4>1
    <3>2. frags[s][k] \in Entries
      BY DEF TypeInv
    <3>3. CASE x = t
      BY <1>4, <1>6, <3>1, <3>3
    <3>4. CASE x # t
      <4>1. x \in Sentences /\ sent[s][x] = DedupTtl
        BY <3>1, <3>2, <3>4, HeldFacts DEF SentInv
      <4> QED
        BY <2>1, <3>4, <4>1
    <3> QED
      BY <3>3, <3>4
  <2> QED
    BY <1>8, <2>1, <2>2, <2>3
<1> QED
  BY <1>7, <1>8

LEMMA SentTick ==
  ASSUME TypeInv, SentInv, AisTick
  PROVE  SentInv'
<1> SUFFICES ASSUME NEW z \in Sources
             PROVE  /\ \A x \in Sentences : dedup'[z][x] <= sent'[z][x]
                    /\ \A k \in Keys : \A x \in Held(frags'[z][k]) : sent'[z][x] = DedupTtl
  BY DEF SentInv
<1>1. ASSUME NEW x \in Sentences
      PROVE  /\ dedup'[z][x] = Aged(dedup[z][x], DedupTtl) /\ dedup[z][x] \in 0..DedupTtl
             /\ sent'[z][x] = Aged(sent[z][x], DedupTtl) /\ sent[z][x] \in 0..DedupTtl
  BY DEF AisTick, TypeInv, Cached
<1>2. ASSUME NEW x \in Sentences PROVE dedup'[z][x] <= sent'[z][x]
  <2>1. dedup[z][x] <= sent[z][x]
    BY DEF SentInv
  <2> QED
    BY <1>1, <2>1, Ages DEF Aged
<1>3. ASSUME NEW k \in Keys, NEW x \in Held(frags'[z][k]) PROVE sent'[z][x] = DedupTtl
  <2>1. PICK e, n : e = frags[z][k] /\ n = frags'[z][k]
    OBVIOUS
  <2>2. e \in Entries /\ n = IF e = NoEntry THEN NoEntry ELSE [e EXCEPT !.age = Aged(@, AssembleTtl)]
    BY <2>1 DEF AisTick, TypeInv
  <2>3. n \in Entries /\ n.parts = e.parts /\ (n.age < AssembleTtl => e.age < AssembleTtl)
    <3>1. e.age \in 0..AssembleTtl
      BY <2>2 DEF Entries
    <3>2. Aged(e.age, AssembleTtl) \in 0..AssembleTtl
          /\ (Aged(e.age, AssembleTtl) < AssembleTtl => e.age < AssembleTtl)
      BY <3>1, Ages DEF Aged
    <3> QED
      BY <2>2, <3>2 DEF Entries
  <2>4. x \in Held(e) /\ Held(e) \subseteq Sentences
    BY <1>3, <2>1, <2>2, <2>3, HeldFacts
  <2>5. sent[z][x] = DedupTtl
    BY <2>1, <2>4 DEF SentInv
  <2> QED
    BY <1>1, <2>4, <2>5, Ages DEF Aged
<1> QED
  BY <1>2, <1>3

LEMMA SentStep ==
  ASSUME TypeInv, FragsInv, SentInv, [AisNext]_aisVars
  PROVE  SentInv'
<1>1. CASE UNCHANGED <<dedup, frags, sent, alone>>
  BY <1>1 DEF SentInv
<1> QED
  BY <1>1, SentAccept, SentTick, StepKinds

LEMMA SentInit == AisInit => SentInv
<1> SUFFICES ASSUME AisInit, NEW s \in Sources
             PROVE  /\ \A t \in Sentences : dedup[s][t] <= sent[s][t]
                    /\ \A k \in Keys : \A t \in Held(frags[s][k]) : sent[s][t] = DedupTtl
  BY DEF SentInv
<1>1. \A k \in Keys : Held(frags[s][k]) = {}
  BY HeldFacts, Blank DEF AisInit
<1> QED
  BY <1>1, Ages DEF AisInit

(* NoEarlyRepeat: a sentence that brought a frame about is in no other     *)
(* before DedupCache has forgotten it (ARCHITECTURE.md:115), whatever      *)
(* surrounds it in its line and however reports share their keys.          *)
THEOREM RepeatsWait == AisSpec => NoEarlyRepeat
<1> DEFINE Waited(s) == Sends(s) => \A t \in Sent : sent[s][Bare(t)] = DedupTtl
<1>1. ASSUME TypeInv, FragsInv, SentInv, [AisNext]_aisVars, NEW s \in Sources PROVE Waited(s)
  <2> SUFFICES ASSUME Sends(s), NEW x \in Sent PROVE sent[s][Bare(x)] = DedupTtl
    OBVIOUS
  <2>0. PICK t \in Sentences : \E g, payload :
          /\ Handles(frags[s], t, g, payload) /\ payload # <<>>
          /\ dedup[s][t] = DedupTtl /\ dedup'[s] = [dedup[s] EXCEPT ![t] = 0]
          /\ Sent = UNION Range(payload)
    BY <1>1, SendsFacts
  <2>1. PICK g, payload :
          /\ Handles(frags[s], t, g, payload) /\ payload # <<>>
          /\ dedup[s][t] = DedupTtl /\ Sent = UNION Range(payload)
    BY <2>0
  <2>2. t.report.key \in Keys
    BY Sentence
  <2>3. x \in Sentences /\ x \in Held(frags[s][t.report.key]) \cup {t}
    <3>1. frags[s] \in [Keys -> Entries]
      BY <1>1 DEF TypeInv
    <3>2. UNION Range(payload) \subseteq Sentences
      BY <2>1, <3>1, PayloadFacts
    <3>3. UNION Range(payload) \subseteq Held(frags[s][t.report.key]) \cup {t}
      BY <1>1, <2>1, AfterHandles
    <3> QED
      BY <1>1, <2>1, <3>2, <3>3
  <2>4. Bare(x) = x
    BY <2>3, Sentence
  <2>5. dedup[s][t] <= sent[s][t] /\ sent[s][t] \in 0..DedupTtl
    BY <1>1 DEF SentInv, TypeInv
  <2>6. sent[s][t] = DedupTtl
    BY <2>1, <2>5, Ages
  <2> QED
    BY <1>1, <2>2, <2>3, <2>4, <2>6 DEF SentInv
<1>2. TypeInv /\ FragsInv /\ SentInv /\ [AisNext]_aisVars =>
        [\A s \in Sources : Sends(s) =>
          \A t \in Sent : sent[s][Bare(t)] = DedupTtl]_aisVars
  BY <1>1
<1> HIDE DEF Waited
<1>3. TypeInv /\ FragsInv /\ SentInv /\ [AisNext]_aisVars => SentInv'
  BY SentStep
<1> QED
  BY <1>2, <1>3, SentInit, FragsAlways, PTL DEF AisSpec, NoEarlyRepeat

-----------------------------------------------------------------------------
(* A half of a report of two that came to a key at rest, with no part      *)
(* after it, waits in the entry of its key, and the entry is as old as it  *)
(* is, until it is too old.                                                *)
Waits(e, u, age) == Len(e.parts) = 2 /\ e.parts[u.part] = {u} /\ e.age <= age
HalfInv ==
  \A s \in Sources, u \in Sentences :
    u \in alone[s] /\ u.report.total = 2 /\ u.part \in 1..2 /\ dedup[s][u] < AssembleTtl =>
      Waits(frags[s][u.report.key], u, dedup[s][u])

LEMMA WaitsKept ==
  ASSUME NEW e \in Entries, NEW u, NEW age \in Nat, age < AssembleTtl, Waits(e, u, age)
  PROVE  KeptEntry(e) = e
<1>1. e.age \in Nat /\ e.age <= age
  BY Ages DEF Waits, Entries
<1> QED
  BY <1>1, Ages DEF KeptEntry

(* A half that comes to a key at rest finds nothing and begins an entry.   *)
LEMMA Begins ==
  ASSUME TypeInv, FragsInv, NEW s \in Sources, NEW t \in Sentences,
         AtRest(s, t.report.key), NEW g, NEW payload, Handles(frags[s], t, g, payload),
         t.report.total = 2, t.part \in 1..2
  PROVE  Waits(g[t.report.key], t, 0)
<1>1. PICK k, e, d : k = t.report.key /\ e = frags[s][k] /\ d = dedup[s]
  OBVIOUS
<1>2. k \in Keys
  BY <1>1, Sentence
<1>3. e \in Entries /\ d \in [Cached -> 0..DedupTtl] /\ Sound(e, d, k)
  BY <1>1, <1>2 DEF TypeInv, FragsInv
<1>4. KeptEntry(e) = NoEntry
  <2> SUFFICES ASSUME KeptEntry(e) # NoEntry PROVE FALSE
    OBVIOUS
  <2>1. e.age < AssembleTtl /\ e # NoEntry /\ e.age \in Nat
    BY <1>3, Ages DEF KeptEntry, Entries
  <2>2. Belongs(e, d, k)
    BY <1>3, <2>1, Ages DEF Sound
  <2>3. PICK i \in 1..Len(e.parts) : e.parts[i] # {}
    BY <2>2 DEF Belongs
  <2>4. PICK x : x \in e.parts[i]
    BY <2>3
  <2>5. x \in Sentences
    BY <1>3, <2>3, <2>4 DEF Entries
  <2>6. x.report.key = k /\ x.report.total > 1 /\ d[x] <= e.age
    BY <2>2, <2>3, <2>4 DEF Belongs
  <2>7. d[x] >= AssembleTtl
    BY <1>1, <2>5, <2>6 DEF AtRest
  <2>8. d[x] \in Nat
    BY <1>3, <2>5, Ages DEF Cached
  <2> QED
    BY <2>1, <2>6, <2>7, <2>8, Ages
<1>5. PICK n : n = Entry(NoEntry, t)
  OBVIOUS
<1>6. n \in Entries /\ Len(n.parts) = 2 /\ n.parts[t.part] = {t} /\ n.age = 0
      /\ \A i \in 1..2 : i # t.part => n.parts[i] = {}
  <2>1. NoEntry \in Entries /\ Len(NoEntry.parts) # t.report.total /\ t.part \in 1..t.report.total
    BY Blank
  <2>2. /\ n \in Entries /\ Len(n.parts) = t.report.total /\ n.parts[t.part] = {t}
        /\ \A i \in 1..t.report.total : i # t.part =>
             n.parts[i] = IF Len(NoEntry.parts) = t.report.total THEN NoEntry.parts[i] ELSE {}
        /\ n.age = IF Len(NoEntry.parts) = t.report.total THEN NoEntry.age ELSE 0
    BY <1>5, <2>1, EntryFacts
  <2> QED
    BY <2>1, <2>2
<1>7. ~Complete(n)
  <2>1. \E i \in 1..2 : n.parts[i] = {}
    <3>1. 1 \in 1..2 /\ 2 \in 1..2 /\ (t.part # 1 \/ t.part # 2)
      OBVIOUS
    <3> QED
      BY <1>6, <3>1
  <2>2. n.parts \in Seq(SUBSET Sentences)
    BY <1>6 DEF Entries
  <2> QED
    BY <1>6, <2>1, <2>2 DEF Complete, Range, None
<1>8. g[k] = n
  BY <1>1, <1>4, <1>5, <1>7 DEF Handles, Numbered
<1> QED
  BY <1>1, <1>6, <1>8 DEF Waits

LEMMA NowAloneFacts ==
  ASSUME TypeInv, NEW s \in Sources, NEW t \in Sentences, NEW z \in Sources
  PROVE  /\ z # s => NowAlone(s, t)[z] = alone[z]
         /\ \A u \in NowAlone(s, t)[s] :
              \/ u \in alone[s] /\ (t.report.total = 1 \/ u.report.key # t.report.key)
              \/ u = t /\ t.report.total # 1 /\ AtRest(s, t.report.key)
<1>1. CASE t.report.total = 1
  BY <1>1 DEF NowAlone
<1>2. CASE t.report.total # 1
  <2>1. NowAlone(s, t)[s] = {u \in alone[s] : u.report.key # t.report.key}
                            \cup (IF AtRest(s, t.report.key) THEN {t} ELSE {})
    BY <1>2 DEF NowAlone, TypeInv
  <2>2. z # s => NowAlone(s, t)[z] = alone[z]
    BY <1>2 DEF NowAlone, TypeInv
  <2> QED
    BY <1>2, <2>1, <2>2
<1> QED
  BY <1>1, <1>2

LEMMA HalfAccept ==
  ASSUME TypeInv, FragsInv, HalfInv, NEW s \in Sources, NEW t \in Sentences, Accept(s, t)
  PROVE  HalfInv'
<1>1. dedup[s][t] = DedupTtl /\ dedup' = [dedup EXCEPT ![s][t] = 0]
  BY Accepts, Zenon
<1>2. PICK g, payload : Yields(s, t, g, payload)
  BY Accepts, Zenon
<1>3. Handles(frags[s], t, g, payload) /\ frags' = [frags EXCEPT ![s] = g] /\ alone' = NowAlone(s, t)
  BY <1>2 DEF Yields
<1>4. t \in Cached /\ Sentences \subseteq Cached
  BY DEF Cached
<1> SUFFICES ASSUME NEW z \in Sources, NEW u \in Sentences,
                    u \in alone'[z], u.report.total = 2, u.part \in 1..2,
                    dedup'[z][u] < AssembleTtl
             PROVE  Waits(frags'[z][u.report.key], u, dedup'[z][u])
  BY DEF HalfInv
<1>5. u.report.key \in Keys
  BY Sentence
<1>6. CASE z # s
  <2>1. dedup'[z] = dedup[z] /\ frags'[z] = frags[z] /\ alone'[z] = alone[z]
    BY <1>1, <1>3, <1>6, NowAloneFacts DEF TypeInv
  <2> QED
    BY <2>1 DEF HalfInv
<1>7. CASE z = s /\ u = t /\ t.report.total # 1 /\ AtRest(s, t.report.key)
  <2>1. dedup'[s][t] = 0 /\ frags'[s] = g
    BY <1>1, <1>3, <1>4 DEF TypeInv
  <2>2. Waits(g[t.report.key], t, 0)
    BY <1>3, <1>7, Begins
  <2> QED
    BY <1>7, <2>1, <2>2
<1>8. CASE z = s /\ u \in alone[s] /\ (t.report.total = 1 \/ u.report.key # t.report.key)
  <2>1. u # t
    BY <1>8
  <2>2. dedup'[s][u] = dedup[s][u] /\ dedup[s][u] \in Nat /\ frags'[s] = g
    BY <1>1, <1>3, <1>4, <2>1, Ages DEF TypeInv
  <2>3. PICK e : e = frags[s][u.report.key]
    OBVIOUS
  <2>4. Waits(e, u, dedup[s][u]) /\ e \in Entries
    BY <1>5, <1>8, <2>2, <2>3 DEF HalfInv, TypeInv
  <2>5. KeptEntry(e) = e
    BY <1>8, <2>2, <2>4, WaitsKept
  <2>6. g[u.report.key] = e
    BY <1>3, <1>5, <1>8, <2>3, <2>5 DEF Handles
  <2> QED
    BY <1>8, <2>2, <2>4, <2>6
<1> QED
  BY <1>3, <1>6, <1>7, <1>8, NowAloneFacts

LEMMA HalfTick ==
  ASSUME AssembleTtl <= DedupTtl, TypeInv, HalfInv, AisTick
  PROVE  HalfInv'
<1> SUFFICES ASSUME NEW z \in Sources, NEW u \in Sentences,
                    u \in alone'[z], u.report.total = 2, u.part \in 1..2,
                    dedup'[z][u] < AssembleTtl
             PROVE  Waits(frags'[z][u.report.key], u, dedup'[z][u])
  BY DEF HalfInv
<1>1. PICK k, e, a : k = u.report.key /\ e = frags[z][k] /\ a = dedup[z][u]
  OBVIOUS
<1>2. k \in Keys /\ e \in Entries /\ a \in 0..DedupTtl
  <2>1. k \in Keys
    BY <1>1, Sentence
  <2> QED
    BY <1>1, <2>1 DEF TypeInv, Cached
<1>3. dedup'[z][u] = Aged(a, DedupTtl)
  BY <1>1 DEF AisTick
<1>4. a < DedupTtl /\ dedup'[z][u] = a + 1 /\ a < AssembleTtl
  BY <1>2, <1>3, Ages DEF Aged
<1>5. Waits(e, u, a)
  BY <1>1, <1>4 DEF HalfInv, AisTick
<1>6. e # NoEntry /\ e.age \in 0..AssembleTtl /\ e.age <= a
  BY <1>2, <1>5, Blank DEF Waits, Entries
<1>7. frags'[z][k] = [e EXCEPT !.age = Aged(@, AssembleTtl)]
  BY <1>1, <1>2, <1>6 DEF AisTick
<1>8. frags'[z][k].parts = e.parts /\ frags'[z][k].age = Aged(e.age, AssembleTtl)
  BY <1>2, <1>7 DEF Entries
<1>9. Aged(e.age, AssembleTtl) <= a + 1
  BY <1>2, <1>6, Ages DEF Aged
<1> QED
  BY <1>1, <1>4, <1>5, <1>8, <1>9 DEF Waits

LEMMA HalfStep ==
  ASSUME AssembleTtl <= DedupTtl, TypeInv, FragsInv, HalfInv, [AisNext]_aisVars
  PROVE  HalfInv'
<1>1. CASE UNCHANGED <<dedup, frags, sent, alone>>
  BY <1>1 DEF HalfInv
<1> QED
  BY <1>1, HalfAccept, HalfTick, StepKinds

(* The second half completes the entry in which the first one waits.       *)
Halves(t, u) ==
  /\ u.report = t.report /\ t.report.total = 2
  /\ t.part \in 1..2 /\ u.part \in 1..2 /\ t.part # u.part
Waiting(s, u) ==
  dedup[s][u] < AssembleTtl /\ Waits(frags[s][u.report.key], u, dedup[s][u])

Joins(payload, t, u) ==
  payload # <<>> /\ UNION Range(payload) = {t, u} /\ ReportOf(payload) = t.report

LEMMA Meet ==
  ASSUME TypeInv, NEW s \in Sources, NEW u \in Sentences, NEW t \in Sentences,
         Halves(t, u), Waiting(s, u), NEW g, NEW payload, Handles(frags[s], t, g, payload)
  PROVE  Joins(payload, t, u)
<1> USE DEF Halves, Waiting, Joins
<1>1. PICK e : e = frags[s][t.report.key]
  OBVIOUS
<1>2. e \in Entries /\ dedup[s][u] \in Nat
  <2>1. t.report.key \in Keys
    BY Sentence
  <2> QED
    BY <1>1, <2>1, Ages DEF TypeInv, Cached
<1>3. KeptEntry(e) = e /\ Len(e.parts) = 2 /\ e.parts[u.part] = {u}
  BY <1>1, <1>2, WaitsKept DEF Waits
<1>4. PICK n : n = Entry(e, t)
  OBVIOUS
<1>5. n \in Entries /\ Len(n.parts) = 2 /\ n.parts[t.part] = {t} /\ n.parts[u.part] = {u}
  <2>1. Len(e.parts) = t.report.total /\ t.part \in 1..t.report.total
    BY <1>3
  <2>2. /\ n \in Entries /\ Len(n.parts) = t.report.total /\ n.parts[t.part] = {t}
        /\ \A i \in 1..t.report.total : i # t.part =>
             n.parts[i] = IF Len(e.parts) = t.report.total THEN e.parts[i] ELSE {}
    <3>1. LET m == Entry(e, t)
          IN  /\ m \in Entries /\ Len(m.parts) = t.report.total /\ m.parts[t.part] = {t}
              /\ \A i \in 1..t.report.total : i # t.part =>
                   m.parts[i] = IF Len(e.parts) = t.report.total THEN e.parts[i] ELSE {}
      BY <1>2, <2>1, EntryFacts
    <3> QED
      BY <1>4, <3>1
  <2> QED
    BY <1>3, <2>1, <2>2
<1>6. n.parts \in Seq(SUBSET Sentences) /\ \A i \in 1..2 : n.parts[i] \in {{t}, {u}}
  <2>1. \A i \in 1..2 : i = t.part \/ i = u.part
    OBVIOUS
  <2>2. n.parts \in Seq(SUBSET Sentences)
    BY <1>5 DEF Entries
  <2> QED
    BY <1>5, <2>1, <2>2, Zenon
<1>7. Complete(n)
  <2>1. \A i \in 1..2 : n.parts[i] # {}
    BY <1>6
  <2> QED
    BY <1>5, <1>6, <2>1 DEF Complete, Range, None
<1>8. payload = n.parts
  BY <1>1, <1>3, <1>4, <1>7 DEF Handles, Numbered
<1>9. UNION Range(payload) = {t, u}
  BY <1>5, <1>6, <1>8 DEF Range
<1>10. payload[1] # {} /\ \A y \in payload[1] : y.report = t.report
  <2>1. payload[1] \in {{t}, {u}}
    BY <1>6, <1>8
  <2> QED
    BY <2>1
<1>11. payload # <<>>
  BY <1>5, <1>8
<1> QED
  BY <1>9, <1>10, <1>11, OneReport

LEMMA MeetStep ==
  ASSUME TypeInv, FragsInv, HalfInv, [AisNext]_aisVars,
         NEW s \in Sources, NEW t \in Sentences, NEW u \in Sentences,
         dedup'[s][t] = 0, dedup[s][t] = DedupTtl,
         u.report = t.report, t.report.total = 2, {t.part, u.part} = 1..2,
         u \in alone[s], dedup[s][u] < AssembleTtl
  PROVE  (Sends(s) /\ Sent = {t, u}) \/ Decoded(<<{t}>>) = {}
<1>1. t.part \in 1..2 /\ u.part \in 1..2 /\ t.part # u.part
  BY SMT
<1>2. t \in Cached
  BY DEF Cached
<1>3. CASE AisTick
  BY <1>2, <1>3, Ages DEF AisTick, Aged, Cached
<1>4. CASE UNCHANGED <<dedup, frags, sent, alone>>
  BY <1>4, Ages
<1>5. ASSUME NEW z \in Sources, NEW x \in Sentences, Accept(z, x)
      PROVE  (Sends(s) /\ Sent = {t, u}) \/ Decoded(<<{t}>>) = {}
  <2>1. dedup' = [dedup EXCEPT ![z][x] = 0]
    BY <1>5, Accepts, Zenon
  <2>2. z = s /\ x = t
    BY <1>2, <2>1, Ages DEF TypeInv
  <2>3. PICK g, payload : Yields(s, t, g, payload)
    BY <1>5, <2>2, Accepts, Zenon
  <2>4. Handles(frags[s], t, g, payload)
    BY <2>3 DEF Yields
  <2>5. Halves(t, u) /\ Waiting(s, u)
    BY <1>1 DEF HalfInv, Halves, Waiting
  <2>6. payload # <<>> /\ UNION Range(payload) = {t, u} /\ ReportOf(payload) = t.report
    <3>1. Joins(payload, t, u)
      BY <2>4, <2>5, Meet, Zenon
    <3> QED
      BY <3>1 DEF Joins
  <2>7. Decoded(payload) = {} <=> Decoded(<<{t}>>) = {}
    <3>1. PICK p : p = <<{t}>>
      OBVIOUS
    <3>2. p[1] # {} /\ \A y \in p[1] : y.report = t.report
      BY <3>1
    <3>3. ReportOf(p) = t.report
      BY <3>2, OneReport
    <3> QED
      BY <2>6, <3>1, <3>3, SamePayload
  <2>8. CASE Silent(t, payload)
    BY <2>6, <2>7, <2>8 DEF Silent
  <2>9. CASE Passes(s, t, payload)
    <3>1. PICK f \in Frames : f.from = {t, u} /\ chan' = chan \o <<f>>
      BY <2>6, <2>9, Zenon DEF Passes
    <3>2. Len(chan') = Len(chan) + 1 /\ Len(chan) \in Nat /\ chan'[Len(chan')] = f
      BY <3>1 DEF TypeInv
    <3>3. dedup'[s] # dedup[s]
      BY Ages
    <3> QED
      BY <3>1, <3>2, <3>3 DEF Sends, Sent
  <2> QED
    BY <2>3, <2>8, <2>9 DEF Yields
<1> QED
  BY <1>3, <1>4, <1>5, StepKinds

LEMMA HalfInit == AisInit => HalfInv
BY DEF AisInit, HalfInv

(* PartsMeet: deduplication and assembly do not defeat each other, if the  *)
(* cache keeps sentences for at least as long as the assembler keeps parts *)
(* (both are 30 s: dedup.rs, decode.rs:252).                               *)
THEOREM HalvesMeet ==
  ASSUME AssembleTtl <= DedupTtl
  PROVE  AisSpec => PartsMeet
<1> DEFINE Met(s, t) ==
      dedup'[s][t] = 0 /\ dedup[s][t] = DedupTtl =>
        \A u \in Sentences : u.report = t.report /\ t.report.total = 2 /\ {t.part, u.part} = 1..2
        /\ u \in alone[s] /\ dedup[s][u] < AssembleTtl =>
          \/ Sends(s) /\ Sent = {t, u}
          \/ Decoded(<<{t}>>) = {}
<1>1. TypeInv /\ FragsInv /\ HalfInv /\ [AisNext]_aisVars =>
        [\A s \in Sources, t \in Sentences : Met(s, t)]_aisVars
  BY MeetStep
<1>2. TypeInv /\ FragsInv /\ HalfInv /\ [AisNext]_aisVars => HalfInv'
  BY HalfStep
<1> QED
  BY <1>1, <1>2, HalfInit, FragsAlways, PTL DEF AisSpec, PartsMeet

-----------------------------------------------------------------------------
(* What is younger than what: a vessel's record is at most DedupTtl older  *)
(* than the last time it was heard, and no older than the cache entry of a *)
(* sentence that it sent, unless a frame of it is still in the channel.    *)
Carries(c, m) == \E i \in 1..Len(c) : c[i].mmsi = m /\ c[i].kind # "aton"
VesselInv ==
  \A m \in Mmsis : Carries(chan, m) \/ store[m].age < heard[m] + DedupTtl
RepeatInv ==
  \A s \in Sources, t \in Sentences : \A m \in HeardOf(t) :
    dedup[s][t] < DedupTtl => Carries(chan, m) \/ store[m].age <= dedup[s][t]
FreshInv == VesselInv /\ RepeatInv

LEMMA HeardOfFrames ==
  ASSUME NEW t \in Sentences
  PROVE  HeardOf(t) \subseteq Mmsis
<1>1. PICK p : p = <<{t}>>
  OBVIOUS
<1>2. p[1] # {} /\ \A x \in p[1] : x.report = t.report
  BY <1>1
<1>3. ReportOf(p) = t.report /\ t.report \in Reports
  BY <1>2, OneReport, Sentence
<1>4. \A f \in Decoded(p) : f.mmsi \in Mmsis
  <2>1. UNION Range(p) \subseteq Sentences
    BY <1>1 DEF Range
  <2> QED
    BY <1>3, <2>1, DecodedFrames DEF Frames
<1>5. HeardOf(t) \subseteq Vessels(Decoded(p))
  BY <1>1 DEF HeardOf
<1> QED
  BY <1>4, <1>5 DEF Vessels

LEMMA CarriesMore ==
  ASSUME NEW c \in Seq(Frames), NEW f \in Frames
  PROVE  /\ \A m : Carries(c, m) => Carries(c \o <<f>>, m)
         /\ \A m \in Vessels({f}) : Carries(c \o <<f>>, m)
<1>1. <<f>> \in Seq(Frames) /\ Len(<<f>>) = 1 /\ <<f>>[1] = f
  OBVIOUS
<1>2. /\ Len(c) \in Nat /\ Len(c \o <<f>>) = Len(c) + 1 /\ (c \o <<f>>)[Len(c) + 1] = f
      /\ \A i \in 1..Len(c) : (c \o <<f>>)[i] = c[i]
  BY <1>1, ConcatProperties
<1>3. PICK d : d = c \o <<f>>
  OBVIOUS
<1>4. \A m : Carries(c, m) => Carries(d, m)
  BY <1>2, <1>3 DEF Carries
<1>5. \A m \in Vessels({f}) : Carries(d, m)
  BY <1>2, <1>3 DEF Carries, Vessels
<1> QED
  BY <1>3, <1>4, <1>5

LEMMA FreshAccept ==
  ASSUME TypeInv, FreshInv, NEW s \in Sources, NEW t \in Sentences, Accept(s, t),
         UNCHANGED store
  PROVE  FreshInv'
<1>1. dedup' = [dedup EXCEPT ![s][t] = 0] /\ chan \in Seq(Frames)
  BY Accepts, Zenon DEF TypeInv
<1>2. PICK g, payload : Yields(s, t, g, payload)
  BY Accepts, Zenon
<1>3. HeardOf(t) # {} => payload # <<>> /\ HeardOf(t) = Vessels(Decoded(payload))
  <2> SUFFICES ASSUME HeardOf(t) # {}
               PROVE  payload # <<>> /\ HeardOf(t) = Vessels(Decoded(payload))
    OBVIOUS
  <2>1. t.report.total = 1 /\ t.part = 1 /\ HeardOf(t) = Vessels(Decoded(<<{t}>>))
    BY DEF HeardOf
  <2>2. payload = <<{t}>>
    BY <1>2, <2>1 DEF Handles, Numbered, Yields
  <2> QED
    BY <2>1, <2>2
(* What is heard now is carried now. *)
<1>4. PICK ms : /\ heard' = NowHeard(ms) /\ HeardOf(t) \subseteq ms
                /\ \A m \in ms : Carries(chan', m)
                /\ \A m : Carries(chan, m) => Carries(chan', m)
  <2>1. CASE Silent(t, payload)
    <3>1. HeardOf(t) = {}
      BY <1>3, <2>1 DEF Vessels, Silent
    <3> QED
      BY <2>1, <3>1 DEF Silent
  <2>2. CASE Passes(s, t, payload)
    <3>1. PICK f \in Frames : /\ Decoded(payload) = {f} /\ chan' = chan \o <<f>>
                              /\ heard' = NowHeard(HeardOf(t) \cup Vessels({f}))
      BY <2>2, Zenon DEF Passes
    <3>2. HeardOf(t) \subseteq Vessels({f})
      BY <1>3, <3>1
    <3>3. HeardOf(t) \cup Vessels({f}) = Vessels({f})
      BY <3>2
    <3>4. \A m \in Vessels({f}) : Carries(chan', m)
      BY <1>1, <3>1, CarriesMore
    <3>5. \A m : Carries(chan, m) => Carries(chan', m)
      BY <1>1, <3>1, CarriesMore
    <3> QED
      BY <3>1, <3>2, <3>3, <3>4, <3>5
  <2> QED
    BY <1>2, <2>1, <2>2, Zenon DEF Yields
<1>5. VesselInv'
  <2> SUFFICES ASSUME NEW m \in Mmsis
               PROVE  Carries(chan', m) \/ store[m].age < heard'[m] + DedupTtl
    BY DEF VesselInv
  <2>1. heard'[m] = IF m \in ms THEN 0 ELSE heard[m]
    BY <1>4, NowHeardType
  <2> QED
    BY <1>4, <2>1 DEF FreshInv, VesselInv
<1>6. RepeatInv'
  <2> SUFFICES ASSUME NEW z \in Sources, NEW x \in Sentences, NEW m \in HeardOf(x),
                      dedup'[z][x] < DedupTtl
               PROVE  Carries(chan', m) \/ store[m].age <= dedup'[z][x]
    BY DEF RepeatInv
  <2>1. CASE z = s /\ x = t
    BY <1>4, <2>1
  <2>2. CASE ~(z = s /\ x = t)
    <3>1. dedup'[z][x] = dedup[z][x]
      BY <1>1, <2>2 DEF TypeInv
    <3> QED
      BY <1>4, <3>1 DEF FreshInv, RepeatInv
  <2> QED
    BY <2>1, <2>2
<1> QED
  BY <1>5, <1>6 DEF FreshInv

LEMMA FreshConsume ==
  ASSUME TypeInv, FreshInv, Consume
  PROVE  FreshInv'
<1>1. chan \in Seq(Frames) /\ chan # <<>> /\ chan' = Tail(chan)
  BY DEF TypeInv, Consume
<1>2. PICK f : f = Head(chan)
  OBVIOUS
<1>3. f \in Frames /\ f = chan[1]
  BY <1>1, <1>2
<1>4. store' = IF f.kind = "aton" THEN store ELSE [store EXCEPT ![f.mmsi] = Updated(@, f)]
  BY <1>2 DEF Consume
<1>5. ASSUME NEW m \in Mmsis
      PROVE  \/ (Carries(chan, m) => Carries(chan', m)) /\ store'[m] = store[m]
             \/ store'[m].age = 0
  <2>1. CASE f.kind # "aton" /\ m = f.mmsi
    <3>1. store'[m] = Updated(store[m], f) /\ store[m] \in VesselRecords
      BY <1>4, <2>1 DEF TypeInv
    <3> QED
      BY <1>3, <3>1, UpdatedType
  <2>2. CASE ~(f.kind # "aton" /\ m = f.mmsi)
    <3>1. store'[m] = store[m]
      BY <1>4, <2>2 DEF TypeInv
    <3>2. Carries(chan, m) => Carries(Tail(chan), m)
      <4> SUFFICES ASSUME Carries(chan, m) PROVE Carries(Tail(chan), m)
        OBVIOUS
      <4>1. PICK i \in 1..Len(chan) : chan[i].mmsi = m /\ chan[i].kind # "aton"
        BY DEF Carries
      <4>2. i # 1
        BY <1>3, <2>2, <4>1
      <4>3. Len(Tail(chan)) = Len(chan) - 1 /\ Len(chan) \in Nat
        BY <1>1
      <4>4. i - 1 \in 1..Len(Tail(chan)) /\ Tail(chan)[i - 1] = chan[i]
        BY <1>1, <4>2, <4>3
      <4> QED
        BY <4>1, <4>4 DEF Carries
    <3> QED
      BY <1>1, <3>1, <3>2
  <2> QED
    BY <2>1, <2>2
<1>6. heard' = heard /\ dedup' = dedup
  BY DEF Consume
<1>7. VesselInv'
  <2> SUFFICES ASSUME NEW m \in Mmsis
               PROVE  Carries(chan', m) \/ store'[m].age < heard'[m] + DedupTtl
    BY DEF VesselInv
  <2>1. heard[m] \in Nat
    BY Ages DEF TypeInv
  <2>2. Carries(chan, m) \/ store[m].age < heard'[m] + DedupTtl
    BY <1>6 DEF FreshInv, VesselInv
  <2>3. store'[m].age = 0 => store'[m].age < heard'[m] + DedupTtl
    BY <1>6, <2>1, Ages
  <2>4. CASE store'[m].age = 0
    BY <2>3, <2>4
  <2>5. CASE (Carries(chan, m) => Carries(chan', m)) /\ store'[m] = store[m]
    BY <2>2, <2>5
  <2> QED
    BY <1>5, <2>4, <2>5
<1>8. RepeatInv'
  <2> SUFFICES ASSUME NEW z \in Sources, NEW x \in Sentences, NEW m \in HeardOf(x),
                      dedup[z][x] < DedupTtl
               PROVE  Carries(chan', m) \/ store'[m].age <= dedup[z][x]
    BY <1>6 DEF RepeatInv
  <2>1. m \in Mmsis /\ dedup[z][x] \in Nat
    BY HeardOfFrames, Ages DEF TypeInv, Cached
  <2>2. Carries(chan, m) \/ store[m].age <= dedup[z][x]
    BY DEF FreshInv, RepeatInv
  <2>3. store'[m].age = 0 => store'[m].age <= dedup[z][x]
    BY <2>1
  <2>4. CASE store'[m].age = 0
    BY <2>3, <2>4
  <2>5. CASE (Carries(chan, m) => Carries(chan', m)) /\ store'[m] = store[m]
    BY <2>2, <2>5
  <2> QED
    BY <1>5, <2>1, <2>4, <2>5
<1> QED
  BY <1>7, <1>8 DEF FreshInv

LEMMA FreshTick ==
  ASSUME TypeInv, FreshInv, AisTick
  PROVE  FreshInv'
<1>1. ASSUME NEW m \in Mmsis
      PROVE  store'[m].age = Aged(store[m].age, ReapAfter) /\ store[m].age \in 0..ReapAfter
             /\ heard'[m] = Aged(heard[m], ReapAfter) /\ heard[m] \in 0..ReapAfter
  BY DEF TypeInv, AisTick, VesselRecords
<1>2. chan' = chan
  BY DEF AisTick
<1>3. VesselInv'
  <2> SUFFICES ASSUME NEW m \in Mmsis, ~Carries(chan', m)
               PROVE  store'[m].age < heard'[m] + DedupTtl
    BY DEF VesselInv
  <2>1. store[m].age < heard[m] + DedupTtl
    BY <1>2 DEF FreshInv, VesselInv
  <2> QED
    BY <1>1, <2>1, Ages DEF Aged
<1>4. RepeatInv'
  <2> SUFFICES ASSUME NEW z \in Sources, NEW x \in Sentences, NEW m \in HeardOf(x),
                      dedup'[z][x] < DedupTtl, ~Carries(chan', m)
               PROVE  store'[m].age <= dedup'[z][x]
    BY DEF RepeatInv
  <2>1. m \in Mmsis /\ dedup[z][x] \in 0..DedupTtl /\ dedup'[z][x] = Aged(dedup[z][x], DedupTtl)
    BY HeardOfFrames DEF TypeInv, AisTick, Cached
  <2>2. dedup[z][x] < DedupTtl /\ dedup'[z][x] = dedup[z][x] + 1
    BY <2>1, Ages DEF Aged
  <2>3. store[m].age <= dedup[z][x]
    BY <1>2, <2>2 DEF FreshInv, RepeatInv
  <2> QED
    BY <1>1, <2>1, <2>2, <2>3, Ages DEF Aged
<1> QED
  BY <1>3, <1>4 DEF FreshInv

LEMMA FreshStep ==
  ASSUME TypeInv, FreshInv, [AisNext]_aisVars
  PROVE  FreshInv'
<1>1. ASSUME NEW s \in Sources, NEW l \in traffic, ReadLine(s, l) PROVE FreshInv'
  <2>1. UNCHANGED store
    BY <1>1, Reads DEF TypeInv
  <2>2. PICK t \in Sentences : Ignore(s, t) \/ Panic(s, t) \/ Accept(s, t)
    BY <1>1, Reads DEF TypeInv
  <2>3. CASE Panic(s, t)
    BY <2>1, <2>3 DEF Panic, FreshInv, VesselInv, RepeatInv
  <2>4. CASE Ignore(s, t)
    <3>1. /\ dedup' = dedup /\ chan' = chan /\ heard' = NowHeard(HeardOf(t))
          /\ dedup[s][t] < DedupTtl /\ dedup[s][t] \in Nat
      BY <2>4, Ages DEF Ignore, IsDuplicate, DedupOnDuplicate, TypeInv, Cached
    <3>2. RepeatInv'
      BY <2>1, <3>1 DEF FreshInv, RepeatInv
    <3>3. VesselInv'
      <4> SUFFICES ASSUME NEW m \in Mmsis, ~Carries(chan, m)
                   PROVE  store[m].age < heard'[m] + DedupTtl
        BY <2>1, <3>1 DEF VesselInv
      <4>1. heard'[m] = IF m \in HeardOf(t) THEN 0 ELSE heard[m]
        BY <3>1, NowHeardType
      <4>2. store[m].age \in Nat
        BY Ages DEF TypeInv, VesselRecords
      <4>3. CASE m \in HeardOf(t)
        BY <3>1, <4>1, <4>2, <4>3, Ages DEF FreshInv, RepeatInv
      <4>4. CASE m \notin HeardOf(t)
        BY <4>1, <4>4 DEF FreshInv, VesselInv
      <4> QED
        BY <4>3, <4>4
    <3> QED
      BY <3>2, <3>3 DEF FreshInv
  <2> QED
    BY <2>1, <2>2, <2>3, <2>4, FreshAccept
<1>2. CASE ReapStale
  <2>1. ASSUME NEW m \in Mmsis PROVE store'[m].age = store[m].age
    <3>1. store[m] \in VesselRecords /\ store'[m] = Reaped(store[m])
      BY <1>2 DEF TypeInv, ReapStale
    <3>2. store[m].age \in 0..ReapAfter
      BY <3>1 DEF VesselRecords
    <3> QED
      BY <3>1, <3>2, Blank, Ages DEF Reaped
  <2>2. chan' = chan /\ heard' = heard /\ dedup' = dedup
    BY <1>2 DEF ReapStale
  <2> QED
    BY <2>1, <2>2, HeardOfFrames DEF FreshInv, VesselInv, RepeatInv
<1>3. ASSUME NEW s \in Sources, Connect(s) \/ Disconnect(s) PROVE FreshInv'
  BY <1>3 DEF Connect, Disconnect, FreshInv, VesselInv, RepeatInv
<1>4. CASE UNCHANGED aisVars
  BY <1>4 DEF aisVars, FreshInv, VesselInv, RepeatInv
<1> QED
  BY <1>1, <1>2, <1>3, <1>4, FreshConsume, FreshTick DEF AisNext

LEMMA FreshInit == AisInit => FreshInv
<1> SUFFICES ASSUME AisInit PROVE FreshInv
  OBVIOUS
<1>1. VesselInv
  BY Blank, Ages DEF AisInit, VesselInv
<1>2. RepeatInv
  BY Ages DEF AisInit, RepeatInv
<1> QED
  BY <1>1, <1>2 DEF FreshInv

LEMMA FreshStays ==
  ASSUME TypeInv, FreshInv
  PROVE  HeardVesselStays
<1> SUFFICES ASSUME NEW m \in Mmsis, heard[m] <= ReapAfter - DedupTtl, ~Pending(m)
             PROVE  store[m] # NoVessel
  BY DEF HeardVesselStays
<1>1. ~Carries(chan, m)
  <2>1. DOMAIN chan = 1..Len(chan)
    BY DEF TypeInv
  <2> QED
    BY <2>1 DEF Carries, Pending
<1>2. store[m].age < heard[m] + DedupTtl
  BY <1>1 DEF FreshInv, VesselInv
<1>3. store[m].age \in Nat /\ heard[m] \in Nat
  BY Ages DEF TypeInv, VesselRecords
<1> QED
  BY <1>2, <1>3, Blank, Ages

(* HeardVesselStays: the cache swallows the repeated sentences of a vessel *)
(* but never for so long that reap_stale removes it (dedup.rs:29-34,       *)
(* vessel.rs:73-76).                                                       *)
THEOREM VesselStays == AisSpec => []HeardVesselStays
<1>1. AisInit => TypeInv /\ FreshInv
  BY TypeInit, FreshInit
<1>2. TypeInv /\ FreshInv /\ [AisNext]_aisVars => (TypeInv /\ FreshInv)'
  BY TypeStep, FreshStep
<1>3. TypeInv /\ FreshInv => HeardVesselStays
  BY FreshStays
<1> QED
  BY <1>1, <1>2, <1>3, PTL DEF AisSpec
=============================================================================

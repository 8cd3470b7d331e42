------------------------------- MODULE ModeS --------------------------------
(***************************************************************************)
(* From the bits of a Mode S message to what is known of an aircraft: the  *)
(* checksum and the repair of src/src/decode/crc.rs, the dispatch of       *)
(* src/src/decode/mode_s.rs, and the merge of Store::update in             *)
(* src/src/decode/aircraft.rs.                                             *)
(*                                                                         *)
(* A squitter (DF 11, 17, 18) names its sender and has a checksum of zero; *)
(* the checksum of a reply is the address of its sender.  A message is     *)
(* damaged by errors, the indices of the bits that are received wrong.     *)
(* Polynomials over GF(2) and addresses are sets of exponents.  A field    *)
(* stands for its value by the aircraft it came from.                      *)
(***************************************************************************)
EXTENDS Integers, FiniteSets, FiniteSetsExt, SequencesExt

CONSTANTS
  Real,      \* the addresses of the aircraft that send
  Sent       \* what they send: [df, from, tc, blank]

ASSUME SentAssumption ==
  \A m \in Sent : m.df \in {0, 4, 5, 11, 16, 17, 18, 20, 21} /\ m.from \in Real

Ghost == {"ghost"}  \* any address that is not real
Seen == Real \cup {Ghost}

VARIABLES
  watched,  \* the address that is looked at
  known,    \* whether the store has an entry for it
  track     \* per field: the aircraft its value came from, or Nobody

trackVars == <<watched, known, track>>

FieldNames == {"altitude", "squawk", "ident", "position", "quality", "velocity", "gnss",
               "emergency", "target", "version"}
Nobody == {"nobody"}

Unknown == [f \in FieldNames |-> Nobody]
TrackInit ==
  /\ watched \in Seen
  /\ known = FALSE
  /\ track = Unknown

-----------------------------------------------------------------------------
(* The CRC: powers of x modulo the generator 0xfff409.                     *)
Generator == {0, 3, 10} \cup 12..23
TimesX(p) ==
  LET q == {d + 1 : d \in p}
  IN IF 24 \in q THEN SymDiff(q, Generator \cup {24}) ELSE q
Powers == FoldLeft(LAMBDA s, i : Append(s, TimesX(Last(s))), <<{0}>>, [i \in 1..111 |-> i])

Bits(m) == IF m.df \in {16, 17, 18, 20, 21} THEN 112 ELSE 56
Squitter(m) == m.df \in {11, 17, 18}

(* modes_checksum of a message with errors: the sum of their syndromes,    *)
(* which has the powers that are in an odd number of them.                 *)
Syndrome(n, b) == Powers[n - b]
SyndromeSum(n, errors) ==
  {d \in 0..23 : Cardinality({b \in errors : d \in Syndrome(n, b)}) % 2 = 1}
Checksum(m, errors) ==
  SymDiff(IF Squitter(m) THEN {} ELSE m.from, SyndromeSum(Bits(m), errors))

(* What the generator was chosen for: no error and no two look like none,  *)
(* no two look like one, and no one like another.                          *)
ASSUME CodeAssumption ==
  LET Single == {Syndrome(112, b) : b \in 0..111}
  IN /\ \A s \in Single : s \subseteq 0..23 /\ s # {}
     /\ \A b, c \in 0..111 : b # c =>
          /\ Syndrome(112, b) # Syndrome(112, c)
          /\ SymDiff(Syndrome(112, b), Syndrome(112, c)) \notin Single

(* A reply whose format field is hit is taken for a squitter if its        *)
(* address looks like a damaged one or none: 1 of 2600 addresses does.     *)
OneBit == {{}} \cup {Syndrome(112, b) : b \in 0..111}
ASSUME AddressAssumption ==
  \A a \in Real : a \subseteq 0..23 /\ \A s, t \in OneBit : a # SymDiff(s, t)

(* modes_fix_single_bit: the bits that clear the checksum when flipped.    *)
RepairsData(s) == {b \in 0..87 : Syndrome(112, b) = s}  \* seeded bug: parity is not tried
Repairs(s) == {b \in 0..111 : Syndrome(112, b) = s}

-----------------------------------------------------------------------------
(* The fields a message brings (decode_df17, decode_short_long).  In a     *)
(* blank one the optional part is absent or coded in a way that is not     *)
(* decoded: an altitude not in feet, a subtype or a bit that says so.      *)
Unless(m, fields) == IF m.blank THEN {} ELSE fields

IdentFields(m) == {"ident"}
SurfaceFields(m) == {"position"} \cup Unless(m, {"velocity"})
AirborneFields(m, height) == {"position", "quality"} \cup Unless(m, {height})
VelocityFields(m) == {"quality"} \cup Unless(m, {"velocity"})
EmergencyFields(m) == Unless(m, {"emergency", "squawk"})
TargetFields(m) == Unless(m, {"target", "quality"})
StatusFields(m) == {"version", "quality"}

SquitterFields(m) ==
  CASE m.tc \in 1..4 -> IdentFields(m)
    [] m.tc \in 5..8 -> SurfaceFields(m)
    [] m.tc \in 9..18 -> AirborneFields(m, "altitude")
    [] m.tc = 19 -> VelocityFields(m)
    [] m.tc \in 20..22 -> AirborneFields(m, "gnss")
    [] m.tc = 28 -> EmergencyFields(m)
    [] m.tc = 29 -> TargetFields(m)
    [] m.tc = 31 -> StatusFields(m)
    [] OTHER -> {}
BdsFields(m) == Unless(m, {"velocity"})
ReplyFields(m, df) ==
  (IF df \in {0, 4, 16, 20} THEN Unless(m, {"altitude"}) ELSE {}) \cup
  (IF df \in {5, 21} THEN {"squawk"} ELSE {}) \cup
  (IF df \in {20, 21} THEN BdsFields(m) ELSE {})

(* The format as it is received: that of which just the hit bits differ.   *)
FormatBit(df, b) == (df \div <<16, 8, 4, 2, 1>>[b + 1]) % 2
ReceivedDf(m, errors) ==
  CHOOSE df \in 0..31 : \A b \in 0..4 :
    b \in errors <=> FormatBit(df, b) # FormatBit(m.df, b)

(* The address field, bytes 1 to 3; in a reply these bits are anything.    *)
AddressField(m, errors) ==
  IF Squitter(m) THEN {SymDiff(m.from, {31 - b : b \in errors \cap 8..31})} ELSE Seen

(* The checksum over the length that the received format calls for.        *)
Residual(m, errors, n) == IF n = Bits(m) THEN {Checksum(m, errors)} ELSE Seen

Named(a) == IF a \in Real THEN a ELSE Ghost
Message(m, kind, icaos, fields) ==
  {[icao |-> Named(a), kind |-> kind, from |-> m.from, fields |-> fields] : a \in icaos \ {{}}}

DecodeShortLong(m, errors, df) ==
  LET n == IF df \in {16, 20, 21} THEN 112 ELSE 56
  IN IF n > Bits(m) THEN {}
     ELSE IF df = 11
          THEN IF {} \in Residual(m, errors, n)
               THEN Message(m, "df11", AddressField(m, errors), {}) ELSE {}
     ELSE Message(m, "reply", Residual(m, errors, n), ReplyFields(m, df))

(* DF 17 and 18: one bit is repaired; df stays as it was received.         *)
DecodeDf17(m, errors) ==
  LET sum == Checksum(m, errors)
      flips == IF sum = {} THEN {{}} ELSE {{b} : b \in Repairs(sum)}
  IN IF Bits(m) < 112 THEN {}
     ELSE UNION {LET left == SymDiff(errors, flip)
                 IN Message(m, "adsb", AddressField(m, left),
                            IF left = {} THEN SquitterFields(m) ELSE FieldNames) : flip \in flips}

Decode(m, errors) ==
  LET df == ReceivedDf(m, errors)
  IN IF df \in {0, 4, 5, 11, 16, 20, 21} THEN DecodeShortLong(m, errors, df)
     ELSE IF df \in {17, 18} THEN DecodeDf17(m, errors) ELSE {}

-----------------------------------------------------------------------------
(* Store::update: a reply leaves its altitude and squawk and makes an      *)
(* entry for them, the rest of it is thrown away; DF 11 leaves nothing.    *)
MergedAll(d) ==  \* seeded bug: the registers of a reply are merged too
  IF d.kind = "df11" THEN {} ELSE d.fields
Merged(d) ==
  IF d.kind = "df11" THEN {}
  ELSE IF d.kind = "reply" THEN d.fields \cap {"altitude", "squawk"} ELSE d.fields
Creates(d) == d.kind = "adsb" \/ Merged(d) # {}

Errors(m) == {{}} \cup {{b} : b \in 0..(Bits(m) - 1)}
Received == UNION {UNION {Decode(m, e) : e \in Errors(m)} : m \in Sent}

Update ==
  \E d \in Received :
    /\ d.icao = watched /\ Creates(d)
    /\ known' = TRUE
    /\ track' = [f \in FieldNames |-> IF f \in Merged(d) THEN d.from ELSE track[f]]
    /\ UNCHANGED watched
Reap ==
  /\ known
  /\ known' = FALSE
  /\ track' = Unknown
  /\ UNCHANGED watched

TrackNext == Update \/ Reap

-----------------------------------------------------------------------------
(* A bit error never gives an aircraft what another has sent, but for the  *)
(* altitude and the squawk of a reply, which has no checksum to tell: what *)
(* looks like another aircraft because of it, in the format or in the      *)
(* checksum, is at most these two fields.  The other fields are safe by    *)
(* the repair and the merge together (crc.rs:36-50, mode_s.rs:62-87,       *)
(* aircraft.rs:136-148).  Said of the addresses of AddressAssumption only: *)
(* a reply of another may pass for somebody's squitter.                    *)
FieldsAreOwn ==
  \A f \in FieldNames \ {"altitude", "squawk"} : track[f] \in {Nobody, watched}

(* The repair is right: a squitter with one wrong bit outside its format   *)
(* field is decoded as it was sent, and with two not at all (crc.rs:34-50, *)
(* mode_s.rs:121-126); DF 11 is not repaired.                              *)
RepairedRight(m, errors) ==
  errors \cap 0..4 = {} =>
    Decode(m, errors) =
      IF errors = {} \/ (Cardinality(errors) = 1 /\ m.df # 11)
      THEN Decode(m, {}) ELSE {}
=============================================================================

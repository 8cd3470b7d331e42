------------------------------- MODULE Fields -------------------------------
(***************************************************************************)
(* The numbers in Mode S messages and in the outputs: the field decoders   *)
(* of src/src/decode/mode_s.rs and the encoders of                         *)
(* src/src/decode/output.rs and src/src/wire.rs.  A code is the integer    *)
(* that the bits of a field make; a value that is absent is None.          *)
(***************************************************************************)
EXTENDS Integers, SequencesExt

CONSTANT None

ASSUME NoneAssumption == None \notin Int

(* The bits lo .. hi of a code, bit 0 the least. *)
BitsOf(c, hi, lo) == (c \div 2 ^ lo) % (2 ^ (hi - lo + 1))

(* Altitudes are n * 25 - 1000 ft around the Q bit, and the M bit in AC13. *)
Feet(n) == 25 * n - 1000
DecodeAc12(c) ==
  IF BitsOf(c, 4, 4) = 1 THEN Feet(BitsOf(c, 11, 5) * 16 + BitsOf(c, 3, 0)) ELSE None
DecodeAc13Wide(c) ==  \* seeded bug: shifted as if there were no M bit
  IF BitsOf(c, 6, 6) = 0 /\ BitsOf(c, 4, 4) = 1
  THEN Feet(BitsOf(c, 12, 5) * 16 + BitsOf(c, 3, 0)) ELSE None
DecodeAc13(c) ==
  IF BitsOf(c, 6, 6) = 0 /\ BitsOf(c, 4, 4) = 1
  THEN Feet(BitsOf(c, 12, 7) * 32 + BitsOf(c, 5, 5) * 16 + BitsOf(c, 3, 0)) ELSE None

(* encode_bincraft divides by 25 and saturates, encode_position wraps.     *)
Saturated(v) == IF v > 32767 THEN 32767 ELSE IF v < -32768 THEN -32768 ELSE v
BincraftAltitude(ft) == Saturated(ft \div 25)
WireAltitude(ft) == LET u == ft % 65536 IN IF u > 32767 THEN u - 65536 ELSE u

(* decode_velocity: 0 means not available. *)
Airspeed(raw, mult) ==
  LET r == (raw - 1) % 65536 IN IF r < 1022 THEN r * mult ELSE None

(* decode_id13 takes the digits from groups of three neighbouring bits.    *)
Squawk(c) ==
  [a |-> BitsOf(c, 12, 10), b |-> BitsOf(c, 6, 4), c |-> BitsOf(c, 3, 1),
   d |-> BitsOf(c, 0, 0) + 2 * BitsOf(c, 13, 13) + 4 * BitsOf(c, 9, 9)]

(* decode_movement, in eighths of a knot. *)
Movement(c) ==
  CASE c = 1 -> 0
    [] c \in 2..8 -> c - 1
    [] c \in 9..12 -> 8 + 2 * (c - 9)
    [] c \in 13..38 -> 16 + 4 * (c - 13)
    [] c \in 39..93 -> 120 + 8 * (c - 39)
    [] c \in 94..108 -> 560 + 16 * (c - 94)
    [] c \in 109..124 -> 800 + 40 * (c - 109)
    [] OTHER -> None

(* include_aircraft: a box whose west lies east of its east wraps around.  *)
InBox(lat, lon, box) ==
  /\ lat \in box.south..box.north
  /\ IF box.west <= box.east THEN lon \in box.west..box.east
     ELSE ~(lon < box.west /\ lon > box.east)

(* What there is to read: the 11 bits of an altitude, a u16, meridians in  *)
(* turn-ths of a turn from -180 to below 180 degrees.                      *)
AltitudeCodes == 0..2047
AirspeedCodes == 0..65535
Longitudes(turn) == -(turn \div 2)..((turn \div 2) - 1)

-----------------------------------------------------------------------------
(* References: the field of an altitude as DO-260 lays it out, the reader  *)
(* of the wire format, and an arc as the meridians met from its west.      *)
EncodeAc12(n) == (n \div 16) * 32 + 16 + (n % 16)
EncodeAc13(n) == (n \div 32) * 128 + ((n \div 16) % 2) * 32 + 16 + (n % 16)
EncodeId13(q) ==  \* C1 A1 C2 A2 C4 A4 - B1 D1 B2 D2 B4 D4
  LET bit(digit, weight) == (digit \div weight) % 2
      order == <<bit(q.c, 1), bit(q.a, 1), bit(q.c, 2), bit(q.a, 2), bit(q.c, 4), bit(q.a, 4), 0,
                 bit(q.b, 1), bit(q.d, 1), bit(q.b, 2), bit(q.d, 2), bit(q.b, 4), bit(q.d, 4)>>
  IN FoldLeft(LAMBDA code, b : 2 * code + b, 0, order)
ReadWire(v) == IF v < -1000 THEN v + 65536 ELSE v
Arc(box, turn) == {((box.west + i + (turn \div 2)) % turn) - (turn \div 2) :
                     i \in 0..((box.east - box.west) % turn)}

(* An altitude arrives: whatever field it came in, squitter or reply, it   *)
(* is the one that was sent, and the readers of both binary outputs get it *)
(* back, although the 16 bits of one of them wrap at 32768 ft.             *)
AltitudeArrives(n) ==
  /\ DecodeAc12(EncodeAc12(n)) = Feet(n) /\ DecodeAc13(EncodeAc13(n)) = Feet(n)
  /\ 25 * BincraftAltitude(Feet(n)) = Feet(n)
  /\ ReadWire(WireAltitude(Feet(n))) = Feet(n)

(* A code of zero is not a speed, and where there is one it is the code    *)
(* less one, though the subtraction is made first and wraps.               *)
AirspeedArrives(raw) ==
  \A mult \in {1, 4} :
    Airspeed(raw, mult) = IF raw \in 1..1022 THEN (raw - 1) * mult ELSE None

(* A faster aircraft on the ground has a larger code, also across the      *)
(* boundaries of the ranges, up to 175 kt.                                 *)
MovementGrows(c) ==
  /\ Movement(c) = None <=> c \notin 1..124
  /\ c \in 1..123 => Movement(c) < Movement(c + 1)
  /\ Movement(124) = 8 * 175

(* The box of a query is the arc from its west to its east, also across    *)
(* the antimeridian and for boxes of one meridian.                         *)
BoxIsArc(lat, lon, box, turn) ==
  InBox(lat, lon, box) <=> lat \in box.south..box.north /\ lon \in Arc(box, turn)

(* PLAN.md:98, "Squawks correct (4 octal digits)": the code a transponder  *)
(* is set to is the one that is decoded.  decode_id13 does not undo the    *)
(* interleaving of the digits' bits.                                       *)
SquawkArrives(q) == Squawk(EncodeId13(q)) = q
=============================================================================

---------------------------- MODULE CompactFramer ---------------------------
(***************************************************************************)
(* The framing of hpr-demod's connection: CompactFramer of                 *)
(* src/src/compact_ingest.rs, fed byte by byte.  A frame is its length, a  *)
(* signal byte, a message of 7 or 14 bytes and, for the odd lengths, a     *)
(* confidence.  Bytes are numbers.                                         *)
(***************************************************************************)
EXTENDS Naturals, SequencesExt

PayloadLen == [n \in {8, 9, 15, 16} |-> IF n < 15 THEN 7 ELSE 14]

(* One byte: junk is skipped, a frame that is complete is emitted. *)
TakenByPayload(s, byte) ==  \* seeded bug: the confidence stays for the next frame
  LET buf == Append(s.buf, byte)
  IN IF buf[1] \notin DOMAIN PayloadLen THEN [s EXCEPT !.buf = <<>>]
     ELSE IF Len(buf) < 2 + PayloadLen[buf[1]] THEN [s EXCEPT !.buf = buf]
     ELSE [buf |-> <<>>, out |-> Append(s.out, SubSeq(buf, 3, Len(buf)))]
Taken(s, byte) ==
  LET buf == Append(s.buf, byte)
  IN IF buf[1] \notin DOMAIN PayloadLen THEN [s EXCEPT !.buf = <<>>]
     ELSE IF Len(buf) < 1 + buf[1] THEN [s EXCEPT !.buf = buf]
     ELSE [buf |-> <<>>, out |-> Append(s.out, SubSeq(buf, 3, 2 + PayloadLen[buf[1]]))]

Fed(stream) ==
  LET fed[k \in 0..Len(stream)] ==
        IF k = 0 THEN [buf |-> <<>>, out |-> <<>>] ELSE Taken(fed[k - 1], stream[k])
  IN fed
CompactFeed(stream) == Fed(stream)[Len(stream)]

-----------------------------------------------------------------------------
(* What the demodulator sends: a length and as many bytes, of any values.  *)
IsCompactFrame(f) ==
  f \in Seq(Nat) /\ Len(f) > 1 /\ f[1] \in DOMAIN PayloadLen /\ Len(f) = 1 + f[1]
CompactFrame(n, fill) == <<n>> \o [i \in 1..n |-> fill]
IsJunk(junk) == \A i \in DOMAIN junk : junk[i] \notin DOMAIN PayloadLen

(* Messages arrive whole and in order, whatever their bytes, lengths and   *)
(* confidence, and after any junk that holds no length; nothing of one     *)
(* frame is left to be taken for the next (compact_ingest.rs:21-47).       *)
CompactArrives(junk, frames) ==
  IsJunk(junk) =>
    CompactFeed(junk \o FlattenSeq(frames)) =
      [buf |-> <<>>,
       out |-> [i \in DOMAIN frames |-> SubSeq(frames[i], 3, 2 + PayloadLen[frames[i][1]])]]
=============================================================================

----------------------------- MODULE BeastFramer ----------------------------
(***************************************************************************)
(* How the bytes of a connection are cut into Beast frames: BeastFramer of *)
(* src/src/beast.rs, as ClientState::feed drives it (push, then next_frame *)
(* until it returns None), and the readers of the frames it returns:       *)
(* parse_receiver_id of beast.rs and unescape_payload of ingest.rs.        *)
(*                                                                         *)
(* A frame is an escape byte, a type byte and a body.  An escape byte in a *)
(* body is doubled, except in the raw types.  A step of NextFrame is one   *)
(* turn of the loop in next_frame.                                         *)
(***************************************************************************)
EXTENDS Naturals, SequencesExt

CONSTANTS
  Bytes,      \* the values of a byte
  Esc,        \* BEAST_ESCAPE
  BodyLen,    \* FrameType: the body length of each type byte
  Raw,        \* the types whose body is not escaped (UUID)
  Messages,   \* the types that carry a Mode S message
  Header,     \* the timestamp and signal bytes before the message
  MaxStream,  \* bound: the bytes a connection carries
  MaxPiece    \* bound: the bytes of one read

Types == DOMAIN BodyLen

ASSUME FramerAssumption ==
  /\ Types \subseteq Bytes /\ Types # {} /\ Esc \in Bytes \ Types
  /\ \A t \in Types : BodyLen[t] \in Nat \ {0}
  /\ Raw \subseteq Types
  /\ Messages \subseteq Types \ Raw /\ Header \in Nat
  /\ \A t \in Messages : Header < BodyLen[t]
  /\ MaxStream \in Nat /\ MaxPiece \in Nat \ {0}

VARIABLES
  buf,     \* the bytes that belong to no frame yet
  busy,    \* whether feed is still asking for frames
  stream,  \* history: every byte the connection has carried
  out      \* history: every frame returned

vars == <<buf, busy, stream, out>>

From(b, i) == SubSeq(b, i, Len(b))
UpTo(b, i) == SubSeq(b, 1, i)

Init ==
  /\ buf = <<>>
  /\ busy = FALSE
  /\ stream = <<>>
  /\ out = <<>>

-----------------------------------------------------------------------------
(* The walk over an escaped body, a byte of it a turn: where the next byte *)
(* starts if the body is whole so far, or where more bytes are needed, or  *)
(* another frame cuts it.                                                  *)
OnwardSwallowing(b, end) ==  \* seeded bug: the cutting escape goes with the truncated frame
  IF end.is # "whole" THEN end
  ELSE IF end.at > Len(b) \/ (end.at = Len(b) /\ b[end.at] = Esc) THEN [end EXCEPT !.is = "more"]
  ELSE IF b[end.at] # Esc THEN [end EXCEPT !.at = @ + 1]
  ELSE IF b[end.at + 1] = Esc THEN [end EXCEPT !.at = @ + 2]
  ELSE [is |-> "cut", at |-> end.at + 1]
Onward(b, end) ==
  IF end.is # "whole" THEN end
  ELSE IF end.at > Len(b) \/ (end.at = Len(b) /\ b[end.at] = Esc) THEN [end EXCEPT !.is = "more"]
  ELSE IF b[end.at] # Esc THEN [end EXCEPT !.at = @ + 1]
  ELSE IF b[end.at + 1] = Esc THEN [end EXCEPT !.at = @ + 2]
  ELSE [end EXCEPT !.is = "cut"]

Walk(b) ==
  LET walk[k \in Nat] ==
        IF k = 0 THEN [is |-> "whole", at |-> 3] ELSE Onward(b, walk[k - 1])
  IN walk
BodyEnd(b, n) == Walk(b)[n]

RawEnd(b, n) ==
  [is |-> IF Len(b) < 2 + n THEN "more" ELSE "whole", at |-> 3 + n]

FrameEnd(b) ==
  IF b[2] \in Raw THEN RawEnd(b, BodyLen[b[2]]) ELSE BodyEnd(b, BodyLen[b[2]])

-----------------------------------------------------------------------------
Start == SelectInSeq(buf, LAMBDA b : b = Esc)

Push(piece) ==
  /\ ~busy
  /\ buf' = buf \o piece
  /\ stream' = stream \o piece
  /\ busy' = TRUE
  /\ UNCHANGED out

(* No escape byte: the junk stays in the buffer. *)
NoEscape ==
  /\ Start = 0
  /\ busy' = FALSE
  /\ UNCHANGED <<buf, stream, out>>

(* The escape byte is the last one: the type is still to come. *)
LoneEscapeLost ==  \* seeded bug: trimmed one byte too far
  /\ Start > 0 /\ Start = Len(buf)
  /\ buf' = <<>>
  /\ busy' = FALSE
  /\ UNCHANGED <<stream, out>>
LoneEscape ==
  /\ Start > 0 /\ Start = Len(buf)
  /\ buf' = From(buf, Start)
  /\ busy' = FALSE
  /\ UNCHANGED <<stream, out>>

TypeAt(i) == i > 0 /\ i < Len(buf) /\ buf[i + 1] \in Types

UnknownType ==
  /\ Start > 0 /\ Start < Len(buf) /\ ~TypeAt(Start)
  /\ buf' = From(buf, Start + 2)
  /\ UNCHANGED <<busy, stream, out>>

WholeFrame ==
  /\ TypeAt(Start)
  /\ LET b == From(buf, Start)
         end == FrameEnd(b)
     IN /\ end.is = "whole"
        /\ out' = Append(out, UpTo(b, end.at - 1))
        /\ buf' = From(b, end.at)
  /\ UNCHANGED <<busy, stream>>

NeedsMoreUntrimmed ==  \* seeded bug: what precedes the frame is kept with it
  /\ TypeAt(Start)
  /\ FrameEnd(From(buf, Start)).is = "more"
  /\ busy' = FALSE
  /\ UNCHANGED <<buf, stream, out>>
NeedsMore ==
  /\ TypeAt(Start)
  /\ FrameEnd(From(buf, Start)).is = "more"
  /\ buf' = From(buf, Start)
  /\ busy' = FALSE
  /\ UNCHANGED <<stream, out>>

Truncated ==
  /\ TypeAt(Start)
  /\ LET b == From(buf, Start)
         end == FrameEnd(b)
     IN /\ end.is = "cut"
        /\ buf' = From(b, end.at)
  /\ UNCHANGED <<busy, stream, out>>

NextFrame ==
  /\ busy
  /\ NoEscape \/ LoneEscape \/ UnknownType \/ WholeFrame \/ NeedsMore \/ Truncated

Pieces == UNION {[1..n -> Bytes] : n \in 1..MaxPiece}

Next ==
  \/ \E piece \in Pieces : Len(stream) + Len(piece) <= MaxStream /\ Push(piece)
  \/ NextFrame

Spec == Init /\ [][Next]_vars

-----------------------------------------------------------------------------
(* The readers of a frame.  parse_receiver_id takes a byte and skips the   *)
(* escape that doubles it, unescape_payload skips an escape and takes what *)
(* follows; both stop at the end of the frame.                             *)
Unread == [at |-> 3, got |-> <<>>]

IdByte(frame, r) ==
  IF r.at > Len(frame) THEN r
  ELSE [at |-> IF frame[r.at] = Esc THEN r.at + 2 ELSE r.at + 1,
        got |-> Append(r.got, frame[r.at])]
IdRead(frame) ==
  LET read[k \in Nat] == IF k = 0 THEN Unread ELSE IdByte(frame, read[k - 1])
  IN read
UnescapedAsIs(frame) == From(frame, 3)  \* seeded bug: doubled escapes are kept
Unescaped(frame) == IdRead(frame)[BodyLen[frame[2]]].got

MessageByte(frame, r, count) ==
  LET i == IF r.at <= Len(frame) /\ frame[r.at] = Esc THEN r.at + 1 ELSE r.at
  IN IF i > Len(frame) THEN r
     ELSE [at |-> i + 1, got |-> IF count > Header THEN Append(r.got, frame[i]) ELSE r.got]
MessageRead(frame) ==
  LET read[k \in Nat] == IF k = 0 THEN Unread ELSE MessageByte(frame, read[k - 1], k)
  IN read
Payload(frame) == MessageRead(frame)[BodyLen[frame[2]]].got

(* The writer of a frame: encode_e3_prefix. *)
Doubled(byte) == IF byte = Esc THEN <<Esc, Esc>> ELSE <<byte>>
Encoded(t, body) ==
  LET encoded[k \in 0..Len(body)] ==
        IF k = 0 THEN <<Esc, t>> ELSE encoded[k - 1] \o Doubled(body[k])
  IN encoded
Encode(t, body) == Encoded(t, body)[Len(body)]

(* The writer of a frame that doubles nothing: sdr_reader.rs.              *)
AsIs(t, body) == <<Esc, t>> \o body

-----------------------------------------------------------------------------
(* A reference: the frames of a stream, from the encoder and the whole     *)
(* stream.  Where no whole frame starts, the scan goes on after the escape *)
(* and its type, but not into a raw body that is still arriving.           *)
Bodies(t) == [1..BodyLen[t] -> Bytes]
EscapedFrames == UNION {{Encode(t, body) : body \in Bodies(t)} : t \in Types \ Raw}
RawFrames == UNION {{<<Esc, t>> \o body : body \in Bodies(t)} : t \in Raw}
AllFrames == EscapedFrames \cup RawFrames

FramesAt(s, i) == {f \in AllFrames : IsPrefix(f, From(s, i))}
Scan(s) ==
  LET scan[i \in 1..(Len(s) + 2)] ==
        IF i > Len(s) THEN <<>>
        ELSE IF s[i] # Esc THEN scan[i + 1]
        ELSE IF FramesAt(s, i) # {}
             THEN LET f == CHOOSE f \in FramesAt(s, i) : TRUE
                  IN <<f>> \o scan[i + Len(f)]
        ELSE IF i < Len(s) /\ s[i + 1] \in Raw THEN <<>>
        ELSE scan[i + 2]
  IN scan
Reference(s) == Scan(s)[1]

-----------------------------------------------------------------------------
(* However TCP cuts the stream into reads, and however junk, truncated     *)
(* frames and escapes fall on the cuts, the frames are those of the stream *)
(* as a whole.                                                             *)
ChunksDoNotMatter == ~busy => out = Reference(stream)

(* The readers agree with the encoder on every frame that is returned:     *)
(* unescaping gives a body of the right length, which encodes to the same  *)
(* frame, and a message is the body without its header (client.rs:70 and   *)
(* :90, ingest.rs:183).                                                    *)
DecodesBack ==
  \A i \in DOMAIN out :
    out[i][2] \notin Raw =>
      /\ Len(Unescaped(out[i])) = BodyLen[out[i][2]]
      /\ Encode(out[i][2], Unescaped(out[i])) = out[i]
      /\ out[i][2] \in Messages => Payload(out[i]) = From(Unescaped(out[i]), Header + 1)

(* A truncated frame costs nothing but itself: a whole frame is returned   *)
(* as soon as its last byte is there, whatever junk and truncated frames   *)
(* came before it, unless they end in half an escape or in a raw body.     *)
EndsInEscape(s) == \E k \in DOMAIN s :
  /\ \A i \in k..Len(s) : s[i] = Esc
  /\ k = 1 \/ s[k - 1] # Esc
  /\ (Len(s) - k) % 2 = 0
ResyncsAtNextFrame ==
  ~busy => \A f \in AllFrames :
    LET before == UpTo(stream, Len(stream) - Len(f))
    IN (/\ IsSuffix(f, stream)
        /\ ~EndsInEscape(before)
        /\ \A i \in DOMAIN before \ {1} : before[i - 1] = Esc => before[i] \notin Raw) =>
       out # <<>> /\ Last(out) = f

(* Between reads the buffer holds junk without an escape, or the start of  *)
(* one frame and nothing before it: less than the longest frame.           *)
OnlyAStartIsKept ==
  (~busy /\ \E i \in DOMAIN buf : buf[i] = Esc) =>
    \E f \in AllFrames : IsPrefix(buf, f) /\ buf # f

(* A frame is found, and the start of the next one after it.               *)
Framed(f, following) ==
  FrameEnd(f \o <<Esc, following>>) = [is |-> "whole", at |-> Len(f) + 1]

(* A frame sent as it is is found if there is no escape byte in its body.  *)
PlainArrives(t, body, following) ==
  (t \notin Raw /\ \A i \in DOMAIN body : body[i] # Esc) => Framed(AsIs(t, body), following)
=============================================================================

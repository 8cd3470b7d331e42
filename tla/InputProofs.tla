---------------------------- MODULE InputProofs -----------------------------
(***************************************************************************)
(* Proofs about the checksum of ModeS and what follows from it: whatever   *)
(* the addresses of the aircraft are, a bit error never gives one aircraft *)
(* the checked fields of another; and every squitter is repaired.          *)
(*                                                                         *)
(* What the generator does is a finite table without parameters, which     *)
(* CodeAssumption has TLC go through; the rest holds for every message.    *)
(*                                                                         *)
(* And that the decoders and encoders of Fields agree with the layouts of  *)
(* the fields on every code, and that the box of a query is an arc at      *)
(* every resolution of longitude.  The arithmetic is on quotients and      *)
(* remainders by constants; each lemma names the digits of a code.         *)
(*                                                                         *)
(* And that frames arrive: those that are sent as they are if they hold no *)
(* escape, compact ones always, by induction over what they are fed; what  *)
(* BeastFramerProofs shows of the framer holds of the whole way in.        *)
(***************************************************************************)
EXTENDS Input, BeastFramerProofs

Lengths == {56, 112}
Index(n) == 0..(n - 1)

LEMMA Indices == Index(112) = 0..111
PROOF
  BY DEF Index

(* The syndromes of both lengths are those of the longer one.              *)
LEMMA SyndromeOf ==
  \A n \in Lengths : \A b \in Index(n) :
    Syndrome(n, b) = Syndrome(112, b + (112 - n)) /\ b + (112 - n) \in 0..111
PROOF
  <1>1. \A b : Syndrome(56, b) = Powers[56 - b] /\ Syndrome(112, b) = Powers[112 - b]
    BY DEF Syndrome
  <1>2. ASSUME NEW b \in Index(112)
        PROVE  Syndrome(112, b) = Syndrome(112, b + (112 - 112)) /\ b + (112 - 112) \in 0..111
    <2>1. b + (112 - 112) = b /\ b \in 0..111
      BY DEF Index
    <2> QED
      BY <2>1
  <1>3. ASSUME NEW b \in Index(56)
        PROVE  Syndrome(56, b) = Syndrome(112, b + (112 - 56)) /\ b + (112 - 56) \in 0..111
    <2>1. 112 - (b + (112 - 56)) = 56 - b /\ b + (112 - 56) \in 0..111
      BY DEF Index
    <2> QED
      BY <1>1, <2>1
  <1> QED
    BY <1>2, <1>3 DEF Lengths

LEMMA SyndromeFacts ==
  \A n \in Lengths : \A b, c \in Index(n) :
    /\ Syndrome(n, b) \subseteq 0..23 /\ Syndrome(n, b) # {}
    /\ b # c => /\ Syndrome(n, b) # Syndrome(n, c)
                /\ SymDiff(Syndrome(n, b), Syndrome(n, c)) \notin {Syndrome(112, e) : e \in 0..111}
PROOF
  <1> SUFFICES ASSUME NEW n \in Lengths, NEW b \in Index(n), NEW c \in Index(n)
               PROVE  /\ Syndrome(n, b) \subseteq 0..23 /\ Syndrome(n, b) # {}
                      /\ b # c => /\ Syndrome(n, b) # Syndrome(n, c)
                                  /\ SymDiff(Syndrome(n, b), Syndrome(n, c))
                                       \notin {Syndrome(112, e) : e \in 0..111}
    OBVIOUS
  <1>1. PICK i \in 0..111 : i = b + (112 - n) /\ Syndrome(n, b) = Syndrome(112, i)
    BY SyndromeOf
  <1>2. PICK j \in 0..111 : j = c + (112 - n) /\ Syndrome(n, c) = Syndrome(112, j)
    BY SyndromeOf
  <1>3. b # c => i # j
    <2>1. n \in Int /\ b \in Int /\ c \in Int
      BY DEF Lengths, Index
    <2> QED
      BY <1>1, <1>2, <2>1
  <1>4. \A s \in {Syndrome(112, e) : e \in 0..111} : s \subseteq 0..23 /\ s # {}
    BY CodeAssumption, ZenonT(60)
  <1>5. i # j => /\ Syndrome(112, i) # Syndrome(112, j)
                 /\ SymDiff(Syndrome(112, i), Syndrome(112, j))
                      \notin {Syndrome(112, e) : e \in 0..111}
    BY CodeAssumption, ZenonT(60)
  <1> QED
    BY <1>1, <1>2, <1>3, <1>4, <1>5

(* The sum of no syndrome, of one and of two.                              *)
Odd(n) == n % 2 = 1
LEMMA OddSmall == ~Odd(0) /\ Odd(1) /\ ~Odd(2)
PROOF
  BY DEF Odd

Hits(n, errors, d) == {b \in errors : d \in Syndrome(n, b)}
LEMMA InSum ==
  \A n, errors, d :
    d \in SyndromeSum(n, errors) <=> d \in 0..23 /\ Odd(Cardinality(Hits(n, errors, d)))
PROOF
  BY DEF SyndromeSum, Odd, Hits

LEMMA SumNone == \A n : SyndromeSum(n, {}) = {}
PROOF
  <1>1. ASSUME NEW n, NEW d
        PROVE  d \notin SyndromeSum(n, {})
    <2>1. Hits(n, {}, d) = {}
      BY DEF Hits
    <2>2. Cardinality(Hits(n, {}, d)) = 0
      BY <2>1, FS_EmptySet
    <2> QED
      BY <2>2, InSum, OddSmall
  <1> QED
    BY <1>1

LEMMA SumOne == \A n \in Lengths : \A b \in Index(n) : SyndromeSum(n, {b}) = Syndrome(n, b)
PROOF
  <1> SUFFICES ASSUME NEW n \in Lengths, NEW b \in Index(n)
               PROVE  SyndromeSum(n, {b}) = Syndrome(n, b)
    OBVIOUS
  <1>1. Syndrome(n, b) \subseteq 0..23
    BY SyndromeFacts
  <1>2. ASSUME NEW d \in Syndrome(n, b)
        PROVE  d \in SyndromeSum(n, {b})
    <2>1. Hits(n, {b}, d) = {b}
      BY <1>2 DEF Hits
    <2>2. Cardinality(Hits(n, {b}, d)) = 1
      BY <2>1, FS_Singleton
    <2> QED
      BY <1>1, <2>2, InSum, OddSmall
  <1>3. ASSUME NEW d, d \notin Syndrome(n, b)
        PROVE  d \notin SyndromeSum(n, {b})
    <2>1. Hits(n, {b}, d) = {}
      BY <1>3 DEF Hits
    <2>2. Cardinality(Hits(n, {b}, d)) = 0
      BY <2>1, FS_EmptySet
    <2> QED
      BY <2>2, InSum, OddSmall
  <1> QED
    BY <1>2, <1>3

LEMMA SumTwo ==
  \A n \in Lengths : \A b, c \in Index(n) :
    b # c => SyndromeSum(n, {b, c}) = SymDiff(Syndrome(n, b), Syndrome(n, c))
PROOF
  <1> SUFFICES ASSUME NEW n \in Lengths, NEW b \in Index(n), NEW c \in Index(n), b # c,
                      NEW d
               PROVE  d \in SyndromeSum(n, {b, c})
                        <=> d \in SymDiff(Syndrome(n, b), Syndrome(n, c))
    OBVIOUS
  <1>1. Syndrome(n, b) \subseteq 0..23 /\ Syndrome(n, c) \subseteq 0..23
    BY SyndromeFacts
  <1>2. CASE d \in Syndrome(n, b) /\ d \in Syndrome(n, c)
    <2>1. Hits(n, {b, c}, d) = {b} \cup {c}
      BY <1>2 DEF Hits
    <2>2. IsFiniteSet({b}) /\ Cardinality({b}) = 1 /\ c \notin {b}
      BY FS_Singleton
    <2>3. Cardinality({b} \cup {c}) = Cardinality({b}) + 1
      BY <2>2, FS_AddElement
    <2>4. Cardinality(Hits(n, {b, c}, d)) = 2
      BY <2>1, <2>2, <2>3
    <2> QED
      BY <1>2, <2>4, InSum, OddSmall DEF SymDiff
  <1>3. CASE d \in Syndrome(n, b) /\ d \notin Syndrome(n, c)
    <2>1. Hits(n, {b, c}, d) = {b}
      BY <1>3 DEF Hits
    <2>2. Cardinality(Hits(n, {b, c}, d)) = 1
      BY <2>1, FS_Singleton
    <2> QED
      BY <1>1, <1>3, <2>2, InSum, OddSmall DEF SymDiff
  <1>4. CASE d \notin Syndrome(n, b) /\ d \in Syndrome(n, c)
    <2>1. Hits(n, {b, c}, d) = {c}
      BY <1>4 DEF Hits
    <2>2. Cardinality(Hits(n, {b, c}, d)) = 1
      BY <2>1, FS_Singleton
    <2> QED
      BY <1>1, <1>4, <2>2, InSum, OddSmall DEF SymDiff
  <1>5. CASE d \notin Syndrome(n, b) /\ d \notin Syndrome(n, c)
    <2>1. Hits(n, {b, c}, d) = {}
      BY <1>5 DEF Hits
    <2>2. Cardinality(Hits(n, {b, c}, d)) = 0
      BY <2>1, FS_EmptySet
    <2> QED
      BY <1>5, <2>2, InSum, OddSmall DEF SymDiff
  <1> QED
    BY <1>2, <1>3, <1>4, <1>5

-----------------------------------------------------------------------------
(* What DF 17 and 18 give: with at most one error, only the message that   *)
(* was sent.  A reply whose format is hit is given up for its address.     *)
LEMMA OneErrorLeft ==
  ASSUME NEW m \in Sent, NEW errors \in Errors(m), Bits(m) = 112,
         NEW flip \in (IF Checksum(m, errors) = {} THEN {{}}
                       ELSE {{b} : b \in Repairs(Checksum(m, errors))})
  PROVE  Squitter(m) /\ SymDiff(errors, flip) = {}
PROOF
  <1>1. m.from \in Real /\ m.df \in {0, 4, 5, 11, 16, 17, 18, 20, 21}
    BY SentAssumption
  <1>2. errors = {} \/ \E b \in 0..111 : errors = {b}
    BY DEF Errors
  <1>3. SyndromeSum(112, errors) \in OneBit
    <2>1. CASE errors = {}
      BY <2>1, SumNone DEF OneBit
    <2>2. CASE \E b \in 0..111 : errors = {b}
      BY <2>2, SumOne, Indices DEF OneBit, Lengths
    <2> QED
      BY <1>2, <2>1, <2>2
  <1>4. CASE ~Squitter(m)
    <2>1. Checksum(m, errors) = SymDiff(m.from, SyndromeSum(112, errors))
      BY <1>4 DEF Checksum
    <2>2. Checksum(m, errors) \notin OneBit
      <3>1. ASSUME NEW s \in OneBit, Checksum(m, errors) = s
            PROVE  m.from = SymDiff(s, SyndromeSum(112, errors))
        BY <2>1, <3>1 DEF SymDiff
      <3> QED
        BY <1>1, <1>3, <3>1, AddressAssumption
    <2>3. Checksum(m, errors) # {} /\ Repairs(Checksum(m, errors)) = {}
      BY <2>2 DEF OneBit, Repairs
    <2> QED
      BY <2>3
  <1>5. CASE Squitter(m)
    <2>1. Checksum(m, errors) = SyndromeSum(112, errors)
      BY <1>5 DEF Checksum, SymDiff
    <2>2. CASE errors = {}
      BY <1>5, <2>1, <2>2, SumNone DEF SymDiff
    <2>3. CASE \E b \in 0..111 : errors = {b}
      <3>1. PICK b \in 0..111 : errors = {b}
        BY <2>3
      <3>2. Checksum(m, errors) = Syndrome(112, b)
        BY <2>1, <3>1, SumOne, Indices DEF Lengths
      <3>3. Syndrome(112, b) # {}
        BY SyndromeFacts, Indices DEF Lengths
      <3>4. Repairs(Checksum(m, errors)) = {b}
        BY <3>2, SyndromeFacts, Indices DEF Repairs, Lengths
      <3>5. flip = {b}
        BY <3>2, <3>3, <3>4
      <3> QED
        BY <1>5, <3>1, <3>5 DEF SymDiff
    <2> QED
      BY <1>2, <2>2, <2>3
  <1> QED
    BY <1>4, <1>5

LEMMA OwnFields ==
  ASSUME NEW d \in Received, NEW f \in Merged(d) \ {"altitude", "squawk"}
  PROVE  d.from = d.icao
PROOF
  <1>0. PICK m \in Sent : \E errors \in Errors(m) : d \in Decode(m, errors)
    BY DEF Received
  <1>1. PICK errors \in Errors(m) : d \in Decode(m, errors)
    BY <1>0
  <1>2. d.kind = "adsb"
    <2>1. d.kind \in {"df11", "reply", "adsb"}
      BY <1>1 DEF Decode, DecodeShortLong, DecodeDf17, Message
    <2> QED
      BY <2>1 DEF Merged
  <1>3. d \in DecodeDf17(m, errors)
    <2>1. \A df : d \notin DecodeShortLong(m, errors, df)
      BY <1>2 DEF DecodeShortLong, Message
    <2> QED
      BY <1>1, <2>1 DEF Decode
  <1>4. Bits(m) = 112
    BY <1>3 DEF DecodeDf17, Bits
  <1>5. PICK flip \in (IF Checksum(m, errors) = {} THEN {{}}
                       ELSE {{b} : b \in Repairs(Checksum(m, errors))}) :
          d \in Message(m, "adsb", AddressField(m, SymDiff(errors, flip)),
                        IF SymDiff(errors, flip) = {} THEN SquitterFields(m) ELSE FieldNames)
    BY <1>3 DEF DecodeDf17
  <1>6. Squitter(m) /\ SymDiff(errors, flip) = {}
    BY <1>4, OneErrorLeft
  <1>7. AddressField(m, SymDiff(errors, flip)) = {m.from}
    <2>1. {31 - b : b \in {} \cap 8..31} = {}
      OBVIOUS
    <2>2. AddressField(m, {}) = {SymDiff(m.from, {31 - b : b \in {} \cap 8..31})}
      BY <1>6 DEF AddressField
    <2> QED
      BY <1>6, <2>1, <2>2 DEF SymDiff
  <1>8. d.icao = Named(m.from) /\ d.from = m.from
    BY <1>5, <1>7 DEF Message
  <1> QED
    BY <1>8, SentAssumption DEF Named

(* A bit error never gives an aircraft what another has sent, but for the  *)
(* altitude and the squawk of a reply, whatever addresses the aircraft     *)
(* have, as long as none of them looks like a damaged one or none          *)
(* (crc.rs:36-50, mode_s.rs:62-87, aircraft.rs:136-148).                   *)
THEOREM FieldsOwn == InputSpec => []FieldsAreOwn
PROOF
  <1>1. InputInit => FieldsAreOwn
    BY DEF InputInit, TrackInit, FieldsAreOwn, Unknown
  <1>2. ASSUME FieldsAreOwn, [InputNext]_inputVars
        PROVE  FieldsAreOwn'
    <2>1. CASE Update
      <3>1. PICK d \in Received :
              /\ d.icao = watched /\ watched' = watched
              /\ track' = [f \in FieldNames |-> IF f \in Merged(d) THEN d.from ELSE track[f]]
        BY <2>1 DEF Update
      <3> SUFFICES ASSUME NEW f \in FieldNames \ {"altitude", "squawk"}
                   PROVE  track'[f] \in {Nobody, watched}
        BY <3>1 DEF FieldsAreOwn
      <3>2. CASE f \in Merged(d)
        BY <3>1, <3>2, OwnFields
      <3>3. CASE f \notin Merged(d)
        BY <1>2, <3>1, <3>3 DEF FieldsAreOwn
      <3> QED
        BY <3>2, <3>3
    <2>2. CASE Reap
      BY <2>2 DEF Reap, FieldsAreOwn, Unknown
    <2>3. CASE UNCHANGED trackVars
      BY <1>2, <2>3 DEF trackVars, FieldsAreOwn
    <2> QED
      BY <1>2, <2>1, <2>2, <2>3 DEF InputNext, TrackNext, inputVars
  <1> QED
    BY <1>1, <1>2, PTL DEF InputSpec

-----------------------------------------------------------------------------
(* The format of a message whose format field is not hit.                  *)
LEMMA FormatBits ==
  ASSUME NEW x \in 0..31, NEW y \in 0..31, \A b \in 0..4 : FormatBit(x, b) = FormatBit(y, b)
  PROVE  x = y
PROOF
  <1>1. /\ FormatBit(x, 0) = FormatBit(y, 0) /\ FormatBit(x, 1) = FormatBit(y, 1)
        /\ FormatBit(x, 2) = FormatBit(y, 2) /\ FormatBit(x, 3) = FormatBit(y, 3)
        /\ FormatBit(x, 4) = FormatBit(y, 4)
    OBVIOUS
  <1>2. \A z : /\ FormatBit(z, 0) = (z \div 16) % 2 /\ FormatBit(z, 1) = (z \div 8) % 2
               /\ FormatBit(z, 2) = (z \div 4) % 2 /\ FormatBit(z, 3) = (z \div 2) % 2
               /\ FormatBit(z, 4) = (z \div 1) % 2
    BY DEF FormatBit
  <1> QED
    BY <1>1, <1>2, SMTT(30)

LEMMA FormatKept ==
  ASSUME NEW m \in Sent, NEW errors, errors \cap 0..4 = {}
  PROVE  ReceivedDf(m, errors) = m.df
PROOF
  <1>1. m.df \in 0..31
    BY SentAssumption
  <1>2. \A b \in 0..4 : b \in errors <=> FormatBit(m.df, b) # FormatBit(m.df, b)
    OBVIOUS
  <1>3. ReceivedDf(m, errors) \in 0..31 /\ \A b \in 0..4 :
          b \in errors <=> FormatBit(ReceivedDf(m, errors), b) # FormatBit(m.df, b)
    BY <1>1, <1>2 DEF ReceivedDf
  <1> QED
    BY <1>1, <1>3, FormatBits

(* The checksum tells how many errors there are, up to two.                *)
Two(m, b, c) ==
  /\ Checksum(m, {b, c}) # {}
  /\ Checksum(m, {b, c}) \notin {Syndrome(112, e) : e \in 0..111}
LEMMA ErrorsTell ==
  \A m \in Sent : Squitter(m) =>
    /\ Checksum(m, {}) = {}
    /\ \A b \in Index(Bits(m)) :
         /\ Checksum(m, {b}) = Syndrome(Bits(m), b) /\ Checksum(m, {b}) # {}
         /\ \A c \in Index(Bits(m)) : b # c => Two(m, b, c)
PROOF
  <1> SUFFICES ASSUME NEW m \in Sent, Squitter(m)
               PROVE  /\ Checksum(m, {}) = {}
                      /\ \A b \in Index(Bits(m)) :
                           /\ Checksum(m, {b}) = Syndrome(Bits(m), b) /\ Checksum(m, {b}) # {}
                           /\ \A c \in Index(Bits(m)) : b # c => Two(m, b, c)
    OBVIOUS
  <1>1. Bits(m) \in Lengths
    BY DEF Bits, Lengths
  <1>2. \A errors : Checksum(m, errors) = SyndromeSum(Bits(m), errors)
    BY DEF Checksum, SymDiff
  <1>3. Checksum(m, {}) = {}
    BY <1>2, SumNone
  <1>4. ASSUME NEW b \in Index(Bits(m))
        PROVE  Checksum(m, {b}) = Syndrome(Bits(m), b) /\ Checksum(m, {b}) # {}
    BY <1>1, <1>2, SumOne, SyndromeFacts
  <1>5. ASSUME NEW b \in Index(Bits(m)), NEW c \in Index(Bits(m)), b # c
        PROVE  Two(m, b, c)
    <2>1. Checksum(m, {b, c}) = SymDiff(Syndrome(Bits(m), b), Syndrome(Bits(m), c))
      BY <1>1, <1>2, <1>5, SumTwo
    <2>2. /\ Syndrome(Bits(m), b) # Syndrome(Bits(m), c)
          /\ SymDiff(Syndrome(Bits(m), b), Syndrome(Bits(m), c))
               \notin {Syndrome(112, e) : e \in 0..111}
      BY <1>1, <1>5, SyndromeFacts
    <2>3. SymDiff(Syndrome(Bits(m), b), Syndrome(Bits(m), c)) # {}
      BY <2>2 DEF SymDiff
    <2> QED
      BY <2>1, <2>2, <2>3 DEF Two
  <1> QED
    BY <1>3, <1>4, <1>5

(* What is decoded when a repair leaves no error, or when there is none.   *)
Flips(m, errors) ==
  IF Checksum(m, errors) = {} THEN {{}} ELSE {{b} : b \in Repairs(Checksum(m, errors))}
Left(m, errors, flip) ==
  Message(m, "adsb", AddressField(m, SymDiff(errors, flip)),
          IF SymDiff(errors, flip) = {} THEN SquitterFields(m) ELSE FieldNames)
LEMMA OneFlip ==
  ASSUME NEW m, Bits(m) = 112, NEW errors, Flips(m, errors) = {errors}
  PROVE  DecodeDf17(m, errors) = Left(m, {}, {})
PROOF
  <1>1. SymDiff(errors, errors) = {} /\ SymDiff({}, {}) = {}
    BY DEF SymDiff
  <1>2. Left(m, errors, errors) = Left(m, {}, {})
    BY <1>1 DEF Left
  <1>3. DecodeDf17(m, errors) = UNION {Left(m, errors, flip) : flip \in Flips(m, errors)}
    BY DEF DecodeDf17, Left, Flips
  <1>4. {Left(m, errors, flip) : flip \in Flips(m, errors)} = {Left(m, errors, errors)}
    OBVIOUS
  <1>5. \A S : UNION {S} = S
    OBVIOUS
  <1> QED
    BY <1>2, <1>3, <1>4, <1>5

LEMMA NoFlip ==
  ASSUME NEW m, NEW errors, Flips(m, errors) = {}
  PROVE  DecodeDf17(m, errors) = {}
PROOF
  BY DEF DecodeDf17, Flips

LEMMA Repaired ==
  ASSUME NEW m \in Sent, m.df \in {17, 18}
  PROVE  \A b \in Index(112) :
           /\ DecodeDf17(m, {b}) = DecodeDf17(m, {})
           /\ \A c \in Index(112) : b # c => DecodeDf17(m, {b, c}) = {}
PROOF
  <1>1. Squitter(m) /\ Bits(m) = 112
    BY DEF Squitter, Bits
  <1>2. DecodeDf17(m, {}) = Left(m, {}, {})
    <2>1. Flips(m, {}) = {{}}
      BY <1>1, ErrorsTell DEF Flips
    <2> QED
      BY <1>1, <2>1, OneFlip
  <1>3. ASSUME NEW b \in Index(112)
        PROVE  DecodeDf17(m, {b}) = Left(m, {}, {})
    <2>1. Checksum(m, {b}) = Syndrome(112, b) /\ Checksum(m, {b}) # {}
      BY <1>1, ErrorsTell
    <2>2. Repairs(Checksum(m, {b})) = {b}
      BY <2>1, SyndromeFacts, Indices DEF Repairs, Lengths
    <2>3. Flips(m, {b}) = {{b}}
      BY <2>1, <2>2 DEF Flips
    <2> QED
      BY <1>1, <2>3, OneFlip
  <1>4. ASSUME NEW b \in Index(112), NEW c \in Index(112), b # c
        PROVE  DecodeDf17(m, {b, c}) = {}
    <2>1. Two(m, b, c)
      BY <1>1, <1>4, ErrorsTell
    <2>2. Repairs(Checksum(m, {b, c})) = {}
      BY <2>1 DEF Two, Repairs
    <2>3. Flips(m, {b, c}) = {}
      BY <2>1, <2>2 DEF Two, Flips
    <2> QED
      BY <2>3, NoFlip
  <1> QED
    BY <1>2, <1>3, <1>4

LEMMA AllCallRefused ==
  ASSUME NEW m \in Sent, m.df = 11, NEW errors, Checksum(m, errors) # {}
  PROVE  DecodeShortLong(m, errors, 11) = {}
PROOF
  BY DEF DecodeShortLong, Residual, Bits

(* What an assumption on the probes says of their errors.                  *)
AtMostTwo(m, errors) == \E b, c \in 0..(Bits(m) - 1) : errors \in {{}, {b}, {b, c}}

LEMMA Repair ==
  \A m \in Sent : \A errors : Squitter(m) /\ AtMostTwo(m, errors) => RepairedRight(m, errors)
PROOF
  <1> SUFFICES ASSUME NEW m \in Sent, NEW errors, Squitter(m), AtMostTwo(m, errors)
               PROVE  RepairedRight(m, errors)
    OBVIOUS
  <1> SUFFICES ASSUME errors # {}, errors \cap 0..4 = {}
               PROVE  Decode(m, errors) = IF Cardinality(errors) = 1 /\ m.df # 11
                                          THEN Decode(m, {}) ELSE {}
    <2>1. CASE errors = {}
      BY <2>1, Zenon DEF RepairedRight
    <2>2. CASE errors # {}
      BY <2>2, Zenon DEF RepairedRight
    <2> QED
      BY <2>1, <2>2
  <1>0. PICK b \in Index(Bits(m)), c \in Index(Bits(m)) : errors \in {{}, {b}, {b, c}}
    BY Zenon DEF AtMostTwo, Index
  <1>1. ReceivedDf(m, errors) = m.df /\ ReceivedDf(m, {}) = m.df
    BY FormatKept
  <1>2. Cardinality({b}) = 1 /\ (b # c => Cardinality({b, c}) # 1)
    <2>1. Cardinality({b}) = 1
      BY FS_Singleton
    <2>2. ASSUME b # c
          PROVE  Cardinality({b, c}) # 1
      <3>1. IsFiniteSet({b}) /\ c \notin {b} /\ {b, c} = {b} \cup {c}
        BY <2>2, FS_Singleton
      <3>2. Cardinality({b} \cup {c}) = Cardinality({b}) + 1
        BY <3>1, FS_AddElement
      <3> QED
        BY <2>1, <3>1, <3>2
    <2> QED
      BY <2>1, <2>2
  <1>3. errors = {b} \/ (errors = {b, c} /\ b # c)
    BY <1>0
  <1>4. CASE m.df = 11
    <2>1. Checksum(m, {b}) # {}
      BY ErrorsTell
    <2>2. b # c => Checksum(m, {b, c}) # {}
      BY ErrorsTell DEF Two
    <2>3. DecodeShortLong(m, errors, 11) = {}
      BY <1>3, <1>4, <2>1, <2>2, AllCallRefused
    <2>4. Decode(m, errors) = {}
      BY <1>1, <1>4, <2>3 DEF Decode
    <2> QED
      BY <1>4, <2>4
  <1>5. CASE m.df \in {17, 18}
    <2>1. b \in Index(112) /\ c \in Index(112)
      BY <1>5 DEF Bits
    <2>2. Decode(m, errors) = DecodeDf17(m, errors) /\ Decode(m, {}) = DecodeDf17(m, {})
      BY <1>1, <1>5 DEF Decode
    <2>3. /\ DecodeDf17(m, {b}) = DecodeDf17(m, {})
          /\ b # c => DecodeDf17(m, {b, c}) = {}
      BY <1>5, <2>1, Repaired
    <2>4. m.df # 11
      BY <1>5
    <2> QED
      BY <1>2, <1>3, <2>2, <2>3, <2>4
  <1> QED
    BY <1>4, <1>5 DEF Squitter

(* One wrong bit of any squitter of any aircraft is repaired and two are   *)
(* refused, wherever they are outside the format field (crc.rs:34-50,      *)
(* mode_s.rs:121-126).                                                     *)
THEOREM DamageRepaired == InputSpec => []DamageIsRepaired
PROOF
  <1> DEFINE Asked == probe \in Probes \cup {NoProbe}
  <1>1. InputInit => Asked
    BY DEF InputInit
  <1>2. Asked /\ [InputNext]_inputVars => Asked'
    BY DEF InputNext, inputVars
  <1>3. Asked => DamageIsRepaired
    <2> SUFFICES ASSUME probe \in Probes, probe.of = "damage"
                 PROVE  RepairedRight(probe.message, probe.errors)
      BY DEF DamageIsRepaired, NoProbe
    <2>1. PICK p \in Probes : p = probe
      OBVIOUS
    <2>2. p.message \in Sent /\ Squitter(p.message)
      BY <2>1, ProbeAssumption
    <2>3. AtMostTwo(p.message, p.errors)
      BY <2>1, ProbeAssumption DEF AtMostTwo
    <2> QED
      BY <2>1, <2>2, <2>3, Repair
  <1> QED
    BY <1>1, <1>2, <1>3, PTL DEF InputSpec

-----------------------------------------------------------------------------
(* The remainders of what is less than a turn away from the range.         *)
LEMMA Remainders ==
  \A turn \in Nat \ {0}, x \in Int :
    /\ 0 <= x /\ x < turn => x % turn = x
    /\ turn <= x /\ x < 2 * turn => x % turn = x - turn
    /\ -turn <= x /\ x < 0 => x % turn = x + turn
PROOF
  BY SMT

(* A code is its digits: what the layouts put together the shifts take     *)
(* apart again.                                                            *)
Code(h, m, l) == 32 * h + 16 * m + l
Split(n) == \E h \in 0..63, m \in 0..1, l \in 0..15 : n = Code(h, m, l)

LEMMA SplitAltitude == \A n \in AltitudeCodes : Split(n)
PROOF
  <1> SUFFICES ASSUME NEW n \in AltitudeCodes PROVE Split(n)
    OBVIOUS
  <1> DEFINE q == n \div 16
             h == q \div 2
             m == q % 2
             l == n % 16
  <1>1. q \in 0..127 /\ n = 16 * q + l /\ l \in 0..15
    BY SMT DEF AltitudeCodes
  <1>2. q \in 0..127 => q = 2 * h + m /\ h \in 0..63 /\ m \in 0..1
    <2> HIDE DEF q
    <2> QED
      OBVIOUS
  <1> HIDE DEF q, h, m, l
  <1>3. n = Code(h, m, l)
    BY <1>1, <1>2 DEF Code
  <1> QED
    BY <1>1, <1>2, <1>3 DEF Split

(* The masks of the shifts.                                                *)
LEMMA Masks ==
  \A c \in Nat :
    /\ BitsOf(c, 3, 0) = c % 16 /\ BitsOf(c, 4, 4) = (c \div 16) % 2
    /\ BitsOf(c, 5, 5) = (c \div 32) % 2 /\ BitsOf(c, 6, 6) = (c \div 64) % 2
    /\ BitsOf(c, 11, 5) = (c \div 32) % 128 /\ BitsOf(c, 12, 7) = (c \div 128) % 64
PROOF
  <1> TAKE c \in Nat
  <1>1. /\ 2 ^ 0 = 1 /\ 2 ^ 1 = 2 /\ 2 ^ 4 = 16 /\ 2 ^ 5 = 32 /\ 2 ^ 6 = 64 /\ 2 ^ 7 = 128
    OBVIOUS
  <1>2. 3 - 0 + 1 = 4 /\ 4 - 4 + 1 = 1 /\ 5 - 5 + 1 = 1 /\ 6 - 6 + 1 = 1
    OBVIOUS
  <1>3. 11 - 5 + 1 = 7 /\ 12 - 7 + 1 = 6 /\ c \div 1 = c
    OBVIOUS
  <1> QED
    BY <1>1, <1>2, <1>3, ZenonT(60) DEF BitsOf

LEMMA Altitude12 ==
  \A h \in 0..63, m \in 0..1, l \in 0..15 :
    DecodeAc12(EncodeAc12(Code(h, m, l))) = Feet(Code(h, m, l))
PROOF
  <1> SUFFICES ASSUME NEW h \in 0..63, NEW m \in 0..1, NEW l \in 0..15
               PROVE  DecodeAc12(EncodeAc12(Code(h, m, l))) = Feet(Code(h, m, l))
    OBVIOUS
  <1> DEFINE n == 32 * h + 16 * m + l
             c == 64 * h + 32 * m + 16 + l
  <1>1. n \div 16 = 2 * h + m /\ n % 16 = l
    OBVIOUS
  <1>2. EncodeAc12(n) = c
    BY <1>1 DEF EncodeAc12
  <1>3. BitsOf(c, 4, 4) = 1 /\ BitsOf(c, 11, 5) = 2 * h + m /\ BitsOf(c, 3, 0) = l
    <2>1. c \div 16 = 2 * (2 * h + m) + 1
      OBVIOUS
    <2>2. c \div 32 = 2 * h + m
      OBVIOUS
    <2>3. c % 16 = l
      OBVIOUS
    <2>4. c \in Nat
      OBVIOUS
    <2>5. (2 * (2 * h + m) + 1) % 2 = 1 /\ (2 * h + m) % 128 = 2 * h + m
      OBVIOUS
    <2> HIDE DEF c
    <2>6. /\ BitsOf(c, 4, 4) = (c \div 16) % 2 /\ BitsOf(c, 11, 5) = (c \div 32) % 128
          /\ BitsOf(c, 3, 0) = c % 16
      BY <2>4, Masks, ZenonT(60)
    <2> QED
      BY <2>1, <2>2, <2>3, <2>5, <2>6, SMT
  <1>4. (2 * h + m) * 16 + l = n
    OBVIOUS
  <1> HIDE DEF c, n
  <1> QED
    BY <1>2, <1>3, <1>4, Zenon DEF DecodeAc12, n, Code

LEMMA Altitude13 ==
  \A h \in 0..63, m \in 0..1, l \in 0..15 :
    DecodeAc13(EncodeAc13(Code(h, m, l))) = Feet(Code(h, m, l))
PROOF
  <1> SUFFICES ASSUME NEW h \in 0..63, NEW m \in 0..1, NEW l \in 0..15
               PROVE  DecodeAc13(EncodeAc13(Code(h, m, l))) = Feet(Code(h, m, l))
    OBVIOUS
  <1> DEFINE n == 32 * h + 16 * m + l
             c == 128 * h + 32 * m + 16 + l
  <1>1. n \div 32 = h /\ (n \div 16) % 2 = m /\ n % 16 = l
    <2>1. n \div 32 = h /\ n \div 16 = 2 * h + m /\ n % 16 = l
      OBVIOUS
    <2>2. (2 * h + m) % 2 = m
      OBVIOUS
    <2> QED
      BY <2>1, <2>2
  <1>2. EncodeAc13(n) = c
    BY <1>1 DEF EncodeAc13
  <1>3. /\ BitsOf(c, 6, 6) = 0 /\ BitsOf(c, 4, 4) = 1 /\ BitsOf(c, 12, 7) = h
        /\ BitsOf(c, 5, 5) = m /\ BitsOf(c, 3, 0) = l
    <2>1. c \div 16 = 2 * (4 * h + m) + 1 /\ c \div 32 = 4 * h + m /\ c \div 64 = 2 * h
      OBVIOUS
    <2>2. c \div 128 = h /\ c % 16 = l
      OBVIOUS
    <2>3. (4 * h + m) % 2 = m /\ (2 * (4 * h + m) + 1) % 2 = 1 /\ (2 * h) % 2 = 0 /\ h % 64 = h
      OBVIOUS
    <2>4. c \in Nat
      OBVIOUS
    <2> HIDE DEF c
    <2>5. /\ BitsOf(c, 6, 6) = (c \div 64) % 2 /\ BitsOf(c, 4, 4) = (c \div 16) % 2
          /\ BitsOf(c, 12, 7) = (c \div 128) % 64 /\ BitsOf(c, 5, 5) = (c \div 32) % 2
          /\ BitsOf(c, 3, 0) = c % 16
      BY <2>4, Masks, ZenonT(60)
    <2> QED
      BY <2>1, <2>2, <2>3, <2>5, SMT
  <1>4. h * 32 + m * 16 + l = n
    OBVIOUS
  <1> HIDE DEF c, n
  <1> QED
    BY <1>2, <1>3, <1>4, Zenon DEF DecodeAc13, n, Code

(* Both binary outputs give an altitude back.                              *)
LEMMA AltitudeOut ==
  \A n \in AltitudeCodes :
    25 * BincraftAltitude(Feet(n)) = Feet(n) /\ ReadWire(WireAltitude(Feet(n))) = Feet(n)
PROOF
  <1> SUFFICES ASSUME NEW n \in AltitudeCodes
               PROVE  /\ 25 * BincraftAltitude(Feet(n)) = Feet(n)
                      /\ ReadWire(WireAltitude(Feet(n))) = Feet(n)
    OBVIOUS
  <1>0. n \in Nat /\ n < 2048
    BY SMT DEF AltitudeCodes
  <1>1. (25 * n - 1000) \div 25 = n - 40
    BY <1>0, SMT
  <1>2. \A v \in -40..2007 : Saturated(v) = v
    BY SMT DEF Saturated
  <1>3. 25 * BincraftAltitude(Feet(n)) = Feet(n)
    <2>1. n - 40 \in -40..2007 /\ 25 * (n - 40) = 25 * n - 1000
      BY <1>0, SMT
    <2>2. Saturated(n - 40) = n - 40
      BY <1>2, <2>1, SMTT(30)
    <2> QED
      BY <1>1, <2>1, <2>2, SMT DEF BincraftAltitude, Feet
  <1>4. ReadWire(WireAltitude(25 * n - 1000)) = 25 * n - 1000
    BY <1>0, SMT DEF ReadWire, WireAltitude
  <1> QED
    BY <1>3, <1>4 DEF Feet

LEMMA Altitudes == \A n \in AltitudeCodes : AltitudeArrives(n)
PROOF
  <1> SUFFICES ASSUME NEW n \in AltitudeCodes PROVE AltitudeArrives(n)
    OBVIOUS
  <1>1. PICK h \in 0..63, m \in 0..1, l \in 0..15 : n = Code(h, m, l)
    BY SplitAltitude DEF Split
  <1>2. DecodeAc12(EncodeAc12(n)) = Feet(n) /\ DecodeAc13(EncodeAc13(n)) = Feet(n)
    BY <1>1, Altitude12, Altitude13
  <1> QED
    BY <1>2, AltitudeOut DEF AltitudeArrives

-----------------------------------------------------------------------------
(* Speeds: the wrap of an unsigned subtraction lands above every speed.    *)
LEMMA Airspeeds == \A raw \in AirspeedCodes : AirspeedArrives(raw)
PROOF
  <1> SUFFICES ASSUME NEW raw \in AirspeedCodes, NEW mult \in {1, 4}
               PROVE  Airspeed(raw, mult) = IF raw \in 1..1022 THEN (raw - 1) * mult ELSE None
    BY Zenon DEF AirspeedArrives
  <1>1. PICK r : r = (raw - 1) % 65536
    OBVIOUS
  <1>2. /\ r < 1022 <=> raw \in 1..1022
        /\ raw \in 1..1022 => r = raw - 1
    <2>1. raw \in Nat /\ raw < 65536
      BY SMTT(30) DEF AirspeedCodes
    <2>2. CASE raw = 0
      <3>1. PICK w \in Nat \ {0}, x \in Int : w = 65536 /\ x = -1
        BY SMT
      <3>2. -w <= x /\ x < 0
        BY <3>1, SMT
      <3>3. x % w = x + w
        BY <3>2, Remainders, Zenon
      <3>4. r = x % w
        BY <1>1, <2>2, <3>1, SMT
      <3>5. r = 65535
        BY <3>1, <3>3, <3>4, SMT
      <3> QED
        BY <2>2, <3>5, SMT
    <2>3. CASE raw > 0
      <3>1. r = raw - 1
        BY <1>1, <2>1, <2>3, SMT
      <3> QED
        BY <2>1, <2>3, <3>1, SMT
    <2> QED
      BY <2>1, <2>2, <2>3, SMT
  <1>3. Airspeed(raw, mult) = IF r < 1022 THEN r * mult ELSE None
    BY <1>1, SMT DEF Airspeed
  <1>4. CASE r < 1022
    <2>1. r = raw - 1
      BY <1>2, <1>4, ZenonT(60)
    <2> QED
      BY <1>2, <1>3, <1>4, <2>1, ZenonT(60)
  <1>5. CASE ~(r < 1022)
    BY <1>2, <1>3, <1>5, ZenonT(60)
  <1> QED
    BY <1>4, <1>5, ZenonT(60)

LEMMA Movements == \A c \in Nat : MovementGrows(c)
PROOF
  <1> SUFFICES ASSUME NEW c \in Nat PROVE MovementGrows(c)
    OBVIOUS
  <1>1. c \in 1..124 => Movement(c) \in Int
    BY DEF Movement
  <1>2. c \notin 1..124 => Movement(c) = None
    BY DEF Movement
  <1>3. c \in 1..123 => Movement(c) < Movement(c + 1)
    BY DEF Movement
  <1>4. Movement(124) = 8 * 175
    BY DEF Movement
  <1> QED
    BY <1>1, <1>2, <1>3, <1>4, NoneAssumption DEF MovementGrows

-----------------------------------------------------------------------------
LEMMA Boxes ==
  ASSUME NEW turn \in Nat \ {0}, turn % 2 = 0,
         NEW lon \in Longitudes(turn), NEW west \in Longitudes(turn), NEW east \in Longitudes(turn)
  PROVE  lon \in {((west + i + (turn \div 2)) % turn) - (turn \div 2) : i \in 0..((east - west) % turn)}
         <=> IF west <= east THEN lon \in west..east ELSE ~(lon < west /\ lon > east)
PROOF
  <1>1. PICK half \in Nat : half = turn \div 2 /\ turn = 2 * half /\ half > 0
    BY SMT
  <1>2. /\ lon \in Int /\ west \in Int /\ east \in Int
        /\ -half <= lon /\ lon < half /\ -half <= west /\ west < half
        /\ -half <= east /\ east < half
    BY <1>1 DEF Longitudes
  <1> HIDE DEF Longitudes
  <1>3. (east - west) % turn = IF west <= east THEN east - west ELSE east - west + turn
    <2>1. PICK d \in Int : d = east - west
      BY <1>2
    <2>2. west <= east => 0 <= d /\ d < turn
      BY <1>1, <1>2, <2>1
    <2>3. ~(west <= east) => -turn <= d /\ d < 0
      BY <1>1, <1>2, <2>1
    <2>4. d % turn = IF west <= east THEN d ELSE d + turn
      BY <2>2, <2>3, Remainders, Zenon
    <2> QED
      BY <2>1, <2>4
  <1> DEFINE Met(i) == ((west + i + (turn \div 2)) % turn) - (turn \div 2)
  <1>4. ASSUME NEW i \in 0..(turn - 1)
        PROVE  Met(i) = IF west + i < half THEN west + i ELSE west + i - turn
    <2>1. PICK x \in Int : x = west + i + half
      BY <1>2
    <2>2. west + i < half => 0 <= x /\ x < turn
      BY <1>1, <1>2, <2>1
    <2>3. ~(west + i < half) => turn <= x /\ x < 2 * turn
      BY <1>1, <1>2, <2>1
    <2>4. x % turn = IF west + i < half THEN x ELSE x - turn
      BY <2>2, <2>3, Remainders, Zenon
    <2>5. Met(i) = (x % turn) - half
      BY <1>1, <2>1, Zenon
    <2> QED
      BY <1>1, <1>2, <2>1, <2>4, <2>5
  <1>5. (east - west) % turn \in 0..(turn - 1)
    BY <1>1, <1>2, <1>3
  <1> DEFINE last == (east - west) % turn
  <1>6. last = IF west <= east THEN east - west ELSE east - west + turn
    BY <1>3
  <1> HIDE DEF Met, last
  <1>7. (\E i \in 0..last : lon = Met(i))
        <=> \E i \in 0..last : lon = IF west + i < half THEN west + i ELSE west + i - turn
    <2>1. \A i \in 0..last : Met(i) = IF west + i < half THEN west + i ELSE west + i - turn
      <3>1. \A i \in 0..last : i \in 0..(turn - 1)
        BY <1>5 DEF last
      <3> QED
        BY <1>4, <3>1
    <2> QED
      BY <2>1
  <1>8. ASSUME west <= east
        PROVE  (\E i \in 0..last : lon = Met(i)) <=> lon \in west..east
    <2>1. \A i \in 0..last : west + i < half
      BY <1>1, <1>2, <1>6, <1>8
    <2>2. ASSUME lon \in west..east PROVE \E i \in 0..last : lon = Met(i)
      <3>1. lon - west \in 0..last /\ lon = west + (lon - west) /\ west + (lon - west) < half
        BY <1>1, <1>2, <1>6, <1>8, <2>2
      <3> QED
        BY <1>7, <3>1
    <2>3. ASSUME NEW i \in 0..last, lon = Met(i) PROVE lon \in west..east
      <3>1. PICK j \in 0..last : lon = IF west + j < half THEN west + j ELSE west + j - turn
        BY <1>7, <2>3
      <3>2. lon = west + j
        BY <2>1, <3>1
      <3> QED
        BY <1>2, <1>6, <1>8, <3>2
    <2> QED
      BY <2>2, <2>3
  <1>9. ASSUME ~(west <= east)
        PROVE  (\E i \in 0..last : lon = Met(i)) <=> ~(lon < west /\ lon > east)
    <2>1. ASSUME lon >= west PROVE \E i \in 0..last : lon = Met(i)
      <3>1. lon - west \in 0..last /\ lon = west + (lon - west) /\ west + (lon - west) < half
        BY <1>1, <1>2, <1>6, <1>9, <2>1
      <3> QED
        BY <1>7, <3>1
    <2>2. ASSUME lon <= east PROVE \E i \in 0..last : lon = Met(i)
      <3>1. PICK i \in Int : i = lon - west + turn
        BY <1>2
      <3>2. i \in 0..last /\ lon = west + i - turn /\ ~(west + i < half)
        BY <1>1, <1>2, <1>6, <1>9, <2>2, <3>1
      <3> QED
        BY <1>7, <3>2
    <2>3. ASSUME NEW i \in 0..last, lon = Met(i) PROVE lon >= west \/ lon <= east
      <3>1. PICK j \in 0..last : lon = IF west + j < half THEN west + j ELSE west + j - turn
        BY <1>7, <2>3
      <3> QED
        BY <1>1, <1>2, <1>6, <1>9, <3>1
    <2> QED
      BY <1>2, <2>1, <2>2, <2>3
  <1>10. lon \in {Met(i) : i \in 0..last} <=> \E i \in 0..last : lon = Met(i)
    OBVIOUS
  <1>11. (lon \in {Met(i) : i \in 0..last})
         <=> IF west <= east THEN lon \in west..east ELSE ~(lon < west /\ lon > east)
    BY <1>8, <1>9, <1>10, Zenon
  <1> QED
    BY <1>11, Zenon DEF Met, last

-----------------------------------------------------------------------------
(* The numbers in messages and outputs mean what was sent, for every code  *)
(* of every field and at every resolution of longitude (mode_s.rs:250-393, *)
(* output.rs:31-45, wire.rs:23).                                           *)
THEOREM NumbersMean == InputSpec => []NumbersArrive
PROOF
  <1> DEFINE Asked == probe \in Probes \cup {NoProbe}
  <1>1. InputInit => Asked
    BY DEF InputInit
  <1>2. Asked /\ [InputNext]_inputVars => Asked'
    BY DEF InputNext, inputVars
  <1>3. Asked => NumbersArrive
    <2> SUFFICES ASSUME NEW p \in Probes
                 PROVE  /\ p.of = "altitude" => AltitudeArrives(p.n)
                        /\ p.of = "airspeed" => AirspeedArrives(p.raw)
                        /\ p.of = "movement" => MovementGrows(p.code)
                        /\ p.of = "box" => BoxIsArc(p.lat, p.lon, p.box, Turn)
      BY DEF NumbersArrive, NoProbe
    <2>1. ASSUME p.of = "altitude" PROVE AltitudeArrives(p.n)
      BY <2>1, ProbeAssumption, Altitudes, Zenon
    <2>2. ASSUME p.of = "airspeed" PROVE AirspeedArrives(p.raw)
      BY <2>2, ProbeAssumption, Airspeeds, Zenon
    <2>3. ASSUME p.of = "movement" PROVE MovementGrows(p.code)
      BY <2>3, ProbeAssumption, Movements, Zenon
    <2>4. ASSUME p.of = "box" PROVE BoxIsArc(p.lat, p.lon, p.box, Turn)
      <3>1. /\ Turn \in Nat \ {0} /\ Turn % 2 = 0
            /\ p.lon \in Longitudes(Turn)
            /\ p.box.west \in Longitudes(Turn) /\ p.box.east \in Longitudes(Turn)
        BY <2>4, ProbeAssumption, Zenon
      <3>2. p.lon \in Arc(p.box, Turn)
              <=> IF p.box.west <= p.box.east THEN p.lon \in p.box.west..p.box.east
                  ELSE ~(p.lon < p.box.west /\ p.lon > p.box.east)
        BY <3>1, Boxes DEF Arc
      <3> QED
        BY <3>2 DEF BoxIsArc, InBox
    <2> QED
      BY <2>1, <2>2, <2>3, <2>4
  <1> QED
    BY <1>1, <1>2, <1>3, PTL DEF InputSpec

-----------------------------------------------------------------------------
(* The compact framer: what a frame does to it, wherever it comes.         *)
At(buffer, frames) == [buf |-> buffer, out |-> frames]
Fedings == [buf : Seq(Nat), out : Seq(Seq(Nat))]
MessageOf(f) == SubSeq(f, 3, 2 + PayloadLen[f[1]])

LEMMA Payloads ==
  \A n \in DOMAIN PayloadLen : n \in Nat /\ PayloadLen[n] \in Nat /\ 2 + PayloadLen[n] <= 1 + n
PROOF
  BY DEF PayloadLen

LEMMA MiddlePart ==
  \A f \in Seq(Nat) : \A e \in Nat : e <= Len(f) => SubSeq(f, 3, e) \in Seq(Nat)
PROOF
  OBVIOUS

LEMMA TakenType ==
  ASSUME NEW s \in Fedings, NEW byte \in Nat
  PROVE  Taken(s, byte) \in Fedings
PROOF
  <1> DEFINE b == Append(s.buf, byte)
  <1>1. s.buf \in Seq(Nat) /\ s.out \in Seq(Seq(Nat))
    BY DEF Fedings
  <1>2. b \in Seq(Nat)
    BY <1>1
  <1>3. s = At(s.buf, s.out)
    BY DEF Fedings, At
  <1> HIDE DEF b
  <1>4. CASE b[1] \notin DOMAIN PayloadLen
    <2>1. Taken(s, byte) = At(<<>>, s.out)
      BY <1>3, <1>4 DEF Taken, At, b
    <2> QED
      BY <1>1, <2>1 DEF At, Fedings
  <1>5. CASE b[1] \in DOMAIN PayloadLen /\ Len(b) < 1 + b[1]
    <2>1. Taken(s, byte) = At(b, s.out)
      BY <1>3, <1>5 DEF Taken, At, b
    <2> QED
      BY <1>1, <1>2, <2>1 DEF At, Fedings
  <1>6. CASE b[1] \in DOMAIN PayloadLen /\ ~(Len(b) < 1 + b[1])
    <2> DEFINE m == SubSeq(b, 3, 2 + PayloadLen[b[1]])
    <2>1. Taken(s, byte) = At(<<>>, Append(s.out, m))
      BY <1>3, <1>6 DEF Taken, At, b
    <2>2. b[1] \in Nat /\ PayloadLen[b[1]] \in Nat /\ 2 + PayloadLen[b[1]] <= 1 + b[1]
      BY <1>6, Payloads
    <2>3. m \in Seq(Nat)
      <3> DEFINE e == 2 + PayloadLen[b[1]]
      <3>1. e \in Nat /\ e <= Len(b)
        <4> DEFINE x == b[1]
                   y == PayloadLen[x]
                   n == Len(b)
        <4>1. n \in Nat /\ x \in Nat /\ y \in Nat /\ 2 + y <= 1 + x /\ ~(n < 1 + x)
          BY <1>2, <1>6, <2>2
        <4> HIDE DEF x, y, n
        <4>2. 2 + y \in Nat /\ 2 + y <= n
          BY <4>1
        <4> QED
          BY <4>2 DEF x, y, n
      <3> HIDE DEF e
      <3>2. SubSeq(b, 3, e) \in Seq(Nat)
        BY <1>2, <3>1, MiddlePart
      <3> QED
        BY <3>2 DEF e
    <2> HIDE DEF m
    <2> QED
      BY <1>1, <2>1, <2>3 DEF At, Fedings
  <1> QED
    BY <1>4, <1>5, <1>6

LEMMA FedDef ==
  ASSUME NEW s \in Seq(Nat)
  PROVE  /\ Fed(s) \in [0..Len(s) -> Fedings]
         /\ Fed(s)[0] = At(<<>>, <<>>)
         /\ \A k \in 1..Len(s) : Fed(s)[k] = Taken(Fed(s)[k - 1], s[k])
PROOF
  <1> DEFINE D == 0..Len(s)
             first == At(<<>>, <<>>)
             step == [p \in D \X Fedings |-> IF p[1] = 0 THEN first ELSE Taken(p[2], s[p[1]])]
             W(w) == w = [k \in D |-> IF k = 0 THEN first ELSE Taken(w[k - 1], s[k])]
  <1>1. first \in Fedings
    BY DEF At, Fedings
  <1>2. D \subseteq Nat /\ \A k \in D : k # 0 => k - 1 \in D /\ s[k] \in Nat
    OBVIOUS
  <1> HIDE DEF first, D
  <1>3. \A k \in D : \A e \in Fedings : k # 0 => Taken(e, s[k]) \in Fedings
    BY <1>2, TakenType
  <1>4. step \in [D \X Fedings -> Fedings]
    <2> SUFFICES ASSUME NEW k \in D, NEW e \in Fedings
                 PROVE  (IF k = 0 THEN first ELSE Taken(e, s[k])) \in Fedings
      OBVIOUS
    <2> QED
      BY <1>1, <1>3
  <1>5. \A k \in D : \A e \in Fedings : k # 0 => step[<<k, e>>] = Taken(e, s[k])
    OBVIOUS
  <1> HIDE DEF step
  <1>6. PICK f \in [D -> Fedings] : Loops(f, D, first, step)
    BY <1>1, <1>2, <1>4, Looping
  <1>7. W(f)
    <2>1. \A k \in D : f[k] = IF k = 0 THEN first ELSE Taken(f[k - 1], s[k])
      BY <1>2, <1>5, <1>6 DEF Loops
    <2> QED
      BY <1>6, <2>1
  <1>8. Fed(s) = CHOOSE w : W(w)
    BY DEF Fed, first, At, D
  <1>9. W(Fed(s))
    <2> HIDE DEF W
    <2> QED
      BY <1>7, <1>8
  <1> DEFINE w == Fed(s)
             T == {k \in Nat : k \in D => w[k] \in Fedings}
  <1> HIDE DEF w
  <1>10. \A k \in D : w[k] = IF k = 0 THEN first ELSE Taken(w[k - 1], s[k])
    BY <1>9 DEF w
  <1>11. Nat \subseteq T
    <2>1. 0 \in T
      BY <1>1, <1>10
    <2>2. ASSUME NEW k \in Nat, k \in T PROVE k + 1 \in T
      <3> SUFFICES ASSUME k + 1 \in D PROVE w[k + 1] \in Fedings
        OBVIOUS
      <3> DEFINE j == k + 1
      <3>1. j \in D /\ j # 0 /\ j - 1 = k
        OBVIOUS
      <3>2. k \in D
        BY <1>2, <3>1
      <3>3. w[j] = Taken(w[k], s[j])
        BY <1>10, <3>1
      <3> HIDE DEF j
      <3>4. w[k] \in Fedings
        BY <2>2, <3>2
      <3>5. w[j] \in Fedings
        BY <1>3, <3>1, <3>3, <3>4
      <3> QED
        BY <3>5 DEF j
    <2> HIDE DEF T
    <2> QED
      BY <2>1, <2>2, Induction
  <1>12. w \in [D -> Fedings]
    <2>1. \A k \in D : w[k] \in Fedings
      BY <1>2, <1>11
    <2> QED
      BY <1>9, <2>1 DEF w
  <1>13. w[0] = first
    <2>1. 0 \in D
      BY DEF D
    <2> QED
      BY <1>10, <2>1
  <1>14. ASSUME NEW k \in 1..Len(s) PROVE w[k] = Taken(w[k - 1], s[k])
    <2>1. k \in D /\ k # 0
      BY DEF D
    <2> QED
      BY <1>10, <2>1
  <1> QED
    BY <1>12, <1>13, <1>14 DEF w, first, D

(* What comes later does not change what was made of the bytes before it.  *)
LEMMA FedPrefix ==
  ASSUME NEW s \in Seq(Nat), NEW u \in Seq(Nat), NEW k \in 0..Len(s)
  PROVE  Fed(s \o u)[k] = Fed(s)[k]
PROOF
  <1> DEFINE r == s \o u
             n == Len(s)
             T == {j \in Nat : j <= n => Fed(r)[j] = Fed(s)[j]}
  <1>1. /\ r \in Seq(Nat) /\ n \in Nat /\ Len(r) \in Nat /\ n <= Len(r)
        /\ \A j \in 1..n : r[j] = s[j]
    OBVIOUS
  <1> HIDE DEF r
  <1>2. 0 \in T
    BY <1>1, FedDef
  <1>3. ASSUME NEW j \in Nat, j \in T PROVE j + 1 \in T
    <2> SUFFICES ASSUME j + 1 <= n PROVE Fed(r)[j + 1] = Fed(s)[j + 1]
      OBVIOUS
    <2> DEFINE i == j + 1
    <2>1. i \in 1..n /\ i \in 1..Len(r) /\ i - 1 = j
      BY <1>1
    <2> HIDE DEF i
    <2>2. Fed(r)[i] = Taken(Fed(r)[j], r[i])
      BY <1>1, <2>1, FedDef
    <2>3. Fed(s)[i] = Taken(Fed(s)[j], s[i])
      BY <2>1, FedDef
    <2>4. Fed(r)[j] = Fed(s)[j]
      BY <1>1, <1>3, <2>1
    <2> QED
      BY <1>1, <2>1, <2>2, <2>3, <2>4 DEF i
  <1> HIDE DEF T
  <1>4. Nat \subseteq T
    BY <1>2, <1>3, Induction
  <1> QED
    BY <1>4 DEF T, r

LEMMA Element ==
  \A f \in Seq(Nat) : \A i \in 1..Len(f) : f[i] \in Nat
PROOF
  OBVIOUS

LEMMA FirstPart ==
  \A f \in Seq(Nat) : \A n \in 0..Len(f) :
    /\ SubSeq(f, 1, n) \in Seq(Nat) /\ Len(SubSeq(f, 1, n)) = n
    /\ \A x \in 1..n : SubSeq(f, 1, n)[x] = f[x]
PROOF
  OBVIOUS

LEMMA OneMore ==
  \A p \in Seq(Nat) : \A x \in Nat :
    /\ Append(p, x) \in Seq(Nat) /\ Len(Append(p, x)) = Len(p) + 1
    /\ \A y \in 1..Len(p) : Append(p, x)[y] = p[y]
    /\ Append(p, x)[Len(p) + 1] = x
PROOF
  OBVIOUS

(* A byte of a frame: the frame is kept until it is whole.                 *)
LEMMA TakenOfFrame ==
  ASSUME NEW f, IsCompactFrame(f), NEW o, NEW j \in 0..(Len(f) - 1)
  PROVE  Taken(At(SubSeq(f, 1, j), o), f[j + 1]) =
           IF j + 1 < Len(f) THEN At(SubSeq(f, 1, j + 1), o) ELSE At(<<>>, Append(o, MessageOf(f)))
PROOF
  <1> DEFINE i == j + 1
             p == SubSeq(f, 1, j)
             q == SubSeq(f, 1, i)
             b == Append(p, f[i])
  <1>1. /\ f \in Seq(Nat) /\ Len(f) \in Nat /\ f[1] \in DOMAIN PayloadLen
        /\ Len(f) = 1 + f[1] /\ i \in 1..Len(f)
    BY DEF IsCompactFrame
  <1>2. q \in Seq(Nat) /\ Len(q) = i /\ \A x \in 1..i : q[x] = f[x]
    <2>1. i \in 0..Len(f)
      BY <1>1
    <2> HIDE DEF i
    <2> QED
      BY <1>1, <2>1, FirstPart
  <1>3. p \in Seq(Nat) /\ Len(p) = j /\ \A x \in 1..j : p[x] = f[x]
    <2>1. j \in 0..Len(f)
      BY <1>1
    <2> QED
      BY <1>1, <2>1, FirstPart
  <1>4. f[i] \in Nat
    <2> HIDE DEF i
    <2> QED
      BY <1>1, Element
  <1> HIDE DEF p, q
  <1>5. /\ b \in Seq(Nat) /\ Len(b) = j + 1
        /\ (\A x \in 1..j : b[x] = p[x]) /\ b[j + 1] = f[i]
    <2> DEFINE x == f[i]
    <2> HIDE DEF x
    <2>1. x \in Nat
      BY <1>4 DEF x
    <2>2. /\ Append(p, x) \in Seq(Nat) /\ Len(Append(p, x)) = Len(p) + 1
          /\ \A y \in 1..Len(p) : Append(p, x)[y] = p[y]
          /\ Append(p, x)[Len(p) + 1] = x
      BY <1>3, <2>1, OneMore
    <2> QED
      BY <1>3, <2>2 DEF x
  <1> HIDE DEF b
  <1>6. b = q
    <2>1. ASSUME NEW x \in 1..i PROVE b[x] = q[x]
      <3>1. CASE x = i
        BY <1>1, <1>2, <1>5, <3>1
      <3>2. CASE x # i
        <4>1. x \in 1..j
          BY <3>2
        <4> QED
          BY <1>2, <1>3, <1>5, <4>1
      <3> QED
        BY <3>1, <3>2
    <2> HIDE DEF i
    <2>2. Len(b) = i /\ Len(q) = i
      BY <1>2, <1>5 DEF i
    <2> QED
      BY <1>2, <1>5, <2>1, <2>2, SeqEqual
  <1>7. b[1] = f[1]
    <2>1. 1 \in 1..i
      OBVIOUS
    <2> QED
      BY <1>2, <1>6, <2>1
  <1>8. Taken(At(p, o), f[i]) =
          IF b[1] \notin DOMAIN PayloadLen THEN At(<<>>, o)
          ELSE IF Len(b) < 1 + b[1] THEN At(b, o)
          ELSE At(<<>>, Append(o, SubSeq(b, 3, 2 + PayloadLen[b[1]])))
    <2> DEFINE a == At(p, o)
    <2>1. a.buf = p /\ a.out = o /\ \A x : [a EXCEPT !.buf = x] = At(x, o)
      BY DEF At
    <2>2. \A x : [buf |-> <<>>, out |-> x] = At(<<>>, x)
      BY DEF At
    <2> HIDE DEF a
    <2>3. Append(a.buf, f[i]) = b
      BY <2>1 DEF b
    <2> HIDE DEF i
    <2>4. Taken(a, f[i]) =
            IF b[1] \notin DOMAIN PayloadLen THEN [a EXCEPT !.buf = <<>>]
            ELSE IF Len(b) < 1 + b[1] THEN [a EXCEPT !.buf = b]
            ELSE [buf |-> <<>>, out |-> Append(a.out, SubSeq(b, 3, 2 + PayloadLen[b[1]]))]
      BY <2>3, Zenon DEF Taken
    <2> QED
      BY <2>1, <2>2, <2>4, Zenon DEF a
  <1>9. Len(b) = i /\ 1 + b[1] = Len(f)
    BY <1>1, <1>5, <1>7
  <1>10. CASE i < Len(f)
    BY <1>1, <1>6, <1>7, <1>8, <1>9, <1>10 DEF p, q, i
  <1>11. CASE ~(i < Len(f))
    <2>1. i = Len(f)
      BY <1>1, <1>11
    <2>2. q = f
      <3>1. \A x \in 1..Len(f) : q[x] = f[x]
        BY <1>2, <2>1
      <3> HIDE DEF i
      <3> QED
        BY <1>1, <1>2, <2>1, <3>1, SeqEqual
    <2>3. SubSeq(b, 3, 2 + PayloadLen[b[1]]) = MessageOf(f)
      BY <1>6, <2>2 DEF MessageOf
    <2>4. ~(Len(b) < 1 + b[1])
      BY <1>9, <1>11
    <2>5. Taken(At(p, o), f[i]) = At(<<>>, Append(o, MessageOf(f)))
      BY <1>1, <1>7, <1>8, <2>3, <2>4
    <2> QED
      BY <1>11, <2>5 DEF p, i
  <1> QED
    BY <1>10, <1>11

LEMMA FrameTaken ==
  ASSUME NEW s \in Seq(Nat), NEW f, IsCompactFrame(f), NEW o,
         CompactFeed(s) = At(<<>>, o)
  PROVE  CompactFeed(s \o f) = At(<<>>, Append(o, MessageOf(f)))
PROOF
  <1> DEFINE r == s \o f
             n == Len(s)
             m == Len(f)
             T == {j \in Nat : j < m => Fed(r)[n + j] = At(SubSeq(f, 1, j), o)}
  <1>1. f \in Seq(Nat) /\ m \in Nat /\ 1 < m
    BY DEF IsCompactFrame
  <1>2. /\ r \in Seq(Nat) /\ n \in Nat /\ Len(r) = n + m
        /\ \A j \in 1..m : r[n + j] = f[j]
    BY <1>1
  <1>3. n \in 0..n /\ Fed(s)[n] = At(<<>>, o)
    BY DEF CompactFeed
  <1>4. Fed(r)[n] = At(<<>>, o)
    BY <1>1, <1>3, FedPrefix
  <1> HIDE DEF r, n, m
  <1>5. ASSUME NEW j \in Nat, j < m, Fed(r)[n + j] = At(SubSeq(f, 1, j), o)
        PROVE  Fed(r)[n + (j + 1)] =
                 IF j + 1 < m THEN At(SubSeq(f, 1, j + 1), o) ELSE At(<<>>, Append(o, MessageOf(f)))
    <2> DEFINE k == n + (j + 1)
    <2>1. k \in 1..Len(r) /\ k - 1 = n + j
      BY <1>1, <1>2, <1>5
    <2> HIDE DEF k
    <2>2. Fed(r)[k] = Taken(Fed(r)[k - 1], r[k])
      BY <1>2, <2>1, FedDef
    <2>3. r[k] = f[j + 1]
      <3>1. j + 1 \in 1..m
        BY <1>1, <1>5
      <3> QED
        BY <1>2, <3>1 DEF k
    <2>4. j \in 0..(Len(f) - 1)
      BY <1>1, <1>5 DEF m
    <2>5. Fed(r)[k] = Taken(At(SubSeq(f, 1, j), o), f[j + 1])
      BY <1>5, <2>1, <2>2, <2>3
    <2>6. Taken(At(SubSeq(f, 1, j), o), f[j + 1]) =
            IF j + 1 < m THEN At(SubSeq(f, 1, j + 1), o) ELSE At(<<>>, Append(o, MessageOf(f)))
      BY <2>4, TakenOfFrame DEF m
    <2> QED
      BY <2>5, <2>6 DEF k
  <1>6. 0 \in T
    <2>1. SubSeq(f, 1, 0) = <<>>
      BY <1>1
    <2>2. n + 0 = n
      BY <1>2
    <2> QED
      BY <1>4, <2>1, <2>2
  <1>7. ASSUME NEW j \in Nat, j \in T PROVE j + 1 \in T
    <2> SUFFICES ASSUME j + 1 < m PROVE Fed(r)[n + (j + 1)] = At(SubSeq(f, 1, j + 1), o)
      OBVIOUS
    <2>1. j < m
      BY <1>1
    <2>2. Fed(r)[n + j] = At(SubSeq(f, 1, j), o)
      BY <1>7, <2>1
    <2> QED
      BY <1>5, <2>1, <2>2
  <1> HIDE DEF T
  <1>8. Nat \subseteq T
    BY <1>6, <1>7, Induction
  <1> DEFINE last == m - 1
  <1>9. last \in Nat /\ last < m /\ ~(last + 1 < m) /\ n + (last + 1) = n + m
    BY <1>1, <1>2
  <1> HIDE DEF last
  <1>10. Fed(r)[n + last] = At(SubSeq(f, 1, last), o)
    BY <1>8, <1>9 DEF T
  <1>11. Fed(r)[n + (last + 1)] = At(<<>>, Append(o, MessageOf(f)))
    BY <1>5, <1>9, <1>10
  <1> QED
    BY <1>2, <1>9, <1>11 DEF CompactFeed, r

(* Bytes that are no length are skipped.                                   *)
LEMMA JunkTaken ==
  ASSUME NEW junk \in Seq(Nat), IsJunk(junk)
  PROVE  CompactFeed(junk) = At(<<>>, <<>>)
PROOF
  <1> DEFINE n == Len(junk)
             none == At(<<>>, <<>>)
             T == {j \in Nat : j <= n => Fed(junk)[j] = none}
  <1>1. n \in Nat
    OBVIOUS
  <1>2. ASSUME NEW x, x \notin DOMAIN PayloadLen PROVE Taken(none, x) = none
    <2>1. none.buf = <<>> /\ [none EXCEPT !.buf = <<>>] = none
      BY DEF At
    <2>2. Append(<<>>, x)[1] = x
      OBVIOUS
    <2> HIDE DEF none
    <2> QED
      BY <1>2, <2>1, <2>2, Zenon DEF Taken
  <1> HIDE DEF none, n
  <1>3. 0 \in T
    BY FedDef DEF none
  <1>4. ASSUME NEW j \in Nat, j \in T PROVE j + 1 \in T
    <2> SUFFICES ASSUME j + 1 <= n PROVE Fed(junk)[j + 1] = none
      OBVIOUS
    <2> DEFINE i == j + 1
    <2>1. i \in 1..n /\ i - 1 = j /\ j <= n
      BY <1>1
    <2> HIDE DEF i
    <2>2. Fed(junk)[i] = Taken(Fed(junk)[i - 1], junk[i])
      BY <2>1, FedDef DEF n
    <2>3. junk[i] \notin DOMAIN PayloadLen
      BY <2>1 DEF IsJunk, n
    <2>4. Fed(junk)[i - 1] = none
      BY <1>4, <2>1
    <2> QED
      BY <1>2, <2>2, <2>3, <2>4 DEF i
  <1> HIDE DEF T
  <1>5. Nat \subseteq T
    BY <1>3, <1>4, Induction
  <1>6. Fed(junk)[n] = none
    BY <1>1, <1>5 DEF T
  <1> QED
    BY <1>6 DEF CompactFeed, n, none

(* A sequence of frames, one after the other.                              *)
LEMMA Flattened ==
  ASSUME NEW xs \in Seq(Seq(Nat))
  PROVE  \E g \in [0..Len(xs) -> Seq(Nat)] :
           /\ g[0] = <<>>
           /\ \A i \in 1..Len(xs) : g[i] = g[i - 1] \o xs[i]
           /\ FlattenSeq(xs) = g[Len(xs)]
PROOF
  <1> DEFINE n == Len(xs)
             D == 0..n
             V == Seq(Nat)
             none == <<>>
             step == [p \in D \X V |-> IF p[1] = 0 THEN none ELSE p[2] \o xs[p[1]]]
             W(w) == w = [i \in 1..n |-> IF i = 1 THEN xs[i] ELSE w[i - 1] \o xs[i]]
  <1>1. n \in Nat /\ \A i \in 1..n : xs[i] \in V
    OBVIOUS
  <1>2. D \subseteq Nat /\ \A k \in D : k # 0 => k - 1 \in D
    OBVIOUS
  <1>3. ASSUME NEW k \in D, NEW e \in V, k # 0 PROVE e \o xs[k] \in V
    <2> DEFINE x == xs[k]
    <2>1. x \in V
      BY <1>1, <1>3
    <2> HIDE DEF x
    <2>2. e \o x \in V
      BY <2>1
    <2> QED
      BY <2>2 DEF x
  <1>4. none \in V
    OBVIOUS
  <1> HIDE DEF none, V, n
  <1>5. step \in [D \X V -> V]
    <2> SUFFICES ASSUME NEW k \in D, NEW e \in V
                 PROVE  (IF k = 0 THEN none ELSE e \o xs[k]) \in V
      BY Zenon
    <2> QED
      BY <1>3, <1>4
  <1>6. \A k \in D : \A e \in V : k # 0 => step[<<k, e>>] = e \o xs[k]
    BY Zenon
  <1> HIDE DEF step
  <1>7. PICK g \in [D -> V] : Loops(g, D, none, step)
    BY <1>2, <1>4, <1>5, Looping
  <1>8. g[0] = none
    <2>1. 0 \in D
      BY <1>1
    <2> QED
      BY <1>7, <2>1 DEF Loops
  <1>9. ASSUME NEW i \in 1..n PROVE g[i] = g[i - 1] \o xs[i]
    <2>1. i \in D /\ i # 0 /\ i - 1 \in D
      BY <1>1
    <2> HIDE DEF D
    <2>2. g[i - 1] \in V
      BY <1>7, <2>1
    <2>3. g[i] = step[<<i, g[i - 1]>>]
      BY <1>7, <2>1 DEF Loops
    <2> QED
      BY <1>6, <2>1, <2>2, <2>3
  <1>10. CASE n = 0
    <2>1. xs = none
      BY <1>10 DEF n, none
    <2>2. FlattenSeq(xs) = none
      BY <2>1 DEF FlattenSeq, none
    <2> QED
      BY <1>7, <1>8, <1>9, <1>10, <2>2 DEF V, n, none
  <1>11. CASE n # 0
    <2> DEFINE h == [i \in 1..n |-> g[i]]
               w == CHOOSE v : W(v)
               T == {j \in Nat : j + 1 <= n => w[j + 1] = g[j + 1]}
    <2>1. 1 \in 1..n /\ g[1] = xs[1]
      <3>1. 1 \in 1..n /\ 1 - 1 = 0
        BY <1>1, <1>11
      <3>2. g[1] = none \o xs[1]
        BY <1>8, <1>9, <3>1
      <3>3. xs[1] \in Seq(Nat)
        BY <1>1, <3>1 DEF V
      <3> QED
        BY <3>1, <3>2, <3>3, ConcatEmptySeq DEF none
    <2>2. W(h)
      <3>1. ASSUME NEW i \in 1..n PROVE h[i] = IF i = 1 THEN xs[i] ELSE h[i - 1] \o xs[i]
        <4>1. CASE i = 1
          BY <2>1, <4>1
        <4>2. CASE i # 1
          <5>1. i - 1 \in 1..n
            BY <1>1, <4>2
          <5>2. h[i] = g[i] /\ h[i - 1] = g[i - 1]
            BY <5>1
          <5> QED
            BY <1>9, <4>2, <5>2
        <4> QED
          BY <4>1, <4>2
      <3> QED
        BY <3>1
    <2>3. W(w)
      <3> HIDE DEF W, h
      <3> QED
        BY <2>2
    <2> HIDE DEF w, h
    <2>4. \A i \in 1..n : w[i] = IF i = 1 THEN xs[i] ELSE w[i - 1] \o xs[i]
      BY <2>3
    <2>5. 0 \in T
      BY <2>1, <2>4
    <2>6. ASSUME NEW j \in Nat, j \in T PROVE j + 1 \in T
      <3> SUFFICES ASSUME (j + 1) + 1 <= n PROVE w[(j + 1) + 1] = g[(j + 1) + 1]
        OBVIOUS
      <3> DEFINE i == (j + 1) + 1
      <3>1. i \in 1..n /\ i # 1 /\ i - 1 = j + 1 /\ j + 1 <= n
        BY <1>1
      <3> HIDE DEF i
      <3>2. w[i] = w[i - 1] \o xs[i] /\ g[i] = g[i - 1] \o xs[i]
        BY <1>9, <2>4, <3>1
      <3>3. w[i - 1] = g[i - 1]
        BY <2>6, <3>1
      <3> QED
        BY <3>2, <3>3 DEF i
    <2> HIDE DEF T
    <2>7. Nat \subseteq T
      BY <2>5, <2>6, Induction
    <2>8. w[n] = g[n]
      <3> DEFINE j == n - 1
      <3>1. j \in Nat /\ j + 1 = n /\ j + 1 <= n
        BY <1>1, <1>11
      <3> HIDE DEF j
      <3> QED
        BY <2>7, <3>1 DEF T
    <2>9. FlattenSeq(xs) = w[n]
      BY <1>11, Zenon DEF FlattenSeq, w, n
    <2> QED
      BY <1>7, <1>8, <1>9, <2>8, <2>9 DEF V, n, none
  <1> QED
    BY <1>10, <1>11

LEMMA MessageType ==
  ASSUME NEW f, IsCompactFrame(f)
  PROVE  MessageOf(f) \in Seq(Nat)
PROOF
  <1>1. f \in Seq(Nat) /\ Len(f) = 1 + f[1] /\ f[1] \in DOMAIN PayloadLen
    BY DEF IsCompactFrame
  <1> DEFINE x == f[1]
             y == PayloadLen[x]
             n == Len(f)
             e == 2 + y
  <1>2. n \in Nat /\ n = 1 + x /\ x \in Nat /\ y \in Nat /\ 2 + y <= 1 + x
    BY <1>1, Payloads
  <1> HIDE DEF x, y
  <1>3. e \in Nat /\ e <= n
    BY <1>2
  <1> HIDE DEF n, e
  <1>4. SubSeq(f, 3, e) \in Seq(Nat)
    BY <1>1, <1>3, MiddlePart DEF n
  <1> QED
    BY <1>4 DEF MessageOf, e, y, x

LEMMA Regrouped ==
  \A a, b, c \in Seq(Nat) : a \o (b \o c) = (a \o b) \o c
PROOF
  <1> DEFINE S == Nat
  <1> HIDE DEF S
  <1>1. \A a, b, c \in Seq(S) : (a \o b) \o c = a \o (b \o c)
    BY ConcatAssociative
  <1> QED
    BY <1>1 DEF S

LEMMA CompactSent ==
  ASSUME NEW junk \in Seq(Nat), NEW frames \in Seq(Seq(Nat)),
         \A i \in DOMAIN frames : IsCompactFrame(frames[i])
  PROVE  CompactArrives(junk, frames)
PROOF
  <1> SUFFICES ASSUME IsJunk(junk)
               PROVE  CompactFeed(junk \o FlattenSeq(frames)) =
                        At(<<>>, [i \in DOMAIN frames |-> MessageOf(frames[i])])
    BY DEF CompactArrives, At, MessageOf
  <1> DEFINE n == Len(frames)
             sent(i) == [x \in 1..i |-> MessageOf(frames[x])]
  <1>1. n \in Nat /\ DOMAIN frames = 1..n
    OBVIOUS
  <1>2. ASSUME NEW x \in 1..n PROVE MessageOf(frames[x]) \in Seq(Nat)
    <2>1. IsCompactFrame(frames[x])
      BY <1>1
    <2> QED
      BY <2>1, MessageType
  <1>3. PICK g \in [0..n -> Seq(Nat)] :
          /\ g[0] = <<>>
          /\ \A i \in 1..n : g[i] = g[i - 1] \o frames[i]
          /\ FlattenSeq(frames) = g[n]
    BY Flattened
  <1> DEFINE T == {i \in Nat : i <= n => CompactFeed(junk \o g[i]) = At(<<>>, sent(i))}
  <1>4. 0 \in T
    <2>1. junk \o g[0] = junk
      BY <1>3, ConcatEmptySeq
    <2>2. sent(0) = <<>>
      OBVIOUS
    <2>3. CompactFeed(junk) = At(<<>>, <<>>)
      BY JunkTaken
    <2> QED
      BY <2>1, <2>2, <2>3
  <1>5. ASSUME NEW j \in Nat, j \in T PROVE j + 1 \in T
    <2> SUFFICES ASSUME j + 1 <= n
                 PROVE  CompactFeed(junk \o g[j + 1]) = At(<<>>, sent(j + 1))
      OBVIOUS
    <2> DEFINE i == j + 1
               f == frames[i]
               s == junk \o g[j]
               m == MessageOf(f)
    <2>1. i \in 1..n /\ i - 1 = j /\ j <= n /\ j \in 0..n /\ 1..i \subseteq 1..n
      BY <1>1
    <2>2. IsCompactFrame(f) /\ f \in Seq(Nat) /\ g[j] \in Seq(Nat)
      <3>1. i \in DOMAIN frames
        BY <1>1, <2>1
      <3> HIDE DEF i
      <3>2. IsCompactFrame(f)
        BY <3>1
      <3>3. f \in Seq(Nat)
        BY <3>2 DEF IsCompactFrame
      <3>4. g[j] \in Seq(Nat)
        BY <1>3, <2>1
      <3> QED
        BY <3>2, <3>3, <3>4
    <2>3. s \in Seq(Nat)
      BY <2>2
    <2>4. CompactFeed(s) = At(<<>>, sent(j))
      BY <1>5, <2>1
    <2>5. junk \o g[i] = s \o f
      <3>1. g[i] = g[j] \o f
        BY <1>3, <2>1
      <3> DEFINE y == g[j]
      <3> HIDE DEF y, f, i
      <3>2. junk \o (y \o f) = (junk \o y) \o f
        <4>1. y \in Seq(Nat) /\ f \in Seq(Nat)
          BY <2>2 DEF y
        <4> QED
          BY <4>1, Regrouped
      <3> USE DEF y
      <3> QED
        BY <3>1, <3>2
    <2>6. m \in Seq(Nat)
      BY <1>2, <2>1
    <2> HIDE DEF s, f, m
    <2>7. CompactFeed(s \o f) = At(<<>>, Append(sent(j), m))
      BY <2>2, <2>3, <2>4, FrameTaken DEF m
    <2>8. Append(sent(j), m) = sent(i)
      <3> DEFINE p == sent(j)
                 q == sent(i)
      <3>1. p \in Seq(Seq(Nat)) /\ Len(p) = j /\ \A x \in 1..j : p[x] = MessageOf(frames[x])
        BY <1>2, <2>1
      <3>2. q \in Seq(Seq(Nat)) /\ Len(q) = i /\ \A x \in 1..i : q[x] = MessageOf(frames[x])
        BY <1>2, <2>1
      <3> HIDE DEF p, q
      <3>3. Append(p, m) \in Seq(Seq(Nat)) /\ Len(Append(p, m)) = i
        BY <2>6, <3>1
      <3>4. ASSUME NEW x \in 1..i PROVE Append(p, m)[x] = q[x]
        <4>1. CASE x = i
          <5>1. Append(p, m)[i] = m
            BY <2>6, <3>1
          <5> QED
            BY <3>2, <4>1, <5>1 DEF m, f
        <4>2. CASE x # i
          <5>1. x \in 1..j
            BY <4>2
          <5>2. Append(p, m)[x] = p[x]
            BY <2>6, <3>1, <5>1
          <5> QED
            BY <3>1, <3>2, <5>1, <5>2
        <4> QED
          BY <4>1, <4>2
      <3> HIDE DEF i
      <3> QED
        BY <3>2, <3>3, <3>4, SeqEqual DEF p, q
    <2> QED
      BY <2>5, <2>7, <2>8
  <1> HIDE DEF T
  <1>6. Nat \subseteq T
    BY <1>4, <1>5, Induction
  <1>7. CompactFeed(junk \o g[n]) = At(<<>>, sent(n))
    <2>1. n \in T /\ n <= n
      BY <1>1, <1>6
    <2> HIDE DEF n
    <2> QED
      BY <2>1, Zenon DEF T
  <1>8. sent(n) = [i \in DOMAIN frames |-> MessageOf(frames[i])]
    BY <1>1
  <1> HIDE DEF n, sent
  <1> QED
    BY <1>3, <1>7, <1>8, Zenon

(* A frame that is sent as it is arrives if it holds no escape             *)
(* (sdr_reader.rs:76-79), and those of the compact format always, any      *)
(* number of them, one after the other and after any junk that holds no    *)
(* length (compact_ingest.rs:21-47).                                       *)
THEOREM FramesDoArrive == InputSpec => []FramesArrive
PROOF
  <1> DEFINE Asked == probe \in Probes \cup {NoProbe}
  <1>1. InputInit => Asked
    BY DEF InputInit
  <1>2. Asked /\ [InputNext]_inputVars => Asked'
    BY DEF InputNext, inputVars
  <1>3. Asked => FramesArrive
    <2> SUFFICES ASSUME NEW p \in Probes
                 PROVE  /\ p.of = "as is" => PlainArrives(p.type, p.body, p.following)
                        /\ p.of = "compact" => CompactArrives(p.junk, p.frames)
      <3>1. CASE probe \in Probes
        BY <3>1, Zenon DEF FramesArrive
      <3>2. CASE probe = NoProbe
        <4>1. probe.of = "nothing"
          BY <3>2 DEF NoProbe
        <4> QED
          BY <4>1 DEF FramesArrive
      <3> QED
        BY <3>1, <3>2
    <2>1. ASSUME p.of = "as is" PROVE PlainArrives(p.type, p.body, p.following)
      BY <2>1, ProbeAssumption, SentAsIs, Zenon
    <2>2. ASSUME p.of = "compact" PROVE CompactArrives(p.junk, p.frames)
      BY <2>2, ProbeAssumption, CompactSent, Zenon
    <2> QED
      BY <2>1, <2>2
  <1> QED
    BY <1>1, <1>2, <1>3, PTL DEF InputSpec

(* The framer is a part of the way in: what holds of every behaviour of it *)
(* holds of every behaviour of this (ingest.rs:121-126).                   *)
THEOREM FramesOfTheStream ==
  InputSpec => [](ChunksDoNotMatter /\ DecodesBack /\ ResyncsAtNextFrame /\ OnlyAStartIsKept)
PROOF
  <1>1. InputInit => Init
    BY DEF InputInit
  <1>2. [InputNext]_inputVars => [Next]_vars
    BY DEF InputNext, inputVars
  <1>3. InputSpec => Spec
    BY <1>1, <1>2, PTL DEF InputSpec, Spec
  <1> QED
    BY <1>3, AnyChunks, EveryFrameDecodesBack, ResyncsAfterAnything, OnlyAStart, PTL
=============================================================================

------------------------------ MODULE MCInput -------------------------------
(* Instances of Input for TLC: two escaped frame types (a message with a   *)
(* header of one byte, and a receiver id) and a raw one (a UUID); two      *)
(* aircraft whose addresses differ in one bit and all they send.           *)
EXTENDS Input

MCBytes == {"esc", "msg", "id", "uuid", "x"}
MCBodyLen == [t \in {"msg", "id", "uuid"} |-> 2]

A1 == {1, 4, 9, 15, 20}
A2 == {1, 3, 4, 9, 15, 20}
MCReal == {A1, A2}
Squitters == [df : {17}, from : MCReal, tc : {1, 5, 9, 19, 20, 28, 29, 31}, blank : {FALSE}]
               \cup [df : {17}, from : MCReal, tc : {5, 9, 19, 20, 23, 28}, blank : {TRUE}]
               \cup [df : {11, 18}, from : MCReal, tc : {9}, blank : {FALSE}]
Replies == [df : {0, 4, 5, 16, 20, 21}, from : MCReal, tc : {0}, blank : {FALSE}]
             \cup [df : {0, 4, 16, 20, 21}, from : MCReal, tc : {0}, blank : {TRUE}]
MCSent == Squitters \cup Replies

MCTurn == 8
Meridians == Longitudes(MCTurn)
Damaged == {m \in Squitters : m.from = A1 /\ m.tc = 9 /\ ~m.blank}
AtMostTwo(n) == {{i, j} : i, j \in 0..(n - 1)} \cup {{}}
CompactFrames == {CompactFrame(n, fill) : n \in {8, 9, 15, 16}, fill \in {0, 8, 16}}

MCProbes ==
  {[of |-> "as is", type |-> "msg", body |-> body, following |-> t] :
     body \in Bodies("msg"), t \in Types}
  \cup {[of |-> "compact", junk |-> junk, frames |-> frames] :
          junk \in {<<>>, <<0>>, <<255, 7>>}, frames \in UNION {[1..n -> CompactFrames] : n \in 0..2}}
  \cup UNION {{[of |-> "damage", message |-> m, errors |-> e] : e \in AtMostTwo(Bits(m))} :
                m \in Damaged}
  \cup [of : {"altitude"}, n : 0..2047]
  \cup [of : {"airspeed"}, raw : 0..1023]
  \cup [of : {"movement"}, code : 0..127]
  \cup [of : {"box"}, lat : 0..2, lon : Meridians,
        box : [south : {1}, north : {0, 1}, west : Meridians, east : Meridians]]
  \cup [of : {"squawk"}, digits : [a : 0..7, b : 0..7, c : 0..7, d : 0..7]]
=============================================================================

------------------------------- MODULE Input --------------------------------
(***************************************************************************)
(* The way in: bytes are cut into frames (BeastFramer, CompactFramer), the *)
(* bits of a message decoded and merged (ModeS), and its numbers read and  *)
(* written out again (Fields).  No stage looks at what another has made of *)
(* its data, so that a behaviour exercises one of them: the framer, the    *)
(* track of one address, or one probe of the pure functions.               *)
(***************************************************************************)
EXTENDS BeastFramer, CompactFramer, ModeS, Fields

CONSTANTS
  Probes,  \* what the pure functions are asked: [of, ...]
  Turn     \* the meridians of the instance

(* Numbers are codes of their fields.  Damage is what the repair is for:   *)
(* at most two errors of a squitter.                                       *)
ASSUME ProbeAssumption ==
  /\ Turn \in Nat \ {0} /\ Turn % 2 = 0
  /\ \A p \in Probes :
       /\ p.of = "as is" =>
            p.type \in Types /\ p.body \in Bodies(p.type) /\ p.following \in Types
       /\ p.of = "compact" =>
            /\ p.junk \in Seq(Nat) /\ p.frames \in Seq(Seq(Nat))
            /\ \A i \in DOMAIN p.frames : IsCompactFrame(p.frames[i])
       /\ p.of = "altitude" => p.n \in AltitudeCodes
       /\ p.of = "airspeed" => p.raw \in AirspeedCodes
       /\ p.of = "movement" => p.code \in Nat
       /\ p.of = "box" => {p.lon, p.box.west, p.box.east} \subseteq Longitudes(Turn)
       /\ p.of = "damage" =>
            /\ p.message \in Sent /\ Squitter(p.message)
            /\ \E b, c \in 0..(Bits(p.message) - 1) : p.errors \in {{}, {b}, {b, c}}

NoProbe == [of |-> "nothing"]

VARIABLES
  part,  \* the stage that is exercised
  probe  \* what its functions are asked
inputVars == <<vars, trackVars, part, probe>>

InputInit ==
  /\ Init /\ TrackInit
  /\ part \in {"frames", "track", "probe"}
  /\ part # "track" => watched = Ghost
  /\ IF part = "probe" THEN probe \in Probes ELSE probe = NoProbe

InputNext ==
  /\ \/ part = "frames" /\ Next /\ UNCHANGED trackVars
     \/ part = "track" /\ TrackNext /\ UNCHANGED vars
  /\ UNCHANGED <<part, probe>>

InputSpec == InputInit /\ [][InputNext]_inputVars

-----------------------------------------------------------------------------
(* Frames without an escape in their body arrive although sdr_reader.rs:79 *)
(* sends them as they are, compact ones always (compact_ingest.rs:21-47).  *)
FramesArrive ==
  /\ probe.of = "as is" => PlainArrives(probe.type, probe.body, probe.following)
  /\ probe.of = "compact" => CompactArrives(probe.junk, probe.frames)

(* sdr_reader.rs:78: "our ingest handles both", frames whose escapes are   *)
(* doubled and frames that are sent as they are.                           *)
AsIsHandled ==
  probe.of = "as is" => Framed(AsIs(probe.type, probe.body), probe.following)

(* A damaged bit is repaired, and two are refused (crc.rs:36-50).          *)
DamageIsRepaired ==
  probe.of = "damage" => RepairedRight(probe.message, probe.errors)

(* Numbers mean what was sent at every code and boundary: altitudes,       *)
(* airspeeds, speeds on the ground (mode_s.rs:250-393), and the box of a   *)
(* query is an arc (output.rs:31-45).                                      *)
NumbersArrive ==
  /\ probe.of = "altitude" => AltitudeArrives(probe.n)
  /\ probe.of = "airspeed" => AirspeedArrives(probe.raw)
  /\ probe.of = "movement" => MovementGrows(probe.code)
  /\ probe.of = "box" => BoxIsArc(probe.lat, probe.lon, probe.box, Turn)

(* PLAN.md:98: a squawk is the one that was set.                           *)
SquawksArrive == probe.of = "squawk" => SquawkArrives(probe.digits)
=============================================================================

----------------------------- MODULE MCFanOut -------------------------------
(* Instances of FanOut for TLC: two stations that send their UUID, and a   *)
(* relay with a UUID of its own.  Every frame has length one: frames cut   *)
(* in two are OutputWriter's subject, here only their order matters.  In   *)
(* one scene a station publishes at any rate and a slow relay beside it,   *)
(* to nobody; in another the second station is beside it, and in the third *)
(* both stations publish, once a window, to a subscriber.                  *)
EXTENDS FanOut

MCFeeders == {"s1", "s2", "relay"}
MCReceivers == 1..4
MCBehind == [f \in MCFeeders |-> CASE f = "s1" -> {1} [] f = "s2" -> {2} [] f = "relay" -> {3}]
MCSender == [f \in MCFeeders |-> CASE f = "s1" -> 1 [] f = "s2" -> 2 [] f = "relay" -> 4]
UnitLen == [f \in AllFrames |-> 1]

CONSTANT Scenes
VARIABLE scene
MCVars == <<fanVars, scene>>

Idle(f) ==
  /\ cs'[f].resetIn <= cs[f].resetIn
  /\ cs'[f] = [cs[f] EXCEPT !.resetIn = cs'[f].resetIn]

MCInit == FanInit /\ scene \in Scenes
MCNext ==
  /\ FanNext
  /\ scene = "published" =>
       /\ Idle("s2") /\ clients' = {}
       /\ cs'["relay"].count <= 1 /\ cs'["relay"].limit = DefaultLimit
  /\ scene = "beside" =>
       /\ Idle("relay") /\ clients' = {}
       /\ cs'["s2"].count <= 1 /\ cs'["s2"].limit = DefaultLimit
  /\ scene = "subscribed" =>
       Idle("relay") /\ \A f \in Feeders : cs'[f].count = 0 /\ cs'[f].limit = DefaultLimit
  /\ UNCHANGED scene
MCSpec == MCInit /\ [][MCNext]_MCVars
=============================================================================

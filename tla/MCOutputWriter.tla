--------------------------- MODULE MCOutputWriter ---------------------------
(* Instances of OutputWriter for TLC: frames of one and two bytes.  No     *)
(* property tells the heartbeat from another frame of its length, so it is *)
(* the short one.                                                          *)
EXTENDS OutputWriter

MCFrames == {"short", "long"}
MCFrameLen == [f \in MCFrames |-> IF f = "long" THEN 2 ELSE 1]
=============================================================================

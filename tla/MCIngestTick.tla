---------------------------- MODULE MCIngestTick ----------------------------
(* What the loop deals with at a time: callsigns that are looked up,       *)
(* frames for the reduce output, positions that teach the coverage, or the *)
(* halves of a position, alone or with a lookup that blocks the loop.      *)
(* While it deals with halves alone nothing else goes wrong: no write of   *)
(* an empty file fails and the process does not crash.  The theorems are   *)
(* about every mixture.                                                    *)
EXTENDS IngestTick

MCCalls == {[callsign |-> c] : c \in Callsigns}
MCHalves == {[half |-> k] : k \in Parities}
MCFrames == {[icao |-> i] : i \in Icaos}

MCHeard == {MCCalls, MCFrames, {[taught |-> TRUE]}, MCHalves}
MCBlocked == {MCCalls \cup MCHalves}

Undisturbed ==
  /\ Hear \/ Loop \/ Clock
  /\ written' \/ pc' = "write"
  /\ mapWritten' \/ pc' = "map"
MCNext == IF traffic = MCHalves THEN Undisturbed ELSE Next
MCSpec == Init /\ [][MCNext]_vars /\ Fairness
=============================================================================

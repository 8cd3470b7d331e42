------------------------------- MODULE FanOut -------------------------------
(***************************************************************************)
(* The fan-out path of src/src/ingest.rs: feeders (ClientState) emit       *)
(* frames that the ingest thread appends to the beast output (an           *)
(* OutputWriter), or to the garbage output, from which subscribers get     *)
(* them.  The prefix of a frame and the frame are two appends, between     *)
(* which the shared buffer may be flushed.                                 *)
(*                                                                         *)
(* The garbage output is another OutputWriter; here only the order of what *)
(* is appended to it matters, which lastPublished keeps for both outputs.  *)
(***************************************************************************)
EXTENDS OutputWriter, ClientState

VARIABLE lastPublished  \* history: the last frame appended to each output

fanVars == <<vars, clientVars, lastPublished>>

(* The heartbeat is a Mode-A/C frame with no receiver behind it. *)
HeartbeatFrame == [kind |-> "hb", id |-> NoId]
AllFrames == StreamFrames \cup {HeartbeatFrame}

ASSUME FanOutAssumption == Frames = AllFrames /\ Heartbeat = HeartbeatFrame

FanInit ==
  /\ Init
  /\ ClientInit
  /\ lastPublished = [o \in {"beast", "garbage"} |-> HeartbeatFrame]

(* One turn of feed, or one action of a peer or the clock on that side. *)
FeederStep == ClientStep /\ UNCHANGED vars /\ UNCHANGED lastPublished

(* The closure of ingest.rs:174-181 on the next emitted frame. *)
Publish ==
  /\ Emit
  /\ LET h == Head(emits)
         output == IF h.garbage THEN "garbage" ELSE "beast"
     IN /\ lastPublished' = [lastPublished EXCEPT ![output] = h.frame]
        /\ IF h.garbage THEN UNCHANGED vars ELSE AppendFrame(h.frame)

(* What the ingest thread does between two reads. *)
Timer ==
  /\ emits = <<>>
  /\ \/ TimerFlush /\ UNCHANGED lastPublished
     \/ SendHeartbeat /\ lastPublished' = [lastPublished EXCEPT !["beast"] = Heartbeat]
  /\ UNCHANGED clientVars

Subscribe ==
  /\ emits = <<>>
  /\ \E c \in Clients : AddClient(c)
  /\ UNCHANGED <<clientVars, lastPublished>>

WriterEnvironment == Environment /\ UNCHANGED <<clientVars, lastPublished>>

FanNext == FeederStep \/ Publish \/ Timer \/ Subscribe \/ WriterEnvironment
FanSpec == FanInit /\ [][FanNext]_fanVars

-----------------------------------------------------------------------------
(* The receivers no relay speaks for.  What a relay announces comes from   *)
(* its own stream and may be cut off from its message by another feeder.   *)
Alone == {r \in Receivers : \A f \in Relays : r \notin Behind[f] \cup {Sender[f]}}

(* How a subscriber reads the stream: a frame belongs to the receiver that *)
(* an E3 frame directly before it announces, and to nobody without one.    *)
Attributed(before, frame) ==
  frame.kind = "msg" /\ before.kind = "e3" /\ before.id \in Alone => before.id = frame.id

(* No output ever publishes a message directly after the announcement of   *)
(* another receiver, nor the message of an identified station without its  *)
(* own: feeders are interleaved, relays among them, and moved between the  *)
(* two outputs by the rate limiter, only at frame boundaries.              *)
PublishedAttribution ==
  [][\A o \in {"beast", "garbage"} :
       emits # <<>> /\ lastPublished'[o] # lastPublished[o] =>
         Attributed(lastPublished[o], lastPublished'[o])]_fanVars
IdentifiedStaysIdentified ==
  [][emits # <<>> /\ emits' # emits /\ Head(emits).frame.kind = "msg" =>
       LET r == Head(emits).frame.id
           o == IF Head(emits).garbage THEN "garbage" ELSE "beast"
       IN \A f \in Feeders :
            r \in Behind[f] \cap Alone /\ cs[f].locked => lastPublished[o] = E3(r)]_fanVars

(* How every subscriber reads what it has got and what is queued for it.   *)
AllAttributed(c) ==
  LET stream == last[c] \o sub[c].sendq
  IN \A i \in 1..(Len(stream) - 1) :
       Attributed(stream[i].frame, stream[i + 1].frame)

(* A subscriber that keeps up attributes every message correctly, whatever *)
(* the chunks the stream was cut into and however its peer reads.          *)
AttributedUntilLoss == \A c \in clients : ~lossy[c] => AllAttributed(c)

(* README.md:24 and 27, "UUID -> receiverId tracking and E3 prefix         *)
(* injection" with "dropHalf backpressure": a slow subscriber loses        *)
(* messages, but those it gets are attributed to their own receivers.  The *)
(* code may drop the chunk between a prefix and the next message.          *)
SubscriberAttribution == \A c \in clients : AllAttributed(c)
=============================================================================

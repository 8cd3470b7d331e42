---------------------------- MODULE OutputWriter ----------------------------
(***************************************************************************)
(* One OutputWriter of src/src/writer.rs: a shared buffer that collects    *)
(* whole frames, and the subscribers ("SubClient") that every flushed      *)
(* chunk is offered to.  A subscriber has a bounded send queue; when a     *)
(* chunk does not fit, the writer enters "dropHalf" for it and skips every *)
(* other chunk for a while.  A subscriber that cannot be written to for    *)
(* StallTime is removed.                                                   *)
(*                                                                         *)
(* The writer belongs to the single ingest thread, so append, check_flush  *)
(* and add_client are atomic.  The kernel socket of each subscriber and    *)
(* its peer run concurrently with it (sock).                               *)
(*                                                                         *)
(* Instants are kept as ages that saturate once every comparison the code  *)
(* makes with them is decided; drop_until is kept as the time left.        *)
(* last_flush and last_write are always assigned together (lines 101-102), *)
(* so one age, sinceFlush, stands for both.                                *)
(***************************************************************************)
EXTENDS Integers, Sequences

CONSTANTS
  Clients,            \* connection slots of subscribers
  Frames,             \* the frames that are appended
  FrameLen,           \* their lengths in bytes
  Heartbeat,          \* the frame check_flush adds on an idle output
  FlushSize,          \* FLUSH_SIZE
  SendqMax,           \* SENDQ_MAX
  FlushInterval,      \* flush_interval, in ticks
  HeartbeatInterval,  \* heartbeat_interval, in ticks
  DropTime,           \* the 2 s of start_drop_half
  StallTime,          \* the 5 s of try_flush
  SockCap             \* bytes the kernel holds for a peer that does not read

ASSUME WriterAssumption ==
  /\ FrameLen \in [Frames -> Nat \ {0}]
  /\ Heartbeat \in Frames
  /\ FlushSize \in Nat \ {0}
  /\ SendqMax \in Nat
  /\ FlushInterval \in Nat \ {0}
  /\ HeartbeatInterval \in Nat
  /\ HeartbeatInterval > FlushInterval
  /\ DropTime \in Nat \ {0}
  /\ StallTime \in Nat \ {0}
  /\ SockCap \in Nat \ {0}

VARIABLES
  buf,         \* the shared buffer, a sequence of bytes
  sinceFlush,  \* age of last_flush (and last_write)
  clients,     \* the slots of the subscribers the writer holds
  sub,         \* what the writer knows of each of them
  sock,        \* the kernel's side of each connection
  last,        \* history: the last byte written to the socket, if any
  roomSkips,   \* history: chunks skipped in a row although they fitted
  lossy        \* history: a chunk has been skipped since the subscriber came

vars == <<buf, sinceFlush, clients, sub, sock, last, roomSkips, lossy>>

-----------------------------------------------------------------------------
(* A byte is a position in the frame it belongs to. *)
Byte == [frame : Frames, pos : Nat \ {0}]
Bytes(f) == [i \in 1..FrameLen[f] |-> [frame |-> f, pos |-> i]]

SubClient == [sendq : Seq(Byte), toggle : BOOLEAN,
              dropLeft : 0..DropTime, sinceSend : 0..(StallTime + 1)]
NewClient == [sendq |-> <<>>, toggle |-> FALSE, dropLeft |-> 0, sinceSend |-> 0]

Socket == [used : 0..SockCap, fullFor : 0..(StallTime + 1), gone : BOOLEAN]
NewSocket == [used |-> 0, fullFor |-> 0, gone |-> FALSE]

Init ==
  /\ buf = <<>>
  /\ sinceFlush = 0
  /\ clients = {}
  /\ sub = [c \in Clients |-> NewClient]
  /\ sock = [c \in Clients |-> NewSocket]
  /\ last = [c \in Clients |-> <<>>]
  /\ roomSkips = [c \in Clients |-> 0]
  /\ lossy = [c \in Clients |-> FALSE]

-----------------------------------------------------------------------------
(* start_drop_half has just run when the chunk does not fit, so dropping   *)
(* is decided after it: drop_until is then in the future.                  *)
Insufficient(s, chunk) == Len(s.sendq) + Len(chunk) > SendqMax
Dropping(s, chunk) == Insufficient(s, chunk) \/ s.dropLeft > 0

(* The toggle after the flush: start_drop_half sets it, dropping flips it. *)
ToggledOnce(s, chunk) == Insufficient(s, chunk) \/ s.toggle  \* seeded bug: never flipped
Toggled(s, chunk) ==
  IF Dropping(s, chunk) THEN ~(Insufficient(s, chunk) \/ s.toggle) ELSE s.toggle

SkippedInTurn(s, chunk) ==  \* seeded bug: dropHalf is trusted to make room
  Dropping(s, chunk) /\ Toggled(s, chunk)
Skipped(s, chunk) ==
  Dropping(s, chunk) /\ (Toggled(s, chunk) \/ Insufficient(s, chunk))

(* Seeded bugs: the queue takes what fits of a chunk; drop_until moves on  *)
(* from its last value.                                                    *)
OfferPart(s, chunk) ==
  [sendq     |-> s.sendq \o SubSeq(chunk, 1, IF Insufficient(s, chunk)
                                              THEN SendqMax - Len(s.sendq) ELSE Len(chunk)),
   toggle    |-> s.toggle,
   dropLeft  |-> s.dropLeft,
   sinceSend |-> s.sinceSend]
OfferProlonging(s, chunk) ==
  [sendq     |-> IF Skipped(s, chunk) THEN s.sendq ELSE s.sendq \o chunk,
   toggle    |-> Toggled(s, chunk),
   dropLeft  |-> IF Insufficient(s, chunk) THEN s.dropLeft + DropTime ELSE s.dropLeft,
   sinceSend |-> s.sinceSend]

(* The first loop of flush: offer the chunk to one subscriber. *)
Offer(s, chunk) ==
  [sendq     |-> IF Skipped(s, chunk) THEN s.sendq ELSE s.sendq \o chunk,
   toggle    |-> Toggled(s, chunk),
   dropLeft  |-> IF Insufficient(s, chunk) THEN DropTime ELSE s.dropLeft,
   sinceSend |-> s.sinceSend]

(* What one non-blocking write of the queue can take: nothing from a gone  *)
(* peer or into a full socket, otherwise any amount the socket has room    *)
(* for (the queue is a ring buffer and only its first slice is offered).   *)
Writable(s, k) ==
  IF s.sendq = <<>> \/ k.gone \/ k.used = SockCap THEN {0}
  ELSE {n \in 1..Len(s.sendq) : n <= SockCap - k.used}

(* Seeded bugs: last_send is kept from the start; only an error removes.   *)
TryFlushUnstamped(s, n) == [s EXCEPT !.sendq = SubSeq(s.sendq, n + 1, Len(s.sendq))]
DeadOnError(s, k) == s.sendq # <<>> /\ k.gone

(* try_flush on a non-empty queue, when n bytes were written. *)
TryFlush(s, n) ==
  [sendq     |-> SubSeq(s.sendq, n + 1, Len(s.sendq)),
   toggle    |-> s.toggle,
   dropLeft  |-> s.dropLeft,
   sinceSend |-> IF n > 0 THEN 0 ELSE s.sinceSend]
Dead(s, k) == s.sendq # <<>> /\ (k.gone \/ s.sinceSend > StallTime)

(* flush: every subscriber is offered the chunk and gets one write, then   *)
(* the dead ones are removed.                                              *)
Flush(chunk) ==
  \E n \in [clients -> 0..SockCap] :
    LET offered == [c \in clients |-> Offer(sub[c], chunk)]
        flushed == [c \in clients |-> TryFlush(offered[c], n[c])]
        dead    == {c \in clients : Dead(flushed[c], sock[c])}
        stay    == clients \ dead
    IN /\ \A c \in clients : n[c] \in Writable(offered[c], sock[c])
       /\ clients' = stay
       /\ sub' = [c \in Clients |-> IF c \in stay THEN flushed[c] ELSE NewClient]
       /\ sock' = [c \in Clients |->
            IF c \in stay THEN [sock[c] EXCEPT !.used = @ + n[c]] ELSE NewSocket]
       /\ last' = [c \in Clients |->
            IF c \notin stay THEN <<>>
            ELSE IF n[c] > 0 THEN <<offered[c].sendq[n[c]]>> ELSE last[c]]
       /\ roomSkips' = [c \in Clients |->
            IF c \in stay /\ Skipped(sub[c], chunk) /\ ~Insufficient(sub[c], chunk)
            THEN roomSkips[c] + 1 ELSE 0]
       /\ lossy' = [c \in Clients |->
            c \in stay /\ (lossy[c] \/ Skipped(sub[c], chunk))]
       /\ buf' = <<>>
       /\ sinceFlush' = 0

AppendFrame(f) ==
  LET data == buf \o Bytes(f)
  IN IF Len(data) >= FlushSize
     THEN Flush(data)
     ELSE buf' = data /\ UNCHANGED <<sinceFlush, clients, sub, sock, last, roomSkips, lossy>>

(* check_flush.  Both branches cannot fire in one call: a flush resets     *)
(* last_write, and heartbeat_interval is longer than flush_interval.       *)
FlushDue == buf # <<>> /\ sinceFlush >= FlushInterval
TimerFlush == FlushDue /\ Flush(buf)
SendHeartbeat ==
  /\ ~FlushDue
  /\ sinceFlush >= HeartbeatInterval
  /\ Flush(buf \o Bytes(Heartbeat))
CheckFlush == TimerFlush \/ SendHeartbeat

AddClient(c) ==
  /\ c \notin clients
  /\ clients' = clients \cup {c}
  /\ UNCHANGED <<buf, sinceFlush, sub, sock, last, roomSkips, lossy>>

-----------------------------------------------------------------------------
(* The peers and the clock. *)
PeerReads(c) ==
  /\ c \in clients /\ sock[c].used > 0
  /\ \E k \in 1..sock[c].used :
       sock' = [sock EXCEPT
         ![c] = [used |-> sock[c].used - k, fullFor |-> 0, gone |-> sock[c].gone]]
  /\ UNCHANGED <<buf, sinceFlush, clients, sub, last, roomSkips, lossy>>

PeerCloses(c) ==
  /\ c \in clients /\ ~sock[c].gone
  /\ sock' = [sock EXCEPT ![c].gone = TRUE]
  /\ UNCHANGED <<buf, sinceFlush, clients, sub, last, roomSkips, lossy>>

Older(age, bound) == IF age < bound THEN age + 1 ELSE age
Tick ==
  /\ sinceFlush' = Older(sinceFlush, HeartbeatInterval)
  /\ sub' = [c \in Clients |->
       IF c \in clients
       THEN [sub[c] EXCEPT !.dropLeft = IF @ > 0 THEN @ - 1 ELSE 0,
                           !.sinceSend = Older(@, StallTime + 1)]
       ELSE sub[c]]
  /\ sock' = [c \in Clients |->
       IF sock[c].used = SockCap
       THEN [sock[c] EXCEPT !.fullFor = Older(@, StallTime + 1)]
       ELSE sock[c]]
  /\ UNCHANGED <<buf, clients, last, roomSkips, lossy>>

Environment == Tick \/ \E c \in Clients : PeerReads(c) \/ PeerCloses(c)

Next ==
  \/ \E f \in Frames : AppendFrame(f)
  \/ CheckFlush
  \/ \E c \in Clients : AddClient(c)
  \/ Environment

Spec == Init /\ [][Next]_vars

(* The main loop polls with a 10 ms timeout and calls check_flush every    *)
(* 50 ms, so check_flush and the clock are weakly fair.  Nothing obliges a *)
(* peer to read or a feeder to send.                                       *)
FairSpec == Spec /\ WF_vars(CheckFlush) /\ WF_vars(Tick)

-----------------------------------------------------------------------------
TypeOK ==
  /\ buf \in Seq(Byte)
  /\ sinceFlush \in 0..HeartbeatInterval
  /\ clients \subseteq Clients
  /\ sub \in [Clients -> SubClient]
  /\ sock \in [Clients -> Socket]
  /\ last \in [Clients -> Seq(Byte)]
  /\ roomSkips \in [Clients -> Nat]
  /\ lossy \in [Clients -> BOOLEAN]

(* The memory of a slow subscriber is bounded: its queue never exceeds     *)
(* SENDQ_MAX, whatever is flushed and however slowly the peer reads        *)
(* (flush, lines 82-96, where `insufficient` implies `drop_until > now`).  *)
SendqBounded == \A c \in clients : Len(sub[c].sendq) <= SendqMax

(* dropHalf drops at most half: of two chunks flushed one after the other  *)
(* that both fit the queue, at most one is skipped (lines 88-93).          *)
AtMostHalfDropped == \A c \in Clients : roomSkips[c] <= 1

(* What a subscriber has read and is going to read is a sequence of whole  *)
(* frames: neither a partial write nor a skipped chunk cuts one in two     *)
(* (append takes whole frames, flush queues a chunk whole or not at all).  *)
FirstByte(b) == b.pos = 1
FinalByte(b) == b.pos = FrameLen[b.frame]
Follows(a, b) ==
  \/ FinalByte(a) /\ FirstByte(b)
  \/ b.frame = a.frame /\ b.pos = a.pos + 1
WholeFrames(s) ==
  /\ \A i \in 1..(Len(s) - 1) : Follows(s[i], s[i + 1])
  /\ s # <<>> => FinalByte(s[Len(s)])
FramesStayWhole ==
  \A c \in clients :
    LET stream == last[c] \o sub[c].sendq
    IN /\ WholeFrames(stream)
       /\ last[c] = <<>> /\ stream # <<>> => FirstByte(stream[1])

(* A subscriber is removed only when its peer is gone or its socket has    *)
(* been full, without a single byte read, for more than StallTime: the age *)
(* of last_send never blames a peer that was merely sent nothing.          *)
RemovedForCause ==
  [][\A c \in clients \ clients' :
       sock[c].gone \/ sock[c].fullFor > StallTime]_vars

(* A peer that has stopped reading does not stay: no subscriber keeps a    *)
(* full socket for ever.  On an otherwise idle output it is the heartbeat  *)
(* that brings the check of lines 169-172 about.                           *)
StuckPeerRemoved ==
  \A c \in Clients : []<>(c \notin clients \/ sock[c].used < SockCap)

(* The writer implements the broadcast that is promised to subscribers:    *)
(* seen from outside, flush offers each of them the whole buffer or none   *)
(* of it, in order, and no other step touches what is queued.              *)
Promise == INSTANCE LossyBroadcast WITH
  Members <- Clients, Items <- {Bytes(f) : f \in Frames}, Limit <- SendqMax,
  collected <- buf, members <- clients, queue <- [c \in Clients |-> sub[c].sendq]
KeepsItsPromise == Promise!LBSpec
=============================================================================

------------------------- MODULE OutputWriterProofs -------------------------
(***************************************************************************)
(* Theorems about OutputWriter, for every value of its constants.          *)
(***************************************************************************)
EXTENDS OutputWriter, SequenceTheorems, TLAPS

(* A free slot is as new: its record is reset when a subscriber is removed *)
FreeSlots ==
  \A c \in Clients \ clients :
    sub[c] = NewClient /\ sock[c] = NewSocket /\ last[c] = <<>>

(* A skip of a chunk that fitted leaves the toggle set.                    *)
SkipsAlternate ==
  \A c \in Clients : roomSkips[c] <= 1 /\ (roomSkips[c] = 1 => sub[c].toggle)

(* Only the writer fills a socket, so a full one has been full since the   *)
(* last successful write.                                                  *)
FullSinceLastSend ==
  \A c \in clients : sock[c].used = SockCap => sock[c].fullFor >= sub[c].sinceSend

WriterInv ==
  TypeOK /\ FreeSlots /\ SendqBounded /\ SkipsAlternate /\ FullSinceLastSend

-----------------------------------------------------------------------------
LEMMA BytesType ==
  ASSUME NEW f \in Frames
  PROVE  Bytes(f) \in Seq(Byte)
<1>1. FrameLen[f] \in Nat
  BY WriterAssumption
<1>2. \A i \in 1..FrameLen[f] : [frame |-> f, pos |-> i] \in Byte
  BY <1>1 DEF Byte
<1> QED
  BY <1>1, <1>2, IsASeq DEF Bytes

(* The first loop of flush: the offered record is well typed, its queue    *)
(* is within the bound, and a skip without need leaves the toggle set.     *)
LEMMA OfferLemma ==
  ASSUME NEW s \in SubClient, NEW chunk \in Seq(Byte)
  PROVE  /\ Offer(s, chunk) \in SubClient
         /\ Len(s.sendq) <= SendqMax => Len(Offer(s, chunk).sendq) <= SendqMax
         /\ Offer(s, chunk).sinceSend = s.sinceSend
         /\ Offer(s, chunk).toggle = Toggled(s, chunk)
<1> USE WriterAssumption
<1>1. s.sendq \in Seq(Byte) /\ Len(s.sendq) \in Nat /\ Len(chunk) \in Nat
  BY LenProperties DEF SubClient
<1>2. Toggled(s, chunk) \in BOOLEAN
  BY DEF Toggled, SubClient
<1>3. s.sendq \o chunk \in Seq(Byte) /\ Len(s.sendq \o chunk) = Len(s.sendq) + Len(chunk)
  BY <1>1, ConcatProperties
<1>4. ~Skipped(s, chunk) => Len(s.sendq) + Len(chunk) <= SendqMax
  BY <1>1 DEF Skipped, Dropping, Insufficient
<1>5. Offer(s, chunk) \in SubClient
  BY <1>1, <1>2, <1>3 DEF Offer, SubClient
<1> QED
  BY <1>1, <1>3, <1>4, <1>5 DEF Offer

LEMMA TryFlushLemma ==
  ASSUME NEW s \in SubClient, NEW k \in Socket, NEW n \in Writable(s, k)
  PROVE  /\ n \in 0..Len(s.sendq) /\ n \in 0..(SockCap - k.used)
         /\ TryFlush(s, n) \in SubClient
         /\ Len(TryFlush(s, n).sendq) = Len(s.sendq) - n
         /\ TryFlush(s, n).toggle = s.toggle
         /\ TryFlush(s, n).sinceSend = IF n > 0 THEN 0 ELSE s.sinceSend
<1> USE WriterAssumption
<1>1. s.sendq \in Seq(Byte) /\ Len(s.sendq) \in Nat /\ k.used \in 0..SockCap
  BY LenProperties DEF SubClient, Socket
<1>2. n \in 0..Len(s.sendq) /\ n \in 0..(SockCap - k.used)
  BY <1>1 DEF Writable
<1>3. /\ SubSeq(s.sendq, n + 1, Len(s.sendq)) \in Seq(Byte)
      /\ Len(SubSeq(s.sendq, n + 1, Len(s.sendq))) = Len(s.sendq) - n
  BY <1>1, <1>2, SubSeqProperties
<1>4. TryFlush(s, n) \in SubClient
  BY <1>2, <1>3 DEF TryFlush, SubClient
<1> QED
  BY <1>2, <1>3, <1>4 DEF TryFlush, SubClient

-----------------------------------------------------------------------------
(* The step every append and every timer can take.                         *)
LEMMA FlushKeepsInv ==
  ASSUME WriterInv, NEW chunk \in Seq(Byte), Flush(chunk)
  PROVE  WriterInv'
<1> USE WriterAssumption
<1> DEFINE Offered(c) == Offer(sub[c], chunk)
           Flushed(c, m) == TryFlush(Offered(c), m)
<1>1. PICK n \in [clients -> 0..SockCap], stay \in SUBSET clients :
        /\ \A c \in clients : n[c] \in Writable(Offered(c), sock[c])
        /\ clients' = stay
        /\ sub' = [c \in Clients |-> IF c \in stay THEN Flushed(c, n[c]) ELSE NewClient]
        /\ sock' = [c \in Clients |->
             IF c \in stay THEN [sock[c] EXCEPT !.used = @ + n[c]] ELSE NewSocket]
        /\ last' = [c \in Clients |->
             IF c \notin stay THEN <<>>
             ELSE IF n[c] > 0 THEN <<Offered(c).sendq[n[c]]>> ELSE last[c]]
        /\ roomSkips' = [c \in Clients |->
             IF c \in stay /\ Skipped(sub[c], chunk) /\ ~Insufficient(sub[c], chunk)
             THEN roomSkips[c] + 1 ELSE 0]
        /\ lossy' = [c \in Clients |->
             c \in stay /\ (lossy[c] \/ Skipped(sub[c], chunk))]
        /\ buf' = <<>>
        /\ sinceFlush' = 0
  <2>1. PICK n \in [clients -> 0..SockCap] :
          LET offered == [c \in clients |-> Offer(sub[c], chunk)]
              flushed == [c \in clients |-> TryFlush(offered[c], n[c])]
              dead    == {c \in clients : Dead(flushed[c], sock[c])}
              stay    == clients \ dead
          IN /\ \A c \in clients : n[c] \in Writable(offered[c], sock[c])
             /\ clients' = stay
             /\ sub' = [c \in Clients |-> IF c \in stay THEN flushed[c] ELSE NewClient]
             /\ sock' = [c \in Clients |->
                  IF c \in stay THEN [sock[c] EXCEPT !.used = @ + n[c]] ELSE NewSocket]
             /\ last' = [c \in Clients |->
                  IF c \notin stay THEN <<>>
                  ELSE IF n[c] > 0 THEN <<offered[c].sendq[n[c]]>> ELSE last[c]]
             /\ roomSkips' = [c \in Clients |->
                  IF c \in stay /\ Skipped(sub[c], chunk) /\ ~Insufficient(sub[c], chunk)
                  THEN roomSkips[c] + 1 ELSE 0]
             /\ lossy' = [c \in Clients |->
                  c \in stay /\ (lossy[c] \/ Skipped(sub[c], chunk))]
             /\ buf' = <<>>
             /\ sinceFlush' = 0
    BY DEF Flush
  <2> DEFINE stay == {c \in clients : ~Dead(Flushed(c, n[c]), sock[c])}
  <2> WITNESS n \in [clients -> 0..SockCap], stay \in SUBSET clients
  <2> QED
    BY <2>1
<1>2. /\ clients \subseteq Clients
      /\ \A c \in clients : sub[c] \in SubClient /\ sock[c] \in Socket
  BY DEF WriterInv, TypeOK
<1>3. ASSUME NEW c \in clients
      PROVE  /\ Flushed(c, n[c]) \in SubClient
             /\ Len(Flushed(c, n[c]).sendq) <= SendqMax
             /\ n[c] \in 0..(SockCap - sock[c].used)
             /\ n[c] \in 0..Len(Offered(c).sendq)
             /\ Flushed(c, n[c]).sinceSend = IF n[c] > 0 THEN 0 ELSE sub[c].sinceSend
             /\ Flushed(c, n[c]).toggle = Toggled(sub[c], chunk)
  <2>1. sub[c] \in SubClient /\ sock[c] \in Socket /\ Len(sub[c].sendq) <= SendqMax
    BY <1>2 DEF WriterInv, SendqBounded
  <2>2. /\ Offered(c) \in SubClient
        /\ Len(Offered(c).sendq) <= SendqMax
        /\ Offered(c).sinceSend = sub[c].sinceSend
        /\ Offered(c).toggle = Toggled(sub[c], chunk)
    BY <2>1, OfferLemma
  <2>3. n[c] \in Writable(Offered(c), sock[c])
    BY <1>1
  <2>4. Len(Offered(c).sendq) \in Nat
    BY <2>2, LenProperties DEF SubClient
  <2> HIDE DEF Offered
  <2> QED
    BY <2>1, <2>2, <2>3, <2>4, TryFlushLemma
<1> HIDE DEF Offered, Flushed
<1>4. TypeOK'
  <2>1. buf' \in Seq(Byte) /\ sinceFlush' \in 0..HeartbeatInterval
    BY <1>1, EmptySeq
  <2>2. NewClient \in SubClient /\ NewSocket \in Socket
    BY EmptySeq DEF NewClient, SubClient, NewSocket, Socket
  <2>3. sub' \in [Clients -> SubClient]
    BY <1>1, <1>3, <2>2
  <2>4. sock' \in [Clients -> Socket]
    <3>1. ASSUME NEW c \in clients
          PROVE  [sock[c] EXCEPT !.used = @ + n[c]] \in Socket
      <4>1. sock[c].used + n[c] \in 0..SockCap
        BY <1>2, <1>3 DEF Socket
      <4> QED
        BY <1>2, <4>1 DEF Socket
    <3> QED
      BY <1>1, <2>2, <3>1
  <2>5. last' \in [Clients -> Seq(Byte)]
    <3>1. ASSUME NEW c \in clients, n[c] > 0
          PROVE  <<Offered(c).sendq[n[c]]>> \in Seq(Byte)
      <4>1. Offered(c).sendq \in Seq(Byte)
        BY <1>2, OfferLemma DEF Offered, SubClient
      <4>2. Offered(c).sendq[n[c]] \in Byte
        BY <3>1, <4>1, <1>3, ElementOfSeq
      <4> QED
        BY <4>2
    <3> QED
      BY <1>1, <3>1, EmptySeq DEF WriterInv, TypeOK
  <2>6. roomSkips' \in [Clients -> Nat] /\ lossy' \in [Clients -> BOOLEAN]
    <3>1. \A c \in Clients :
            (c \in stay /\ (lossy[c] \/ Skipped(sub[c], chunk))) \in BOOLEAN
      OBVIOUS
    <3> QED
      BY <1>1, <3>1 DEF WriterInv, TypeOK
  <2> QED
    BY <1>1, <1>2, <2>1, <2>3, <2>4, <2>5, <2>6 DEF TypeOK
<1>5. FreeSlots'
  BY <1>1 DEF FreeSlots
<1>6. SendqBounded'
  BY <1>1, <1>2, <1>3 DEF SendqBounded
<1>7. SkipsAlternate'
  <2> SUFFICES ASSUME NEW c \in Clients
               PROVE  roomSkips'[c] <= 1 /\ (roomSkips'[c] = 1 => sub'[c].toggle)
    BY DEF SkipsAlternate
  <2>1. CASE c \in stay /\ Skipped(sub[c], chunk) /\ ~Insufficient(sub[c], chunk)
    <3>1. ~sub[c].toggle /\ Toggled(sub[c], chunk)
      BY <2>1 DEF Skipped, Dropping, Toggled
    <3>2. roomSkips[c] = 0
      BY <3>1 DEF WriterInv, TypeOK, SkipsAlternate
    <3> QED
      BY <1>1, <1>3, <2>1, <3>1, <3>2
  <2>2. CASE ~(c \in stay /\ Skipped(sub[c], chunk) /\ ~Insufficient(sub[c], chunk))
    BY <1>1, <2>2
  <2> QED
    BY <2>1, <2>2
<1>8. FullSinceLastSend'
  <2> SUFFICES ASSUME NEW c \in stay, sock'[c].used = SockCap
               PROVE  sock'[c].fullFor >= sub'[c].sinceSend
    BY <1>1 DEF FullSinceLastSend
  <2>4. c \in clients /\ c \in Clients /\ sock[c] \in Socket /\ sub[c] \in SubClient
    BY <1>1, <1>2
  <2>5. sock'[c] = [sock[c] EXCEPT !.used = @ + n[c]] /\ sub'[c] = Flushed(c, n[c])
    BY <1>1, <2>4
  <2>6. n[c] \in 0..(SockCap - sock[c].used)
    BY <1>3, <2>4
  <2>1. /\ sock'[c].used = sock[c].used + n[c]
        /\ sock'[c].fullFor = sock[c].fullFor
        /\ sub'[c].sinceSend = IF n[c] > 0 THEN 0 ELSE sub[c].sinceSend
    BY <1>3, <2>4, <2>5 DEF Socket
  <2>2. sock[c].used \in Nat /\ sock[c].fullFor \in Nat /\ sub[c].sinceSend \in Nat
    BY <2>4 DEF Socket, SubClient
  <2>3. sock[c].used = SockCap => sock[c].fullFor >= sub[c].sinceSend
    BY <2>4 DEF WriterInv, FullSinceLastSend
  <2> QED
    BY <2>1, <2>2, <2>3, <2>6
<1> QED
  BY <1>4, <1>5, <1>6, <1>7, <1>8 DEF WriterInv

-----------------------------------------------------------------------------
LEMMA InitInv == Init => WriterInv
<1> SUFFICES ASSUME Init PROVE WriterInv
  OBVIOUS
<1> USE WriterAssumption
<1>1. NewClient \in SubClient /\ NewSocket \in Socket
  BY EmptySeq DEF NewClient, SubClient, NewSocket, Socket
<1>2. TypeOK
  BY <1>1, EmptySeq DEF Init, TypeOK
<1> QED
  BY <1>2 DEF Init, WriterInv, FreeSlots, SendqBounded, SkipsAlternate, FullSinceLastSend

LEMMA AppendKeepsInv ==
  ASSUME WriterInv, NEW f \in Frames, AppendFrame(f)
  PROVE  WriterInv'
<1>1. buf \o Bytes(f) \in Seq(Byte)
  BY BytesType, ConcatProperties DEF WriterInv, TypeOK
<1>2. CASE Len(buf \o Bytes(f)) >= FlushSize
  <2>1. Flush(buf \o Bytes(f))
    BY <1>2 DEF AppendFrame
  <2> QED
    BY <1>1, <2>1, FlushKeepsInv
<1>3. CASE ~(Len(buf \o Bytes(f)) >= FlushSize)
  BY <1>1, <1>3 DEF AppendFrame, WriterInv, TypeOK, FreeSlots, SendqBounded,
                    SkipsAlternate, FullSinceLastSend
<1> QED
  BY <1>2, <1>3

LEMMA CheckFlushKeepsInv ==
  ASSUME WriterInv, CheckFlush
  PROVE  WriterInv'
<1>1. CASE TimerFlush
  BY <1>1, FlushKeepsInv DEF TimerFlush, WriterInv, TypeOK
<1>2. CASE SendHeartbeat
  <2>1. Heartbeat \in Frames
    BY WriterAssumption
  <2>2. buf \o Bytes(Heartbeat) \in Seq(Byte)
    BY <2>1, BytesType, ConcatProperties DEF WriterInv, TypeOK
  <2> QED
    BY <1>2, <2>2, FlushKeepsInv DEF SendHeartbeat
<1> QED
  BY <1>1, <1>2 DEF CheckFlush

(* What the clock changes in the record of a subscriber.                   *)
LEMMA TickOnRecord ==
  ASSUME WriterInv, Tick, NEW c \in Clients
  PROVE  /\ sub'[c] \in SubClient
         /\ sub'[c].sendq = sub[c].sendq
         /\ sub'[c].toggle = sub[c].toggle
         /\ c \in clients => sub'[c].sinceSend = Older(sub[c].sinceSend, StallTime + 1)
         /\ c \notin clients => sub'[c] = sub[c]
<1> USE WriterAssumption
<1>1. sub[c] \in SubClient
  BY DEF WriterInv, TypeOK
<1>2. Older(sub[c].sinceSend, StallTime + 1) \in 0..(StallTime + 1)
  BY <1>1 DEF SubClient, Older
<1>3. (IF sub[c].dropLeft > 0 THEN sub[c].dropLeft - 1 ELSE 0) \in 0..DropTime
  BY <1>1 DEF SubClient
<1>4. CASE c \in clients
  BY <1>1, <1>2, <1>3, <1>4 DEF Tick, SubClient
<1>5. CASE c \notin clients
  BY <1>1, <1>5 DEF Tick
<1> QED
  BY <1>4, <1>5

LEMMA TickKeepsInv ==
  ASSUME WriterInv, Tick
  PROVE  WriterInv'
<1> USE WriterAssumption
<1>1. \A age, bound \in Nat : age <= bound => Older(age, bound) \in 0..bound
  BY DEF Older
<1>2. ASSUME NEW c \in Clients
      PROVE  /\ sub'[c] \in SubClient
             /\ sub'[c].sendq = sub[c].sendq
             /\ sub'[c].toggle = sub[c].toggle
             /\ c \in clients => sub'[c].sinceSend = Older(sub[c].sinceSend, StallTime + 1)
             /\ c \notin clients => sub'[c] = sub[c]
  BY TickOnRecord
<1>3. ASSUME NEW c \in Clients
      PROVE  /\ sock'[c] \in Socket
             /\ sock'[c].used = sock[c].used
             /\ sock[c].used # SockCap => sock'[c] = sock[c]
             /\ sock[c].used = SockCap =>
                  sock'[c].fullFor = Older(sock[c].fullFor, StallTime + 1)
  <2>1. sock[c] \in Socket
    BY DEF WriterInv, TypeOK
  <2>2. Older(sock[c].fullFor, StallTime + 1) \in 0..(StallTime + 1)
    BY <2>1 DEF Socket, Older
  <2> QED
    BY <2>1, <2>2 DEF Tick, Socket
<1>4. TypeOK'
  <2>1. sinceFlush' \in 0..HeartbeatInterval
    <3>1. sinceFlush \in Nat /\ HeartbeatInterval \in Nat /\ sinceFlush <= HeartbeatInterval
      BY DEF WriterInv, TypeOK
    <3> QED
      BY <1>1, <3>1 DEF Tick
  <2>2. sub' \in [Clients -> SubClient] /\ sock' \in [Clients -> Socket]
    BY <1>2, <1>3 DEF Tick
  <2> QED
    BY <2>1, <2>2 DEF Tick, WriterInv, TypeOK
<1>5. FreeSlots'
  <2>1. NewSocket.used # SockCap
    BY DEF NewSocket
  <2> QED
    BY <1>2, <1>3, <2>1 DEF Tick, WriterInv, FreeSlots
<1>6. SendqBounded'
  BY <1>2 DEF Tick, WriterInv, TypeOK, SendqBounded
<1>7. SkipsAlternate'
  BY <1>2 DEF Tick, WriterInv, SkipsAlternate
<1>8. FullSinceLastSend'
  <2> SUFFICES ASSUME NEW c \in clients, sock[c].used = SockCap
               PROVE  sock'[c].fullFor >= sub'[c].sinceSend
    BY <1>3 DEF Tick, WriterInv, TypeOK, FullSinceLastSend
  <2>1. c \in Clients /\ sub[c] \in SubClient /\ sock[c] \in Socket
    BY DEF WriterInv, TypeOK
  <2>2. /\ sub'[c].sinceSend = Older(sub[c].sinceSend, StallTime + 1)
        /\ sock'[c].fullFor = Older(sock[c].fullFor, StallTime + 1)
    BY <1>2, <1>3, <2>1
  <2>3. sock[c].fullFor >= sub[c].sinceSend
    BY DEF WriterInv, FullSinceLastSend
  <2> QED
    BY <2>1, <2>2, <2>3 DEF Older, SubClient, Socket
<1> QED
  BY <1>4, <1>5, <1>6, <1>7, <1>8 DEF WriterInv

LEMMA PeersKeepInv ==
  ASSUME WriterInv, NEW c \in Clients, AddClient(c) \/ PeerReads(c) \/ PeerCloses(c)
  PROVE  WriterInv'
<1> USE WriterAssumption
<1> USE DEF WriterInv, TypeOK, FreeSlots, SendqBounded, SkipsAlternate, FullSinceLastSend
<1>1. CASE AddClient(c)
  <2>1. sub[c] = NewClient /\ sock[c] = NewSocket
    BY <1>1 DEF AddClient
  <2>2. Len(sub[c].sendq) <= SendqMax /\ sock[c].used # SockCap
    BY <2>1, EmptySeq DEF NewClient, NewSocket
  <2> QED
    BY <1>1, <2>2 DEF AddClient
<1>2. CASE PeerReads(c)
  <2>1. PICK k \in 1..sock[c].used :
          sock' = [sock EXCEPT
            ![c] = [used |-> sock[c].used - k, fullFor |-> 0, gone |-> sock[c].gone]]
    BY <1>2 DEF PeerReads
  <2>2. sock[c] \in Socket
    OBVIOUS
  <2>3. /\ sock'[c] \in Socket
        /\ sock'[c].used # SockCap
        /\ \A d \in Clients \ {c} : sock'[d] = sock[d]
        /\ sock' \in [Clients -> Socket]
    <3>1. sock[c].used - k \in 0..SockCap /\ sock[c].used - k # SockCap
      BY <2>1, <2>2 DEF Socket
    <3> QED
      BY <2>1, <2>2, <3>1 DEF Socket
  <2> QED
    BY <1>2, <2>3 DEF PeerReads
<1>3. CASE PeerCloses(c)
  <2>1. /\ sock'[c] \in Socket
        /\ sock'[c].used = sock[c].used
        /\ sock'[c].fullFor = sock[c].fullFor
        /\ \A d \in Clients \ {c} : sock'[d] = sock[d]
        /\ sock' \in [Clients -> Socket]
    BY <1>3 DEF PeerCloses, Socket
  <2> QED
    BY <1>3, <2>1 DEF PeerCloses
<1> QED
  BY <1>1, <1>2, <1>3

LEMMA NextKeepsInv == WriterInv /\ [Next]_vars => WriterInv'
<1> SUFFICES ASSUME WriterInv, [Next]_vars PROVE WriterInv'
  OBVIOUS
<1>1. CASE UNCHANGED vars
  BY <1>1 DEF vars, WriterInv, TypeOK, FreeSlots, SendqBounded, SkipsAlternate,
              FullSinceLastSend
<1> QED
  BY <1>1, AppendKeepsInv, CheckFlushKeepsInv, TickKeepsInv, PeersKeepInv
  DEF Next, Environment

LEMMA InvHolds == Spec => []WriterInv
  BY InitInv, NextKeepsInv, PTL DEF Spec

(* The writer's variables keep their types.                                *)
THEOREM TypeCorrect == Spec => []TypeOK
<1>1. WriterInv => TypeOK
  BY DEF WriterInv
<1> QED
  BY <1>1, InvHolds, PTL

(* A send queue never exceeds SENDQ_MAX, for every chunk size, number of   *)
(* subscribers and behaviour of their peers.                               *)
THEOREM QueueBound == Spec => []SendqBounded
<1>1. WriterInv => SendqBounded
  BY DEF WriterInv
<1> QED
  BY <1>1, InvHolds, PTL

(* Of two consecutive chunks that fit a queue, dropHalf skips at most one. *)
THEOREM HalfDropped == Spec => []AtMostHalfDropped
<1>1. WriterInv => AtMostHalfDropped
  BY DEF WriterInv, SkipsAlternate, AtMostHalfDropped
<1> QED
  BY <1>1, InvHolds, PTL

(* Only a gone peer or one whose socket has been full for more than 5 s is *)
(* removed: an idle subscriber is never mistaken for a stalled one.        *)
THEOREM RemovalJustified == Spec => RemovedForCause
<1> DEFINE Cause == \A c \in clients \ clients' : sock[c].gone \/ sock[c].fullFor > StallTime
<1>1. ASSUME WriterInv, NEW chunk \in Seq(Byte), Flush(chunk)
      PROVE  Cause
  <2> SUFFICES ASSUME NEW c \in clients, c \notin clients'
               PROVE  sock[c].gone \/ sock[c].fullFor > StallTime
    OBVIOUS
  <2>1. PICK m : /\ m \in Writable(Offer(sub[c], chunk), sock[c])
                 /\ Dead(TryFlush(Offer(sub[c], chunk), m), sock[c])
    BY <1>1 DEF Flush
  <2>2. sub[c] \in SubClient /\ sock[c] \in Socket
    BY <1>1 DEF WriterInv, TypeOK
  <2>3. Offer(sub[c], chunk) \in SubClient /\ Offer(sub[c], chunk).sinceSend = sub[c].sinceSend
    BY <1>1, <2>2, OfferLemma
  <2>4. /\ m \in Nat
        /\ Len(TryFlush(Offer(sub[c], chunk), m).sendq) = Len(Offer(sub[c], chunk).sendq) - m
        /\ TryFlush(Offer(sub[c], chunk), m).sinceSend = IF m > 0 THEN 0 ELSE sub[c].sinceSend
    BY <2>1, <2>2, <2>3, TryFlushLemma
  <2>5. CASE ~sock[c].gone
    <3>1. m = 0 /\ sub[c].sinceSend > StallTime
      BY <2>1, <2>4, <2>5, WriterAssumption DEF Dead
    <3>2. Offer(sub[c], chunk).sendq # <<>>
      BY <2>1, <3>1, <2>3, EmptySeq, LenProperties, SubSeqProperties
      DEF Dead, TryFlush, SubClient
    <3>3. sock[c].used = SockCap
      <4>1. Len(Offer(sub[c], chunk).sendq) \in Nat
        BY <2>3, LenProperties DEF SubClient
      <4> QED
        BY <2>1, <2>5, <3>1, <3>2, <4>1 DEF Writable
    <3> QED
      BY <1>1, <2>2, <3>1, <3>3, WriterAssumption
      DEF WriterInv, FullSinceLastSend, Socket, SubClient
  <2> QED
    BY <2>5
<1>2. WriterInv /\ [Next]_vars => [Cause]_vars
  <2> SUFFICES ASSUME WriterInv, Next PROVE Cause
    OBVIOUS
  <2>1. ASSUME NEW f \in Frames, AppendFrame(f) PROVE Cause
    <3>1. buf \o Bytes(f) \in Seq(Byte)
      BY BytesType, ConcatProperties DEF WriterInv, TypeOK
    <3>2. Flush(buf \o Bytes(f)) \/ clients' = clients
      BY <2>1 DEF AppendFrame
    <3> QED
      BY <1>1, <3>1, <3>2
  <2>2. CASE CheckFlush
    <3>1. buf \o Bytes(Heartbeat) \in Seq(Byte)
      BY BytesType, ConcatProperties, WriterAssumption DEF WriterInv, TypeOK
    <3>2. buf \in Seq(Byte)
      BY DEF WriterInv, TypeOK
    <3> QED
      BY <1>1, <2>2, <3>1, <3>2 DEF CheckFlush, TimerFlush, SendHeartbeat
  <2>3. CASE Environment \/ \E c \in Clients : AddClient(c)
    BY <2>3 DEF Environment, Tick, PeerReads, PeerCloses, AddClient
  <2> QED
    BY <2>1, <2>2, <2>3 DEF Next
<1> QED
  BY <1>2, InvHolds, PTL DEF Spec, RemovedForCause

-----------------------------------------------------------------------------
(* What one offer and one write leave in a queue is an outcome the         *)
(* broadcast allows.                                                       *)
LEMMA OfferedOutcome ==
  ASSUME NEW s \in SubClient, NEW k \in Socket, NEW chunk \in Seq(Byte),
         NEW n \in Writable(Offer(s, chunk), k)
  PROVE  TryFlush(Offer(s, chunk), n).sendq \in Promise!Outcomes(s.sendq, chunk)
<1> DEFINE q == Offer(s, chunk).sendq
<1>1. Offer(s, chunk) \in SubClient /\ n \in 0..Len(q) /\ Len(q) \in Nat
  BY OfferLemma, TryFlushLemma, LenProperties DEF SubClient
<1>2. SubSeq(q, n + 1, Len(q)) \in Promise!Suffixes(q)
  <2>1. n + 1 \in 1..(Len(q) + 1)
    BY <1>1
  <2> HIDE DEF q
  <2> QED
    BY <2>1 DEF Promise!Suffixes
<1>3. TryFlush(Offer(s, chunk), n).sendq = SubSeq(q, n + 1, Len(q))
  BY DEF TryFlush
<1> HIDE DEF q
<1>4. CASE Skipped(s, chunk)
  <2>1. q = s.sendq
    BY <1>4 DEF Offer, q
  <2> QED
    BY <1>2, <1>3, <2>1 DEF Promise!Outcomes
<1>5. CASE ~Skipped(s, chunk)
  <2>1. q = s.sendq \o chunk
    BY <1>5 DEF Offer, q
  <2>2. s.sendq \in Seq(Byte) /\ Len(s.sendq) \in Nat /\ Len(chunk) \in Nat
    BY LenProperties DEF SubClient
  <2>3. Len(s.sendq \o chunk) <= SendqMax
    BY <1>5, <2>2, ConcatProperties, WriterAssumption DEF Skipped, Dropping, Insufficient
  <2> QED
    BY <1>2, <1>3, <2>1, <2>3 DEF Promise!Outcomes
<1> QED
  BY <1>4, <1>5

(* A flush is a broadcast of what is collected and what is appended.       *)
LEMMA FlushBroadcasts ==
  ASSUME WriterInv, NEW item \in Seq(Byte), Flush(buf \o item)
  PROVE  Promise!Broadcast(item)
<1> DEFINE chunk == buf \o item
<1>1. chunk \in Seq(Byte)
  BY ConcatProperties DEF WriterInv, TypeOK
<1>2. /\ buf' = <<>>
      /\ clients' \subseteq clients
      /\ \A c \in Clients \ clients' : sub'[c] = NewClient
      /\ \A c \in clients' : \E m \in Writable(Offer(sub[c], chunk), sock[c]) :
           sub'[c] = TryFlush(Offer(sub[c], chunk), m)
  BY DEF Flush, WriterInv, TypeOK
<1>3. ASSUME NEW c \in Clients
      PROVE  IF c \in clients' THEN sub'[c].sendq \in Promise!Outcomes(sub[c].sendq, chunk)
             ELSE sub'[c].sendq = <<>>
  <2>1. sub[c] \in SubClient /\ sock[c] \in Socket
    BY DEF WriterInv, TypeOK
  <2>2. CASE c \in clients'
    BY <1>1, <1>2, <2>1, <2>2, OfferedOutcome
  <2>3. CASE c \notin clients'
    BY <1>2, <2>3 DEF NewClient
  <2> QED
    BY <2>2, <2>3
<1> QED
  BY <1>2, <1>3 DEF Promise!Broadcast

LEMMA QueuesUntouched ==
  ASSUME WriterInv, Environment
  PROVE  UNCHANGED Promise!lbVars
<1>1. CASE Tick
  <2>1. \A c \in Clients : sub'[c].sendq = sub[c].sendq
    BY <1>1, TickOnRecord
  <2>2. buf' = buf /\ clients' = clients
    BY <1>1 DEF Tick
  <2> QED
    BY <2>1, <2>2 DEF Promise!lbVars
<1>2. CASE \E c \in Clients : PeerReads(c) \/ PeerCloses(c)
  BY <1>2 DEF PeerReads, PeerCloses, Promise!lbVars
<1> QED
  BY <1>1, <1>2 DEF Environment

LEMMA StepKeepsPromise ==
  ASSUME WriterInv, Next
  PROVE  Promise!LBNext \/ UNCHANGED Promise!lbVars
<1>1. ASSUME NEW f \in Frames, AppendFrame(f) PROVE Promise!LBNext
  <2>1. Bytes(f) \in Seq(Byte)
    BY BytesType
  <2>2. CASE Flush(buf \o Bytes(f))
    <3>1. Promise!Broadcast(Bytes(f))
      BY <2>1, <2>2, FlushBroadcasts
    <3> QED
      BY <3>1 DEF Promise!LBNext
  <2>3. CASE ~Flush(buf \o Bytes(f))
    <3>1. Promise!Collect(Bytes(f))
      BY <1>1, <2>3 DEF AppendFrame, Promise!Collect
    <3> QED
      BY <3>1 DEF Promise!LBNext
  <2> QED
    BY <2>2, <2>3
<1>2. CASE TimerFlush
  <2>1. buf \o <<>> = buf
    BY ConcatEmptySeq DEF WriterInv, TypeOK
  <2>2. Promise!Broadcast(<<>>)
    BY <1>2, <2>1, EmptySeq, FlushBroadcasts DEF TimerFlush
  <2> QED
    BY <2>2 DEF Promise!LBNext
<1>3. CASE SendHeartbeat
  <2>1. Heartbeat \in Frames
    BY WriterAssumption
  <2>2. Promise!Broadcast(Bytes(Heartbeat))
    BY <1>3, <2>1, BytesType, FlushBroadcasts DEF SendHeartbeat
  <2> QED
    BY <2>1, <2>2 DEF Promise!LBNext
<1>4. ASSUME NEW c \in Clients, AddClient(c) PROVE Promise!LBNext
  <2>1. Promise!Join(c)
    BY <1>4 DEF AddClient, Promise!Join
  <2> QED
    BY <2>1 DEF Promise!LBNext
<1>5. CASE Environment
  BY <1>5, QueuesUntouched
<1> QED
  BY <1>1, <1>2, <1>3, <1>4, <1>5 DEF Next, CheckFlush

(* The writer implements the broadcast: subscribers are offered everything *)
(* that was collected, whole and in order, whatever flushes, drops, stalls *)
(* and partial writes do (writer.rs:47-175).                               *)
THEOREM PromiseKept == Spec => KeepsItsPromise
<1>1. Init => Promise!LBInit
  BY DEF Init, NewClient, Promise!LBInit
<1>2. WriterInv /\ [Next]_vars => [Promise!LBNext]_(Promise!lbVars)
  <2>1. UNCHANGED vars => UNCHANGED Promise!lbVars
    BY DEF vars, Promise!lbVars
  <2> QED
    BY <2>1, StepKeepsPromise
<1> QED
  BY <1>1, <1>2, InvHolds, PTL DEF Spec, KeepsItsPromise, Promise!LBSpec

-----------------------------------------------------------------------------
(* What is collected is a sequence of whole frames from its first byte on, *)
(* and what a subscriber reads after a byte it has got goes on with the    *)
(* byte that follows it.                                                   *)
FramesInv ==
  /\ WriterInv
  /\ WholeFrames(buf) /\ (buf # <<>> => FirstByte(buf[1]))
  /\ FramesStayWhole

LEMMA BytesWhole ==
  ASSUME NEW f \in Frames
  PROVE  WholeFrames(Bytes(f)) /\ FirstByte(Bytes(f)[1]) /\ Bytes(f) # <<>>
<1>1. FrameLen[f] \in Nat \ {0}
  BY WriterAssumption
<1>2. /\ Len(Bytes(f)) = FrameLen[f]
      /\ \A i \in 1..FrameLen[f] : Bytes(f)[i] = [frame |-> f, pos |-> i]
  <2>1. DOMAIN Bytes(f) = 1..FrameLen[f]
    BY DEF Bytes
  <2>2. DOMAIN Bytes(f) = 1..Len(Bytes(f)) /\ Len(Bytes(f)) \in Nat
    BY BytesType, LenProperties
  <2>3. 1..Len(Bytes(f)) = 1..FrameLen[f]
    BY <2>1, <2>2
  <2>4. Len(Bytes(f)) = FrameLen[f]
    BY <1>1, <2>2, <2>3
  <2> QED
    BY <2>4 DEF Bytes
<1>3. Bytes(f) # <<>>
  BY <1>1, <1>2
<1>4. ASSUME NEW i \in 1..(Len(Bytes(f)) - 1)
      PROVE  Follows(Bytes(f)[i], Bytes(f)[i + 1])
  <2>1. i \in 1..FrameLen[f] /\ i + 1 \in 1..FrameLen[f]
    BY <1>1, <1>2
  <2>2. Bytes(f)[i] = [frame |-> f, pos |-> i] /\ Bytes(f)[i + 1] = [frame |-> f, pos |-> i + 1]
    BY <1>2, <2>1
  <2> QED
    BY <2>2 DEF Follows
<1>5. Bytes(f)[1] = [frame |-> f, pos |-> 1]
  BY <1>1, <1>2
<1>6. Bytes(f)[Len(Bytes(f))] = [frame |-> f, pos |-> FrameLen[f]]
  BY <1>1, <1>2
<1>7. FirstByte(Bytes(f)[1]) /\ FinalByte(Bytes(f)[Len(Bytes(f))])
  BY <1>5, <1>6 DEF FirstByte, FinalByte
<1> QED
  BY <1>3, <1>4, <1>7 DEF WholeFrames

LEMMA ConcatWhole ==
  ASSUME NEW s \in Seq(Byte), NEW t \in Seq(Byte), WholeFrames(s), WholeFrames(t),
         t # <<>> => FirstByte(t[1])
  PROVE  WholeFrames(s \o t)
<1>1. /\ Len(s) \in Nat /\ Len(t) \in Nat /\ Len(s \o t) = Len(s) + Len(t)
      /\ \A i \in 1..(Len(s) + Len(t)) :
           (s \o t)[i] = IF i <= Len(s) THEN s[i] ELSE t[i - Len(s)]
  BY ConcatProperties, LenProperties
<1>2. (s = <<>> <=> Len(s) = 0) /\ (t = <<>> <=> Len(t) = 0)
  BY EmptySeq
<1>3. ASSUME NEW i \in 1..(Len(s \o t) - 1)
      PROVE  Follows((s \o t)[i], (s \o t)[i + 1])
  <2>1. CASE i < Len(s)
    BY <1>1, <2>1 DEF WholeFrames
  <2>2. CASE i = Len(s)
    BY <1>1, <1>2, <2>2 DEF WholeFrames, Follows
  <2>3. CASE i > Len(s)
    <3>1. i - Len(s) \in 1..(Len(t) - 1) /\ (i + 1) - Len(s) = (i - Len(s)) + 1
      BY <1>1, <2>3
    <3> QED
      BY <1>1, <2>3, <3>1 DEF WholeFrames
  <2> QED
    BY <1>1, <2>1, <2>2, <2>3
<1>4. s \o t # <<>> => FinalByte((s \o t)[Len(s \o t)])
  <2>1. CASE t = <<>>
    BY <1>1, <1>2, <2>1, ConcatEmptySeq DEF WholeFrames
  <2>2. CASE t # <<>>
    BY <1>1, <1>2, <2>2 DEF WholeFrames
  <2> QED
    BY <2>1, <2>2
<1> QED
  BY <1>3, <1>4 DEF WholeFrames

LEMMA SuffixWhole ==
  ASSUME NEW s \in Seq(Byte), WholeFrames(s), NEW n \in 1..Len(s)
  PROVE  /\ WholeFrames(<<s[n]>> \o SubSeq(s, n + 1, Len(s)))
         /\ WholeFrames(SubSeq(s, n, Len(s)))
<1>1. Len(s) \in Nat /\ \A i \in 1..Len(s) : s[i] \in Byte
  BY LenProperties, ElementOfSeq
<1>2. /\ Len(SubSeq(s, n, Len(s))) = Len(s) - n + 1
      /\ \A i \in 1..(Len(s) - n + 1) : SubSeq(s, n, Len(s))[i] = s[n + i - 1]
  BY <1>1, SubSeqProperties
<1>3. SubSeq(s, n, Len(s)) = <<s[n]>> \o SubSeq(s, n + 1, Len(s))
  BY <1>1, SubSeqRecursiveFirst
<1>4. ASSUME NEW i \in 1..(Len(s) - n)
      PROVE  Follows(SubSeq(s, n, Len(s))[i], SubSeq(s, n, Len(s))[i + 1])
  <2>1. n + i - 1 \in 1..(Len(s) - 1) /\ n + (i + 1) - 1 = (n + i - 1) + 1
    BY <1>1
  <2> QED
    BY <1>1, <1>2, <2>1 DEF WholeFrames
<1>5. FinalByte(SubSeq(s, n, Len(s))[Len(s) - n + 1])
  <2>1. n + (Len(s) - n + 1) - 1 = Len(s) /\ Len(s) - n + 1 \in 1..(Len(s) - n + 1) /\ s # <<>>
    BY <1>1, EmptySeq
  <2> QED
    BY <1>2, <2>1 DEF WholeFrames
<1>6. WholeFrames(SubSeq(s, n, Len(s)))
  BY <1>1, <1>2, <1>4, <1>5 DEF WholeFrames
<1> QED
  BY <1>3, <1>6

(* What is read after any bytes of a stream of whole frames ends with them.*)
LEMMA RestWhole ==
  ASSUME NEW l \in Seq(Byte), NEW q \in Seq(Byte), WholeFrames(l \o q)
  PROVE  WholeFrames(q)
<1>1. /\ Len(l) \in Nat /\ Len(q) \in Nat /\ Len(l \o q) = Len(l) + Len(q)
      /\ \A i \in 1..(Len(l) + Len(q)) :
           (l \o q)[i] = IF i <= Len(l) THEN l[i] ELSE q[i - Len(l)]
  BY ConcatProperties, LenProperties
<1>2. \A i \in 1..Len(q) : Len(l) + i \in 1..Len(l \o q) /\ (l \o q)[Len(l) + i] = q[i]
  BY <1>1
<1>3. ASSUME NEW i \in 1..(Len(q) - 1) PROVE Follows(q[i], q[i + 1])
  <2>1. Len(l) + i \in 1..(Len(l \o q) - 1) /\ (Len(l) + i) + 1 = Len(l) + (i + 1)
    BY <1>1
  <2>2. i \in 1..Len(q) /\ i + 1 \in 1..Len(q)
    BY <1>1
  <2>3. (l \o q)[Len(l) + i] = q[i] /\ (l \o q)[(Len(l) + i) + 1] = q[i + 1]
    BY <1>2, <2>1, <2>2
  <2> QED
    BY <2>1, <2>3 DEF WholeFrames
<1>4. q # <<>> => FinalByte(q[Len(q)])
  <2> SUFFICES ASSUME q # <<>> PROVE FinalByte(q[Len(q)])
    OBVIOUS
  <2>1. Len(q) \in 1..Len(q) /\ Len(l \o q) # 0
    BY <1>1, EmptySeq
  <2>2. l \o q # <<>>
    BY <2>1, EmptySeq
  <2> QED
    BY <1>1, <1>2, <2>1, <2>2 DEF WholeFrames
<1> QED
  BY <1>3, <1>4 DEF WholeFrames

(* A whole frame begins wherever the last one has ended.                   *)
Intact(l, q) == WholeFrames(l \o q) /\ (l = <<>> /\ l \o q # <<>> => FirstByte((l \o q)[1]))

LEMMA OfferIntact ==
  ASSUME NEW l \in Seq(Byte), NEW q \in Seq(Byte), NEW chunk \in Seq(Byte),
         Intact(l, q), WholeFrames(chunk), chunk # <<>> => FirstByte(chunk[1])
  PROVE  Intact(l, q \o chunk)
<1>1. l \o q \in Seq(Byte) /\ q \o chunk \in Seq(Byte) /\ l \o (q \o chunk) = (l \o q) \o chunk
  BY ConcatProperties, ConcatAssociative
<1>2. WholeFrames(l \o (q \o chunk))
  BY <1>1, ConcatWhole DEF Intact
<1>3. ASSUME l = <<>>, l \o (q \o chunk) # <<>>
      PROVE  FirstByte((l \o (q \o chunk))[1])
  <2>1. l \o (q \o chunk) = q \o chunk /\ l \o q = q
    BY <1>1, <1>3, ConcatEmptySeq
  <2>2. CASE q = <<>>
    <3>1. q \o chunk = chunk
      BY <2>2, ConcatEmptySeq
    <3> QED
      BY <1>3, <2>1, <3>1
  <2>3. CASE q # <<>>
    <3>1. Len(q) \in Nat \ {0} /\ Len(chunk) \in Nat
      BY <2>3, EmptySeq, LenProperties
    <3>2. (q \o chunk)[1] = q[1]
      BY <3>1, ConcatProperties
    <3>3. FirstByte(q[1])
      BY <1>3, <2>1, <2>3 DEF Intact
    <3> QED
      BY <2>1, <3>2, <3>3
  <2> QED
    BY <2>2, <2>3
<1> QED
  BY <1>2, <1>3 DEF Intact

LEMMA WriteIntact ==
  ASSUME NEW l \in Seq(Byte), NEW q \in Seq(Byte), Intact(l, q), NEW n \in 0..Len(q)
  PROVE  Intact(IF n > 0 THEN <<q[n]>> ELSE l, SubSeq(q, n + 1, Len(q)))
<1>1. Len(q) \in Nat
  BY LenProperties
<1>2. CASE n = 0
  <2>1. SubSeq(q, n + 1, Len(q)) = q
    BY <1>2, SubSeqFull
  <2>2. (IF n > 0 THEN <<q[n]>> ELSE l) = l
    BY <1>2
  <2> QED
    BY <2>1, <2>2, Zenon
<1>3. CASE n > 0
  <2>1. n \in 1..Len(q)
    BY <1>1, <1>3
  <2>2. WholeFrames(<<q[n]>> \o SubSeq(q, n + 1, Len(q)))
    BY <2>1, RestWhole, SuffixWhole DEF Intact
  <2>3. <<q[n]>> # <<>>
    OBVIOUS
  <2> QED
    BY <1>3, <2>2, <2>3 DEF Intact
<1> QED
  BY <1>1, <1>2, <1>3

LEMMA NothingIntact == Intact(<<>>, <<>>) /\ WholeFrames(<<>>)
<1>1. <<>> \o <<>> = <<>> /\ Len(<<>>) = 0
  BY ConcatEmptySeq, EmptySeq
<1> QED
  BY <1>1 DEF Intact, WholeFrames

LEMMA IntactIsTheProperty ==
  FramesStayWhole <=> \A c \in clients : Intact(last[c], sub[c].sendq)
BY DEF FramesStayWhole, Intact

LEMMA FlushKeepsFrames ==
  ASSUME FramesInv, NEW chunk \in Seq(Byte), Flush(chunk),
         WholeFrames(chunk), chunk # <<>> => FirstByte(chunk[1])
  PROVE  FramesInv'
<1>1. WriterInv'
  BY FlushKeepsInv DEF FramesInv
<1>2. buf' = <<>>
  BY DEF Flush
<1>3. ASSUME NEW c \in clients'
      PROVE  Intact(last'[c], sub'[c].sendq)
  <2>1. PICK n : /\ c \in clients
                 /\ n \in Writable(Offer(sub[c], chunk), sock[c])
                 /\ sub'[c] = TryFlush(Offer(sub[c], chunk), n)
                 /\ last'[c] = IF n > 0 THEN <<Offer(sub[c], chunk).sendq[n]>> ELSE last[c]
    BY <1>3 DEF Flush, FramesInv, WriterInv, TypeOK
  <2>2. sub[c] \in SubClient /\ sock[c] \in Socket /\ last[c] \in Seq(Byte) /\ c \in Clients
    BY <2>1 DEF FramesInv, WriterInv, TypeOK
  <2>3. sub[c].sendq \in Seq(Byte) /\ Intact(last[c], sub[c].sendq)
    BY <2>1, <2>2, IntactIsTheProperty DEF FramesInv, SubClient
  <2> DEFINE q == Offer(sub[c], chunk).sendq
  <2>4. q \in Seq(Byte) /\ Intact(last[c], q)
    <3>1. q = sub[c].sendq \/ q = sub[c].sendq \o chunk
      BY DEF Offer
    <3> QED
      BY <2>2, <2>3, <3>1, OfferIntact, ConcatProperties
  <2>5. n \in 0..Len(q) /\ sub'[c].sendq = SubSeq(q, n + 1, Len(q))
    <3>1. Offer(sub[c], chunk) \in SubClient
      BY <2>2, OfferLemma
    <3>2. n \in 0..Len(q)
      BY <2>1, <2>2, <3>1, TryFlushLemma
    <3> QED
      BY <2>1, <3>2 DEF TryFlush
  <2> HIDE DEF q
  <2>6. Intact(IF n > 0 THEN <<q[n]>> ELSE last[c], SubSeq(q, n + 1, Len(q)))
    BY <2>2, <2>4, <2>5, WriteIntact
  <2> QED
    BY <2>1, <2>5, <2>6 DEF q
<1>4. FramesStayWhole'
  BY <1>3 DEF FramesStayWhole, Intact
<1> QED
  BY <1>1, <1>2, <1>4, NothingIntact DEF FramesInv

(* Appending a frame keeps what is collected whole.                        *)
LEMMA CollectedWhole ==
  ASSUME FramesInv, NEW f \in Frames
  PROVE  /\ buf \o Bytes(f) \in Seq(Byte) /\ WholeFrames(buf \o Bytes(f))
         /\ FirstByte((buf \o Bytes(f))[1])
<1>1. buf \in Seq(Byte) /\ Bytes(f) \in Seq(Byte)
  BY BytesType DEF FramesInv, WriterInv, TypeOK
<1>2. WholeFrames(buf \o Bytes(f))
  BY <1>1, BytesWhole, ConcatWhole DEF FramesInv
<1>3. FirstByte((buf \o Bytes(f))[1])
  <2>1. CASE buf = <<>>
    BY <1>1, <2>1, BytesWhole, ConcatEmptySeq
  <2>2. CASE buf # <<>>
    <3>1. Len(buf) \in Nat \ {0} /\ Len(Bytes(f)) \in Nat
      BY <1>1, <2>2, EmptySeq, LenProperties
    <3>2. (buf \o Bytes(f))[1] = buf[1]
      BY <1>1, <3>1, ConcatProperties
    <3>3. FirstByte(buf[1])
      BY <2>2 DEF FramesInv
    <3> QED
      BY <3>2, <3>3 DEF FirstByte
  <2> QED
    BY <2>1, <2>2
<1>4. buf \o Bytes(f) \in Seq(Byte)
  BY <1>1, ConcatProperties
<1> QED
  BY <1>2, <1>3, <1>4

LEMMA NextKeepsFrames == FramesInv /\ [Next]_vars => FramesInv'
<1> SUFFICES ASSUME FramesInv, [Next]_vars PROVE FramesInv'
  OBVIOUS
<1>1. WriterInv'
  BY NextKeepsInv DEF FramesInv
<1>2. ASSUME buf' = buf, clients' = clients, last' = last,
             \A c \in clients : sub'[c].sendq = sub[c].sendq
      PROVE  FramesInv'
  BY <1>1, <1>2 DEF FramesInv, FramesStayWhole
<1>3. ASSUME NEW f \in Frames, AppendFrame(f) PROVE FramesInv'
  <2>1. CASE Flush(buf \o Bytes(f))
    BY <2>1, CollectedWhole, FlushKeepsFrames
  <2>2. CASE /\ buf' = buf \o Bytes(f)
             /\ UNCHANGED <<sinceFlush, clients, sub, sock, last, roomSkips, lossy>>
    BY <1>1, <2>2, CollectedWhole DEF FramesInv, FramesStayWhole
  <2> QED
    BY <1>3, <2>1, <2>2 DEF AppendFrame
<1>4. CASE TimerFlush
  BY <1>4, FlushKeepsFrames DEF TimerFlush, FramesInv, WriterInv, TypeOK
<1>5. CASE SendHeartbeat
  BY <1>5, CollectedWhole, FlushKeepsFrames, WriterAssumption DEF SendHeartbeat
<1>6. ASSUME NEW c \in Clients, AddClient(c) PROVE FramesInv'
  <2>1. last[c] = <<>> /\ sub[c].sendq = <<>>
    BY <1>6 DEF AddClient, FramesInv, WriterInv, FreeSlots, NewClient
  <2>2. \A d \in clients' : Intact(last[d], sub[d].sendq)
    BY <1>6, <2>1, NothingIntact, IntactIsTheProperty DEF AddClient, FramesInv
  <2>3. FramesStayWhole'
    BY <1>6, <2>2 DEF AddClient, FramesStayWhole, Intact
  <2> QED
    BY <1>1, <1>6, <2>3 DEF AddClient, FramesInv
<1>7. CASE Tick
  BY <1>2, <1>7, TickOnRecord DEF Tick, FramesInv, WriterInv, TypeOK
<1>8. ASSUME NEW c \in Clients, PeerReads(c) \/ PeerCloses(c) PROVE FramesInv'
  BY <1>2, <1>8 DEF PeerReads, PeerCloses
<1>9. CASE UNCHANGED vars
  BY <1>2, <1>9 DEF vars
<1> QED
  BY <1>3, <1>4, <1>5, <1>6, <1>7, <1>8, <1>9 DEF Next, CheckFlush, Environment

(* A subscriber reads whole frames from its first byte to its last: no     *)
(* partial write, skipped chunk, stall or reuse of a slot cuts one in two. *)
THEOREM FramesWhole == Spec => []FramesStayWhole
<1>1. Init => FramesInv
  BY InitInv, NothingIntact DEF Init, FramesInv, FramesStayWhole
<1>2. FramesInv => FramesStayWhole
  BY DEF FramesInv
<1> QED
  BY <1>1, <1>2, NextKeepsFrames, PTL DEF Spec
=============================================================================

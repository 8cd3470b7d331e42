---------------------------- MODULE FanOutProofs ----------------------------
(***************************************************************************)
(* Theorems about FanOut, for every value of its constants: what a         *)
(* connection keeps, and to whom a reader of an output attributes what it  *)
(* reads.                                                                  *)
(***************************************************************************)
EXTENDS FanOut, OutputWriterProofs

Id == Receivers \cup {NoId}
Client == [id : Id, locked : BOOLEAN, prefix : Id, garbage : BOOLEAN,
           limit : Nat, count : Nat, resetIn : 0..RateWindow]

(* A connection is locked to its sender or, on a relay, to a receiver      *)
(* behind it, and a prefix is always the id of the lock.                   *)
LockOf(f, s) ==
  /\ s.locked => /\ s.id \in Receivers
                 /\ s.id = Sender[f] \/ (f \in Relays /\ s.id \in Behind[f])
                 /\ Prepend => s.prefix = s.id
  /\ s.prefix # NoId => s.locked /\ s.prefix = s.id

ClientInv == cs \in [Feeders -> Client] /\ \A f \in Feeders : LockOf(f, cs[f])

-----------------------------------------------------------------------------
LEMMA NewStateLemma ==
  ASSUME NEW f \in Feeders
  PROVE  NewState \in Client /\ LockOf(f, NewState)
BY ClientAssumption DEF NewState, Client, Id, RateWindow, LockOf

(* The lock keeps what it finds and holds what it sets.                    *)
LEMMA LockedLemma ==
  ASSUME NEW f \in Feeders, NEW s \in Client, LockOf(f, s), NEW r \in Receivers,
         NEW withPrefix \in BOOLEAN, Prepend => withPrefix,
         r = Sender[f] \/ (f \in Relays /\ r \in Behind[f])
  PROVE  /\ Locked(s, r, withPrefix) \in Client
         /\ LockOf(f, Locked(s, r, withPrefix))
<1>1. CASE s.locked
  BY <1>1 DEF Locked
<1>2. CASE ~s.locked
  <2>1. Locked(s, r, withPrefix) =
          [s EXCEPT !.id = r, !.locked = TRUE, !.prefix = IF withPrefix THEN r ELSE @]
    BY <1>2 DEF Locked
  <2>2. s.prefix = NoId
    BY <1>2 DEF LockOf
  <2> DEFINE t == Locked(s, r, withPrefix)
  <2>3. t.id = r /\ t.locked /\ t.prefix = IF withPrefix THEN r ELSE s.prefix
    BY <2>1 DEF Client
  <2>4. t \in Client
    BY <2>1 DEF Client, Id
  <2> HIDE DEF t
  <2>5. LockOf(f, t)
    BY <2>2, <2>3 DEF LockOf
  <2> QED
    BY <2>4, <2>5 DEF t
<1> QED
  BY <1>1, <1>2

LEMMA RateCheckLemma ==
  ASSUME NEW f \in Feeders, NEW s \in Client, LockOf(f, s)
  PROVE  /\ RateCheck(s) \in Client
         /\ LockOf(f, RateCheck(s))
         /\ RateCheck(s).id = s.id /\ RateCheck(s).prefix = s.prefix
         /\ RateCheck(s).locked = s.locked
<1>1. Verdict(s) \in BOOLEAN
  <2>1. s.garbage \in BOOLEAN
    BY DEF Client
  <2>2. ((s.count + 1) \div RateWindow > s.limit) \in BOOLEAN
    OBVIOUS
  <2> QED
    BY <2>1, <2>2, Zenon DEF Verdict
<1>2. RateCheck(s) \in Client
  BY <1>1 DEF RateCheck, Client, RateWindow
<1> QED
  BY <1>2 DEF RateCheck, LockOf

(* A step of one connection keeps the invariant when it keeps it there.    *)
LEMMA OneClient ==
  ASSUME ClientInv, NEW f \in Feeders, NEW s \in Client, LockOf(f, s),
         cs' = [cs EXCEPT ![f] = s]
  PROVE  ClientInv'
BY DEF ClientInv

LEMMA ClientStepKeeps ==
  ASSUME ClientInv, ClientStep
  PROVE  ClientInv'
<1> USE ClientAssumption
<1>1. ASSUME NEW f \in Feeders, FeedUuid(f) PROVE ClientInv'
  <2>1. Sender[f] \in Receivers /\ cs[f] \in Client /\ LockOf(f, cs[f])
    BY <1>1 DEF FeedUuid, ClientInv
  <2>2. /\ Locked(cs[f], Sender[f], Prepend) \in Client
        /\ LockOf(f, Locked(cs[f], Sender[f], Prepend))
    BY <2>1, LockedLemma
  <2> QED
    BY <1>1, <2>2, OneClient DEF FeedUuid
<1>2. ASSUME NEW f \in Feeders, NEW r \in Receivers, FeedReceiverId(f, r) PROVE ClientInv'
  <2>1. cs[f] \in Client /\ LockOf(f, cs[f]) /\ f \in Relays /\ r \in Behind[f]
    BY <1>2 DEF FeedReceiverId, ClientInv
  <2>2. /\ Locked(cs[f], r, TRUE) \in Client
        /\ LockOf(f, Locked(cs[f], r, TRUE))
    BY <2>1, LockedLemma
  <2>3. /\ RateCheck(Locked(cs[f], r, TRUE)) \in Client
        /\ LockOf(f, RateCheck(Locked(cs[f], r, TRUE)))
    BY <2>2, RateCheckLemma
  <2> QED
    BY <1>2, <2>3, OneClient DEF FeedReceiverId
<1>3. ASSUME NEW f \in Feeders, NEW r \in Receivers, FeedMessage(f, r) PROVE ClientInv'
  <2>1. cs[f] \in Client /\ LockOf(f, cs[f])
    BY DEF ClientInv
  <2>2. RateCheck(cs[f]) \in Client /\ LockOf(f, RateCheck(cs[f]))
    BY <2>1, RateCheckLemma
  <2> QED
    BY <1>3, <2>2, OneClient DEF FeedMessage
<1>4. ASSUME NEW f \in Feeders, Reconnect(f) PROVE ClientInv'
  BY <1>4, NewStateLemma, OneClient DEF Reconnect
<1>5. ASSUME NEW f \in Feeders, NEW l \in Limits, OverrideLimit(f, l) PROVE ClientInv'
  <2>1. cs[f] \in Client /\ LockOf(f, cs[f]) /\ l \in Nat
    BY DEF ClientInv
  <2>2. [cs[f] EXCEPT !.limit = l] \in Client /\ LockOf(f, [cs[f] EXCEPT !.limit = l])
    BY <2>1 DEF Client, LockOf
  <2>3. cs' = [cs EXCEPT ![f] = [cs[f] EXCEPT !.limit = l]]
    BY <1>5 DEF OverrideLimit
  <2> QED
    BY <2>2, <2>3, OneClient
<1>6. CASE Second
  <2>1. ASSUME NEW f \in Feeders
        PROVE  cs'[f] \in Client /\ LockOf(f, cs'[f])
    <3>1. cs[f] \in Client /\ LockOf(f, cs[f])
      BY DEF ClientInv
    <3>2. (IF cs[f].resetIn > 0 THEN cs[f].resetIn - 1 ELSE 0) \in 0..RateWindow
      BY <3>1 DEF Client, RateWindow
    <3>3. cs'[f] = [cs[f] EXCEPT !.resetIn = IF cs[f].resetIn > 0 THEN cs[f].resetIn - 1 ELSE 0]
      BY <1>6 DEF Second
    <3> QED
      BY <3>1, <3>2, <3>3 DEF Client, LockOf
  <2> QED
    BY <1>6, <2>1 DEF Second, ClientInv
<1> QED
  BY <1>1, <1>2, <1>3, <1>4, <1>5, <1>6 DEF ClientStep, Feed

LEMMA ClientInvHolds == FanSpec => []ClientInv
<1>1. FanInit => ClientInv
  BY NewStateLemma DEF FanInit, ClientInit, ClientInv
<1>2. ClientInv /\ [FanNext]_fanVars => ClientInv'
  <2>1. ASSUME ClientInv, FanNext, ~ClientStep PROVE ClientInv'
    BY <2>1 DEF FanNext, FeederStep, Publish, Emit, Timer, Subscribe, WriterEnvironment,
                clientVars, ClientInv
  <2>2. ASSUME ClientInv, UNCHANGED fanVars PROVE ClientInv'
    BY <2>2 DEF fanVars, clientVars, ClientInv
  <2> QED
    BY <2>1, <2>2, ClientStepKeeps
<1> QED
  BY <1>1, <1>2, PTL DEF FanSpec

-----------------------------------------------------------------------------
(* A connection keeps the id and the prefix of its first lock, and the     *)
(* prefix is that id, whatever frames follow (client.rs:61-76).            *)
THEOREM IdentityStable == FanSpec => IdentityIsStable
<1> DEFINE Stable ==
      \A f \in Feeders :
        cs'[f].locked =>
          /\ Prepend => cs'[f].prefix = cs'[f].id
          /\ cs[f].locked => cs'[f].id = cs[f].id /\ cs'[f].prefix = cs[f].prefix
<1>1. ASSUME ClientInv, ClientInv', [FanNext]_fanVars
      PROVE  [Stable]_clientVars
  <2> SUFFICES ASSUME ClientStep \/ Emit, NEW f \in Feeders, cs'[f].locked
               PROVE  /\ Prepend => cs'[f].prefix = cs'[f].id
                      /\ cs[f].locked => cs'[f].id = cs[f].id /\ cs'[f].prefix = cs[f].prefix
    BY <1>1 DEF FanNext, FeederStep, Publish, Timer, Subscribe, WriterEnvironment,
                fanVars, clientVars
  <2>1. Prepend => cs'[f].prefix = cs'[f].id
    BY <1>1 DEF ClientInv, LockOf
  <2>2. ASSUME cs[f].locked
        PROVE  cs'[f].id = cs[f].id /\ cs'[f].prefix = cs[f].prefix
    <3>1. cs[f] \in Client /\ LockOf(f, cs[f]) /\ cs \in [Feeders -> Client]
      BY <1>1 DEF ClientInv
    <3>2. CASE cs'[f] = cs[f]
      BY <3>2
    <3>3. CASE FeedUuid(f)
      <4>1. Locked(cs[f], Sender[f], Prepend) = cs[f]
        BY <2>2 DEF Locked
      <4> QED
        BY <3>1, <3>3, <4>1 DEF FeedUuid
    <3>4. ASSUME NEW r \in Receivers, FeedReceiverId(f, r) \/ FeedMessage(f, r)
          PROVE  cs'[f].id = cs[f].id /\ cs'[f].prefix = cs[f].prefix
      <4>1. Locked(cs[f], r, TRUE) = cs[f]
        BY <2>2 DEF Locked
      <4>2. cs'[f] = RateCheck(cs[f])
        BY <3>1, <3>4, <4>1 DEF FeedReceiverId, FeedMessage
      <4> QED
        BY <4>2 DEF RateCheck
    <3>5. CASE Reconnect(f)
      <4>1. cs'[f] = NewState
        BY <3>1, <3>5 DEF Reconnect
      <4> QED
        BY <4>1 DEF NewState
    <3>6. ASSUME NEW l \in Limits, OverrideLimit(f, l)
          PROVE  cs'[f].id = cs[f].id /\ cs'[f].prefix = cs[f].prefix
      BY <3>1, <3>6 DEF OverrideLimit, Client
    <3>7. CASE Second
      BY <3>1, <3>7 DEF Second, Client
    <3>8. ASSUME NEW g \in Feeders, g # f,
                 \/ FeedUuid(g) \/ Reconnect(g)
                 \/ \E r \in Receivers : FeedReceiverId(g, r) \/ FeedMessage(g, r)
                 \/ \E l \in Limits : OverrideLimit(g, l)
          PROVE  cs'[f] = cs[f]
      BY <3>1, <3>8 DEF FeedUuid, Reconnect, FeedReceiverId, FeedMessage, OverrideLimit
    <3> QED
      BY <3>2, <3>3, <3>4, <3>5, <3>6, <3>7, <3>8 DEF ClientStep, Feed, Emit
  <2> QED
    BY <2>1, <2>2
<1> QED
  BY <1>1, ClientInvHolds, PTL DEF FanSpec, IdentityIsStable

(* The limiter is exact at its boundary: the frame that closes a window is *)
(* not charged to it (client.rs:97-107).                                   *)
THEOREM VerdictExact == FanSpec => VerdictIsExact
<1> DEFINE Exact ==
      \A f \in Feeders :
        cs[f].resetIn = 0 /\ cs'[f].resetIn = RateWindow /\ emits' # emits =>
          (cs'[f].garbage <=> cs[f].count > RateWindow * cs[f].limit)
<1>1. ASSUME NEW s \in Client, WindowOver(s)
      PROVE  RateCheck(s).garbage <=> s.count > RateWindow * s.limit
  <2>1. s.count \in Nat /\ s.limit \in Nat
    BY DEF Client
  <2>2. RateCheck(s).garbage <=> (s.count + 1) \div 2 > s.limit
    BY <1>1 DEF RateCheck, Verdict, RateWindow
  <2>3. (s.count + 1) \div 2 > s.limit <=> s.count > 2 * s.limit
    BY <2>1
  <2> QED
    BY <2>2, <2>3 DEF RateWindow
<1>2. ASSUME ClientInv, FanNext
      PROVE  Exact
  <2> SUFFICES ASSUME NEW f \in Feeders, cs[f].resetIn = 0, cs'[f].resetIn = RateWindow,
                      emits' # emits
               PROVE  cs'[f].garbage <=> cs[f].count > RateWindow * cs[f].limit
    OBVIOUS
  <2>1. cs[f] \in Client /\ LockOf(f, cs[f]) /\ cs \in [Feeders -> Client] /\ cs' # cs
    BY <1>2 DEF ClientInv, RateWindow
  <2>2. PICK g \in Feeders, r \in Receivers : FeedReceiverId(g, r) \/ FeedMessage(g, r)
    BY <1>2, <2>1 DEF FanNext, FeederStep, Publish, Emit, Timer, Subscribe, WriterEnvironment,
                      clientVars, ClientStep, Feed, FeedUuid, Reconnect, OverrideLimit, Second
  <2>3. g = f
    <3>1. \E t : cs' = [cs EXCEPT ![g] = t]
      BY <2>2 DEF FeedReceiverId, FeedMessage
    <3>2. g # f => cs'[f] = cs[f]
      BY <2>1, <3>1
    <3> QED
      BY <3>2 DEF RateWindow
  <2>4. CASE FeedMessage(f, r)
    <3>1. cs'[f] = RateCheck(cs[f]) /\ WindowOver(cs[f])
      BY <2>1, <2>4 DEF FeedMessage, WindowOver
    <3> QED
      BY <1>1, <2>1, <3>1
  <2>5. CASE FeedReceiverId(f, r)
    <3> DEFINE t == Locked(cs[f], r, TRUE)
    <3>1. f \in Relays /\ r \in Behind[f] /\ cs'[f] = RateCheck(t)
      BY <2>1, <2>5 DEF FeedReceiverId
    <3>2. /\ t \in Client /\ t.count = cs[f].count
          /\ t.limit = cs[f].limit /\ t.resetIn = cs[f].resetIn
      <4>1. t \in Client
        BY <2>1, <3>1, LockedLemma
      <4>2. \/ t = cs[f]
            \/ t = [cs[f] EXCEPT !.id = r, !.locked = TRUE, !.prefix = r]
        BY DEF Locked
      <4> HIDE DEF t
      <4> QED
        BY <2>1, <4>1, <4>2 DEF Client
    <3> HIDE DEF t
    <3>3. WindowOver(t)
      BY <3>2 DEF WindowOver
    <3> QED
      BY <1>1, <3>1, <3>2, <3>3
  <2> QED
    BY <2>2, <2>3, <2>4, <2>5
<1>3. ClientInv /\ [FanNext]_fanVars => [Exact]_clientVars
  BY <1>2 DEF fanVars
<1> QED
  BY <1>3, ClientInvHolds, PTL DEF FanSpec, VerdictIsExact

-----------------------------------------------------------------------------
(* Where the outputs stand with respect to the frames still to be          *)
(* appended: an announcement of a lone receiver is the last frame of an    *)
(* output only while its message is on its way to the same output.         *)
Output(g) == IF g THEN "garbage" ELSE "beast"
Item(frame, g) == [frame |-> frame, garbage |-> g]
Quiet(o) == lastPublished[o].kind = "e3" => lastPublished[o].id \notin Alone
Prefixed(f) == Prepend /\ cs[f].prefix # NoId

Idle == emits = <<>> /\ \A o \in {"beast", "garbage"} : Quiet(o)
Announcing(f, r, g) ==
  /\ f \in Relays /\ emits = <<Item(E3(r), g)>>
  /\ \A o \in {"beast", "garbage"} : Quiet(o)
Prefixing(f, r, g) ==
  /\ Prefixed(f) /\ emits = <<Item(E3(cs[f].prefix), g), Item(Msg(r), g)>>
  /\ \A o \in {"beast", "garbage"} : Quiet(o)
HasPrefixed(f, r, g) ==
  /\ Prefixed(f) /\ emits = <<Item(Msg(r), g)>>
  /\ lastPublished[Output(g)] = E3(cs[f].prefix)
  /\ \A o \in {"beast", "garbage"} \ {Output(g)} : Quiet(o)
Plain(f, r, g) ==
  /\ ~Prefixed(f) /\ emits = <<Item(Msg(r), g)>>
  /\ \A o \in {"beast", "garbage"} : Quiet(o)
Sending(f, r, g) ==
  Announcing(f, r, g) \/ Prefixing(f, r, g) \/ HasPrefixed(f, r, g) \/ Plain(f, r, g)

AttributionInv ==
  /\ ClientInv
  /\ lastPublished \in [{"beast", "garbage"} -> AllFrames]
  /\ Idle \/ \E f \in Feeders, g \in BOOLEAN : \E r \in Behind[f] : Sending(f, r, g)

(* The prefix of a connection is the receiver of its messages, or one some *)
(* relay speaks for.                                                       *)
LEMMA PrefixOfMessage ==
  ASSUME ClientInv, NEW f \in Feeders, NEW r \in Behind[f],
         cs[f].prefix # NoId, cs[f].prefix \in Alone
  PROVE  cs[f].prefix = r
<1>1. LockOf(f, cs[f])
  BY DEF ClientInv
<1>2. f \notin Relays /\ cs[f].prefix = Sender[f]
  BY <1>1 DEF LockOf, Alone
<1> QED
  BY <1>2, StationAssumption

LEMMA PairConcat ==
  ASSUME NEW a, NEW b
  PROVE  <<a>> \o <<b>> = <<a, b>>
<1> DEFINE S == {a, b}
<1>1. <<a>> \in Seq(S) /\ <<b>> \in Seq(S) /\ <<a, b>> \in Seq(S)
  OBVIOUS
<1>2. Len(<<a>>) = 1 /\ Len(<<b>>) = 1 /\ Len(<<a, b>>) = 2
  OBVIOUS
<1>3. /\ <<a>> \o <<b>> \in Seq(S) /\ Len(<<a>> \o <<b>>) = 2
      /\ (<<a>> \o <<b>>)[1] = a /\ (<<a>> \o <<b>>)[2] = b
  BY <1>1, <1>2, ConcatProperties
<1>4. ASSUME NEW i \in 1..2 PROVE (<<a>> \o <<b>>)[i] = <<a, b>>[i]
  BY <1>3
<1> QED
  BY <1>1, <1>2, <1>3, <1>4, SeqEqual

LEMMA FeedAttribution ==
  ASSUME AttributionInv, ClientStep, UNCHANGED lastPublished
  PROVE  AttributionInv'
<1>1. ClientInv'
  BY ClientStepKeeps DEF AttributionInv
<1>2. lastPublished' \in [{"beast", "garbage"} -> AllFrames]
  BY DEF AttributionInv
<1>3. CASE Second
  <2>1. \A f \in Feeders : cs'[f].prefix = cs[f].prefix
    BY <1>3 DEF Second, AttributionInv, ClientInv, Client
  <2>2. CASE Idle
    BY <1>1, <1>2, <1>3, <2>2 DEF AttributionInv, Idle, Second, Quiet
  <2>3. ASSUME NEW f \in Feeders, NEW g \in BOOLEAN, NEW r \in Behind[f], Sending(f, r, g)
        PROVE  AttributionInv'
    <3>1. Sending(f, r, g)'
      BY <1>3, <2>1, <2>3 DEF Second, Sending, Announcing, Prefixing, HasPrefixed, Plain,
                              Prefixed, Quiet
    <3> QED
      BY <1>1, <1>2, <3>1 DEF AttributionInv
  <2> QED
    BY <2>2, <2>3 DEF AttributionInv
<1>4. ASSUME emits = <<>> PROVE Idle
  BY <1>4 DEF AttributionInv, Sending, Announcing, Prefixing, HasPrefixed, Plain
<1>5. ASSUME emits = <<>>, UNCHANGED emits PROVE AttributionInv'
  BY <1>1, <1>2, <1>4, <1>5 DEF AttributionInv, Idle, Quiet
<1>6. ASSUME NEW f \in Feeders,
             FeedUuid(f) \/ Reconnect(f) \/ \E l \in Limits : OverrideLimit(f, l)
      PROVE  AttributionInv'
  BY <1>5, <1>6 DEF FeedUuid, Reconnect, OverrideLimit
<1>7. ASSUME NEW f \in Feeders, NEW r \in Receivers, FeedReceiverId(f, r)
      PROVE  AttributionInv'
  <2>1. PICK s : /\ emits = <<>> /\ f \in Relays /\ r \in Behind[f]
                 /\ emits' = Routed(<<E3(r)>>, s) /\ cs' = [cs EXCEPT ![f] = s]
    BY <1>7 DEF FeedReceiverId
  <2>2. s \in Client
    BY <1>1, <2>1 DEF ClientInv, AttributionInv
  <2>3. PICK g \in BOOLEAN : emits' = <<Item(E3(r), g)>>
    BY <2>1, <2>2 DEF Routed, Item, Client
  <2>4. Announcing(f, r, g)'
    BY <1>4, <2>1, <2>3 DEF Announcing, Idle, Quiet
  <2> QED
    BY <1>1, <1>2, <2>1, <2>3, <2>4 DEF AttributionInv, Sending
<1>8. ASSUME NEW f \in Feeders, NEW r \in Receivers, FeedMessage(f, r)
      PROVE  AttributionInv'
  <2>1. PICK s :
          /\ emits = <<>> /\ r \in Behind[f] /\ cs' = [cs EXCEPT ![f] = s]
          /\ emits' = Routed((IF Prepend /\ s.prefix # NoId THEN <<E3(s.prefix)>> ELSE <<>>)
                               \o <<Msg(r)>>, s)
    BY <1>8 DEF FeedMessage
  <2>2. PICK g \in BOOLEAN : s \in Client /\ cs'[f] = s /\ s.garbage = g
    BY <1>1, <2>1 DEF ClientInv, AttributionInv, Client
  <2>3. CASE Prepend /\ s.prefix # NoId
    <3>1. <<E3(s.prefix)>> \o <<Msg(r)>> = <<E3(s.prefix), Msg(r)>>
      BY PairConcat
    <3>2. emits' = Routed(<<E3(s.prefix), Msg(r)>>, s)
      BY <2>1, <2>3, <3>1
    <3>3. emits' = <<Item(E3(s.prefix), g), Item(Msg(r), g)>>
      BY <2>2, <3>2 DEF Routed, Item
    <3>4. Prefixing(f, r, g)'
      BY <1>4, <2>1, <2>2, <2>3, <3>3 DEF Prefixing, Prefixed, Idle, Quiet
    <3> QED
      BY <1>1, <1>2, <2>1, <2>2, <3>4 DEF AttributionInv, Sending
  <2>4. CASE ~(Prepend /\ s.prefix # NoId)
    <3>1. <<>> \o <<Msg(r)>> = <<Msg(r)>>
      OBVIOUS
    <3>2. emits' = Routed(<<Msg(r)>>, s)
      BY <2>1, <2>4, <3>1
    <3>3. emits' = <<Item(Msg(r), g)>>
      BY <2>2, <3>2 DEF Routed, Item
    <3>4. Plain(f, r, g)'
      BY <1>4, <2>1, <2>2, <2>4, <3>3 DEF Plain, Prefixed, Idle, Quiet
    <3> QED
      BY <1>1, <1>2, <2>1, <2>2, <3>4 DEF AttributionInv, Sending
  <2> QED
    BY <2>3, <2>4
<1> QED
  BY <1>3, <1>6, <1>7, <1>8 DEF ClientStep, Feed

LEMMA PublishAttribution ==
  ASSUME AttributionInv, Publish
  PROVE  AttributionInv'
<1>1. emits # <<>> /\ emits' = Tail(emits) /\ UNCHANGED <<cs, upstream>>
  BY DEF Publish, Emit
<1>2. ClientInv'
  BY <1>1 DEF AttributionInv, ClientInv
<1>3. PICK f \in Feeders, g \in BOOLEAN : \E r \in Behind[f] : Sending(f, r, g)
  BY <1>1 DEF AttributionInv, Idle
<1> PICK r \in Behind[f] : Sending(f, r, g)
  BY <1>3
<1>4. ASSUME NEW frame \in AllFrames, Head(emits) = Item(frame, g)
      PROVE  /\ lastPublished' = [lastPublished EXCEPT ![Output(g)] = frame]
             /\ lastPublished' \in [{"beast", "garbage"} -> AllFrames]
             /\ lastPublished'[Output(g)] = frame
             /\ \A o \in {"beast", "garbage"} \ {Output(g)} : lastPublished'[o] = lastPublished[o]
  <2>1. Head(emits).garbage = g /\ Head(emits).frame = frame
    BY <1>4 DEF Item
  <2>2. lastPublished' = [lastPublished EXCEPT ![Output(g)] = frame]
    BY <2>1 DEF Publish, Output
  <2>3. Output(g) \in {"beast", "garbage"}
    BY DEF Output
  <2> QED
    BY <2>2, <2>3 DEF AttributionInv
<1>5. r \in Receivers /\ Msg(r) \in AllFrames /\ E3(r) \in AllFrames
  BY ClientAssumption DEF Msg, E3, AllFrames, StreamFrames
<1>6. ASSUME Head(emits) = Item(Msg(r), g), Tail(emits) = <<>>,
             \A o \in {"beast", "garbage"} \ {Output(g)} : Quiet(o)
      PROVE  AttributionInv'
  <2>1. lastPublished'[Output(g)].kind = "msg"
    BY <1>4, <1>5, <1>6 DEF Msg
  <2>2. Idle'
    BY <1>1, <1>4, <1>5, <1>6, <2>1 DEF Idle, Quiet
  <2> QED
    BY <1>2, <1>4, <1>5, <1>6, <2>2 DEF AttributionInv
<1>7. CASE Announcing(f, r, g)
  <2>1. Head(emits) = Item(E3(r), g) /\ Tail(emits) = <<>> /\ r \notin Alone
    BY <1>7 DEF Announcing, Alone
  <2>2. lastPublished'[Output(g)].id \notin Alone
    BY <1>4, <1>5, <2>1 DEF E3
  <2>3. Idle'
    BY <1>1, <1>4, <1>5, <1>7, <2>1, <2>2 DEF Idle, Quiet, Announcing
  <2> QED
    BY <1>2, <1>4, <1>5, <2>1, <2>3 DEF AttributionInv
<1>8. CASE Prefixing(f, r, g)
  <2>1. Head(emits) = Item(E3(cs[f].prefix), g) /\ Tail(emits) = <<Item(Msg(r), g)>>
    BY <1>8 DEF Prefixing
  <2>2. E3(cs[f].prefix) \in AllFrames
    BY <1>8 DEF Prefixing, Prefixed, AttributionInv, ClientInv, Client, Id, E3, AllFrames, StreamFrames
  <2>3. HasPrefixed(f, r, g)'
    BY <1>1, <1>4, <1>8, <2>1, <2>2 DEF HasPrefixed, Prefixing, Prefixed, Quiet
  <2>4. lastPublished' \in [{"beast", "garbage"} -> AllFrames]
    BY <1>4, <2>1, <2>2
  <2>5. Sending(f, r, g)'
    BY <2>3 DEF Sending
  <2> QED
    BY <1>2, <1>3, <2>4, <2>5 DEF AttributionInv
<1>9. CASE HasPrefixed(f, r, g) \/ Plain(f, r, g)
  <2>1. emits = <<Item(Msg(r), g)>>
    BY <1>9 DEF HasPrefixed, Plain
  <2>2. Head(emits) = Item(Msg(r), g) /\ Tail(emits) = <<>>
    BY <2>1
  <2>3. \A o \in {"beast", "garbage"} \ {Output(g)} : Quiet(o)
    BY <1>9 DEF HasPrefixed, Plain
  <2> QED
    BY <1>6, <2>2, <2>3
<1> QED
  BY <1>7, <1>8, <1>9 DEF Sending

LEMMA InitAttribution == FanInit => AttributionInv
<1>1. FanInit => ClientInv
  BY NewStateLemma DEF FanInit, ClientInit, ClientInv
<1>2. HeartbeatFrame \in AllFrames /\ HeartbeatFrame.kind = "hb"
  BY DEF AllFrames, HeartbeatFrame
<1> QED
  BY <1>1, <1>2 DEF FanInit, ClientInit, AttributionInv, Idle, Quiet

LEMMA AttributionHolds == FanSpec => []AttributionInv
<1>2. ASSUME AttributionInv, Timer PROVE AttributionInv'
  <2>1. ClientInv' /\ emits' = emits /\ Idle
    BY <1>2 DEF Timer, clientVars, AttributionInv, ClientInv, Sending, Announcing, Prefixing,
                HasPrefixed, Plain
  <2>2. lastPublished' = lastPublished
        \/ lastPublished' = [lastPublished EXCEPT !["beast"] = Heartbeat]
    BY <1>2 DEF Timer
  <2>3. Heartbeat \in AllFrames /\ Heartbeat.kind = "hb"
    BY FanOutAssumption DEF AllFrames, HeartbeatFrame
  <2> QED
    BY <1>2, <2>1, <2>2, <2>3 DEF AttributionInv, Idle, Quiet
<1>3. ASSUME AttributionInv, UNCHANGED <<clientVars, lastPublished>> PROVE AttributionInv'
  <2>1. emits' = emits /\ cs' = cs /\ lastPublished' = lastPublished
    BY <1>3 DEF clientVars
  <2>4. ClientInv'
    BY <1>3, <2>1 DEF AttributionInv, ClientInv
  <2>2. CASE Idle
    BY <1>3, <2>1, <2>2, <2>4 DEF AttributionInv, Idle, Quiet
  <2>3. ASSUME NEW f \in Feeders, NEW g \in BOOLEAN, NEW r \in Behind[f], Sending(f, r, g)
        PROVE  AttributionInv'
    <3>1. Sending(f, r, g)'
      BY <2>1, <2>3 DEF Sending, Announcing, Prefixing, HasPrefixed, Plain, Prefixed, Quiet
    <3> QED
      BY <1>3, <2>1, <2>4, <3>1 DEF AttributionInv
  <2> QED
    BY <1>3, <2>2, <2>3 DEF AttributionInv
<1>4. AttributionInv /\ [FanNext]_fanVars => AttributionInv'
  BY <1>2, <1>3, FeedAttribution, PublishAttribution
  DEF FanNext, FeederStep, Subscribe, WriterEnvironment, fanVars
<1> QED
  BY <1>4, InitAttribution, PTL DEF FanSpec

-----------------------------------------------------------------------------
(* An append that AttributionInv allows attributes its message to the      *)
(* receiver that heard it.                                                 *)
LEMMA PublishAttributed ==
  ASSUME AttributionInv, Publish
  PROVE  \A o \in {"beast", "garbage"} :
           lastPublished'[o] # lastPublished[o] => Attributed(lastPublished[o], Head(emits).frame)
<1> SUFFICES ASSUME NEW o \in {"beast", "garbage"}, lastPublished'[o] # lastPublished[o]
             PROVE  Attributed(lastPublished[o], Head(emits).frame)
  OBVIOUS
<1>1. PICK f \in Feeders, g \in BOOLEAN : \E r \in Behind[f] : Sending(f, r, g)
  BY DEF Publish, Emit, AttributionInv, Idle
<1> PICK r \in Behind[f] : Sending(f, r, g)
  BY <1>1
<1>2. Head(emits).garbage => o = "garbage"
  BY DEF Publish, AttributionInv
<1>3. ~Head(emits).garbage => o = "beast"
  BY DEF Publish, AttributionInv
<1>4. CASE Announcing(f, r, g) \/ Prefixing(f, r, g)
  BY <1>4 DEF Announcing, Prefixing, Item, E3, Attributed
<1>5. CASE HasPrefixed(f, r, g)
  <2>1. Head(emits) = Item(Msg(r), g)
    BY <1>5 DEF HasPrefixed
  <2>2. o = Output(g)
    BY <1>2, <1>3, <2>1 DEF Item, Output
  <2>3. cs[f].prefix \in Alone => cs[f].prefix = r
    BY <1>1, <1>5, PrefixOfMessage DEF HasPrefixed, Prefixed, AttributionInv
  <2>4. lastPublished[o].id = cs[f].prefix /\ Head(emits).frame.id = r
    BY <1>5, <2>1, <2>2 DEF HasPrefixed, E3, Msg, Item
  <2> QED
    BY <2>3, <2>4 DEF Attributed
<1>6. CASE Plain(f, r, g)
  BY <1>6 DEF Plain, Quiet, Attributed
<1> QED
  BY <1>4, <1>5, <1>6 DEF Sending

(* No output ever carries a message directly after the announcement of     *)
(* another lone receiver (client.rs:82-94, ingest.rs:174-181).             *)
THEOREM AttributionPublished == FanSpec => PublishedAttribution
<1> DEFINE Right ==
      \A o \in {"beast", "garbage"} :
        emits # <<>> /\ lastPublished'[o] # lastPublished[o] =>
          Attributed(lastPublished[o], lastPublished'[o])
<1>1. ASSUME AttributionInv, Publish PROVE Right
  <2>1. \A o \in {"beast", "garbage"} :
          lastPublished'[o] # lastPublished[o] => lastPublished'[o] = Head(emits).frame
    BY <1>1 DEF Publish, AttributionInv
  <2> QED
    BY <1>1, <2>1, PublishAttributed
<1>2. ASSUME FanNext, ~Publish PROVE Right
  BY <1>2 DEF FanNext, FeederStep, Timer, Subscribe, WriterEnvironment
<1>3. AttributionInv /\ [FanNext]_fanVars => [Right]_fanVars
  BY <1>1, <1>2
<1> QED
  BY <1>3, AttributionHolds, PTL DEF FanSpec, PublishedAttribution

(* With --net-receiver-id, every message of a lone receiver whose          *)
(* connection is identified comes directly after its announcement, when no *)
(* other connection carries the same receiver.                             *)
THEOREM IdentifiedPublished ==
  ASSUME Prepend,
         \A f, g \in Feeders : Behind[f] \cap Behind[g] \cap Alone # {} => f = g
  PROVE  FanSpec => IdentifiedStaysIdentified
<1> DEFINE Announced ==
      emits # <<>> /\ emits' # emits /\ Head(emits).frame.kind = "msg" =>
        LET r == Head(emits).frame.id
            o == IF Head(emits).garbage THEN "garbage" ELSE "beast"
        IN \A f \in Feeders :
             r \in Behind[f] \cap Alone /\ cs[f].locked => lastPublished[o] = E3(r)
<1>1. ASSUME AttributionInv, FanNext PROVE Announced
  <2> SUFFICES ASSUME emits # <<>>, Head(emits).frame.kind = "msg", NEW h \in Feeders,
                      Head(emits).frame.id \in Behind[h] \cap Alone, cs[h].locked
               PROVE  lastPublished[IF Head(emits).garbage THEN "garbage" ELSE "beast"]
                        = E3(Head(emits).frame.id)
    OBVIOUS
  <2>1. PICK f \in Feeders, g \in BOOLEAN : \E r \in Behind[f] : Sending(f, r, g)
    BY <1>1 DEF AttributionInv, Idle
  <2> PICK r \in Behind[f] : Sending(f, r, g)
    BY <2>1
  <2>2. ~Announcing(f, r, g) /\ ~Prefixing(f, r, g)
    BY DEF Announcing, Prefixing, Item, E3
  <2>3. Head(emits) = Item(Msg(r), g)
    BY <2>2 DEF Sending, HasPrefixed, Plain
  <2>4. Head(emits).frame.id = r /\ Head(emits).garbage = g
    BY <2>3 DEF Item, Msg
  <2>5. f = h
    BY <2>1, <2>4
  <2>6. LockOf(f, cs[f]) /\ f \notin Relays
    BY <1>1, <2>1, <2>4, <2>5 DEF AttributionInv, ClientInv, Alone
  <2>7. cs[f].prefix = r /\ r # NoId
    BY <2>1, <2>5, <2>6, StationAssumption, ClientAssumption DEF LockOf
  <2>8. lastPublished[Output(g)] = E3(r)
    BY <2>2, <2>7 DEF Sending, HasPrefixed, Plain, Prefixed
  <2> QED
    BY <2>4, <2>8 DEF Output
<1>2. AttributionInv /\ [FanNext]_fanVars => [Announced]_fanVars
  BY <1>1
<1> QED
  BY <1>2, AttributionHolds, PTL DEF FanSpec, IdentifiedStaysIdentified

-----------------------------------------------------------------------------
(* What a subscriber that lost nothing has got, what is queued for it and  *)
(* what is collected are one stream that ends with the frame published     *)
(* last.                                                                   *)
Chained(s) == \A i \in 1..(Len(s) - 1) : Attributed(s[i].frame, s[i + 1].frame)
Stream(s, frame) == Chained(s) /\ (s # <<>> => s[Len(s)].frame = frame)

StreamInv ==
  /\ AttributionInv /\ WriterInv
  /\ Stream(buf, lastPublished["beast"])
  /\ \A c \in clients :
       ~lossy[c] => Stream((last[c] \o sub[c].sendq) \o buf, lastPublished["beast"])

LEMMA SameFrame == \A frame : Attributed(frame, frame)
BY DEF Attributed

LEMMA AppendStream ==
  ASSUME NEW s \in Seq(Byte), NEW frame, Stream(s, frame),
         NEW f \in Frames, Attributed(frame, f)
  PROVE  Stream(s \o Bytes(f), f)
<1> DEFINE t == Bytes(f)
<1>1. t \in Seq(Byte) /\ t # <<>>
  BY BytesType, BytesWhole
<1>2. \A i \in 1..Len(t) : t[i].frame = f
  <2>1. DOMAIN t = 1..FrameLen[f] /\ \A i \in 1..FrameLen[f] : t[i].frame = f
    BY DEF Bytes
  <2>2. DOMAIN t = 1..Len(t)
    BY <1>1, LenProperties
  <2> QED
    BY <2>1, <2>2
<1> HIDE DEF t
<1>3. /\ Len(s) \in Nat /\ Len(t) \in Nat \ {0} /\ Len(s \o t) = Len(s) + Len(t)
      /\ \A i \in 1..(Len(s) + Len(t)) :
           (s \o t)[i] = IF i <= Len(s) THEN s[i] ELSE t[i - Len(s)]
  BY <1>1, ConcatProperties, LenProperties, EmptySeq
<1>4. (s \o t)[Len(s \o t)].frame = f
  BY <1>2, <1>3
<1>5. ASSUME NEW i \in 1..(Len(s \o t) - 1)
      PROVE  Attributed((s \o t)[i].frame, (s \o t)[i + 1].frame)
  <2>1. CASE i < Len(s)
    <3>1. i \in 1..(Len(s) - 1) /\ (s \o t)[i] = s[i] /\ (s \o t)[i + 1] = s[i + 1]
      BY <1>3, <2>1
    <3> QED
      BY <3>1 DEF Stream, Chained
  <2>2. CASE i = Len(s)
    <3>1. s # <<>> /\ (s \o t)[i] = s[Len(s)] /\ (s \o t)[i + 1].frame = f
      BY <1>2, <1>3, <2>2, EmptySeq
    <3> QED
      BY <3>1 DEF Stream
  <2>3. CASE i > Len(s)
    <3>1. (s \o t)[i].frame = f /\ (s \o t)[i + 1].frame = f
      BY <1>2, <1>3, <2>3
    <3> QED
      BY <3>1, SameFrame
  <2> QED
    BY <1>3, <2>1, <2>2, <2>3
<1>6. Chained(s \o t)
  BY <1>5 DEF Chained
<1> QED
  BY <1>4, <1>6 DEF Stream, t

LEMMA RestStream ==
  ASSUME NEW s \in Seq(Byte), NEW frame, Stream(s, frame), NEW n \in 1..Len(s)
  PROVE  Stream(SubSeq(s, n, Len(s)), frame)
<1>1. Len(s) \in Nat
  BY LenProperties
<1>2. /\ Len(SubSeq(s, n, Len(s))) = Len(s) - n + 1
      /\ \A i \in 1..(Len(s) - n + 1) : SubSeq(s, n, Len(s))[i] = s[n + i - 1]
  BY <1>1, SubSeqProperties
<1>3. ASSUME NEW i \in 1..(Len(s) - n)
      PROVE  Attributed(SubSeq(s, n, Len(s))[i].frame, SubSeq(s, n, Len(s))[i + 1].frame)
  <2>1. n + i - 1 \in 1..(Len(s) - 1) /\ n + (i + 1) - 1 = (n + i - 1) + 1
    BY <1>1
  <2>2. SubSeq(s, n, Len(s))[i] = s[n + i - 1] /\ SubSeq(s, n, Len(s))[i + 1] = s[n + i]
    BY <1>1, <1>2
  <2>3. Attributed(s[n + i - 1].frame, s[(n + i - 1) + 1].frame)
    BY <2>1 DEF Stream, Chained
  <2> QED
    BY <2>1, <2>2, <2>3
<1>4. SubSeq(s, n, Len(s))[Len(s) - n + 1].frame = frame
  <2>1. n + (Len(s) - n + 1) - 1 = Len(s) /\ Len(s) - n + 1 \in 1..(Len(s) - n + 1) /\ s # <<>>
    BY <1>1, EmptySeq
  <2> QED
    BY <1>2, <2>1 DEF Stream
<1>5. Chained(SubSeq(s, n, Len(s)))
  BY <1>1, <1>2, <1>3 DEF Chained
<1> QED
  BY <1>2, <1>4, <1>5 DEF Stream

LEMMA TailStream ==
  ASSUME NEW l \in Seq(Byte), NEW q \in Seq(Byte), NEW frame, Stream(l \o q, frame), q # <<>>
  PROVE  Stream(q, frame)
<1> DEFINE s == l \o q
           n == Len(l) + 1
<1>1. /\ s \in Seq(Byte) /\ Len(l) \in Nat /\ Len(q) \in Nat \ {0} /\ Len(s) = Len(l) + Len(q)
      /\ \A i \in 1..(Len(l) + Len(q)) : s[i] = IF i <= Len(l) THEN l[i] ELSE q[i - Len(l)]
  BY ConcatProperties, LenProperties, EmptySeq
<1> HIDE DEF s
<1>2. /\ SubSeq(s, n, Len(s)) \in Seq(Byte)
      /\ Len(SubSeq(s, n, Len(s))) = Len(q)
      /\ \A i \in 1..Len(q) : SubSeq(s, n, Len(s))[i] = s[n + i - 1]
  BY <1>1, SubSeqProperties
<1>3. \A i \in 1..Len(q) : s[n + i - 1] = q[i]
  BY <1>1
<1>4. SubSeq(s, n, Len(s)) = q
  BY <1>2, <1>3, SeqEqual
<1>5. n \in 1..Len(s)
  BY <1>1
<1> QED
  BY <1>1, <1>4, <1>5, RestStream DEF s

LEMMA WriteStream ==
  ASSUME NEW l \in Seq(Byte), NEW q \in Seq(Byte), NEW frame, Stream(l \o q, frame),
         NEW n \in 0..Len(q)
  PROVE  Stream((IF n > 0 THEN <<q[n]>> ELSE l) \o SubSeq(q, n + 1, Len(q)), frame)
<1>1. Len(q) \in Nat
  BY LenProperties
<1>2. CASE n = 0
  <2>1. SubSeq(q, n + 1, Len(q)) = q /\ (IF n > 0 THEN <<q[n]>> ELSE l) = l
    BY <1>2, SubSeqFull
  <2> QED
    BY <2>1, Zenon
<1>3. CASE n > 0
  <2>1. n \in 1..Len(q) /\ q # <<>>
    BY <1>1, <1>3, EmptySeq
  <2>2. Stream(SubSeq(q, n, Len(q)), frame)
    BY <2>1, TailStream, RestStream
  <2>3. SubSeq(q, n, Len(q)) = <<q[n]>> \o SubSeq(q, n + 1, Len(q))
    BY <1>1, <2>1, SubSeqRecursiveFirst
  <2>4. (IF n > 0 THEN <<q[n]>> ELSE l) = <<q[n]>>
    BY <1>3
  <2> QED
    BY <2>2, <2>3, <2>4, Zenon
<1> QED
  BY <1>1, <1>2, <1>3

LEMMA FirstPartChained ==
  ASSUME NEW s \in Seq(Byte), NEW t \in Seq(Byte), Chained(s \o t)
  PROVE  Chained(s)
<1>1. /\ Len(s) \in Nat /\ Len(t) \in Nat /\ Len(s \o t) = Len(s) + Len(t)
      /\ \A i \in 1..Len(s) : (s \o t)[i] = s[i]
  BY ConcatProperties, LenProperties
<1>2. ASSUME NEW i \in 1..(Len(s) - 1)
      PROVE  Attributed(s[i].frame, s[i + 1].frame)
  <2>1. i \in 1..(Len(s \o t) - 1) /\ (s \o t)[i] = s[i] /\ (s \o t)[i + 1] = s[i + 1]
    BY <1>1
  <2> QED
    BY <2>1 DEF Chained
<1> QED
  BY <1>2 DEF Chained

LEMMA OneStream ==
  ASSUME NEW l \in Seq(Byte), NEW q \in Seq(Byte), NEW chunk \in Seq(Byte), NEW frame,
         Stream((l \o q) \o chunk, frame)
  PROVE  Stream(l \o (q \o chunk), frame)
<1>1. (l \o q) \o chunk = l \o (q \o chunk)
  BY ConcatProperties, ConcatAssociative
<1> QED
  BY <1>1, Zenon

LEMMA FlushKeepsStreams ==
  ASSUME WriterInv, NEW chunk \in Seq(Byte), NEW frame, Flush(chunk),
         \A c \in clients : ~lossy[c] => Stream((last[c] \o sub[c].sendq) \o chunk, frame)
  PROVE  /\ \A c \in clients' :
              ~lossy'[c] => Stream((last'[c] \o sub'[c].sendq) \o buf', frame)
         /\ Stream(buf', frame)
<1>1. buf' = <<>> /\ WriterInv'
  BY FlushKeepsInv DEF Flush
<1>2. Stream(<<>>, frame)
  <2>1. Len(<<>>) = 0
    BY EmptySeq
  <2> QED
    BY <2>1 DEF Stream, Chained
<1>3. ASSUME NEW c \in clients', ~lossy'[c]
      PROVE  Stream((last'[c] \o sub'[c].sendq) \o buf', frame)
  <2>1. c \in clients /\ c \in Clients
    BY <1>3 DEF Flush, WriterInv, TypeOK
  <2>2. PICK n : /\ n \in Writable(Offer(sub[c], chunk), sock[c])
                 /\ sub'[c] = TryFlush(Offer(sub[c], chunk), n)
                 /\ last'[c] = IF n > 0 THEN <<Offer(sub[c], chunk).sendq[n]>> ELSE last[c]
                 /\ lossy'[c] = (c \in clients' /\ (lossy[c] \/ Skipped(sub[c], chunk)))
    BY <1>3, <2>1 DEF Flush
  <2>3. ~lossy[c] /\ ~Skipped(sub[c], chunk)
    BY <1>3, <2>2
  <2>4. /\ sub[c] \in SubClient /\ sock[c] \in Socket /\ last[c] \in Seq(Byte)
        /\ sub[c].sendq \in Seq(Byte)
    BY <2>1 DEF WriterInv, TypeOK, SubClient
  <2> DEFINE q == sub[c].sendq \o chunk
  <2>5. q \in Seq(Byte) /\ Offer(sub[c], chunk).sendq = q
    BY <2>3, <2>4, ConcatProperties DEF Offer
  <2>6. n \in 0..Len(q) /\ sub'[c].sendq = SubSeq(q, n + 1, Len(q))
    <3>1. Offer(sub[c], chunk) \in SubClient
      BY <2>4, OfferLemma
    <3>2. n \in 0..Len(Offer(sub[c], chunk).sendq)
      BY <2>2, <2>4, <3>1, TryFlushLemma
    <3>3. TryFlush(Offer(sub[c], chunk), n).sendq =
            SubSeq(Offer(sub[c], chunk).sendq, n + 1, Len(Offer(sub[c], chunk).sendq))
      BY DEF TryFlush
    <3>4. sub'[c].sendq = TryFlush(Offer(sub[c], chunk), n).sendq
      BY <2>2, Zenon
    <3>5. Offer(sub[c], chunk).sendq = q
      BY <2>5
    <3> HIDE DEF q
    <3> QED
      BY <3>2, <3>3, <3>4, <3>5, Zenon
  <2>7. Stream(last[c] \o q, frame)
    BY <2>1, <2>3, <2>4, OneStream
  <2> HIDE DEF q
  <2>8. Stream((IF n > 0 THEN <<q[n]>> ELSE last[c]) \o SubSeq(q, n + 1, Len(q)), frame)
    BY <2>4, <2>5, <2>6, <2>7, WriteStream
  <2>9. Stream(last'[c] \o sub'[c].sendq, frame)
    BY <2>2, <2>5, <2>6, <2>8, Zenon
  <2>10. last'[c] \o sub'[c].sendq \in Seq(Byte)
    BY <1>1, <2>1, ConcatProperties DEF WriterInv, TypeOK, SubClient
  <2> QED
    BY <1>1, <2>9, <2>10, ConcatEmptySeq
<1> QED
  BY <1>1, <1>2, <1>3

(* Appending a frame carries every stream on.                              *)
LEMMA AppendedStreams ==
  ASSUME StreamInv, NEW f \in Frames, Attributed(lastPublished["beast"], f)
  PROVE  /\ buf \o Bytes(f) \in Seq(Byte) /\ Stream(buf \o Bytes(f), f)
         /\ \A c \in clients :
              ~lossy[c] => Stream((last[c] \o sub[c].sendq) \o (buf \o Bytes(f)), f)
<1>1. buf \in Seq(Byte) /\ Bytes(f) \in Seq(Byte)
  BY BytesType DEF StreamInv, WriterInv, TypeOK
<1>2. Stream(buf \o Bytes(f), f)
  BY <1>1, AppendStream DEF StreamInv
<1>3. ASSUME NEW c \in clients, ~lossy[c]
      PROVE  Stream((last[c] \o sub[c].sendq) \o (buf \o Bytes(f)), f)
  <2>1. last[c] \in Seq(Byte) /\ sub[c].sendq \in Seq(Byte)
    BY DEF StreamInv, WriterInv, TypeOK, SubClient
  <2> DEFINE s == last[c] \o sub[c].sendq
  <2>2. s \in Seq(Byte) /\ s \o buf \in Seq(Byte) /\ Stream(s \o buf, lastPublished["beast"])
    BY <1>1, <1>3, <2>1, ConcatProperties DEF StreamInv
  <2> HIDE DEF s
  <2>3. Stream((s \o buf) \o Bytes(f), f)
    BY <2>2, AppendStream
  <2>4. (s \o buf) \o Bytes(f) = s \o (buf \o Bytes(f))
    BY <1>1, <2>2, ConcatAssociative
  <2> QED
    BY <2>3, <2>4 DEF s
<1> QED
  BY <1>1, <1>2, <1>3, ConcatProperties

LEMMA EmittedFrame ==
  ASSUME AttributionInv, Publish
  PROVE  Head(emits).frame \in AllFrames
<1>1. PICK f \in Feeders, g \in BOOLEAN : \E r \in Behind[f] : Sending(f, r, g)
  BY DEF Publish, Emit, AttributionInv, Idle
<1> PICK r \in Behind[f] : Sending(f, r, g)
  BY <1>1
<1>2. r \in Receivers /\ (Prefixed(f) => cs[f].prefix \in Receivers)
  BY <1>1, ClientAssumption DEF Prefixed, AttributionInv, ClientInv, Client, Id
<1>3. Msg(r) \in AllFrames /\ E3(r) \in AllFrames
  BY <1>2 DEF Msg, E3, AllFrames, StreamFrames
<1>4. Prefixed(f) => E3(cs[f].prefix) \in AllFrames
  BY <1>2 DEF E3, AllFrames, StreamFrames
<1>5. CASE Announcing(f, r, g)
  BY <1>3, <1>5 DEF Announcing, Item
<1>6. CASE Prefixing(f, r, g)
  BY <1>4, <1>6 DEF Prefixing, Item
<1>7. CASE HasPrefixed(f, r, g)
  BY <1>3, <1>7 DEF HasPrefixed, Item
<1>8. CASE Plain(f, r, g)
  BY <1>3, <1>8 DEF Plain, Item
<1> QED
  BY <1>5, <1>6, <1>7, <1>8 DEF Sending

(* Every step of the fan-out is one of the writer, or does not touch it.   *)
LEMMA FanStepIsWriterStep ==
  ASSUME AttributionInv, [FanNext]_fanVars
  PROVE  [Next]_vars
<1>1. ASSUME Publish PROVE Next \/ UNCHANGED vars
  <2>1. Head(emits).frame \in Frames
    BY <1>1, EmittedFrame, FanOutAssumption
  <2>2. AppendFrame(Head(emits).frame) \/ UNCHANGED vars
    BY <1>1 DEF Publish
  <2> QED
    BY <2>1, <2>2 DEF Next
<1>2. CASE FanNext
  BY <1>1, <1>2 DEF FanNext, FeederStep, Timer, Subscribe, WriterEnvironment, Next, CheckFlush
<1> QED
  BY <1>2 DEF fanVars

LEMMA FanWriterInv == FanSpec => []WriterInv
<1>1. FanInit => WriterInv
  BY InitInv DEF FanInit
<1>2. AttributionInv /\ WriterInv /\ [FanNext]_fanVars => WriterInv'
  BY FanStepIsWriterStep, NextKeepsInv
<1> QED
  BY <1>1, <1>2, AttributionHolds, PTL DEF FanSpec

LEMMA PublishKeepsStreams ==
  ASSUME StreamInv, Publish, AttributionInv', WriterInv'
  PROVE  StreamInv'
<1> DEFINE h == Head(emits)
<1>1. h.frame \in Frames
  BY EmittedFrame, FanOutAssumption DEF StreamInv
<1>2. CASE h.garbage
  <2>1. lastPublished'["beast"] = lastPublished["beast"] /\ UNCHANGED vars
    BY <1>2 DEF Publish, StreamInv, AttributionInv
  <2> QED
    BY <2>1 DEF StreamInv, vars
<1>3. CASE ~h.garbage
  <2>1. lastPublished'["beast"] = h.frame /\ AppendFrame(h.frame)
    BY <1>3 DEF Publish, StreamInv, AttributionInv
  <2>2. Attributed(lastPublished["beast"], h.frame)
    BY <2>1, PublishAttributed, SameFrame DEF StreamInv
  <2> DEFINE data == buf \o Bytes(h.frame)
  <2>3. /\ data \in Seq(Byte) /\ Stream(data, h.frame)
        /\ \A c \in clients : ~lossy[c] => Stream((last[c] \o sub[c].sendq) \o data, h.frame)
    BY <1>1, <2>2, AppendedStreams
  <2>4. Flush(data) \/ (buf' = data /\ UNCHANGED <<clients, sub, last, lossy>>)
    BY <2>1 DEF AppendFrame
  <2> HIDE DEF data, h
  <2>5. CASE Flush(data)
    <3>1. /\ \A c \in clients' :
               ~lossy'[c] => Stream((last'[c] \o sub'[c].sendq) \o buf', h.frame)
          /\ Stream(buf', h.frame)
      BY <2>3, <2>5, FlushKeepsStreams DEF StreamInv
    <3> QED
      BY <2>1, <3>1 DEF StreamInv
  <2>6. CASE buf' = data /\ UNCHANGED <<clients, sub, last, lossy>>
    BY <2>1, <2>3, <2>6 DEF StreamInv
  <2> QED
    BY <2>4, <2>5, <2>6
<1> QED
  BY <1>2, <1>3

LEMMA TimerKeepsStreams ==
  ASSUME StreamInv, Timer, AttributionInv', WriterInv'
  PROVE  StreamInv'
<1>1. CASE TimerFlush /\ UNCHANGED lastPublished
  <2>1. /\ \A c \in clients' :
             ~lossy'[c] => Stream((last'[c] \o sub'[c].sendq) \o buf', lastPublished["beast"])
        /\ Stream(buf', lastPublished["beast"])
    BY <1>1, FlushKeepsStreams DEF TimerFlush, StreamInv, WriterInv, TypeOK
  <2> QED
    BY <1>1, <2>1 DEF StreamInv
<1>2. CASE SendHeartbeat /\ lastPublished' = [lastPublished EXCEPT !["beast"] = Heartbeat]
  <2>1. Heartbeat \in Frames /\ Attributed(lastPublished["beast"], Heartbeat)
    BY WriterAssumption, FanOutAssumption DEF HeartbeatFrame, Attributed
  <2>2. lastPublished'["beast"] = Heartbeat
    BY <1>2 DEF StreamInv, AttributionInv
  <2> DEFINE data == buf \o Bytes(Heartbeat)
  <2>3. /\ data \in Seq(Byte)
        /\ \A c \in clients : ~lossy[c] => Stream((last[c] \o sub[c].sendq) \o data, Heartbeat)
    BY <2>1, AppendedStreams
  <2>4. Flush(data)
    BY <1>2 DEF SendHeartbeat
  <2> HIDE DEF data
  <2>5. /\ \A c \in clients' :
             ~lossy'[c] => Stream((last'[c] \o sub'[c].sendq) \o buf', Heartbeat)
        /\ Stream(buf', Heartbeat)
    BY <2>3, <2>4, FlushKeepsStreams DEF StreamInv
  <2> QED
    BY <2>2, <2>5 DEF StreamInv
<1> QED
  BY <1>1, <1>2 DEF Timer

LEMMA OthersKeepStreams ==
  ASSUME StreamInv, AttributionInv', WriterInv',
         FeederStep \/ Subscribe \/ WriterEnvironment \/ UNCHANGED fanVars
  PROVE  StreamInv'
<1>1. buf' = buf /\ lastPublished' = lastPublished /\ last' = last /\ lossy' = lossy
  BY DEF FeederStep, Subscribe, WriterEnvironment, fanVars, vars, AddClient, Environment, Tick,
         PeerReads, PeerCloses
<1>2. ASSUME clients' = clients, \A c \in clients : sub'[c].sendq = sub[c].sendq
      PROVE  StreamInv'
  BY <1>1, <1>2 DEF StreamInv
<1>3. CASE UNCHANGED vars
  BY <1>2, <1>3 DEF vars
<1>4. ASSUME NEW c \in Clients, AddClient(c) PROVE StreamInv'
  <2>1. last[c] = <<>> /\ sub[c].sendq = <<>>
    BY <1>4 DEF AddClient, StreamInv, WriterInv, FreeSlots, NewClient
  <2>2. (last[c] \o sub[c].sendq) \o buf = buf
    BY <2>1, ConcatEmptySeq DEF StreamInv, WriterInv, TypeOK
  <2>3. clients' = clients \cup {c} /\ sub' = sub
    BY <1>4 DEF AddClient
  <2> QED
    BY <1>1, <2>2, <2>3 DEF StreamInv
<1>5. CASE Tick
  BY <1>2, <1>5, TickOnRecord DEF Tick, StreamInv, WriterInv, TypeOK
<1>6. ASSUME NEW c \in Clients, PeerReads(c) \/ PeerCloses(c) PROVE StreamInv'
  BY <1>2, <1>6 DEF PeerReads, PeerCloses
<1> QED
  BY <1>3, <1>4, <1>5, <1>6 DEF FeederStep, Subscribe, WriterEnvironment, Environment, fanVars

(* A subscriber that has lost nothing reads no message as another lone     *)
(* receiver's, whatever the chunks, flushes and partial writes its stream  *)
(* was cut into (client.rs:82-94, writer.rs:47-175).                       *)
THEOREM StreamAttributed == FanSpec => []AttributedUntilLoss
<1>2. FanInit => StreamInv
  <2>1. Len(<<>>) = 0
    BY EmptySeq
  <2> QED
    BY <2>1, InitAttribution, InitInv DEF FanInit, Init, StreamInv, Stream, Chained
<1>3. StreamInv /\ AttributionInv' /\ WriterInv' /\ [FanNext]_fanVars => StreamInv'
  BY PublishKeepsStreams, TimerKeepsStreams, OthersKeepStreams DEF FanNext
<1>4. StreamInv => AttributedUntilLoss
  <2> SUFFICES ASSUME StreamInv, NEW c \in clients, ~lossy[c] PROVE AllAttributed(c)
    BY DEF AttributedUntilLoss
  <2>1. last[c] \o sub[c].sendq \in Seq(Byte) /\ buf \in Seq(Byte)
    BY ConcatProperties DEF StreamInv, WriterInv, TypeOK, SubClient
  <2>2. Chained((last[c] \o sub[c].sendq) \o buf)
    BY DEF StreamInv, Stream
  <2>3. Chained(last[c] \o sub[c].sendq)
    BY <2>1, <2>2, FirstPartChained
  <2> QED
    BY <2>3 DEF Chained, AllAttributed
<1> QED
  BY <1>2, <1>3, <1>4, AttributionHolds, FanWriterInv, PTL DEF FanSpec

(* The fan-out is one of the environments for which the writer's theorems  *)
(* hold: whatever the connections emit, append is only ever called with a  *)
(* whole frame, between two steps of the writer (ingest.rs:172-183).       *)
THEOREM FanOutDrivesWriter == FanSpec => Spec
<1>1. FanInit => Init
  BY DEF FanInit
<1>2. AttributionInv /\ [FanNext]_fanVars => [Next]_vars
  BY FanStepIsWriterStep
<1> QED
  BY <1>1, <1>2, AttributionHolds, PTL DEF FanSpec, Spec

(* So the beast output keeps its promise to its subscribers and their      *)
(* frames whole behind any number of feeders and relays.                   *)
THEOREM FanOutKeepsPromise ==
  FanSpec => KeepsItsPromise /\ []FramesStayWhole /\ []SendqBounded
BY FanOutDrivesWriter, PromiseKept, FramesWhole, QueueBound, PTL
=============================================================================

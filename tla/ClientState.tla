---------------------------- MODULE ClientState -----------------------------
(***************************************************************************)
(* The per-connection state of a feeder, src/src/client.rs: which receiver *)
(* id the connection is locked to, the E3 prefix that is put before its    *)
(* frames, and the rate limiter that routes its frames to the garbage      *)
(* output.  feed turns one incoming frame into the frames it emits, in     *)
(* order; the caller (src/src/ingest.rs:174-181) appends them one by one   *)
(* to an output before it does anything else, so nothing is fed while      *)
(* emits is not empty.                                                     *)
(*                                                                         *)
(* A message is named by the receiver that heard it.  A feeder may be one  *)
(* receiver or a relay, whose stream announces the receiver of every       *)
(* message with an E3 frame of its own.  A tick is one second.             *)
(***************************************************************************)
EXTENDS Integers, Sequences

CONSTANTS
  Feeders,       \* connections
  Receivers,     \* receiver ids
  NoId,          \* receiver id 0: none
  Behind,        \* feeder -> the receivers whose messages it carries
  Relays,        \* the feeders that send E3 frames
  Sender,        \* feeder -> the id derived from its UUID frame, or NoId
  Prepend,       \* --net-receiver-id
  Limits,        \* the values of rate_limit: RATE_LIMIT and the overrides
  DefaultLimit,  \* RATE_LIMIT
  MaxBurst       \* bound: messages counted in one rate window

ASSUME ClientAssumption ==
  /\ NoId \notin Receivers
  /\ Behind \in [Feeders -> SUBSET Receivers]
  /\ Relays \subseteq Feeders
  /\ Sender \in [Feeders -> Receivers \cup {NoId}]
  /\ Prepend \in BOOLEAN
  /\ Limits \subseteq Nat
  /\ DefaultLimit \in Limits
  /\ MaxBurst \in Nat

(* A station that says who it is carries its own messages only.            *)
ASSUME StationAssumption ==
  \A f \in Feeders \ Relays : Sender[f] # NoId => Behind[f] \subseteq {Sender[f]}

VARIABLES
  cs,        \* the ClientState of each connection
  upstream,  \* the receiver a relay has announced last on the connection
  emits      \* the frames feed emits that are not yet appended to an output

clientVars == <<cs, upstream, emits>>

RateWindow == 2  \* RATE_WINDOW_SECS

NewState == [id |-> NoId, locked |-> FALSE, prefix |-> NoId, garbage |-> FALSE,
             limit |-> DefaultLimit, count |-> 0, resetIn |-> RateWindow]

E3(r) == [kind |-> "e3", id |-> r]
Msg(r) == [kind |-> "msg", id |-> r]
StreamFrames == [kind : {"e3", "msg"}, id : Receivers]

ClientInit ==
  /\ cs = [f \in Feeders |-> NewState]
  /\ upstream = [f \in Feeders |-> NoId]
  /\ emits = <<>>

-----------------------------------------------------------------------------
(* rate_check: count the frame; the first frame after the window closes    *)
(* gives the verdict and opens the next window.                            *)
WindowOver(s) == s.resetIn = 0
VerdictAtLimit(s) ==  \* seeded bug: the limit itself is too much
  IF WindowOver(s) THEN (s.count + 1) \div RateWindow >= s.limit ELSE s.garbage
Verdict(s) ==
  IF WindowOver(s) THEN (s.count + 1) \div RateWindow > s.limit ELSE s.garbage
RateCheck(s) ==
  [id |-> s.id, locked |-> s.locked, prefix |-> s.prefix, limit |-> s.limit,
   garbage |-> Verdict(s),
   count   |-> IF WindowOver(s) THEN 0 ELSE s.count + 1,
   resetIn |-> IF WindowOver(s) THEN RateWindow ELSE s.resetIn]

(* Seeded bugs: the guard is missing; the prefix is forgotten.             *)
LockedAnew(s, r, withPrefix) ==
  [s EXCEPT !.id = r, !.locked = TRUE, !.prefix = IF withPrefix THEN r ELSE @]
LockedBare(s, r, withPrefix) ==
  IF s.locked THEN s ELSE [s EXCEPT !.id = r, !.locked = TRUE]

(* The lock a frame puts on a connection that has none yet.  A UUID sets   *)
(* the prefix only when frames are going to be prefixed, an E3 frame       *)
(* always.                                                                 *)
Locked(s, r, withPrefix) ==
  IF s.locked THEN s
  ELSE [s EXCEPT !.id = r, !.locked = TRUE,
                 !.prefix = IF withPrefix THEN r ELSE @]

RoutedApart(frames, s) ==  \* seeded bug: prefixes are never garbage
  [i \in DOMAIN frames |->
     [frame |-> frames[i], garbage |-> s.garbage /\ frames[i].kind = "msg"]]
Routed(frames, s) ==
  [i \in DOMAIN frames |-> [frame |-> frames[i], garbage |-> s.garbage]]

(* The bound on the frames of one window; the closing frame always comes. *)
Countable(s) == WindowOver(s) \/ s.count < MaxBurst

(* A UUID frame is consumed: it is neither counted nor emitted. *)
FeedUuid(f) ==
  /\ emits = <<>> /\ Sender[f] # NoId
  /\ cs' = [cs EXCEPT ![f] = Locked(@, Sender[f], Prepend)]
  /\ UNCHANGED <<upstream, emits>>

(* A ReceiverID frame may lock the connection, and is passed on as it is. *)
FeedReceiverId(f, r) ==
  LET s == RateCheck(Locked(cs[f], r, TRUE))
  IN /\ emits = <<>>
     /\ f \in Relays /\ r \in Behind[f] /\ Countable(cs[f])
     /\ cs' = [cs EXCEPT ![f] = s]
     /\ upstream' = [upstream EXCEPT ![f] = r]
     /\ emits' = Routed(<<E3(r)>>, s)

(* Seeded bug: the prefix comes after the frame.                           *)
FeedMessageFirst(f, r) ==
  LET s == RateCheck(cs[f])
      prefix == IF Prepend /\ s.prefix # NoId THEN <<E3(s.prefix)>> ELSE <<>>
  IN /\ emits = <<>>
     /\ r \in Behind[f] /\ Countable(cs[f])
     /\ f \in Relays => upstream[f] = r
     /\ cs' = [cs EXCEPT ![f] = s]
     /\ emits' = Routed(<<Msg(r)>> \o prefix, s)
     /\ UNCHANGED upstream

(* Any other frame is passed on after the prefix of the connection. *)
FeedMessage(f, r) ==
  LET s == RateCheck(cs[f])
      prefix == IF Prepend /\ s.prefix # NoId THEN <<E3(s.prefix)>> ELSE <<>>
  IN /\ emits = <<>>
     /\ r \in Behind[f] /\ Countable(cs[f])
     /\ f \in Relays => upstream[f] = r
     /\ cs' = [cs EXCEPT ![f] = s]
     /\ emits' = Routed(prefix \o <<Msg(r)>>, s)
     /\ UNCHANGED upstream

Feed(f) ==
  \/ FeedUuid(f)
  \/ \E r \in Receivers : FeedReceiverId(f, r) \/ FeedMessage(f, r)

(* The peer hangs up and connects again: a new ClientState. *)
Reconnect(f) ==
  /\ emits = <<>>
  /\ cs[f] # NewState \/ upstream[f] # NoId
  /\ cs' = [cs EXCEPT ![f] = NewState]
  /\ upstream' = [upstream EXCEPT ![f] = NoId]
  /\ UNCHANGED emits

(* src/src/ingest.rs:325-337 sets the limit of a live connection. *)
OverrideLimit(f, l) ==
  /\ emits = <<>>
  /\ cs[f].limit # l
  /\ cs' = [cs EXCEPT ![f].limit = l]
  /\ UNCHANGED <<upstream, emits>>

Second ==
  /\ cs' = [f \in Feeders |->
       [cs[f] EXCEPT !.resetIn = IF @ > 0 THEN @ - 1 ELSE 0]]
  /\ UNCHANGED <<upstream, emits>>

(* The caller takes the next emitted frame. *)
Emit ==
  /\ emits # <<>>
  /\ emits' = Tail(emits)
  /\ UNCHANGED <<cs, upstream>>

ClientStep ==
  \/ \E f \in Feeders : Feed(f) \/ Reconnect(f) \/ \E l \in Limits : OverrideLimit(f, l)
  \/ Second

-----------------------------------------------------------------------------
(* A connection keeps the identity it was first locked to: later UUID or   *)
(* E3 frames change neither the id nor the prefix (the id_locked guards of *)
(* feed), and a connection that prefixes its frames prefixes them with the *)
(* id it reports to the registry.                                          *)
IdentityIsStable ==
  [][\A f \in Feeders :
       cs'[f].locked =>
         /\ Prepend => cs'[f].prefix = cs'[f].id
         /\ cs[f].locked =>
              cs'[f].id = cs[f].id /\ cs'[f].prefix = cs[f].prefix]_clientVars

(* The limiter is exact at its boundary: the frame that closes a window is *)
(* not charged to it, and a connection is garbage in the next one if and   *)
(* only if more than limit frames per second came in the two seconds.      *)
VerdictIsExact ==
  [][\A f \in Feeders :
       cs[f].resetIn = 0 /\ cs'[f].resetIn = RateWindow /\ emits' # emits =>
         (cs'[f].garbage <=> cs[f].count > RateWindow * cs[f].limit)]_clientVars
=============================================================================

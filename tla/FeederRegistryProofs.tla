------------------------ MODULE FeederRegistryProofs ------------------------
(***************************************************************************)
(* For every number of feeders, tokens and ids: the registry has no        *)
(* ghosts.  Besides the invariant itself the proof needs only the shape of *)
(* the two tables and that an open token knows its peer.                   *)
(***************************************************************************)
EXTENDS FeederRegistry, TLAPS

Tables ==
  /\ conn \in [Tokens -> Connection]
  /\ tracker \in [Addrs -> TrackerEntry]
  /\ overrides \in [OverrideIds -> Limits \cup {None}]
  /\ pc = "accept" => admitted \in Addrs
  /\ \A t \in Tokens : /\ conn[t].open => conn[t].addr \in Addrs
                       /\ ~conn[t].open => conn[t] = Free

RegistryInv == Tables /\ ListedIsConnected

USE RegistryAssumption DEF apiVars

LEMMA FreshRecords ==
  /\ Free \in Connection /\ ~Free.open
  /\ Entry(NoUuid) \in TrackerEntry /\ Unlisted \in TrackerEntry
  /\ Entry(NoUuid).listed /\ ~Unlisted.listed
BY DEF Free, Connection, Entry, Unlisted, TrackerEntry, Uuids

LEMMA InitRegistry == Init => RegistryInv
BY FreshRecords DEF Init, RegistryInv, Tables, ListedIsConnected, Open

(* Steps that change neither which connections are open nor their peers,   *)
(* and list nobody new.                                                    *)
LEMMA QuietStep ==
  ASSUME RegistryInv,
         conn' \in [Tokens -> Connection],
         tracker' \in [Addrs -> TrackerEntry],
         overrides' \in [OverrideIds -> Limits \cup {None}],
         pc' = "accept" => admitted' \in Addrs,
         \A t \in Tokens : /\ conn'[t].open = conn[t].open
                           /\ conn'[t].addr = conn[t].addr
                           /\ ~conn[t].open => conn'[t] = conn[t],
         \A a \in Addrs : tracker'[a].listed => tracker[a].listed
  PROVE  RegistryInv'
<1>1. Tables'
  <2> SUFFICES ASSUME NEW t \in Tokens
               PROVE  /\ conn'[t].open => conn'[t].addr \in Addrs
                      /\ ~conn'[t].open => conn'[t] = Free
    BY DEF Tables
  <2>1. conn[t].open => conn[t].addr \in Addrs
    BY DEF RegistryInv, Tables
  <2>2. ~conn[t].open => conn[t] = Free
    BY DEF RegistryInv, Tables
  <2>3. /\ conn'[t].open = conn[t].open
        /\ conn'[t].addr = conn[t].addr
        /\ ~conn[t].open => conn'[t] = conn[t]
    OBVIOUS
  <2> QED
    BY <2>1, <2>2, <2>3
<1>2. ListedIsConnected'
  <2> SUFFICES ASSUME NEW a \in Addrs, tracker'[a].listed
               PROVE  \E t \in Tokens : conn'[t].open /\ conn'[t].addr = a
    BY DEF ListedIsConnected, Open
  <2>1. PICK t \in Tokens : conn[t].open /\ conn[t].addr = a
    BY DEF RegistryInv, ListedIsConnected, Open
  <2> QED
    BY <2>1
<1> QED
  BY <1>1, <1>2 DEF RegistryInv

LEMMA PollStep == ASSUME RegistryInv, Poll PROVE RegistryInv'
<1>1. ASSUME NEW t \in Tokens
      PROVE  /\ [conn[t] EXCEPT !.edge = FALSE] \in Connection
             /\ [conn[t] EXCEPT !.edge = FALSE].open = conn[t].open
             /\ [conn[t] EXCEPT !.edge = FALSE].addr = conn[t].addr
  <2>1. conn[t] \in Connection
    BY DEF RegistryInv, Tables
  <2> QED
    BY <2>1 DEF Connection
<1>4. \A t \in Tokens : ~conn[t].open => ~conn[t].edge
  BY DEF RegistryInv, Tables, Free
<1>2. conn' = [t \in Tokens |->
        IF conn[t].edge THEN [conn[t] EXCEPT !.edge = FALSE] ELSE conn[t]]
  BY DEF Poll
<1>3. conn' \in [Tokens -> Connection]
  BY <1>1, <1>2 DEF RegistryInv, Tables
<1> QED
  BY <1>1, <1>2, <1>3, <1>4, QuietStep DEF Poll, RegistryInv, Tables

LEMMA RegisterStep ==
  ASSUME RegistryInv, NEW t \in Tokens, Register(t)
  PROVE  RegistryInv'
<1>1. PICK n \in 0..MaxUnread : conn' = [conn EXCEPT ![t] = Accepted(admitted, n)]
  BY DEF Register
<1>2. admitted \in Addrs
  BY DEF Register, RegistryInv, Tables
<1> DEFINE new == Accepted(admitted, n)
<1>4. new \in Connection /\ new.open /\ new.addr = admitted
  <2>1. (n > 0) \in BOOLEAN
    OBVIOUS
  <2> QED
    BY <1>2, <2>1 DEF Accepted, Connection, Uuids
<1> HIDE DEF new
<1>6. /\ conn'[t] = new
      /\ \A u \in Tokens \ {t} : conn'[u] = conn[u]
      /\ conn' \in [Tokens -> Connection]
  BY <1>1, <1>4 DEF RegistryInv, Tables, new
<1>7. /\ tracker' \in [Addrs -> TrackerEntry]
      /\ \A a \in Addrs \ {admitted} : tracker'[a] = tracker[a]
  BY <1>2, FreshRecords DEF Register, RegistryInv, Tables
<1>8. pc' # "accept" /\ ~conn[t].open /\ overrides' = overrides
  BY DEF Register
<1> QED
  BY <1>2, <1>4, <1>6, <1>7, <1>8 DEF RegistryInv, Tables, ListedIsConnected, Open

LEMMA ReadStep ==
  ASSUME RegistryInv, NEW t \in Tokens, Read(t)
  PROVE  RegistryInv'
<1> USE DEF RegistryInv, Tables
<1>1. pc' # "accept" /\ overrides' = overrides
  BY DEF Read
<1>2. CASE ReadData(t)
  <2>1. PICK u \in {conn[t].uuid, UuidOf[conn[t].addr]} :
          /\ conn' = [conn EXCEPT ![t] = Fed(@, u)]
          /\ tracker' = [tracker EXCEPT ![conn[t].addr] =
               IF @.listed THEN Entry(conn'[t].uuid) ELSE @]
    BY <1>2 DEF ReadData
  <2>2. conn[t].open /\ conn[t].addr \in Addrs
    BY <1>2 DEF ReadData, Free
  <2>3. conn[t] \in Connection /\ u \in Uuids
    BY <2>1, <2>2 DEF Connection, Uuids
  <2>4. conn'[t] \in Connection /\ conn'[t].open /\ conn'[t].addr = conn[t].addr
    <3>1. conn'[t] = Fed(conn[t], u)
      BY <2>1
    <3>2. (IF conn[t].unread > ReadSize THEN conn[t].unread - ReadSize ELSE 0) \in 0..MaxUnread
      BY <2>3 DEF Connection
    <3>3. Fed(conn[t], u) \in Connection
      BY <2>3, <3>2 DEF Fed, Connection
    <3> QED
      BY <2>2, <3>1, <3>3 DEF Fed
  <2>5. conn' \in [Tokens -> Connection] /\ \A s \in Tokens \ {t} : conn'[s] = conn[s]
    BY <2>1, <2>4
  <2>6. Entry(conn'[t].uuid) \in TrackerEntry
    BY <2>4 DEF Entry, TrackerEntry, Connection
  <2>7. /\ tracker' \in [Addrs -> TrackerEntry]
        /\ \A a \in Addrs : tracker'[a].listed => tracker[a].listed
    BY <2>1, <2>2, <2>6
  <2>8. ASSUME NEW s \in Tokens
        PROVE  /\ conn'[s].open = conn[s].open
               /\ conn'[s].addr = conn[s].addr
               /\ ~conn[s].open => conn'[s] = conn[s]
    <3>1. CASE s = t
      BY <3>1, <2>2, <2>4 DEF Connection
    <3>2. CASE s # t
      BY <3>2, <2>5
    <3> QED
      BY <3>1, <3>2
  <2> QED
    BY <1>1, <2>5, <2>7, <2>8, QuietStep
<1>3. CASE ReadEnd(t)
  <2>1. conn[t].open /\ conn[t].addr \in Addrs
    BY <1>3 DEF ReadEnd, Free
  <2>2. /\ conn' = [conn EXCEPT ![t] = Free]
        /\ tracker' = [tracker EXCEPT ![conn[t].addr] = Unlisted]
    BY <1>3 DEF ReadEnd
  <2>3. conn' \in [Tokens -> Connection] /\ tracker' \in [Addrs -> TrackerEntry]
    BY <2>2, FreshRecords
  <2> QED
    BY <1>1, <2>1, <2>2, <2>3, FreshRecords DEF ListedIsConnected, Open
<1>4. CASE ReadNothing(t)
  BY <1>1, <1>4, QuietStep DEF ReadNothing
<1> QED
  BY <1>2, <1>3, <1>4 DEF Read

(* An override changes the limit of a connection and nothing else.         *)
LEMMA OverrideKeeps ==
  ASSUME overrides \in [OverrideIds -> Limits \cup {None}], NEW k \in Connection
  PROVE  Overridden(k) \in Connection /\ Overridden(k).open = k.open /\ Overridden(k).addr = k.addr
<1>1. \A id : LimitFor(id) \in Limits \cup {None}
  BY DEF LimitFor
<1>2. Override(k) \in Limits \cup {None}
  BY <1>1 DEF Override
<1>3. CASE Override(k) = None
  BY <1>3 DEF Overridden
<1>4. CASE Override(k) # None
  BY <1>2, <1>4 DEF Overridden, Connection
<1> QED
  BY <1>3, <1>4

LEMMA TimerStep == ASSUME RegistryInv, Timer PROVE RegistryInv'
<1> USE DEF RegistryInv, Tables
<1> DEFINE kept == [a \in Addrs |->
             IF \E t \in ToKick : conn[t].addr = a THEN Unlisted ELSE tracker[a]]
<1>1. /\ conn' = [t \in Tokens |->
           IF t \in ToKick THEN Free
           ELSE IF stallDue /\ t \in Open THEN Overridden(conn[t])
           ELSE conn[t]]
      /\ pc' = "poll" /\ overrides' = overrides
  BY DEF Timer
<1>2. ToKick \subseteq Open
  BY DEF ToKick
<1>3. \A t \in Tokens : /\ Overridden(conn[t]) \in Connection
                        /\ Overridden(conn[t]).open = conn[t].open
                        /\ Overridden(conn[t]).addr = conn[t].addr
  BY OverrideKeeps
<1>4. kept \in [Addrs -> TrackerEntry]
  BY FreshRecords
<1>5. tracker' \in [Addrs -> TrackerEntry] /\ \A a \in Addrs : tracker'[a].listed = kept[a].listed
  <2>1. CASE tracker' = kept
    BY <1>4, <2>1
  <2>2. CASE tracker' = [a \in Addrs |-> [kept[a] EXCEPT !.warned = @ \/ a \in StalledIn(kept)]]
    <3> HIDE DEF kept
    <3>1. ASSUME NEW a \in Addrs
          PROVE  tracker'[a] \in TrackerEntry /\ tracker'[a].listed = kept[a].listed
      <4>1. kept[a] \in TrackerEntry
        BY <1>4
      <4>2. \A w \in BOOLEAN : /\ [kept[a] EXCEPT !.warned = w] \in TrackerEntry
                               /\ [kept[a] EXCEPT !.warned = w].listed = kept[a].listed
        BY <4>1 DEF TrackerEntry
      <4>3. (kept[a].warned \/ a \in StalledIn(kept)) \in BOOLEAN
        OBVIOUS
      <4>4. tracker'[a] = [kept[a] EXCEPT !.warned = kept[a].warned \/ a \in StalledIn(kept)]
        BY <2>2
      <4> QED
        BY <4>2, <4>3, <4>4
    <3>2. DOMAIN tracker' = Addrs /\ tracker' = [a \in Addrs |-> tracker'[a]]
      BY <2>2
    <3> QED
      BY <3>1, <3>2
  <2> QED
    BY <2>1, <2>2 DEF Timer
<1>6. conn' \in [Tokens -> Connection]
  BY <1>1, <1>3, FreshRecords
<1>7. \A t \in Tokens \ ToKick : /\ conn'[t].open = conn[t].open
                                 /\ conn'[t].addr = conn[t].addr
                                 /\ ~conn[t].open => conn'[t] = conn[t]
  BY <1>1, <1>2, <1>3 DEF Open
<1>8. \A t \in ToKick : conn'[t] = Free
  BY <1>1, <1>2 DEF Open
<1>9. ListedIsConnected'
  <2> SUFFICES ASSUME NEW a \in Addrs, tracker'[a].listed
               PROVE  \E t \in Tokens : conn'[t].open /\ conn'[t].addr = a
    BY DEF ListedIsConnected, Open
  <2>1. tracker[a].listed /\ \A t \in ToKick : conn[t].addr # a
    BY <1>5, FreshRecords
  <2>2. PICK t \in Tokens : conn[t].open /\ conn[t].addr = a
    BY <2>1 DEF ListedIsConnected, Open
  <2> QED
    BY <1>7, <2>1, <2>2
<1> QED
  BY <1>1, <1>5, <1>6, <1>7, <1>8, <1>9, FreshRecords

LEMMA PeerStep ==
  ASSUME RegistryInv, NEW t \in Tokens, PeerSends(t) \/ PeerHangsUp(t)
  PROVE  RegistryInv'
<1> USE DEF RegistryInv, Tables
<1>1. conn[t] \in Connection /\ conn[t].open
  BY DEF PeerSends, PeerHangsUp, Open
<1>2. CASE PeerSends(t)
  <2>1. conn[t].unread + 1 \in 0..MaxUnread
    BY <1>1, <1>2 DEF PeerSends, Connection
  <2>2. conn' = [conn EXCEPT ![t].unread = @ + 1, ![t].edge = TRUE]
    BY <1>2 DEF PeerSends
  <2>3. conn'[t] \in Connection /\ conn'[t].open /\ conn'[t].addr = conn[t].addr
    BY <1>1, <2>1, <2>2 DEF Connection
  <2>4. conn' \in [Tokens -> Connection] /\ \A s \in Tokens \ {t} : conn'[s] = conn[s]
    BY <2>2, <2>3
  <2> QED
    BY <1>1, <1>2, <2>3, <2>4, QuietStep DEF PeerSends, loopVars
<1>3. CASE PeerHangsUp(t)
  <2>1. PICK how \in {"fin", "rst"} : conn' = [conn EXCEPT ![t].hup = how, ![t].edge = TRUE]
    BY <1>3 DEF PeerHangsUp
  <2>2. conn'[t] \in Connection /\ conn'[t].open /\ conn'[t].addr = conn[t].addr
    BY <1>1, <2>1 DEF Connection
  <2>3. conn' \in [Tokens -> Connection] /\ \A s \in Tokens \ {t} : conn'[s] = conn[s]
    BY <2>1, <2>2
  <2> QED
    BY <1>1, <1>3, <2>2, <2>3, QuietStep DEF PeerHangsUp, loopVars
<1> QED
  BY <1>2, <1>3

LEMMA SharedStep ==
  ASSUME RegistryInv,
         \/ AcceptDone \/ SkipTimer \/ Tick \/ UNCHANGED vars
         \/ \E a \in Addrs : Accept(a) \/ Connect(a)
         \/ Api
  PROVE  RegistryInv'
<1> USE DEF RegistryInv, Tables, loopVars
<1>1. CASE AcceptDone \/ SkipTimer \/ UNCHANGED vars
  BY <1>1, QuietStep DEF AcceptDone, SkipTimer, vars
<1>2. CASE Tick
  <2>1. ASSUME NEW a \in Addrs, tracker[a].silent <= StallLimit
        PROVE  /\ [tracker[a] EXCEPT !.silent = @ + 1] \in TrackerEntry
               /\ [tracker[a] EXCEPT !.silent = @ + 1].listed = tracker[a].listed
    BY <2>1 DEF TrackerEntry
  <2>2. tracker' \in [Addrs -> TrackerEntry]
    BY <1>2, <2>1 DEF Tick
  <2> QED
    BY <1>2, <2>1, <2>2, QuietStep DEF Tick
<1>3. ASSUME NEW a \in Addrs, Accept(a) \/ Connect(a)
      PROVE  RegistryInv'
  BY <1>3, QuietStep DEF Accept, Connect
<1>4. CASE Api
  <2>1. ASSUME NEW id, Sweep(id) PROVE RegistryInv'
    <3>1. /\ tracker' \in [Addrs -> TrackerEntry]
          /\ \A a \in Addrs : tracker'[a].listed => tracker[a].listed
      BY <2>1, FreshRecords DEF Sweep
    <3> QED
      BY <2>1, <3>1, QuietStep DEF Sweep
  <2>2. ASSUME NEW id, Block(id) \/ Unblock(id) \/ Kick(id)
        PROVE  RegistryInv'
    BY <2>2, QuietStep DEF Block, Unblock, Kick
  <2>3. ASSUME NEW id \in OverrideIds, NEW limit \in Limits, SetLimit(id, limit)
        PROVE  RegistryInv'
    <3>1. overrides' \in [OverrideIds -> Limits \cup {None}]
      BY <2>3 DEF SetLimit
    <3> QED
      BY <2>3, <3>1, QuietStep DEF SetLimit
  <2> QED
    BY <1>4, <2>1, <2>2, <2>3 DEF Api
<1> QED
  BY <1>1, <1>2, <1>3, <1>4

(* Every entry of /api/feeders belongs to a connection that is open.       *)
THEOREM NoGhostFeeders == Spec => []ListedIsConnected
<1>1. RegistryInv /\ [Next]_vars => RegistryInv'
  <2> SUFFICES ASSUME RegistryInv, [Next]_vars PROVE RegistryInv'
    OBVIOUS
  <2> QED
    BY PollStep, RegisterStep, ReadStep, TimerStep, PeerStep, SharedStep
    DEF Next, Loop, Peers
<1>2. RegistryInv => ListedIsConnected
  BY DEF RegistryInv
<1> QED
  BY <1>1, <1>2, InitRegistry, PTL DEF Spec
=============================================================================

--------------------------- MODULE FeederRegistry ---------------------------
(***************************************************************************)
(* The life of feeder connections: the ingest thread of src/src/ingest.rs  *)
(* (accept, read, hang-up, and the timer block with its kick list, stall   *)
(* alerts and rate overrides), the FeederTracker of src/src/feeder.rs that *)
(* it shares with the HTTP threads of src/src/api.rs, and the AlertStore.  *)
(*                                                                         *)
(* mio reports readiness edge-triggered: poll returns a connection once    *)
(* per arrival of data or of a hang-up, however much is there, and the     *)
(* handler reads once.  A turn of the loop is poll, the events it          *)
(* returned one by one, and the timer block if it is due.  HTTP threads    *)
(* and peers interleave with all of it.                                    *)
(*                                                                         *)
(* Data is counted in reads' worth of bytes; what the frames say is        *)
(* ClientState's subject, here only whether the UUID has come.  A tick is  *)
(* the interval of the stall check (10 s).                                 *)
(***************************************************************************)
EXTENDS Integers, FiniteSets, Sequences, SequencesExt

CONSTANTS
  Tokens,      \* connection slots; a real token is never used twice
  Addrs,       \* peers, by their ip:port
  HostOf,      \* the ip of a peer
  UuidOf,      \* the uuid a peer sends, or NoUuid
  NoUuid,
  BlockIds, KickIds, OverrideIds,  \* ids the HTTP API is called with
  Limits,      \* the rate limits it is called with
  MaxUnread,   \* bound: unread data on a connection
  ReadSize,    \* what one read takes (BUF_SIZE)
  StallLimit,  \* the 60 s of stalled_feeders(60), in ticks
  MaxAlerts    \* max_size of the AlertStore

None == "none"

ASSUME RegistryAssumption ==
  /\ None \notin Addrs \cup Limits
  /\ NoUuid \notin BlockIds \cup KickIds \cup OverrideIds
  /\ MaxUnread \in Nat \ {0}
  /\ ReadSize \in Nat \ {0}
  /\ StallLimit \in Nat
  /\ MaxAlerts \in Nat \ {0}

VARIABLES
  conn,       \* the connection in each token: feeders, and its socket
  waiting,    \* peers in the listener's backlog
  listenEdge, \* readiness of the listener not yet returned by poll
  pc,         \* where the loop is: "poll", "events", "accept"
  batch,      \* events of this turn that are not yet handled
  admitted,   \* the peer accept has found not blocked, between the two calls
  tracker,    \* FeederTracker.feeders: the entry of each listed peer
  blocked,    \* FeederTracker.blocked
  sweeping,   \* ids that block has inserted, and whose entries it removes next
  kicks,      \* the kick list
  overrides,  \* rate_overrides: the limit of an id, or none
  stallDue,   \* ten seconds have passed since the last stall check
  alerts      \* the AlertStore, oldest first

loopVars == <<pc, batch, admitted>>
apiVars == <<blocked, sweeping, kicks, overrides>>
vars == <<conn, waiting, listenEdge, loopVars, tracker, apiVars, stallDue, alerts>>

Listener == "listener"
Uuids == {NoUuid} \cup {UuidOf[a] : a \in Addrs}
(* warned is history: a stall alert was pushed during the present silence. *)
TrackerEntry == [listed : BOOLEAN, uuid : Uuids, silent : 0..(StallLimit + 1),
                 warned : BOOLEAN]
Connection == [open : BOOLEAN, addr : Addrs \cup {None}, uuid : Uuids,
               limit : Limits \cup {None}, unread : 0..MaxUnread,
               hup : {"no", "fin", "rst"}, edge : BOOLEAN]
Unlisted == [listed |-> FALSE, uuid |-> NoUuid, silent |-> 0, warned |-> FALSE]
Entry(uuid) == [listed |-> TRUE, uuid |-> uuid, silent |-> 0, warned |-> FALSE]
Free == [open |-> FALSE, addr |-> None, uuid |-> NoUuid, limit |-> None,
         unread |-> 0, hup |-> "no", edge |-> FALSE]

Accepted(a, n) == [open |-> TRUE, addr |-> a, uuid |-> NoUuid, limit |-> None,
                   unread |-> n, hup |-> "no", edge |-> n > 0]

(* A connection one read later; a uuid, once known, is kept.               *)
Fed(k, u) == [open |-> k.open, addr |-> k.addr, uuid |-> IF k.uuid = NoUuid THEN u ELSE k.uuid,
              limit |-> k.limit,
              unread |-> IF k.unread > ReadSize THEN k.unread - ReadSize ELSE 0,
              hup |-> k.hup, edge |-> k.edge]

Init ==
  /\ conn = [t \in Tokens |-> Free]
  /\ waiting = {} /\ listenEdge = FALSE
  /\ pc = "poll" /\ batch = {} /\ admitted = None
  /\ tracker = [a \in Addrs |-> Unlisted]
  /\ blocked = {} /\ sweeping = {} /\ kicks = {}
  /\ overrides = [id \in OverrideIds |-> None]
  /\ stallDue = FALSE
  /\ alerts = <<>>

Open == {t \in Tokens : conn[t].open}

(* block, kick and overrides name a feeder by address, host or uuid; a     *)
(* connection is found by its own state, an entry by the entry's.          *)
IdsOf(a, uuid) == {a, HostOf[a], uuid}
IsBlocked(a) == {a, HostOf[a]} \cap blocked # {}  \* is_blocked: no uuid yet
Kicked(t) == IdsOf(conn[t].addr, conn[t].uuid) \cap kicks # {}
ToKickByAddr ==  \* seeded bug: the uuid is forgotten
  {t \in Open : IdsOf(conn[t].addr, NoUuid) \cap kicks # {}}
ToKick == {t \in Open : Kicked(t)}

(* An override names an address or a uuid, no host; the address goes first.*)
LimitFor(id) == IF id \in OverrideIds THEN overrides[id] ELSE None
OverrideUuidFirst(k) ==  \* seeded bug: the uuid goes first
  IF LimitFor(k.uuid) # None THEN LimitFor(k.uuid) ELSE LimitFor(k.addr)
Override(k) == IF LimitFor(k.addr) # None THEN LimitFor(k.addr) ELSE LimitFor(k.uuid)
Overridden(k) == IF Override(k) = None THEN k ELSE [k EXCEPT !.limit = Override(k)]

Stalled(a) == tracker[a].listed /\ tracker[a].silent > StallLimit
StalledIn(entries) ==  \* stalled_feeders
  {a \in Addrs : entries[a].listed /\ entries[a].silent > StallLimit}

PushedIfRoom(new) ==  \* seeded bug: the newest alerts are dropped
  LET all == alerts \o new
  IN SubSeq(all, 1, IF Len(all) > MaxAlerts THEN MaxAlerts ELSE Len(all))
Pushed(new) ==  \* AlertStore.push, once per element
  LET all == alerts \o new
  IN SubSeq(all, IF Len(all) > MaxAlerts THEN Len(all) - MaxAlerts + 1 ELSE 1, Len(all))
Alert(kind, a) == [kind |-> kind, target |-> a]

-----------------------------------------------------------------------------
(* The loop. *)
Poll ==
  /\ pc = "poll"
  /\ batch' = {t \in Tokens : conn[t].edge} \cup (IF listenEdge THEN {Listener} ELSE {})
  /\ conn' = [t \in Tokens |->
       IF conn[t].edge THEN [conn[t] EXCEPT !.edge = FALSE] ELSE conn[t]]
  /\ listenEdge' = FALSE
  /\ pc' = "events"
  /\ UNCHANGED <<waiting, admitted, tracker, apiVars, stallDue, alerts>>

(* accept one peer: blocked peers are dropped, others pass the check ...   *)
Accept(a) ==
  /\ pc = "events" /\ Listener \in batch /\ a \in waiting
  /\ waiting' = waiting \ {a}
  /\ IF IsBlocked(a)
     THEN UNCHANGED <<pc, admitted>>
     ELSE pc' = "accept" /\ admitted' = a
  /\ UNCHANGED <<conn, listenEdge, batch, tracker, apiVars, stallDue, alerts>>

(* ... and are registered; data that has already come is reported.         *)
Register(t) ==
  /\ pc = "accept" /\ ~conn[t].open
  /\ \E n \in 0..MaxUnread : conn' = [conn EXCEPT ![t] = Accepted(admitted, n)]
  /\ tracker' = [tracker EXCEPT ![admitted] = Entry(NoUuid)]
  /\ pc' = "events" /\ admitted' = None
  /\ UNCHANGED <<waiting, listenEdge, batch, apiVars, stallDue, alerts>>

AcceptDone ==
  /\ pc = "events" /\ Listener \in batch /\ waiting = {}
  /\ batch' = batch \ {Listener}
  /\ UNCHANGED <<conn, waiting, listenEdge, pc, admitted, tracker, apiVars, stallDue, alerts>>

(* A read that returns data; the uuid may be in it, and is kept.  The      *)
(* entry is refreshed if it is still there.                                *)
ReadData(t) ==
  /\ conn[t].hup # "rst" /\ conn[t].unread > 0
  /\ \E u \in {conn[t].uuid, UuidOf[conn[t].addr]} :
       /\ conn' = [conn EXCEPT ![t] = Fed(@, u)]
       /\ tracker' = [tracker EXCEPT ![conn[t].addr] =
            IF @.listed THEN Entry(conn'[t].uuid) ELSE @]
  /\ UNCHANGED alerts

(* Seeded bug: the registry is not told.                                   *)
ReadEndUntold(t) ==
  /\ conn[t].hup = "rst" \/ (conn[t].hup = "fin" /\ conn[t].unread = 0)
  /\ conn' = [conn EXCEPT ![t] = Free]
  /\ alerts' = Pushed(<<Alert("dropout", conn[t].addr)>>)
  /\ UNCHANGED tracker

(* End of file or an error: the connection is removed with an alert.       *)
ReadEnd(t) ==
  /\ conn[t].hup = "rst" \/ (conn[t].hup = "fin" /\ conn[t].unread = 0)
  /\ conn' = [conn EXCEPT ![t] = Free]
  /\ tracker' = [tracker EXCEPT ![conn[t].addr] = Unlisted]
  /\ alerts' = Pushed(<<Alert("dropout", conn[t].addr)>>)

ReadNothing(t) ==
  /\ conn[t].hup = "no" /\ conn[t].unread = 0
  /\ UNCHANGED <<conn, tracker, alerts>>

Read(t) ==
  /\ pc = "events" /\ t \in batch
  /\ batch' = batch \ {t}
  /\ ReadData(t) \/ ReadEnd(t) \/ ReadNothing(t)
  /\ UNCHANGED <<waiting, listenEdge, pc, admitted, apiVars, stallDue>>

(* A turn of the loop that is shorter than the 50 ms of the timer block.   *)
SkipTimer ==
  /\ pc = "events" /\ batch = {}
  /\ pc' = "poll"
  /\ UNCHANGED <<conn, waiting, listenEdge, batch, admitted, tracker, apiVars,
                 stallDue, alerts>>

(* The timer block: every kicked connection goes, without an alert; then,  *)
(* every ten seconds, stalled entries are reported, in the order of the    *)
(* map, and overrides applied.                                             *)
Timer ==
  /\ pc = "events" /\ batch = {}
  /\ pc' = "poll"
  /\ kicks' = {}
  /\ LET kept == [a \in Addrs |->
           IF \E t \in ToKick : conn[t].addr = a THEN Unlisted ELSE tracker[a]]
     IN IF stallDue
        THEN /\ \E order \in SetToSeqs(StalledIn(kept)) :
                  alerts' = Pushed([i \in DOMAIN order |-> Alert("stall", order[i])])
             /\ tracker' = [a \in Addrs |->
                  [kept[a] EXCEPT !.warned = @ \/ a \in StalledIn(kept)]]
        ELSE tracker' = kept /\ UNCHANGED alerts
  /\ conn' = [t \in Tokens |->
       IF t \in ToKick THEN Free
       ELSE IF stallDue /\ t \in Open THEN Overridden(conn[t])
       ELSE conn[t]]
  /\ stallDue' = FALSE
  /\ UNCHANGED <<waiting, listenEdge, batch, admitted, blocked, sweeping, overrides>>

-----------------------------------------------------------------------------
(* The HTTP threads.  block takes two locks one after the other.           *)
Block(id) ==
  /\ id \notin sweeping
  /\ blocked' = blocked \cup {id}
  /\ sweeping' = sweeping \cup {id}
  /\ UNCHANGED <<conn, waiting, listenEdge, loopVars, tracker, kicks, overrides,
                 stallDue, alerts>>

Sweep(id) ==
  /\ id \in sweeping
  /\ sweeping' = sweeping \ {id}
  /\ tracker' = [a \in Addrs |->
       IF id \in IdsOf(a, tracker[a].uuid) THEN Unlisted ELSE tracker[a]]
  /\ UNCHANGED <<conn, waiting, listenEdge, loopVars, blocked, kicks, overrides,
                 stallDue, alerts>>

Unblock(id) ==
  /\ id \in blocked
  /\ blocked' = blocked \ {id}
  /\ UNCHANGED <<conn, waiting, listenEdge, loopVars, tracker, sweeping, kicks,
                 overrides, stallDue, alerts>>

Kick(id) ==
  /\ id \notin kicks
  /\ kicks' = kicks \cup {id}
  /\ UNCHANGED <<conn, waiting, listenEdge, loopVars, tracker, blocked, sweeping,
                 overrides, stallDue, alerts>>

SetLimit(id, limit) ==
  /\ overrides' = [overrides EXCEPT ![id] = limit]
  /\ UNCHANGED <<conn, waiting, listenEdge, loopVars, tracker, blocked, sweeping,
                 kicks, stallDue, alerts>>

Api ==
  \/ \E id \in BlockIds : Block(id) \/ Sweep(id) \/ Unblock(id)
  \/ \E id \in KickIds : Kick(id)
  \/ \E id \in OverrideIds, limit \in Limits : SetLimit(id, limit)

-----------------------------------------------------------------------------
(* Peers and the clock.  A peer may come back from the same port as soon   *)
(* as its own end of the old connection is closed.  Bound: there is a slot *)
(* for every connection that is on its way.                                *)
Connect(a) ==
  /\ a \notin waiting /\ a # admitted
  /\ \A t \in Open : conn[t].addr = a => conn[t].hup # "no"
  /\ Cardinality((waiting \cup {admitted, a}) \ {None}) <= Cardinality(Tokens \ Open)
  /\ waiting' = waiting \cup {a}
  /\ listenEdge' = TRUE
  /\ UNCHANGED <<conn, loopVars, tracker, apiVars, stallDue, alerts>>

PeerSends(t) ==
  /\ t \in Open /\ conn[t].hup = "no" /\ conn[t].unread < MaxUnread
  /\ conn' = [conn EXCEPT ![t].unread = @ + 1, ![t].edge = TRUE]
  /\ UNCHANGED <<waiting, listenEdge, loopVars, tracker, apiVars, stallDue, alerts>>

PeerHangsUp(t) ==
  /\ t \in Open /\ conn[t].hup = "no"
  /\ \E how \in {"fin", "rst"} :
       conn' = [conn EXCEPT ![t].hup = how, ![t].edge = TRUE]
  /\ UNCHANGED <<waiting, listenEdge, loopVars, tracker, apiVars, stallDue, alerts>>

Tick ==
  /\ stallDue' = TRUE
  /\ tracker' = [a \in Addrs |->
       IF tracker[a].listed /\ tracker[a].silent <= StallLimit
       THEN [tracker[a] EXCEPT !.silent = @ + 1] ELSE tracker[a]]
  /\ UNCHANGED <<conn, waiting, listenEdge, loopVars, apiVars, alerts>>

Loop ==
  \/ Poll \/ AcceptDone \/ SkipTimer \/ Timer
  \/ \E a \in Addrs : Accept(a)
  \/ \E t \in Tokens : Register(t) \/ Read(t)
Peers == \E t \in Tokens : PeerSends(t) \/ PeerHangsUp(t)

Next == Loop \/ Api \/ Peers \/ Tick \/ \E a \in Addrs : Connect(a)

Spec == Init /\ [][Next]_vars

(* The loop never waits longer than the 10 ms of poll, the timer block is  *)
(* reached whenever 50 ms have passed, accept finds the backlog empty now  *)
(* and then, although blocked peers may come back as fast as they are      *)
(* dropped, and an HTTP thread that has started to block an id finishes.   *)
Fairness ==
  /\ WF_vars(Loop) /\ SF_vars(Timer) /\ SF_vars(AcceptDone) /\ WF_vars(Tick)
  /\ \A id \in BlockIds : WF_vars(Sweep(id))
FairSpec == Spec /\ Fairness

-----------------------------------------------------------------------------
(* /api/feeders lists no ghost: every entry belongs to a connection the    *)
(* ingest thread still holds, however block, kick, hang-ups and reconnects *)
(* from the same port are interleaved.                                     *)
ListedIsConnected ==
  \A a \in Addrs : tracker[a].listed => \E t \in Open : conn[t].addr = a

(* A kick takes effect: a connection that matches an id in the kick list   *)
(* is eventually closed (ingest.rs:289-307).                               *)
KickTakesEffect ==
  \A t \in Tokens : (conn[t].open /\ Kicked(t)) ~> ~conn[t].open

(* A feeder that is listed and silent for more than a minute is reported,  *)
(* unless it speaks or leaves first (ingest.rs:308-323): an alert about    *)
(* this silence gets into the ring, and is there when the lock is released *)
(* (ARCHITECTURE.md:96, alerts.rs is the "Monitoring (dropout, stall,      *)
(* anomaly)").  It takes as many places as there are feeders.              *)
StallReported ==
  \A a \in Addrs :
    []<>(Stalled(a) => tracker[a].warned /\ Contains(alerts, Alert("stall", a)))

(* A rate limit set through the API reaches every connection it names,     *)
(* those that come or send their uuid later included, and of two limits    *)
(* that of the address counts: no connection keeps another limit for ever, *)
(* unless the wanted one goes on changing (ingest.rs:324-337).             *)
OverrideReachesFeeder ==
  \A t \in Tokens :
    LET byAddr == LimitFor(conn[t].addr)
        wanted == IF byAddr # None THEN byAddr ELSE LimitFor(conn[t].uuid)
    IN \/ []<>(conn[t].open /\ wanted # None => conn[t].limit = wanted)
       \/ []<><<wanted' # wanted>>_vars

(* ARCHITECTURE.md:96, alerts.rs is the "Monitoring (dropout, stall, ...)":*)
(* a feeder that hangs up is noticed, and its connection removed.  The     *)
(* code reads once per edge-triggered event, so a hang-up that poll        *)
(* returns together with the last data is never seen.                      *)
DropoutNoticed ==
  \A t \in Tokens : (conn[t].open /\ conn[t].hup # "no") ~> ~conn[t].open
=============================================================================

----------------------------- MODULE CacheLocks -----------------------------
(***************************************************************************)
(* The snapshots that the ingest thread shares with the HTTP and WebSocket *)
(* threads: the JSON, binCraft and trace caches and the alert store, each  *)
(* behind a std::sync::RwLock.                                             *)
(*                                                                         *)
(* Most HTTP handlers of src/src/api.rs send the response while they hold  *)
(* the read guard; /re-api, the vessel list and src/src/ws.rs copy the     *)
(* snapshot first.  The ingest thread (src/src/ingest.rs) takes the write  *)
(* lock to rebuild a snapshot and to push an alert, and does nothing else  *)
(* while it waits.                                                         *)
(*                                                                         *)
(* An RwLock of the standard library lets no new reader in while a writer  *)
(* waits.  A response is sent when the peer has read it.                   *)
(***************************************************************************)
EXTENDS Naturals, Sequences

CONSTANTS
  Threads,   \* HTTP and WebSocket threads
  Copying,   \* those that copy the snapshot first, the others send it under the guard
  Prompt,    \* those whose peers read what they are sent
  Caches,    \* the shared snapshots
  Copied,    \* those that the copying threads ask for
  Rebuilds   \* what the timer block may rewrite: sequences of caches

ASSUME LocksAssumption ==
  /\ Copying \subseteq Threads
  /\ Prompt \subseteq Threads
  /\ Copied \subseteq Caches
  /\ Rebuilds \subseteq Seq(Caches) \ {<<>>}

VARIABLES
  http,     \* what each thread is doing, and with which cache
  readers,  \* the threads that hold a read guard of each cache
  writing,  \* whether the ingest thread holds the write lock of each cache
  ingest,   \* "run", "lock" (waiting) or "write"
  todo      \* the caches the ingest thread has still to rewrite

lockVars == <<http, readers, writing, ingest, todo>>

Nowhere == "nowhere"
Idle == [at |-> "idle", cache |-> Nowhere]

LocksInit ==
  /\ http = [h \in Threads |-> Idle]
  /\ readers = [c \in Caches |-> {}]
  /\ writing = [c \in Caches |-> FALSE]
  /\ ingest = "run"
  /\ todo = <<>>

WriterWaits(c) == ingest = "lock" /\ Head(todo) = c
MayRead(c) == ~writing[c] /\ ~WriterWaits(c)

-----------------------------------------------------------------------------
(* A request for a cache. *)
Request(h, c) ==
  /\ http[h] = Idle
  /\ h \in Copying => c \in Copied
  /\ http' = [http EXCEPT ![h] = [at |-> "lock", cache |-> c]]
  /\ UNCHANGED <<readers, writing, ingest, todo>>

(* The read guard is taken, to send the snapshot under it or to copy it.   *)
ReadLock(h) ==
  /\ http[h].at = "lock" /\ MayRead(http[h].cache)
  /\ http' = [http EXCEPT ![h].at = "guard"]
  /\ readers' = [readers EXCEPT ![http[h].cache] = @ \cup {h}]
  /\ UNCHANGED <<writing, ingest, todo>>

Unguarded(h) == [readers EXCEPT ![http[h].cache] = @ \ {h}]
CopyUnderGuard(h) ==  \* seeded bug: the snapshot is borrowed, not cloned
  /\ http[h].at = "guard" /\ h \in Copying
  /\ http' = [http EXCEPT ![h].at = "copied"]
  /\ UNCHANGED <<readers, writing, ingest, todo>>
Copy(h) ==
  /\ http[h].at = "guard" /\ h \in Copying
  /\ http' = [http EXCEPT ![h].at = "copied"]
  /\ readers' = Unguarded(h)
  /\ UNCHANGED <<writing, ingest, todo>>

(* The peer has read the response: write_all returns and the thread ends   *)
(* (or, for a WebSocket, waits for the next second).                       *)
Answered(h) ==
  /\ http[h].at = IF h \in Copying THEN "copied" ELSE "guard"
  /\ http' = [http EXCEPT ![h] = Idle]
  /\ readers' = Unguarded(h)
  /\ UNCHANGED <<writing, ingest, todo>>

(* A WebSocket write gives up after 5 s, whatever the peer does. *)
GiveUp(h) ==
  /\ http[h].at = "copied"
  /\ http' = [http EXCEPT ![h] = Idle]
  /\ UNCHANGED <<readers, writing, ingest, todo>>

-----------------------------------------------------------------------------
(* The ingest thread: it comes to the rebuild of some caches, or an alert, *)
(* and takes the write locks one after the other.                          *)
Rebuild ==
  /\ ingest = "run"
  /\ \E caches \in Rebuilds : todo' = caches
  /\ ingest' = "lock"
  /\ UNCHANGED <<http, readers, writing>>

WriteLock ==
  /\ ingest = "lock" /\ readers[Head(todo)] = {}
  /\ ingest' = "write"
  /\ writing' = [writing EXCEPT ![Head(todo)] = TRUE]
  /\ UNCHANGED <<http, readers, todo>>

WriteDoneLeaked ==  \* seeded bug: the guard is leaked
  /\ ingest = "write"
  /\ todo' = Tail(todo)
  /\ ingest' = IF Tail(todo) = <<>> THEN "run" ELSE "lock"
  /\ UNCHANGED <<http, readers, writing>>

WriteDone ==
  /\ ingest = "write"
  /\ writing' = [writing EXCEPT ![Head(todo)] = FALSE]
  /\ todo' = Tail(todo)
  /\ ingest' = IF Tail(todo) = <<>> THEN "run" ELSE "lock"
  /\ UNCHANGED <<http, readers>>

LocksNext ==
  \/ \E h \in Threads :
       \/ \E c \in Caches : Request(h, c)
       \/ ReadLock(h) \/ Copy(h) \/ Answered(h) \/ GiveUp(h)
  \/ Rebuild \/ WriteLock \/ WriteDone

LocksSpec == LocksInit /\ [][LocksNext]_lockVars

(* Every thread is scheduled; a reader that is woken gets the lock sooner  *)
(* or later, since the ingest thread rewrites a cache once a second only.  *)
(* A response is read if its peer is prompt.                               *)
LocksFairSpec ==
  /\ LocksSpec
  /\ WF_lockVars(WriteLock) /\ WF_lockVars(WriteDone)
  /\ \A h \in Threads : SF_lockVars(ReadLock(h)) /\ WF_lockVars(Copy(h))
  /\ \A h \in Prompt : WF_lockVars(Answered(h))

-----------------------------------------------------------------------------
(* The ingest thread always comes back to the feeders: no mixture of       *)
(* requests holds it up for ever in a rebuild, if the peers of the threads *)
(* that send under the guard read; those of copying threads need not.      *)
LoopRuns == []<>(ingest = "run")

(* Every thread whose peer reads is done with its request again and       *)
(* again, however often the snapshots are rebuilt and whatever the peers   *)
(* of copying threads do.                                                  *)
RequestServed == \A h \in Prompt : []<>(http[h] = Idle)

(* README.md:123, "no lock contention": the ingest thread comes back to    *)
(* the feeders whatever the peers of the HTTP server do.  A peer that does *)
(* not read its response keeps a read guard, and with it the whole server. *)
LoopNeverHeldUp == LoopRuns
=============================================================================

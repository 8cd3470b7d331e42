----------------------------- MODULE Enrichment -----------------------------
(***************************************************************************)
(* The self-learned routes of src/src/enrichment.rs.  A callsign without a *)
(* route is queued; tick looks a batch of them up, one blocking request    *)
(* after the other, and saves what has been learned.  A file that cannot   *)
(* be read or written is passed over in silence.                           *)
(*                                                                         *)
(* Instants are ages that saturate.  A round of the loop is the time from  *)
(* one tick to the next; nothing in the code bounds it.                    *)
(***************************************************************************)
EXTENDS Integers, SequencesExt

CONSTANTS
  Callsigns,
  Answers,          \* what a lookup can give: "route", "bare", "fails"
  BatchSize,        \* the 20 lookups of a batch
  BatchInterval,    \* BATCH_INTERVAL
  PersistInterval,  \* PERSIST_INTERVAL
  RetryAfter,       \* RETRY_AFTER
  MaxRound          \* bound: the longest round

ASSUME EnrichmentAssumption ==
  /\ Answers \subseteq {"route", "bare", "fails"}
  /\ {BatchSize, BatchInterval, PersistInterval, RetryAfter, MaxRound} \subseteq Nat \ {0}

VARIABLES
  pc,          \* where the ingest thread is in its loop
  routes,      \* the learned routes; "bare" has no airports
  pending,     \* the callsigns to look up
  batch,       \* those of the batch under way
  failed,      \* age of the last failure of each callsign
  sinceBatch,  \* age of last_batch
  sinceSave,   \* age of last_persist
  sinceNow,    \* age of the `now` of the last tick
  file,        \* CACHE_FILE: the routes in it, or Torn
  asked,       \* history: age of the last lookup of each callsign
  learned,     \* history: since when each route has been known
  written,     \* history: no write has failed since the file was last complete
  longest      \* history: the longest round

enrichment == <<routes, pending, batch, failed, sinceBatch, sinceSave, sinceNow,
                file, asked, learned, written, longest>>

(* The age that decides whether to save; and how long a route waits at     *)
(* most for that: the rest of the interval, a round whose tick came just   *)
(* too early, and the next one, whose lookups come before its saving.      *)
SaveCap == PersistInterval + MaxRound
LossBound == PersistInterval + 2 * longest
LossCap == PersistInterval + 2 * MaxRound

Torn == [c \in {} |-> "unknown"]
Nothing == [c \in Callsigns |-> "unknown"]

(* load_cache: a file that is not there or cannot be parsed is an empty    *)
(* one; and so is one that cannot be read.                                 *)
Loaded(f) == IF f = Torn THEN Nothing ELSE f

EnrichmentInit ==
  /\ routes = Nothing
  /\ pending = <<>>
  /\ batch = <<>>
  /\ failed = [c \in Callsigns |-> RetryAfter]
  /\ sinceBatch = 0 /\ sinceSave = 0 /\ sinceNow = 0
  /\ file = Torn
  /\ asked = [c \in Callsigns |-> RetryAfter]
  /\ learned = [c \in Callsigns |-> 0]
  /\ written = TRUE
  /\ longest = 0

(* What a new process starts from.                                         *)
NewEnrichment(reads) ==
  /\ routes' = IF reads THEN Loaded(file) ELSE Nothing
  /\ pending' = <<>>
  /\ batch' = <<>>
  /\ failed' = [c \in Callsigns |-> RetryAfter]
  /\ sinceBatch' = 0 /\ sinceSave' = 0 /\ sinceNow' = 0
  /\ asked' = [c \in Callsigns |-> RetryAfter]
  /\ written' = TRUE
  /\ UNCHANGED <<file, learned, longest>>

-----------------------------------------------------------------------------
(* get_route; a known callsign is counted and answered.                    *)
MayQueueFailed(c) ==  \* seeded bug: failures are forgotten
  routes[c] = "unknown" /\ ~Contains(pending, c)
MayQueue(c) ==
  routes[c] = "unknown" /\ ~Contains(pending, c) /\ failed[c] >= RetryAfter
GetRoute(c) ==
  /\ pending' = IF MayQueue(c) THEN Append(pending, c) ELSE pending
  /\ UNCHANGED <<routes, batch, failed, sinceBatch, sinceSave, sinceNow, file,
                 asked, learned, written, longest>>

(* tick takes a batch ... *)
BatchDueFull ==  \* seeded bug: a batch waits until it is full
  Len(pending) > BatchSize /\ sinceBatch >= BatchInterval
BatchDue == pending # <<>> /\ sinceBatch >= BatchInterval

BatchLen == IF Len(pending) < BatchSize THEN Len(pending) ELSE BatchSize
BeginTick ==
  /\ sinceNow' = 0
  /\ IF BatchDue
     THEN /\ batch' = SubSeq(pending, 1, BatchLen)
          /\ pending' = SubSeq(pending, BatchLen + 1, Len(pending))
          /\ pc' = "lookup"
     ELSE pc' = "save" /\ UNCHANGED <<batch, pending>>
  /\ UNCHANGED <<routes, failed, sinceBatch, sinceSave, file, asked, learned, written, longest>>

(* ... and looks it up.  The body of an answer is parsed whatever its      *)
(* status: one without airports is learned too.                            *)
Lookup ==
  /\ pc = "lookup"
  /\ \E a \in Answers :
       LET c == Head(batch)
       IN IF a = "fails"
          THEN failed' = [failed EXCEPT ![c] = sinceNow] /\ UNCHANGED <<routes, learned>>
          ELSE /\ routes' = [routes EXCEPT ![c] = a]
               /\ learned' = [learned EXCEPT ![c] = 0]
               /\ UNCHANGED failed
  /\ asked' = [asked EXCEPT ![Head(batch)] = 0]
  /\ batch' = Tail(batch)
  /\ IF Tail(batch) = <<>> THEN pc' = "save" /\ sinceBatch' = sinceNow
     ELSE UNCHANGED <<pc, sinceBatch>>
  /\ UNCHANGED <<pending, sinceSave, sinceNow, file, written, longest>>

(* persist_cache overwrites the file in place.  The file may not open, or  *)
(* break off: the errors are ignored (.ok()) and last_persist is renewed.  *)
SaveDueOnce ==  \* seeded bug: only the first batch is saved
  sinceSave - sinceNow >= PersistInterval /\ file = Torn
SaveDue == sinceSave - sinceNow >= PersistInterval
SaveBegins ==
  /\ pc = "save" /\ SaveDue
  /\ file' = Torn /\ written' = FALSE
  /\ pc' = "write"
  /\ UNCHANGED <<routes, pending, batch, failed, sinceBatch, sinceSave, sinceNow, asked,
                 learned, longest>>
Persisted ==  \* where persist_cache returns
  /\ sinceSave' = sinceNow
  /\ pc' = "ticked"
  /\ UNCHANGED <<routes, pending, batch, failed, sinceBatch, sinceNow, asked, learned, longest>>
SaveRefused ==
  /\ pc = "save" /\ SaveDue
  /\ written' = FALSE /\ file' = file
  /\ Persisted
SaveEnds ==
  /\ pc = "write"
  /\ file' = routes /\ written' = TRUE
  /\ Persisted
SaveBreaks ==
  /\ pc = "write"
  /\ written' = FALSE /\ file' = file
  /\ Persisted
SaveNotDue ==
  /\ pc = "save" /\ ~SaveDue
  /\ pc' = "ticked"
  /\ UNCHANGED enrichment
TickStep == Lookup \/ SaveBegins \/ SaveRefused \/ SaveEnds \/ SaveBreaks \/ SaveNotDue

Older(age, cap) == IF age < cap THEN age + 1 ELSE age
EnrichmentAges ==
  /\ failed' = [c \in Callsigns |-> Older(failed[c], RetryAfter)]
  /\ sinceBatch' = Older(sinceBatch, BatchInterval)
  /\ sinceSave' = Older(sinceSave, SaveCap)
  /\ sinceNow' = sinceNow + 1
  /\ longest' = IF sinceNow < longest THEN longest ELSE sinceNow + 1
  /\ asked' = [c \in Callsigns |-> Older(asked[c], RetryAfter)]
  /\ learned' = [c \in Callsigns |->
       IF routes[c] = "unknown" THEN 0 ELSE Older(learned[c], LossCap)]
  /\ UNCHANGED <<routes, pending, batch, file, written>>
=============================================================================

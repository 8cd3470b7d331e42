# A TLA+ model of SkyGate

SkyGate (`src/`) is an aggregation server for ADS-B feeders in Rust: feeders connect over TCP and
send Beast frames; the server identifies them, limits their rates, fans the frames out to
subscribers, decodes them into aircraft with positions, and serves snapshots and an administration
API over HTTP and WebSocket. This directory holds TLA+ specifications of its core, the TLC
configurations that check them on small instances, and theorems checked by TLAPS. Paths below are
those of the repository (`src/src/writer.rs` is the file `src/writer.rs` of the crate); line numbers
refer to the commit at hand. `PROJECT.json` lists for every definition the lines it stands for.

To check a run: `tlc -config <run>.cfg <module>.tla`. To check proofs: `tlapm <Module>Proofs.tla`.

## 1. Inventory

| Component | State | Operations | Talks to |
|---|---|---|---|
| Ingest loop (`ingest.rs:28-343`) | `feeders` by token, the mio poll, timers, the decoded batch | accept, one read per event, hang-up, the 50 ms timer block | everything below; single thread |
| Beast framer (`beast.rs`) | a byte buffer per connection | `push`, `next_frame` | called by `ClientState::feed` |
| Connection state (`client.rs`) | id, prefix, uuid, lock flag, rate window, garbage flag | `feed`, `lock_uuid`, `rate_check` | framer before it, outputs behind it |
| Output writer (`writer.rs`) | a write buffer, the subscribers with send queue, dropHalf timer and toggle, last send time | `append`, `check_flush`, `flush`, `add_client` | subscribers' sockets |
| Feeder registry (`feeder.rs`) | two locked maps: entries by ip:port, blocked ids | `connect`, `update`, `remove`, `block`, `unblock`, `is_blocked`, `stalled_feeders` | ingest thread and HTTP threads |
| Kick list, rate overrides, alerts (`api.rs`, `alerts.rs`) | locked lists, a ring of 1000 alerts | POSTed over HTTP, applied by the timer block | HTTP threads, ingest thread |
| Aircraft store (`decode/aircraft.rs`) | per aircraft: the fields it has sent, CPR halves by receiver and by parity, reference and published position, credit, trace | `update`, `try_position`, `speed_check`, `reap_stale` | ingest thread; receiver map |
| Receiver map (`decode/receiver_map.rs`) | learned coverage per receiver, a file | `position_received`, `check_position`, `persist` | aircraft store |
| Mode S decoder (`decode/mode_s.rs`, `crc.rs`, `cpr.rs`) | none | pure functions on bits | ingest loop |
| Snapshots (`api.rs`, `ws.rs`, `ingest.rs:255-288`) | JSON, binCraft and trace caches behind `RwLock`s | rebuilt by the ingest thread, sent by HTTP and WebSocket threads | |
| AIS (`ais/*`) | dedup cache and fragment assembler per source thread, vessel store behind a lock | read lines, deduplicate, assemble, decode, store, reap | its own threads, HTTP |
| Enrichment (`enrichment.rs`) | learned routes, pending and failed callsigns, a file | `get_route`, `tick` (blocking HTTP look-ups), persist | ingest thread |
| Reduce output (`reduce.rs`), compact ingest (`compact_ingest.rs`), SBS and atlas outputs (`sbs.rs`, `wire.rs`) | last emission per aircraft; none | thin the stream; read a compact format; encode | ingest loop |
| SDR front end (`sdr/*`) | sample buffers, demodulators | signal processing, sends Beast to the local port | ingest loop over TCP |
| Start-up (`main.rs`, `config.rs`) | options | wiring of threads | |

What is hard in this code, and what makes each part right:

* *Writer.* Chunks are skipped (dropHalf toggle, or no room), written in part, retried at the next
  flush only, and abandoned after a stall. Right means: bounded memory, whole frames, at most every
  other chunk lost to the toggle, no healthy peer removed, no stuck peer kept.
* *Framer.* A read may end at any byte; escapes are doubled; frames cut each other. Right means:
  the frames do not depend on the reads, and a broken frame costs only itself.
* *Connection state.* UUID and E3 frames come in any order and number, the rate verdict may turn on
  any frame. Right means: one identity, one prefix, one route for a frame and its prefix, an exact limit.
* *Fan-out.* The prefix and the frame it announces are two appends into a shared stream. Right means:
  nobody ever reads a message as another receiver's.
* *Registry.* Edge-triggered events, HTTP threads that take two locks one after the other, actions
  applied later by a timer. Right means: no ghost entries, no lost kick, override or alert.
* *Aircraft store.* Two stores of halves, two decoders, three places that reset the state, a map that
  learns from what it also judges. Right means: the parts of the state agree, no impossible jump,
  no unconfirmed teaching.
* *Mode S.* A message may be damaged, a reply has no checksum of its own, codes have holes and
  boundaries. Right means: one wrong bit is repaired, none gives an aircraft another's data, a number arrives.
* *AIS.* Repeated, lost and reordered sentences, sequence ids that come back, three threads on two stores.
  Right means: a report is made of its own parts, passed on once, and a vessel stays while it is heard.
* *Timer block.* Lookups, files and locks hold the loop up while messages wait in a channel; files are rewritten
  in place, and errors of writing and reading them are ignored. Right means: requests are met and not repeated, a
  crash costs little, pairs are of one time.
* *Snapshots.* A guard is held while a slow peer is served. Right means: the ingest thread and every
  request get their lock.

The full list of hazards, line by line, is in `PROJECT.json` under `hazards`.

## 2. Modules

| Module | Models | Extends / uses |
|---|---|---|
| `OutputWriter` | one output with its subscribers, their kernel sockets and the clock | implements `LossyBroadcast` |
| `LossyBroadcast` | abstract: what an output promises its subscribers | |
| `OutputWriterProofs` | theorems | `OutputWriter` |
| `ClientState` | identity, prefix, routing, rate limit of connections | |
| `FanOut` | ingest loop between feeders and the beast output | `OutputWriter`, `ClientState` |
| `FanOutProofs` | theorems | `FanOut`, `OutputWriterProofs` |
| `FeederRegistry` | ingest loop, registry, administration API, alerts | |
| `FeederRegistryProofs` | theorems | `FeederRegistry` |
| `AircraftStore` | positions and coverage | |
| `AircraftStoreProofs` | theorems | `AircraftStore` |
| `CacheLocks` | locks on the snapshots | |
| `BeastFramer` | framer, E3 encoder, readers of frames, the writer of the SDR front end | |
| `BeastFramerProofs` | theorems | `BeastFramer` |
| `CompactFramer` | framer of the demodulator's connection | |
| `ModeS` | checksum, repair and dispatch of Mode S messages, the merge into the store | |
| `Fields` | numbers in messages and outputs | |
| `Input` | the stages of the way in side by side | the four above |
| `InputProofs` | theorems | `Input`, `BeastFramerProofs` |
| `Enrichment` | routes: requests, batches, failures, the file | |
| `IngestTick` | the timer block with crashes and restarts | `Enrichment` |
| `IngestTickProofs` | theorems | `IngestTick` |
| `AisReader` | reader threads, deduplication, assembly, vessel store | |
| `AisReaderProofs` | theorems | `AisReader` |
| `MC*` | constants for TLC, and where needed scenes that keep a run small | the module named; `MCThreads` joins three |

### OutputWriter

A byte is `[frame, pos]`, so that a cut frame is visible. `buf` is the write buffer, `sub` the
`SubClient` records, `sinceFlush` the age of `last_flush`; ages stand for `Instant`s. `sock` is the kernel: how many
bytes it holds, whether the peer is gone, and for how long it has been full. `AppendFrame` is
`append` with the flush it may trigger; `CheckFlush` is `check_flush` (timer flush or heartbeat);
`Flush` is both loops of `flush`: `Offer` per subscriber, then `TryFlush`, then removal of the
`Dead`. The peer may read (`PeerReads`), or close (`PeerCloses`) at any time. `last`, `roomSkips` and
`lossy` are history, for the properties. A partial write of any length the socket allows is possible.

`LossyBroadcast` says the same without sockets, timers and toggles: everything collected is offered
to all members at once, each queues the whole of it or nothing behind what it has, the front of a
queue goes out, and nothing else touches a queue. `KeepsItsPromise` is the refinement: `buf` is what
is collected, `clients` are the members, a `sendq` is a queue. It is stronger than `FramesStayWhole`
(bytes cannot change place or come twice) and silent about when a member is removed.

### BeastFramer

`Push` is one read; each `NextFrame` action is one turn of the loop in `next_frame`, and `busy` says
that `feed` is still calling it. The seven frame types are represented by two escaped ones and a raw
one. `Onward` is one turn of the walk over an escaped body, `Walk` that walk as a recursive function of the
turn and `BodyEnd` where it ends; `IdByte` and `MessageByte` are in the same way a turn of the two readers and
`Doubled` one of the encoder. `Reference` is an independent definition of what the frames of a
stream are: it matches the *encodings* of all bodies against the whole stream.

### ClientState and FanOut

A connection's record has the id, the prefix, the lock flag, the frame count and the window's end.
`Feed` is one turn of `feed`'s loop; what it emits is queued in `emits`, which `Emit` (in FanOut:
`Publish`, the closure of `ingest.rs:174-181`) takes frame by frame while nothing else of the ingest
thread runs. `Behind` says which receivers a connection carries, `Sender` which UUID it sends; `Relays` are the
connections that announce their messages with E3 frames. FanOut adds the beast output; of the
garbage output it keeps what was appended last. The properties speak of `Alone`, the receivers no relay
speaks for: what a relay announces can be cut off from its message (see below). `StationAssumption`: a
station that says who it is carries its own messages only.

### FeederRegistry

`conn` is the table of connections with their sockets: unread data, hang-up, and the edge
(readiness not yet reported). `Poll` takes the edges into `batch`; `Accept`, `Register`, `AcceptDone` and `Read` handle
them one by one; `Timer` is the timer block. Between `is_blocked` and `connect` (lines 125, 129) and
between the two locks of `block` (`Block`, `Sweep`) other threads may step in. `tracker` holds the entries;
`warned` in an entry is history: an alert about the present silence has been pushed. `overrides` is the map of
rate limits by id, and a connection keeps the `limit` it was given: `Overridden` looks for its address first, then
for its uuid. `Timer` pushes the stalled feeders in one hold of the lock, in the order of the map, which is any.

### AircraftStore

`slots` are the halves by receiver, `latest` the halves by parity, `fix` the reference, its age, the two
credits and the published position. `Position` is `update` for a position frame: it stores the half,
`TryPosition` (relative, else global decode, with the speed check), then check, revocation or
learning against `coverage`. Places lie on a line; what a decoder returns from halves that do not
belong together is *any* place, so the CPR arithmetic itself is not claimed to be right. The course
is a free choice where the speed check depends on it. A tick is 0.1 s.

### CacheLocks

One thread per HTTP or WebSocket connection: it asks, takes the read guard, then either sends under it or
copies, releases and sends. The ingest thread takes write locks in sequence. The lock lets no new reader in
while a writer waits, as std's RwLock does on Linux; `WriterWaits` and `MayRead` are that external part.

### ModeS, Fields, CompactFramer, Input

In `ModeS` a polynomial over GF(2) and an address are sets of exponents; the CRC is computed by its
real generator over the real 56 or 112 bits. A message is what an aircraft `Sent` (format, address,
type code, whether its optional part is there) and the set of bits that were received wrong.
`Decode` is `decode` with `DecodeShortLong` and `DecodeDf17`, `Update` is the part of `Store::update`
above the position. A field's value is the aircraft it came from. The format field may be hit too, so
that a squitter is decoded as a reply and the other way round; what the code then reads out of bits
that mean something else is any value. The checksum of a message with errors is the sum of their
syndromes, the powers that are in an odd number of them. `CodeAssumption` is what the generator was chosen for:
no error and no two look like none, no two look like one. It has no parameters, so that TLC, which goes through the
112 syndromes on every run, settles it. `AddressAssumption`: an address is not itself a difference of two
one-bit syndromes; 1 in 2600 is, and a reply of such an aircraft can be taken for another's squitter.

`Fields` has the number decoders on the integer code of a field, against encoders written from the
layouts of the fields. `CompactFramer` is `feed` as a recursive function of the bytes
it has been given.

`Input` puts these stages and `BeastFramer` side by side. Each hands plain data to the next and keeps
nothing of it, so a behaviour exercises one stage: the framer on a stream, one address of the store, or one
probe of the functions.

### Enrichment and IngestTick

`pc` is where the ingest thread is in its turn. `BeginTurn` is the beginning of `tick`, `Lookup` one
blocking request with any of its outcomes. A save is `SaveBegins` and `SaveEnds`, between which the file is torn; or the
file does not open and stays as it was (`SaveRefused`), or the write breaks off and leaves it torn (`SaveBreaks`): the code
ignores both (`.ok()`, `enrichment.rs:143-149`) and renews the time of the last save all the same. The same four actions
with `Map` are the coverage. `Drain` takes one message out of the demod channel and `Drained` ends the
loop of `try_recv` when there is none left; `Rebuilt` is the rest of the turn. `Send` puts messages in at any time but during
the drain, which takes no time: a message that comes meanwhile is as one that came just before or just after.
`Restart` is a crash anywhere and the start of a new process from those files that can be read; the others count as empty.

Time passes wherever the thread may wait (`Waits`): in the poll, for the answer to a lookup, in a write, and for
the write locks of the caches and the kick list (`ingest.rs:205`, `259`, `261`, `279`, `313`), which readers hold while they
send. Nothing in the code bounds these waits: the timeout of `http_get` is per read, a send has none (`CacheLocks`).
A *round* is the time from one tick to the next. The history `longest` is the longest round of the behaviour, and the
properties measure what a wait may cost in it; `MaxRound` only bounds the instance. `asked`, `learned`, `gap`,
`emitted`, `taught`, `written` and `mapWritten` are history too; the last two say whether a write has failed since the
file was last complete.

### AisReader

A line has what is `around` its sentence (a stamp, say), a tag, a report and the part of it. A sentence is a line without what is
around it (`Bare`): `normalize_nmea` cuts that away and keeps the tag, and the cache hashes what is left, so that the same part
under another tag is another sentence. The sequence id is in the report's `key` with the channel. `ReadLine` is the body of the
reader's loop: `Normalised`, then `Ignore` (a repetition), `Panic`, or `Accept` with the assembler
(`Processed`), the decoder (`Decoded`) and the send. `Consume` and `ReapStale` are the two threads of
`main.rs`. Cache and assembler are the thread's and survive a `Disconnect`. Nothing keeps two reports with one key apart:
lines come in any order. A frame carries the sentences it was made `from`. History is, per sentence, since when
it has not brought a frame about (`sent`), and, per source, the sentences that came when no part with their key had been accepted for
`AssembleTtl` and that no other part with the key has followed (`alone`).

## 3. Runs

| Run | Instance and bounds | Shows |
|---|---|---|
| `threads` | three actors. Subscribers: one subscriber, frames of 1 and 2 bytes, flush size 3, queue 5, socket 2 | `TypeOK`, `SendqBounded`, `AtMostHalfDropped`, `FramesStayWhole`, `RemovedForCause`; with fairness `StuckPeerRemoved`; the refinement `KeepsItsPromise` |
| | HTTP: two threads that send under the guard, a WebSocket that copies, two caches | with fairness `LoopRuns`, `RequestServed` |
| | AIS: one source; a position under two tags, with and without a stamp; two-part reports of two ships under one sequence id, one part under a second tag, a third part, a part of a report of three; names and callsigns; reports that bring nothing | `HeardVesselStays`, `AssembledInTime`, `PartsMeet`, `NoEarlyRepeat`; with fairness `SilentVesselLeaves` |
| `registry` | four scenes. The callers of the API block, or kick: one peer with a uuid, two tokens, no clock. They set limits: one connection of it at a time, two limits by address and by uuid. Nobody calls: two peers without uuid, an alert ring with two places | `ListedIsConnected`; with fairness `KickTakesEffect`, `OverrideReachesFeeder`, `StallReported` |
| `fanout` | two stations with UUIDs and a relay; scenes "published" and "beside": a station at any rate and the relay, or the other station, beside it, no subscriber; scene "subscribed": both stations and one subscriber | `PublishedAttribution`, `IdentifiedStaysIdentified`, `AttributedUntilLoss`, `IdentityIsStable`, `VerdictIsExact` |
| `aircraft` | one aircraft, one identified and one unidentified receiver, two places | `PositionCoherent`, `SpeedChecked`, `OnlyConfirmedTeaches`, `PublishedInRange` |
| `input` | all streams of up to 7 bytes over 5 byte values, reads of 1 or 2 bytes; two aircraft whose addresses differ in one bit, every message of theirs with no or one wrong bit; every altitude, speed and box of the probes, every pair of wrong bits | `ChunksDoNotMatter`, `DecodesBack`, `ResyncsAtNextFrame`, `OnlyAStartIsKept`, `FramesArrive`, `FieldsAreOwn`, `DamageIsRepaired`, `NumbersArrive` |
| `tick` | two callsigns in batches of one; or frames for the reduce output; or positions that teach; or the halves of one position, without crashes and failing writes. Rounds of up to two ticks, files that fail in every way | `PairsAreNear`, `AskedSparingly`, `LearnedSurvives`, `ReduceIsCurrent`; with fairness `RequestsAreMet` |
| `fanout_slow` | as `fanout`, scene "subscribed" | `SubscriberAttribution` is violated |
| `registry_hangup` | one token, fair loop | `DropoutNoticed` is violated |
| `locks_stuck` | two threads, one peer that does not read | `LoopNeverHeldUp` is violated |
| `input_asis` | as `input` | `AsIsHandled` is violated |
| `input_squawk` | as `input` | `SquawksArrive` is violated |
| `tick_waits` | the halves of one position beside a callsign that is looked up | `PairedInTime` is violated |

`MCFanOut` and `MCFeederRegistry` add a variable that fixes a scene at the start (who is busy, which
function the callers use), and `MCIngestTick` chooses among sets of inputs: full mixtures multiply the states without a
new interaction, and the safety properties are theorems about every mixture. `MCThreads` puts three modules that
share no state into one run, one of which moves in a behaviour; the fairness of its `MCSpec` is that of `FairSpec`, `LocksFairSpec` and
`AisFairSpec` for the one that moves. The fairness of a scene is that of `FairSpec` without the actions the scene leaves out.

Why the bounds are enough:

* Subscribers of one writer share only the chunk they are offered, so one shows all there is; the
  proofs cover any number. A frame of two bytes can be cut, a queue of five holds two chunks and a half,
  a socket of two can be partly full.
* Seven bytes hold a truncated frame and a whole one, or a whole frame of six bytes (both body bytes
  doubled) with junk before it; every cut of a frame by another falls within.
* Two tokens for one peer give the reconnection from the same port; data beyond one read is one unit more.
* Two places farther apart than a tick's flight and within a grown coverage make every check answer both ways.
* Two stalled feeders and two places are as many as fit; with one place `StallReported` is false (below).
* Two callsigns in batches of one leave one behind, and they can fail and succeed in either order, with
  time in between. A route and an answer without one are kept alike, so one of the two stands for both. A round of two ticks is longer than the pair timeout and the save interval of these instances, as the waits of the code
  may be longer than 10 s and 60 s; the theorems hold for every `MaxRound`.
* One AIS source suffices: cache, assembler and history are per source, and the store sees an interleaving
  of frames that one source can produce too. Two reports of two parts under one key make every mixture of their parts possible.
* The bits of a message are all there, and two addresses that differ in one bit are the case in which an
  error could turn one aircraft into the other.
* Two guards on one cache are what starves a writer; two caches in sequence are what blocks a reader for two rewrites.

Constants named as bounds in the modules (`MaxStream`, `MaxPiece`, `MaxBurst`, `MaxUnread`, `AgeCap`, `Traffic`, `MaxChan`,
`MaxPositions`, `MaxRound`) limit the instance only; ages and counters saturate once every comparison with them is decided.
`Input.cfg`, `InputAsIs.cfg` and `InputSquawk.cfg` have no deadlock check: a bounded stream ends, and a probe is one state.

Every property has a seeded bug: an operator with the comment `seeded bug` next to the definition it
would replace, a plausible mistake at that place in the code, for which the run finds the property violated.

### Fairness

* Writer: `check_flush` runs every 50 ms of a loop whose poll waits 10 ms at most, and time passes:
  `WF(CheckFlush)`, `WF(Tick)`. Peers and feeders are free to do nothing.
* Registry: the loop never blocks (`WF(Loop)`), the timer block is due again and again and is reached
  (`SF(Timer)`), time passes, an HTTP thread that has started `block` ends it. Peers are not fair.
  `SF(AcceptDone)` assumes that the backlog is found empty now and then: the code drains it before
  it comes to the timer (`ingest.rs:121`), so connections that arrive faster than they are accepted,
  or a blocked peer that reconnects at once, would starve the timer block.
* Timer block: the thread goes on (`WF(Loop)`): it gets its locks, answers and files in the end. That is an assumption;
  what a peer that never reads does to it is `locks_stuck`. Between two turns, however short they are, time
  passes (`SF(Clock)`: a round as long as `MaxRound` cannot stop the clock for good). Only `RequestsAreMet` needs it.
* AIS: the consumer, the reaper and the clock (`WF`); sources are free to send nothing.
* Locks: every thread is scheduled, and a reader that is woken again and again gets its lock
  (the ingest thread rewrites once a second). A response is read if its peer is in `Prompt`.

### Where the code does other than it says

The six runs that end in a violation:

* `fanout_slow`: dropHalf drops whole chunks, and a chunk may end between a prefix and its message
  (two appends, `client.rs:90` and `:93`). The next message a slow subscriber gets then follows another
  receiver's prefix.
* `registry_hangup`: the loop reads once per edge; a hang-up reported together with the last data,
  or after data beyond one buffer, is never read. The connection and its entry stay until the peer
  is kicked or its socket reports something new.
* `locks_stuck`: most handlers send while they hold the read guard and without a timeout. One peer that does not
  read its response stops the ingest thread, although `src/README.md:123` says "no lock contention".
* `input_squawk`: `decode_id13` takes the digits of a squawk from neighbouring bits; the field interleaves
  them (C1 A1 C2 A2 C4 A4 X B1 D1 B2 D2 B4 D4). 7700 is decoded as 2254, although `src/PLAN.md:98` lists
  "Squawks correct (4 octal digits)" as a test.
* `input_asis`: the SDR front end does not double the escapes of a frame, "For simplicity, send as-is (our ingest
  handles both)" (`sdr_reader.rs:78`). The framer takes an escape in the body for the start of another frame, and the
  frame is lost. `FramesArrive` keeps what does hold: frames without one arrive.
* `tick_waits`: `src/PLAN.md:54` pairs halves "within 10s", but messages of the demodulator are stamped when they are
  drained (`ingest.rs:249`), and wait in the channel while the loop waits. `PairsAreNear` is what is left: the timeout
  and two rounds, however long those are.

Seen while modelling, without a run:

* Every stalled feeder is pushed into the ring of alerts again every ten seconds, in the order of the map and in one hold of
  the lock (`ingest.rs:314-322`). With more of them than the ring has places the first ones are pushed out before anybody can
  read them, every time. The ring has 1000 places, `src/ARCHITECTURE.md:13` speaks of 2500 connections. In the scene of `registry`
  with two stalled feeders `MaxAlerts = 1` shows it. Repeated stall alerts push the dropouts out as well.
* Parts of AIS reports are kept by sequence id and channel (`decode.rs:270-284`), and nothing tells reports with one key and one total
  apart. The sources are aggregated feeds, in which the few keys return within seconds: the first part of a report is put
  together with the second of another ship's, where `decode.rs:249` says "Returns assembled payload if all parts received".
  `AssembledInTime` is what is left: one key, one total, and 30 s.
* `block` removes entries and leaves open connections feeding, unlisted (`feeder.rs:84`).
* A subscriber that reads nothing for 5 s is disconnected (`writer.rs:170`); `src/README.md:125` says
  "graceful degradation, not disconnect".
* A relay of several receivers has every message published under the first, whose prefix is put
  between an E3 frame and the message it announces (`client.rs:77`, `:89`).
* A position may be published as new from halves of any age: a pair is compared with itself, not
  with the present (`aircraft.rs:281`), and an identified older half is preferred (`:246`).
* Jumps within 0.1 s are not checked (`aircraft.rs:379`).
* An aircraft heard only by an unidentified receiver keeps its first position (`aircraft.rs:245`).
* The fast track of `aircraft.rs:304-311` cannot be taken: `PositionCoherent` shows the counters never
  hold a position back; the comment at `:322` says "≥2", the code has ≥ 1.
* Messages in the same read as the UUID are decoded as of receiver 0 (`ingest.rs:173`).
* The end of an old connection removes the entry of a newer one from the same port (`ingest.rs:203`).
* Junk without an escape is never trimmed from a connection's buffer and is searched again on
  every read (`beast.rs:66`).
* A relay's E3 frame and the message it announces are two frames of `feed`, and may come in two reads; a
  message of an unidentified station between them is taken for the relay's (`ingest.rs:174`).
* `aircraft.rs:136` says "update existing, never create"; the code creates an entry for a reply with an
  altitude or a squawk, so that a damaged reply makes an aircraft that does not exist.
* Every squitter sets `on_ground` from a flag that only surface positions clear (`mode_s.rs:183`): an
  identification or velocity puts an aircraft on the ground back into the air (`aircraft.rs:164`).
* Surface positions are decoded with the airborne formula (`aircraft.rs:292`).
* Operational status takes NIC and NACp from the same four bits (`mode_s.rs:297`), after which the NIC of the
  positions is overwritten.
* Demodulated messages reach the store but none of the beast, reduce and SBS outputs (`ingest.rs:249`).
* The reduce output has no E3 prefix, and includes frames of feeders over their rate limit (`ingest.rs:224`).
* Any body that parses as JSON is learned as a route: an error message is a route without
  airports, saved and never asked for again (`enrichment.rs:103`). Without a `Content-Length` it may
  be cut short as well.
* A route stays with an aircraft when its callsign changes (`aircraft.rs:176`).
* A part number above the total panics and ends the thread of its source for good (`decode.rs:283`);
  checksums of sentences are not verified (`ais/mod.rs:124`).
* A report of three parts can be lost although each of its parts is received: a part that was accepted
  within 30 s but has been dropped with an older entry is not accepted again (`dedup.rs:30`, `decode.rs:252`).
* An entry of the assembler has the time of its first part; later ones do not renew it (`decode.rs:252`, `:284`), and a part of another
  total throws it away.
* The same report under another talker's tag or sequence id is passed on again within the 30 s (`mod.rs:131-134`, `dedup.rs:28`):
  what is not repeated (`NoEarlyRepeat`) is the sentence, as the documents say.
* Type 27 positions are multiplied by 600 where 1/10 minute is 1000/10000 (`decode.rs:229`), so its "not available"
  is not recognised; they appear at six tenths of their coordinates.
* Altitudes above 32767 ft wrap in the atlas frames (`wire.rs:23`); a reader has to know.
* A saved file is overwritten in place and an error is ignored: a failed write leaves the old file, or a torn one, until the next
  interval, and nobody is told (`enrichment.rs:143-149`, `receiver_map.rs:63-69`). A file that cannot be read at the start counts as
  empty, and the next save overwrites it (`enrichment.rs:136-141`). `LearnedSurvives` excepts both.

## 4. Proofs

All theorems hold for every value of the constants that satisfies the module's `ASSUME`s, and where stated an
assumption of the theorem. Every inductive invariant was first an invariant of the module's runs, except `Contained`
of `BeastFramerProofs`: it quantifies over all streams, which TLC cannot enumerate.

* `OutputWriterProofs`: `TypeCorrect`, `QueueBound`, `HalfDropped`, `RemovalJustified`, `PromiseKept`,
  `FramesWhole`. Inductive invariant
  `WriterInv`: types; a free slot is as new; the queue bound; a skip of a chunk that fitted leaves the
  toggle set (so the next is not skipped); and *a full socket has been full at least since the last
  successful write*, which is what makes the 5 s of `last_send` blame only peers that read nothing. The queue
  bound is inductive only with the fact that "insufficient" implies "dropping" in the same flush (`OfferLemma`).
  `PromiseKept` is the refinement: a flush is a broadcast (`FlushBroadcasts`, from what one offer and one
  write leave in a queue, `OfferedOutcome`), an append that does not flush collects, the clock and the peers
  stutter (`QueuesUntouched`). `FramesInv` adds to `FramesStayWhole` that `buf` is a sequence of whole frames from
  the first byte of one on: what is offered may follow anything that ends with a frame, or nothing.
* `FanOutProofs`: `IdentityStable`, `VerdictExact`, `AttributionPublished`, `IdentifiedPublished`, `StreamAttributed`,
  `FanOutDrivesWriter`, `FanOutKeepsPromise`.
  - `ClientInv` says of each connection that it is locked to its sender or, on a relay, to a receiver behind it, and that its
    prefix is the id of its lock; the first two theorems are properties of a step from there.
  - `AttributionInv` says which of five things is under way between `feed` and the outputs (nothing; an E3 frame of a relay; a prefix
    that is still to come, or has just been appended to the output to which the message goes as well; a message without
    prefix) and that nothing else is.
    Without it a message could be published under a prefix that the other output has got.
  - `StreamInv` joins it to the writer: what a subscriber without losses has read last, its queue and
    `buf` are *one* stream, every frame of which may follow the one before, and which ends with what was published last. A flush,
    a partial write and a new frame each leave that stream as it is or extend it at its end.
  - `IdentifiedPublished` assumes `--net-receiver-id` and that no two connections carry the same lone receiver: a
    feeder that connects twice may send a message before its UUID on the second connection.
  - `FanOutDrivesWriter` says that every behaviour of the composition is one of `OutputWriter`, so that the writer's theorems
    hold in it; `FanOutKeepsPromise` draws the refinement, the queue bound and the whole frames from it.
* `FeederRegistryProofs`: `NoGhostFeeders`. `RegistryInv` adds to `ListedIsConnected` the shape of the two tables,
  that a closed token is blank and that the peer between the two calls of accept is a peer.
  One lemma per kind of step; the steps that touch neither table share `QuietStep`.
* `AircraftStoreProofs`: `PositionsCohere`, `SpeedIsChecked`, `ConfirmedTeaches`, `PublishedIsInRange`. `Inv` has the types of the halves and fixes and
  `PositionCoherent`; the lemmas follow the code: what a decode may return, what `FromHalf` and
  `FromPair` do with it, what one message changes. `SpeedIsChecked` follows from `Inv` on the
  step: once reference and published position are one place, the check against the one is a check against the other.
  The two about coverage need that an extent is ordered (`Ordered`), and a lemma that the code's check, which compares a distance to the middle
  with half the width, is the range of the property.
* `AisReaderProofs`: `TypeCorrect`, `PartsInTime`, `RepeatsWait`, `HalvesMeet`, `VesselStays`. Reports may share their keys
  in any way.
  - `FragsInv`: an entry of the assembler is empty, stale, or its parts are sentences of its key and total, in their places,
    and each was accepted when the entry had begun: its age in the cache is the entry's at most. What is complete is then of
    one key and in time; that it is of one report is not so (section 3).
  - `SentInv`, for `RepeatsWait`: a sentence has been in the cache no longer than it has brought nothing about, and one that
    waits in an entry has not brought a frame about within the time of the cache.
  - `HalfInv`, for `HalvesMeet`: a half that is `alone` waits in the entry of its key, and the entry is as young as
    the half. It alone assumes `AssembleTtl <= DedupTtl` (both are 30 s): were the cache
    shorter, a key could seem at rest whose entry still waits.
  - `FreshInv`, for `VesselStays`: a vessel's record is at most `DedupTtl` older than the last time it was heard, and no older than
    the cache entry of a sentence of it, unless a frame of it is in the channel. The
    property alone is not inductive: it does not say why a repetition that is not passed on does no harm.
* `IngestTickProofs`: `HeardIsEmitted`, `CrashLoses`, `PairedAreNear`, `LookupsAreSparse`, without further assumptions.
  - `TickInv` bounds the round under way by the longest, and this by `MaxRound`.
  - `WaitInv`: what is pending or in a batch is there once, has no route and has not failed lately; and *a failure is at most
    a round younger than the lookup that failed*, because `tick` stamps with the `now` of its beginning.
  - `SaveInv`: what is not in a file that was last written without failing has been known for less than the save interval, the round under way
    and, before its time to be saved has come (`Late`, else `Soon`), the longest round.
  - `PairInv`: a message waits for the rest of the round in which it came and for the next one up to its drain, so a half is
    stamped at most two rounds late.
  - `LimitInv`: the limiter remembers no frame that is younger than the last emitted.
* `BeastFramerProofs`: `AnyChunks`, `EveryFrameDecodesBack`, `OnlyAStart`, `ResyncsAfterAnything`, for all bytes, types, lengths and streams.
  - `Contained`: for *every* continuation z, the frames of `stream \o z` are those in `out` followed by those of `buf \o z`.
    `ChunksDoNotMatter` alone is not inductive: it says nothing of a frame of which a part has come. A read moves bytes from z to
    `buf` and changes nothing; a turn of `next_frame` is compared with the scan of the buffer (`SkipJunk`, `SkipUnknown`,
    `TakeFrame`, `CutFrame`). `Waits` adds that what is left when the loop returns holds no frame (`NothingWaits`).
  - The framer walks over a body with an index; the reference asks which encoding is a prefix. `EncodedWalk` (what was
    encoded the walk passes) and `WalkPasses` (what it passed was encoded) meet in `EscapedFound` and `FrameEnds`.
  - `EveryFrameDecodesBack` is about the two readers, byte by byte (`EncodedIdRead`, `EncodedMessageRead`).
  - `ResyncsAfterAnything`: the scan of what came before a frame either stops ahead of its escape or is cut there
    (`ResyncScan`), because the walk steps over the escape of a frame only where half an escape is right before it (`WalkAligned`).
  - Induction over bytes without an operator as a parameter: `Least`, `Induction` and `RankInduction` are about
    sets of numbers, and come from finite sets being well-founded under inclusion; `Recursion` and `Looping` give a recursive
    function its equation when the step is a table instead of an operator.
* `InputProofs`: `FieldsOwn`, `DamageRepaired`, `NumbersMean`, `FramesOfTheStream`, `FramesDoArrive`.
  `FramesOfTheStream` carries the four theorems of the framer over to the way in. `FramesDoArrive` says which front ends' frames arrive:
  one sent as it is if no byte of it is an escape, a compact one always (`CompactSent`, an invariant of `Fed` over
  the bytes). `ProbeAssumption` allows compact frames of any length and contents.
  For the first two, the lemmas compute the checksum of a message with no, one and two errors
  (`SumOne`, `SumTwo`) from the parity of a set; with `CodeAssumption` a squitter with one error has exactly one repair and with two none,
  and with `AddressAssumption` a reply never passes for a squitter. Both theorems then hold for all aircraft, messages and places
  of the errors. `SentAssumption` lists the formats the model sends, `ProbeAssumption` says what a probe is.
  `NumbersMean` takes codes apart into quotients and remainders (`Masks`, `SplitAltitude`); for the box of a query it goes
  beyond the run, to every resolution of longitude. Meridians go from -180 to below 180 degrees: a box with `east` = 180 is
  not an arc in this sense, as its east is its west.

What the attempts showed:

* `LearnedSurvives` was stated with a bound that was one poll too small: between the tick that begins just
  too early to save and the one that saves lies a round. The proof of `SaveInv` did not go through, and TLC then
  showed the loss. `LossBound` has both rounds now.
* `ResyncsAtNextFrame` was stated for escaped frames only. The proof showed that the raw ones are found again as well, and that
  of what precedes a frame only two things matter: that it does not end in half an escape, and that no raw type follows an escape in it.
* `OnlyAStartIsKept` compares what is kept with the start of *some* frame, so there must be a type (`Types # {}`).
* A margin of growth of zero would let a coverage never grow; `StoreAssumption` says it is positive, as the constant of the code is.

Only model-checked:

* All liveness (`StuckPeerRemoved`, the three of the registry, both of `CacheLocks`, `SilentVesselLeaves`, `RequestsAreMet`):
  it rests on fairness, which the prover cannot reason about with `ENABLED`.

Every other property of a passing run is a theorem.

## 5. Not modelled

* The SDR front end but for the frames it writes: floating-point signal processing and a driver. The HDLC
  deframing of `ais_demod.rs` is not called from anywhere.
* The layout of JSON, binCraft, SBS and atlas outputs, and of AIS reports in bits and bytes; tracks, headings and
  speeds that are computed in floating point; the characters of a callsign.
* The arithmetic of CPR and of the distance on the sphere: a decoder returns the right place for halves that
  belong together and any place otherwise.
* The reduce, SBS and atlas outputs as further writers: they are the same code as the beast output, which `OutputWriter` models.
* The growth of the reduce output's map of last emissions, which gets an entry per address and loses none (`reduce.rs:10`).
* A wall clock that is set back; `SystemTime` is used for `seen_pos` (`aircraft.rs:217`) and for vessels.
* Counters, logging, texts; the location of a feeder; HTTP parsing and routing; options.

## 6. Plan

Done: writer with its abstract specification, connection state, fan-out with a relay, registry, aircraft
positions, locks, the way in, the timer block with crashes, AIS; the proofs of section 4.

What is left: type correctness of `FeederRegistry` as a theorem; that the guards and writers of `CacheLocks` exclude each other, which is the
lock's own promise there; and what the compact framer does after a byte is lost.

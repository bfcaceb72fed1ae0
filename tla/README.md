# Specifications of rtcmbridge

TLA+ specifications of the four programs of rtcmbridge and of the library code
they share, with the TLC configurations that check them and the TLAPS proofs
about them. Paths below are relative to the repository.

## The system

rtcmbridge moves RTCM correction streams between NTRIP casters and NATS.

| Component | Source | State it keeps | Operations |
|---|---|---|---|
| `nats2ntrip` session | `src/nats2ntrip.cpp` 350-544 | `queue_`, `queued_bytes_`, `total_`, `dropped_bytes_`, `stop_`, `reconnect_delay_`, subscription, worker thread | `start`, `stop`, `on_nats_msg`/`enqueue`, `run`, `connect_and_stream`, `trim_queue_locked`, `clear_queue_locked` |
| `ntripConnection` as a source | `src/ntrip.cpp` 295-356 | blocking socket, answer buffer | `connect_source`, `send_source_request`, `read_source_response`, `write_source` |
| `ntripConnection`, consuming | `src/ntrip.cpp` 143-293 | resolver, socket, timer, `buffer_`, `response_buffer_`, `delay_` | `connect`, `send_request`, `read`, `handle_stream_bytes`, `reconnect` and their completion handlers |
| `nats2ntrip` main | `src/nats2ntrip.cpp` 337-345, 547-673 | NATS objects, connections and sessions in locals; `g_stop` | start-up, `handle_signal`, the wait, the destructors |
| `ntrip2nats` session and main | `src/ntrip2nats.cpp` 310-472 | byte counters; one io_context for all connections | start-up; `handle_stream` publishes what a connection consumes |
| `rtcm_decoder_nats` main | `src/rtcm_decoder_nats.cpp` 799-919 | options, connection, subscription, `g_running`, the framer | acquisition and release by hand, `on_nats_msg`, the last line |
| Logger | `src/logger.cpp` | queue, mutex, condition variable, `stop_`, writer thread | `info`/`warn`/`error` (queued), `*_sync` (direct), destructor |
| NTRIP decoder client | `src/rtcm_decoder_ntrip.cpp` 810-1059 | the same life cycle as `ntripConnection`, written separately | `connect`, `send_request`, `read_loop`, `on_bytes`, `reconnect` |
| RTCM framer | `src/rtcm_decoder_ntrip.cpp` 744-808, identical in `src/rtcm_decoder_nats.cpp` 731-797 | `buf_`, two counters | `push` |
| RTCM message decoding | both decoders, 78-742 | a bit cursor per payload | `BitReader`, `decode` and one parser per kind of message |
| CRC-24Q, Base64 | `src/rtcm_decoder_ntrip.cpp` 42-79 | none | `crc24q`, `base64_encode` |
| Configuration parsers | `src/ntrip2nats.cpp` 36-259, `src/nats2ntrip.cpp` 34-293 | current section, configuration | `parse_configuration` and one parser per kind of line |

How they interact:

* In `nats2ntrip` a NATS delivery thread, one worker per session and the main
  thread share a session through `mtx_` and `cv_`; `stop_` is also read without
  the mutex. A signal handler sets a process-wide flag that the workers read.
* In `ntrip2nats` every connection runs on one single-threaded `io_context`; a
  connection calls its consumption handler, which publishes to NATS.
* In `rtcm_decoder_ntrip` the client feeds the framer on the loop's thread, in
  `rtcm_decoder_nats` the NATS thread does; main only polls a flag.
* Every thread logs through one Logger, whose destructor runs last.

What is hard about it: lost wake-ups (two condition variables, one notified
without its mutex), data races on a flag, a bounded queue with three kinds of
removal, stale data across reconnections, completion handlers that find the
object in a later state, timers replaced while they run, answers and frames cut
at any byte, and integers that wrap. `PROJECT.json` lists each at its line.

What makes each component correct:

* **Session** - bytes are conserved, in order, fresh, and written to a good
  connection only; the queue is bounded and its counter exact; no wake-up is
  lost; shutdown ends. In short, it implements a lossy FIFO channel.
* **Connections** - they never go quiet, wait between attempts, run one chain of
  operations and pass on payload only, whole and in order.
* **Logger** - every entry once, in order, also those just before the end.
* **Main programs** - nothing outlives what it points to, on any way out;
  everything acquired is given back, once; start-up is all or nothing; a signal
  ends the program, if what it waits for ends.
* **The way through NATS** - each source's bytes reach a decoder in order, once
  and in the pieces they were published in, or not at all.
* **Message decoder** - it reads within the payload, rejects exactly what is cut
  off, and reports every cell with its own satellite and signal.
* **Framer** - exactly the frames of the stream, however it is cut; exact
  counters; it terminates.
* **Parsers** - what is accepted is what the file says, and is usable.

## The modules

| Module | Stands for |
|---|---|
| `LossyFifo` | the abstract channel a session implements |
| `StreamSession` | a `nats2ntrip` session with its three threads and the source side of `ntripConnection` |
| `StreamSessionProofs` | theorems about it |
| `SessionLife` | the abstract life of a session: started, perhaps half, and stopped |
| `BridgeMain` | main of `nats2ntrip`, over sessions that keep to `SessionLife` |
| `BridgeMainProofs` | theorems about it |
| `Ntrip2Nats` | main of `ntrip2nats` and its session's handler |
| `NatsDecoder` | `rtcm_decoder_nats`: main, the signal and the delivery thread |
| `Pipeline` | `Ntrip2Nats`, NATS and `NatsDecoder` together |
| `PipelineProofs` | theorems about the three |
| `Logger` | the logger with its threads |
| `LoggerProofs` | theorems about it |
| `AsioLoop` | external: asynchronous operations of one object on a single-threaded loop, and a caster |
| `NtripConnection` | the consuming side of `ntripConnection`, on `AsioLoop` |
| `NtripConnectionProofs` | theorems about it |
| `DecoderClient` | `NtripDecoderClient`, on `AsioLoop` |
| `DecoderClientProofs` | theorems about it |
| `Base64` | `base64_encode`, a pure algorithm |
| `RtcmFramer` | `RtcmStreamFramer::push` |
| `RtcmFramerProofs` | theorems about it |
| `Crc24q` | `crc24q`, a pure algorithm |
| `RtcmMessage` | `BitReader` and `RtcmMessageDecoder` |
| `RtcmMessageProofs` | theorems about it |
| `ConfigParser` | `parse_configuration` of `ntrip2nats` and of `nats2ntrip` |
| `MC*` | the constants of the runs, and the properties that need them |

### StreamSession

Variables have the code's names; `owner`, `delivery` and `worker` say where the
main, NATS delivery and worker threads are. A locked section is one action,
unless it loops: then every iteration is one, with `mtx_` held. Notifying is an
action of its own, since the code notifies after unlocking. `cv_.wait` is
`WaitLocked` (predicate under the mutex: block, leave or pop) and the
notifications that take the worker from "waiting" back to it; `SpuriousWakeup`
does the same. The network calls of the worker succeed or throw.

A payload is the interval of accepted bytes it covers. The code has only its
size; the offset makes order, staleness and loss visible. `accepted`, `sent`,
`written`, `lost` and `failedAt` are history and guard nothing.

`stop_` is a plain bool that `run()` and `connect_and_stream()` also read
without the mutex. The outcomes a build can produce are modelled by
`UnlockedStopping`: such a read may miss a write until the worker has locked
`mtx_` after it, and never sees it early.

A callback that is still running when the session has been destroyed touches
freed memory; the model ends there. Allocation failures are left out.

`LifeSpec` is the abstract life of a session as its owner sees it: phase,
subscription, worker. `StreamSession` implements it, and `BridgeMain` relies on
nothing else.

### BridgeMain

One action per statement of `main` that can fail or that another thread can
tell apart, one per destructor on the way out. A session is one record of
`SessionLife` per mountpoint, and its worker and destructor take steps of that
relation. `handle_signal` sets the flag and notifies in two steps, on whatever
thread; the test of the predicate and the blocking are two steps as well, so
that a notification may fall between them. `missed` records that one did.

Main ends with the Logger's destructor, which joins its writer. Of that, the
life of the logger (`Loggers`) says what `Logger` shows: the writer hears of the
end, writes what is queued and is joined (`WriterEnds`, `JoinLogger`), or it
misses the notification and sleeps (`DropLogger`), unless it wakes up by itself
(`WriterWakes`).

### Ntrip2Nats, NatsDecoder, Pipeline

`ntrip2nats` has one thread, so a call of its handler is one step. What a source
hands over is the stream that `NtripConnection` was shown to deliver, cut
anyhow. The decoder's main and its delivery thread interleave; a push counts its
frames one by one, and main reads one counter, then the other. Every `natsX_Destroy`
is a step of its own, on the failure paths too: `todo` is the list of calls that
the code writes out there, and `wrong` records what was destroyed although it did
not exist (any more). `Pipeline` joins
both by two queues: what was published, and what waits for the subscription.
`Route` is NATS, and may lose any message, but keeps the order of a publisher.
`FifoSpec` maps the composition to `LossyFifo` once more, for one source
(`Watched`): accepted is what its connection handed over, delivered is what the
framer was fed. With `RtcmFramer`, which is checked on streams with holes, this
gives the chain from the caster to the decoded frame.

### Logger

`stop()` sets `stop_` and notifies without the mutex, so `cv_.wait` is cut
finer than in `StreamSession`: the predicate is evaluated (`Eval`), and the
worker blocks in a later step (`Sleep`). That gap is where the destructor's
notification can be missed: the destructor then joins a thread that nobody
wakes. `missed` records that this happened, and `HangsOnlyIfMissed` and
`DestructorReturns` say that nothing else makes the destructor hang. The gap is
real but a few instructions wide; a lock around the assignment would close it.

### AsioLoop, NtripConnection, DecoderClient

The object's state is one record `s`, and a member function is an operator from
states to states, so that nested calls (a handler calls `handle_stream_bytes`,
which calls `reconnect`, and `read` follows) compose as they do in the code.
`RunHandler` is `io.run()` with one ready handler. An operation is pending until
the network or the clock completes it; cancelling completes it with "aborted",
but cannot take back a handler that is already queued. Both clients only ever
connect to one endpoint of the list in the model.

A byte is its connection and its position; the first `HeaderLen` bytes of a
connection are the caster's answer. An answer is accepted or not; its text is
left out. Failures of the library's encoder (OpenSSL) only add one more caller
of `reconnect()`. The decoder's own encoder is the pure function of `Base64`:
its `val` is an int that is never masked, so it is modelled by its last four
bytes, and compared with RFC 4648 (`EncodedRight`, in the same module).

`slept` is auxiliary: the latest timer has expired.

### RtcmFramer

`push()` is a loop over `buf_`; every turn is one action. The stream is chosen
at the start and is cut into calls of `push` in every way. The properties are
about the stream, so that the cuts must not show. The checksum is a parameter:
the proofs about the stream hold for any. The run uses `Crc24q`, which is the code
bit by bit on the set of the weights that are one in the register, and compares it
with its definition: the sum of the powers of x that the bits of the message stand
for, modulo the generator (`Remainder`, in the same module).

### RtcmMessage

A message is a sequence of stages: fields of given widths, texts and lists whose
length was read before. A field is known by the position it was read at; only
counts, masks and the markers of missing values have a value. The three loops of
`decode_msm` have a step per iteration. The properties do not follow the cursor:
they say by closed formulas where the fields of a message lie. These formulas
describe the layout the code reads (satellite by satellite, cell by cell); the
repository names no other.

### The parsers

The two programs have the same parser with other sections and other kinds of
entries; `program` says whose it is. A line is what the parsers tell apart after
trimming, with `std::stoi` already applied to its number. A file is built as it
is read: every step reads one more line, and the file may end anywhere. The
properties compare an accepted configuration with the file as a whole. The
multiplication by 1024U is 32 bits wide, in units of 1024 bytes.

## The runs

| Run | Shows |
|---|---|
| `stream_session` | the safety of a session, that it implements `LossyFifo`, that shutdown ends and that the queue drains |
| `bridge_main` | nothing dangles or is left behind on any way out of main; start-up is all or nothing; if its workers end when told to, a signal ends it, but for two lost notifications |
| `pipeline` | the way of a source's bytes to the framer is a lossy FIFO channel; start-up of the bridge; last line and end of the decoder, which destroys what it created, all of it and once, on every way out |
| `logger` | exactly once, in order, flushed before the end; the destructor hangs in one schedule only |
| `ntrip_connection` | the connection never goes quiet and tries again; unless the loop is late, one chain of operations, a clean stream, delays between attempts |
| `decoder_client` | the decoder's client never goes quiet, tries again, and feeds clean payload until a caster rejects it; credentials are encoded as RFC 4648 has it |
| `decoder_client_backoff` | **violation**: a replaced timer connects at once |
| `rtcm_framer` | the frames of the stream are decoded, whatever the cuts; the counters are exact; `push` returns; the checksum is the CRC and detects one or two wrong bits |
| `rtcm_message` | errors exactly for what is cut off; MSM lines as masked; the tables agree |
| `config_parser` | accepted files are what they say (thresholds of 2 GB and more excepted), and usable |
| `config_parser_readme` | **violation**: the README's example is rejected |
| `config_parser_throughput` | **violation**: large thresholds wrap |

Invariants that belong together are checked as one, a conjunction of named parts:
`Inv` (the type invariant and what is said of every state), `QueueSound`,
`StreamSound`, `Lifetimes`, `FramesExact`, `ReportExact`.

### Bounds

* `StreamSession`: four accepted bytes in messages of 1 or 3 bytes (empty ones
  are ignored), a queue of 2. One message exceeds the limit by itself, and several
  together do; two fit, so that one can be written, one in hand and two queued.
  Reconnections are not bounded; the delay goes through all its values (1, 2, 3).
* `Logger`: two producers and five entries; a third producer adds no new step,
  since producers only meet at the mutex.
* `NtripConnection`, `DecoderClient`: an answer of two bytes, reads of up to
  three (two) bytes, so that an answer is split, complete or shares a read with
  payload; four (three) attempts, so that something survives a connection and
  meets a later one. `MaxAttempts` stops the clock, not the handlers.
  `Loops` are the kinds of event loop. On a prompt one, timers (of a second or
  more) wait for queued handlers. On a late one, which `NtripConnection` has as
  well, they do not: a timer may expire and be replaced before its handler runs,
  and two chains of operations then share the buffer. `OneChain`, `CleanStream`
  and `AttemptsWait` are claimed for a prompt loop only.
* `RtcmFramer`: streams of up to three pieces out of seven: the shortest frame, a
  frame with a preamble as payload, a rejected candidate with a frame inside,
  noise, candidates that claim more than follows, a lone preamble. The limit of
  the buffer is the smallest that the assumption allows.
* `RtcmMessage`: every type from 1000 to 1240 with an empty body; every parser's
  message cut off at every byte; texts and lists of 0 to 3 elements; MSMs of all
  levels and systems with up to two satellites and three signals, at both ends of
  the masks, with every combination of missing values.
* `BridgeMain`: three mountpoints (a first, a middle and a last one), two signals.
* `Pipeline`: two sources of one subject and one of another, two bytes each in
  chunks of one or two, so that chunks of a source can be reordered or repeated;
  one counted frame, good or bad, which may fall before, between or after main's
  two reads.
* Credentials of up to five characters: the int of the encoder overflows at the
  fifth, and every remainder modulo three occurs.
* `ConfigParser`: files of up to seven lines, out of 18 different ones. The
  shortest file that `nats2ntrip` accepts has six, so one can repeat, be
  out of place or be wrong.

### Fairness

* Threads that can take a local step take it (weak fairness of each thread). The
  main thread of a running session owes nothing: nobody has to stop it.
* Network calls owe nothing. The liveness of a session is claimed under
  `NetworkReturns`, since the code sets no timeouts.
* `wait_for` has an absolute deadline that spurious wake-ups cannot postpone:
  strong fairness of `BackoffTimeout`.
* `BridgeMain`: main goes on unless it waits for another thread, a signal handler
  that was entered returns, and the Logger's writer, once it knows of the end,
  writes what is queued. Signals owe nothing, and neither do the workers of the
  sessions: the network calls have no timeouts, so a worker may never end, and
  main, which joins it, with it. `Ends` therefore has a premise, `WorkersEnd`,
  which `StreamSession` reduces to `NetworkReturns`. It excepts two states in
  which main waits for a notification that was given and lost (`SignalLost`,
  `EndLost`); without the premise, or without either exception, TLC finds it
  violated.
* `Pipeline`: the decoder's main goes on, which includes that the calls of the
  NATS library return; nothing is assumed of NATS or of the bridge.
* The event loop runs ready handlers and timers expire (weak fairness); nothing
  is assumed of the network: `TriesAgain` speaks of a closed connection, which
  depends on the timer alone.

### Where the code and its documents differ

* `src/rtcm_decoder_ntrip.cpp` 976 announces an exponential back-off. The wait on
  a replaced timer is aborted, and its handler connects whatever its result
  (987-990). A caster that rejects the request is tried again at once.
* `README.md` 43 shows `connection_header=keep-alive`, which the parser rejects.
* `throughput_log_kb=<positive integer>` (`src/ntrip2nats.cpp` 377) wraps from
  2097152 on (124); the threshold can become negative, and is then compared as a
  huge unsigned number, or zero, and then every chunk is logged. `Ntrip2Nats` is
  about positive thresholds.

## The proofs

Every theorem is proved from the assumptions on the constants that its modules
state, for all values of the constants. They say little: sizes, limits and delays
are numbers of the right sign, `Loops` is a set of kinds of loops, `Mountpoints`
is not 0 (which `SomethingToBridge` shows of every configuration that is
accepted), a frame is not longer than the framer's limit. Nothing is assumed of
the lines of a configuration file, of the characters that are encoded but that
they are bytes, and of a payload but that it consists of bytes.

| Module | Theorems about properties of the runs |
|---|---|
| `StreamSessionProofs` | `TypeOK`, `QueueSound`, `StreamSound`, `NoLostWakeup`, `BackoffNeverShrinks`; `FifoSpec`, `LifeSpec` (refinements) |
| `BridgeMainProofs` | `Inv`, `Lifetimes`; of `ConfigParser`: `AsWritten`, `AcceptedIsUsable`, also `SomethingToBridge` |
| `LoggerProofs` | `Inv`, `ExactlyOnceInOrder`, `FlushedBeforeExit` |
| `PipelineProofs` | `Inv`, `CleanExit`, `ReportWithinBounds`; `FifoSpec` (refinement) |
| `NtripConnectionProofs` | `Inv`, `CleanStream`, `AttemptsWait` |
| `DecoderClientProofs` | `Inv`, `CleanUntilRejected`; `CredentialsEncoded`, from `EncodingCorrect` of `Base64` |
| `RtcmFramerProofs` | `TypeOK`, `FramesExact`, `CountersExact`; also `LimitNeverReached`; of `Crc24q`: `ChecksumCorrect`, `BurstNoticed`, `DamageNoticed` |
| `RtcmMessageProofs` | `TypeOK`, `ErrorIffTruncated`, `NamedIffParsed`, `ReportExact` |

Each module defines an inductive invariant `IndInv` and proves
`Inductive == Spec => []IndInv`, from which the other theorems follow.

**StreamSessionProofs.** The invariant `IndInv` is the conjunction of `TypeOK`,
the properties of the run and what they need to be inductive: `mtx_` is held by
the thread whose position says so; the size the delivery thread handles is that
of a message; the worker holds a payload exactly while it writes; the connection
is as good as the worker's position claims; the limit holds unless the delivery
thread is trimming; queued payloads are later than the last failure once the
queue was cleared (a payload in hand is later than it too); and what was written,
what is in hand and what is queued are in the order of arrival. There is one
lemma per part, with one step per action. `Inductive` combines them, the other
theorems follow, one per property of the run. `ImplementsFifo` maps
`EnqueueLock` to `Accept`, `Wrote` to `Deliver`, and every other action to a
stutter; the order of the invariant is what makes `Deliver` possible.
`ImplementsLife` shows that a session takes no step that `SessionLife` does not
have; `BridgeMain` is built on that specification alone, so that this theorem and
those of `BridgeMainProofs` together speak of the real sessions.

**BridgeMainProofs.** The properties speak of the moments when something is
destroyed. The invariant says for every position of main what exists there
(`ResourceInv`, `SessionInv`), what the phase of a session's life allows
(`LifeOK`), that the iterations which are over have started their sessions
(`StartInv`), and that a signal main will not hear of was notified before main
blocked (`WaitInv`).

The module also holds the theorems about `ConfigParser`, the first thing main
does. `ParserInv` says that the current section is that of the latest section
line of the file (`CurrentName`), that the size of the
read buffer and the two delays have the value of their last line in an options
section (`OptionOK`), as has the progress threshold if its bytes fit an int
(`ThroughputOK`), and that every list consists of the
entries of its sections in the order of the file (`ListOK`); all of it holds
until a line is rejected, and the file is accepted only after the last tests of
the parser. The lemmas show what one more line does to the lines of a section,
to the last of them and to their order. `SomethingToBridge` links the parser to
`BridgeMain`: the list of mountpoints that main builds its sessions from is not
empty, which `BridgeMain` assumes.

**LoggerProofs.** What was written, what is in hand and what is queued are
numbered through (`NumberInv`); the worker falls asleep on an empty queue only,
and an entry pushed since then comes from a thread that has yet to notify
(`SleepInv`); it leaves only after the destructor began and with nothing left
(`StopInv`).

**PipelineProofs.** The chunks between the bridge and the framer are in the
order in which their source handed them over: what is in transit, after it what
the decoder's queue holds and what the framer was fed (`OrderInv`). The bridge's
and the decoder's variables have an invariant of their own; that of the decoder
says what exists at every place of its main, and on a failure path that this is
exactly what is still to be destroyed (`HeldInv`, `FailInv`). `ImplementsFifo`
follows the chunks of one source among those of others (`Own`); that `Own` of an
extended queue is `Own` extended is proved by the least counterexample, since
the induction theorems of the library cannot be used.

**NtripConnectionProofs, DecoderClientProofs.** A client always has an operation
under way or a handler to run. On a prompt loop the operations of
`NtripConnection` form a chain: there is one under way, or one that has completed
and whose handler waits, besides operations that were aborted, whose handlers do
nothing; after a rejected answer there may also be a failed read besides the
timer (`Waiting`, `Completed`, `Rejected`). Every link carries what the next
handler relies on (`Before`, `After`): that nothing was read of a connection
whose request is being sent, that an unfinished answer is the first bytes of the
latest connection, that what was passed on of it ends where the next read begins.
The lemmas show what each member function does to an object, then that each
handler turns a link into the next one, then the same for the network and the
clock. In `DecoderClient` the chain needs no prompt loop: as long as no request
was rejected there is never anything to cancel, so a late timer has no other
operation to meet, and `CleanUntilRejected` holds of both kinds of loops. The two
clients are separate programs with the same life cycle, and their proofs follow
each other in the same way.

For `EncodingCorrect` the loop of `base64_encode` has an invariant: after k
characters as many groups were emitted as 8k bits have, each that of RFC 4648,
and the bits that are left are the low ones of the last character, which is why
it does not matter that `val` overflows. Such a loop is a recursive function in
`Base64`; that it exists, and that the invariant holds of all its values, is
proved by the least counterexample.

**RtcmFramerProofs.** `IndInv` says that `buf_` is the piece of the stream from
`base` to `got`, that everything decoded so far is a frame of the stream and ends
before the cursor, and that every frame before the cursor lies in a decoded one.
The lemmas show that a candidate looks the same in `buf_` and in the stream
(pieces of pieces of sequences), that its length is between 6 and 1029, and then,
per action, that the relation is kept. It follows that the limit of the buffer is
never reached (`LimitNeverReached`), so that its second erasure is never executed.
For the counters, the rejected candidates up to the cursor grow by one exactly
when the cursor leaves one.

The checksum has theorems of its own. A register of 24 bits is a polynomial over
GF(2), written as the set of its exponents; a turn of the inner loop multiplies it
by x modulo the generator, and this is linear (`ShiftLinear`). A byte is mixed
into the register at once, but its later bits only move up while they wait
(`Pending`), as if each were mixed in at its own turn. Each bit therefore
goes its own `Course` through the turns that follow, and comes to the power of x
that it is worth in the remainder. `Follows` says this of the register after k
turns, and `NextBit` that it stays true; after the last turn it is
`ChecksumCorrect`. The three bytes of the checksum have the bits of the register
(`BitsOfByte`), so that the sum over a message with its checksum is zero
(`CodewordSum`). `BurstNoticed` follows the difference of two such sums: where the
wrong bits are over, it is not zero and has degree below 24, and a turn takes
nothing but zero to zero, so that the sums cannot both be zero at the end.
`DamageNoticed` is the same for a frame in a stream that still claims the length
that was sent: `push()` rejects it.

**RtcmMessageProofs.** `ErrorIffTruncated` compares a run of the parser with a
definition that looks at the payload alone, so the invariant says where the
cursor is by the payload alone. `Place` gives the end of every stage of every
parser, through the lengths of the texts before it; `Charted` is the lemma, one
per type of message, that each place is the one before it and what the stage
takes, and that what the stages need is `Whole`. `AtStage` says that the cursor is at its
place or, since a text may be cut short and only its whole bytes are taken, so
near the end that no field of a byte or more fits (`Behind`): either way the next
field is there exactly if its place lies in the payload. In the list of 1013
the cursor and what is left of the list add up to the same place (`InList`). In
the loops of an MSM the cursor is at `169 + i`, then `i` satellites after
`SatsAt`, then as many cells after `CellsAt` as the mask has before `i`
(`Loops`). The value of a field and the width of a list of fields are recursive
functions; that they exist and are numbers is proved by the least counterexample.
`NamesCorrect` goes through the types one by one.

For `ReportExact` the invariant `Collected` says what the three loops of
`decode_msm` have put together: `sats` holds for its k-th element the k-th
satellite of the mask and the positions of its fields, `cells` holds one element
for each of the first i bits of the cell mask that is one, with the indexes of
its satellite and signal and the positions of its fields. The lemmas about masks
show that the order in which the loops go through the bits is the order of the
ranks (`Rank`), so that the indexes the last loop uses find the right satellite
and signal, and that the markers of missing values are the bits they are compared
with (`Binary`).

Only model-checked:

* liveness, which is outside this prover's reach;
* that the framer takes no frame for good in which any two bits are wrong, however
  far apart (the second half of `CrcIsRemainder`). For two bits far apart it takes
  the order of x modulo the generator, which has to be computed. `ChecksumCorrect`
  is the first half, for every message, and `BurstNoticed` is what is proved of
  damage: wrong bits within 24 successive ones, in messages of any length or in
  their checksums. Damage to the length is left to the run.

## Not modelled

* What a NATS callback does to a session, a decoder context or a logger that has
  been destroyed: it is undefined, and when the threads of the NATS library end
  is not said in the repository.
* Formatting, scaling and the text of requests, chunks and logs; Base64 and TLS
  of OpenSSL; the NATS callbacks that only log.
* Integer overflow of back-offs of more than 2^21 seconds, and the growth of an
  answer that never ends: the code states no limits to check against.
* Chunked bodies in a caster's answer: what follows the header is opaque.
* Builds, containers, scripts.

## What could follow

Every invariant and action property of the runs is a theorem, but for the second
half of `CrcIsRemainder`. One theorem would say more than the runs ask: that the
refinements compose, so that one channel leads from a caster to a decoded frame.

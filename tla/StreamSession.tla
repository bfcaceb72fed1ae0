---------------------------- MODULE StreamSession ----------------------------
(***************************************************************************)
(* One StreamSession of nats2ntrip: the NATS delivery thread pushes the    *)
(* payloads of one subject into a bounded queue, a worker thread opens an  *)
(* NTRIP source connection and writes them as chunks, and the main thread  *)
(* starts and destroys the session.  The three meet at mtx_ and cv_.       *)
(*                                                                         *)
(* A locked section that loops (trim_queue_locked, clear_queue_locked) is  *)
(* one step per iteration with mtx_ held; every other locked section is    *)
(* one step.  A payload is the interval [off, off + size) of the bytes     *)
(* this session accepted; off is auxiliary, the code has only the size.    *)
(*                                                                         *)
(* stop_ is a plain bool that run() and connect_and_stream() also read     *)
(* without mtx_.  Such a read may still return FALSE until the worker has  *)
(* locked mtx_ after the write (stopSeen), and never returns TRUE early.   *)
(***************************************************************************)
EXTENDS Integers, Sequences

CONSTANTS
    Sizes,              \* sizes of the messages NATS delivers; 0 may occur
    MaxQueueBytes,      \* max_queue_bytes(), fixed by the options
    MinDelay, MaxDelay, \* reconnect_min_sec, reconnect_max_sec
    MaxTotal            \* bound of the model: bytes accepted in a behaviour

\* The configuration parser only lets 0 < reconnect_min_sec <= reconnect_max_sec
\* through, and max_queue_bytes() is at least 256 KiB.
ASSUME ParameterAssumption ==
    /\ Sizes \subseteq Nat
    /\ MaxQueueBytes \in Nat \ {0}
    /\ MinDelay \in Nat \ {0}
    /\ MaxDelay \in Nat
    /\ MinDelay <= MaxDelay
    /\ MaxTotal \in Nat

VARIABLES
    mtx_,               \* who holds mtx_
    queue_,
    queued_bytes_,
    total_,
    dropped_bytes_,
    reconnect_delay_,
    stop_,
    g_stop,             \* the process-wide flag the signal handler sets
    subscription_,      \* "none", "live" or "closed"
    owner,              \* where the main thread is in start() and stop()
    delivery,           \* where the NATS delivery thread is in on_nats_msg()
    msg,                \* size of the message delivery is handling
    worker,             \* where the worker thread is in run()
    payload,            \* the payload the worker popped and is writing
    cleared,            \* cleared_bytes of clear_queue_locked()
    link,               \* the worker's NTRIP source connection
    stopSeen,           \* auxiliary: the worker synchronised with stop_ = TRUE
    accepted,           \* history: every payload pushed
    sent,               \* history: the payloads written, in order
    written, lost,      \* history: bytes written, bytes of failed writes
    failedAt            \* history: total_ when the last connection failed

queueVars == <<queue_, queued_bytes_, total_, dropped_bytes_>>
flagVars  == <<stop_, g_stop, stopSeen>>
histVars  == <<accepted, sent, written, lost, failedAt>>
workerVars == <<worker, payload, cleared, link, reconnect_delay_>>
vars == <<mtx_, queueVars, flagVars, subscription_, owner, delivery, msg,
          workerVars, histVars>>

NoPayload == [off |-> 0, size |-> 0]
Payload   == [off : Nat, size : Sizes \ {0}]
End(p)    == p.off + p.size

Stopping == stop_ \/ g_stop

\* The outcomes of an unlocked test of (stop_ || g_stop).
UnlockedStopping == {Stopping} \cup (IF stopSeen THEN {} ELSE {g_stop})

\* Where the worker is inside a blocking network call without a timeout.
Network == {"source", "request", "response", "write"}

\* Faulty: notify_one() forgotten.
WorkerNeverNotified == worker

\* Faulty: the back-off sleeps on something other than cv_.
WorkerNotifiedInWait == IF worker = "waiting" THEN "lock" ELSE worker

\* What cv_.notify_one() and cv_.notify_all() do: the worker is the only waiter.
WorkerNotified == IF worker = "waiting" THEN "lock"
                  ELSE IF worker = "backoff" THEN "backoff_lock"
                  ELSE worker

Init == /\ mtx_ = "free"
        /\ queue_ = <<>> /\ queued_bytes_ = 0 /\ total_ = 0 /\ dropped_bytes_ = 0
        /\ reconnect_delay_ = MinDelay
        /\ stop_ = FALSE /\ g_stop \in BOOLEAN /\ stopSeen = FALSE
        /\ subscription_ = "none"
        /\ owner = "start"
        /\ delivery = "idle" /\ msg = 0
        /\ worker = "none" /\ payload = NoPayload /\ cleared = 0
        /\ link = "closed"
        /\ accepted = {} /\ sent = <<>> /\ written = 0 /\ lost = 0
        /\ failedAt = 0

------------------------------------------------------------------------------
(* The main thread: start(), stop() and the destructor. *)

\* start(): natsConnection_Subscribe succeeds, or throws the session away.
Subscribe ==
    /\ owner = "start"
    /\ \/ owner' = "spawn" /\ subscription_' = "live"
       \/ owner' = "failed" /\ UNCHANGED subscription_
    /\ UNCHANGED <<mtx_, queueVars, flagVars, delivery, msg, workerVars, histVars>>

\* start(): the std::thread constructor, which throws when no thread can be had.
Spawn ==
    /\ owner = "spawn"
    /\ \/ owner' = "running" /\ worker' = "loop"
       \/ owner' = "failed" /\ UNCHANGED worker
    /\ UNCHANGED <<mtx_, queueVars, flagVars, subscription_, delivery, msg,
                   payload, cleared, link, reconnect_delay_, histVars>>

\* ~StreamSession() -> stop(): stop_ = true under mtx_.  main destroys the
\* session after a signal or while it unwinds another session's failure.
StopLocked ==
    /\ owner \in {"running", "failed"}
    /\ mtx_ = "free"
    /\ stop_' = TRUE
    /\ owner' = "notify"
    /\ UNCHANGED <<mtx_, queueVars, g_stop, stopSeen, subscription_, delivery,
                   msg, workerVars, histVars>>

StopNotify ==
    /\ owner = "notify"
    /\ worker' = WorkerNotified
    /\ owner' = "unsubscribe"
    /\ UNCHANGED <<mtx_, queueVars, flagVars, subscription_, delivery, msg,
                   payload, cleared, link, reconnect_delay_, histVars>>

\* natsSubscription_Unsubscribe/_Destroy: no new callback starts afterwards,
\* one that is already running goes on.
Unsubscribe ==
    /\ owner = "unsubscribe"
    /\ subscription_' = IF subscription_ = "live" THEN "closed" ELSE subscription_
    /\ owner' = "join"
    /\ UNCHANGED <<mtx_, queueVars, flagVars, delivery, msg, workerVars, histVars>>

\* Faulty: the worker is detached instead of joined.
JoinDetaching ==
    /\ owner = "join"
    /\ owner' = "destroyed"
    /\ UNCHANGED <<mtx_, queueVars, flagVars, subscription_, delivery, msg,
                   workerVars, histVars>>

\* worker_.join(), skipped when the thread was never started.
Join ==
    /\ owner = "join"
    /\ worker \in {"none", "done"}
    /\ owner' = "destroyed"
    /\ UNCHANGED <<mtx_, queueVars, flagVars, subscription_, delivery, msg,
                   workerVars, histVars>>

\* handle_signal(): sets the flag; it notifies g_stop_cv, never this cv_.
Signal ==
    /\ ~g_stop
    /\ owner # "destroyed"
    /\ g_stop' = TRUE
    /\ UNCHANGED <<mtx_, queueVars, stop_, stopSeen, subscription_, owner,
                   delivery, msg, workerVars, histVars>>

------------------------------------------------------------------------------
(* The NATS delivery thread.  A callback that outlives the session would   *)
(* touch freed memory: what it does then is outside the model.             *)

on_nats_msg(s) ==
    /\ subscription_ = "live"
    /\ owner # "destroyed"
    /\ delivery = "idle"
    /\ total_ + s <= MaxTotal
    /\ s > 0
    /\ delivery' = "enqueue"
    /\ msg' = s
    /\ UNCHANGED <<mtx_, queueVars, flagVars, subscription_, owner, workerVars,
                   histVars>>

\* enqueue(): push and account for the payload, then trim with mtx_ held.
EnqueueLock ==
    /\ delivery = "enqueue"
    /\ owner # "destroyed"
    /\ mtx_ = "free"
    /\ mtx_' = "delivery"
    /\ LET p == [off |-> total_, size |-> msg]
       IN  /\ queue_' = Append(queue_, p)
           /\ accepted' = accepted \cup {p}
    /\ queued_bytes_' = queued_bytes_ + msg
    /\ total_' = total_ + msg
    /\ delivery' = "trim"
    /\ UNCHANGED <<dropped_bytes_, flagVars, subscription_, owner, msg,
                   workerVars, sent, written, lost, failedAt>>

\* Faulty: the newest payload is always kept.
OverLimitKeepingNewest == queued_bytes_ > MaxQueueBytes /\ Len(queue_) > 1

OverLimit == queued_bytes_ > MaxQueueBytes /\ queue_ # <<>>

\* trim_queue_locked(): one iteration of its loop.
TrimPop ==
    /\ delivery = "trim"
    /\ owner # "destroyed"
    /\ OverLimit
    /\ dropped_bytes_' = dropped_bytes_ + Head(queue_).size
    /\ queued_bytes_' = queued_bytes_ - Head(queue_).size
    /\ queue_' = Tail(queue_)
    /\ UNCHANGED <<mtx_, total_, flagVars, subscription_, owner, delivery, msg,
                   workerVars, histVars>>

\* The end of trim_queue_locked() and of the locked block of enqueue().
TrimEnd ==
    /\ delivery = "trim"
    /\ owner # "destroyed"
    /\ ~OverLimit
    /\ mtx_' = "free"
    /\ delivery' = "notify"
    /\ UNCHANGED <<queueVars, flagVars, subscription_, owner, msg, workerVars,
                   histVars>>

\* cv_.notify_one() after the lock is released.
EnqueueNotify ==
    /\ delivery = "notify"
    /\ owner # "destroyed"
    /\ worker' = WorkerNotified
    /\ delivery' = "idle"
    /\ UNCHANGED <<mtx_, queueVars, flagVars, subscription_, owner, msg,
                   payload, cleared, link, reconnect_delay_, histVars>>

------------------------------------------------------------------------------
(* The worker thread: run() and connect_and_stream(). *)

\* The test of run()'s while loop.
RunLoop ==
    /\ worker = "loop"
    /\ \E s \in UnlockedStopping :
          /\ worker' = IF s THEN "done" ELSE "source"
          /\ stopSeen' = (stopSeen \/ (s /\ stop_))
    /\ UNCHANGED <<mtx_, queueVars, stop_, g_stop, subscription_, owner,
                   delivery, msg, payload, cleared, link, reconnect_delay_,
                   histVars>>

\* An exception leaves connect_and_stream() with the connection in state l.
Throw(l) == /\ worker' = "catch"
            /\ link' = l
            /\ failedAt' = total_

Proceed(w, l) == /\ worker' = w
                 /\ link' = l
                 /\ UNCHANGED failedAt

\* connect_source(): close the old socket, resolve and connect.
connect_source ==
    /\ worker = "source"
    /\ Proceed("request", "open") \/ Throw("closed")
    /\ UNCHANGED <<mtx_, queueVars, flagVars, subscription_, owner, delivery,
                   msg, payload, cleared, reconnect_delay_, accepted, sent,
                   written, lost>>

\* send_source_request(): the POST and its headers.
send_source_request ==
    /\ worker = "request"
    /\ Proceed("response", "requested") \/ Throw(link)
    /\ UNCHANGED <<mtx_, queueVars, flagVars, subscription_, owner, delivery,
                   msg, payload, cleared, reconnect_delay_, accepted, sent,
                   written, lost>>

\* read_source_response(): the caster accepts, rejects or hangs up.
read_source_response ==
    /\ worker = "response"
    /\ Proceed("check", "accepted") \/ Throw(link)
    /\ UNCHANGED <<mtx_, queueVars, flagVars, subscription_, owner, delivery,
                   msg, payload, cleared, reconnect_delay_, accepted, sent,
                   written, lost>>

\* connect_and_stream() returned: run() resets the delay and tests its loop.
Returned == /\ worker' = "loop"
            /\ reconnect_delay_' = MinDelay

\* The test of connect_and_stream()'s while loop.
StreamLoop ==
    /\ worker = "check"
    /\ \E s \in UnlockedStopping :
          /\ IF s THEN Returned
                  ELSE worker' = "lock" /\ UNCHANGED reconnect_delay_
          /\ stopSeen' = (stopSeen \/ (s /\ stop_))
    /\ UNCHANGED <<mtx_, queueVars, stop_, g_stop, subscription_, owner,
                   delivery, msg, payload, cleared, link, histVars>>

\* Faulty: the predicate of cv_.wait looks at the queue only.
WaitBlockIgnoringStop ==
    /\ queue_ = <<>>
    /\ worker' = "waiting"
    /\ UNCHANGED <<queueVars, payload, reconnect_delay_>>

\* cv_.wait with its predicate: block, leave, or pop the front payload.
WaitBlock ==
    /\ ~Stopping /\ queue_ = <<>>
    /\ worker' = "waiting"
    /\ UNCHANGED <<queueVars, payload, reconnect_delay_>>

WaitStopped ==
    /\ Stopping
    /\ Returned
    /\ UNCHANGED <<queueVars, payload>>

\* Faulty: the popped payload stays in queued_bytes_.
WaitPopUncounted ==
    /\ ~Stopping /\ queue_ # <<>>
    /\ payload' = Head(queue_)
    /\ queue_' = Tail(queue_)
    /\ worker' = "write"
    /\ UNCHANGED <<queued_bytes_, total_, dropped_bytes_, reconnect_delay_>>

\* Faulty: the payload is read at the front and never popped.
WaitPopPeeking ==
    /\ ~Stopping /\ queue_ # <<>>
    /\ payload' = Head(queue_)
    /\ worker' = "write"
    /\ UNCHANGED <<queueVars, reconnect_delay_>>

WaitPop ==
    /\ ~Stopping /\ queue_ # <<>>
    /\ payload' = Head(queue_)
    /\ queue_' = Tail(queue_)
    /\ queued_bytes_' = queued_bytes_ - Head(queue_).size
    /\ worker' = "write"
    /\ UNCHANGED <<total_, dropped_bytes_, reconnect_delay_>>

WaitLocked ==
    /\ worker = "lock"
    /\ mtx_ = "free"
    /\ WaitBlock \/ WaitStopped \/ WaitPop
    /\ stopSeen' = stop_
    /\ UNCHANGED <<mtx_, stop_, g_stop, subscription_, owner, delivery, msg,
                   cleared, link, histVars>>

\* Either wait may wake up for no reason.
SpuriousWakeup ==
    /\ worker \in {"waiting", "backoff"}
    /\ worker' = WorkerNotified
    /\ UNCHANGED <<mtx_, queueVars, flagVars, subscription_, owner, delivery,
                   msg, payload, cleared, link, reconnect_delay_, histVars>>

\* ntripConnection_Write(): the chunk is written; an empty one is refused.
Wrote ==
    /\ payload.size > 0
    /\ Proceed("check", link)
    /\ sent' = Append(sent, payload)
    /\ written' = written + payload.size
    /\ UNCHANGED lost

\* Faulty: the status of ntripConnection_Write() is not looked at.
WriteFailedIgnored ==
    /\ Proceed("check", "failed")
    /\ lost' = lost + payload.size
    /\ UNCHANGED <<sent, written>>

\* ntripConnection_Write() fails, perhaps with part of the chunk on the wire:
\* connect_and_stream() throws, and the payload goes with its stack frame.
WriteFailed ==
    /\ Throw("failed")
    /\ lost' = lost + payload.size
    /\ UNCHANGED <<sent, written>>

write_source ==
    /\ worker = "write"
    /\ Wrote \/ WriteFailed
    /\ payload' = NoPayload
    /\ UNCHANGED <<mtx_, queueVars, flagVars, subscription_, owner, delivery,
                   msg, cleared, reconnect_delay_, accepted>>

\* Faulty: no clear_queue_locked() before the back-off.
CatchKeepingQueue ==
    /\ worker = "catch"
    /\ \E s \in UnlockedStopping :
          /\ worker' = IF s THEN "done" ELSE "backoff_lock"
          /\ stopSeen' = (stopSeen \/ (s /\ stop_))
    /\ UNCHANGED <<mtx_, queueVars, stop_, g_stop, subscription_, owner,
                   delivery, msg, payload, cleared, link, reconnect_delay_,
                   histVars>>

\* run()'s catch block: leave when stopping.
Catch ==
    /\ worker = "catch"
    /\ \E s \in UnlockedStopping :
          /\ worker' = IF s THEN "done" ELSE "clear_lock"
          /\ stopSeen' = (stopSeen \/ (s /\ stop_))
    /\ UNCHANGED <<mtx_, queueVars, stop_, g_stop, subscription_, owner,
                   delivery, msg, payload, cleared, link, reconnect_delay_,
                   histVars>>

\* clear_queue_locked(): lock and, unless there is nothing to discard, empty
\* the queue one payload at a time and account for it.
ClearLock ==
    /\ worker = "clear_lock"
    /\ mtx_ = "free"
    /\ \/ queue_ = <<>> /\ worker' = "backoff_lock" /\ UNCHANGED mtx_
       \/ queue_ # <<>> /\ worker' = "clear" /\ mtx_' = "worker"
    /\ cleared' = 0
    /\ stopSeen' = stop_
    /\ UNCHANGED <<queueVars, stop_, g_stop, subscription_, owner, delivery,
                   msg, payload, link, reconnect_delay_, histVars>>

ClearPop ==
    /\ worker = "clear"
    /\ queue_ # <<>>
    /\ cleared' = cleared + Head(queue_).size
    /\ queue_' = Tail(queue_)
    /\ UNCHANGED <<mtx_, queued_bytes_, total_, dropped_bytes_, flagVars,
                   subscription_, owner, delivery, msg, worker, payload, link,
                   reconnect_delay_, histVars>>

\* Faulty: the cleared bytes are not added to dropped_bytes_.
ClearEndUncounted ==
    /\ worker = "clear"
    /\ queue_ = <<>>
    /\ queued_bytes_' = 0
    /\ cleared' = 0
    /\ mtx_' = "free"
    /\ worker' = "backoff_lock"
    /\ UNCHANGED <<queue_, total_, dropped_bytes_, flagVars, subscription_,
                   owner, delivery, msg, payload, link, reconnect_delay_,
                   histVars>>

ClearEnd ==
    /\ worker = "clear"
    /\ queue_ = <<>>
    /\ queued_bytes_' = 0
    /\ dropped_bytes_' = dropped_bytes_ + cleared
    /\ cleared' = 0
    /\ mtx_' = "free"
    /\ worker' = "backoff_lock"
    /\ UNCHANGED <<queue_, total_, flagVars, subscription_, owner, delivery,
                   msg, payload, link, reconnect_delay_, histVars>>

\* Faulty: no upper limit, and a limit that starts again from the minimum.
DoubledUncapped == 2 * reconnect_delay_
DoubledWrapping == IF 2 * reconnect_delay_ <= MaxDelay THEN 2 * reconnect_delay_
                                                       ELSE MinDelay

\* The doubling at the end of the catch block.
Doubled == IF 2 * reconnect_delay_ <= MaxDelay THEN 2 * reconnect_delay_
                                               ELSE MaxDelay

\* cv_.wait_for evaluates its predicate: block, or end the wait early.
BackoffLocked ==
    /\ worker = "backoff_lock"
    /\ mtx_ = "free"
    /\ \/ ~Stopping /\ worker' = "backoff" /\ UNCHANGED reconnect_delay_
       \/ Stopping /\ worker' = "loop" /\ reconnect_delay_' = Doubled
    /\ stopSeen' = stop_
    /\ UNCHANGED <<mtx_, queueVars, stop_, g_stop, subscription_, owner,
                   delivery, msg, payload, cleared, link, histVars>>

\* cv_.wait_for times out and reacquires mtx_.
BackoffTimeout ==
    /\ worker = "backoff"
    /\ mtx_ = "free"
    /\ worker' = "loop"
    /\ reconnect_delay_' = Doubled
    /\ stopSeen' = stop_
    /\ UNCHANGED <<mtx_, queueVars, stop_, g_stop, subscription_, owner,
                   delivery, msg, payload, cleared, link, histVars>>

------------------------------------------------------------------------------
\* The session is gone: nothing else happens.
Terminated == owner = "destroyed" /\ UNCHANGED vars

Owner == Subscribe \/ Spawn \/ StopLocked \/ StopNotify \/ Unsubscribe \/ Join

Enqueue == EnqueueLock \/ TrimPop \/ TrimEnd \/ EnqueueNotify

WorkerNet == \/ connect_source \/ send_source_request
             \/ read_source_response \/ write_source

WorkerLocal == \/ RunLoop \/ StreamLoop \/ WaitLocked \/ Catch
               \/ ClearLock \/ ClearPop \/ ClearEnd
               \/ BackoffLocked \/ BackoffTimeout

Next == \/ Owner \/ Signal \/ Terminated
        \/ \E s \in Sizes : on_nats_msg(s)
        \/ Enqueue
        \/ WorkerNet \/ WorkerLocal \/ SpuriousWakeup

Spec == Init /\ [][Next]_vars

\* Every thread that can take a local step eventually does; a thread inside a
\* network call may stay there for ever, and nobody has to send, signal, fail,
\* wake up spuriously or destroy a running session.  wait_for has an absolute
\* deadline, so wake-ups cannot put off the time-out for ever: strong fairness.
Fairness == /\ WF_vars(WorkerLocal)
            /\ SF_vars(BackoffTimeout)
            /\ WF_vars(Enqueue)
            /\ WF_vars(\/ Spawn \/ (owner = "failed" /\ StopLocked)
                       \/ StopNotify \/ Unsubscribe \/ Join)

FairSpec == Spec /\ Fairness

------------------------------------------------------------------------------
(* Properties. *)

\* The values the variables range over; reconnect_delay_ stays within the
\* configured limits (nats2ntrip.cpp, run()).
TypeOK ==
    /\ mtx_ \in {"free", "worker", "delivery"}
    /\ queue_ \in Seq(Payload)
    /\ queued_bytes_ \in Nat /\ total_ \in Nat /\ dropped_bytes_ \in Nat
    /\ reconnect_delay_ \in MinDelay..MaxDelay
    /\ stop_ \in BOOLEAN /\ g_stop \in BOOLEAN /\ stopSeen \in BOOLEAN
    /\ subscription_ \in {"none", "live", "closed"}
    /\ owner \in {"start", "spawn", "running", "failed", "notify",
                  "unsubscribe", "join", "destroyed"}
    /\ delivery \in {"idle", "enqueue", "trim", "notify"}
    /\ msg \in Sizes \cup {0}
    /\ worker \in Network \cup {"none", "loop", "check", "lock", "waiting",
                  "catch", "clear_lock", "clear", "backoff_lock", "backoff",
                  "done"}
    /\ payload \in Payload \cup {NoPayload}
    /\ cleared \in Nat
    /\ link \in {"closed", "open", "requested", "accepted", "failed"}
    /\ accepted \subseteq Payload
    /\ sent \in Seq(Payload)
    /\ written \in Nat /\ lost \in Nat /\ failedAt \in Nat

\* The payloads of q follow one another without a gap up to byte t.
GapFree(q, t) ==
    /\ \A i \in 1..(Len(q) - 1) : End(q[i]) = q[i + 1].off
    /\ q # <<>> => End(q[Len(q)]) = t

\* The bytes of such a q.
Extent(q, t) == IF q = <<>> THEN 0 ELSE t - q[1].off

\* The queue holds one gap-free interval of the accepted bytes that ends with
\* the newest byte, and queued_bytes_ is its length: enqueue(), the pop of
\* connect_and_stream(), trim_queue_locked() and clear_queue_locked() keep the
\* counter and the queue in step whatever order the threads take mtx_ in.
QueueAccounting ==
    /\ GapFree(queue_, total_)
    /\ queued_bytes_ = Extent(queue_, total_) + cleared

\* trim_queue_locked() keeps the backlog within max_queue_bytes() whenever no
\* thread is inside a locked section, for payloads above the limit too.
QueueBounded == mtx_ = "free" => queued_bytes_ <= MaxQueueBytes

\* Every accepted byte is queued, in the worker's hands, written, lost with a
\* failed write, or counted in dropped_bytes_: none disappears uncounted.
BytesConserved ==
    total_ = queued_bytes_ + payload.size + written + lost + dropped_bytes_

\* The three together: push, pop, trim and clear, in whatever order the threads
\* do them, leave no byte miscounted, out of place or beyond the limit.
QueueSound == QueueAccounting /\ QueueBounded /\ BytesConserved

\* A chunk goes only to a connection whose POST the caster accepted and on
\* which no earlier chunk failed (ntripConnection_Source, _Write).
ChunkOnlyOnGoodLink == worker = "write" => link = "accepted"

\* Real-time feed: a payload accepted before a connection failed is never
\* written to a later connection (clear_queue_locked() in run()'s catch block).
NothingStaleIsWritten == worker = "write" => failedAt <= payload.off

\* Together: a caster that accepted the request gets fresh payloads until the
\* first one fails, and nothing before or after.
StreamSound == ChunkOnlyOnGoodLink /\ NothingStaleIsWritten

\* No wake-up of cv_ is lost: a worker blocked with work queued, or with stop_
\* set, is about to be notified by the thread that made it so.
NoLostWakeup ==
    /\ worker = "waiting" /\ queue_ # <<>> => delivery \in {"trim", "notify"}
    /\ worker \in {"waiting", "backoff"} /\ stop_ => owner = "notify"

\* The delay never shrinks while the session goes on: the reset in run() after
\* connect_and_stream() returns is reached only on the way out.
BackoffNeverShrinks ==
    [][reconnect_delay_' < reconnect_delay_ => Stopping]_vars

\* What the session implements: each payload is written at most once, whole
\* and in the order of arrival.
Fifo == INSTANCE LossyFifo WITH Sizes <- Sizes \ {0}, total <- total_,
                                delivered <- sent

FifoSpec == Fifo!Spec

\* Where the owner is, in the words of SessionLife.
Phase == CASE owner = "start"       -> "new"
           [] owner = "spawn"       -> "subscribed"
           [] owner = "notify"      -> "stopping"
           [] owner = "unsubscribe" -> "closing"
           [] owner = "join"        -> "joining"
           [] owner \in {"running", "failed", "destroyed"} -> owner

WorkerLife == IF worker \in {"none", "done"} THEN worker ELSE "alive"

\* What main relies on (start(), stop(), ~StreamSession()): the subscription
\* is closed before the worker is joined, the session outlives its worker, and
\* the worker does not end before it is told to.
Life == INSTANCE SessionLife
            WITH life <- [phase |-> Phase, subscription |-> subscription_,
                          worker |-> WorkerLife]

LifeSpec == Life!Spec

\* The network calls return, however late.
NetworkReturns == []<>(worker \notin Network)

\* stop() ends: once stop_ is set the session is destroyed, provided the
\* worker is not stuck in a network call (they have no timeout).
StopCompletes == NetworkReturns => (stop_ ~> owner = "destroyed")

\* A queued payload leaves the queue (written, trimmed or cleared) unless the
\* session stops: the worker is never left asleep on a non-empty queue.
QueueDrains ==
    NetworkReturns =>
        \A o \in 0..MaxTotal :
            (\E i \in DOMAIN queue_ : queue_[i].off = o)
                ~> (Stopping \/ \A i \in DOMAIN queue_ : queue_[i].off # o)
==============================================================================

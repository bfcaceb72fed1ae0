------------------------------- MODULE Logger -------------------------------
(***************************************************************************)
(* The asynchronous logger: any thread pushes entries into q_ under mtx_,  *)
(* one worker thread takes them out and writes them with mtx_ released,    *)
(* and the destructor sets stop_, notifies and joins.                      *)
(*                                                                         *)
(* stop() sets the atomic stop_ and notifies without mtx_, so the steps of *)
(* cv_.wait are kept apart: the worker evaluates its predicate ("eval"),   *)
(* and only later releases mtx_ and blocks ("sleep" to "blocked").         *)
(* An entry is the number of its push.                                     *)
(***************************************************************************)
EXTENDS Naturals, Sequences

CONSTANTS
    Producers,          \* the threads that log
    MaxEntries          \* bound of the model: entries pushed in a behaviour

ASSUME LoggerAssumption == "worker" \notin Producers /\ "free" \notin Producers
                           /\ MaxEntries \in Nat

VARIABLES
    mtx_,               \* "free" or "worker": producers hold it for one step
    q_,
    stop_,
    worker,             \* where the worker is in run()
    e,                  \* the entry being emitted, as a sequence of at most one
    producer,           \* where each thread is in enqueue()
    owner,              \* where the owning thread is in ~Logger()
    pushed,             \* history: how many entries were pushed
    emitted,            \* history: the entries written, in order
    pushedAtStop,       \* history: pushed when stop_ was set
    missed              \* history: stop()'s notification met a worker that had
                        \* evaluated its predicate but was not yet blocked

vars == <<mtx_, q_, stop_, worker, e, producer, owner, pushed, emitted,
          pushedAtStop, missed>>

\* Faulty: the notification is forgotten.
NeverNotified == worker

\* cv_.notify_one() and cv_.notify_all(): only a blocked worker hears them.
Notified == IF worker = "blocked" THEN "wake" ELSE worker

Init == /\ mtx_ = "free" /\ q_ = <<>> /\ stop_ = FALSE
        /\ worker = "wake" /\ e = <<>>
        /\ producer = [p \in Producers |-> "idle"]
        /\ owner = "alive"
        /\ pushed = 0 /\ emitted = <<>> /\ pushedAtStop = 0 /\ missed = FALSE

------------------------------------------------------------------------------
(* enqueue() *)

\* Push under mtx_; a thread that outlives the logger is outside the model.
Push(p) ==
    /\ producer[p] = "idle"
    /\ owner # "gone"
    /\ pushed < MaxEntries
    /\ mtx_ = "free"
    /\ pushed' = pushed + 1
    /\ q_' = Append(q_, pushed')
    /\ producer' = [producer EXCEPT ![p] = "notify"]
    /\ UNCHANGED <<mtx_, stop_, worker, e, owner, emitted, pushedAtStop, missed>>

\* cv_.notify_one() after mtx_ is released.
PushNotify(p) ==
    /\ producer[p] = "notify"
    /\ owner # "gone"
    /\ worker' = Notified
    /\ producer' = [producer EXCEPT ![p] = "idle"]
    /\ UNCHANGED <<mtx_, q_, stop_, e, owner, pushed, emitted, pushedAtStop, missed>>

------------------------------------------------------------------------------
(* ~Logger() *)

StopSet ==
    /\ owner = "alive"
    /\ stop_' = TRUE
    /\ owner' = "notify"
    /\ pushedAtStop' = pushed
    /\ UNCHANGED <<mtx_, q_, worker, e, producer, pushed, emitted, missed>>

StopNotify ==
    /\ owner = "notify"
    /\ worker' = Notified
    /\ missed' = (worker = "sleep")
    /\ owner' = "join"
    /\ UNCHANGED <<mtx_, q_, stop_, e, producer, pushed, emitted, pushedAtStop>>

Join ==
    /\ owner = "join"
    /\ worker = "done"
    /\ owner' = "gone"
    /\ UNCHANGED <<mtx_, q_, stop_, worker, e, producer, pushed, emitted,
                   pushedAtStop, missed>>

------------------------------------------------------------------------------
(* run() *)

\* The first lock, and the one a woken cv_.wait takes.
Wake ==
    /\ worker = "wake"
    /\ mtx_ = "free"
    /\ mtx_' = "worker"
    /\ worker' = "eval"
    /\ UNCHANGED <<q_, stop_, e, producer, owner, pushed, emitted, pushedAtStop, missed>>

\* Faulty: the predicate looks at the queue only.
EvalIgnoringStop ==
    /\ worker = "eval"
    /\ worker' = IF q_ # <<>> THEN "drain" ELSE "sleep"
    /\ UNCHANGED <<mtx_, q_, stop_, e, producer, owner, pushed, emitted,
                   pushedAtStop, missed>>

\* The predicate of cv_.wait.
Eval ==
    /\ worker = "eval"
    /\ worker' = IF stop_ \/ q_ # <<>> THEN "drain" ELSE "sleep"
    /\ UNCHANGED <<mtx_, q_, stop_, e, producer, owner, pushed, emitted,
                   pushedAtStop, missed>>

\* cv_.wait releases mtx_ and blocks.
Sleep ==
    /\ worker = "sleep"
    /\ mtx_' = "free"
    /\ worker' = "blocked"
    /\ UNCHANGED <<q_, stop_, e, producer, owner, pushed, emitted, pushedAtStop, missed>>

SpuriousWakeup ==
    /\ worker = "blocked"
    /\ worker' = "wake"
    /\ UNCHANGED <<mtx_, q_, stop_, e, producer, owner, pushed, emitted,
                   pushedAtStop, missed>>

\* Faulty: the back of the queue is taken.
PopBack ==
    /\ worker = "drain"
    /\ q_ # <<>>
    /\ e' = <<q_[Len(q_)]>>
    /\ q_' = SubSeq(q_, 1, Len(q_) - 1)
    /\ mtx_' = "free"
    /\ worker' = "emit"
    /\ UNCHANGED <<stop_, producer, owner, pushed, emitted, pushedAtStop, missed>>

\* The inner loop: move the front out, release mtx_.
Pop ==
    /\ worker = "drain"
    /\ q_ # <<>>
    /\ e' = <<Head(q_)>>
    /\ q_' = Tail(q_)
    /\ mtx_' = "free"
    /\ worker' = "emit"
    /\ UNCHANGED <<stop_, producer, owner, pushed, emitted, pushedAtStop, missed>>

Emit ==
    /\ worker = "emit"
    /\ emitted' = emitted \o e
    /\ e' = <<>>
    /\ worker' = "relock"
    /\ UNCHANGED <<mtx_, q_, stop_, producer, owner, pushed, pushedAtStop, missed>>

\* Faulty: one entry per wake-up, then wait again.
RelockWaiting ==
    /\ worker = "relock"
    /\ mtx_ = "free"
    /\ mtx_' = "worker"
    /\ worker' = "sleep"
    /\ UNCHANGED <<q_, stop_, e, producer, owner, pushed, emitted, pushedAtStop, missed>>

Relock ==
    /\ worker = "relock"
    /\ mtx_ = "free"
    /\ mtx_' = "worker"
    /\ worker' = "drain"
    /\ UNCHANGED <<q_, stop_, e, producer, owner, pushed, emitted, pushedAtStop, missed>>

\* Faulty: stop_ is tested before the queue is empty.
StopWithQueue == worker = "drain"

\* The inner loop is over.
Drained == worker = "drain" /\ q_ = <<>>

\* if (stop_) break;
TestStop ==
    /\ Drained
    /\ \/ stop_ /\ worker' = "done" /\ mtx_' = "free"
       \/ ~stop_ /\ worker' = "eval" /\ UNCHANGED mtx_
    /\ UNCHANGED <<q_, stop_, e, producer, owner, pushed, emitted, pushedAtStop, missed>>

------------------------------------------------------------------------------
Terminated == owner = "gone" /\ UNCHANGED vars

Worker == Wake \/ Eval \/ Sleep \/ Pop \/ Emit \/ Relock \/ TestStop

Next == \/ \E p \in Producers : Push(p) \/ PushNotify(p)
        \/ StopSet \/ StopNotify \/ Join
        \/ Worker \/ SpuriousWakeup
        \/ Terminated

Spec == Init /\ [][Next]_vars

\* Every thread takes its steps; nobody has to log, to destroy the logger or to
\* wake up spuriously.
Fairness == /\ WF_vars(Worker)
            /\ \A p \in Producers : WF_vars(PushNotify(p))
            /\ WF_vars(StopNotify \/ Join)

FairSpec == Spec /\ Fairness

------------------------------------------------------------------------------
(* Properties. *)

\* The values the variables range over; mtx_ is the worker's exactly between
\* its locks and its unlocks, and free while an entry is written.
TypeOK ==
    /\ mtx_ = IF worker \in {"eval", "sleep", "drain"} THEN "worker" ELSE "free"
    /\ q_ \in Seq(Nat) /\ e \in Seq(Nat) /\ emitted \in Seq(Nat)
    /\ stop_ \in BOOLEAN /\ missed \in BOOLEAN
    /\ worker \in {"wake", "eval", "sleep", "blocked", "drain", "emit", "relock",
                   "done"}
    /\ producer \in [Producers -> {"idle", "notify"}]
    /\ owner \in {"alive", "notify", "join", "gone"}
    /\ pushed \in Nat /\ pushedAtStop \in Nat

\* Every entry is written exactly once and in the order of the pushes: what was
\* written, what is being written and what is queued are 1, 2, ..., pushed.
ExactlyOnceInOrder ==
    LET all == emitted \o e \o q_
    IN  /\ Len(all) = pushed
        /\ \A i \in 1..Len(all) : all[i] = i

\* A worker asleep on a non-empty queue is about to be notified by enqueue().
NoEntryLeftAsleep ==
    worker \in {"sleep", "blocked"} /\ q_ # <<>>
        => \E p \in Producers : producer[p] = "notify"

\* The worker leaves run() only when everything logged before the destructor
\* began has been written.
FlushedBeforeExit == worker = "done" => Len(emitted) >= pushedAtStop

\* The destructor can hang only because stop() notifies without mtx_: a worker
\* blocked for ever after the notification is one that missed it.
HangsOnlyIfMissed ==
    owner = "join" /\ worker \in {"sleep", "blocked"} => missed

\* In every interleaving: a worker that sleeps has nothing to write, or is about
\* to be woken, or is in the window that stop() leaves open.
Inv == TypeOK /\ NoEntryLeftAsleep /\ HangsOnlyIfMissed

\* ~Logger() returns unless the worker missed the notification.
DestructorReturns == owner = "notify" ~> (owner = "gone" \/ missed)
==============================================================================

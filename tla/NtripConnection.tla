--------------------------- MODULE NtripConnection ---------------------------
(***************************************************************************)
(* The consuming side of ntripConnection (ntrip.cpp): resolve, connect,    *)
(* send the GET, read the caster's answer and then the stream, and start   *)
(* over with a growing delay whenever anything fails.  ntrip2nats runs one *)
(* per source and publishes what the consumption handler receives.         *)
(*                                                                         *)
(* The operators below are the member functions: they map the object's     *)
(* state x to its state after the call.                                    *)
(***************************************************************************)
EXTENDS AsioLoop, FiniteSets, Functions

CONSTANTS MinDelay, MaxDelay    \* reconnect_min_sec, reconnect_max_sec

ASSUME DelayAssumption == /\ MinDelay \in Nat \ {0} /\ MaxDelay \in Nat
                          /\ MinDelay <= MaxDelay

vars == <<s, answers, pos, buffer_>>

\* The constructed object, before ntripConnection_Consume.
Init == /\ \E l \in Loops :
              s = [pending |-> NoOps, ready |-> <<>>, sock |-> "closed",
                   slept |-> FALSE, late |-> l,
                   response_headers_complete_ |-> FALSE, response_buffer_ |-> <<>>,
                   delay_ |-> MinDelay, attempts |-> 0, delivered |-> <<>>]
        /\ answers = <<>> /\ pos = 0 /\ buffer_ = <<>>

------------------------------------------------------------------------------
(* Member functions. *)

\* Faulty: what was received of an answer survives.
ClearHeaderKeepingBuffer(x) == [x EXCEPT !.response_headers_complete_ = FALSE]

ClearHeader(x) == [x EXCEPT !.response_headers_complete_ = FALSE,
                            !.response_buffer_ = <<>>]

connect(x) == Start([ClearHeader(x) EXCEPT !.attempts = @ + 1], "resolve")

\* Faulty: the delay may outgrow its limit.
DoubledUncapped(d) == 2 * d

Doubled(d) == IF 2 * d <= MaxDelay THEN 2 * d ELSE MaxDelay

\* The cancellations of reconnect().
CancelAll(x) == Close(Cancel(Cancel(x, "resolve"), "timer"))

\* Faulty: no timer is started.
reconnectWithoutTimer(x) ==
    [CancelAll(ClearHeader(x)) EXCEPT !.delay_ = Doubled(@), !.slept = FALSE]

reconnect(x) ==
    Start([CancelAll(ClearHeader(x)) EXCEPT !.delay_ = Doubled(@), !.slept = FALSE],
          "timer")

send_request(x) == AsyncTransfer(x, "write")

read(x) == AsyncTransfer(x, "read")

Consume(x, bytes) == [x EXCEPT !.delivered = @ \o bytes]

\* The answer is complete: reject it, or pass on the payload that follows it.
EndOfHeader(x) ==
    LET b == x.response_buffer_
        n == HeaderEnd(b)
    IN  IF ~Accepted(b) THEN reconnect(x)
        ELSE [Consume(x, SubSeq(b, n + 1, Len(b))) EXCEPT
                 !.response_headers_complete_ = TRUE, !.response_buffer_ = <<>>]

handle_stream_bytes(x, data) ==
    IF x.response_headers_complete_ THEN Consume(x, data)
    ELSE LET y == [x EXCEPT !.response_buffer_ = @ \o data]
         IN  IF HeaderEnds(y.response_buffer_) = {} THEN y ELSE EndOfHeader(y)

------------------------------------------------------------------------------
(* Completion handlers: each returns at once when its operation was aborted. *)

on_resolve(x, st) == CASE st = "aborted" -> x
                       [] st = "ok" -> AsyncConnect(x)
                       [] st = "err" -> reconnect(x)

on_connect(x, st) == CASE st = "aborted" -> x
                       [] st = "ok" -> send_request(x)
                       [] st = "err" -> reconnect(x)

on_write(x, st) == CASE st = "aborted" -> x
                     [] st = "ok" -> read(x)
                     [] st = "err" -> reconnect(x)

\* read() is called again even when handle_stream_bytes() has just reconnected.
on_read(x, st) == CASE st = "aborted" -> x
                    [] st = "ok" -> read(handle_stream_bytes(x, buffer_))
                    [] st = "err" -> reconnect(x)

\* Faulty: the error code of the timer is not looked at.
on_timerIgnoringError(x, st) == connect(x)

on_timer(x, st) == IF st = "aborted" THEN x ELSE connect(x)

Handler(x, o) == CASE o.kind = "resolve" -> on_resolve(x, o.st)
                   [] o.kind = "connect" -> on_connect(x, o.st)
                   [] o.kind = "write"   -> on_write(x, o.st)
                   [] o.kind = "read"    -> on_read(x, o.st)
                   [] o.kind = "timer"   -> on_timer(x, o.st)

------------------------------------------------------------------------------
\* ntripConnection_Consume -> start() -> connect()
ntripConnection_Consume ==
    /\ s.attempts = 0
    /\ s' = connect(s)
    /\ UNCHANGED <<answers, pos, buffer_>>

\* io.run(): the next ready handler.
RunHandler ==
    /\ s.ready # <<>>
    /\ LET o == Head(s.ready)
       IN  /\ o.kind = "timer" => s.attempts < MaxAttempts
           /\ s' = Handler([s EXCEPT !.ready = Tail(@)], o)
    /\ UNCHANGED <<answers, pos, buffer_>>

\* The bound of the model: no more attempts are followed.
OutOfAttempts == s.attempts = MaxAttempts /\ UNCHANGED vars

Next == \/ ntripConnection_Consume
        \/ RunHandler
        \/ Network \/ TimerExpires
        \/ OutOfAttempts

Spec == Init /\ [][Next]_vars

\* The loop runs ready handlers and timers expire; the network owes nothing.
Fairness == /\ WF_vars(RunHandler)
            /\ WF_vars(TimerExpires)

FairSpec == Spec /\ Fairness

------------------------------------------------------------------------------
(* Properties. *)

\* The operations of kind k that are under way or whose handler will go on.
Count(k) == s.pending[k]
            + Cardinality({i \in DOMAIN s.ready : s.ready[i].kind = k
                                                  /\ s.ready[i].st # "aborted"})

\* The values of the object's fields; delay_ stays within the options.
TypeOK ==
    /\ s.pending \in [Kinds -> Nat]
    /\ s.ready \in Seq([kind : Kinds, st : Results])
    /\ s.sock \in {"closed", "open", "up"}
    /\ s.slept \in BOOLEAN /\ s.late \in BOOLEAN
    /\ s.response_headers_complete_ \in BOOLEAN
    /\ s.delay_ \in MinDelay..MaxDelay
    /\ s.attempts \in Nat

\* The object never goes quiet: once consuming, some operation is under way
\* whose handler will continue the chain.
AlwaysUnderWay == s.attempts > 0 => \E k \in Kinds : Count(k) > 0

\* On a loop that is not late there is one chain of operations at a time: a
\* second one exists only between a rejected answer and the failure of the
\* read() that follows it.
OneChain ==
    \/ s.late
    \/ \A k, l \in Kinds : Count(k) + (IF k = l THEN 0 ELSE Count(l)) <= 1
    \/ /\ \A k \in Kinds : Count(k) <= 1
       /\ Done("read", "err") \in Range(s.ready) /\ s.pending["timer"] = 1
       /\ \A k \in Kinds \ {"read", "timer"} : Count(k) = 0

\* Neither silence nor, on a loop that is not late, two chains at once.
Inv == TypeOK /\ AlwaysUnderWay /\ OneChain

\* Whatever way the stream is cut into reads, and over any number of
\* reconnections, the consumer on a loop that is not late receives payload of
\* accepted connections only, from its first byte on and without a gap, a
\* repetition or a byte of header.
CleanStream ==
    LET d == s.delivered
        first(i) == i = 1 \/ d[i].conn > d[i - 1].conn
    IN  ~s.late => \A i \in DOMAIN d :
          /\ answers[d[i].conn]
          /\ IF first(i) THEN d[i].pos = HeaderLen + 1
                         ELSE d[i] = [conn |-> d[i - 1].conn, pos |-> d[i - 1].pos + 1]

\* On a loop that is not late, every connection attempt but the first waits for
\* its timer.
AttemptsWait ==
    [][~s.late /\ s.attempts > 0 /\ s'.attempts > s.attempts => s.slept]_vars

\* A closed connection is attempted again.
TriesAgain ==
    \A n \in 1..(MaxAttempts - 1) :
        (s.attempts = n /\ s.sock = "closed" /\ Count("resolve") = 0)
            ~> s.attempts = n + 1
==============================================================================

---------------------------- MODULE DecoderClient ----------------------------
(***************************************************************************)
(* NtripDecoderClient of rtcm_decoder_ntrip.cpp: the same life cycle as    *)
(* ntripConnection, written separately.  It differs where it matters: the  *)
(* handlers do not tell an aborted operation from a failed one, and        *)
(* reconnect() replaces timer_ without cancelling the resolver.            *)
(*                                                                         *)
(* The operators below are the member functions: they map the object's     *)
(* state x to its state after the call.                                    *)
(***************************************************************************)
EXTENDS AsioLoop

CONSTANT MaxDelay               \* 30 in the code

ASSUME DelayAssumption == MaxDelay \in Nat \ {0}

VARIABLE g_running

vars == <<s, answers, pos, buffer_, g_running>>

\* The constructed object, before start().
Init == /\ \E l \in Loops :
              s = [pending |-> NoOps, ready |-> <<>>, sock |-> "closed",
                   slept |-> FALSE, late |-> l,
                   header_done_ |-> FALSE, response_header_ |-> <<>>,
                   delay_s_ |-> 1, attempts |-> 0, framed |-> <<>>]
        /\ answers = <<>> /\ pos = 0 /\ buffer_ = <<>>
        /\ g_running = TRUE

------------------------------------------------------------------------------
(* Member functions. *)

connect(x) == IF ~g_running THEN x
              ELSE Start([x EXCEPT !.attempts = @ + 1], "resolve")

\* Faulty: the delay may outgrow its limit.
DoubledUncapped(d) == 2 * d

Doubled(d) == IF 2 * d <= MaxDelay THEN 2 * d ELSE MaxDelay

\* Faulty: the client gives up.
reconnectGivingUp(x) == Close(x)

\* The new timer replaces the old one, whose destruction aborts its wait.
reconnect(x) ==
    IF ~g_running THEN Close(x)
    ELSE Start(Cancel([Close(x) EXCEPT !.delay_s_ = Doubled(@), !.slept = FALSE],
                      "timer"), "timer")

\* Faulty: what was received of an earlier answer survives.
ConnectedKeepingHeader(x) == AsyncTransfer([x EXCEPT !.delay_s_ = 1], "write")

\* The success branch of the connect handler, with send_request().
Connected(x) ==
    AsyncTransfer([x EXCEPT !.delay_s_ = 1, !.response_header_ = <<>>,
                            !.header_done_ = FALSE], "write")

read_loop(x) == IF g_running THEN AsyncTransfer(x, "read") ELSE x

push(x, bytes) == [x EXCEPT !.framed = @ \o bytes]

\* The answer is complete: reject it, or frame the payload that follows it.
EndOfHeader(x) ==
    LET b == x.response_header_
        n == HeaderEnd(b)
    IN  IF ~Accepted(b) THEN reconnect(x)
        ELSE [push(x, SubSeq(b, n + 1, Len(b))) EXCEPT
                 !.header_done_ = TRUE, !.response_header_ = <<>>]

on_bytes(x, data) ==
    IF x.header_done_ THEN push(x, data)
    ELSE LET y == [x EXCEPT !.response_header_ = @ \o data]
         IN  IF HeaderEnds(y.response_header_) = {} THEN y ELSE EndOfHeader(y)

------------------------------------------------------------------------------
(* Completion handlers: "aborted" is one more error, and the timer's handler *)
(* does not look at its result.                                              *)

on_resolve(x, st) == IF st = "ok" THEN AsyncConnect(x) ELSE reconnect(x)

on_connect(x, st) == IF st = "ok" THEN Connected(x) ELSE reconnect(x)

on_write(x, st) == IF st = "ok" THEN read_loop(x) ELSE reconnect(x)

on_read(x, st) == IF st = "ok" THEN read_loop(on_bytes(x, buffer_))
                  ELSE IF g_running THEN reconnect(x) ELSE x

on_timer(x, st) == connect(x)

Handler(x, o) == CASE o.kind = "resolve" -> on_resolve(x, o.st)
                   [] o.kind = "connect" -> on_connect(x, o.st)
                   [] o.kind = "write"   -> on_write(x, o.st)
                   [] o.kind = "read"    -> on_read(x, o.st)
                   [] o.kind = "timer"   -> on_timer(x, o.st)

------------------------------------------------------------------------------
start ==
    /\ s.attempts = 0
    /\ s' = connect(s)
    /\ UNCHANGED <<answers, pos, buffer_, g_running>>

\* io.run(): the next ready handler.
RunHandler ==
    /\ s.ready # <<>>
    /\ LET o == Head(s.ready)
       IN  /\ o.kind = "timer" => s.attempts < MaxAttempts
           /\ s' = Handler([s EXCEPT !.ready = Tail(@)], o)
    /\ UNCHANGED <<answers, pos, buffer_, g_running>>

\* A signal; main then stops the loop, which drops whatever is outstanding.
on_signal ==
    /\ g_running
    /\ s.attempts > 0
    /\ g_running' = FALSE
    /\ UNCHANGED <<s, answers, pos, buffer_>>

io_stop ==
    /\ ~g_running
    /\ s' = [s EXCEPT !.pending = NoOps, !.ready = <<>>]
    /\ UNCHANGED <<answers, pos, buffer_, g_running>>

\* The bound of the model: no more attempts are followed.
OutOfAttempts == s.attempts = MaxAttempts /\ UNCHANGED vars

Next == \/ start \/ RunHandler \/ on_signal \/ io_stop
        \/ (Network \/ TimerExpires) /\ UNCHANGED g_running
        \/ OutOfAttempts

Spec == Init /\ [][Next]_vars

\* The loop runs ready handlers and timers expire; the network owes nothing.
Fairness == WF_vars(RunHandler) /\ WF_vars(TimerExpires /\ UNCHANGED g_running)

FairSpec == Spec /\ Fairness

------------------------------------------------------------------------------
(* Properties. *)

\* The values of the object's fields; delay_s_ stays within its limit.
TypeOK ==
    /\ s.pending \in [Kinds -> Nat]
    /\ s.ready \in Seq([kind : Kinds, st : Results])
    /\ s.sock \in {"closed", "open", "up"}
    /\ s.slept \in BOOLEAN /\ s.late \in BOOLEAN
    /\ s.header_done_ \in BOOLEAN /\ g_running \in BOOLEAN
    /\ s.delay_s_ \in 1..MaxDelay
    /\ s.attempts \in Nat

\* A running client always has an operation whose handler will go on.
AlwaysUnderWay ==
    g_running /\ s.attempts > 0 => s.ready # <<>> \/ \E k \in Kinds : s.pending[k] > 0

\* The invariant of the client: it never falls silent.
Inv == TypeOK /\ AlwaysUnderWay

\* "Reinicia socket y programa reconexion con backoff exponencial acotado":
\* after the first, every attempt waits for the delay that reconnect() set.
AttemptsWait ==
    [][s'.attempts > s.attempts /\ s.attempts > 0 => s.slept]_vars

\* As long as no signal arrives, a closed connection is attempted again.
TriesAgain ==
    \A n \in 1..(MaxAttempts - 1) :
        ( /\ g_running /\ s.attempts = n /\ s.sock = "closed"
          /\ s.pending["resolve"] = 0
          /\ \A i \in DOMAIN s.ready : s.ready[i].kind # "resolve" )
            ~> (s.attempts > n \/ ~g_running)

\* Until a caster first rejects a request, and over any number of lost and
\* resumed connections, the framer is fed the payload of each connection from
\* its first byte on, without a gap, a repetition or a byte of header.  (A
\* rejection starts two chains of operations, which share read_buf_.)
CleanUntilRejected ==
    LET d == s.framed
        first(i) == i = 1 \/ d[i].conn > d[i - 1].conn
    IN  (\A c \in DOMAIN answers : answers[c]) =>
          \A i \in DOMAIN d :
            IF first(i) THEN d[i].pos = HeaderLen + 1
                        ELSE d[i] = [conn |-> d[i - 1].conn, pos |-> d[i - 1].pos + 1]
==============================================================================

------------------------------ MODULE AsioLoop ------------------------------
(***************************************************************************)
(* The part of Boost.Asio and of a caster that the two NTRIP clients rely  *)
(* on (external code, modelled from how they use it): asynchronous         *)
(* operations of one connection object on a single-threaded io_context.    *)
(*                                                                         *)
(* An operation is pending until it completes with a result ("ok", "err"   *)
(* or "aborted") and its handler is ready; the loop runs the ready         *)
(* handlers one at a time in the order of completion.  pending counts the  *)
(* operations of each kind: an object may have several of one kind.        *)
(*                                                                         *)
(* The n-th byte of the c-th TCP connection is [conn |-> c, pos |-> n].    *)
(* Its first HeaderLen bytes are the caster's answer, the rest is payload. *)
(***************************************************************************)
EXTENDS Naturals, Sequences

CONSTANTS
    HeaderLen,          \* bytes of the caster's answer, terminator included
    MaxBytes,           \* bound: bytes a caster sends on one connection
    MaxRead,            \* size of the read buffer
    MaxAttempts,        \* bound: calls of connect() in a behaviour
    Loops               \* which loops there are: late ones (TRUE), prompt ones

ASSUME AsioAssumption ==
    /\ HeaderLen \in Nat \ {0} /\ MaxBytes \in Nat /\ MaxRead \in Nat \ {0}
    /\ MaxAttempts \in Nat /\ Loops \subseteq BOOLEAN

VARIABLES
    s,                  \* the client object, with at least the fields
                        \*   pending: its operations under way, per kind
                        \*   ready:   its completed ones, handler not yet run
                        \*   sock:    "closed", "open" or "up"
                        \*   slept:   its latest timer has expired
                        \*   late:    timers may expire while handlers wait
                        \*            to run (chosen once)
    answers,            \* per TCP connection: does the caster accept?
    pos,                \* bytes read so far from the latest connection
    buffer_             \* the bytes of the last completed read

Kinds   == {"resolve", "connect", "write", "read", "timer"}
Results == {"ok", "err", "aborted"}

NoOps == [k \in Kinds |-> 0]

SocketOps == {"connect", "write", "read"}

Done(k, st) == [kind |-> k, st |-> st]

Start(x, k) == [x EXCEPT !.pending[k] = @ + 1]

Post(x, k, st) == [x EXCEPT !.ready = Append(@, Done(k, st))]

\* Cancelling completes what is pending with "aborted"; a handler that is
\* already ready keeps its result.
Cancel(x, k) ==
    [x EXCEPT !.pending[k] = 0,
              !.ready = @ \o [i \in 1..x.pending[k] |-> Done(k, "aborted")]]

\* socket_.close()
Close(x) == [Cancel(Cancel(Cancel(x, "connect"), "write"), "read")
                EXCEPT !.sock = "closed"]

\* async_connect over a range of endpoints closes the socket and opens it again.
AsyncConnect(x) == Start([Close(x) EXCEPT !.sock = "open"], "connect")

\* A transfer on a socket that is not connected fails at once.
AsyncTransfer(x, k) == IF x.sock = "up" THEN Start(x, k) ELSE Post(x, k, "err")

Bytes(from, n) == [i \in 1..n |-> [conn |-> Len(answers), pos |-> from + i]]

------------------------------------------------------------------------------
(* What the network and the clock do to pending operations. *)

Complete(k, st) == Post([s EXCEPT !.pending[k] = @ - 1], k, st)

ResolveDone ==
    /\ s.pending["resolve"] > 0
    /\ \E st \in {"ok", "err"} : s' = Complete("resolve", st)
    /\ UNCHANGED <<answers, pos, buffer_>>

ConnectDone ==
    /\ s.pending["connect"] > 0
    /\ \/ /\ s' = [Complete("connect", "ok") EXCEPT !.sock = "up"]
          /\ \E accept \in BOOLEAN : answers' = Append(answers, accept)
          /\ pos' = 0
       \/ /\ s' = Complete("connect", "err")
          /\ UNCHANGED <<answers, pos>>
    /\ UNCHANGED buffer_

WriteDone ==
    /\ s.pending["write"] > 0
    /\ \E st \in {"ok", "err"} : s' = Complete("write", st)
    /\ UNCHANGED <<answers, pos, buffer_>>

ReadDone ==
    /\ s.pending["read"] > 0
    /\ \/ \E n \in 1..MaxRead :
             /\ pos + n <= MaxBytes
             /\ s' = Complete("read", "ok")
             /\ buffer_' = Bytes(pos, n)
             /\ pos' = pos + n
       \/ s' = Complete("read", "err") /\ UNCHANGED <<pos, buffer_>>
    /\ UNCHANGED answers

TimerExpires ==
    /\ s.pending["timer"] > 0
    /\ s.late \/ s.ready = <<>>
    /\ s' = [Complete("timer", "ok") EXCEPT !.slept = TRUE]
    /\ UNCHANGED <<answers, pos, buffer_>>

Network == ResolveDone \/ ConnectDone \/ WriteDone \/ ReadDone

------------------------------------------------------------------------------
(* The caster's answer in a buffer of received bytes. *)

\* buffer.find("\r\n\r\n"): the places where an answer ends.
HeaderEnds(b) == {i \in DOMAIN b : b[i].pos = HeaderLen}

HeaderEnd(b) == CHOOSE i \in HeaderEnds(b) : \A j \in HeaderEnds(b) : i <= j

\* The status line is at the front of the buffer.
Accepted(b) == answers[b[1].conn]
==============================================================================

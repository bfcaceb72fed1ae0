----------------------- MODULE NtripConnectionProofs -----------------------
(***************************************************************************)
(* Proofs about NtripConnection for every length of the caster's answer,   *)
(* every way the stream is cut into reads and every pair of delays.        *)
(*                                                                         *)
(* On a loop that is not late the operations of the object form a chain:   *)
(* one is under way, or has completed and waits for its handler.  What the *)
(* object has received and passed on is stated link by link of that chain. *)
(***************************************************************************)
EXTENDS NtripConnection, WellFoundedInduction, FiniteSetTheorems, SequenceTheorems, TLAPS

------------------------------------------------------------------------------
(* Types. *)

Byte == [conn : Nat, pos : Nat]

Operation == [kind : Kinds, st : Results]

Object == [pending : [Kinds -> Nat], ready : Seq(Operation),
           sock : {"closed", "open", "up"}, slept : BOOLEAN, late : BOOLEAN,
           response_headers_complete_ : BOOLEAN, response_buffer_ : Seq(Byte),
           delay_ : MinDelay..MaxDelay, attempts : Nat, delivered : Seq(Byte)]

TypeInv == /\ s \in Object
           /\ answers \in Seq(BOOLEAN) /\ pos \in Nat /\ buffer_ \in Seq(Byte)

\* y differs from x at most in its operations and its socket.
SameData(x, y) ==
    /\ y.slept = x.slept /\ y.late = x.late /\ y.delay_ = x.delay_
    /\ y.response_headers_complete_ = x.response_headers_complete_
    /\ y.response_buffer_ = x.response_buffer_
    /\ y.attempts = x.attempts /\ y.delivered = x.delivered

\* No handler that waits to run will go on.
AllAborted(x) == \A n \in 1..Len(x.ready) : x.ready[n].st = "aborted"

\* Exactly one handler that waits to run will go on, that of o.
OneReady(x, o) ==
    /\ o.st # "aborted"
    /\ \E n \in 1..Len(x.ready) :
          /\ x.ready[n] = o
          /\ \A m \in 1..Len(x.ready) : m # n => x.ready[m].st = "aborted"

\* Nothing is under way, and nothing but k.
Idle(x) == \A k \in Kinds : x.pending[k] = 0
Only(x, k) == x.pending[k] = 1 /\ \A l \in Kinds \ {k} : x.pending[l] = 0

------------------------------------------------------------------------------
(* What the member functions do to an object of the type. *)

\* Starting an operation.
LEMMA StartFacts ==
    ASSUME NEW x \in Object, NEW k \in Kinds
    PROVE  /\ Start(x, k) \in Object /\ SameData(x, Start(x, k))
           /\ Start(x, k).ready = x.ready /\ Start(x, k).sock = x.sock
           /\ Start(x, k).pending[k] = x.pending[k] + 1
           /\ \A l \in Kinds \ {k} : Start(x, k).pending[l] = x.pending[l]
<1>. DEFINE p == [x.pending EXCEPT ![k] = @ + 1]
<1>1. x.pending \in [Kinds -> Nat]
  BY DEF Object
<1>2. p \in [Kinds -> Nat] /\ p[k] = x.pending[k] + 1
      /\ \A l \in Kinds \ {k} : p[l] = x.pending[l]
  BY <1>1
<1>3. Start(x, k) = [x EXCEPT !.pending = p]
  BY DEF Start
<1>. HIDE DEF p
<1>. QED
  BY <1>2, <1>3 DEF Object, SameData

\* Posting a handler.
LEMMA PostFacts ==
    ASSUME NEW x \in Object, NEW k \in Kinds, NEW st \in Results
    PROVE  /\ Post(x, k, st) \in Object /\ SameData(x, Post(x, k, st))
           /\ Post(x, k, st).ready = Append(x.ready, Done(k, st))
           /\ Post(x, k, st).sock = x.sock
           /\ Post(x, k, st).pending = x.pending
<1>1. Done(k, st) \in Operation /\ x.ready \in Seq(Operation)
  BY DEF Done, Operation, Object
<1>2. Append(x.ready, Done(k, st)) \in Seq(Operation)
  BY <1>1, AppendProperties
<1>. QED
  BY <1>2 DEF Post, Object, SameData

\* The handlers of what is cancelled.
LEMMA AbortedFacts ==
    ASSUME NEW k \in Kinds, NEW n \in Nat
    PROVE  LET q == [j \in 1..n |-> Done(k, "aborted")]
           IN  /\ q \in Seq(Operation) /\ Len(q) = n
               /\ \A j \in 1..n : q[j].st = "aborted"
<1>. DEFINE q == [j \in 1..n |-> Done(k, "aborted")]
<1>1. Done(k, "aborted") \in Operation /\ Done(k, "aborted").st = "aborted"
  BY DEF Done, Operation, Results
<1>2. q \in [1..n -> Operation]
  BY <1>1
<1>3. q \in Seq(Operation)
  BY <1>2, SeqDef
<1>4. Len(q) = n
  BY <1>2, <1>3, LenProperties
<1>. QED
  BY <1>1, <1>3, <1>4

\* Cancelling an operation.
LEMMA CancelFacts ==
    ASSUME NEW x \in Object, NEW k \in Kinds
    PROVE  /\ Cancel(x, k) \in Object /\ SameData(x, Cancel(x, k))
           /\ Cancel(x, k).sock = x.sock
           /\ Cancel(x, k).pending[k] = 0
           /\ \A l \in Kinds \ {k} : Cancel(x, k).pending[l] = x.pending[l]
           /\ AllAborted(x) => AllAborted(Cancel(x, k))
<1>. DEFINE q == [j \in 1..x.pending[k] |-> Done(k, "aborted")]
<1>1. x.pending[k] \in Nat /\ x.ready \in Seq(Operation)
  BY DEF Object
<1>2. q \in Seq(Operation) /\ Len(q) = x.pending[k] /\ \A j \in 1..Len(q) : q[j].st = "aborted"
  BY <1>1, AbortedFacts
<1>. DEFINE p == [x.pending EXCEPT ![k] = 0]
<1>p. /\ p \in [Kinds -> Nat] /\ p[k] = 0
      /\ \A l \in Kinds \ {k} : p[l] = x.pending[l]
  BY DEF Object
<1>3. Cancel(x, k) = [x EXCEPT !.pending = p, !.ready = x.ready \o q]
  BY DEF Cancel, Object
<1>. HIDE DEF p, q
<1>4. /\ x.ready \o q \in Seq(Operation)
      /\ Len(x.ready \o q) = Len(x.ready) + Len(q)
      /\ \A j \in 1..Len(x.ready) + Len(q) : (x.ready \o q)[j] =
            IF j <= Len(x.ready) THEN x.ready[j] ELSE q[j - Len(x.ready)]
  BY <1>1, <1>2, ConcatProperties
<1>5. Len(x.ready) \in Nat /\ Len(q) \in Nat
  BY <1>1, <1>2, LenProperties
<1>6. ASSUME AllAborted(x), NEW j \in 1..Len(x.ready \o q)
      PROVE  (x.ready \o q)[j].st = "aborted"
  <2>1. CASE j <= Len(x.ready)
    BY <1>4, <1>5, <1>6, <2>1 DEF AllAborted
  <2>2. CASE ~(j <= Len(x.ready))
    BY <1>2, <1>4, <1>5, <1>6, <2>2
  <2>. QED
    BY <2>1, <2>2
<1>7. /\ Cancel(x, k) \in Object /\ SameData(x, Cancel(x, k))
      /\ Cancel(x, k).sock = x.sock
      /\ Cancel(x, k).pending[k] = 0
      /\ \A l \in Kinds \ {k} : Cancel(x, k).pending[l] = x.pending[l]
      /\ Cancel(x, k).ready = x.ready \o q
  BY <1>3, <1>4, <1>p DEF Object, SameData
<1>. QED
  BY <1>6, <1>7 DEF AllAborted

\* Closing the socket.
LEMMA CloseFacts ==
    ASSUME NEW x \in Object
    PROVE  /\ Close(x) \in Object /\ SameData(x, Close(x))
           /\ Close(x).sock = "closed"
           /\ \A k \in SocketOps : Close(x).pending[k] = 0
           /\ \A k \in Kinds \ SocketOps : Close(x).pending[k] = x.pending[k]
           /\ AllAborted(x) => AllAborted(Close(x))
<1>. DEFINE a == Cancel(x, "connect")
            b == Cancel(a, "write")
            c == Cancel(b, "read")
<1>1. "connect" \in Kinds /\ "write" \in Kinds /\ "read" \in Kinds
  BY DEF Kinds
<1>2. Close(x) = [c EXCEPT !.sock = "closed"]
  BY DEF Close
<1>3. /\ a \in Object /\ SameData(x, a) /\ a.pending["connect"] = 0
      /\ \A l \in Kinds \ {"connect"} : a.pending[l] = x.pending[l]
      /\ AllAborted(x) => AllAborted(a)
  BY <1>1, CancelFacts
<1>. HIDE DEF a
<1>4. /\ b \in Object /\ SameData(a, b) /\ b.pending["write"] = 0
      /\ \A l \in Kinds \ {"write"} : b.pending[l] = a.pending[l]
      /\ AllAborted(a) => AllAborted(b)
  BY <1>1, <1>3, CancelFacts
<1>. HIDE DEF b
<1>5. /\ c \in Object /\ SameData(b, c) /\ c.pending["read"] = 0
      /\ \A l \in Kinds \ {"read"} : c.pending[l] = b.pending[l]
      /\ AllAborted(b) => AllAborted(c)
  BY <1>1, <1>4, CancelFacts
<1>. HIDE DEF c
<1>6. SameData(x, c)
  BY <1>3, <1>4, <1>5 DEF SameData
<1>7. /\ Close(x) \in Object /\ SameData(c, Close(x)) /\ Close(x).sock = "closed"
      /\ Close(x).pending = c.pending /\ Close(x).ready = c.ready
  BY <1>2, <1>5 DEF Object, SameData
<1>8. SameData(x, Close(x))
  BY <1>6, <1>7 DEF SameData
<1>9. AllAborted(x) => AllAborted(Close(x))
  BY <1>3, <1>4, <1>5, <1>7 DEF AllAborted
<1>10. /\ \A k \in SocketOps : c.pending[k] = 0
       /\ \A k \in Kinds \ SocketOps : c.pending[k] = x.pending[k]
  BY <1>3, <1>4, <1>5 DEF SocketOps, Kinds
<1>. QED
  BY <1>7, <1>8, <1>9, <1>10

\* Nothing of an answer is kept.
Fresh(x) == ~x.response_headers_complete_ /\ x.response_buffer_ = <<>>

\* reconnect() leaves one timer, and nothing else, under way.
LEMMA ReconnectFacts ==
    ASSUME NEW x \in Object
    PROVE  LET y == reconnect(x)
           IN  /\ y \in Object /\ Only(y, "timer") /\ Fresh(y) /\ y.sock = "closed"
               /\ y.late = x.late /\ y.attempts = x.attempts /\ y.delivered = x.delivered
               /\ AllAborted(x) => AllAborted(y)
<1>. DEFINE a == ClearHeader(x)
            b == Cancel(a, "resolve")
            c == Cancel(b, "timer")
            d == Close(c)
            e == [d EXCEPT !.delay_ = Doubled(@), !.slept = FALSE]
<1>1. "resolve" \in Kinds /\ "timer" \in Kinds /\ Kinds = SocketOps \cup {"resolve", "timer"}
      /\ "resolve" \notin SocketOps /\ "timer" \notin SocketOps
  BY DEF Kinds, SocketOps
<1>2. /\ a \in Object /\ Fresh(a) /\ a.ready = x.ready
      /\ a.late = x.late /\ a.attempts = x.attempts /\ a.delivered = x.delivered
  <2>1. <<>> \in Seq(Byte)
    OBVIOUS
  <2>. QED
    BY <2>1 DEF ClearHeader, Object, Fresh
<1>3. reconnect(x) = Start(e, "timer")
  BY DEF reconnect, CancelAll
<1>. HIDE DEF a
<1>4. /\ b \in Object /\ SameData(a, b) /\ b.pending["resolve"] = 0
      /\ \A l \in Kinds \ {"resolve"} : b.pending[l] = a.pending[l]
      /\ AllAborted(a) => AllAborted(b)
  BY <1>1, <1>2, CancelFacts
<1>. HIDE DEF b
<1>5. /\ c \in Object /\ SameData(b, c) /\ c.pending["timer"] = 0
      /\ \A l \in Kinds \ {"timer"} : c.pending[l] = b.pending[l]
      /\ AllAborted(b) => AllAborted(c)
  BY <1>1, <1>4, CancelFacts
<1>. HIDE DEF c
<1>6. /\ d \in Object /\ SameData(c, d) /\ d.sock = "closed"
      /\ \A k \in SocketOps : d.pending[k] = 0
      /\ \A k \in Kinds \ SocketOps : d.pending[k] = c.pending[k]
      /\ AllAborted(c) => AllAborted(d)
  BY <1>5, CloseFacts
<1>. HIDE DEF d
<1>7. Doubled(d.delay_) \in MinDelay..MaxDelay
  BY <1>6, DelayAssumption DEF Doubled, Object
<1>8. /\ e \in Object /\ e.pending = d.pending /\ e.ready = d.ready /\ e.sock = d.sock
      /\ e.late = d.late /\ e.attempts = d.attempts /\ e.delivered = d.delivered
      /\ e.response_headers_complete_ = d.response_headers_complete_
      /\ e.response_buffer_ = d.response_buffer_
  BY <1>6, <1>7 DEF Object
<1>. HIDE DEF e
<1>9. \A k \in Kinds : e.pending[k] = 0
  BY <1>1, <1>4, <1>5, <1>6, <1>8
<1>10. /\ Fresh(e) /\ e.sock = "closed" /\ e.late = x.late /\ e.attempts = x.attempts
       /\ e.delivered = x.delivered
  BY <1>2, <1>4, <1>5, <1>6, <1>8 DEF SameData, Fresh
<1>11. AllAborted(x) => AllAborted(e)
  BY <1>2, <1>4, <1>5, <1>6, <1>8 DEF AllAborted
<1>. DEFINE y == Start(e, "timer")
<1>12. /\ y \in Object /\ SameData(e, y) /\ y.ready = e.ready /\ y.sock = e.sock
       /\ y.pending["timer"] = e.pending["timer"] + 1
       /\ \A l \in Kinds \ {"timer"} : y.pending[l] = e.pending[l]
  BY <1>1, <1>8, StartFacts
<1>. HIDE DEF y
<1>13. Only(y, "timer")
  BY <1>1, <1>9, <1>12 DEF Only
<1>14. /\ Fresh(y) /\ y.sock = "closed" /\ y.late = x.late /\ y.attempts = x.attempts
       /\ y.delivered = x.delivered
  BY <1>10, <1>12 DEF SameData, Fresh
<1>15. AllAborted(x) => AllAborted(y)
  BY <1>11, <1>12 DEF AllAborted
<1>16. reconnect(x) = y
  BY <1>3 DEF y
<1>. QED
  BY <1>12, <1>13, <1>14, <1>15, <1>16

\* connect() resolves the caster's name.
LEMMA ConnectFacts ==
    ASSUME NEW x \in Object
    PROVE  LET y == connect(x)
           IN  /\ y \in Object /\ Fresh(y) /\ y.ready = x.ready
               /\ y.pending["resolve"] = x.pending["resolve"] + 1
               /\ \A l \in Kinds \ {"resolve"} : y.pending[l] = x.pending[l]
               /\ y.late = x.late /\ y.attempts = x.attempts + 1
               /\ y.delivered = x.delivered
<1>. DEFINE a == [ClearHeader(x) EXCEPT !.attempts = @ + 1]
<1>1. "resolve" \in Kinds
  BY DEF Kinds
<1>2. /\ a \in Object /\ Fresh(a) /\ a.ready = x.ready /\ a.pending = x.pending
      /\ a.late = x.late /\ a.attempts = x.attempts + 1 /\ a.delivered = x.delivered
  <2>. DEFINE c == ClearHeader(x)
  <2>1. <<>> \in Seq(Byte)
    OBVIOUS
  <2>2. /\ c \in Object /\ Fresh(c) /\ c.ready = x.ready /\ c.pending = x.pending
        /\ c.late = x.late /\ c.attempts = x.attempts /\ c.delivered = x.delivered
    BY <2>1 DEF ClearHeader, Object, Fresh
  <2>. HIDE DEF c
  <2>3. c.attempts + 1 \in Nat
    BY <2>2 DEF Object
  <2>4. a = [c EXCEPT !.attempts = c.attempts + 1]
    BY <2>2 DEF c
  <2>. QED
    BY <2>2, <2>3, <2>4 DEF Object, Fresh
<1>3. connect(x) = Start(a, "resolve")
  BY DEF connect
<1>. HIDE DEF a
<1>4. /\ Start(a, "resolve") \in Object /\ SameData(a, Start(a, "resolve"))
      /\ Start(a, "resolve").ready = a.ready
      /\ Start(a, "resolve").pending["resolve"] = a.pending["resolve"] + 1
      /\ \A l \in Kinds \ {"resolve"} : Start(a, "resolve").pending[l] = a.pending[l]
  BY <1>1, <1>2, StartFacts
<1>. QED
  BY <1>2, <1>3, <1>4 DEF SameData, Fresh

\* async_connect leaves one connect under way.
LEMMA AsyncConnectFacts ==
    ASSUME NEW x \in Object
    PROVE  LET y == AsyncConnect(x)
           IN  /\ y \in Object /\ SameData(x, y)
               /\ y.pending["connect"] = 1
               /\ y.pending["write"] = 0 /\ y.pending["read"] = 0
               /\ y.pending["resolve"] = x.pending["resolve"]
               /\ y.pending["timer"] = x.pending["timer"]
               /\ AllAborted(x) => AllAborted(y)
<1>. DEFINE a == [Close(x) EXCEPT !.sock = "open"]
<1>1. "connect" \in Kinds /\ Kinds = SocketOps \cup {"resolve", "timer"}
      /\ "resolve" \notin SocketOps /\ "timer" \notin SocketOps
      /\ SocketOps = {"connect", "write", "read"}
  BY DEF Kinds, SocketOps
<1>2. /\ Close(x) \in Object /\ SameData(x, Close(x))
      /\ \A k \in SocketOps : Close(x).pending[k] = 0
      /\ \A k \in Kinds \ SocketOps : Close(x).pending[k] = x.pending[k]
      /\ AllAborted(x) => AllAborted(Close(x))
  BY CloseFacts
<1>3. /\ a \in Object /\ a.ready = Close(x).ready /\ a.pending = Close(x).pending
      /\ SameData(Close(x), a)
  BY <1>2 DEF Object, SameData
<1>4. AsyncConnect(x) = Start(a, "connect")
  BY DEF AsyncConnect
<1>. HIDE DEF a
<1>5. /\ Start(a, "connect") \in Object /\ SameData(a, Start(a, "connect"))
      /\ Start(a, "connect").ready = a.ready
      /\ Start(a, "connect").pending["connect"] = a.pending["connect"] + 1
      /\ \A l \in Kinds \ {"connect"} : Start(a, "connect").pending[l] = a.pending[l]
  BY <1>1, <1>3, StartFacts
<1>6. SameData(x, AsyncConnect(x))
  BY <1>2, <1>3, <1>4, <1>5 DEF SameData
<1>7. AllAborted(x) => AllAborted(AsyncConnect(x))
  BY <1>2, <1>3, <1>4, <1>5 DEF AllAborted
<1>. QED
  BY <1>1, <1>2, <1>3, <1>4, <1>5, <1>6, <1>7

\* A transfer is under way, or its failure is about to be handled.
LEMMA TransferFacts ==
    ASSUME NEW x \in Object, NEW k \in Kinds
    PROVE  LET y == AsyncTransfer(x, k)
           IN  /\ y \in Object /\ SameData(x, y) /\ y.sock = x.sock
               /\ \/ /\ x.sock = "up" /\ y.ready = x.ready
                     /\ y.pending[k] = x.pending[k] + 1
                     /\ \A l \in Kinds \ {k} : y.pending[l] = x.pending[l]
                  \/ /\ x.sock # "up" /\ y.pending = x.pending
                     /\ y.ready = Append(x.ready, Done(k, "err"))
<1>1. "err" \in Results
  BY DEF Results
<1>2. CASE x.sock = "up"
  BY <1>2, StartFacts DEF AsyncTransfer
<1>3. CASE x.sock # "up"
  BY <1>1, <1>3, PostFacts DEF AsyncTransfer
<1>. QED
  BY <1>2, <1>3

------------------------------------------------------------------------------
(* The bytes of a connection, and the end of an answer among them. *)

\* The smallest element of a set of numbers.
LEMMA Least ==
    ASSUME NEW T, T \subseteq Nat, T # {}
    PROVE  \E m \in T : \A n \in T : m <= n
<1>. DEFINE R == OpToRel(<, Nat)
<1>1. IsWellFoundedOn(R, Nat)
  BY NatLessThanWellFounded
<1>2. \A m, n \in Nat : <<n, m>> \in R <=> n < m
  BY DEF OpToRel
<1>. HIDE DEF R
<1>3. PICK m \in T : \A n \in T : ~(<<n, m>> \in R)
  BY <1>1, WFMin
<1>4. ASSUME NEW n \in T PROVE m <= n
  <2>1. m \in Nat /\ n \in Nat /\ ~(n < m)
    BY <1>2, <1>3
  <2>. QED
    BY <2>1
<1>. QED
  BY <1>4

\* Where an answer ends is a place in the buffer.
LEMMA HeaderEndFacts ==
    ASSUME NEW b \in Seq(Byte), HeaderEnds(b) # {}
    PROVE  HeaderEnd(b) \in HeaderEnds(b) /\ HeaderEnd(b) \in 1..Len(b)
<1>1. DOMAIN b = 1..Len(b) /\ Len(b) \in Nat
  BY LenProperties
<1>2. HeaderEnds(b) \subseteq 1..Len(b) /\ HeaderEnds(b) \subseteq Nat
  BY <1>1 DEF HeaderEnds
<1>3. \E m \in HeaderEnds(b) : \A n \in HeaderEnds(b) : m <= n
  BY <1>2, Least
<1>4. HeaderEnd(b) \in HeaderEnds(b)
  BY <1>3 DEF HeaderEnd
<1>. QED
  BY <1>2, <1>4

\* What a read delivers.
LEMMA BytesFacts ==
    ASSUME NEW from \in Nat, NEW n \in Nat, answers \in Seq(BOOLEAN)
    PROVE  /\ Bytes(from, n) \in Seq(Byte) /\ Len(Bytes(from, n)) = n
           /\ \A j \in 1..n : Bytes(from, n)[j] = [conn |-> Len(answers), pos |-> from + j]
<1>1. Len(answers) \in Nat
  BY LenProperties
<1>2. Bytes(from, n) \in [1..n -> Byte]
  BY <1>1 DEF Bytes, Byte
<1>3. Bytes(from, n) \in Seq(Byte)
  BY <1>2, SeqDef
<1>4. Len(Bytes(from, n)) = n
  BY <1>2, <1>3, LenProperties
<1>. QED
  BY <1>3, <1>4 DEF Bytes

\* Bytes read one after the other are the bytes of the stream.
LEMMA BytesJoined ==
    ASSUME NEW from \in Nat, NEW m \in Nat, NEW n \in Nat, answers \in Seq(BOOLEAN)
    PROVE  Bytes(from, m) \o Bytes(from + m, n) = Bytes(from, m + n)
<1>. DEFINE a == Bytes(from, m)
            b == Bytes(from + m, n)
            c == Bytes(from, m + n)
<1>1. /\ a \in Seq(Byte) /\ Len(a) = m
      /\ \A j \in 1..m : a[j] = [conn |-> Len(answers), pos |-> from + j]
  BY BytesFacts
<1>2. /\ b \in Seq(Byte) /\ Len(b) = n
      /\ \A j \in 1..n : b[j] = [conn |-> Len(answers), pos |-> from + m + j]
  <2>1. from + m \in Nat
    OBVIOUS
  <2>. QED
    BY <2>1, BytesFacts
<1>3. /\ c \in Seq(Byte) /\ Len(c) = m + n
      /\ \A j \in 1..(m + n) : c[j] = [conn |-> Len(answers), pos |-> from + j]
  BY BytesFacts
<1>. HIDE DEF a, b, c
<1>4. /\ a \o b \in Seq(Byte) /\ Len(a \o b) = m + n
      /\ \A j \in 1..(m + n) : (a \o b)[j] = IF j <= m THEN a[j] ELSE b[j - m]
  BY <1>1, <1>2, ConcatProperties
<1>5. ASSUME NEW j \in 1..(m + n) PROVE (a \o b)[j] = c[j]
  <2>1. CASE j <= m
    BY <1>1, <1>3, <1>4, <2>1
  <2>2. CASE ~(j <= m)
    <3>1. j - m \in 1..n /\ from + m + (j - m) = from + j
      BY <2>2
    <3>2. (a \o b)[j] = b[j - m]
      BY <1>4, <2>2
    <3>3. b[j - m] = [conn |-> Len(answers), pos |-> from + m + (j - m)]
      BY <1>2, <3>1
    <3>. QED
      BY <1>3, <3>1, <3>2, <3>3
  <2>. QED
    BY <2>1, <2>2
<1>6. a \o b = c
  BY <1>3, <1>4, <1>5, SeqEqual
<1>. QED
  BY <1>6 DEF a, b, c

\* What follows the first m bytes of a connection.
LEMMA BytesAfter ==
    ASSUME NEW n \in Nat, NEW m \in 0..n, answers \in Seq(BOOLEAN)
    PROVE  SubSeq(Bytes(0, n), m + 1, n) = Bytes(m, n - m)
<1>. DEFINE a == Bytes(0, n)
            b == Bytes(m, n - m)
<1>1. /\ a \in Seq(Byte) /\ Len(a) = n
      /\ \A j \in 1..n : a[j] = [conn |-> Len(answers), pos |-> 0 + j]
  BY BytesFacts
<1>2. n - m \in Nat /\ m \in Nat
  OBVIOUS
<1>3. /\ b \in Seq(Byte) /\ Len(b) = n - m
      /\ \A j \in 1..(n - m) : b[j] = [conn |-> Len(answers), pos |-> m + j]
  BY <1>2, BytesFacts
<1>. HIDE DEF a, b
<1>4. \A j \in (m + 1)..n : a[j] \in Byte
  BY <1>1, ElementOfSeq
<1>5. /\ SubSeq(a, m + 1, n) \in Seq(Byte)
      /\ Len(SubSeq(a, m + 1, n)) = IF m + 1 <= n THEN n - (m + 1) + 1 ELSE 0
      /\ \A j \in 1..(n - (m + 1) + 1) : SubSeq(a, m + 1, n)[j] = a[m + 1 + j - 1]
  BY <1>2, <1>4, SubSeqProperties
<1>6. Len(SubSeq(a, m + 1, n)) = n - m
  BY <1>2, <1>5
<1>7. ASSUME NEW j \in 1..(n - m) PROVE SubSeq(a, m + 1, n)[j] = b[j]
  <2>1. m + 1 + j - 1 = m + j /\ m + j \in 1..n /\ 0 + (m + j) = m + j
        /\ j \in 1..(n - (m + 1) + 1)
    BY <1>2
  <2>. QED
    BY <1>1, <1>3, <1>5, <2>1
<1>8. SubSeq(a, m + 1, n) = b
  BY <1>3, <1>5, <1>6, <1>7, SeqEqual
<1>. QED
  BY <1>8 DEF a, b

------------------------------------------------------------------------------
(* The handlers, on any loop. *)

\* Passing bytes on.
LEMMA ConsumeFacts ==
    ASSUME NEW x \in Object, NEW bytes \in Seq(Byte)
    PROVE  LET y == Consume(x, bytes)
           IN  /\ y \in Object /\ y.delivered = x.delivered \o bytes
               /\ y.pending = x.pending /\ y.ready = x.ready /\ y.sock = x.sock
               /\ y.slept = x.slept /\ y.late = x.late /\ y.attempts = x.attempts
               /\ y.response_headers_complete_ = x.response_headers_complete_
               /\ y.response_buffer_ = x.response_buffer_
<1>1. x.delivered \o bytes \in Seq(Byte)
  BY ConcatProperties DEF Object
<1>. QED
  BY <1>1 DEF Consume, Object

\* y is x but for what was received and passed on.
SameOperations(x, y) ==
    /\ y.pending = x.pending /\ y.ready = x.ready /\ y.sock = x.sock
    /\ y.slept = x.slept /\ y.late = x.late /\ y.attempts = x.attempts

\* The parser leaves the operations alone, or starts over.
LEMMA ParserFacts ==
    ASSUME NEW x \in Object, NEW data \in Seq(Byte)
    PROVE  LET y == handle_stream_bytes(x, data)
           IN  /\ y \in Object
               /\ \/ SameOperations(x, y)
                  \/ \E z \in Object : /\ SameOperations(x, z) /\ z.delivered = x.delivered
                                       /\ y = reconnect(z)
<1>. DEFINE z == [x EXCEPT !.response_buffer_ = @ \o data]
            y == handle_stream_bytes(x, data)
<1>1. CASE x.response_headers_complete_
  <2>1. y = Consume(x, data)
    BY <1>1 DEF handle_stream_bytes
  <2>. HIDE DEF y
  <2>2. y \in Object /\ SameOperations(x, y)
    BY <2>1, ConsumeFacts DEF SameOperations
  <2>. QED
    BY <2>2 DEF y
<1>2. CASE ~x.response_headers_complete_
  <2>1. x.response_buffer_ \o data \in Seq(Byte)
    BY ConcatProperties DEF Object
  <2>2. /\ z \in Object /\ SameOperations(x, z) /\ z.delivered = x.delivered
        /\ z.response_buffer_ \in Seq(Byte)
    BY <2>1 DEF Object, SameOperations
  <2>3. y = IF HeaderEnds(z.response_buffer_) = {} THEN z ELSE EndOfHeader(z)
    BY <1>2 DEF handle_stream_bytes
  <2>. HIDE DEF y, z
  <2>4. CASE HeaderEnds(z.response_buffer_) = {}
    BY <2>2, <2>3, <2>4 DEF y
  <2>5. CASE HeaderEnds(z.response_buffer_) # {}
    <3>. DEFINE b == z.response_buffer_
                rest == SubSeq(b, HeaderEnd(b) + 1, Len(b))
                w == Consume(z, rest)
                v == [w EXCEPT !.response_headers_complete_ = TRUE, !.response_buffer_ = <<>>]
    <3>1. y = IF ~Accepted(b) THEN reconnect(z) ELSE v
      BY <2>3, <2>5 DEF EndOfHeader
    <3>2. HeaderEnd(b) \in 1..Len(b) /\ Len(b) \in Nat
      BY <2>2, <2>5, HeaderEndFacts, LenProperties
    <3>3. \A j \in (HeaderEnd(b) + 1)..Len(b) : b[j] \in Byte
      BY <2>2, <3>2, ElementOfSeq
    <3>4. HeaderEnd(b) + 1 \in Int /\ Len(b) \in Int
      BY <3>2
    <3>5. rest \in Seq(Byte)
      BY <3>3, <3>4, SubSeqProperties
    <3>. HIDE DEF b, rest
    <3>6. w \in Object /\ SameOperations(z, w)
      BY <2>2, <3>5, ConsumeFacts DEF SameOperations
    <3>. HIDE DEF w
    <3>7. <<>> \in Seq(Byte)
      OBVIOUS
    <3>8. v \in Object /\ SameOperations(w, v)
      BY <3>6, <3>7 DEF Object, SameOperations
    <3>9. SameOperations(x, v)
      BY <2>2, <3>6, <3>8 DEF SameOperations
    <3>10. reconnect(z) \in Object
      BY <2>2, ReconnectFacts
    <3>. HIDE DEF v
    <3>11. y \in Object /\ (SameOperations(x, y) \/ y = reconnect(z))
      BY <3>1, <3>8, <3>9, <3>10
    <3>. QED
      BY <2>2, <3>11 DEF y
  <2>. QED
    BY <2>4, <2>5
<1>. QED
  BY <1>1, <1>2

\* Some operation of x is under way, or its handler will go on.
Live(x) == \/ \E k \in Kinds : x.pending[k] > 0
           \/ \E n \in 1..Len(x.ready) : x.ready[n].st # "aborted"

\* A transfer, as any other step of the chain, leaves something to wait for.
LEMMA TransferLive ==
    ASSUME NEW x \in Object, NEW k \in Kinds
    PROVE  Live(AsyncTransfer(x, k))
<1>. DEFINE y == AsyncTransfer(x, k)
<1>1. /\ y \in Object
      /\ \/ y.pending[k] = x.pending[k] + 1
         \/ y.ready = Append(x.ready, Done(k, "err"))
  BY TransferFacts
<1>. HIDE DEF y
<1>2. x.pending[k] \in Nat /\ x.ready \in Seq(Operation)
  BY DEF Object
<1>3. CASE y.pending[k] = x.pending[k] + 1
  BY <1>2, <1>3 DEF Live, y
<1>4. CASE y.ready = Append(x.ready, Done(k, "err"))
  <2>1. Done(k, "err") \in Operation /\ Done(k, "err").st # "aborted"
    BY DEF Done, Operation, Results
  <2>2. /\ Len(y.ready) = Len(x.ready) + 1 /\ Len(x.ready) \in Nat
        /\ y.ready[Len(x.ready) + 1] = Done(k, "err")
    BY <1>2, <1>4, <2>1, AppendProperties, LenProperties
  <2>3. Len(x.ready) + 1 \in 1..Len(y.ready)
    BY <2>2
  <2>. QED
    BY <2>1, <2>2, <2>3 DEF Live, y
<1>. QED
  BY <1>1, <1>3, <1>4

\* What every handler does: nothing when its operation was aborted; otherwise
\* it leaves something to wait for.  Only a timer leads to another attempt.
LEMMA HandlerFacts ==
    ASSUME NEW x \in Object, NEW o \in Operation, buffer_ \in Seq(Byte)
    PROVE  LET y == Handler(x, o)
           IN  /\ y \in Object /\ y.late = x.late
               /\ o.st = "aborted" => y = x
               /\ o.st # "aborted" => Live(y)
               /\ y.attempts = x.attempts + (IF o.kind = "timer" /\ o.st # "aborted" THEN 1 ELSE 0)
<1>. DEFINE Goes(y) == y \in Object /\ y.late = x.late /\ y.attempts = x.attempts /\ Live(y)
<1>1. /\ o.kind \in Kinds /\ o.st \in Results /\ x.attempts \in Nat
  BY DEF Operation, Object
<1>2. "write" \in Kinds /\ "read" \in Kinds /\ "timer" \in Kinds /\ "resolve" \in Kinds
      /\ "connect" \in Kinds
  BY DEF Kinds
<1>3. Goes(reconnect(x))
  BY <1>2, ReconnectFacts DEF Only, Live
<1>4. Goes(AsyncConnect(x))
  BY <1>2, AsyncConnectFacts DEF SameData, Live
<1>5. Goes(send_request(x)) /\ Goes(read(x))
  BY <1>2, TransferFacts, TransferLive DEF SameData, send_request, read
<1>6. Goes(read(handle_stream_bytes(x, buffer_)))
  <2>. DEFINE w == handle_stream_bytes(x, buffer_)
  <2>1. /\ w \in Object
        /\ \/ SameOperations(x, w)
           \/ \E z \in Object : /\ SameOperations(x, z) /\ z.delivered = x.delivered
                                /\ w = reconnect(z)
    BY ParserFacts
  <2>. HIDE DEF w
  <2>2. w.late = x.late /\ w.attempts = x.attempts
    BY <2>1, ReconnectFacts DEF SameOperations
  <2>3. /\ AsyncTransfer(w, "read") \in Object /\ SameData(w, AsyncTransfer(w, "read"))
        /\ Live(AsyncTransfer(w, "read"))
    BY <1>2, <2>1, TransferFacts, TransferLive
  <2>. QED
    BY <2>2, <2>3 DEF SameData, read, w
<1>7. /\ connect(x) \in Object /\ connect(x).late = x.late
      /\ connect(x).attempts = x.attempts + 1 /\ Live(connect(x))
  <2>1. x.pending["resolve"] \in Nat
    BY <1>2 DEF Object
  <2>. QED
    BY <1>2, <2>1, ConnectFacts DEF Live
<1>. HIDE DEF Goes
<1>8. CASE o.st = "aborted"
  <2>1. Handler(x, o) = x
    BY <1>1, <1>8 DEF Handler, on_resolve, on_connect, on_write, on_read, on_timer, Kinds
  <2>. QED
    BY <1>1, <1>8, <2>1
<1>9. CASE o.st # "aborted" /\ o.kind # "timer"
  <2>1. o.st = "ok" \/ o.st = "err"
    BY <1>1, <1>9 DEF Results
  <2>2. Goes(Handler(x, o))
    BY <1>1, <1>3, <1>4, <1>5, <1>6, <1>9, <2>1
       DEF Handler, on_resolve, on_connect, on_write, on_read, Kinds
  <2>. QED
    BY <1>1, <1>9, <2>2 DEF Goes
<1>10. CASE o.st # "aborted" /\ o.kind = "timer"
  <2>1. Handler(x, o) = connect(x)
    BY <1>10 DEF Handler, on_timer
  <2>. QED
    BY <1>7, <1>10, <2>1
<1>. QED
  BY <1>8, <1>9, <1>10

------------------------------------------------------------------------------
(* The inductive invariant. *)

\* x passed nothing of the latest connection on.
Older(x) == \A n \in 1..Len(x.delivered) : x.delivered[n].conn < Len(answers)

\* What was passed on is payload of accepted connections, without a gap.
Delivered(d) ==
    \A n \in 1..Len(d) :
        /\ d[n].conn \in 1..Len(answers) /\ answers[d[n].conn]
        /\ IF n = 1 \/ d[n].conn > d[n - 1].conn
           THEN d[n].pos = HeaderLen + 1
           ELSE d[n] = [conn |-> d[n - 1].conn, pos |-> d[n - 1].pos + 1]

\* The payload of the latest connection was passed on up to byte h.
PassedOn(x, h) ==
    /\ h >= HeaderLen
    /\ IF h = HeaderLen THEN Older(x)
       ELSE /\ Len(x.delivered) > 0
            /\ x.delivered[Len(x.delivered)] = [conn |-> Len(answers), pos |-> h]

\* The latest connection was handled up to byte h.
Received(x, h) ==
    /\ Len(answers) > 0
    /\ IF x.response_headers_complete_
       THEN answers[Len(answers)] /\ PassedOn(x, h)
       ELSE h < HeaderLen /\ x.response_buffer_ = Bytes(0, h) /\ Older(x)

\* A connection from which nothing was read.
Connected(x) == Fresh(x) /\ pos = 0 /\ Older(x) /\ Len(answers) > 0

\* While an operation of kind k is under way.
Before(x, k) == /\ k = "read" => Received(x, pos)
                /\ k # "read" => Fresh(x)
                /\ k = "write" => Connected(x)

\* While the handler of o waits to run.
After(x, o) ==
    /\ o.kind # "read" => Fresh(x)
    /\ o.kind = "timer" => x.slept
    /\ o.kind = "write" \/ o = Done("connect", "ok") => Connected(x)
    /\ o = Done("read", "ok") =>
          \E n \in 1..pos : buffer_ = Bytes(pos - n, n) /\ Received(x, pos - n)

\* The chain: one operation under way, or one completed; after a rejected answer
\* also the failure of a read besides the timer.
Waiting(x)   == \E k \in Kinds : Only(x, k) /\ AllAborted(x) /\ Before(x, k)
Completed(x) == \E o \in Operation : Idle(x) /\ OneReady(x, o) /\ After(x, o)
Rejected(x)  == Only(x, "timer") /\ OneReady(x, Done("read", "err")) /\ Fresh(x)

Chain(x) ==
    /\ Delivered(x.delivered)
    /\ x.attempts = 0 => Idle(x) /\ AllAborted(x)
    /\ x.attempts > 0 => Waiting(x) \/ Completed(x) \/ Rejected(x)

UnderWay(x) == x.attempts > 0 => Live(x)

IndInv == TypeInv /\ UnderWay(s) /\ (~s.late => Chain(s))

------------------------------------------------------------------------------
(* The queue of handlers. *)

\* Operations to handle, for the leaves below.
LEMMA DoneFacts ==
    ASSUME NEW k \in Kinds, NEW st \in Results
    PROVE  /\ Done(k, st) \in Operation /\ Done(k, st).kind = k /\ Done(k, st).st = st
BY DEF Done, Operation

\* A handler that comes after aborted ones only.
LEMMA OneAppended ==
    ASSUME NEW x \in Object, NEW y \in Object, NEW o \in Operation,
           AllAborted(x), o.st # "aborted", y.ready = Append(x.ready, o)
    PROVE  OneReady(y, o)
<1>1. x.ready \in Seq(Operation) /\ Len(x.ready) \in Nat
  BY LenProperties DEF Object
<1>2. /\ Len(y.ready) = Len(x.ready) + 1 /\ y.ready[Len(x.ready) + 1] = o
      /\ \A m \in 1..Len(x.ready) : y.ready[m] = x.ready[m]
  BY <1>1, AppendProperties
<1>3. Len(x.ready) + 1 \in 1..Len(y.ready)
  BY <1>1, <1>2
<1>4. \A m \in 1..Len(y.ready) : m # Len(x.ready) + 1 => m \in 1..Len(x.ready)
  BY <1>1, <1>2
<1>. QED
  BY <1>2, <1>3, <1>4 DEF OneReady, AllAborted

\* What is left after the first handler is taken out.
LEMMA HeadFacts ==
    ASSUME NEW x \in Object, x.ready # <<>>
    PROVE  LET y == [x EXCEPT !.ready = Tail(@)]
           IN  /\ y \in Object /\ Head(x.ready) \in Operation /\ SameData(x, y)
               /\ y.pending = x.pending /\ y.sock = x.sock /\ y.ready = Tail(x.ready)
               /\ AllAborted(x) => AllAborted(y) /\ Head(x.ready).st = "aborted"
               /\ \A o \in Operation : OneReady(x, o) =>
                     IF Head(x.ready).st = "aborted" THEN OneReady(y, o)
                     ELSE Head(x.ready) = o /\ AllAborted(y)
               /\ Live(x) => Live(y) \/ Head(x.ready).st # "aborted"
<1>. DEFINE y == [x EXCEPT !.ready = Tail(@)]
            q == x.ready
<1>1. q \in Seq(Operation) /\ q # <<>>
  BY DEF Object
<1>2. /\ Head(q) \in Operation /\ Tail(q) \in Seq(Operation)
      /\ Len(Tail(q)) = Len(q) - 1 /\ Len(q) \in Nat /\ Len(q) # 0
      /\ \A n \in 1..Len(Tail(q)) : Tail(q)[n] = q[n + 1]
      /\ Head(q) = q[1]
  BY <1>1, HeadTailProperties, EmptySeq, LenProperties
<1>3. /\ y \in Object /\ SameData(x, y) /\ y.pending = x.pending /\ y.sock = x.sock
      /\ y.ready = Tail(q)
  BY <1>2 DEF Object, SameData
<1>. HIDE DEF y
<1>4. /\ \A n \in 1..Len(y.ready) : n + 1 \in 1..Len(q) /\ y.ready[n] = q[n + 1] /\ n + 1 # 1
      /\ 1 \in 1..Len(q)
      /\ \A n \in 1..Len(q) : n # 1 => n - 1 \in 1..Len(y.ready) /\ y.ready[n - 1] = q[n]
  BY <1>2, <1>3
<1>5. ASSUME AllAborted(x) PROVE AllAborted(y) /\ Head(q).st = "aborted"
  <2>1. \A n \in 1..Len(q) : q[n].st = "aborted"
    BY <1>5 DEF AllAborted
  <2>2. \A n \in 1..Len(y.ready) : y.ready[n].st = "aborted"
    <3>. TAKE n \in 1..Len(y.ready)
    <3>1. n + 1 \in 1..Len(q) /\ y.ready[n] = q[n + 1]
      BY <1>4
    <3>. QED
      BY <2>1, <3>1
  <2>. QED
    BY <1>2, <1>4, <2>1, <2>2 DEF AllAborted
<1>6. ASSUME NEW o \in Operation, OneReady(x, o)
      PROVE  IF Head(q).st = "aborted" THEN OneReady(y, o) ELSE Head(q) = o /\ AllAborted(y)
  <2>1. PICK n \in 1..Len(q) : q[n] = o /\ \A m \in 1..Len(q) : m # n => q[m].st = "aborted"
    BY <1>6 DEF OneReady
  <2>2. CASE n = 1
    <3>1. Head(q) = o /\ o.st # "aborted"
      BY <1>2, <1>6, <2>1, <2>2 DEF OneReady
    <3>2. \A m \in 1..Len(y.ready) : y.ready[m].st = "aborted"
      <4>. TAKE m \in 1..Len(y.ready)
      <4>1. m + 1 \in 1..Len(q) /\ y.ready[m] = q[m + 1] /\ m + 1 # 1
        BY <1>4
      <4>. QED
        BY <2>1, <2>2, <4>1
    <3>. QED
      BY <3>1, <3>2 DEF AllAborted
  <2>3. CASE n # 1
    <3>1. n - 1 \in 1..Len(y.ready) /\ y.ready[n - 1] = o
      BY <1>4, <2>1, <2>3
    <3>2. \A m \in 1..Len(y.ready) : m # n - 1 => y.ready[m].st = "aborted"
      <4>. SUFFICES ASSUME NEW m \in 1..Len(y.ready), m # n - 1
                    PROVE  y.ready[m].st = "aborted"
        OBVIOUS
      <4>1. m + 1 \in 1..Len(q) /\ y.ready[m] = q[m + 1]
        BY <1>4
      <4>2. m + 1 # n
        OBVIOUS
      <4>. QED
        BY <2>1, <4>1, <4>2
    <3>3. Head(q).st = "aborted"
      BY <1>2, <1>4, <2>1, <2>3
    <3>. QED
      BY <1>6, <3>1, <3>2, <3>3 DEF OneReady
  <2>. QED
    BY <2>2, <2>3
<1>7. ASSUME Live(x), Head(q).st = "aborted" PROVE Live(y)
  <2>1. CASE \E k \in Kinds : x.pending[k] > 0
    BY <1>3, <2>1 DEF Live
  <2>2. CASE \E n \in 1..Len(q) : q[n].st # "aborted"
    <3>1. PICK n \in 1..Len(q) : q[n].st # "aborted"
      BY <2>2
    <3>2. n # 1
      BY <1>2, <1>7, <3>1
    <3>. QED
      BY <1>4, <3>1, <3>2 DEF Live
  <2>. QED
    BY <1>7, <2>1, <2>2 DEF Live
<1>. QED
  BY <1>2, <1>3, <1>5, <1>6, <1>7 DEF y

\* The completion of an operation.
LEMMA CompleteFacts ==
    ASSUME NEW k \in Kinds, NEW st \in {"ok", "err"}, s \in Object, s.pending[k] > 0
    PROVE  LET y == Complete(k, st)
           IN  /\ y \in Object /\ SameData(s, y) /\ y.sock = s.sock
               /\ y.pending[k] = s.pending[k] - 1
               /\ \A l \in Kinds \ {k} : y.pending[l] = s.pending[l]
               /\ Live(y)
               /\ AllAborted(s) => OneReady(y, Done(k, st))
<1>. DEFINE p == [s.pending EXCEPT ![k] = @ - 1]
            x == [s EXCEPT !.pending = p]
            y == Post(x, k, st)
<1>1. /\ s.pending \in [Kinds -> Nat] /\ st \in Results /\ st # "aborted"
      /\ s.ready \in Seq(Operation)
  BY DEF Object, Results
<1>2. /\ p \in [Kinds -> Nat] /\ p[k] = s.pending[k] - 1
      /\ \A l \in Kinds \ {k} : p[l] = s.pending[l]
  BY <1>1
<1>3. Complete(k, st) = y
  BY DEF Complete
<1>. HIDE DEF p
<1>4. x \in Object /\ SameData(s, x) /\ x.sock = s.sock /\ x.pending = p /\ x.ready = s.ready
  BY <1>2 DEF Object, SameData
<1>. HIDE DEF x
<1>5. /\ y \in Object /\ SameData(x, y) /\ y.ready = Append(x.ready, Done(k, st))
      /\ y.sock = x.sock /\ y.pending = x.pending
  BY <1>1, <1>4, PostFacts
<1>. HIDE DEF y
<1>6. Done(k, st) \in Operation /\ Done(k, st).st # "aborted"
  BY <1>1, DoneFacts
<1>7. SameData(s, y)
  BY <1>4, <1>5 DEF SameData
<1>8. AllAborted(s) => OneReady(y, Done(k, st))
  BY <1>4, <1>5, <1>6, OneAppended DEF AllAborted
<1>9. Live(y)
  <2>1. /\ Len(y.ready) = Len(s.ready) + 1 /\ Len(s.ready) \in Nat
        /\ y.ready[Len(s.ready) + 1] = Done(k, st)
    BY <1>1, <1>4, <1>5, <1>6, AppendProperties, LenProperties
  <2>2. Len(s.ready) + 1 \in 1..Len(y.ready)
    BY <2>1
  <2>. QED
    BY <1>6, <2>1, <2>2 DEF Live
<1>. QED
  BY <1>2, <1>3, <1>4, <1>5, <1>7, <1>8, <1>9 DEF y

------------------------------------------------------------------------------
(* What was passed on. *)

\* The bytes that follow what was passed on may be passed on.
LEMMA DeliveredMore ==
    ASSUME NEW x \in Object, NEW h \in Nat, NEW n \in Nat, answers \in Seq(BOOLEAN),
           Delivered(x.delivered), Len(answers) > 0, answers[Len(answers)], PassedOn(x, h),
           NEW y \in Object, y.delivered = x.delivered \o Bytes(h, n)
    PROVE  Delivered(y.delivered) /\ PassedOn(y, h + n)
<1>. DEFINE c == Len(answers)
            d == x.delivered
            b == Bytes(h, n)
            e == y.delivered
<1>1. c \in Nat /\ c \in 1..c /\ HeaderLen \in Nat \ {0} /\ h >= HeaderLen
  BY LenProperties, AsioAssumption DEF PassedOn
<1>2. d \in Seq(Byte) /\ Len(d) \in Nat
  BY LenProperties DEF Object
<1>3. /\ b \in Seq(Byte) /\ Len(b) = n
      /\ \A j \in 1..n : b[j] = [conn |-> c, pos |-> h + j]
  BY BytesFacts
<1>5. \A j \in 1..Len(d) : d[j].conn \in 1..c
  BY DEF Delivered
<1>6. /\ answers[c]
      /\ IF h = HeaderLen THEN \A j \in 1..Len(d) : d[j].conn < c
         ELSE Len(d) > 0 /\ d[Len(d)] = [conn |-> c, pos |-> h]
  BY DEF PassedOn, Older
<1>7. Delivered(d) /\ e = d \o b
  OBVIOUS
<1>. HIDE DEF b, c, d, e
<1>4. /\ Len(e) = Len(d) + n
      /\ \A j \in 1..(Len(d) + n) : e[j] = IF j <= Len(d) THEN d[j] ELSE b[j - Len(d)]
  BY <1>2, <1>3, <1>7, ConcatProperties
<1>8. \A j \in 1..Len(d) : e[j] = d[j]
  BY <1>2, <1>4
<1>9. \A j \in 1..n : e[Len(d) + j] = [conn |-> c, pos |-> h + j]
  <2>. SUFFICES ASSUME NEW j \in 1..n PROVE e[Len(d) + j] = [conn |-> c, pos |-> h + j]
    OBVIOUS
  <2>1. Len(d) + j \in 1..(Len(d) + n) /\ ~(Len(d) + j <= Len(d)) /\ (Len(d) + j) - Len(d) = j
    BY <1>2
  <2>. QED
    BY <1>3, <1>4, <2>1
<1>10. ASSUME NEW m \in 1..Len(e)
       PROVE  /\ e[m].conn \in 1..c /\ answers[e[m].conn]
              /\ IF m = 1 \/ e[m].conn > e[m - 1].conn
                 THEN e[m].pos = HeaderLen + 1
                 ELSE e[m] = [conn |-> e[m - 1].conn, pos |-> e[m - 1].pos + 1]
  <2>1. CASE m <= Len(d)
    <3>1. m \in 1..Len(d) /\ (m # 1 => m - 1 \in 1..Len(d))
      BY <1>2, <2>1
    <3>2. e[m] = d[m] /\ (m # 1 => e[m - 1] = d[m - 1])
      BY <1>8, <3>1
    <3>3. /\ d[m].conn \in 1..c /\ answers[d[m].conn]
          /\ IF m = 1 \/ d[m].conn > d[m - 1].conn
             THEN d[m].pos = HeaderLen + 1
             ELSE d[m] = [conn |-> d[m - 1].conn, pos |-> d[m - 1].pos + 1]
      BY <1>7, <3>1 DEF Delivered, c
    <3>. QED
      BY <3>2, <3>3
  <2>2. CASE m > Len(d)
    <3>. DEFINE j == m - Len(d)
    <3>1. j \in 1..n /\ m = Len(d) + j
      BY <1>2, <1>4, <2>2
    <3>2. e[m] = [conn |-> c, pos |-> h + j]
      BY <1>9, <3>1
    <3>3. CASE j > 1
      <4>1. j - 1 \in 1..n /\ m - 1 = Len(d) + (j - 1) /\ m # 1 /\ h + (j - 1) + 1 = h + j
        BY <1>2, <3>1, <3>3
      <4>2. e[m - 1] = [conn |-> c, pos |-> h + (j - 1)]
        BY <1>9, <4>1
      <4>. QED
        BY <1>1, <1>6, <3>2, <4>1, <4>2
    <3>4. CASE j = 1 /\ m = 1
      <4>1. Len(d) = 0
        BY <1>2, <3>1, <3>4
      <4>2. h = HeaderLen
        BY <1>6, <4>1
      <4>. QED
        BY <1>1, <1>6, <3>2, <3>4, <4>2
    <3>5. CASE j = 1 /\ m # 1
      <4>1. m - 1 = Len(d) /\ Len(d) \in 1..Len(d)
        BY <1>2, <3>1, <3>5
      <4>2. e[m - 1] = d[Len(d)]
        BY <1>8, <4>1
      <4>3. CASE h = HeaderLen
        <5>1. e[m - 1].conn < c /\ e[m - 1].conn \in 1..c
          BY <1>5, <1>6, <4>1, <4>2, <4>3
        <5>. QED
          BY <1>1, <1>6, <3>2, <3>5, <4>3, <5>1
      <4>4. CASE h # HeaderLen
        BY <1>1, <1>6, <3>2, <3>5, <4>2, <4>4
      <4>. QED
        BY <4>3, <4>4
    <3>6. j > 1 \/ j = 1
      BY <3>1
    <3>. QED
      BY <3>3, <3>4, <3>5, <3>6
  <2>. QED
    BY <1>2, <1>4, <2>1, <2>2
<1>11. Delivered(e)
  BY <1>10 DEF Delivered, c
<1>12. PassedOn(y, h + n)
  <2>1. CASE n = 0
    <3>1. Len(e) = Len(d) /\ h + n = h
      BY <1>2, <1>4, <2>1
    <3>2. \A j \in 1..Len(e) : e[j] = d[j]
      BY <1>8, <3>1
    <3>3. CASE h = HeaderLen
      BY <1>1, <1>6, <3>1, <3>2, <3>3 DEF PassedOn, Older, e, c
    <3>4. CASE h # HeaderLen
      <4>1. Len(e) > 0 /\ Len(e) \in 1..Len(e)
        BY <1>2, <1>6, <3>1, <3>4
      <4>2. e[Len(e)] = [conn |-> c, pos |-> h + n]
        BY <1>6, <3>1, <3>2, <3>4, <4>1
      <4>. QED
        BY <1>1, <3>1, <3>4, <4>1, <4>2 DEF PassedOn, e, c
    <3>. QED
      BY <3>3, <3>4
  <2>2. CASE n > 0
    <3>1. n \in 1..n /\ Len(e) = Len(d) + n /\ Len(e) > 0 /\ h + n >= HeaderLen
          /\ h + n # HeaderLen
      BY <1>1, <1>2, <1>4, <2>2
    <3>2. e[Len(e)] = [conn |-> c, pos |-> h + n]
      BY <1>9, <3>1
    <3>. QED
      BY <3>1, <3>2 DEF PassedOn, e, c
  <2>. QED
    BY <2>1, <2>2
<1>. QED
  BY <1>11, <1>12 DEF e

\* The parser takes the next bytes of the latest connection, or rejects it.
LEMMA ParserChain ==
    ASSUME NEW x \in Object, answers \in Seq(BOOLEAN), pos \in Nat, NEW n \in 1..pos,
           buffer_ = Bytes(pos - n, n), Received(x, pos - n), Delivered(x.delivered)
    PROVE  LET y == handle_stream_bytes(x, buffer_)
           IN  \/ /\ y \in Object /\ SameOperations(x, y)
                  /\ Received(y, pos) /\ Delivered(y.delivered)
               \/ \E z \in Object : /\ SameOperations(x, z) /\ z.delivered = x.delivered
                                    /\ y = reconnect(z)
<1>. DEFINE c == Len(answers)
            y == handle_stream_bytes(x, buffer_)
            z == [x EXCEPT !.response_buffer_ = @ \o buffer_]
<1>1. /\ c \in Nat /\ c > 0 /\ HeaderLen \in Nat \ {0} /\ n \in Nat /\ pos - n \in Nat
      /\ (pos - n) + n = pos /\ pos >= 1
  BY LenProperties, AsioAssumption DEF Received
<1>2. Bytes(pos - n, n) \in Seq(Byte)
  BY <1>1, BytesFacts
<1>3. CASE x.response_headers_complete_
  <2>1. y = Consume(x, buffer_)
    BY <1>3 DEF handle_stream_bytes
  <2>2. answers[c] /\ PassedOn(x, pos - n)
    BY <1>3 DEF Received
  <2>. HIDE DEF y
  <2>3. /\ y \in Object /\ SameOperations(x, y)
        /\ y.delivered = x.delivered \o Bytes(pos - n, n)
        /\ y.response_headers_complete_
    BY <1>2, <1>3, <2>1, ConsumeFacts DEF SameOperations
  <2>4. Delivered(y.delivered) /\ PassedOn(y, (pos - n) + n)
    BY <1>1, <2>2, <2>3, DeliveredMore
  <2>5. Received(y, pos)
    BY <1>1, <2>2, <2>3, <2>4 DEF Received
  <2>. QED
    BY <2>3, <2>4, <2>5 DEF y
<1>4. CASE ~x.response_headers_complete_
  <2>1. /\ pos - n < HeaderLen /\ x.response_buffer_ = Bytes(0, pos - n) /\ Older(x)
    BY <1>4 DEF Received
  <2>2. x.response_buffer_ \o buffer_ = Bytes(0, pos)
    <3>1. Bytes(0, pos - n) \o Bytes(0 + (pos - n), n) = Bytes(0, (pos - n) + n)
      BY <1>1, BytesJoined
    <3>2. 0 + (pos - n) = pos - n
      BY <1>1
    <3>. QED
      BY <1>1, <2>1, <3>1, <3>2
  <2>3. /\ Bytes(0, pos) \in Seq(Byte) /\ Len(Bytes(0, pos)) = pos
        /\ \A j \in 1..pos : Bytes(0, pos)[j] = [conn |-> c, pos |-> 0 + j]
    BY BytesFacts
  <2>4. z = [x EXCEPT !.response_buffer_ = Bytes(0, pos)]
    BY <2>2 DEF Object
  <2>5. y = IF HeaderEnds(z.response_buffer_) = {} THEN z ELSE EndOfHeader(z)
    BY <1>4 DEF handle_stream_bytes
  <2>. HIDE DEF y, z
  <2>6. /\ z \in Object /\ SameOperations(x, z) /\ z.delivered = x.delivered
        /\ z.response_buffer_ = Bytes(0, pos) /\ ~z.response_headers_complete_
    BY <1>4, <2>3, <2>4 DEF Object, SameOperations
  <2>7. Older(z)
    BY <2>1, <2>6 DEF Older
  <2>8. \A j : j \in HeaderEnds(Bytes(0, pos)) <=> j \in 1..pos /\ j = HeaderLen
    <3>1. DOMAIN Bytes(0, pos) = 1..pos
      BY <2>3, LenProperties
    <3>2. \A j \in 1..pos : Bytes(0, pos)[j].pos = j
      <4>. TAKE j \in 1..pos
      <4>1. Bytes(0, pos)[j] = [conn |-> c, pos |-> 0 + j]
        BY <2>3
      <4>2. Bytes(0, pos)[j].pos = 0 + j
        BY <4>1
      <4>. QED
        BY <4>2
    <3>. QED
      BY <3>1, <3>2 DEF HeaderEnds
  <2>9. CASE pos < HeaderLen
    <3>1. HeaderEnds(Bytes(0, pos)) = {}
      BY <1>1, <2>8, <2>9
    <3>2. y = z
      BY <2>5, <2>6, <3>1
    <3>3. Received(y, pos)
      BY <1>1, <2>6, <2>7, <2>9, <3>2 DEF Received
    <3>. QED
      BY <2>6, <3>2, <3>3 DEF y
  <2>10. CASE ~(pos < HeaderLen)
    <3>. DEFINE b == Bytes(0, pos)
                rest == SubSeq(b, HeaderLen + 1, pos)
                w == Consume(z, rest)
                v == [w EXCEPT !.response_headers_complete_ = TRUE, !.response_buffer_ = <<>>]
    <3>1. HeaderLen \in 1..pos /\ HeaderLen \in 0..pos /\ 1 \in 1..pos
      BY <1>1, <2>10
    <3>2. HeaderEnds(b) # {} /\ HeaderEnd(b) = HeaderLen
      <4>1. HeaderLen \in HeaderEnds(b)
        BY <2>8, <3>1
      <4>2. HeaderEnd(b) \in HeaderEnds(b)
        BY <2>3, <4>1, HeaderEndFacts
      <4>3. HeaderEnd(b) = HeaderLen
        BY <2>8, <4>2, Zenon
      <4>4. HeaderEnds(b) # {}
        BY <4>1, Zenon
      <4>. QED
        BY <4>3, <4>4
    <3>3. Accepted(b) = answers[c]
      <4>1. b[1] = [conn |-> c, pos |-> 0 + 1]
        BY <2>3, <3>1
      <4>2. b[1].conn = c
        BY <4>1
      <4>. QED
        BY <4>2 DEF Accepted
    <3>4. y = IF ~answers[c] THEN reconnect(z) ELSE v
      BY <2>3, <2>5, <2>6, <3>2, <3>3 DEF EndOfHeader
    <3>5. rest = Bytes(HeaderLen, pos - HeaderLen)
      BY <3>1, BytesAfter
    <3>6. pos - HeaderLen \in Nat /\ HeaderLen \in Nat /\ HeaderLen + (pos - HeaderLen) = pos
      BY <1>1, <2>10
    <3>7. rest \in Seq(Byte)
      BY <3>5, <3>6, BytesFacts
    <3>8. CASE ~answers[c]
      BY <2>6, <3>4, <3>8 DEF y
    <3>9. CASE answers[c]
      <4>. HIDE DEF b, rest
      <4>1. /\ w \in Object /\ SameOperations(z, w) /\ w.delivered = z.delivered \o rest
        BY <2>6, <3>7, ConsumeFacts DEF SameOperations
      <4>. HIDE DEF w
      <4>2. <<>> \in Seq(Byte)
        OBVIOUS
      <4>3. /\ v \in Object /\ SameOperations(w, v) /\ v.delivered = w.delivered
            /\ v.response_headers_complete_
        BY <4>1, <4>2 DEF Object, SameOperations
      <4>. HIDE DEF v
      <4>4. SameOperations(x, v)
        BY <2>6, <4>1, <4>3 DEF SameOperations
      <4>5. PassedOn(z, HeaderLen) /\ Delivered(z.delivered)
        BY <1>1, <2>6, <2>7 DEF PassedOn
      <4>6. v.delivered = z.delivered \o Bytes(HeaderLen, pos - HeaderLen)
        BY <3>5, <4>1, <4>3
      <4>7. Delivered(v.delivered) /\ PassedOn(v, HeaderLen + (pos - HeaderLen))
        BY <1>1, <2>6, <3>6, <3>9, <4>3, <4>5, <4>6, DeliveredMore
      <4>8. Received(v, pos)
        BY <1>1, <3>6, <3>9, <4>3, <4>7 DEF Received
      <4>. QED
        BY <3>4, <3>9, <4>3, <4>4, <4>7, <4>8 DEF y
    <3>. QED
      BY <3>8, <3>9
  <2>. QED
    BY <2>9, <2>10
<1>. QED
  BY <1>3, <1>4

------------------------------------------------------------------------------
(* The links of the chain. *)

\* A transfer that is started in a quiet state is the next link, whatever the
\* socket.
LEMMA TransferLink ==
    ASSUME NEW x \in Object, NEW k \in {"write", "read"}, Idle(x), AllAborted(x), x.attempts > 0,
           k = "write" => Connected(x), k = "read" => Received(x, pos), Delivered(x.delivered)
    PROVE  AsyncTransfer(x, k) \in Object /\ Chain(AsyncTransfer(x, k))
<1>. DEFINE y == AsyncTransfer(x, k)
<1>1. k \in Kinds /\ "err" \in Results /\ "err" # "aborted"
  BY DEF Kinds, Results
<1>2. /\ y \in Object /\ SameData(x, y)
      /\ \/ /\ y.ready = x.ready /\ y.pending[k] = x.pending[k] + 1
            /\ \A l \in Kinds \ {k} : y.pending[l] = x.pending[l]
         \/ y.pending = x.pending /\ y.ready = Append(x.ready, Done(k, "err"))
  BY <1>1, TransferFacts
<1>. HIDE DEF y
<1>3. /\ y.attempts > 0 /\ Delivered(y.delivered) /\ y.attempts \in Nat
      /\ (k = "write" => Connected(y)) /\ (k = "read" => Received(y, pos))
  BY <1>2 DEF SameData, Connected, Received, PassedOn, Older, Fresh, Object
<1>4. CASE /\ y.ready = x.ready /\ y.pending[k] = x.pending[k] + 1
           /\ \A l \in Kinds \ {k} : y.pending[l] = x.pending[l]
  <2>1. Only(y, k) /\ AllAborted(y)
    BY <1>1, <1>4 DEF Only, Idle, AllAborted
  <2>2. Before(y, k)
    BY <1>3 DEF Before, Connected
  <2>3. Waiting(y)
    BY <1>1, <2>1, <2>2 DEF Waiting
  <2>. QED
    BY <1>2, <1>3, <2>3 DEF Chain, y
<1>5. CASE y.pending = x.pending /\ y.ready = Append(x.ready, Done(k, "err"))
  <2>1. /\ Done(k, "err") \in Operation /\ Done(k, "err").kind = k
        /\ Done(k, "err").st = "err"
    BY <1>1, DoneFacts
  <2>2. Idle(y) /\ OneReady(y, Done(k, "err"))
    BY <1>2, <1>5, <2>1, OneAppended DEF Idle
  <2>3. Done(k, "err") # Done("connect", "ok") /\ Done(k, "err") # Done("read", "ok")
    BY DEF Done
  <2>4. After(y, Done(k, "err"))
    BY <1>3, <2>1, <2>3 DEF After, Connected
  <2>5. Completed(y)
    BY <2>1, <2>2, <2>4 DEF Completed
  <2>. QED
    BY <1>2, <1>3, <2>5 DEF Chain, y
<1>. QED
  BY <1>2, <1>4, <1>5

\* reconnect() starts the chain anew.
LEMMA ReconnectLink ==
    ASSUME NEW x \in Object, AllAborted(x), x.attempts > 0, Delivered(x.delivered)
    PROVE  Chain(reconnect(x))
<1>. DEFINE y == reconnect(x)
<1>1. /\ y \in Object /\ Only(y, "timer") /\ Fresh(y) /\ y.attempts = x.attempts
      /\ y.delivered = x.delivered /\ AllAborted(y)
  BY ReconnectFacts
<1>. HIDE DEF y
<1>2. "timer" \in Kinds /\ Before(y, "timer") /\ x.attempts \in Nat
  BY <1>1 DEF Kinds, Before, Object
<1>3. Waiting(y)
  BY <1>1, <1>2 DEF Waiting
<1>. QED
  BY <1>1, <1>2, <1>3 DEF Chain, y

\* connect() does, too.
LEMMA ConnectLink ==
    ASSUME NEW x \in Object, Idle(x), AllAborted(x), Delivered(x.delivered)
    PROVE  Chain(connect(x))
<1>. DEFINE y == connect(x)
<1>1. /\ y \in Object /\ Fresh(y) /\ y.ready = x.ready
      /\ y.pending["resolve"] = x.pending["resolve"] + 1
      /\ \A l \in Kinds \ {"resolve"} : y.pending[l] = x.pending[l]
      /\ y.attempts = x.attempts + 1 /\ y.delivered = x.delivered
  BY ConnectFacts
<1>. HIDE DEF y
<1>2. "resolve" \in Kinds /\ Before(y, "resolve") /\ x.attempts \in Nat
  BY <1>1 DEF Kinds, Before, Object
<1>3. Only(y, "resolve") /\ AllAborted(y)
  BY <1>1, <1>2 DEF Only, Idle, AllAborted
<1>4. Waiting(y)
  BY <1>2, <1>3 DEF Waiting
<1>. QED
  BY <1>1, <1>2, <1>4 DEF Chain, y

\* The name is resolved.
LEMMA AsyncConnectLink ==
    ASSUME NEW x \in Object, Idle(x), AllAborted(x), Fresh(x), x.attempts > 0,
           Delivered(x.delivered)
    PROVE  Chain(AsyncConnect(x))
<1>. DEFINE y == AsyncConnect(x)
<1>1. /\ y \in Object /\ SameData(x, y) /\ y.pending["connect"] = 1
      /\ y.pending["write"] = 0 /\ y.pending["read"] = 0
      /\ y.pending["resolve"] = x.pending["resolve"]
      /\ y.pending["timer"] = x.pending["timer"] /\ AllAborted(y)
  BY AsyncConnectFacts
<1>. HIDE DEF y
<1>2. "connect" \in Kinds /\ Only(y, "connect")
  BY <1>1 DEF Kinds, Only, Idle
<1>3. Before(y, "connect") /\ y.attempts > 0 /\ Delivered(y.delivered) /\ y.attempts \in Nat
  BY <1>1 DEF Before, Fresh, SameData, Object
<1>4. Waiting(y)
  BY <1>1, <1>2, <1>3 DEF Waiting
<1>. QED
  BY <1>3, <1>4 DEF Chain, y

\* Bytes were read: the next read follows, or the answer was rejected, and the
\* read that follows all the same fails on the closed socket.
LEMMA ReadLink ==
    ASSUME NEW x \in Object, Idle(x), AllAborted(x), x.attempts > 0, Delivered(x.delivered),
           answers \in Seq(BOOLEAN), pos \in Nat, NEW n \in 1..pos,
           buffer_ = Bytes(pos - n, n), Received(x, pos - n)
    PROVE  Chain(read(handle_stream_bytes(x, buffer_)))
<1>. DEFINE y == handle_stream_bytes(x, buffer_)
<1>1. \/ /\ y \in Object /\ SameOperations(x, y) /\ Received(y, pos) /\ Delivered(y.delivered)
      \/ \E z \in Object : /\ SameOperations(x, z) /\ z.delivered = x.delivered
                           /\ y = reconnect(z)
  BY ParserChain
<1>. HIDE DEF y
<1>2. CASE /\ y \in Object /\ SameOperations(x, y) /\ Received(y, pos)
           /\ Delivered(y.delivered)
  <2>1. Idle(y) /\ AllAborted(y) /\ y.attempts > 0
    BY <1>2 DEF Idle, AllAborted, SameOperations
  <2>2. Chain(AsyncTransfer(y, "read"))
    BY <1>2, <2>1, TransferLink
  <2>. QED
    BY <2>2 DEF read, y
<1>3. ASSUME NEW z \in Object, SameOperations(x, z), z.delivered = x.delivered, y = reconnect(z)
      PROVE  Chain(read(y))
  <2>. DEFINE w == AsyncTransfer(y, "read")
  <2>1. AllAborted(z) /\ z.attempts > 0 /\ Delivered(z.delivered)
    BY <1>3 DEF AllAborted, SameOperations
  <2>2. /\ y \in Object /\ Only(y, "timer") /\ Fresh(y) /\ y.attempts = z.attempts
        /\ y.delivered = z.delivered /\ AllAborted(y) /\ y.sock = "closed"
    BY <1>3, <2>1, ReconnectFacts
  <2>3. "read" \in Kinds /\ "err" \in Results /\ "err" # "aborted" /\ y.sock # "up"
    BY <2>2 DEF Kinds, Results
  <2>4. /\ w \in Object /\ SameData(y, w) /\ w.pending = y.pending
        /\ w.ready = Append(y.ready, Done("read", "err"))
    BY <2>2, <2>3, TransferFacts
  <2>. HIDE DEF w
  <2>5. Done("read", "err") \in Operation /\ Done("read", "err").st = "err"
    BY <2>3, DoneFacts
  <2>6. OneReady(w, Done("read", "err"))
    BY <2>2, <2>3, <2>4, <2>5, OneAppended
  <2>7. Only(w, "timer") /\ Fresh(w) /\ w.attempts > 0 /\ Delivered(w.delivered) /\ w.attempts \in Nat
    BY <2>1, <2>2, <2>4 DEF Only, Fresh, SameData, Object
  <2>8. Rejected(w)
    BY <2>6, <2>7 DEF Rejected
  <2>. QED
    BY <2>7, <2>8 DEF Chain, read, w
<1>. QED
  BY <1>1, <1>2, <1>3 DEF y

------------------------------------------------------------------------------
(* Every step, on any loop. *)

\* Types, and something to wait for, initially.
LEMMA InitInv == Init => IndInv
<1>. SUFFICES ASSUME Init PROVE IndInv
  OBVIOUS
<1>1. PICK l \in Loops :
        s = [pending |-> NoOps, ready |-> <<>>, sock |-> "closed",
             slept |-> FALSE, late |-> l,
             response_headers_complete_ |-> FALSE, response_buffer_ |-> <<>>,
             delay_ |-> MinDelay, attempts |-> 0, delivered |-> <<>>]
  BY DEF Init
<1>2. /\ l \in BOOLEAN /\ MinDelay \in MinDelay..MaxDelay
      /\ NoOps \in [Kinds -> Nat]
  BY AsioAssumption, DelayAssumption DEF NoOps
<1>3. /\ <<>> \in Seq(Operation) /\ <<>> \in Seq(Byte) /\ <<>> \in Seq(BOOLEAN)
      /\ Len(<<>>) = 0 /\ 1..0 = {}
  OBVIOUS
<1>4. TypeInv
  BY <1>1, <1>2, <1>3 DEF TypeInv, Object, Init
<1>5. s.attempts = 0 /\ s.ready = <<>> /\ s.delivered = <<>> /\ s.pending = NoOps
  BY <1>1
<1>6. Idle(s)
  BY <1>5 DEF Idle, NoOps
<1>7. AllAborted(s) /\ Delivered(s.delivered)
  BY <1>3, <1>5 DEF AllAborted, Delivered
<1>. QED
  BY <1>4, <1>5, <1>6, <1>7 DEF IndInv, UnderWay, Chain

\* What every step keeps on every loop.
Kept == TypeInv' /\ UnderWay(s)' /\ s'.late = s.late

\* Completions keep the types and are to be handled.
LEMMA CompletionKept ==
    ASSUME TypeInv, NEW k \in Kinds, NEW st \in {"ok", "err"}, s.pending[k] > 0
    PROVE  LET y == Complete(k, st)
           IN  y \in Object /\ y.late = s.late /\ Live(y) /\ y.attempts = s.attempts
BY CompleteFacts DEF TypeInv, SameData

\* The network and the clock.
LEMMA NetworkKept ==
    ASSUME TypeInv, UnderWay(s), Network \/ TimerExpires
    PROVE  Kept
<1>. USE DEF TypeInv
<1>1. "resolve" \in Kinds /\ "connect" \in Kinds /\ "write" \in Kinds /\ "read" \in Kinds
      /\ "timer" \in Kinds
  BY DEF Kinds
<1>2. CASE ResolveDone
  BY <1>1, <1>2, CompletionKept DEF ResolveDone, Kept, UnderWay, Live
<1>3. CASE ConnectDone
  <2>1. /\ s.pending["connect"] > 0 /\ buffer_' = buffer_
        /\ \/ /\ s' = [Complete("connect", "ok") EXCEPT !.sock = "up"]
              /\ \E accept \in BOOLEAN : answers' = Append(answers, accept)
              /\ pos' = 0
           \/ s' = Complete("connect", "err") /\ answers' = answers /\ pos' = pos
    BY <1>3 DEF ConnectDone
  <2>2. CASE /\ s' = [Complete("connect", "ok") EXCEPT !.sock = "up"]
             /\ \E accept \in BOOLEAN : answers' = Append(answers, accept)
             /\ pos' = 0
    <3>. DEFINE y == Complete("connect", "ok")
    <3>1. y \in Object /\ y.late = s.late /\ Live(y) /\ y.attempts = s.attempts
      BY <1>1, <2>1, CompletionKept
    <3>2. s' = [y EXCEPT !.sock = "up"]
      BY <2>2
    <3>. HIDE DEF y
    <3>3. /\ s' \in Object /\ s'.late = y.late /\ s'.attempts = y.attempts
          /\ s'.pending = y.pending /\ s'.ready = y.ready
      BY <3>1, <3>2 DEF Object
    <3>4. answers' \in Seq(BOOLEAN)
      BY <2>2, AppendProperties
    <3>. QED
      BY <2>1, <2>2, <3>1, <3>3, <3>4 DEF Kept, UnderWay, Live
  <2>3. CASE s' = Complete("connect", "err") /\ answers' = answers /\ pos' = pos
    BY <1>1, <2>1, <2>3, CompletionKept DEF Kept, UnderWay, Live
  <2>. QED
    BY <2>1, <2>2, <2>3
<1>4. CASE WriteDone
  BY <1>1, <1>4, CompletionKept DEF WriteDone, Kept, UnderWay, Live
<1>5. CASE ReadDone
  <2>1. /\ s.pending["read"] > 0 /\ answers' = answers
        /\ \/ \E n \in 1..MaxRead : /\ s' = Complete("read", "ok")
                                    /\ buffer_' = Bytes(pos, n) /\ pos' = pos + n
           \/ s' = Complete("read", "err") /\ pos' = pos /\ buffer_' = buffer_
    BY <1>5 DEF ReadDone
  <2>2. s' \in Object /\ s'.late = s.late /\ Live(s') /\ s'.attempts = s.attempts
    BY <1>1, <2>1, CompletionKept
  <2>3. pos' \in Nat /\ buffer_' \in Seq(Byte)
    <3>1. CASE \E n \in 1..MaxRead : buffer_' = Bytes(pos, n) /\ pos' = pos + n
      BY <3>1, AsioAssumption, BytesFacts
    <3>. QED
      BY <2>1, <3>1
  <2>. QED
    BY <2>1, <2>2, <2>3 DEF Kept, UnderWay, Live
<1>6. CASE TimerExpires
  <2>. DEFINE y == Complete("timer", "ok")
  <2>1. y \in Object /\ y.late = s.late /\ Live(y) /\ y.attempts = s.attempts
    BY <1>1, <1>6, CompletionKept DEF TimerExpires
  <2>2. s' = [y EXCEPT !.slept = TRUE] /\ UNCHANGED <<answers, pos, buffer_>>
    BY <1>6 DEF TimerExpires
  <2>. HIDE DEF y
  <2>3. /\ s' \in Object /\ s'.late = y.late /\ s'.attempts = y.attempts
        /\ s'.pending = y.pending /\ s'.ready = y.ready
    BY <2>1, <2>2 DEF Object
  <2>. QED
    BY <2>1, <2>2, <2>3 DEF Kept, UnderWay, Live
<1>. QED
  BY <1>2, <1>3, <1>4, <1>5, <1>6 DEF Network

\* The handlers.
LEMMA HandlersKept ==
    ASSUME TypeInv, UnderWay(s), ntripConnection_Consume \/ RunHandler
    PROVE  Kept
<1>. USE DEF TypeInv
<1>1. CASE ntripConnection_Consume
  <2>1. s' = connect(s) /\ UNCHANGED <<answers, pos, buffer_>>
    BY <1>1 DEF ntripConnection_Consume
  <2>2. /\ s' \in Object /\ s'.late = s.late
        /\ s'.pending["resolve"] = s.pending["resolve"] + 1
    BY <2>1, ConnectFacts
  <2>a. "resolve" \in Kinds /\ s.pending["resolve"] \in Nat
    BY DEF Kinds, Object
  <2>3. s'.pending["resolve"] > 0
    BY <2>2, <2>a
  <2>. QED
    BY <2>1, <2>2, <2>3, <2>a DEF Kept, UnderWay, Live
<1>2. CASE RunHandler
  <2>. DEFINE x == [s EXCEPT !.ready = Tail(@)]
              o == Head(s.ready)
  <2>1. s.ready # <<>> /\ s' = Handler(x, o) /\ UNCHANGED <<answers, pos, buffer_>>
    BY <1>2 DEF RunHandler
  <2>2. /\ x \in Object /\ o \in Operation /\ SameData(s, x)
        /\ Live(s) => Live(x) \/ o.st # "aborted"
    BY <2>1, HeadFacts
  <2>. HIDE DEF x, o
  <2>3. /\ Handler(x, o) \in Object /\ Handler(x, o).late = x.late
        /\ o.st = "aborted" => Handler(x, o) = x
        /\ o.st # "aborted" => Live(Handler(x, o))
    BY <2>2, HandlerFacts
  <2>4. s' \in Object /\ s'.late = s.late
    BY <2>1, <2>2, <2>3 DEF SameData
  <2>5. s'.attempts > 0 => Live(s')
    BY <2>1, <2>2, <2>3 DEF SameData, UnderWay
  <2>. QED
    BY <2>1, <2>4, <2>5 DEF Kept, UnderWay, Live
<1>. QED
  BY <1>1, <1>2

------------------------------------------------------------------------------
(* Every step of a loop that is not late. *)

\* A handler touches neither the connections nor what was read.
LEMMA HandlerMoves ==
    ASSUME NEW y, s' = y, UNCHANGED <<answers, pos, buffer_>>, Chain(y)
    PROVE  Chain(s)'
<1>1. answers' = answers /\ pos' = pos /\ buffer_' = buffer_ /\ s' = y
  OBVIOUS
<1>2. Delivered(s.delivered)'
  BY <1>1 DEF Chain, Delivered
<1>3. \A h : Received(s, h)' <=> Received(y, h)
  BY <1>1 DEF Received, PassedOn, Older, Bytes
<1>4. Connected(s)' <=> Connected(y)
  BY <1>1 DEF Connected, Older, Fresh
<1>5. ASSUME Waiting(y) PROVE Waiting(s)'
  <2>1. PICK k \in Kinds : Only(y, k) /\ AllAborted(y) /\ Before(y, k)
    BY <1>5 DEF Waiting
  <2>2. Before(s, k)'
    BY <1>1, <1>3, <1>4, <2>1 DEF Before, Fresh
  <2>. QED
    BY <1>1, <2>1, <2>2 DEF Waiting, Only, AllAborted
<1>6. ASSUME Completed(y) PROVE Completed(s)'
  <2>1. PICK o \in Operation : Idle(y) /\ OneReady(y, o) /\ After(y, o)
    BY <1>6 DEF Completed
  <2>2. ASSUME o = Done("read", "ok")
        PROVE  \E n \in 1..pos' : buffer_' = Bytes(pos - n, n)' /\ Received(s, pos - n)'
    <3>1. PICK n \in 1..pos : buffer_ = Bytes(pos - n, n) /\ Received(y, pos - n)
      BY <2>1, <2>2 DEF After
    <3>2. buffer_' = Bytes(pos - n, n)'
      BY <1>1, <3>1 DEF Bytes
    <3>3. Received(s, pos - n)'
      BY <1>1, <3>1 DEF Received, PassedOn, Older, Bytes
    <3>. QED
      BY <1>1, <3>1, <3>2, <3>3
  <2>3. After(s, o)'
    BY <1>1, <1>4, <2>1, <2>2 DEF After, Fresh
  <2>. QED
    BY <1>1, <2>1, <2>3 DEF Completed, Idle, OneReady
<1>7. Rejected(y) => Rejected(s)'
  BY <1>1 DEF Rejected, Only, OneReady, Fresh, Done
<1>. QED
  BY <1>1, <1>2, <1>5, <1>6, <1>7 DEF Chain, Idle, AllAborted

\* A handler whose operation was aborted leaves the chain as it is.
LEMMA AbortedHandler ==
    ASSUME s \in Object, Chain(s), s.ready # <<>>, Head(s.ready).st = "aborted"
    PROVE  Chain([s EXCEPT !.ready = Tail(@)])
<1>. DEFINE x == [s EXCEPT !.ready = Tail(@)]
<1>1. /\ x \in Object /\ SameData(s, x) /\ x.pending = s.pending
      /\ AllAborted(s) => AllAborted(x)
      /\ \A o \in Operation : OneReady(s, o) => OneReady(x, o)
  BY HeadFacts
<1>. HIDE DEF x
<1>2. /\ Delivered(x.delivered) /\ x.attempts = s.attempts
      /\ Idle(s) => Idle(x)
      /\ \A k : Only(s, k) => Only(x, k)
      /\ Fresh(s) => Fresh(x)
      /\ Connected(s) => Connected(x)
      /\ \A h : Received(s, h) => Received(x, h)
  BY <1>1 DEF Chain, SameData, Idle, Only, Fresh, Connected, Older, Received, PassedOn
<1>3. Waiting(s) => Waiting(x)
  BY <1>1, <1>2 DEF Waiting, Before
<1>4. ASSUME Completed(s) PROVE Completed(x)
  <2>1. PICK o \in Operation : Idle(s) /\ OneReady(s, o) /\ After(s, o)
    BY <1>4 DEF Completed
  <2>2. o = Done("read", "ok") =>
          \E n \in 1..pos : buffer_ = Bytes(pos - n, n) /\ Received(x, pos - n)
    BY <1>2, <2>1 DEF After
  <2>3. After(x, o)
    BY <1>1, <1>2, <2>1, <2>2 DEF After, SameData
  <2>. QED
    BY <1>1, <1>2, <2>1, <2>3 DEF Completed
<1>5. Rejected(s) => Rejected(x)
  <2>1. Done("read", "err") \in Operation
    BY DoneFacts DEF Kinds, Results
  <2>. QED
    BY <1>1, <1>2, <2>1 DEF Rejected
<1>6. Chain(x)
  BY <1>1, <1>2, <1>3, <1>4, <1>5 DEF Chain
<1>. QED
  BY <1>6 DEF x

\* The handler of an operation that was not aborted adds the next link.
LEMMA LiveHandler ==
    ASSUME s \in Object, answers \in Seq(BOOLEAN), pos \in Nat, Chain(s),
           s.ready # <<>>, Head(s.ready).st # "aborted"
    PROVE  Chain(Handler([s EXCEPT !.ready = Tail(@)], Head(s.ready)))
<1>. DEFINE x == [s EXCEPT !.ready = Tail(@)]
            o == Head(s.ready)
<1>1. /\ x \in Object /\ o \in Operation /\ SameData(s, x) /\ x.pending = s.pending
      /\ ~AllAborted(s)
      /\ \A p \in Operation : OneReady(s, p) => o = p /\ AllAborted(x)
  BY HeadFacts
<1>2. o.st # "aborted" /\ s.attempts \in Nat
  BY DEF Object
<1>. HIDE DEF x, o
<1>3. /\ s.attempts > 0 /\ x.attempts > 0 /\ Delivered(x.delivered)
      /\ Completed(s) \/ Rejected(s)
  BY <1>1, <1>2 DEF Chain, Waiting, SameData
<1>4. o.kind \in Kinds /\ o.st \in {"ok", "err"} /\ o = [kind |-> o.kind, st |-> o.st]
  BY <1>1, <1>2 DEF Operation, Results
<1>5. CASE Rejected(s)
  <2>1. Done("read", "err") \in Operation
    BY DoneFacts DEF Kinds, Results
  <2>2. o = Done("read", "err") /\ AllAborted(x)
    BY <1>1, <1>5, <2>1 DEF Rejected
  <2>3. Handler(x, o) = reconnect(x)
    BY <2>2 DEF Handler, on_read, Done
  <2>4. Chain(reconnect(x))
    BY <1>1, <1>3, <2>2, ReconnectLink
  <2>. QED
    BY <2>3, <2>4 DEF x, o
<1>6. CASE Completed(s)
  <2>1. PICK p \in Operation : Idle(s) /\ OneReady(s, p) /\ After(s, p)
    BY <1>6 DEF Completed
  <2>2. Idle(x) /\ AllAborted(x) /\ After(s, o)
    BY <1>1, <2>1 DEF Idle
  <2>3. /\ Fresh(s) => Fresh(x)
        /\ Connected(s) => Connected(x)
        /\ \A h : Received(s, h) => Received(x, h)
    BY <1>1 DEF SameData, Fresh, Connected, Older, Received, PassedOn
  <2>4. CASE o.st = "err" /\ o.kind # "timer"
    <3>1. Handler(x, o) = reconnect(x)
      BY <1>4, <2>4 DEF Handler, on_resolve, on_connect, on_write, on_read, Kinds
    <3>2. Chain(reconnect(x))
      BY <1>1, <1>3, <2>2, ReconnectLink
    <3>. QED
      BY <3>1, <3>2 DEF x, o
  <2>5. CASE o.kind = "timer"
    <3>1. Handler(x, o) = connect(x)
      BY <1>2, <2>5 DEF Handler, on_timer
    <3>2. Chain(connect(x))
      BY <1>1, <1>3, <2>2, ConnectLink
    <3>. QED
      BY <3>1, <3>2 DEF x, o
  <2>6. CASE o.st = "ok" /\ o.kind = "resolve"
    <3>1. Handler(x, o) = AsyncConnect(x)
      BY <2>6 DEF Handler, on_resolve
    <3>2. Fresh(x)
      BY <2>2, <2>3, <2>6 DEF After
    <3>3. Chain(AsyncConnect(x))
      BY <1>1, <1>3, <2>2, <3>2, AsyncConnectLink
    <3>. QED
      BY <3>1, <3>3 DEF x, o
  <2>7. CASE o.st = "ok" /\ o.kind = "connect"
    <3>1. Handler(x, o) = AsyncTransfer(x, "write")
      BY <2>7 DEF Handler, on_connect, send_request
    <3>2. Connected(x)
      BY <1>4, <2>2, <2>3, <2>7 DEF After, Done
    <3>3. Chain(AsyncTransfer(x, "write"))
      BY <1>1, <1>3, <2>2, <3>2, TransferLink
    <3>. QED
      BY <3>1, <3>3 DEF x, o
  <2>8. CASE o.st = "ok" /\ o.kind = "write"
    <3>1. Handler(x, o) = AsyncTransfer(x, "read")
      BY <2>8 DEF Handler, on_write, read
    <3>2. Connected(x)
      BY <2>2, <2>3, <2>8 DEF After
    <3>3. Bytes(0, 0) = <<>>
      <4>1. Bytes(0, 0) \in Seq(Byte) /\ Len(Bytes(0, 0)) = 0
        BY BytesFacts
      <4>. QED
        BY <4>1, EmptySeq
    <3>4. Received(x, pos)
      BY <3>2, <3>3, AsioAssumption DEF Connected, Received, Fresh
    <3>5. Chain(AsyncTransfer(x, "read"))
      BY <1>1, <1>3, <2>2, <3>4, TransferLink
    <3>. QED
      BY <3>1, <3>5 DEF x, o
  <2>9. CASE o.st = "ok" /\ o.kind = "read"
    <3>1. Handler(x, o) = read(handle_stream_bytes(x, buffer_))
      BY <2>9 DEF Handler, on_read
    <3>2. PICK n \in 1..pos : buffer_ = Bytes(pos - n, n) /\ Received(x, pos - n)
      BY <1>4, <2>2, <2>3, <2>9 DEF After, Done
    <3>3. Chain(read(handle_stream_bytes(x, buffer_)))
      BY <1>1, <1>3, <2>2, <3>2, ReadLink
    <3>. QED
      BY <3>1, <3>3 DEF x, o
  <2>. QED
    BY <1>4, <2>4, <2>5, <2>6, <2>7, <2>8, <2>9 DEF Kinds
<1>. QED
  BY <1>3, <1>5, <1>6

\* The steps of the loop keep the chain.
LEMMA HandlersChain ==
    ASSUME TypeInv, Chain(s), ntripConnection_Consume \/ RunHandler
    PROVE  Chain(s)'
<1>1. CASE ntripConnection_Consume
  <2>1. s' = connect(s) /\ UNCHANGED <<answers, pos, buffer_>> /\ s.attempts = 0
    BY <1>1 DEF ntripConnection_Consume
  <2>2. Chain(connect(s))
    BY <2>1, ConnectLink DEF Chain, TypeInv
  <2>. QED
    BY <2>1, <2>2, HandlerMoves
<1>2. CASE RunHandler
  <2>. DEFINE x == [s EXCEPT !.ready = Tail(@)]
              o == Head(s.ready)
              y == Handler(x, o)
  <2>1. s.ready # <<>> /\ s' = y /\ UNCHANGED <<answers, pos, buffer_>>
    BY <1>2 DEF RunHandler
  <2>2. CASE o.st = "aborted"
    <3>1. Chain(x)
      BY <2>1, <2>2, AbortedHandler DEF TypeInv
    <3>2. x \in Object /\ o \in Operation
      BY <2>1, HeadFacts DEF TypeInv
    <3>3. y = x
      BY <2>2, <3>2, HandlerFacts DEF TypeInv
    <3>. QED
      BY <2>1, <3>1, <3>3, HandlerMoves
  <2>3. CASE o.st # "aborted"
    <3>1. Chain(y)
      BY <2>1, <2>3, LiveHandler DEF TypeInv
    <3>. HIDE DEF y
    <3>. QED
      BY <2>1, <3>1, HandlerMoves
  <2>. QED
    BY <2>2, <2>3
<1>. QED
  BY <1>1, <1>2

\* What completes is the one operation under way.
LEMMA CompletionLink ==
    ASSUME TypeInv, Chain(s), NEW k \in Kinds, NEW st \in {"ok", "err"}, s.pending[k] > 0,
           k = "timer" => s.ready = <<>>
    PROVE  LET y == Complete(k, st)
           IN  /\ s.attempts > 0 /\ Before(s, k) /\ Delivered(s.delivered)
               /\ y \in Object /\ SameData(s, y)
               /\ Idle(y) /\ OneReady(y, Done(k, st)) /\ Done(k, st) \in Operation
<1>. DEFINE y == Complete(k, st)
<1>1. /\ y \in Object /\ SameData(s, y)
      /\ y.pending[k] = s.pending[k] - 1
      /\ \A l \in Kinds \ {k} : y.pending[l] = s.pending[l]
      /\ AllAborted(s) => OneReady(y, Done(k, st))
  BY CompleteFacts DEF TypeInv
<1>. HIDE DEF y
<1>2. s.attempts \in Nat /\ s.pending[k] \in Nat /\ s.pending[k] # 0
  BY DEF TypeInv, Object
<1>3. s.attempts > 0
  BY <1>2 DEF Chain, Idle
<1>4. ~Completed(s)
  BY <1>2 DEF Completed, Idle
<1>5. ~Rejected(s)
  <2>1. SUFFICES ASSUME Rejected(s) PROVE FALSE
    OBVIOUS
  <2>2. k = "timer"
    BY <1>2, <2>1 DEF Rejected, Only
  <2>3. s.ready = <<>> /\ Len(<<>>) = 0
    BY <2>2
  <2>. QED
    BY <2>1, <2>3 DEF Rejected, OneReady
<1>6. PICK l \in Kinds : Only(s, l) /\ AllAborted(s) /\ Before(s, l)
  BY <1>3, <1>4, <1>5 DEF Chain, Waiting
<1>7. l = k
  BY <1>2, <1>6 DEF Only
<1>8. Idle(y)
  BY <1>1, <1>6, <1>7 DEF Only, Idle
<1>9. Done(k, st) \in Operation
  BY DoneFacts DEF Results
<1>. QED
  BY <1>1, <1>3, <1>6, <1>7, <1>8, <1>9 DEF Chain, y

\* The network and the clock add a link, too.
LEMMA NetworkChain ==
    ASSUME TypeInv, TypeInv', Chain(s), ~s.late, Network \/ TimerExpires
    PROVE  Chain(s)'
<1>. USE DEF TypeInv
<1>1. "resolve" \in Kinds /\ "connect" \in Kinds /\ "write" \in Kinds /\ "read" \in Kinds
      /\ "timer" \in Kinds
  BY DEF Kinds
<1>2. \A k, st : Done(k, st) = [kind |-> k, st |-> st]
  BY DEF Done
\* It is enough to find the handler that waits, and what was passed on.
<1>3. ASSUME NEW o \in Operation, s'.attempts > 0, Idle(s'), OneReady(s', o),
             Delivered(s.delivered)', After(s, o)'
      PROVE  Chain(s)'
  <2>1. Completed(s)'
    BY <1>3 DEF Completed, Idle, OneReady
  <2>. QED
    BY <1>3, <2>1 DEF Chain
<1>4. ASSUME NEW k \in {"resolve", "write", "connect"}, NEW st \in {"ok", "err"},
             s.pending[k] > 0, s' = Complete(k, st), k = "connect" => st = "err",
             UNCHANGED <<answers, pos, buffer_>>
      PROVE  Chain(s)'
  <2>. DEFINE o == Done(k, st)
  <2>1. k \in Kinds /\ k # "timer" /\ k # "read"
    BY <1>1, <1>4
  <2>2. /\ s.attempts > 0 /\ Before(s, k) /\ Delivered(s.delivered) /\ SameData(s, s')
        /\ Idle(s') /\ OneReady(s', o) /\ o \in Operation
    BY <1>4, <2>1, CompletionLink
  <2>3. Delivered(s.delivered)'
    BY <1>4, <2>2 DEF Delivered, SameData
  <2>4. Fresh(s)' /\ (k = "write" => Connected(s)')
    BY <1>4, <2>1, <2>2 DEF Before, Connected, Fresh, Older, SameData
  <2>5. After(s, o)'
    BY <1>2, <1>4, <2>1, <2>4 DEF After
  <2>. QED
    BY <1>3, <2>2, <2>3, <2>5 DEF SameData
<1>5. CASE ResolveDone
  BY <1>4, <1>5 DEF ResolveDone
<1>6. CASE WriteDone
  BY <1>4, <1>6 DEF WriteDone
<1>7. CASE ConnectDone
  <2>1. /\ s.pending["connect"] > 0 /\ buffer_' = buffer_
        /\ \/ /\ s' = [Complete("connect", "ok") EXCEPT !.sock = "up"]
              /\ \E accept \in BOOLEAN : answers' = Append(answers, accept)
              /\ pos' = 0
           \/ s' = Complete("connect", "err") /\ answers' = answers /\ pos' = pos
    BY <1>7 DEF ConnectDone
  <2>2. CASE /\ s' = [Complete("connect", "ok") EXCEPT !.sock = "up"]
             /\ \E accept \in BOOLEAN : answers' = Append(answers, accept)
             /\ pos' = 0
    <3>. DEFINE y == Complete("connect", "ok")
                o == Done("connect", "ok")
    <3>1. /\ s.attempts > 0 /\ Before(s, "connect") /\ Delivered(s.delivered)
          /\ y \in Object /\ SameData(s, y)
          /\ Idle(y) /\ OneReady(y, o) /\ o \in Operation
      BY <1>1, <2>1, CompletionLink
    <3>2. s' = [y EXCEPT !.sock = "up"]
      BY <2>2
    <3>. HIDE DEF y, o
    <3>3. SameData(s, s') /\ Idle(s') /\ OneReady(s', o)
      BY <3>1, <3>2 DEF SameData, Idle, OneReady, Object
    <3>4. PICK accept \in BOOLEAN : answers' = Append(answers, accept)
      BY <2>2
    <3>5. /\ Len(answers') = Len(answers) + 1 /\ Len(answers) \in Nat
          /\ \A c \in 1..Len(answers) : answers'[c] = answers[c]
      BY <3>4, AppendProperties, LenProperties
    <3>6. \A n \in 1..Len(s.delivered) :
            /\ s.delivered[n].conn \in 1..Len(answers) /\ answers[s.delivered[n].conn]
            /\ IF n = 1 \/ s.delivered[n].conn > s.delivered[n - 1].conn
               THEN s.delivered[n].pos = HeaderLen + 1
               ELSE s.delivered[n] = [conn |-> s.delivered[n - 1].conn,
                                      pos |-> s.delivered[n - 1].pos + 1]
      BY <3>1 DEF Delivered
    <3>7. s'.delivered = s.delivered
      BY <3>3 DEF SameData
    <3>8. \A n \in 1..Len(s.delivered) :
            /\ s.delivered[n].conn \in 1..Len(answers') /\ answers'[s.delivered[n].conn]
            /\ s.delivered[n].conn < Len(answers')
      <4>. TAKE n \in 1..Len(s.delivered)
      <4>1. s.delivered[n].conn \in 1..Len(answers) /\ answers[s.delivered[n].conn]
        BY <3>6
      <4>2. answers'[s.delivered[n].conn] = answers[s.delivered[n].conn]
        BY <3>5, <4>1
      <4>. QED
        BY <3>5, <4>1, <4>2
    <3>9. Delivered(s.delivered)'
      BY <3>6, <3>7, <3>8 DEF Delivered
    <3>10. Older(s)'
      BY <3>7, <3>8 DEF Older
    <3>11. Fresh(s)'
      BY <3>1, <3>3 DEF Before, Fresh, SameData
    <3>12. Connected(s)'
      BY <2>2, <3>5, <3>10, <3>11 DEF Connected
    <3>13. After(s, o)'
      BY <1>2, <3>11, <3>12 DEF After, o
    <3>. QED
      BY <1>3, <3>1, <3>3, <3>9, <3>13 DEF SameData
  <2>3. CASE s' = Complete("connect", "err") /\ answers' = answers /\ pos' = pos
    BY <1>4, <2>1, <2>3
  <2>. QED
    BY <2>1, <2>2, <2>3
<1>8. CASE ReadDone
  <2>1. PICK st \in {"ok", "err"} :
          /\ s.pending["read"] > 0 /\ answers' = answers /\ s' = Complete("read", st)
          /\ st = "ok" => \E n \in 1..MaxRead : buffer_' = Bytes(pos, n) /\ pos' = pos + n
    BY <1>8 DEF ReadDone
  <2>. DEFINE o == Done("read", st)
  <2>2. /\ s.attempts > 0 /\ Before(s, "read") /\ Delivered(s.delivered) /\ SameData(s, s')
        /\ Idle(s') /\ OneReady(s', o) /\ o \in Operation
    BY <1>1, <2>1, CompletionLink
  <2>3. Delivered(s.delivered)'
    BY <2>1, <2>2 DEF Delivered, SameData
  <2>4. ASSUME st = "ok"
        PROVE  \E n \in 1..pos' : buffer_' = Bytes(pos - n, n)' /\ Received(s, pos - n)'
    <3>1. PICK n \in 1..MaxRead : buffer_' = Bytes(pos, n) /\ pos' = pos + n
      BY <2>1, <2>4
    <3>2. n \in 1..pos' /\ pos' - n = pos
      BY <3>1, AsioAssumption
    <3>3. buffer_' = Bytes(pos - n, n)'
      BY <2>1, <3>1, <3>2 DEF Bytes
    <3>4. Received(s, pos)
      BY <2>2 DEF Before
    <3>5. Received(s, pos - n)'
      BY <2>1, <2>2, <3>2, <3>4 DEF Received, PassedOn, Older, Bytes, SameData
    <3>. QED
      BY <3>2, <3>3, <3>5
  <2>5. After(s, o)'
    BY <1>2, <2>4 DEF After
  <2>. QED
    BY <1>3, <2>2, <2>3, <2>5 DEF SameData
<1>9. CASE TimerExpires
  <2>. DEFINE y == Complete("timer", "ok")
              o == Done("timer", "ok")
  <2>1. /\ s.pending["timer"] > 0 /\ s.ready = <<>> /\ s' = [y EXCEPT !.slept = TRUE]
        /\ UNCHANGED <<answers, pos, buffer_>>
    BY <1>9 DEF TimerExpires
  <2>2. /\ s.attempts > 0 /\ Before(s, "timer") /\ Delivered(s.delivered)
        /\ y \in Object /\ SameData(s, y)
        /\ Idle(y) /\ OneReady(y, o) /\ o \in Operation
    BY <1>1, <2>1, CompletionLink
  <2>. HIDE DEF y, o
  <2>3. /\ s'.slept /\ Idle(s') /\ OneReady(s', o) /\ s'.attempts > 0
        /\ s'.delivered = s.delivered /\ Fresh(s)'
    BY <2>1, <2>2 DEF Object, Idle, OneReady, SameData, Before, Fresh
  <2>4. Delivered(s.delivered)'
    BY <2>1, <2>2, <2>3 DEF Delivered
  <2>5. After(s, o)'
    BY <1>2, <2>3 DEF After, o
  <2>. QED
    BY <1>3, <2>2, <2>3, <2>4, <2>5
<1>. QED
  BY <1>5, <1>6, <1>7, <1>8, <1>9 DEF Network

------------------------------------------------------------------------------
(* The theorems. *)

\* The types, something to wait for and, on a loop that is not late, the chain
\* of operations are preserved by every step.
LEMMA IndNext == IndInv /\ [Next]_vars => IndInv'
<1>. SUFFICES ASSUME IndInv, [Next]_vars PROVE IndInv'
  OBVIOUS
<1>. USE DEF IndInv
<1>1. CASE UNCHANGED vars
  <2>1. s' = s /\ answers' = answers /\ pos' = pos /\ buffer_' = buffer_
    BY <1>1 DEF vars
  <2>2. TypeInv' /\ UnderWay(s)' /\ s'.late = s.late
    BY <2>1 DEF TypeInv, UnderWay, Live
  <2>3. ~s.late => Chain(s)'
    BY <2>1, HandlerMoves
  <2>. QED
    BY <2>2, <2>3
<1>2. CASE Network \/ TimerExpires
  <2>1. TypeInv' /\ UnderWay(s)' /\ s'.late = s.late
    BY <1>2, NetworkKept DEF Kept
  <2>2. ~s.late => Chain(s)'
    BY <1>2, <2>1, NetworkChain
  <2>. QED
    BY <2>1, <2>2
<1>3. CASE ntripConnection_Consume \/ RunHandler
  <2>1. TypeInv' /\ UnderWay(s)' /\ s'.late = s.late
    BY <1>3, HandlersKept DEF Kept
  <2>2. ~s.late => Chain(s)'
    BY <1>3, HandlersChain
  <2>. QED
    BY <2>1, <2>2
<1>. QED
  BY <1>1, <1>2, <1>3 DEF Next, OutOfAttempts

\* The inductive invariant holds of every behaviour.
THEOREM Inductive == Spec => []IndInv
BY InitInv, IndNext, PTL DEF Spec

\* The handlers of kind k that wait and will go on.
Going(k) == {i \in DOMAIN s.ready : s.ready[i].kind = k /\ s.ready[i].st # "aborted"}

\* Counting them.
LEMMA GoingFacts ==
    ASSUME TypeInv, NEW k \in Kinds
    PROVE  /\ Count(k) = s.pending[k] + Cardinality(Going(k))
           /\ s.pending[k] \in Nat /\ Cardinality(Going(k)) \in Nat
           /\ Cardinality(Going(k)) = 0 <=> Going(k) = {}
           /\ \A n : Going(k) = {n} => Cardinality(Going(k)) = 1
<1>1. s.ready \in Seq(Operation) /\ s.pending[k] \in Nat
  BY DEF TypeInv, Object
<1>2. DOMAIN s.ready = 1..Len(s.ready) /\ Len(s.ready) \in Nat
  BY <1>1, LenProperties
<1>3. IsFiniteSet(1..Len(s.ready))
  BY <1>2, FS_Interval
<1>4. Going(k) \subseteq 1..Len(s.ready)
  BY <1>2 DEF Going
<1>5. IsFiniteSet(Going(k))
  BY <1>3, <1>4, FS_Subset
<1>6. Cardinality(Going(k)) \in Nat /\ (Cardinality(Going(k)) = 0 <=> Going(k) = {})
  BY <1>5, FS_CardinalityType, FS_EmptySet
<1>7. \A n : Going(k) = {n} => Cardinality(Going(k)) = 1
  BY FS_Singleton
<1>. QED
  BY <1>1, <1>6, <1>7 DEF Count, Going

\* What the predicates of the chain say about the numbers.
LEMMA CountFacts ==
    ASSUME TypeInv
    PROVE  /\ AllAborted(s) => \A k \in Kinds : Count(k) = s.pending[k]
           /\ \A o \in Operation : OneReady(s, o) =>
                 /\ Count(o.kind) = s.pending[o.kind] + 1
                 /\ \A k \in Kinds \ {o.kind} : Count(k) = s.pending[k]
                 /\ o \in Range(s.ready)
<1>1. s.ready \in Seq(Operation) /\ DOMAIN s.ready = 1..Len(s.ready)
  BY LenProperties DEF TypeInv, Object
<1>2. ASSUME AllAborted(s), NEW k \in Kinds PROVE Count(k) = s.pending[k]
  <2>1. Going(k) = {}
    BY <1>1, <1>2 DEF Going, AllAborted
  <2>. QED
    BY <2>1, GoingFacts
<1>3. ASSUME NEW o \in Operation, OneReady(s, o)
      PROVE  /\ Count(o.kind) = s.pending[o.kind] + 1
             /\ \A k \in Kinds \ {o.kind} : Count(k) = s.pending[k]
             /\ o \in Range(s.ready)
  <2>1. PICK n \in 1..Len(s.ready) :
          s.ready[n] = o /\ \A m \in 1..Len(s.ready) : m # n => s.ready[m].st = "aborted"
    BY <1>3 DEF OneReady
  <2>2. o.kind \in Kinds /\ o.st # "aborted"
    BY <1>3 DEF Operation, OneReady
  <2>3. Going(o.kind) = {n}
    BY <1>1, <2>1, <2>2 DEF Going
  <2>4. \A k \in Kinds \ {o.kind} : Going(k) = {}
    BY <1>1, <2>1 DEF Going
  <2>5. Count(o.kind) = s.pending[o.kind] + 1
    BY <2>2, <2>3, GoingFacts
  <2>6. \A k \in Kinds \ {o.kind} : Count(k) = s.pending[k]
    BY <2>4, GoingFacts
  <2>7. o \in Range(s.ready)
    BY <1>1, <2>1 DEF Range
  <2>. QED
    BY <2>5, <2>6, <2>7
<1>. QED
  BY <1>2, <1>3

\* Something to wait for, as the invariant of the runs counts it.
LEMMA LiveCounts ==
    ASSUME TypeInv, Live(s)
    PROVE  \E k \in Kinds : Count(k) > 0
<1>1. CASE \E k \in Kinds : s.pending[k] > 0
  <2>1. PICK k \in Kinds : s.pending[k] > 0
    BY <1>1
  <2>2. Count(k) > 0
    <3>1. /\ Count(k) = s.pending[k] + Cardinality(Going(k))
          /\ s.pending[k] \in Nat /\ Cardinality(Going(k)) \in Nat
      BY GoingFacts
    <3>. QED
      BY <2>1, <3>1
  <2>. QED
    BY <2>2
<1>2. CASE \E n \in 1..Len(s.ready) : s.ready[n].st # "aborted"
  <2>1. PICK n \in 1..Len(s.ready) : s.ready[n].st # "aborted"
    BY <1>2
  <2>2. s.ready \in Seq(Operation) /\ DOMAIN s.ready = 1..Len(s.ready)
    BY LenProperties DEF TypeInv, Object
  <2>3. s.ready[n] \in Operation
    BY <2>2, ElementOfSeq
  <2>. DEFINE k == s.ready[n].kind
  <2>4. k \in Kinds
    BY <2>3 DEF Operation
  <2>5. n \in Going(k)
    BY <2>1, <2>2 DEF Going
  <2>. HIDE DEF k
  <2>6. /\ Count(k) = s.pending[k] + Cardinality(Going(k))
        /\ s.pending[k] \in Nat /\ Cardinality(Going(k)) \in Nat
        /\ Cardinality(Going(k)) # 0
    BY <2>4, <2>5, GoingFacts
  <2>7. Count(k) > 0
    BY <2>6
  <2>. QED
    BY <2>4, <2>7
<1>. QED
  BY <1>1, <1>2 DEF Live

\* One chain at a time, as the invariant of the runs counts it.
LEMMA ChainCounts ==
    ASSUME TypeInv, Chain(s)
    PROVE  OneChain
<1>. DEFINE Total(k, l) == Count(k) + (IF k = l THEN 0 ELSE Count(l))
<1>1. "read" \in Kinds /\ "timer" \in Kinds /\ \A k \in Kinds : s.pending[k] \in Nat
  BY DEF TypeInv, Object, Kinds
<1>2. ASSUME NEW j \in Kinds, Count(j) \in {0, 1}, \A k \in Kinds \ {j} : Count(k) = 0
      PROVE  \A k, l \in Kinds : Total(k, l) <= 1
  BY <1>2
<1>3. CASE Idle(s) /\ AllAborted(s)
  <2>1. \A k \in Kinds : Count(k) = 0
    BY <1>3, CountFacts DEF Idle
  <2>2. \A k, l \in Kinds : Total(k, l) <= 1
    BY <2>1
  <2>. QED
    BY <2>2 DEF OneChain
<1>4. CASE Waiting(s)
  <2>1. PICK j \in Kinds : Only(s, j) /\ AllAborted(s)
    BY <1>4 DEF Waiting
  <2>2. Count(j) \in {0, 1} /\ \A k \in Kinds \ {j} : Count(k) = 0
    BY <2>1, CountFacts DEF Only
  <2>3. \A k, l \in Kinds : Total(k, l) <= 1
    BY <1>2, <2>2
  <2>. QED
    BY <2>3 DEF OneChain
<1>5. CASE Completed(s)
  <2>1. PICK o \in Operation : Idle(s) /\ OneReady(s, o)
    BY <1>5 DEF Completed
  <2>2. o.kind \in Kinds
    BY DEF Operation
  <2>3. Count(o.kind) \in {0, 1} /\ \A k \in Kinds \ {o.kind} : Count(k) = 0
    BY <2>1, <2>2, CountFacts DEF Idle
  <2>4. \A k, l \in Kinds : Total(k, l) <= 1
    BY <1>2, <2>2, <2>3
  <2>. QED
    BY <2>4 DEF OneChain
<1>6. CASE Rejected(s)
  <2>. DEFINE o == Done("read", "err")
  <2>1. o \in Operation /\ o.kind = "read"
    BY DoneFacts DEF Kinds, Results
  <2>2. Only(s, "timer") /\ OneReady(s, o)
    BY <1>6 DEF Rejected
  <2>3. /\ Count("read") = s.pending["read"] + 1 /\ o \in Range(s.ready)
        /\ \A k \in Kinds \ {"read"} : Count(k) = s.pending[k]
    BY <2>1, <2>2, CountFacts
  <2>4. /\ \A k \in Kinds : Count(k) <= 1
        /\ s.pending["timer"] = 1
        /\ \A k \in Kinds \ {"read", "timer"} : Count(k) = 0
    BY <1>1, <2>2, <2>3 DEF Only
  <2>. QED
    BY <2>3, <2>4 DEF OneChain
<1>7. s.attempts \in Nat
  BY DEF TypeInv, Object
<1>. QED
  BY <1>3, <1>4, <1>5, <1>6, <1>7 DEF Chain

\* The object never falls silent, and on a loop that is not late it never runs
\* two chains of operations, but for the time between a rejected answer and the
\* failure of the read that follows it (ntrip.cpp, reconnect and on_read).
THEOREM InvCorrect == Spec => []Inv
<1>1. IndInv => Inv
  <2>. SUFFICES ASSUME IndInv PROVE Inv
    OBVIOUS
  <2>1. TypeOK
    BY DEF IndInv, TypeInv, Object, Operation, TypeOK
  <2>2. AlwaysUnderWay
    BY LiveCounts DEF IndInv, UnderWay, AlwaysUnderWay
  <2>3. OneChain
    BY ChainCounts DEF IndInv, OneChain
  <2>. QED
    BY <2>1, <2>2, <2>3 DEF Inv
<1>. QED
  BY <1>1, Inductive, PTL

\* Whatever way the stream is cut into reads, the consumer on a loop that is not
\* late receives the payload of accepted connections, each from its first byte
\* on and without a gap (ntrip.cpp, handle_stream_bytes).
THEOREM StreamCorrect == Spec => []CleanStream
<1>1. IndInv => CleanStream
  <2>. SUFFICES ASSUME IndInv, ~s.late
                PROVE  LET d == s.delivered
                           first(i) == i = 1 \/ d[i].conn > d[i - 1].conn
                       IN  \A i \in DOMAIN d :
                             /\ answers[d[i].conn]
                             /\ IF first(i) THEN d[i].pos = HeaderLen + 1
                                ELSE d[i] = [conn |-> d[i - 1].conn, pos |-> d[i - 1].pos + 1]
    BY DEF CleanStream
  <2>1. s.delivered \in Seq(Byte) /\ Delivered(s.delivered)
    BY DEF IndInv, TypeInv, Object, Chain
  <2>2. DOMAIN s.delivered = 1..Len(s.delivered)
    BY <2>1, LenProperties
  <2>. QED
    BY <2>1, <2>2 DEF Delivered
<1>. QED
  BY <1>1, Inductive, PTL

\* No connection attempt but the first is made before its delay has passed, on a
\* loop that is not late (ntrip.cpp, on_timer).
THEOREM DelaysRespected == Spec => AttemptsWait
<1>. DEFINE A == ~s.late /\ s.attempts > 0 /\ s'.attempts > s.attempts => s.slept
<1>1. IndInv /\ [Next]_vars => [A]_vars
  <2>. SUFFICES ASSUME IndInv, Next, ~s.late, s.attempts > 0, s'.attempts > s.attempts
                PROVE  s.slept
    BY DEF vars
  <2>1. s.attempts \in Nat
    BY DEF IndInv, TypeInv, Object
  <2>2. ~(Network \/ TimerExpires \/ OutOfAttempts \/ ntripConnection_Consume)
    <3>1. ASSUME Network \/ TimerExpires PROVE s'.attempts = s.attempts
      <4>1. \A k \in Kinds, st \in {"ok", "err"} :
              s.pending[k] > 0 => Complete(k, st) \in Object /\ Complete(k, st).attempts = s.attempts
        BY CompletionKept DEF IndInv
      <4>2. "resolve" \in Kinds /\ "connect" \in Kinds /\ "write" \in Kinds
            /\ "read" \in Kinds /\ "timer" \in Kinds
        BY DEF Kinds
      <4>3. CASE ResolveDone \/ WriteDone \/ ReadDone
        BY <4>1, <4>2, <4>3 DEF ResolveDone, WriteDone, ReadDone
      <4>4. CASE ConnectDone
        <5>1. [Complete("connect", "ok") EXCEPT !.sock = "up"].attempts
                = Complete("connect", "ok").attempts
          BY <4>1, <4>2, <4>4 DEF Object, ConnectDone
        <5>. QED
          BY <4>1, <4>2, <4>4, <5>1 DEF ConnectDone
      <4>5. CASE TimerExpires
        <5>1. [Complete("timer", "ok") EXCEPT !.slept = TRUE].attempts
                = Complete("timer", "ok").attempts
          BY <4>1, <4>2, <4>5 DEF Object, TimerExpires
        <5>. QED
          BY <4>1, <4>2, <4>5, <5>1 DEF TimerExpires
      <4>. QED
        BY <3>1, <4>3, <4>4, <4>5 DEF Network
    <3>. QED
      BY <2>1, <3>1 DEF OutOfAttempts, vars, ntripConnection_Consume
  <2>3. RunHandler
    BY <2>2 DEF Next
  <2>. DEFINE x == [s EXCEPT !.ready = Tail(@)]
              o == Head(s.ready)
  <2>4. s.ready # <<>> /\ s' = Handler(x, o)
    BY <2>3 DEF RunHandler
  <2>5. /\ x \in Object /\ o \in Operation /\ SameData(s, x)
        /\ ~AllAborted(s) \/ o.st = "aborted"
        /\ \A p \in Operation : OneReady(s, p) => o.st = "aborted" \/ o = p
    BY <2>4, HeadFacts DEF IndInv, TypeInv
  <2>. HIDE DEF x, o
  <2>6. s'.attempts = x.attempts + (IF o.kind = "timer" /\ o.st # "aborted" THEN 1 ELSE 0)
    BY <2>4, <2>5, HandlerFacts DEF IndInv, TypeInv
  <2>7. o.kind = "timer" /\ o.st # "aborted"
    BY <2>1, <2>5, <2>6 DEF SameData
  <2>8. ~Rejected(s)
    <3>1. Done("read", "err") \in Operation /\ Done("read", "err").kind = "read"
      BY DoneFacts DEF Kinds, Results
    <3>. QED
      BY <2>5, <2>7, <3>1 DEF Rejected
  <2>9. Completed(s)
    BY <2>5, <2>7, <2>8 DEF IndInv, Chain, Waiting
  <2>. QED
    BY <2>5, <2>7, <2>9 DEF Completed, After
<1>. QED
  BY <1>1, Inductive, PTL DEF Spec, AttemptsWait
=============================================================================

---------------------------- MODULE DecoderClientProofs ----------------------------
(***************************************************************************)
(* Proofs about DecoderClient for every length of the caster's answer,     *)
(* every way the stream is cut into reads and every limit of the delay.    *)
(*                                                                         *)
(* As long as no caster has rejected a request the operations of the       *)
(* client form a chain without any cancellation: at most one is under way, *)
(* or has completed and waits for its handler.  This holds of a late loop, *)
(* too.                                                                    *)
(*                                                                         *)
(* The encoding of the credentials is proved for every string of bytes, of *)
(* which MCDecoderClient has those of the run.                             *)
(***************************************************************************)
EXTENDS MCDecoderClient, WellFoundedInduction, SequenceTheorems, TLAPS

------------------------------------------------------------------------------
(* Types. *)

Byte == [conn : Nat, pos : Nat]

Operation == [kind : Kinds, st : Results]

Object == [pending : [Kinds -> Nat], ready : Seq(Operation),
           sock : {"closed", "open", "up"}, slept : BOOLEAN, late : BOOLEAN,
           header_done_ : BOOLEAN, response_header_ : Seq(Byte),
           delay_s_ : 1..MaxDelay, attempts : Nat, framed : Seq(Byte)]

TypeInv == /\ s \in Object /\ g_running \in BOOLEAN
           /\ answers \in Seq(BOOLEAN) /\ pos \in Nat /\ buffer_ \in Seq(Byte)

\* y differs from x at most in its operations and its socket.
SameData(x, y) ==
    /\ y.slept = x.slept /\ y.late = x.late /\ y.delay_s_ = x.delay_s_
    /\ y.header_done_ = x.header_done_
    /\ y.response_header_ = x.response_header_
    /\ y.attempts = x.attempts /\ y.framed = x.framed

\* Nothing is under way, and nothing but k.
Idle(x) == \A k \in Kinds : x.pending[k] = 0
Only(x, k) == x.pending[k] = 1 /\ \A l \in Kinds \ {k} : x.pending[l] = 0

\* No operation at all.
Quiet(x) == Idle(x) /\ x.ready = <<>>

\* Some operation is under way or to be handled.
Live(x) == x.ready # <<>> \/ \E k \in Kinds : x.pending[k] > 0

------------------------------------------------------------------------------
(* What the member functions do to an object of the type. *)

\* Starting an operation.
LEMMA StartFacts ==
    ASSUME NEW x \in Object, NEW k \in Kinds
    PROVE  /\ Start(x, k) \in Object /\ SameData(x, Start(x, k))
           /\ Start(x, k).ready = x.ready /\ Start(x, k).sock = x.sock
           /\ Start(x, k).pending[k] = x.pending[k] + 1
           /\ \A l \in Kinds \ {k} : Start(x, k).pending[l] = x.pending[l]
<1>. DEFINE p == [x.pending EXCEPT ![k] = @ + 1]
<1>1. x.pending \in [Kinds -> Nat]
  BY DEF Object
<1>2. p \in [Kinds -> Nat] /\ p[k] = x.pending[k] + 1
      /\ \A l \in Kinds \ {k} : p[l] = x.pending[l]
  BY <1>1
<1>3. Start(x, k) = [x EXCEPT !.pending = p]
  BY DEF Start
<1>. HIDE DEF p
<1>. QED
  BY <1>2, <1>3 DEF Object, SameData

\* Posting a handler.
LEMMA PostFacts ==
    ASSUME NEW x \in Object, NEW k \in Kinds, NEW st \in Results
    PROVE  /\ Post(x, k, st) \in Object /\ SameData(x, Post(x, k, st))
           /\ Post(x, k, st).ready = Append(x.ready, Done(k, st))
           /\ Post(x, k, st).sock = x.sock
           /\ Post(x, k, st).pending = x.pending
<1>1. Done(k, st) \in Operation /\ x.ready \in Seq(Operation)
  BY DEF Done, Operation, Object
<1>2. Append(x.ready, Done(k, st)) \in Seq(Operation)
  BY <1>1, AppendProperties
<1>. QED
  BY <1>2 DEF Post, Object, SameData

\* Operations to handle, for the leaves below.
LEMMA DoneFacts ==
    ASSUME NEW k \in Kinds, NEW st \in Results
    PROVE  /\ Done(k, st) \in Operation /\ Done(k, st).kind = k /\ Done(k, st).st = st
BY DEF Done, Operation

\* The handlers of what is cancelled.
LEMMA AbortedFacts ==
    ASSUME NEW k \in Kinds, NEW n \in Nat
    PROVE  LET q == [j \in 1..n |-> Done(k, "aborted")]
           IN  q \in Seq(Operation) /\ Len(q) = n
<1>. DEFINE q == [j \in 1..n |-> Done(k, "aborted")]
<1>1. Done(k, "aborted") \in Operation /\ Done(k, "aborted").st = "aborted"
  BY DEF Done, Operation, Results
<1>2. q \in [1..n -> Operation]
  BY <1>1
<1>3. q \in Seq(Operation)
  BY <1>2, SeqDef
<1>4. Len(q) = n
  BY <1>2, <1>3, LenProperties
<1>. QED
  BY <1>1, <1>3, <1>4

\* Cancelling an operation.
LEMMA CancelFacts ==
    ASSUME NEW x \in Object, NEW k \in Kinds
    PROVE  /\ Cancel(x, k) \in Object /\ SameData(x, Cancel(x, k))
           /\ Cancel(x, k).sock = x.sock
           /\ Cancel(x, k).pending[k] = 0
           /\ \A l \in Kinds \ {k} : Cancel(x, k).pending[l] = x.pending[l]
           /\ Quiet(x) => Quiet(Cancel(x, k))
<1>. DEFINE q == [j \in 1..x.pending[k] |-> Done(k, "aborted")]
<1>1. x.pending[k] \in Nat /\ x.ready \in Seq(Operation)
  BY DEF Object
<1>2. q \in Seq(Operation) /\ Len(q) = x.pending[k]
  BY <1>1, AbortedFacts
<1>. DEFINE p == [x.pending EXCEPT ![k] = 0]
<1>p. /\ p \in [Kinds -> Nat] /\ p[k] = 0
      /\ \A l \in Kinds \ {k} : p[l] = x.pending[l]
  BY DEF Object
<1>3. Cancel(x, k) = [x EXCEPT !.pending = p, !.ready = x.ready \o q]
  BY DEF Cancel, Object
<1>. HIDE DEF p, q
<1>4. x.ready \o q \in Seq(Operation)
  BY <1>1, <1>2, ConcatProperties
<1>5. ASSUME Quiet(x) PROVE x.ready \o q = <<>>
  <2>1. q = <<>> /\ x.ready = <<>>
    BY <1>2, <1>5, EmptySeq DEF Quiet, Idle
  <2>. QED
    BY <1>2, <2>1, ConcatEmptySeq
<1>7. /\ Cancel(x, k) \in Object /\ SameData(x, Cancel(x, k))
      /\ Cancel(x, k).sock = x.sock
      /\ Cancel(x, k).pending[k] = 0
      /\ \A l \in Kinds \ {k} : Cancel(x, k).pending[l] = x.pending[l]
      /\ Cancel(x, k).ready = x.ready \o q
  BY <1>3, <1>4, <1>p DEF Object, SameData
<1>. QED
  BY <1>5, <1>7 DEF Quiet, Idle

\* Closing the socket.
LEMMA CloseFacts ==
    ASSUME NEW x \in Object
    PROVE  /\ Close(x) \in Object /\ SameData(x, Close(x))
           /\ Close(x).sock = "closed"
           /\ \A k \in SocketOps : Close(x).pending[k] = 0
           /\ \A k \in Kinds \ SocketOps : Close(x).pending[k] = x.pending[k]
           /\ Quiet(x) => Quiet(Close(x))
<1>. DEFINE a == Cancel(x, "connect")
            b == Cancel(a, "write")
            c == Cancel(b, "read")
<1>1. "connect" \in Kinds /\ "write" \in Kinds /\ "read" \in Kinds
  BY DEF Kinds
<1>2. Close(x) = [c EXCEPT !.sock = "closed"]
  BY DEF Close
<1>3. /\ a \in Object /\ SameData(x, a) /\ a.pending["connect"] = 0
      /\ \A l \in Kinds \ {"connect"} : a.pending[l] = x.pending[l]
      /\ Quiet(x) => Quiet(a)
  BY <1>1, CancelFacts
<1>. HIDE DEF a
<1>4. /\ b \in Object /\ SameData(a, b) /\ b.pending["write"] = 0
      /\ \A l \in Kinds \ {"write"} : b.pending[l] = a.pending[l]
      /\ Quiet(a) => Quiet(b)
  BY <1>1, <1>3, CancelFacts
<1>. HIDE DEF b
<1>5. /\ c \in Object /\ SameData(b, c) /\ c.pending["read"] = 0
      /\ \A l \in Kinds \ {"read"} : c.pending[l] = b.pending[l]
      /\ Quiet(b) => Quiet(c)
  BY <1>1, <1>4, CancelFacts
<1>. HIDE DEF c
<1>6. SameData(x, c)
  BY <1>3, <1>4, <1>5 DEF SameData
<1>7. /\ Close(x) \in Object /\ SameData(c, Close(x)) /\ Close(x).sock = "closed"
      /\ Close(x).pending = c.pending /\ Close(x).ready = c.ready
  BY <1>2, <1>5 DEF Object, SameData
<1>8. SameData(x, Close(x))
  BY <1>6, <1>7 DEF SameData
<1>9. Quiet(x) => Quiet(Close(x))
  BY <1>3, <1>4, <1>5, <1>7 DEF Quiet, Idle
<1>10. /\ \A k \in SocketOps : c.pending[k] = 0
       /\ \A k \in Kinds \ SocketOps : c.pending[k] = x.pending[k]
  BY <1>3, <1>4, <1>5 DEF SocketOps, Kinds
<1>. QED
  BY <1>7, <1>8, <1>9, <1>10

\* async_connect leaves one connect under way.
LEMMA AsyncConnectFacts ==
    ASSUME NEW x \in Object
    PROVE  LET y == AsyncConnect(x)
           IN  /\ y \in Object /\ SameData(x, y)
               /\ y.pending["connect"] = 1
               /\ y.pending["write"] = 0 /\ y.pending["read"] = 0
               /\ y.pending["resolve"] = x.pending["resolve"]
               /\ y.pending["timer"] = x.pending["timer"]
               /\ Quiet(x) => Only(y, "connect") /\ y.ready = <<>>
<1>. DEFINE a == [Close(x) EXCEPT !.sock = "open"]
<1>1. "connect" \in Kinds /\ Kinds = SocketOps \cup {"resolve", "timer"}
      /\ "resolve" \notin SocketOps /\ "timer" \notin SocketOps
      /\ SocketOps = {"connect", "write", "read"}
  BY DEF Kinds, SocketOps
<1>2. /\ Close(x) \in Object /\ SameData(x, Close(x))
      /\ \A k \in SocketOps : Close(x).pending[k] = 0
      /\ \A k \in Kinds \ SocketOps : Close(x).pending[k] = x.pending[k]
      /\ Quiet(x) => Quiet(Close(x))
  BY CloseFacts
<1>3. /\ a \in Object /\ a.ready = Close(x).ready /\ a.pending = Close(x).pending
      /\ SameData(Close(x), a)
  BY <1>2 DEF Object, SameData
<1>4. AsyncConnect(x) = Start(a, "connect")
  BY DEF AsyncConnect
<1>. HIDE DEF a
<1>5. /\ Start(a, "connect") \in Object /\ SameData(a, Start(a, "connect"))
      /\ Start(a, "connect").ready = a.ready
      /\ Start(a, "connect").pending["connect"] = a.pending["connect"] + 1
      /\ \A l \in Kinds \ {"connect"} : Start(a, "connect").pending[l] = a.pending[l]
  BY <1>1, <1>3, StartFacts
<1>6. SameData(x, AsyncConnect(x))
  BY <1>2, <1>3, <1>4, <1>5 DEF SameData
<1>7. Quiet(x) => Only(AsyncConnect(x), "connect") /\ AsyncConnect(x).ready = <<>>
  BY <1>1, <1>2, <1>3, <1>4, <1>5 DEF Quiet, Idle, Only
<1>. QED
  BY <1>1, <1>2, <1>3, <1>4, <1>5, <1>6, <1>7

\* A transfer is under way, or its failure is about to be handled.
LEMMA TransferFacts ==
    ASSUME NEW x \in Object, NEW k \in Kinds
    PROVE  LET y == AsyncTransfer(x, k)
           IN  /\ y \in Object /\ SameData(x, y) /\ y.sock = x.sock
               /\ \/ /\ x.sock = "up" /\ y.ready = x.ready
                     /\ y.pending[k] = x.pending[k] + 1
                     /\ \A l \in Kinds \ {k} : y.pending[l] = x.pending[l]
                  \/ /\ x.sock # "up" /\ y.pending = x.pending
                     /\ y.ready = Append(x.ready, Done(k, "err"))
<1>1. "err" \in Results
  BY DEF Results
<1>2. CASE x.sock = "up"
  BY <1>2, StartFacts DEF AsyncTransfer
<1>3. CASE x.sock # "up"
  BY <1>1, <1>3, PostFacts DEF AsyncTransfer
<1>. QED
  BY <1>2, <1>3

\* The new timer is under way; without g_running there is none.
LEMMA ReconnectFacts ==
    ASSUME NEW x \in Object, g_running \in BOOLEAN
    PROVE  LET y == reconnect(x)
           IN  /\ y \in Object /\ y.late = x.late /\ y.attempts = x.attempts
               /\ y.framed = x.framed
               /\ g_running => y.pending["timer"] = 1
               /\ Quiet(x) => Quiet(y) \/ (Only(y, "timer") /\ y.ready = <<>>)
<1>. DEFINE a == Close(x)
            b == [a EXCEPT !.delay_s_ = Doubled(@), !.slept = FALSE]
            c == Cancel(b, "timer")
            d == Start(c, "timer")
<1>1. "timer" \in Kinds
  BY DEF Kinds
<1>2. a \in Object /\ SameData(x, a) /\ (Quiet(x) => Quiet(a))
  BY CloseFacts
<1>3. CASE ~g_running
  <2>1. reconnect(x) = a
    BY <1>3 DEF reconnect
  <2>. QED
    BY <1>2, <1>3, <2>1 DEF SameData
<1>4. CASE g_running
  <2>1. reconnect(x) = d
    BY <1>4 DEF reconnect
  <2>. HIDE DEF a
  <2>2. Doubled(a.delay_s_) \in 1..MaxDelay
    BY <1>2, DelayAssumption DEF Doubled, Object
  <2>3. /\ b \in Object /\ b.pending = a.pending /\ b.ready = a.ready
        /\ b.late = a.late /\ b.attempts = a.attempts /\ b.framed = a.framed
    BY <1>2, <2>2 DEF Object
  <2>. HIDE DEF b
  <2>4. /\ c \in Object /\ SameData(b, c) /\ c.pending["timer"] = 0
        /\ Quiet(b) => Quiet(c)
    BY <1>1, <2>3, CancelFacts
  <2>. HIDE DEF c
  <2>5. /\ d \in Object /\ SameData(c, d) /\ d.ready = c.ready
        /\ d.pending["timer"] = c.pending["timer"] + 1
        /\ \A l \in Kinds \ {"timer"} : d.pending[l] = c.pending[l]
    BY <1>1, <2>4, StartFacts
  <2>. HIDE DEF d
  <2>6. d.late = x.late /\ d.attempts = x.attempts /\ d.framed = x.framed
    BY <1>2, <2>3, <2>4, <2>5 DEF SameData
  <2>7. Quiet(x) => Only(d, "timer") /\ d.ready = <<>>
    BY <1>1, <1>2, <2>3, <2>4, <2>5 DEF Quiet, Idle, Only
  <2>8. d.pending["timer"] = 1
    BY <2>4, <2>5
  <2>. QED
    BY <2>1, <2>5, <2>6, <2>7, <2>8
<1>. QED
  BY <1>3, <1>4

\* connect() resolves the caster's name, unless the program is to end.
LEMMA ConnectFacts ==
    ASSUME NEW x \in Object, g_running \in BOOLEAN
    PROVE  LET y == connect(x)
           IN  /\ y \in Object /\ y.late = x.late /\ y.framed = x.framed
               /\ y.attempts >= x.attempts
               /\ g_running => y.pending["resolve"] > 0 /\ y.attempts = x.attempts + 1
               /\ Quiet(x) => Quiet(y) \/ (Only(y, "resolve") /\ y.ready = <<>>)
<1>. DEFINE a == [x EXCEPT !.attempts = @ + 1]
            b == Start(a, "resolve")
<1>1. "resolve" \in Kinds /\ x.attempts \in Nat /\ x.pending["resolve"] \in Nat
  BY DEF Kinds, Object
<1>2. CASE ~g_running
  BY <1>1, <1>2 DEF connect
<1>3. CASE g_running
  <2>1. connect(x) = b
    BY <1>3 DEF connect
  <2>2. /\ a \in Object /\ a.pending = x.pending /\ a.ready = x.ready
        /\ a.late = x.late /\ a.attempts = x.attempts + 1 /\ a.framed = x.framed
    <3>1. x.attempts + 1 \in Nat
      BY <1>1
    <3>2. a = [x EXCEPT !.attempts = x.attempts + 1]
      BY DEF Object
    <3>. QED
      BY <3>1, <3>2 DEF Object
  <2>. HIDE DEF a
  <2>3. /\ b \in Object /\ SameData(a, b) /\ b.ready = a.ready
        /\ b.pending["resolve"] = a.pending["resolve"] + 1
        /\ \A l \in Kinds \ {"resolve"} : b.pending[l] = a.pending[l]
    BY <1>1, <2>2, StartFacts
  <2>. HIDE DEF b
  <2>4. b.late = x.late /\ b.attempts = x.attempts + 1 /\ b.framed = x.framed
    BY <2>2, <2>3 DEF SameData
  <2>5. b.pending["resolve"] > 0
    BY <1>1, <2>2, <2>3
  <2>6. Quiet(x) => Only(b, "resolve") /\ b.ready = <<>>
    BY <1>1, <2>2, <2>3 DEF Quiet, Idle, Only
  <2>. QED
    BY <1>1, <1>3, <2>1, <2>3, <2>4, <2>5, <2>6
<1>. QED
  BY <1>2, <1>3

------------------------------------------------------------------------------
(* The bytes of a connection, and the end of an answer among them. *)

\* The smallest element of a set of numbers.
LEMMA Least ==
    ASSUME NEW T, T \subseteq Nat, T # {}
    PROVE  \E m \in T : \A n \in T : m <= n
<1>. DEFINE R == OpToRel(<, Nat)
<1>1. IsWellFoundedOn(R, Nat)
  BY NatLessThanWellFounded
<1>2. \A m, n \in Nat : <<n, m>> \in R <=> n < m
  BY DEF OpToRel
<1>. HIDE DEF R
<1>3. PICK m \in T : \A n \in T : ~(<<n, m>> \in R)
  BY <1>1, WFMin
<1>4. ASSUME NEW n \in T PROVE m <= n
  <2>1. m \in Nat /\ n \in Nat /\ ~(n < m)
    BY <1>2, <1>3
  <2>. QED
    BY <2>1
<1>. QED
  BY <1>4

\* Where an answer ends is a place in the buffer.
LEMMA HeaderEndFacts ==
    ASSUME NEW b \in Seq(Byte), HeaderEnds(b) # {}
    PROVE  HeaderEnd(b) \in HeaderEnds(b) /\ HeaderEnd(b) \in 1..Len(b)
<1>1. DOMAIN b = 1..Len(b) /\ Len(b) \in Nat
  BY LenProperties
<1>2. HeaderEnds(b) \subseteq 1..Len(b) /\ HeaderEnds(b) \subseteq Nat
  BY <1>1 DEF HeaderEnds
<1>3. \E m \in HeaderEnds(b) : \A n \in HeaderEnds(b) : m <= n
  BY <1>2, Least
<1>4. HeaderEnd(b) \in HeaderEnds(b)
  BY <1>3 DEF HeaderEnd
<1>. QED
  BY <1>2, <1>4

\* What a read delivers.
LEMMA BytesFacts ==
    ASSUME NEW from \in Nat, NEW n \in Nat, answers \in Seq(BOOLEAN)
    PROVE  /\ Bytes(from, n) \in Seq(Byte) /\ Len(Bytes(from, n)) = n
           /\ \A j \in 1..n : Bytes(from, n)[j] = [conn |-> Len(answers), pos |-> from + j]
<1>1. Len(answers) \in Nat
  BY LenProperties
<1>2. Bytes(from, n) \in [1..n -> Byte]
  BY <1>1 DEF Bytes, Byte
<1>3. Bytes(from, n) \in Seq(Byte)
  BY <1>2, SeqDef
<1>4. Len(Bytes(from, n)) = n
  BY <1>2, <1>3, LenProperties
<1>. QED
  BY <1>3, <1>4 DEF Bytes

\* Bytes read one after the other are the bytes of the stream.
LEMMA BytesJoined ==
    ASSUME NEW from \in Nat, NEW m \in Nat, NEW n \in Nat, answers \in Seq(BOOLEAN)
    PROVE  Bytes(from, m) \o Bytes(from + m, n) = Bytes(from, m + n)
<1>. DEFINE a == Bytes(from, m)
            b == Bytes(from + m, n)
            c == Bytes(from, m + n)
<1>1. /\ a \in Seq(Byte) /\ Len(a) = m
      /\ \A j \in 1..m : a[j] = [conn |-> Len(answers), pos |-> from + j]
  BY BytesFacts
<1>2. /\ b \in Seq(Byte) /\ Len(b) = n
      /\ \A j \in 1..n : b[j] = [conn |-> Len(answers), pos |-> from + m + j]
  <2>1. from + m \in Nat
    OBVIOUS
  <2>. QED
    BY <2>1, BytesFacts
<1>3. /\ c \in Seq(Byte) /\ Len(c) = m + n
      /\ \A j \in 1..(m + n) : c[j] = [conn |-> Len(answers), pos |-> from + j]
  BY BytesFacts
<1>. HIDE DEF a, b, c
<1>4. /\ a \o b \in Seq(Byte) /\ Len(a \o b) = m + n
      /\ \A j \in 1..(m + n) : (a \o b)[j] = IF j <= m THEN a[j] ELSE b[j - m]
  BY <1>1, <1>2, ConcatProperties
<1>5. ASSUME NEW j \in 1..(m + n) PROVE (a \o b)[j] = c[j]
  <2>1. CASE j <= m
    BY <1>1, <1>3, <1>4, <2>1
  <2>2. CASE ~(j <= m)
    <3>1. j - m \in 1..n /\ from + m + (j - m) = from + j
      BY <2>2
    <3>2. (a \o b)[j] = b[j - m]
      BY <1>4, <2>2
    <3>3. b[j - m] = [conn |-> Len(answers), pos |-> from + m + (j - m)]
      BY <1>2, <3>1
    <3>. QED
      BY <1>3, <3>1, <3>2, <3>3
  <2>. QED
    BY <2>1, <2>2
<1>6. a \o b = c
  BY <1>3, <1>4, <1>5, SeqEqual
<1>. QED
  BY <1>6 DEF a, b, c

\* What follows the first m bytes of a connection.
LEMMA BytesAfter ==
    ASSUME NEW n \in Nat, NEW m \in 0..n, answers \in Seq(BOOLEAN)
    PROVE  SubSeq(Bytes(0, n), m + 1, n) = Bytes(m, n - m)
<1>. DEFINE a == Bytes(0, n)
            b == Bytes(m, n - m)
<1>1. /\ a \in Seq(Byte) /\ Len(a) = n
      /\ \A j \in 1..n : a[j] = [conn |-> Len(answers), pos |-> 0 + j]
  BY BytesFacts
<1>2. n - m \in Nat /\ m \in Nat
  OBVIOUS
<1>3. /\ b \in Seq(Byte) /\ Len(b) = n - m
      /\ \A j \in 1..(n - m) : b[j] = [conn |-> Len(answers), pos |-> m + j]
  BY <1>2, BytesFacts
<1>. HIDE DEF a, b
<1>4. \A j \in (m + 1)..n : a[j] \in Byte
  BY <1>1, ElementOfSeq
<1>5. /\ SubSeq(a, m + 1, n) \in Seq(Byte)
      /\ Len(SubSeq(a, m + 1, n)) = IF m + 1 <= n THEN n - (m + 1) + 1 ELSE 0
      /\ \A j \in 1..(n - (m + 1) + 1) : SubSeq(a, m + 1, n)[j] = a[m + 1 + j - 1]
  BY <1>2, <1>4, SubSeqProperties
<1>6. Len(SubSeq(a, m + 1, n)) = n - m
  BY <1>2, <1>5
<1>7. ASSUME NEW j \in 1..(n - m) PROVE SubSeq(a, m + 1, n)[j] = b[j]
  <2>1. m + 1 + j - 1 = m + j /\ m + j \in 1..n /\ 0 + (m + j) = m + j
        /\ j \in 1..(n - (m + 1) + 1)
    BY <1>2
  <2>. QED
    BY <1>1, <1>3, <1>5, <2>1
<1>8. SubSeq(a, m + 1, n) = b
  BY <1>3, <1>5, <1>6, <1>7, SeqEqual
<1>. QED
  BY <1>8 DEF a, b

------------------------------------------------------------------------------
(* The handlers, on any loop. *)

\* Nothing of an answer is kept.
Fresh(x) == ~x.header_done_ /\ x.response_header_ = <<>>

\* y is x but for what was received and passed on.
SameOperations(x, y) ==
    /\ y.pending = x.pending /\ y.ready = x.ready /\ y.sock = x.sock
    /\ y.slept = x.slept /\ y.late = x.late /\ y.attempts = x.attempts

\* Feeding the framer.
LEMMA PushFacts ==
    ASSUME NEW x \in Object, NEW bytes \in Seq(Byte)
    PROVE  LET y == push(x, bytes)
           IN  /\ y \in Object /\ SameOperations(x, y) /\ y.framed = x.framed \o bytes
               /\ y.header_done_ = x.header_done_
               /\ y.response_header_ = x.response_header_
<1>1. x.framed \o bytes \in Seq(Byte)
  BY ConcatProperties DEF Object
<1>. QED
  BY <1>1 DEF push, Object, SameOperations

\* The connection is up: the request is sent.
LEMMA ConnectedFacts ==
    ASSUME NEW x \in Object
    PROVE  \E z \in Object :
              /\ Connected(x) = AsyncTransfer(z, "write") /\ Fresh(z)
              /\ z.pending = x.pending /\ z.ready = x.ready /\ z.late = x.late
              /\ z.attempts = x.attempts /\ z.framed = x.framed
<1>. DEFINE z == [x EXCEPT !.delay_s_ = 1, !.response_header_ = <<>>, !.header_done_ = FALSE]
<1>1. <<>> \in Seq(Byte) /\ 1 \in 1..MaxDelay
  BY DelayAssumption
<1>2. /\ z \in Object /\ Fresh(z) /\ z.pending = x.pending /\ z.ready = x.ready
      /\ z.late = x.late /\ z.attempts = x.attempts /\ z.framed = x.framed
  BY <1>1 DEF Object, Fresh
<1>3. Connected(x) = AsyncTransfer(z, "write")
  BY DEF Connected
<1>. HIDE DEF z
<1>. QED
  BY <1>2, <1>3

\* The parser leaves the operations alone, or starts over.
LEMMA ParserFacts ==
    ASSUME NEW x \in Object, NEW data \in Seq(Byte), g_running \in BOOLEAN
    PROVE  LET y == on_bytes(x, data)
           IN  y \in Object /\ y.late = x.late /\ y.attempts = x.attempts
<1>. DEFINE z == [x EXCEPT !.response_header_ = @ \o data]
            y == on_bytes(x, data)
<1>1. CASE x.header_done_
  <2>1. y = push(x, data)
    BY <1>1 DEF on_bytes
  <2>. QED
    BY <2>1, PushFacts DEF SameOperations
<1>2. CASE ~x.header_done_
  <2>1. x.response_header_ \o data \in Seq(Byte)
    BY ConcatProperties DEF Object
  <2>2. z \in Object /\ SameOperations(x, z) /\ z.response_header_ \in Seq(Byte)
    BY <2>1 DEF Object, SameOperations
  <2>3. y = IF HeaderEnds(z.response_header_) = {} THEN z ELSE EndOfHeader(z)
    BY <1>2 DEF on_bytes
  <2>. HIDE DEF y, z
  <2>4. CASE HeaderEnds(z.response_header_) = {}
    BY <2>2, <2>3, <2>4 DEF y, SameOperations
  <2>5. CASE HeaderEnds(z.response_header_) # {}
    <3>. DEFINE b == z.response_header_
                rest == SubSeq(b, HeaderEnd(b) + 1, Len(b))
                w == push(z, rest)
                v == [w EXCEPT !.header_done_ = TRUE, !.response_header_ = <<>>]
    <3>1. y = IF ~Accepted(b) THEN reconnect(z) ELSE v
      BY <2>3, <2>5 DEF EndOfHeader
    <3>2. HeaderEnd(b) \in 1..Len(b) /\ Len(b) \in Nat
      BY <2>2, <2>5, HeaderEndFacts, LenProperties
    <3>3. \A j \in (HeaderEnd(b) + 1)..Len(b) : b[j] \in Byte
      BY <2>2, <3>2, ElementOfSeq
    <3>4. HeaderEnd(b) + 1 \in Int /\ Len(b) \in Int
      BY <3>2
    <3>5. rest \in Seq(Byte)
      BY <3>3, <3>4, SubSeqProperties
    <3>. HIDE DEF b, rest
    <3>6. w \in Object /\ SameOperations(z, w)
      BY <2>2, <3>5, PushFacts
    <3>. HIDE DEF w
    <3>7. <<>> \in Seq(Byte)
      OBVIOUS
    <3>8. v \in Object /\ SameOperations(w, v)
      BY <3>6, <3>7 DEF Object, SameOperations
    <3>9. SameOperations(x, v)
      BY <2>2, <3>6, <3>8 DEF SameOperations
    <3>10. /\ reconnect(z) \in Object /\ reconnect(z).late = x.late
           /\ reconnect(z).attempts = x.attempts
      BY <2>2, ReconnectFacts DEF SameOperations
    <3>. HIDE DEF v
    <3>. QED
      BY <3>1, <3>8, <3>9, <3>10 DEF SameOperations, y
  <2>. QED
    BY <2>4, <2>5
<1>. QED
  BY <1>1, <1>2

\* A transfer leaves something to wait for.
LEMMA TransferLive ==
    ASSUME NEW x \in Object, NEW k \in Kinds
    PROVE  Live(AsyncTransfer(x, k))
<1>. DEFINE y == AsyncTransfer(x, k)
<1>1. \/ y.pending[k] = x.pending[k] + 1
      \/ y.ready = Append(x.ready, Done(k, "err"))
  BY TransferFacts
<1>2. x.pending[k] \in Nat /\ x.ready \in Seq(Operation) /\ Done(k, "err") \in Operation
  BY DoneFacts DEF Object, Results
<1>3. Append(x.ready, Done(k, "err")) # <<>>
  BY <1>2, AppendProperties
<1>. HIDE DEF y
<1>4. y.pending[k] = x.pending[k] + 1 => y.pending[k] > 0
  BY <1>2
<1>5. Live(y)
  BY <1>1, <1>3, <1>4 DEF Live
<1>. QED
  BY <1>5 DEF y

\* What every handler does: while the program runs it leaves something to wait
\* for, whatever the result of its operation.
LEMMA HandlerFacts ==
    ASSUME NEW x \in Object, NEW o \in Operation, buffer_ \in Seq(Byte), g_running \in BOOLEAN
    PROVE  LET y == Handler(x, o)
           IN  y \in Object /\ y.attempts >= x.attempts /\ (g_running => Live(y))
<1>. DEFINE Goes(y) == /\ y \in Object /\ y.attempts >= x.attempts
                       /\ g_running => Live(y)
<1>1. o.kind \in Kinds /\ x.attempts \in Nat
  BY DEF Operation, Object
<1>2. /\ "write" \in Kinds /\ "read" \in Kinds /\ "timer" \in Kinds /\ "resolve" \in Kinds
      /\ "connect" \in Kinds
  BY DEF Kinds
<1>3. Goes(reconnect(x))
  BY <1>1, <1>2, ReconnectFacts DEF Live
<1>4. Goes(AsyncConnect(x))
  BY <1>1, <1>2, AsyncConnectFacts DEF SameData, Live
<1>5. Goes(Connected(x))
  <2>1. PICK z \in Object : Connected(x) = AsyncTransfer(z, "write") /\ z.attempts = x.attempts
    BY ConnectedFacts
  <2>2. /\ AsyncTransfer(z, "write") \in Object /\ SameData(z, AsyncTransfer(z, "write"))
        /\ Live(AsyncTransfer(z, "write"))
    BY <1>2, TransferFacts, TransferLive
  <2>. QED
    BY <1>1, <2>1, <2>2 DEF SameData
<1>6. \A z \in Object : z.attempts = x.attempts => Goes(read_loop(z))
  <2>. SUFFICES ASSUME NEW z \in Object, z.attempts = x.attempts PROVE Goes(read_loop(z))
    OBVIOUS
  <2>1. CASE g_running
    <3>1. read_loop(z) = AsyncTransfer(z, "read")
      BY <2>1 DEF read_loop
    <3>2. /\ AsyncTransfer(z, "read") \in Object /\ SameData(z, AsyncTransfer(z, "read"))
          /\ Live(AsyncTransfer(z, "read"))
      BY <1>2, TransferFacts, TransferLive
    <3>. QED
      BY <1>1, <3>1, <3>2 DEF SameData
  <2>2. CASE ~g_running
    BY <1>1, <2>2 DEF read_loop
  <2>. QED
    BY <2>1, <2>2
<1>7. Goes(read_loop(on_bytes(x, buffer_)))
  BY <1>6, ParserFacts
<1>8. Goes(connect(x))
  BY <1>2, ConnectFacts DEF Live
<1>9. ~g_running => Goes(x)
  BY <1>1
<1>. HIDE DEF Goes
<1>10. Goes(Handler(x, o))
  BY <1>1, <1>3, <1>4, <1>5, <1>6, <1>7, <1>8, <1>9
     DEF Handler, on_resolve, on_connect, on_write, on_read, on_timer, Kinds, Goes
<1>. QED
  BY <1>10 DEF Goes

------------------------------------------------------------------------------
(* The inductive invariant. *)

\* x passed nothing of the latest connection on.
Older(x) == \A n \in 1..Len(x.framed) : x.framed[n].conn < Len(answers)

\* What was passed on is payload, without a gap.
Delivered(d) ==
    \A n \in 1..Len(d) :
        /\ d[n].conn \in 1..Len(answers)
        /\ IF n = 1 \/ d[n].conn > d[n - 1].conn
           THEN d[n].pos = HeaderLen + 1
           ELSE d[n] = [conn |-> d[n - 1].conn, pos |-> d[n - 1].pos + 1]

\* The payload of the latest connection was passed on up to byte h.
PassedOn(x, h) ==
    /\ h >= HeaderLen
    /\ IF h = HeaderLen THEN Older(x)
       ELSE /\ Len(x.framed) > 0
            /\ x.framed[Len(x.framed)] = [conn |-> Len(answers), pos |-> h]

\* The latest connection was handled up to byte h.
Received(x, h) ==
    /\ Len(answers) > 0
    /\ IF x.header_done_ THEN PassedOn(x, h)
       ELSE h < HeaderLen /\ x.response_header_ = Bytes(0, h) /\ Older(x)

\* A connection from which nothing was read.
Unread(x) == pos = 0 /\ Older(x) /\ Len(answers) > 0

\* While an operation of kind k is under way.
Before(x, k) == /\ k = "read" => Received(x, pos)
                /\ k = "write" => Unread(x) /\ Fresh(x)

\* While the handler of o waits to run.
After(x, o) ==
    /\ o = Done("connect", "ok") => Unread(x)
    /\ o = Done("write", "ok") => Unread(x) /\ Fresh(x)
    /\ o = Done("read", "ok") =>
          \E n \in 1..pos : buffer_ = Bytes(pos - n, n) /\ Received(x, pos - n)

\* The chain: nothing, one operation under way, or one completed.
Waiting(x)   == \E k \in Kinds : Only(x, k) /\ x.ready = <<>> /\ Before(x, k)
Completed(x) == \E o \in Operation : Idle(x) /\ x.ready = <<o>> /\ After(x, o)

Chain(x) == Delivered(x.framed) /\ (Quiet(x) \/ Waiting(x) \/ Completed(x))

AllAccepted == \A c \in 1..Len(answers) : answers[c]

UnderWay(x) == g_running /\ x.attempts > 0 => Live(x)

\* Before start() the object is at rest.
AtRest(x) == x.attempts = 0 => Quiet(x)

IndInv == TypeInv /\ UnderWay(s) /\ AtRest(s) /\ (AllAccepted => Chain(s))

------------------------------------------------------------------------------
(* What was passed on, while every request was accepted. *)

\* The bytes that follow what was passed on may be passed on.
LEMMA DeliveredMore ==
    ASSUME NEW x \in Object, NEW h \in Nat, NEW n \in Nat, answers \in Seq(BOOLEAN),
           Delivered(x.framed), Len(answers) > 0, PassedOn(x, h),
           NEW y \in Object, y.framed = x.framed \o Bytes(h, n)
    PROVE  Delivered(y.framed) /\ PassedOn(y, h + n)
<1>. DEFINE c == Len(answers)
            d == x.framed
            b == Bytes(h, n)
            e == y.framed
<1>1. c \in Nat /\ c \in 1..c /\ HeaderLen \in Nat \ {0} /\ h >= HeaderLen
  BY LenProperties, AsioAssumption DEF PassedOn
<1>2. d \in Seq(Byte) /\ Len(d) \in Nat
  BY LenProperties DEF Object
<1>3. /\ b \in Seq(Byte) /\ Len(b) = n
      /\ \A j \in 1..n : b[j] = [conn |-> c, pos |-> h + j]
  BY BytesFacts
<1>5. \A j \in 1..Len(d) : d[j].conn \in 1..c
  BY DEF Delivered
<1>6. IF h = HeaderLen THEN \A j \in 1..Len(d) : d[j].conn < c
      ELSE Len(d) > 0 /\ d[Len(d)] = [conn |-> c, pos |-> h]
  BY DEF PassedOn, Older
<1>7. Delivered(d) /\ e = d \o b
  OBVIOUS
<1>. HIDE DEF b, c, d, e
<1>4. /\ Len(e) = Len(d) + n
      /\ \A j \in 1..(Len(d) + n) : e[j] = IF j <= Len(d) THEN d[j] ELSE b[j - Len(d)]
  BY <1>2, <1>3, <1>7, ConcatProperties
<1>8. \A j \in 1..Len(d) : e[j] = d[j]
  BY <1>2, <1>4
<1>9. \A j \in 1..n : e[Len(d) + j] = [conn |-> c, pos |-> h + j]
  <2>. SUFFICES ASSUME NEW j \in 1..n PROVE e[Len(d) + j] = [conn |-> c, pos |-> h + j]
    OBVIOUS
  <2>1. Len(d) + j \in 1..(Len(d) + n) /\ ~(Len(d) + j <= Len(d)) /\ (Len(d) + j) - Len(d) = j
    BY <1>2
  <2>. QED
    BY <1>3, <1>4, <2>1
<1>10. ASSUME NEW m \in 1..Len(e)
       PROVE  /\ e[m].conn \in 1..c
              /\ IF m = 1 \/ e[m].conn > e[m - 1].conn
                 THEN e[m].pos = HeaderLen + 1
                 ELSE e[m] = [conn |-> e[m - 1].conn, pos |-> e[m - 1].pos + 1]
  <2>1. CASE m <= Len(d)
    <3>1. m \in 1..Len(d) /\ (m # 1 => m - 1 \in 1..Len(d))
      BY <1>2, <2>1
    <3>2. e[m] = d[m] /\ (m # 1 => e[m - 1] = d[m - 1])
      BY <1>8, <3>1
    <3>3. /\ d[m].conn \in 1..c
          /\ IF m = 1 \/ d[m].conn > d[m - 1].conn
             THEN d[m].pos = HeaderLen + 1
             ELSE d[m] = [conn |-> d[m - 1].conn, pos |-> d[m - 1].pos + 1]
      BY <1>7, <3>1 DEF Delivered, c
    <3>. QED
      BY <3>2, <3>3
  <2>2. CASE m > Len(d)
    <3>. DEFINE j == m - Len(d)
    <3>1. j \in 1..n /\ m = Len(d) + j
      BY <1>2, <1>4, <2>2
    <3>2. e[m] = [conn |-> c, pos |-> h + j]
      BY <1>9, <3>1
    <3>3. CASE j > 1
      <4>1. j - 1 \in 1..n /\ m - 1 = Len(d) + (j - 1) /\ m # 1 /\ h + (j - 1) + 1 = h + j
        BY <1>2, <3>1, <3>3
      <4>2. e[m - 1] = [conn |-> c, pos |-> h + (j - 1)]
        BY <1>9, <4>1
      <4>. QED
        BY <1>1, <1>6, <3>2, <4>1, <4>2
    <3>4. CASE j = 1 /\ m = 1
      <4>1. Len(d) = 0
        BY <1>2, <3>1, <3>4
      <4>2. h = HeaderLen
        BY <1>6, <4>1
      <4>. QED
        BY <1>1, <1>6, <3>2, <3>4, <4>2
    <3>5. CASE j = 1 /\ m # 1
      <4>1. m - 1 = Len(d) /\ Len(d) \in 1..Len(d)
        BY <1>2, <3>1, <3>5
      <4>2. e[m - 1] = d[Len(d)]
        BY <1>8, <4>1
      <4>3. CASE h = HeaderLen
        <5>1. e[m - 1].conn < c /\ e[m - 1].conn \in 1..c
          BY <1>5, <1>6, <4>1, <4>2, <4>3
        <5>. QED
          BY <1>1, <1>6, <3>2, <3>5, <4>3, <5>1
      <4>4. CASE h # HeaderLen
        BY <1>1, <1>6, <3>2, <3>5, <4>2, <4>4
      <4>. QED
        BY <4>3, <4>4
    <3>6. j > 1 \/ j = 1
      BY <3>1
    <3>. QED
      BY <3>3, <3>4, <3>5, <3>6
  <2>. QED
    BY <1>2, <1>4, <2>1, <2>2
<1>11. Delivered(e)
  BY <1>10 DEF Delivered, c
<1>12. PassedOn(y, h + n)
  <2>1. CASE n = 0
    <3>1. Len(e) = Len(d) /\ h + n = h
      BY <1>2, <1>4, <2>1
    <3>2. \A j \in 1..Len(e) : e[j] = d[j]
      BY <1>8, <3>1
    <3>3. CASE h = HeaderLen
      BY <1>1, <1>6, <3>1, <3>2, <3>3 DEF PassedOn, Older, e, c
    <3>4. CASE h # HeaderLen
      <4>1. Len(e) > 0 /\ Len(e) \in 1..Len(e)
        BY <1>2, <1>6, <3>1, <3>4
      <4>2. e[Len(e)] = [conn |-> c, pos |-> h + n]
        BY <1>6, <3>1, <3>2, <3>4, <4>1
      <4>. QED
        BY <1>1, <3>1, <3>4, <4>1, <4>2 DEF PassedOn, e, c
    <3>. QED
      BY <3>3, <3>4
  <2>2. CASE n > 0
    <3>1. n \in 1..n /\ Len(e) = Len(d) + n /\ Len(e) > 0 /\ h + n >= HeaderLen
          /\ h + n # HeaderLen
      BY <1>1, <1>2, <1>4, <2>2
    <3>2. e[Len(e)] = [conn |-> c, pos |-> h + n]
      BY <1>9, <3>1
    <3>. QED
      BY <3>1, <3>2 DEF PassedOn, e, c
  <2>. QED
    BY <2>1, <2>2
<1>. QED
  BY <1>11, <1>12 DEF e

\* The parser takes the next bytes of the latest connection, which was accepted.
LEMMA ParserChain ==
    ASSUME NEW x \in Object, answers \in Seq(BOOLEAN), pos \in Nat, NEW n \in 1..pos,
           buffer_ = Bytes(pos - n, n), Received(x, pos - n), Delivered(x.framed), AllAccepted
    PROVE  LET y == on_bytes(x, buffer_)
           IN  /\ y \in Object /\ SameOperations(x, y)
               /\ Received(y, pos) /\ Delivered(y.framed)
<1>. DEFINE c == Len(answers)
            y == on_bytes(x, buffer_)
            z == [x EXCEPT !.response_header_ = @ \o buffer_]
<1>1. /\ c \in Nat /\ c > 0 /\ HeaderLen \in Nat \ {0} /\ n \in Nat /\ pos - n \in Nat
      /\ (pos - n) + n = pos /\ pos >= 1
  BY LenProperties, AsioAssumption DEF Received
<1>2. Bytes(pos - n, n) \in Seq(Byte)
  BY <1>1, BytesFacts
<1>3. CASE x.header_done_
  <2>1. y = push(x, buffer_)
    BY <1>3 DEF on_bytes
  <2>2. PassedOn(x, pos - n)
    BY <1>3 DEF Received
  <2>. HIDE DEF y
  <2>3. /\ y \in Object /\ SameOperations(x, y)
        /\ y.framed = x.framed \o Bytes(pos - n, n)
        /\ y.header_done_
    BY <1>2, <1>3, <2>1, PushFacts DEF SameOperations
  <2>4. Delivered(y.framed) /\ PassedOn(y, (pos - n) + n)
    BY <1>1, <2>2, <2>3, DeliveredMore
  <2>5. Received(y, pos)
    BY <1>1, <2>2, <2>3, <2>4 DEF Received
  <2>. QED
    BY <2>3, <2>4, <2>5 DEF y
<1>4. CASE ~x.header_done_
  <2>1. /\ pos - n < HeaderLen /\ x.response_header_ = Bytes(0, pos - n) /\ Older(x)
    BY <1>4 DEF Received
  <2>2. x.response_header_ \o buffer_ = Bytes(0, pos)
    <3>1. Bytes(0, pos - n) \o Bytes(0 + (pos - n), n) = Bytes(0, (pos - n) + n)
      BY <1>1, BytesJoined
    <3>2. 0 + (pos - n) = pos - n
      BY <1>1
    <3>. QED
      BY <1>1, <2>1, <3>1, <3>2
  <2>3. /\ Bytes(0, pos) \in Seq(Byte) /\ Len(Bytes(0, pos)) = pos
        /\ \A j \in 1..pos : Bytes(0, pos)[j] = [conn |-> c, pos |-> 0 + j]
    BY BytesFacts
  <2>4. z = [x EXCEPT !.response_header_ = Bytes(0, pos)]
    BY <2>2 DEF Object
  <2>5. y = IF HeaderEnds(z.response_header_) = {} THEN z ELSE EndOfHeader(z)
    BY <1>4 DEF on_bytes
  <2>. HIDE DEF y, z
  <2>6. /\ z \in Object /\ SameOperations(x, z) /\ z.framed = x.framed
        /\ z.response_header_ = Bytes(0, pos) /\ ~z.header_done_
    BY <1>4, <2>3, <2>4 DEF Object, SameOperations
  <2>7. Older(z)
    BY <2>1, <2>6 DEF Older
  <2>8. \A j : j \in HeaderEnds(Bytes(0, pos)) <=> j \in 1..pos /\ j = HeaderLen
    <3>1. DOMAIN Bytes(0, pos) = 1..pos
      BY <2>3, LenProperties
    <3>2. \A j \in 1..pos : Bytes(0, pos)[j].pos = j
      <4>. TAKE j \in 1..pos
      <4>1. Bytes(0, pos)[j] = [conn |-> c, pos |-> 0 + j]
        BY <2>3
      <4>2. Bytes(0, pos)[j].pos = 0 + j
        BY <4>1
      <4>. QED
        BY <4>2
    <3>. QED
      BY <3>1, <3>2 DEF HeaderEnds
  <2>9. CASE pos < HeaderLen
    <3>1. HeaderEnds(Bytes(0, pos)) = {}
      BY <1>1, <2>8, <2>9
    <3>2. y = z
      BY <2>5, <2>6, <3>1
    <3>3. Received(y, pos)
      BY <1>1, <2>6, <2>7, <2>9, <3>2 DEF Received
    <3>. QED
      BY <2>6, <3>2, <3>3 DEF y
  <2>10. CASE ~(pos < HeaderLen)
    <3>. DEFINE b == Bytes(0, pos)
                rest == SubSeq(b, HeaderLen + 1, pos)
                w == push(z, rest)
                v == [w EXCEPT !.header_done_ = TRUE, !.response_header_ = <<>>]
    <3>1. HeaderLen \in 1..pos /\ HeaderLen \in 0..pos /\ 1 \in 1..pos
      BY <1>1, <2>10
    <3>2. HeaderEnds(b) # {} /\ HeaderEnd(b) = HeaderLen
      <4>1. HeaderLen \in HeaderEnds(b)
        BY <2>8, <3>1
      <4>2. HeaderEnd(b) \in HeaderEnds(b)
        BY <2>3, <4>1, HeaderEndFacts
      <4>3. HeaderEnd(b) = HeaderLen
        BY <2>8, <4>2, Zenon
      <4>4. HeaderEnds(b) # {}
        BY <4>1, Zenon
      <4>. QED
        BY <4>3, <4>4
    <3>3. Accepted(b) = answers[c]
      <4>1. b[1] = [conn |-> c, pos |-> 0 + 1]
        BY <2>3, <3>1
      <4>2. b[1].conn = c
        BY <4>1
      <4>. QED
        BY <4>2 DEF Accepted
    <3>a. answers[c]
      BY <1>1 DEF AllAccepted
    <3>4. y = v
      BY <2>3, <2>5, <2>6, <3>2, <3>3, <3>a DEF EndOfHeader
    <3>5. rest = Bytes(HeaderLen, pos - HeaderLen)
      BY <3>1, BytesAfter
    <3>6. pos - HeaderLen \in Nat /\ HeaderLen \in Nat /\ HeaderLen + (pos - HeaderLen) = pos
      BY <1>1, <2>10
    <3>7. rest \in Seq(Byte)
      BY <3>5, <3>6, BytesFacts
    <3>. HIDE DEF b, rest
    <3>11. /\ w \in Object /\ SameOperations(z, w) /\ w.framed = z.framed \o rest
      BY <2>6, <3>7, PushFacts DEF SameOperations
    <3>. HIDE DEF w
    <3>12. <<>> \in Seq(Byte)
      OBVIOUS
    <3>13. /\ v \in Object /\ SameOperations(w, v) /\ v.framed = w.framed
          /\ v.header_done_
      BY <3>11, <3>12 DEF Object, SameOperations
    <3>. HIDE DEF v
    <3>14. SameOperations(x, v)
      BY <2>6, <3>11, <3>13 DEF SameOperations
    <3>15. PassedOn(z, HeaderLen) /\ Delivered(z.framed)
      BY <1>1, <2>6, <2>7 DEF PassedOn
    <3>16. v.framed = z.framed \o Bytes(HeaderLen, pos - HeaderLen)
      BY <3>5, <3>11, <3>13
    <3>17. Delivered(v.framed) /\ PassedOn(v, HeaderLen + (pos - HeaderLen))
      BY <1>1, <2>6, <3>6, <3>a, <3>13, <3>15, <3>16, DeliveredMore
    <3>18. Received(v, pos)
      BY <1>1, <3>6, <3>a, <3>13, <3>17 DEF Received
    <3>. QED
      BY <3>4, <3>a, <3>13, <3>14, <3>17, <3>18 DEF y
  <2>. QED
    BY <2>9, <2>10
<1>. QED
  BY <1>3, <1>4

------------------------------------------------------------------------------
(* The links of the chain. *)

\* A transfer that is started in a quiet state is the next link, whatever the
\* socket.
LEMMA TransferLink ==
    ASSUME NEW x \in Object, NEW k \in {"write", "read"}, Quiet(x), Delivered(x.framed),
           k = "write" => Unread(x) /\ Fresh(x), k = "read" => Received(x, pos)
    PROVE  AsyncTransfer(x, k) \in Object /\ Chain(AsyncTransfer(x, k))
<1>. DEFINE y == AsyncTransfer(x, k)
<1>1. k \in Kinds /\ "err" \in Results
  BY DEF Kinds, Results
<1>2. /\ y \in Object /\ SameData(x, y)
      /\ \/ /\ y.ready = x.ready /\ y.pending[k] = x.pending[k] + 1
            /\ \A l \in Kinds \ {k} : y.pending[l] = x.pending[l]
         \/ y.pending = x.pending /\ y.ready = Append(x.ready, Done(k, "err"))
  BY <1>1, TransferFacts
<1>. HIDE DEF y
<1>3. /\ Delivered(y.framed)
      /\ (k = "write" => Unread(y) /\ Fresh(y)) /\ (k = "read" => Received(y, pos))
  BY <1>2 DEF SameData, Unread, Received, PassedOn, Older, Fresh
<1>4. CASE /\ y.ready = x.ready /\ y.pending[k] = x.pending[k] + 1
           /\ \A l \in Kinds \ {k} : y.pending[l] = x.pending[l]
  <2>1. Only(y, k) /\ y.ready = <<>>
    BY <1>1, <1>4 DEF Only, Quiet, Idle
  <2>2. Waiting(y)
    BY <1>1, <1>3, <2>1 DEF Waiting, Before
  <2>. QED
    BY <1>2, <1>3, <2>2 DEF Chain, y
<1>5. CASE y.pending = x.pending /\ y.ready = Append(x.ready, Done(k, "err"))
  <2>1. Done(k, "err") \in Operation /\ Done(k, "err").st = "err"
    BY <1>1, DoneFacts
  <2>2. Idle(y) /\ y.ready = <<Done(k, "err")>>
    BY <1>5, <2>1 DEF Quiet, Idle
  <2>3. \A l : Done(k, "err") # Done(l, "ok")
    BY DEF Done
  <2>4. After(y, Done(k, "err"))
    BY <2>3 DEF After
  <2>5. Completed(y)
    BY <2>1, <2>2, <2>4 DEF Completed
  <2>. QED
    BY <1>2, <1>3, <2>5 DEF Chain, y
<1>. QED
  BY <1>2, <1>4, <1>5

\* reconnect(), connect() and the resolved name start the chain anew.
LEMMA FreshLinks ==
    ASSUME NEW x \in Object, Quiet(x), Delivered(x.framed), g_running \in BOOLEAN
    PROVE  Chain(reconnect(x)) /\ Chain(connect(x)) /\ Chain(AsyncConnect(x))
<1>1. "timer" \in Kinds /\ "resolve" \in Kinds /\ "connect" \in Kinds
  BY DEF Kinds
<1>2. \A y : Before(y, "timer") /\ Before(y, "resolve") /\ Before(y, "connect")
  BY DEF Before
<1>3. Chain(reconnect(x))
  <2>. DEFINE y == reconnect(x)
  <2>1. y.framed = x.framed /\ (Quiet(y) \/ (Only(y, "timer") /\ y.ready = <<>>))
    BY ReconnectFacts
  <2>. HIDE DEF y
  <2>2. Chain(y)
    BY <1>1, <1>2, <2>1 DEF Chain, Waiting
  <2>. QED
    BY <2>2 DEF y
<1>4. Chain(connect(x))
  <2>. DEFINE y == connect(x)
  <2>1. y.framed = x.framed /\ (Quiet(y) \/ (Only(y, "resolve") /\ y.ready = <<>>))
    BY ConnectFacts
  <2>. HIDE DEF y
  <2>2. Chain(y)
    BY <1>1, <1>2, <2>1 DEF Chain, Waiting
  <2>. QED
    BY <2>2 DEF y
<1>5. Chain(AsyncConnect(x))
  <2>. DEFINE y == AsyncConnect(x)
  <2>1. SameData(x, y) /\ Only(y, "connect") /\ y.ready = <<>>
    BY AsyncConnectFacts
  <2>. HIDE DEF y
  <2>2. Chain(y)
    BY <1>1, <1>2, <2>1 DEF Chain, Waiting, SameData
  <2>. QED
    BY <2>2 DEF y
<1>. QED
  BY <1>3, <1>4, <1>5

\* A connection is up: the request follows, without a trace of earlier answers.
LEMMA ConnectedLink ==
    ASSUME NEW x \in Object, Quiet(x), Delivered(x.framed), Unread(x)
    PROVE  Chain(Connected(x))
<1>1. PICK z \in Object :
        /\ Connected(x) = AsyncTransfer(z, "write") /\ Fresh(z)
        /\ z.pending = x.pending /\ z.ready = x.ready /\ z.framed = x.framed
  BY ConnectedFacts
<1>2. Quiet(z) /\ Delivered(z.framed) /\ Unread(z)
  BY <1>1 DEF Quiet, Idle, Unread, Older
<1>3. Chain(AsyncTransfer(z, "write"))
  BY <1>1, <1>2, TransferLink
<1>. QED
  BY <1>1, <1>3

\* The next read, unless the program is to end.
LEMMA ReadLink ==
    ASSUME NEW x \in Object, Quiet(x), Delivered(x.framed), Received(x, pos)
    PROVE  Chain(read_loop(x))
<1>1. CASE g_running
  BY <1>1, TransferLink DEF read_loop
<1>2. CASE ~g_running
  BY <1>2 DEF read_loop, Chain
<1>. QED
  BY <1>1, <1>2

\* The handler at the head of the queue, which is the only one, adds the next link.
LEMMA HandlerChain ==
    ASSUME TypeInv, Chain(s), AllAccepted, s.ready # <<>>
    PROVE  Chain(Handler([s EXCEPT !.ready = Tail(@)], Head(s.ready)))
<1>. USE DEF TypeInv
<1>1. PICK o \in Operation : Idle(s) /\ s.ready = <<o>> /\ After(s, o)
  BY DEF Chain, Quiet, Waiting, Completed
<1>. DEFINE x == [s EXCEPT !.ready = <<>>]
<1>2. Head(s.ready) = o /\ [s EXCEPT !.ready = Tail(@)] = x
  BY <1>1
<1>3. /\ x \in Object /\ SameData(s, x) /\ x.pending = s.pending /\ x.ready = <<>>
  <2>1. <<>> \in Seq(Operation)
    OBVIOUS
  <2>. QED
    BY <2>1 DEF Object, SameData
<1>. HIDE DEF x
<1>4. Quiet(x) /\ Delivered(x.framed)
  BY <1>1, <1>3 DEF Quiet, Idle, SameData, Chain
<1>5. /\ Unread(s) => Unread(x)
      /\ Fresh(s) => Fresh(x)
      /\ \A h : Received(s, h) => Received(x, h)
  BY <1>3 DEF SameData, Fresh, Unread, Older, Received, PassedOn
<1>6. o.kind \in Kinds /\ o = Done(o.kind, o.st)
  BY DEF Operation, Done
<1>7. Chain(x) /\ Chain(reconnect(x)) /\ Chain(connect(x)) /\ Chain(AsyncConnect(x))
  BY <1>3, <1>4, FreshLinks DEF Chain
<1>8. CASE o = Done("connect", "ok")
  <2>1. Chain(Connected(x))
    BY <1>1, <1>3, <1>4, <1>5, <1>8, ConnectedLink DEF After
  <2>2. Handler(x, o) = Connected(x)
    BY <1>8 DEF Handler, on_connect, Done
  <2>. QED
    BY <1>2, <2>1, <2>2
<1>9. CASE o = Done("write", "ok")
  <2>1. Unread(x) /\ Fresh(x)
    BY <1>1, <1>5, <1>9 DEF After
  <2>2. Bytes(0, 0) = <<>>
    <3>1. Bytes(0, 0) \in Seq(Byte) /\ Len(Bytes(0, 0)) = 0
      BY BytesFacts
    <3>. QED
      BY <3>1, EmptySeq
  <2>3. Received(x, pos)
    BY <2>1, <2>2, AsioAssumption DEF Unread, Received, Fresh
  <2>4. Chain(read_loop(x))
    BY <1>3, <1>4, <2>3, ReadLink
  <2>5. Handler(x, o) = read_loop(x)
    BY <1>9 DEF Handler, on_write, Done
  <2>. QED
    BY <1>2, <2>4, <2>5
<1>10. CASE o = Done("read", "ok")
  <2>. DEFINE y == on_bytes(x, buffer_)
  <2>1. PICK n \in 1..pos : buffer_ = Bytes(pos - n, n) /\ Received(x, pos - n)
    BY <1>1, <1>5, <1>10 DEF After
  <2>2. /\ y \in Object /\ SameOperations(x, y)
        /\ Received(y, pos) /\ Delivered(y.framed)
    BY <1>3, <1>4, <2>1, ParserChain
  <2>3. Handler(x, o) = read_loop(y)
    BY <1>10 DEF Handler, on_read, Done
  <2>. HIDE DEF y
  <2>4. Quiet(y)
    BY <1>4, <2>2 DEF Quiet, Idle, SameOperations
  <2>5. Chain(read_loop(y))
    BY <2>2, <2>4, ReadLink
  <2>. QED
    BY <1>2, <2>3, <2>5
<1>11. CASE o.st # "ok" \/ o.kind = "resolve" \/ o.kind = "timer"
  <2>1. Handler(x, o) \in {x, reconnect(x), connect(x), AsyncConnect(x)}
    BY <1>6, <1>11 DEF Handler, on_resolve, on_connect, on_write, on_read, on_timer, Kinds
  <2>. QED
    BY <1>2, <1>7, <2>1
<1>. QED
  BY <1>6, <1>8, <1>9, <1>10, <1>11 DEF Kinds

\* A handler touches neither the connections nor what was read.
LEMMA HandlerMoves ==
    ASSUME NEW y, s' = y, UNCHANGED <<answers, pos, buffer_>>, Chain(y)
    PROVE  Chain(s)'
<1>1. answers' = answers /\ pos' = pos /\ buffer_' = buffer_ /\ s' = y
  OBVIOUS
<1>2. Delivered(s.framed)'
  BY <1>1 DEF Chain, Delivered
<1>3. \A h : Received(s, h)' <=> Received(y, h)
  BY <1>1 DEF Received, PassedOn, Older, Bytes
<1>4. (Unread(s)' <=> Unread(y)) /\ (Fresh(s)' <=> Fresh(y))
  BY <1>1 DEF Unread, Older, Fresh
<1>5. ASSUME Waiting(y) PROVE Waiting(s)'
  <2>1. PICK k \in Kinds : Only(y, k) /\ y.ready = <<>> /\ Before(y, k)
    BY <1>5 DEF Waiting
  <2>2. Before(s, k)'
    BY <1>1, <1>3, <1>4, <2>1 DEF Before
  <2>. QED
    BY <1>1, <2>1, <2>2 DEF Waiting, Only
<1>6. ASSUME Completed(y) PROVE Completed(s)'
  <2>1. PICK o \in Operation : Idle(y) /\ y.ready = <<o>> /\ After(y, o)
    BY <1>6 DEF Completed
  <2>2. ASSUME o = Done("read", "ok")
        PROVE  \E n \in 1..pos' : buffer_' = Bytes(pos - n, n)' /\ Received(s, pos - n)'
    <3>1. PICK n \in 1..pos : buffer_ = Bytes(pos - n, n) /\ Received(y, pos - n)
      BY <2>1, <2>2 DEF After
    <3>2. buffer_' = Bytes(pos - n, n)'
      BY <1>1, <3>1 DEF Bytes
    <3>3. Received(s, pos - n)'
      BY <1>1, <3>1 DEF Received, PassedOn, Older, Bytes
    <3>. QED
      BY <1>1, <3>1, <3>2, <3>3
  <2>3. After(s, o)'
    BY <1>4, <2>1, <2>2 DEF After
  <2>. QED
    BY <1>1, <2>1, <2>3 DEF Completed, Idle
<1>. QED
  BY <1>1, <1>2, <1>5, <1>6 DEF Chain, Quiet, Idle

------------------------------------------------------------------------------
(* Every step, on any loop. *)

\* The initial state.
LEMMA InitInv == Init => IndInv
<1>. SUFFICES ASSUME Init PROVE IndInv
  OBVIOUS
<1>1. PICK l \in Loops :
        s = [pending |-> NoOps, ready |-> <<>>, sock |-> "closed",
             slept |-> FALSE, late |-> l,
             header_done_ |-> FALSE, response_header_ |-> <<>>,
             delay_s_ |-> 1, attempts |-> 0, framed |-> <<>>]
  BY DEF Init
<1>2. l \in BOOLEAN /\ 1 \in 1..MaxDelay /\ NoOps \in [Kinds -> Nat]
  BY AsioAssumption, DelayAssumption DEF NoOps
<1>3. /\ <<>> \in Seq(Operation) /\ <<>> \in Seq(Byte) /\ <<>> \in Seq(BOOLEAN)
      /\ Len(<<>>) = 0 /\ 1..0 = {}
  OBVIOUS
<1>4. TypeInv
  BY <1>1, <1>2, <1>3 DEF TypeInv, Object, Init
<1>5. s.attempts = 0 /\ s.ready = <<>> /\ s.framed = <<>> /\ s.pending = NoOps
  BY <1>1
<1>6. Quiet(s) /\ Delivered(s.framed)
  BY <1>3, <1>5 DEF Quiet, Idle, NoOps, Delivered
<1>. QED
  BY <1>4, <1>5, <1>6 DEF IndInv, UnderWay, AtRest, Chain

\* The completion of an operation.
LEMMA CompleteFacts ==
    ASSUME NEW k \in Kinds, NEW st \in {"ok", "err"}, s \in Object, s.pending[k] > 0
    PROVE  LET y == Complete(k, st)
           IN  /\ y \in Object /\ SameData(s, y) /\ Live(y)
               /\ y.pending[k] = s.pending[k] - 1
               /\ \A l \in Kinds \ {k} : y.pending[l] = s.pending[l]
               /\ s.ready = <<>> => y.ready = <<Done(k, st)>>
<1>. DEFINE p == [s.pending EXCEPT ![k] = @ - 1]
            x == [s EXCEPT !.pending = p]
            y == Post(x, k, st)
<1>1. s.pending \in [Kinds -> Nat] /\ st \in Results /\ s.ready \in Seq(Operation)
  BY DEF Object, Results
<1>2. /\ p \in [Kinds -> Nat] /\ p[k] = s.pending[k] - 1
      /\ \A l \in Kinds \ {k} : p[l] = s.pending[l]
  BY <1>1
<1>3. Complete(k, st) = y
  BY DEF Complete
<1>. HIDE DEF p
<1>4. x \in Object /\ SameData(s, x) /\ x.pending = p /\ x.ready = s.ready
  BY <1>2 DEF Object, SameData
<1>. HIDE DEF x
<1>5. /\ y \in Object /\ SameData(x, y) /\ y.ready = Append(x.ready, Done(k, st))
      /\ y.pending = x.pending
  BY <1>1, <1>4, PostFacts
<1>. HIDE DEF y
<1>6. SameData(s, y)
  BY <1>4, <1>5 DEF SameData
<1>7. Done(k, st) \in Operation
  BY <1>1, DoneFacts
<1>8. Append(x.ready, Done(k, st)) # <<>>
  BY <1>1, <1>4, <1>7, AppendProperties
<1>9. Live(y)
  BY <1>5, <1>8 DEF Live
<1>10. s.ready = <<>> => y.ready = <<Done(k, st)>>
  BY <1>4, <1>5
<1>. QED
  BY <1>2, <1>3, <1>4, <1>5, <1>6, <1>9, <1>10

\* What the network and the clock do to the object.
LEMMA NetworkMoves ==
    ASSUME TypeInv, Network \/ TimerExpires
    PROVE  \E k \in Kinds, st \in {"ok", "err"} :
              /\ s.pending[k] > 0
              /\ s' \in Object
              /\ s'.pending = Complete(k, st).pending /\ s'.ready = Complete(k, st).ready
              /\ s'.framed = s.framed /\ s'.attempts = s.attempts
              /\ s'.header_done_ = s.header_done_
              /\ s'.response_header_ = s.response_header_
              /\ \/ /\ k = "connect" /\ st = "ok" /\ pos' = 0 /\ buffer_' = buffer_
                    /\ \E accept \in BOOLEAN : answers' = Append(answers, accept)
                 \/ /\ k = "read" /\ st = "ok" /\ answers' = answers
                    /\ \E n \in 1..MaxRead : buffer_' = Bytes(pos, n) /\ pos' = pos + n
                 \/ /\ UNCHANGED <<answers, pos, buffer_>>
                    /\ k \in {"connect", "read"} => st = "err"
<1>. USE DEF TypeInv
<1>1. "resolve" \in Kinds /\ "connect" \in Kinds /\ "write" \in Kinds /\ "read" \in Kinds
      /\ "timer" \in Kinds
  BY DEF Kinds
<1>2. \A k \in Kinds, st \in {"ok", "err"} : s.pending[k] > 0 =>
        Complete(k, st) \in Object /\ SameData(s, Complete(k, st))
  BY CompleteFacts
<1>3. CASE ResolveDone
  BY <1>1, <1>2, <1>3 DEF ResolveDone, SameData
<1>4. CASE WriteDone
  BY <1>1, <1>2, <1>4 DEF WriteDone, SameData
<1>5. CASE ReadDone
  BY <1>1, <1>2, <1>5 DEF ReadDone, SameData
<1>6. CASE ConnectDone
  <2>. DEFINE y == Complete("connect", "ok")
  <2>1. s.pending["connect"] > 0 /\ buffer_' = buffer_
    BY <1>6 DEF ConnectDone
  <2>2. CASE s' = Complete("connect", "err") /\ UNCHANGED <<answers, pos>>
    BY <1>1, <1>2, <2>1, <2>2 DEF SameData
  <2>3. CASE /\ s' = [y EXCEPT !.sock = "up"] /\ pos' = 0
             /\ \E accept \in BOOLEAN : answers' = Append(answers, accept)
    <3>1. y \in Object /\ SameData(s, y)
      BY <1>1, <1>2, <2>1
    <3>. HIDE DEF y
    <3>2. s' \in Object /\ SameData(y, s') /\ s'.pending = y.pending /\ s'.ready = y.ready
      BY <2>3, <3>1 DEF Object, SameData
    <3>. QED
      BY <1>1, <2>1, <2>3, <3>1, <3>2 DEF SameData, y
  <2>. QED
    BY <1>6, <2>2, <2>3 DEF ConnectDone
<1>7. CASE TimerExpires
  <2>. DEFINE y == Complete("timer", "ok")
  <2>1. /\ s.pending["timer"] > 0 /\ s' = [y EXCEPT !.slept = TRUE]
        /\ UNCHANGED <<answers, pos, buffer_>>
    BY <1>7 DEF TimerExpires
  <2>2. y \in Object /\ SameData(s, y)
    BY <1>1, <1>2, <2>1
  <2>. HIDE DEF y
  <2>3. /\ s' \in Object /\ s'.pending = y.pending /\ s'.ready = y.ready
        /\ s'.framed = y.framed /\ s'.attempts = y.attempts
        /\ s'.header_done_ = y.header_done_ /\ s'.response_header_ = y.response_header_
    BY <2>1, <2>2 DEF Object
  <2>. QED
    BY <1>1, <2>1, <2>2, <2>3 DEF SameData, y
<1>. QED
  BY <1>3, <1>4, <1>5, <1>6, <1>7 DEF Network

\* The network and the clock keep the types, and leave something to handle.
LEMMA NetworkKept ==
    ASSUME TypeInv, Network \/ TimerExpires, UNCHANGED g_running
    PROVE  TypeInv' /\ Live(s)' /\ s'.attempts = s.attempts /\ ~Quiet(s)
<1>. USE DEF TypeInv
<1>1. PICK k \in Kinds, st \in {"ok", "err"} :
        /\ s.pending[k] > 0 /\ s' \in Object /\ s'.attempts = s.attempts
        /\ s'.pending = Complete(k, st).pending /\ s'.ready = Complete(k, st).ready
        /\ \/ pos' = 0 /\ buffer_' = buffer_
              /\ \E accept \in BOOLEAN : answers' = Append(answers, accept)
           \/ /\ answers' = answers
              /\ \E n \in 1..MaxRead : buffer_' = Bytes(pos, n) /\ pos' = pos + n
           \/ UNCHANGED <<answers, pos, buffer_>>
  BY NetworkMoves
<1>2. Live(s)'
  BY <1>1, CompleteFacts DEF Live
<1>3. ASSUME NEW accept \in BOOLEAN, answers' = Append(answers, accept)
      PROVE  answers' \in Seq(BOOLEAN)
  BY <1>3, AppendProperties
<1>4. ASSUME NEW n \in 1..MaxRead, buffer_' = Bytes(pos, n), pos' = pos + n
      PROVE  buffer_' \in Seq(Byte) /\ pos' \in Nat
  <2>1. n \in Nat /\ pos + n \in Nat
    BY AsioAssumption
  <2>. QED
    BY <1>4, <2>1, BytesFacts
<1>5. ~Quiet(s)
  BY <1>1 DEF Quiet, Idle
<1>. QED
  BY <1>1, <1>2, <1>3, <1>4, <1>5

\* The network and the clock add a link to the chain.
LEMMA NetworkChain ==
    ASSUME TypeInv, Chain(s), Network \/ TimerExpires
    PROVE  Chain(s)'
<1>. USE DEF TypeInv
<1>1. PICK k \in Kinds, st \in {"ok", "err"} :
        /\ s.pending[k] > 0 /\ s' \in Object
        /\ s'.pending = Complete(k, st).pending /\ s'.ready = Complete(k, st).ready
        /\ s'.framed = s.framed
        /\ s'.header_done_ = s.header_done_
        /\ s'.response_header_ = s.response_header_
        /\ \/ /\ k = "connect" /\ st = "ok" /\ pos' = 0 /\ buffer_' = buffer_
              /\ \E accept \in BOOLEAN : answers' = Append(answers, accept)
           \/ /\ k = "read" /\ st = "ok" /\ answers' = answers
              /\ \E n \in 1..MaxRead : buffer_' = Bytes(pos, n) /\ pos' = pos + n
           \/ /\ UNCHANGED <<answers, pos, buffer_>>
              /\ k \in {"connect", "read"} => st = "err"
  BY NetworkMoves
<1>. DEFINE o == Done(k, st)
<1>2. s.pending[k] \in Nat /\ s.pending[k] # 0
  BY <1>1 DEF Object
<1>3. Only(s, k) /\ s.ready = <<>> /\ Before(s, k) /\ Delivered(s.framed)
  BY <1>2 DEF Chain, Quiet, Idle, Waiting, Completed, Only
<1>4. Idle(s') /\ s'.ready = <<o>>
  BY <1>1, <1>3, CompleteFacts DEF Idle, Only
<1>5. o \in Operation /\ \A l, t : Done(l, t) = o => l = k /\ t = st
  BY DoneFacts DEF Results, Done
<1>. HIDE DEF o
\* It is enough to find what was passed on, and what the handler will need.
<1>6. ASSUME Delivered(s.framed)', After(s, o)' PROVE Chain(s)'
  <2>1. Completed(s)'
    BY <1>4, <1>5, <1>6 DEF Completed, Idle
  <2>. QED
    BY <1>6, <2>1 DEF Chain
<1>7. CASE UNCHANGED <<answers, pos, buffer_>> /\ (k \in {"connect", "read"} => st = "err")
  <2>1. Delivered(s.framed)'
    BY <1>1, <1>3, <1>7 DEF Delivered
  <2>2. k = "write" => Unread(s)' /\ Fresh(s)'
    BY <1>1, <1>3, <1>7 DEF Before, Unread, Older, Fresh
  <2>3. Done("connect", "ok") # o /\ Done("read", "ok") # o
    BY <1>5, <1>7
  <2>4. After(s, o)'
    BY <1>5, <2>2, <2>3 DEF After
  <2>. QED
    BY <1>6, <2>1, <2>4
<1>8. CASE /\ k = "connect" /\ st = "ok" /\ pos' = 0 /\ buffer_' = buffer_
           /\ \E accept \in BOOLEAN : answers' = Append(answers, accept)
  <2>1. PICK accept \in BOOLEAN : answers' = Append(answers, accept)
    BY <1>8
  <2>2. Len(answers') = Len(answers) + 1 /\ Len(answers) \in Nat
    BY <2>1, AppendProperties, LenProperties
  <2>3. \A n \in 1..Len(s.framed) :
          /\ s.framed[n].conn \in 1..Len(answers)
          /\ IF n = 1 \/ s.framed[n].conn > s.framed[n - 1].conn
             THEN s.framed[n].pos = HeaderLen + 1
             ELSE s.framed[n] = [conn |-> s.framed[n - 1].conn,
                                 pos |-> s.framed[n - 1].pos + 1]
    BY <1>3 DEF Delivered
  <2>4. \A n \in 1..Len(s.framed) :
          s.framed[n].conn \in 1..Len(answers') /\ s.framed[n].conn < Len(answers')
    <3>. TAKE n \in 1..Len(s.framed)
    <3>1. s.framed[n].conn \in 1..Len(answers)
      BY <2>3
    <3>. QED
      BY <2>2, <3>1
  <2>5. Delivered(s.framed)'
    BY <1>1, <2>3, <2>4 DEF Delivered
  <2>6. Unread(s)'
    BY <1>1, <1>8, <2>2, <2>4 DEF Unread, Older
  <2>7. Done("write", "ok") # o /\ Done("read", "ok") # o
    BY <1>5, <1>8
  <2>8. After(s, o)'
    BY <2>6, <2>7 DEF After
  <2>. QED
    BY <1>6, <2>5, <2>8
<1>9. CASE /\ k = "read" /\ st = "ok" /\ answers' = answers
           /\ \E n \in 1..MaxRead : buffer_' = Bytes(pos, n) /\ pos' = pos + n
  <2>1. PICK n \in 1..MaxRead : buffer_' = Bytes(pos, n) /\ pos' = pos + n
    BY <1>9
  <2>2. n \in 1..pos' /\ pos' - n = pos
    BY <2>1, AsioAssumption
  <2>3. buffer_' = Bytes(pos - n, n)'
    BY <1>9, <2>1, <2>2 DEF Bytes
  <2>4. Received(s, pos)
    BY <1>3, <1>9 DEF Before
  <2>5. Received(s, pos - n)'
    BY <1>1, <1>9, <2>2, <2>4 DEF Received, PassedOn, Older, Bytes
  <2>6. Delivered(s.framed)'
    BY <1>1, <1>3, <1>9 DEF Delivered
  <2>7. Done("write", "ok") # o /\ Done("connect", "ok") # o
    BY <1>5, <1>9
  <2>8. After(s, o)'
    BY <2>2, <2>3, <2>5, <2>7 DEF After
  <2>. QED
    BY <1>6, <2>6, <2>8
<1>. QED
  BY <1>1, <1>7, <1>8, <1>9

\* start() keeps the types and begins the chain.
LEMMA StartKept ==
    ASSUME IndInv, start
    PROVE  IndInv'
<1>. USE DEF IndInv, TypeInv
<1>. DEFINE y == connect(s)
<1>1. s' = y /\ UNCHANGED <<answers, pos, buffer_, g_running>> /\ s.attempts = 0
  BY DEF start
<1>2. /\ y \in Object /\ (g_running => y.pending["resolve"] > 0)
      /\ g_running => y.attempts = s.attempts + 1
      /\ ~g_running => y = s
  BY ConnectFacts DEF connect
<1>3. "resolve" \in Kinds /\ Quiet(s)
  BY <1>1 DEF Kinds, AtRest
<1>4. AllAccepted => Chain(y)
  BY <1>3, FreshLinks DEF Chain
<1>. HIDE DEF y
<1>5. TypeInv' /\ UnderWay(s)'
  BY <1>1, <1>2, <1>3 DEF UnderWay, Live
<1>6. AtRest(s)'
  BY <1>1, <1>2, <1>3 DEF AtRest, Quiet, Idle
<1>7. AllAccepted' => Chain(s)'
  BY <1>1, <1>4, HandlerMoves DEF AllAccepted
<1>. QED
  BY <1>5, <1>6, <1>7

\* A handler keeps the types and continues the chain.
LEMMA HandlerKept ==
    ASSUME IndInv, RunHandler
    PROVE  IndInv'
<1>. USE DEF IndInv, TypeInv
<1>. DEFINE x == [s EXCEPT !.ready = Tail(@)]
            y == Handler(x, Head(s.ready))
<1>1. /\ s' = y /\ s.ready # <<>>
      /\ UNCHANGED <<answers, pos, buffer_, g_running>>
  BY DEF RunHandler
<1>2. s.ready \in Seq(Operation)
  BY DEF Object
<1>3. Head(s.ready) \in Operation /\ Tail(s.ready) \in Seq(Operation)
  BY <1>1, <1>2, HeadTailProperties
<1>4. x \in Object /\ x.attempts = s.attempts
  BY <1>3 DEF Object
<1>. HIDE DEF x
<1>5. y \in Object /\ y.attempts >= x.attempts /\ (g_running => Live(y))
  BY <1>3, <1>4, HandlerFacts
<1>6. s.attempts \in Nat /\ s.attempts # 0 /\ y.attempts \in Nat
  BY <1>1, <1>5 DEF AtRest, Quiet, Object
<1>7. AllAccepted => Chain(y)
  BY <1>1, HandlerChain DEF x
<1>. HIDE DEF y
<1>8. TypeInv' /\ UnderWay(s)'
  BY <1>1, <1>5 DEF UnderWay, Live
<1>9. AtRest(s)'
  BY <1>1, <1>4, <1>5, <1>6 DEF AtRest
<1>10. AllAccepted' => Chain(s)'
  BY <1>1, <1>7, HandlerMoves DEF AllAccepted
<1>. QED
  BY <1>8, <1>9, <1>10

\* The loop drops what is outstanding.
LEMMA StopKept ==
    ASSUME IndInv, io_stop
    PROVE  IndInv'
<1>. USE DEF IndInv, TypeInv
<1>. DEFINE y == [s EXCEPT !.pending = NoOps, !.ready = <<>>]
<1>1. s' = y /\ ~g_running /\ UNCHANGED <<answers, pos, buffer_, g_running>>
  BY DEF io_stop
<1>2. NoOps \in [Kinds -> Nat] /\ <<>> \in Seq(Operation)
  BY DEF NoOps
<1>3. /\ y \in Object /\ y.pending = NoOps /\ y.ready = <<>> /\ y.framed = s.framed
  BY <1>2 DEF Object
<1>. HIDE DEF y
<1>4. Quiet(y)
  BY <1>3 DEF Quiet, Idle, NoOps
<1>5. AllAccepted => Chain(y)
  BY <1>3, <1>4 DEF Chain, Delivered
<1>6. TypeInv' /\ UnderWay(s)'
  BY <1>1, <1>3 DEF UnderWay
<1>7. AtRest(s)'
  BY <1>1, <1>4 DEF AtRest, Quiet, Idle
<1>8. AllAccepted' => Chain(s)'
  BY <1>1, <1>5, HandlerMoves DEF AllAccepted
<1>. QED
  BY <1>6, <1>7, <1>8

\* A step of the network never takes back a rejection.
LEMMA AnswersStay ==
    ASSUME TypeInv, Network \/ TimerExpires, AllAccepted'
    PROVE  AllAccepted
<1>. USE DEF TypeInv
<1>1. CASE answers' = answers
  BY <1>1 DEF AllAccepted
<1>2. ASSUME NEW accept \in BOOLEAN, answers' = Append(answers, accept)
      PROVE  AllAccepted
  <2>1. /\ Len(answers') = Len(answers) + 1 /\ Len(answers) \in Nat
        /\ \A c \in 1..Len(answers) : answers'[c] = answers[c]
    BY <1>2, AppendProperties, LenProperties
  <2>. QED
    BY <2>1 DEF AllAccepted
<1>. QED
  BY <1>1, <1>2, NetworkMoves

\* Every step keeps the inductive invariant.
LEMMA IndNext == IndInv /\ [Next]_vars => IndInv'
<1>. SUFFICES ASSUME IndInv, [Next]_vars PROVE IndInv'
  OBVIOUS
<1>1. CASE start
  BY <1>1, StartKept
<1>2. CASE RunHandler
  BY <1>2, HandlerKept
<1>3. CASE on_signal
  <2>1. UNCHANGED <<s, answers, pos, buffer_>> /\ ~g_running'
    BY <1>3 DEF on_signal
  <2>2. AllAccepted' => Chain(s)'
    BY <2>1, HandlerMoves DEF IndInv, AllAccepted
  <2>3. TypeInv' /\ UnderWay(s)' /\ AtRest(s)'
    BY <1>3, <2>1 DEF IndInv, TypeInv, UnderWay, AtRest, Quiet, Idle, on_signal
  <2>. QED
    BY <2>2, <2>3 DEF IndInv
<1>4. CASE io_stop
  BY <1>4, StopKept
<1>5. CASE (Network \/ TimerExpires) /\ UNCHANGED g_running
  <2>1. TypeInv' /\ Live(s)' /\ s'.attempts = s.attempts /\ ~Quiet(s)
    BY <1>5, NetworkKept DEF IndInv
  <2>2. AllAccepted' => Chain(s)'
    BY <1>5, NetworkChain, AnswersStay DEF IndInv
  <2>3. UnderWay(s)' /\ AtRest(s)'
    BY <2>1 DEF IndInv, UnderWay, AtRest, Live
  <2>. QED
    BY <2>1, <2>2, <2>3 DEF IndInv
<1>6. CASE UNCHANGED vars
  <2>1. UNCHANGED <<s, answers, pos, buffer_, g_running>>
    BY <1>6 DEF vars
  <2>2. AllAccepted' => Chain(s)'
    BY <2>1, HandlerMoves DEF IndInv, AllAccepted
  <2>3. TypeInv' /\ UnderWay(s)' /\ AtRest(s)'
    BY <2>1 DEF IndInv, TypeInv, UnderWay, AtRest, Quiet, Idle, Live
  <2>. QED
    BY <2>2, <2>3 DEF IndInv
<1>. QED
  BY <1>1, <1>2, <1>3, <1>4, <1>5, <1>6 DEF Next, OutOfAttempts

------------------------------------------------------------------------------
(* The theorems. *)

\* The invariant and the chain hold in every behaviour, over any number of
\* connections, reads and reconnections of a prompt or a late loop.
THEOREM Inductive == Spec => []IndInv
<1>. QED
  BY InitInv, IndNext, PTL DEF Spec

\* The fields keep their values - delay_s_ stays within 1..MaxDelay - and a
\* client that runs always has a handler to run or an operation to wait for.
THEOREM InvCorrect == Spec => []Inv
<1>1. IndInv => Inv
  <2>. SUFFICES ASSUME IndInv PROVE Inv
    OBVIOUS
  <2>1. TypeOK
    BY DEF IndInv, TypeInv, Object, Operation, TypeOK
  <2>2. AlwaysUnderWay
    BY DEF IndInv, UnderWay, Live, AlwaysUnderWay
  <2>. QED
    BY <2>1, <2>2 DEF Inv
<1>. QED
  BY <1>1, Inductive, PTL

\* Until a caster first rejects a request, the framer is fed the payload of
\* each connection from its first byte on, without a gap, a repetition or a
\* byte of header, whatever the loop and however the stream is cut.
THEOREM StreamCorrect == Spec => []CleanUntilRejected
<1>1. IndInv => CleanUntilRejected
  <2>. SUFFICES ASSUME IndInv, \A c \in DOMAIN answers : answers[c]
                PROVE  \A n \in DOMAIN s.framed :
                         IF n = 1 \/ s.framed[n].conn > s.framed[n - 1].conn
                         THEN s.framed[n].pos = HeaderLen + 1
                         ELSE s.framed[n] = [conn |-> s.framed[n - 1].conn,
                                             pos |-> s.framed[n - 1].pos + 1]
    BY DEF CleanUntilRejected
  <2>1. /\ answers \in Seq(BOOLEAN) /\ s.framed \in Seq(Byte)
    BY DEF IndInv, TypeInv, Object
  <2>2. DOMAIN answers = 1..Len(answers) /\ DOMAIN s.framed = 1..Len(s.framed)
    BY <2>1, LenProperties
  <2>3. AllAccepted
    BY <2>2 DEF AllAccepted
  <2>4. Delivered(s.framed)
    BY <2>3 DEF IndInv, Chain
  <2>. QED
    BY <2>2, <2>4 DEF Delivered
<1>. QED
  BY <1>1, Inductive, PTL

------------------------------------------------------------------------------
(* The encoding of the credentials. *)

\* x follows the outer loop of base64_encode() for n characters.
Follows(in, n, x) == x = [k \in 0..n |-> IF k = 0 THEN Begun ELSE Encoded(x[k - 1], in[k])]

\* Some function does.
LEMMA LoopExists ==
    ASSUME NEW in, NEW n \in Nat
    PROVE  \E x : Follows(in, n, x)
<1>. DEFINE Bad == {j \in Nat : ~\E x : Follows(in, j, x)}
<1>1. SUFFICES ASSUME Bad # {} PROVE FALSE
  OBVIOUS
<1>2. PICK j \in Bad : \A y \in Bad : j <= y
  BY <1>1, Least
<1>3. j # 0
  <2>1. Follows(in, 0, [k \in 0..0 |-> Begun])
    BY DEF Follows
  <2>. QED
    BY <2>1
<1>4. j \in Nat /\ j - 1 \in Nat /\ j - 1 \notin Bad
  BY <1>2, <1>3
<1>5. PICK x : Follows(in, j - 1, x)
  BY <1>4
<1>. DEFINE Unroll(h) == [k \in 0..j |-> IF k = 0 THEN Begun ELSE Encoded(h[k - 1], in[k])]
            y == Unroll(x)
<1>6. ASSUME NEW k \in 0..(j - 1) PROVE y[k] = x[k]
  <2>1. k \in 0..j
    BY <1>4
  <2>2. x[k] = IF k = 0 THEN Begun ELSE Encoded(x[k - 1], in[k])
    BY <1>5, Zenon DEF Follows
  <2>. QED
    BY <2>1, <2>2, Zenon
<1>7. ASSUME NEW k \in 0..j, k # 0 PROVE y[k - 1] = x[k - 1]
  <2>1. k - 1 \in 0..(j - 1)
    BY <1>4, <1>7
  <2>. QED
    BY <1>6, <2>1, Zenon
<1>8. \A k \in 0..j : y[k] = Unroll(y)[k]
  BY <1>7
<1>9. Follows(in, j, y)
  BY <1>8 DEF Follows
<1>. QED
  BY <1>9

\* x are the states of the loop, and code is what is made of the last one.
Loop(in, x, code) ==
    /\ x[0] = Begun /\ \A k \in 1..Len(in) : x[k] = Encoded(x[k - 1], in[k])
    /\ code = Padded(Flushed(x[Len(in)]))

LEMMA LoopFollows ==
    ASSUME NEW in \in Seq(0..255)
    PROVE  \E x : Loop(in, x, base64_encode(in))
<1>. DEFINE n == Len(in)
            x == CHOOSE x : Follows(in, n, x)
<1>0. n \in Nat
  BY LenProperties
<1>1. Follows(in, n, x)
  BY <1>0, LoopExists
<1>2. base64_encode(in) = Padded(Flushed(x[n]))
  BY DEF base64_encode, Follows
<1>. HIDE DEF x, n
<1>3. 0 \in 0..n /\ \A k \in 1..n : k \in 0..n /\ k # 0
  BY <1>0
<1>4. x[0] = Begun
  BY <1>1, <1>3, Zenon DEF Follows
<1>5. ASSUME NEW k \in 1..n PROVE x[k] = Encoded(x[k - 1], in[k])
  <2>1. k \in 0..n /\ k # 0
    BY <1>3
  <2>. QED
    BY <1>1, <2>1, Zenon DEF Follows
<1>6. Loop(in, x, base64_encode(in))
  BY <1>2, <1>4, <1>5 DEF Loop, n
<1>. QED
  BY <1>6

\* The character j, or the zero bits that are put for it.
CharAt(in, j) == IF j <= Len(in) THEN in[j] ELSE 0

\* What the six bits of each kind of group are.
LEMMA GroupFacts ==
    ASSUME NEW in, NEW q \in Nat
    PROVE  LET a == CharAt(in, 3 * q + 1)
               b == CharAt(in, 3 * q + 2)
               c == CharAt(in, 3 * q + 3)
               n == Len(in)
           IN  /\ Group(in, 4 * q + 1) = IF 3 * q > n THEN 64 ELSE a \div 4
               /\ Group(in, 4 * q + 2) = IF 3 * q + 1 > n THEN 64 ELSE (a % 4) * 16 + b \div 16
               /\ Group(in, 4 * q + 3) = IF 3 * q + 2 > n THEN 64 ELSE (b % 16) * 4 + c \div 64
               /\ Group(in, 4 * q + 4) = IF 3 * q + 3 > n THEN 64 ELSE c % 64
<1>. DEFINE T == Quantum(CharAt(in, 3 * q + 1), CharAt(in, 3 * q + 2), CharAt(in, 3 * q + 3))
<1>1. ASSUME NEW p \in 0..3
      PROVE  Group(in, 4 * q + (p + 1)) = IF 3 * q + p > Len(in) THEN 64 ELSE T[p + 1]
  <2>. DEFINE k == 4 * q + (p + 1)
  <2>1. (k - 1) \div 4 = q /\ (k - 1) % 4 = p
    OBVIOUS
  <2>. HIDE DEF k
  <2>. QED
    BY <2>1, Zenon DEF Group, CharAt, k
<1>2. /\ 4 * q + (0 + 1) = 4 * q + 1 /\ 4 * q + (1 + 1) = 4 * q + 2
      /\ 4 * q + (2 + 1) = 4 * q + 3 /\ 4 * q + (3 + 1) = 4 * q + 4
      /\ 3 * q + 0 = 3 * q
  OBVIOUS
<1>3. /\ T[0 + 1] = CharAt(in, 3 * q + 1) \div 4
      /\ T[1 + 1] = (CharAt(in, 3 * q + 1) % 4) * 16 + CharAt(in, 3 * q + 2) \div 16
      /\ T[2 + 1] = (CharAt(in, 3 * q + 2) % 16) * 4 + CharAt(in, 3 * q + 3) \div 64
      /\ T[3 + 1] = CharAt(in, 3 * q + 3) % 64
  BY DEF Quantum
<1>4. 0 \in 0..3 /\ 1 \in 0..3 /\ 2 \in 0..3 /\ 3 \in 0..3
  OBVIOUS
<1>. HIDE DEF T
<1>5. /\ Group(in, 4 * q + (0 + 1)) = IF 3 * q + 0 > Len(in) THEN 64 ELSE T[0 + 1]
      /\ Group(in, 4 * q + (1 + 1)) = IF 3 * q + 1 > Len(in) THEN 64 ELSE T[1 + 1]
      /\ Group(in, 4 * q + (2 + 1)) = IF 3 * q + 2 > Len(in) THEN 64 ELSE T[2 + 1]
      /\ Group(in, 4 * q + (3 + 1)) = IF 3 * q + 3 > Len(in) THEN 64 ELSE T[3 + 1]
  BY <1>1, <1>4
<1>. QED
  BY <1>2, <1>3, <1>5

\* The last two bytes of val.
LastTwo(v, b, c) == b \in 0..255 /\ c \in 0..255 /\ v[3] = b /\ v[4] = c

\* The six bits of two bytes that base64_encode() takes.
LEMMA SextetFacts ==
    ASSUME NEW v, NEW b, NEW c, LastTwo(v, b, c)
    PROVE  /\ Sextet(v, 2) = c \div 4
           /\ Sextet(v, 4) = (b % 4) * 16 + c \div 16
           /\ Sextet(v, 6) = (b % 16) * 4 + c \div 64
           /\ Sextet(v, 0) = c % 64
<1>0. b \in 0..255 /\ c \in 0..255 /\ v[3] = b /\ v[4] = c
  BY DEF LastTwo
<1>1. 2^0 = 1 /\ 2^2 = 4 /\ 2^4 = 16 /\ 2^6 = 64 /\ 2^8 = 256
  OBVIOUS
<1>2. /\ Sextet(v, 2) = ((256 * b + c) \div 4) % 64
      /\ Sextet(v, 4) = ((256 * b + c) \div 16) % 64
      /\ Sextet(v, 6) = ((256 * b + c) \div 64) % 64
      /\ Sextet(v, 0) = ((256 * b + c) \div 1) % 64
  BY <1>0, <1>1, Zenon DEF Sextet
<1>3. ((256 * b + c) \div 4) % 64 = c \div 4
  BY <1>0
<1>4. ((256 * b + c) \div 16) % 64 = (b % 4) * 16 + c \div 16
  BY <1>0
<1>5. ((256 * b + c) \div 64) % 64 = (b % 16) * 4 + c \div 64
  BY <1>0
<1>6. ((256 * b + c) \div 1) % 64 = c % 64
  BY <1>0
<1>. QED
  BY <1>2, <1>3, <1>4, <1>5, <1>6

\* y follows x when the character c comes after b.
Turn(x, b, c, y) == b \in 0..255 /\ c \in 0..255 /\ x.val[4] = b /\ y = Encoded(x, c)

\* What it then does: valb tells how many bits wait in the last character.
Turned(x, b, c, y) ==
    /\ y.val[4] = c
    /\ x.valb = -6 => y.valb = -4 /\ y.out = x.out \o <<c \div 4>>
    /\ x.valb = -4 => y.valb = -2 /\ y.out = x.out \o <<(b % 4) * 16 + c \div 16>>
    /\ x.valb = -2 => y.valb = -6 /\ y.out = x.out \o <<(b % 16) * 4 + c \div 64, c % 64>>

LEMMA TurnFacts ==
    ASSUME NEW x, NEW b, NEW c, NEW y, Turn(x, b, c, y)
    PROVE  Turned(x, b, c, y)
<1>. DEFINE v == ShiftedIn(x.val, c)
            valb == x.valb + 8
            n == valb \div 6 + 1
            more == [k \in 1..n |-> Sextet(v, valb - 6 * (k - 1))]
<1>1. v[3] = b /\ v[4] = c /\ LastTwo(v, b, c)
  BY DEF ShiftedIn, LastTwo, Turn
<1>2. y.val = v /\ y.valb = valb - 6 * n /\ y.out = x.out \o more
  BY DEF Encoded, Turn
<1>. HIDE DEF v
<1>3. /\ Sextet(v, 2) = c \div 4
      /\ Sextet(v, 4) = (b % 4) * 16 + c \div 16
      /\ Sextet(v, 6) = (b % 16) * 4 + c \div 64
      /\ Sextet(v, 0) = c % 64
  BY <1>1, SextetFacts
<1>7. y.val[4] = c
  BY <1>1, <1>2
<1>. HIDE DEF more
<1>4. ASSUME x.valb = -6 PROVE y.valb = -4 /\ y.out = x.out \o <<c \div 4>>
  <2>1. valb = 2 /\ n = 1
    BY <1>4
  <2>. HIDE DEF valb, n
  <2>2. valb - 6 * (1 - 1) = 2
    BY <2>1
  <2>3. more = <<Sextet(v, 2)>>
    BY <2>1, <2>2 DEF more
  <2>4. y.valb = -4
    BY <1>2, <2>1
  <2>5. y.out = x.out \o <<c \div 4>>
    BY <1>2, <1>3, <2>3, Zenon
  <2>. QED
    BY <2>4, <2>5
<1>5. ASSUME x.valb = -4 PROVE y.valb = -2 /\ y.out = x.out \o <<(b % 4) * 16 + c \div 16>>
  <2>1. valb = 4 /\ n = 1
    BY <1>5
  <2>. HIDE DEF valb, n
  <2>2. valb - 6 * (1 - 1) = 4
    BY <2>1
  <2>3. more = <<Sextet(v, 4)>>
    BY <2>1, <2>2 DEF more
  <2>4. y.valb = -2
    BY <1>2, <2>1
  <2>5. y.out = x.out \o <<(b % 4) * 16 + c \div 16>>
    BY <1>2, <1>3, <2>3, Zenon
  <2>. QED
    BY <2>4, <2>5
<1>6. ASSUME x.valb = -2 PROVE y.valb = -6 /\ y.out = x.out \o <<(b % 16) * 4 + c \div 64, c % 64>>
  <2>1. valb = 6 /\ n = 2
    BY <1>6
  <2>. HIDE DEF valb, n
  <2>2. valb - 6 * (1 - 1) = 6 /\ valb - 6 * (2 - 1) = 0
    BY <2>1
  <2>3. more = [k \in 1..2 |-> IF k = 1 THEN Sextet(v, 6) ELSE Sextet(v, 0)]
    BY <2>1, <2>2 DEF more
  <2>4. more = <<Sextet(v, 6), Sextet(v, 0)>>
    BY <2>3
  <2>5. y.valb = -6
    BY <1>2, <2>1
  <2>6. y.out = x.out \o <<(b % 16) * 4 + c \div 64, c % 64>>
    BY <1>2, <1>3, <2>4, Zenon
  <2>. QED
    BY <2>5, <2>6
<1>8. x.valb = -6 => y.valb = -4 /\ y.out = x.out \o <<c \div 4>>
  BY <1>4
<1>9. x.valb = -4 => y.valb = -2 /\ y.out = x.out \o <<(b % 4) * 16 + c \div 16>>
  BY <1>5
<1>10. x.valb = -2 => y.valb = -6 /\ y.out = x.out \o <<(b % 16) * 4 + c \div 64, c % 64>>
  BY <1>6
<1>. QED
  BY <1>7, <1>8, <1>9, <1>10, Zenon DEF Turned

\* The sequence is the start of the encoding.
Groups(in, code) == code \in Seq(Int) /\ \A j \in 1..Len(code) : code[j] = Group(in, j)

LEMMA GroupsJoined ==
    ASSUME NEW in, NEW code, Groups(in, code), NEW more \in Seq(Int),
           \A j \in 1..Len(more) : more[j] = Group(in, Len(code) + j)
    PROVE  Groups(in, code \o more) /\ Len(code \o more) = Len(code) + Len(more)
<1>. DEFINE all == code \o more
            n == Len(code)
            m == Len(more)
<1>1. /\ code \in Seq(Int) /\ n \in Nat /\ m \in Nat
      /\ \A j \in 1..n : code[j] = Group(in, j)
  BY LenProperties DEF Groups
<1>2. all \in Seq(Int) /\ Len(all) = n + m
  BY <1>1, ConcatProperties
<1>3. \A j \in 1..(n + m) : all[j] = IF j <= n THEN code[j] ELSE more[j - n]
  BY <1>1, ConcatProperties
<1>. HIDE DEF all
<1>4. ASSUME NEW j \in 1..(n + m) PROVE all[j] = Group(in, j)
  <2>1. CASE j <= n
    <3>1. j \in 1..n /\ all[j] = code[j]
      BY <1>1, <1>3, <2>1
    <3>. QED
      BY <1>1, <3>1
  <2>2. CASE ~(j <= n)
    <3>1. j - n \in 1..m /\ n + (j - n) = j /\ all[j] = more[j - n]
      BY <1>1, <1>3, <2>2
    <3>2. more[j - n] = Group(in, n + (j - n))
      BY <3>1
    <3>. QED
      BY <3>1, <3>2
  <2>. QED
    BY <2>1, <2>2
<1>. QED
  BY <1>2, <1>4 DEF Groups, all

\* One group more, or two.
LEMMA OneMore ==
    ASSUME NEW in, NEW code, Groups(in, code), NEW g \in Int, g = Group(in, Len(code) + 1)
    PROVE  Groups(in, code \o <<g>>) /\ Len(code \o <<g>>) = Len(code) + 1
<1>. DEFINE more == <<g>>
<1>1. more \in Seq(Int) /\ Len(more) = 1 /\ more[1] = g
  OBVIOUS
<1>2. \A j \in 1..Len(more) : j = 1
  BY <1>1
<1>. HIDE DEF more
<1>3. \A j \in 1..Len(more) : more[j] = Group(in, Len(code) + j)
  BY <1>1, <1>2, Zenon
<1>4. Groups(in, code \o more) /\ Len(code \o more) = Len(code) + 1
  BY <1>1, <1>3, GroupsJoined
<1>. QED
  BY <1>4 DEF more

LEMMA TwoMore ==
    ASSUME NEW in, NEW code, Groups(in, code),
           Group(in, Len(code) + 1) \in Int, Group(in, Len(code) + 2) \in Int
    PROVE  LET all == code \o <<Group(in, Len(code) + 1), Group(in, Len(code) + 2)>>
           IN  Groups(in, all) /\ Len(all) = Len(code) + 2
<1>. DEFINE g == Group(in, Len(code) + 1)
            h == Group(in, Len(code) + 2)
            more == <<g, h>>
<1>0. g \in Int /\ h \in Int
  OBVIOUS
<1>. HIDE DEF g, h
<1>1. more \in Seq(Int) /\ Len(more) = 2 /\ more[1] = g /\ more[2] = h
  BY <1>0
<1>2. \A j \in 1..Len(more) : j = 1 \/ j = 2
  BY <1>1
<1>. HIDE DEF more
<1>3. \A j \in 1..Len(more) : more[j] = Group(in, Len(code) + j)
  BY <1>1, <1>2, Zenon DEF g, h
<1>4. Groups(in, code \o more) /\ Len(code \o more) = Len(code) + 2
  BY <1>1, <1>3, GroupsJoined
<1>. QED
  BY <1>4, Zenon DEF more, g, h

\* What the loop has done after the characters of q whole quanta and r more:
\* the groups that are complete, and the last character kept for the next one.
Emitted(in, q, r, x) ==
    /\ x.valb = 2 * r - 6 /\ Groups(in, x.out) /\ Len(x.out) = 4 * q + r
    /\ x.val[4] \in 0..255
    /\ 3 * q + r > 0 => x.val[4] = CharAt(in, 3 * q + r)

LEMMA TurnEmits ==
    ASSUME NEW in \in Seq(0..255), NEW q \in Nat, NEW r \in 0..2, 3 * q + r + 1 <= Len(in),
           NEW x, Emitted(in, q, r, x), NEW y, y = Encoded(x, in[3 * q + r + 1])
    PROVE  IF r = 2 THEN Emitted(in, q + 1, 0, y) ELSE Emitted(in, q, r + 1, y)
<1>. DEFINE n == Len(in)
            b == x.val[4]
            c == in[3 * q + r + 1]
            s1 == c \div 4
            s2 == (b % 4) * 16 + c \div 16
            s3 == (b % 16) * 4 + c \div 64
            s4 == c % 64
<1>1. /\ n \in Nat /\ 3 * q + r + 1 \in 1..n
      /\ c \in 0..255 /\ c = CharAt(in, 3 * q + r + 1)
  <2>1. n \in Nat /\ 3 * q + r + 1 \in 1..n
    BY LenProperties
  <2>2. c \in 0..255
    BY <2>1, ElementOfSeq
  <2>. QED
    BY <2>1, <2>2 DEF CharAt
<1>2. /\ b \in 0..255 /\ x.valb = 2 * r - 6 /\ Groups(in, x.out) /\ Len(x.out) = 4 * q + r
      /\ 3 * q + r > 0 => b = CharAt(in, 3 * q + r)
  BY DEF Emitted
<1>9. Turn(x, b, c, y)
  BY <1>1, <1>2 DEF Turn
<1>. HIDE DEF b, c, n
<1>10. b \in 0..255 /\ c \in 0..255
  BY <1>1, <1>2
<1>3. s1 \in Int /\ s2 \in Int /\ s3 \in Int /\ s4 \in Int
  BY <1>10
<1>11. Turned(x, b, c, y)
  BY <1>9, TurnFacts, Zenon
<1>4. /\ y.val[4] = c
      /\ x.valb = -6 => y.valb = -4 /\ y.out = x.out \o <<s1>>
      /\ x.valb = -4 => y.valb = -2 /\ y.out = x.out \o <<s2>>
      /\ x.valb = -2 => y.valb = -6 /\ y.out = x.out \o <<s3, s4>>
  BY <1>11, Zenon DEF Turned
<1>5. /\ Group(in, 4 * q + 1) = IF 3 * q > n THEN 64 ELSE CharAt(in, 3 * q + 1) \div 4
      /\ Group(in, 4 * q + 2) = IF 3 * q + 1 > n THEN 64
           ELSE (CharAt(in, 3 * q + 1) % 4) * 16 + CharAt(in, 3 * q + 2) \div 16
      /\ Group(in, 4 * q + 3) = IF 3 * q + 2 > n THEN 64
           ELSE (CharAt(in, 3 * q + 2) % 16) * 4 + CharAt(in, 3 * q + 3) \div 64
      /\ Group(in, 4 * q + 4) = IF 3 * q + 3 > n THEN 64 ELSE CharAt(in, 3 * q + 3) % 64
  BY GroupFacts DEF n
<1>6. CASE r = 0
  <2>1. /\ 3 * q + r + 1 = 3 * q + 1 /\ ~(3 * q > n) /\ x.valb = -6 /\ Len(x.out) = 4 * q
        /\ Len(x.out) + 1 = 4 * q + 1
    BY <1>1, <1>2, <1>6
  <2>2. s1 = Group(in, Len(x.out) + 1)
    BY <1>1, <1>5, <2>1
  <2>3. y.valb = -4 /\ y.out = x.out \o <<s1>>
    BY <1>4, <2>1
  <2>. HIDE DEF s1, s2, s3, s4
  <2>4. Groups(in, y.out) /\ Len(y.out) = 4 * q + 1
    BY <1>2, <1>3, <2>1, <2>2, <2>3, OneMore
  <2>5. Emitted(in, q, 1, y)
    BY <1>1, <1>4, <2>1, <2>3, <2>4 DEF Emitted
  <2>. QED
    BY <1>6, <2>5
<1>7. CASE r = 1
  <2>1. /\ 3 * q + r + 1 = 3 * q + 2 /\ ~(3 * q + 1 > n) /\ x.valb = -4 /\ Len(x.out) = 4 * q + 1
        /\ Len(x.out) + 1 = 4 * q + 2 /\ 3 * q + r > 0 /\ 3 * q + r = 3 * q + 1
    BY <1>1, <1>2, <1>7
  <2>2. s2 = Group(in, Len(x.out) + 1)
    BY <1>1, <1>2, <1>5, <2>1
  <2>3. y.valb = -2 /\ y.out = x.out \o <<s2>>
    BY <1>4, <2>1
  <2>. HIDE DEF s1, s2, s3, s4
  <2>4. Groups(in, y.out) /\ Len(y.out) = 4 * q + 2
    BY <1>2, <1>3, <2>1, <2>2, <2>3, OneMore
  <2>5. Emitted(in, q, 2, y)
    BY <1>1, <1>4, <2>1, <2>3, <2>4 DEF Emitted
  <2>. QED
    BY <1>7, <2>5
<1>8. CASE r = 2
  <2>1. /\ 3 * q + r + 1 = 3 * q + 3 /\ ~(3 * q + 2 > n) /\ ~(3 * q + 3 > n) /\ x.valb = -2
        /\ Len(x.out) = 4 * q + 2 /\ Len(x.out) + 1 = 4 * q + 3 /\ Len(x.out) + 2 = 4 * q + 4
        /\ 3 * q + r > 0 /\ 3 * q + r = 3 * q + 2 /\ 3 * q + 3 = 3 * (q + 1) + 0
        /\ q + 1 \in Nat
    BY <1>1, <1>2, <1>8
  <2>2. s3 = Group(in, Len(x.out) + 1) /\ s4 = Group(in, Len(x.out) + 2)
    BY <1>1, <1>2, <1>5, <2>1
  <2>3. y.valb = -6 /\ y.out = x.out \o <<s3, s4>>
    BY <1>4, <2>1
  <2>. HIDE DEF s1, s2, s3, s4
  <2>6. Groups(in, y.out) /\ Len(y.out) = Len(x.out) + 2
    <3>. DEFINE code == x.out
    <3>1. /\ Groups(in, code) /\ Group(in, Len(code) + 1) \in Int
          /\ Group(in, Len(code) + 2) \in Int
      BY <1>2, <1>3, <2>2
    <3>2. y.out = code \o <<Group(in, Len(code) + 1), Group(in, Len(code) + 2)>>
      BY <2>2, <2>3, Zenon
    <3>. HIDE DEF code
    <3>3. Groups(in, y.out) /\ Len(y.out) = Len(code) + 2
      BY <3>1, <3>2, TwoMore
    <3>. QED
      BY <3>3 DEF code
  <2>4. Groups(in, y.out) /\ Len(y.out) = 4 * (q + 1)
    BY <2>1, <2>6
  <2>5. Emitted(in, q + 1, 0, y)
    BY <1>1, <1>4, <2>1, <2>3, <2>4 DEF Emitted
  <2>. QED
    BY <1>8, <2>5
<1>. QED
  BY <1>6, <1>7, <1>8

\* The state of the loop after k characters.
EmittedAt(in, k, x) == \E q \in Nat, r \in 0..2 : k = 3 * q + r /\ Emitted(in, q, r, x)

LEMMA LoopEmits ==
    ASSUME NEW in \in Seq(0..255), NEW x, NEW code, Loop(in, x, code)
    PROVE  EmittedAt(in, Len(in), x[Len(in)])
<1>. DEFINE n == Len(in)
            Bad == {k \in 0..n : ~EmittedAt(in, k, x[k])}
<1>1. n \in Nat /\ x[0] = Begun /\ \A k \in 1..n : x[k] = Encoded(x[k - 1], in[k])
  BY LenProperties DEF Loop
<1>. HIDE DEF n
<1>2. SUFFICES ASSUME Bad # {} PROVE FALSE
  <2>1. n \in 0..n
    BY <1>1
  <2>. QED
    BY <1>2, <2>1 DEF n
<1>3. PICK k \in Bad : \A y \in Bad : k <= y
  <2>1. Bad \subseteq Nat
    OBVIOUS
  <2>. QED
    BY <1>2, <2>1, Least
<1>4. k \in 0..n /\ ~EmittedAt(in, k, x[k])
  OBVIOUS
<1>5. k # 0
  <2>1. Begun.valb = -6 /\ Begun.out = <<>> /\ Begun.val[4] = 0
    BY DEF Begun
  <2>2. Groups(in, Begun.out) /\ Len(Begun.out) = 0
    BY <2>1 DEF Groups
  <2>3. Emitted(in, 0, 0, Begun)
    BY <2>1, <2>2 DEF Emitted
  <2>4. EmittedAt(in, 0, Begun)
    BY <2>3 DEF EmittedAt
  <2>. QED
    BY <1>1, <1>4, <2>4
<1>6. k \in 1..n /\ k - 1 \in 0..n /\ k - 1 \notin Bad
  BY <1>1, <1>3, <1>4, <1>5
<1>7. EmittedAt(in, k - 1, x[k - 1])
  BY <1>6
<1>. HIDE DEF Bad
<1>8. PICK q \in Nat, r \in 0..2 : k - 1 = 3 * q + r /\ Emitted(in, q, r, x[k - 1])
  BY <1>7 DEF EmittedAt
<1>9. k = 3 * q + r + 1 /\ 3 * q + r + 1 <= Len(in)
  BY <1>4, <1>8 DEF n
<1>10. x[k] = Encoded(x[k - 1], in[3 * q + r + 1])
  BY <1>1, <1>6, <1>9
<1>11. IF r = 2 THEN Emitted(in, q + 1, 0, x[k]) ELSE Emitted(in, q, r + 1, x[k])
  BY <1>8, <1>9, <1>10, TurnEmits
<1>12. CASE r = 2
  <2>1. q + 1 \in Nat /\ 0 \in 0..2 /\ k = 3 * (q + 1) + 0
    BY <1>9, <1>12
  <2>2. EmittedAt(in, k, x[k])
    BY <1>11, <1>12, <2>1 DEF EmittedAt
  <2>. QED
    BY <1>4, <2>2
<1>13. CASE r # 2
  <2>1. r + 1 \in 0..2 /\ k = 3 * q + (r + 1)
    BY <1>9, <1>13
  <2>2. EmittedAt(in, k, x[k])
    BY <1>11, <1>13, <2>1 DEF EmittedAt
  <2>. QED
    BY <1>4, <2>2
<1>. QED
  BY <1>12, <1>13

\* The bits that are left when r characters of the last quantum were there.
LEMMA FlushFacts ==
    ASSUME NEW in \in Seq(0..255), NEW q \in Nat, NEW r \in 0..2, Len(in) = 3 * q + r,
           NEW x, Emitted(in, q, r, x)
    PROVE  Groups(in, Flushed(x)) /\ Len(Flushed(x)) = 4 * q + (IF r = 0 THEN 0 ELSE r + 1)
<1>. DEFINE b == x.val[4]
            v == ShiftedIn(x.val, 0)
            n == Len(in)
            g == IF r = 1 THEN (b % 4) * 16 ELSE (b % 16) * 4
<1>1. /\ b \in 0..255 /\ x.valb = 2 * r - 6 /\ Groups(in, x.out) /\ Len(x.out) = 4 * q + r
      /\ 3 * q + r > 0 => b = CharAt(in, 3 * q + r)
  BY DEF Emitted
<1>2. PICK c : c = 0 /\ LastTwo(v, b, c)
  BY <1>1 DEF LastTwo, ShiftedIn
<1>. HIDE DEF v, b
<1>3. /\ Sextet(v, 4) = (b % 4) * 16 + c \div 16
      /\ Sextet(v, 6) = (b % 16) * 4 + c \div 64
  BY <1>2, SextetFacts
<1>4. Flushed(x) = IF x.valb > -6 THEN Append(x.out, Sextet(v, x.valb + 8)) ELSE x.out
  BY DEF Flushed, v
<1>5. x.out \in Seq(Int)
  BY <1>1 DEF Groups
<1>6. CASE r = 0
  <2>1. Flushed(x) = x.out
    BY <1>1, <1>4, <1>6
  <2>. QED
    BY <1>1, <1>6, <2>1
<1>7. CASE r # 0
  <2>1. x.valb > -6 /\ x.valb + 8 = 2 * r + 2 /\ r \in {1, 2} /\ Len(x.out) + 1 = 4 * q + r + 1
    BY <1>1, <1>7
  <2>2. Sextet(v, x.valb + 8) = g
    <3>1. CASE r = 1
      <4>1. x.valb + 8 = 4 /\ Sextet(v, 4) = (b % 4) * 16
        BY <1>1, <1>2, <1>3, <2>1, <3>1
      <4>. QED
        BY <3>1, <4>1
    <3>2. CASE r = 2
      <4>1. x.valb + 8 = 6 /\ Sextet(v, 6) = (b % 16) * 4
        BY <1>1, <1>2, <1>3, <2>1, <3>2
      <4>. QED
        BY <3>2, <4>1
    <3>. QED
      BY <2>1, <3>1, <3>2
  <2>3. g \in Int
    BY <1>1
  <2>4. g = Group(in, Len(x.out) + 1)
    <3>1. CharAt(in, 3 * q + r + 1) = 0
      BY DEF CharAt
    <3>2. /\ Group(in, 4 * q + 2) = IF 3 * q + 1 > n THEN 64
               ELSE (CharAt(in, 3 * q + 1) % 4) * 16 + CharAt(in, 3 * q + 2) \div 16
          /\ Group(in, 4 * q + 3) = IF 3 * q + 2 > n THEN 64
               ELSE (CharAt(in, 3 * q + 2) % 16) * 4 + CharAt(in, 3 * q + 3) \div 64
      BY GroupFacts
    <3>3. CASE r = 1
      <4>1. /\ 3 * q + r = 3 * q + 1 /\ 3 * q + r + 1 = 3 * q + 2 /\ ~(3 * q + 1 > n)
            /\ Len(x.out) + 1 = 4 * q + 2 /\ 3 * q + r > 0
        BY <2>1, <3>3
      <4>2. b = CharAt(in, 3 * q + 1) /\ CharAt(in, 3 * q + 2) = 0
        BY <1>1, <3>1, <4>1
      <4>. QED
        BY <1>1, <3>2, <3>3, <4>1, <4>2
    <3>4. CASE r = 2
      <4>1. /\ 3 * q + r = 3 * q + 2 /\ 3 * q + r + 1 = 3 * q + 3 /\ ~(3 * q + 2 > n)
            /\ Len(x.out) + 1 = 4 * q + 3 /\ 3 * q + r > 0
        BY <2>1, <3>4
      <4>2. b = CharAt(in, 3 * q + 2) /\ CharAt(in, 3 * q + 3) = 0
        BY <1>1, <3>1, <4>1
      <4>. QED
        BY <1>1, <3>2, <3>4, <4>1, <4>2
    <3>. QED
      BY <2>1, <3>3, <3>4
  <2>. HIDE DEF g
  <2>5. Flushed(x) = x.out \o <<g>>
    <3>1. Flushed(x) = Append(x.out, g)
      BY <1>4, <2>1, <2>2, Zenon
    <3>. QED
      BY <1>5, <2>3, <3>1, AppendIsConcat
  <2>6. Groups(in, x.out \o <<g>>) /\ Len(x.out \o <<g>>) = Len(x.out) + 1
    BY <1>1, <2>3, <2>4, OneMore
  <2>. QED
    BY <1>1, <1>7, <2>1, <2>5, <2>6
<1>. QED
  BY <1>6, <1>7

\* The padding.
LEMMA PadFacts ==
    ASSUME NEW in \in Seq(0..255), NEW q \in Nat, NEW r \in 0..2, Len(in) = 3 * q + r,
           NEW out, Groups(in, out), Len(out) = 4 * q + (IF r = 0 THEN 0 ELSE r + 1)
    PROVE  Groups(in, Padded(out)) /\ Len(Padded(out)) = 4 * ((Len(in) + 2) \div 3)
<1>. DEFINE n == Len(in)
            m == (4 - (Len(out) % 4)) % 4
            pad == [k \in 1..m |-> 64]
<1>1. out \in Seq(Int) /\ Len(out) \in Nat
  BY LenProperties DEF Groups
<1>2. /\ Group(in, 4 * q + 3) = IF 3 * q + 2 > n THEN 64
           ELSE (CharAt(in, 3 * q + 2) % 16) * 4 + CharAt(in, 3 * q + 3) \div 64
      /\ Group(in, 4 * q + 4) = IF 3 * q + 3 > n THEN 64 ELSE CharAt(in, 3 * q + 3) % 64
  BY GroupFacts
<1>3. Padded(out) = out \o pad
  BY DEF Padded
<1>4. m = (IF r = 0 THEN 0 ELSE 3 - r) /\ m \in 0..2
  <2>1. Len(out) % 4 = IF r = 0 THEN 0 ELSE r + 1
    <3>1. CASE r = 0
      BY <3>1
    <3>2. CASE r # 0
      BY <3>2
    <3>. QED
      BY <3>1, <3>2
  <2>. QED
    BY <2>1
<1>5. \A j \in 1..m : Group(in, Len(out) + j) = 64
  <2>. TAKE j \in 1..m
  <2>1. CASE r = 1
    <3>1. /\ 3 * q + 2 > n /\ 3 * q + 3 > n /\ j \in {1, 2}
          /\ Len(out) + 1 = 4 * q + 3 /\ Len(out) + 2 = 4 * q + 4
      BY <1>4, <2>1
    <3>. QED
      BY <1>2, <3>1
  <2>2. CASE r = 2
    <3>1. 3 * q + 3 > n /\ j = 1 /\ Len(out) + 1 = 4 * q + 4
      BY <1>4, <2>2
    <3>. QED
      BY <1>2, <3>1
  <2>3. r # 0
    BY <1>4
  <2>. QED
    BY <2>1, <2>2, <2>3
<1>6. Len(out) + m = 4 * ((n + 2) \div 3)
  <2>1. CASE r = 0
    <3>1. (n + 2) \div 3 = q
      BY <2>1
    <3>. QED
      BY <1>4, <2>1, <3>1
  <2>2. CASE r # 0
    <3>1. (n + 2) \div 3 = q + 1
      BY <2>2
    <3>. QED
      BY <1>4, <2>2, <3>1
  <2>. QED
    BY <2>1, <2>2
<1>. HIDE DEF m
<1>7. pad \in Seq(Int) /\ Len(pad) = m /\ \A j \in 1..m : pad[j] = 64
  BY <1>4
<1>. HIDE DEF pad
<1>8. \A j \in 1..Len(pad) : pad[j] = Group(in, Len(out) + j)
  BY <1>5, <1>7
<1>9. Groups(in, out \o pad) /\ Len(out \o pad) = Len(out) + Len(pad)
  <2>1. pad \in Seq(Int)
    BY <1>7
  <2>. QED
    BY <1>8, <2>1, GroupsJoined, Zenon
<1>10. Groups(in, Padded(out)) /\ Len(Padded(out)) = Len(out) + Len(pad)
  BY <1>3, <1>9, Zenon
<1>. QED
  BY <1>6, <1>7, <1>10

\* Whatever the credentials are, and however long, the caster decodes the
\* Authorization header to them: what the int of base64_encode() loses when it
\* overflows was emitted before.
THEOREM EncodingCorrect == \A in \in Seq(0..255) : EncodedRight(in)
<1>. TAKE in \in Seq(0..255)
<1>1. PICK x : Loop(in, x, base64_encode(in))
  BY LoopFollows
<1>. DEFINE code == base64_encode(in)
            y == x[Len(in)]
<1>2. EmittedAt(in, Len(in), y) /\ code = Padded(Flushed(y))
  BY <1>1, LoopEmits DEF Loop
<1>. HIDE DEF code, y
<1>3. PICK q \in Nat, r \in 0..2 : Len(in) = 3 * q + r /\ Emitted(in, q, r, y)
  BY <1>2 DEF EmittedAt
<1>4. /\ Groups(in, Flushed(y))
      /\ Len(Flushed(y)) = 4 * q + (IF r = 0 THEN 0 ELSE r + 1)
  BY <1>3, FlushFacts
<1>5. Groups(in, code) /\ Len(code) = 4 * ((Len(in) + 2) \div 3)
  BY <1>2, <1>3, <1>4, PadFacts
<1>6. DOMAIN code = 1..Len(code)
  BY <1>5 DEF Groups
<1>. QED
  BY <1>5, <1>6 DEF EncodedRight, Groups, code

\* In particular those of the runs.
THEOREM CredentialsCorrect == Spec => []CredentialsEncoded
<1>1. Credentials \subseteq Seq(0..255)
  <2>1. ASSUME NEW n \in 0..MaxCredentials
        PROVE  [1..n -> {0, 58, 129, 255}] \subseteq Seq(0..255)
    <3>1. n \in Nat
      BY <2>1
    <3>. QED
      BY <3>1
  <2>. QED
    BY <2>1, Zenon DEF Credentials
<1>2. CredentialsEncoded
  BY <1>1, EncodingCorrect DEF CredentialsEncoded
<1>. QED
  BY <1>2, PTL
=============================================================================

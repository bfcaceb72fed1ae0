------------------------- MODULE StreamSessionProofs -------------------------
(***************************************************************************)
(* Proofs about StreamSession for every value of its constants.            *)
(*                                                                         *)
(* IndInv is the inductive invariant.  Each of its parts is preserved by   *)
(* every action (one lemma per part), the safety properties follow from    *)
(* it, and so does the refinement of LossyFifo.                            *)
(***************************************************************************)
EXTENDS StreamSession, TLAPS

\* A delivery that will push something has something to push.
MsgInv == delivery = "enqueue" => msg \in Sizes \ {0}

\* Until start() is through there is no worker.
OwnerInv == owner \in {"start", "spawn", "failed"} => worker = "none"

\* mtx_ is held exactly inside the two sections that loop.
MutexInv == /\ mtx_ = "delivery" <=> delivery = "trim"
            /\ mtx_ = "worker" <=> worker = "clear"
            /\ worker # "clear" => cleared = 0

\* The payload in the worker's hands exists only during the write.
HandInv == worker # "write" => payload = NoPayload

\* The limit may be exceeded only while trim_queue_locked() runs.
BoundInv == delivery # "trim" => queued_bytes_ <= MaxQueueBytes

\* Streaming happens on an accepted connection only.
LinkInv == worker \in {"check", "lock", "waiting", "write"} => link = "accepted"

\* Nothing queued predates the last failure once the queue has been cleared.
FreshInv ==
    /\ failedAt <= total_
    /\ worker \notin {"catch", "clear_lock", "clear", "done"} =>
          \A i \in 1..Len(queue_) : failedAt <= queue_[i].off
    /\ worker = "write" => failedAt <= payload.off

\* Written, in hand, queued: three stretches of the accepted stream in order.
OrderInv ==
    /\ \A i \in 1..Len(queue_) : queue_[i] \in accepted /\ End(queue_[i]) <= total_
    /\ \A i, j \in 1..Len(queue_) : i < j => End(queue_[i]) <= queue_[j].off
    /\ \A i \in 1..Len(sent) :
          /\ End(sent[i]) <= total_
          /\ \A j \in 1..Len(queue_) : End(sent[i]) <= queue_[j].off
    /\ worker = "write" =>
          /\ payload \in accepted
          /\ End(payload) <= total_
          /\ \A i \in 1..Len(sent) : End(sent[i]) <= payload.off
          /\ \A j \in 1..Len(queue_) : End(payload) <= queue_[j].off

IndInv == /\ TypeOK /\ MsgInv /\ OwnerInv /\ MutexInv /\ HandInv
          /\ QueueAccounting /\ BoundInv /\ BytesConserved
          /\ LinkInv /\ FreshInv /\ OrderInv /\ NoLostWakeup

------------------------------------------------------------------------------
(* Facts about the front of a non-empty queue. *)

\* A payload at the front of the queue is a payload, and not an empty one.
LEMMA FrontType ==
    ASSUME NEW q \in Seq(Payload), q # <<>>
    PROVE  /\ Head(q) \in Payload /\ Head(q) = q[1]
           /\ Len(q) \in Nat \ {0}
           /\ Tail(q) \in Seq(Payload)
           /\ Len(Tail(q)) = Len(q) - 1
           /\ Tail(q) = <<>> => Len(q) = 1
           /\ \A i \in 1..Len(Tail(q)) : i + 1 \in 1..Len(q) /\ Tail(q)[i] = q[i + 1]
           /\ \A i \in 1..Len(q) : q[i] \in Payload
<1>1. /\ Len(q) \in Nat \ {0} /\ Len(Tail(q)) = Len(q) - 1
  OBVIOUS
<1>0. Len(<<>>) = 0
  OBVIOUS
<1>2. Tail(q) = <<>> => Len(Tail(q)) = 0
  BY <1>0, Zenon
<1>3. Tail(q) = <<>> => Len(q) = 1
  BY <1>1, <1>2
<1>. QED
  BY <1>1, <1>3

\* The end of a payload is a natural number.
LEMMA PayloadType ==
    ASSUME NEW p \in Payload
    PROVE  /\ p.off \in Nat /\ p.size \in Sizes \ {0} /\ p.size \in Nat \ {0}
           /\ End(p) \in Nat /\ p.off < End(p)
<1>1. p.off \in Nat /\ p.size \in Sizes \ {0}
  BY DEF Payload
<1>2. p.size \in Nat \ {0}
  BY <1>1, ParameterAssumption
<1>. QED
  BY <1>1, <1>2 DEF End

\* The payload in hand has a natural size and offset, NoPayload the size 0.
LEMMA HandType ==
    ASSUME TypeOK
    PROVE  payload.size \in Nat /\ payload.off \in Nat /\ NoPayload.size = 0
  BY PayloadType DEF TypeOK, NoPayload

\* Doubling keeps the delay within its limits and never shrinks it.
LEMMA DoubledInRange ==
    ASSUME reconnect_delay_ \in MinDelay..MaxDelay
    PROVE  /\ Doubled \in MinDelay..MaxDelay
           /\ reconnect_delay_ <= Doubled
  BY ParameterAssumption DEF Doubled

\* The first delay is within the limits.
LEMMA MinDelayInRange == MinDelay \in MinDelay..MaxDelay
  BY ParameterAssumption

\* Popping the front leaves the rest gap-free and shorter by what was popped.
LEMMA PopExtent ==
    ASSUME NEW q \in Seq(Payload), NEW t \in Nat, q # <<>>, GapFree(q, t)
    PROVE  /\ GapFree(Tail(q), t)
           /\ Extent(Tail(q), t) = Extent(q, t) - Head(q).size
<1>. DEFINE r == Tail(q)
<1>1. /\ r \in Seq(Payload) /\ Len(r) = Len(q) - 1 /\ Len(q) \in Nat \ {0}
      /\ \A i \in 1..Len(r) : i + 1 \in 1..Len(q) /\ r[i] = q[i + 1]
      /\ Head(q) = q[1]
      /\ \A i \in 1..Len(q) : q[i] \in Payload
  BY FrontType
<1>2. q[1].off \in Nat /\ q[1].size \in Nat
  BY <1>1, PayloadType
<1>3. CASE r = <<>>
  <2>1. Len(q) = 1
    BY <1>3, FrontType
  <2>2. q[1].off + q[1].size = t
    BY <2>1 DEF GapFree, End
  <2>3. Extent(r, t) = 0 /\ Extent(q, t) = t - q[1].off
    BY <1>3 DEF Extent
  <2>4. GapFree(r, t)
    BY <1>1, <1>3, <2>1 DEF GapFree
  <2>. QED
    BY <1>1, <1>2, <2>2, <2>3, <2>4
<1>4. CASE r # <<>>
  <2>1. Len(q) > 1 /\ Len(r) \in Nat \ {0}
    BY <1>1, <1>4
  <2>2. r[1] = q[2] /\ r[Len(r)] = q[Len(q)]
    BY <1>1, <2>1
  <2>3. q[1].off + q[1].size = r[1].off
    BY <2>1, <2>2 DEF GapFree, End
  <2>4. Extent(r, t) = Extent(q, t) - q[1].size
    BY <1>1, <1>2, <1>4, <2>1, <2>2, <2>3 DEF Extent
  <2>5. \A i \in 1..(Len(r) - 1) : End(r[i]) = r[i + 1].off
    BY <1>1, <2>1 DEF GapFree
  <2>6. End(r[Len(r)]) = t
    BY <2>1, <2>2 DEF GapFree
  <2>. QED
    BY <1>1, <2>4, <2>5, <2>6 DEF GapFree
<1>. QED
  BY <1>3, <1>4

\* Pushing the next bytes of the stream keeps the queue gap-free.
LEMMA PushExtent ==
    ASSUME NEW q \in Seq(Payload), NEW t \in Nat, NEW p \in Payload, p.off = t,
           GapFree(q, t)
    PROVE  /\ GapFree(Append(q, p), t + p.size)
           /\ Extent(Append(q, p), t + p.size) = Extent(q, t) + p.size
<1>. DEFINE r == Append(q, p)
<1>1. /\ r \in Seq(Payload) /\ Len(r) = Len(q) + 1 /\ Len(q) \in Nat
      /\ r[Len(r)] = p
      /\ \A i \in 1..Len(q) : r[i] = q[i]
  OBVIOUS
<1>2. p.size \in Nat /\ End(p) = t + p.size
  BY PayloadType DEF End
<1>3. ASSUME NEW i \in 1..(Len(r) - 1) PROVE End(r[i]) = r[i + 1].off
  <2>1. CASE i = Len(q)
    <3>1. q # <<>>
      BY <2>1
    <3>. QED
      BY <1>1, <2>1, <3>1 DEF GapFree
  <2>2. CASE i # Len(q)
    BY <1>1, <2>2 DEF GapFree
  <2>. QED
    BY <2>1, <2>2
<1>4. GapFree(r, t + p.size)
  BY <1>1, <1>2, <1>3 DEF GapFree
<1>5. Extent(r, t + p.size) = Extent(q, t) + p.size
  <2>1. CASE q = <<>>
    BY <1>1, <1>2, <2>1 DEF Extent
  <2>2. CASE q # <<>>
    <3>1. r[1] = q[1] /\ q[1] \in Payload
      BY <1>1, <2>2
    <3>2. q[1].off \in Nat
      BY <3>1, PayloadType
    <3>. QED
      BY <1>1, <1>2, <2>2, <3>1, <3>2 DEF Extent
  <2>. QED
    BY <2>1, <2>2
<1>. QED
  BY <1>4, <1>5

\* queued_bytes_ covers the payload at the front.
LEMMA FrontCounted ==
    ASSUME TypeOK, QueueAccounting, OrderInv, queue_ # <<>>
    PROVE  /\ Head(queue_).size \in Nat \ {0}
           /\ Extent(queue_, total_) \in Nat
           /\ queued_bytes_ - Head(queue_).size \in Nat
<1>1. /\ Head(queue_) = queue_[1] /\ queue_[1] \in Payload
      /\ 1 \in 1..Len(queue_)
  BY FrontType DEF TypeOK
<1>2. queue_[1].off \in Nat /\ queue_[1].size \in Nat \ {0}
  BY <1>1, PayloadType
<1>3. queue_[1].off + queue_[1].size <= total_
  BY <1>1 DEF OrderInv, End
<1>4. Extent(queue_, total_) = total_ - queue_[1].off
  BY DEF Extent
<1>5. queued_bytes_ = Extent(queue_, total_) + cleared
  BY DEF QueueAccounting
<1>6. total_ \in Nat /\ cleared \in Nat
  BY DEF TypeOK
<1>. QED
  BY <1>1, <1>2, <1>3, <1>4, <1>5, <1>6

\* The queue has no negative length.
LEMMA ExtentType ==
    ASSUME TypeOK, QueueAccounting, OrderInv
    PROVE  Extent(queue_, total_) \in Nat
<1>1. CASE queue_ = <<>>
  BY <1>1 DEF Extent
<1>2. CASE queue_ # <<>>
  BY <1>2, FrontCounted
<1>. QED
  BY <1>1, <1>2

\* A notification moves the worker from a wait to the evaluation of its
\* predicate, or leaves it where it is.
LEMMA NotifiedCases ==
    \/ worker = "waiting" /\ WorkerNotified = "lock"
    \/ worker = "backoff" /\ WorkerNotified = "backoff_lock"
    \/ worker \notin {"waiting", "backoff"} /\ WorkerNotified = worker
  BY DEF WorkerNotified

------------------------------------------------------------------------------
(* Type correctness. *)

\* Every action keeps the variables within their types.
LEMMA TypeStep == IndInv /\ [Next]_vars => TypeOK'
<1>. SUFFICES ASSUME IndInv, [Next]_vars PROVE TypeOK'
  OBVIOUS
<1>. USE DEF IndInv, TypeOK, Network, queueVars, flagVars, histVars, workerVars
<1>1. CASE Subscribe
  BY <1>1 DEF Subscribe
<1>2. CASE Spawn
  BY <1>2 DEF Spawn
<1>3. CASE StopLocked
  BY <1>3 DEF StopLocked
<1>4. CASE StopNotify
  BY <1>4, NotifiedCases DEF StopNotify
<1>5. CASE Unsubscribe
  BY <1>5 DEF Unsubscribe
<1>6. CASE Join
  BY <1>6 DEF Join
<1>7. CASE Signal
  BY <1>7 DEF Signal
<1>8. ASSUME NEW s \in Sizes, on_nats_msg(s) PROVE TypeOK'
  BY <1>8 DEF on_nats_msg
<1>9. CASE EnqueueLock
  <2>1. [off |-> total_, size |-> msg] \in Payload /\ msg \in Nat
    BY <1>9, ParameterAssumption DEF EnqueueLock, MsgInv, Payload
  <2>. QED
    BY <1>9, <2>1 DEF EnqueueLock
<1>10. CASE TrimPop
  <2>1. queued_bytes_ - Head(queue_).size \in Nat /\ Head(queue_).size \in Nat
    BY <1>10, FrontType, FrontCounted DEF TrimPop, OverLimit
  <2>. QED
    BY <1>10, <2>1, FrontType DEF TrimPop, OverLimit
<1>11. CASE TrimEnd
  BY <1>11 DEF TrimEnd
<1>12. CASE EnqueueNotify
  BY <1>12, NotifiedCases DEF EnqueueNotify
<1>13. CASE RunLoop
  BY <1>13 DEF RunLoop
<1>14. CASE connect_source
  BY <1>14 DEF connect_source, Proceed, Throw
<1>15. CASE send_source_request
  BY <1>15 DEF send_source_request, Proceed, Throw
<1>16. CASE read_source_response
  BY <1>16 DEF read_source_response, Proceed, Throw
<1>17. CASE write_source
  <2>1. payload.size \in Nat
    BY HandType
  <2>2. CASE Wrote
    <3>1. payload \in Payload
      BY <2>2 DEF Wrote, NoPayload
    <3>. QED
      BY <1>17, <2>1, <2>2, <3>1 DEF write_source, Wrote, Proceed
  <2>3. CASE WriteFailed
    BY <1>17, <2>1, <2>3 DEF write_source, WriteFailed, Throw
  <2>. QED
    BY <1>17, <2>2, <2>3 DEF write_source
<1>18. CASE StreamLoop
  BY <1>18, MinDelayInRange DEF StreamLoop, Returned
<1>19. CASE WaitLocked
  <2>1. CASE WaitBlock
    BY <1>19, <2>1 DEF WaitLocked, WaitBlock
  <2>2. CASE WaitStopped
    BY <1>19, <2>2, MinDelayInRange DEF WaitLocked, WaitStopped, Returned
  <2>3. CASE WaitPop
    <3>1. queued_bytes_ - Head(queue_).size \in Nat
      BY <2>3, FrontCounted DEF WaitPop
    <3>. QED
      BY <1>19, <2>3, <3>1, FrontType DEF WaitLocked, WaitPop
  <2>. QED
    BY <1>19, <2>1, <2>2, <2>3 DEF WaitLocked
<1>20. CASE SpuriousWakeup
  BY <1>20, NotifiedCases DEF SpuriousWakeup
<1>21. CASE Catch
  BY <1>21 DEF Catch
<1>22. CASE ClearLock
  BY <1>22 DEF ClearLock
<1>23. CASE ClearPop
  BY <1>23, FrontType, PayloadType DEF ClearPop
<1>24. CASE ClearEnd
  BY <1>24 DEF ClearEnd
<1>25. CASE BackoffLocked
  BY <1>25, DoubledInRange DEF BackoffLocked
<1>26. CASE BackoffTimeout
  BY <1>26, DoubledInRange DEF BackoffTimeout
<1>27. CASE UNCHANGED vars
  BY <1>27 DEF vars
<1>. QED
  BY <1>1, <1>2, <1>3, <1>4, <1>5, <1>6, <1>7, <1>8, <1>9, <1>10, <1>11, <1>12,
     <1>13, <1>14, <1>15, <1>16, <1>17, <1>18, <1>19, <1>20, <1>21, <1>22, <1>23,
     <1>24, <1>25, <1>26, <1>27
     DEF Next, Owner, Enqueue, WorkerNet, WorkerLocal, Terminated

------------------------------------------------------------------------------
(* The other parts of the invariant. *)

\* The control parts: who holds mtx_, what the worker holds, which link it uses.
LEMMA ControlStep == IndInv /\ [Next]_vars => (MsgInv /\ OwnerInv /\ MutexInv /\ HandInv /\ LinkInv)'
<1>. SUFFICES ASSUME IndInv, [Next]_vars PROVE (MsgInv /\ OwnerInv /\ MutexInv /\ HandInv /\ LinkInv)'
  OBVIOUS
<1>. USE DEF IndInv, TypeOK, Network, queueVars, flagVars, histVars, workerVars,
           MsgInv, OwnerInv, MutexInv, HandInv, LinkInv
<1>1. CASE Subscribe
  BY <1>1 DEF Subscribe
<1>2. CASE Spawn
  BY <1>2 DEF Spawn
<1>3. CASE StopLocked
  BY <1>3 DEF StopLocked
<1>4. CASE StopNotify
  BY <1>4, NotifiedCases DEF StopNotify
<1>5. CASE Unsubscribe
  BY <1>5 DEF Unsubscribe
<1>6. CASE Join
  BY <1>6 DEF Join
<1>7. CASE Signal
  BY <1>7 DEF Signal
<1>8. ASSUME NEW s \in Sizes, on_nats_msg(s) PROVE (MsgInv /\ OwnerInv /\ MutexInv /\ HandInv /\ LinkInv)'
  BY <1>8 DEF on_nats_msg
<1>9. CASE EnqueueLock
  BY <1>9 DEF EnqueueLock
<1>10. CASE TrimPop
  BY <1>10 DEF TrimPop, OverLimit
<1>11. CASE TrimEnd
  BY <1>11 DEF TrimEnd, OverLimit
<1>12. CASE EnqueueNotify
  BY <1>12, NotifiedCases DEF EnqueueNotify
<1>13. CASE RunLoop
  BY <1>13 DEF RunLoop
<1>14. CASE connect_source
  BY <1>14 DEF connect_source, Proceed, Throw
<1>15. CASE send_source_request
  BY <1>15 DEF send_source_request, Proceed, Throw
<1>16. CASE read_source_response
  BY <1>16 DEF read_source_response, Proceed, Throw
<1>17. CASE write_source
  BY <1>17 DEF write_source, Wrote, WriteFailed, Proceed, Throw
<1>18. CASE StreamLoop
  BY <1>18 DEF StreamLoop, Returned
<1>19. CASE WaitLocked
  BY <1>19 DEF WaitLocked, WaitBlock, WaitStopped, WaitPop, Returned
<1>20. CASE SpuriousWakeup
  BY <1>20, NotifiedCases DEF SpuriousWakeup
<1>21. CASE Catch
  BY <1>21 DEF Catch
<1>22. CASE ClearLock
  BY <1>22 DEF ClearLock
<1>23. CASE ClearPop
  BY <1>23 DEF ClearPop
<1>24. CASE ClearEnd
  BY <1>24 DEF ClearEnd
<1>25. CASE BackoffLocked
  BY <1>25 DEF BackoffLocked
<1>26. CASE BackoffTimeout
  BY <1>26 DEF BackoffTimeout
<1>27. CASE UNCHANGED vars
  BY <1>27 DEF vars
<1>. QED
  BY <1>1, <1>2, <1>3, <1>4, <1>5, <1>6, <1>7, <1>8, <1>9, <1>10, <1>11, <1>12,
     <1>13, <1>14, <1>15, <1>16, <1>17, <1>18, <1>19, <1>20, <1>21, <1>22, <1>23,
     <1>24, <1>25, <1>26, <1>27
     DEF Next, Owner, Enqueue, WorkerNet, WorkerLocal, Terminated


\* No action leaves the worker asleep with work or with stop_ set.
LEMMA WakeupStep == IndInv /\ [Next]_vars => NoLostWakeup'
<1>. SUFFICES ASSUME IndInv, [Next]_vars PROVE NoLostWakeup'
  OBVIOUS
<1>. USE DEF IndInv, TypeOK, Network, queueVars, flagVars, histVars, workerVars,
           MutexInv, NoLostWakeup
<1>1. CASE Subscribe
  BY <1>1 DEF Subscribe
<1>2. CASE Spawn
  BY <1>2 DEF Spawn
<1>3. CASE StopLocked
  BY <1>3 DEF StopLocked
<1>4. CASE StopNotify
  BY <1>4, NotifiedCases DEF StopNotify
<1>5. CASE Unsubscribe
  BY <1>5 DEF Unsubscribe
<1>6. CASE Join
  BY <1>6 DEF Join
<1>7. CASE Signal
  BY <1>7 DEF Signal
<1>8. ASSUME NEW s \in Sizes, on_nats_msg(s) PROVE NoLostWakeup'
  BY <1>8 DEF on_nats_msg
<1>9. CASE EnqueueLock
  BY <1>9 DEF EnqueueLock
<1>10. CASE TrimPop
  BY <1>10 DEF TrimPop, OverLimit
<1>11. CASE TrimEnd
  BY <1>11 DEF TrimEnd, OverLimit
<1>12. CASE EnqueueNotify
  BY <1>12, NotifiedCases DEF EnqueueNotify
<1>13. CASE RunLoop
  BY <1>13 DEF RunLoop
<1>14. CASE connect_source
  BY <1>14 DEF connect_source, Proceed, Throw
<1>15. CASE send_source_request
  BY <1>15 DEF send_source_request, Proceed, Throw
<1>16. CASE read_source_response
  BY <1>16 DEF read_source_response, Proceed, Throw
<1>17. CASE write_source
  BY <1>17 DEF write_source, Wrote, WriteFailed, Proceed, Throw
<1>18. CASE StreamLoop
  BY <1>18 DEF StreamLoop, Returned
<1>19. CASE WaitLocked
  BY <1>19 DEF WaitLocked, WaitBlock, WaitStopped, WaitPop, Returned, Stopping
<1>20. CASE SpuriousWakeup
  BY <1>20, NotifiedCases DEF SpuriousWakeup
<1>21. CASE Catch
  BY <1>21 DEF Catch
<1>22. CASE ClearLock
  BY <1>22 DEF ClearLock
<1>23. CASE ClearPop
  BY <1>23 DEF ClearPop
<1>24. CASE ClearEnd
  BY <1>24 DEF ClearEnd
<1>25. CASE BackoffLocked
  BY <1>25 DEF BackoffLocked, Stopping
<1>26. CASE BackoffTimeout
  BY <1>26 DEF BackoffTimeout
<1>27. CASE UNCHANGED vars
  BY <1>27 DEF vars
<1>. QED
  BY <1>1, <1>2, <1>3, <1>4, <1>5, <1>6, <1>7, <1>8, <1>9, <1>10, <1>11, <1>12,
     <1>13, <1>14, <1>15, <1>16, <1>17, <1>18, <1>19, <1>20, <1>21, <1>22, <1>23,
     <1>24, <1>25, <1>26, <1>27
     DEF Next, Owner, Enqueue, WorkerNet, WorkerLocal, Terminated

\* The counter follows the queue.
LEMMA AccountingStep == IndInv /\ [Next]_vars => QueueAccounting'
<1>. SUFFICES ASSUME IndInv, [Next]_vars PROVE QueueAccounting'
  OBVIOUS
<1>. USE DEF IndInv, TypeOK, queueVars, flagVars, histVars, workerVars
<1>1. CASE Subscribe
  BY <1>1 DEF Subscribe, QueueAccounting
<1>2. CASE Spawn
  BY <1>2 DEF Spawn, QueueAccounting
<1>3. CASE StopLocked
  BY <1>3 DEF StopLocked, QueueAccounting
<1>4. CASE StopNotify
  BY <1>4, NotifiedCases DEF StopNotify, QueueAccounting
<1>5. CASE Unsubscribe
  BY <1>5 DEF Unsubscribe, QueueAccounting
<1>6. CASE Join
  BY <1>6 DEF Join, QueueAccounting
<1>7. CASE Signal
  BY <1>7 DEF Signal, QueueAccounting
<1>8. ASSUME NEW s \in Sizes, on_nats_msg(s) PROVE QueueAccounting'
  BY <1>8 DEF on_nats_msg, QueueAccounting
<1>9. CASE EnqueueLock
  <2>. DEFINE p == [off |-> total_, size |-> msg]
  <2>1. p \in Payload /\ p.off = total_ /\ p.size = msg
    BY <1>9, ParameterAssumption DEF EnqueueLock, MsgInv, Payload
  <2>2. /\ GapFree(queue_', total_')
        /\ Extent(queue_', total_') = Extent(queue_, total_) + msg
    BY <1>9, <2>1, PushExtent DEF EnqueueLock, QueueAccounting
  <2>3. Extent(queue_, total_) = queued_bytes_ /\ cleared = 0
    BY <1>9, ExtentType DEF EnqueueLock, MutexInv, QueueAccounting
  <2>. QED
    BY <1>9, <2>2, <2>3 DEF EnqueueLock, QueueAccounting
<1>10. CASE TrimPop
  <2>1. /\ GapFree(Tail(queue_), total_)
        /\ Extent(Tail(queue_), total_) = Extent(queue_, total_) - Head(queue_).size
    BY <1>10, PopExtent DEF TrimPop, OverLimit, QueueAccounting
  <2>2. /\ Head(queue_).size \in Nat /\ Extent(queue_, total_) \in Nat
        /\ cleared \in Nat /\ cleared' = cleared
    BY <1>10, FrontCounted DEF TrimPop, OverLimit
  <2>. QED
    BY <1>10, <2>1, <2>2 DEF TrimPop, QueueAccounting
<1>11. CASE TrimEnd
  BY <1>11 DEF TrimEnd, OverLimit, QueueAccounting
<1>12. CASE EnqueueNotify
  BY <1>12, NotifiedCases DEF EnqueueNotify, QueueAccounting
<1>13. CASE RunLoop
  BY <1>13 DEF RunLoop, QueueAccounting
<1>14. CASE connect_source
  BY <1>14 DEF connect_source, Proceed, Throw, QueueAccounting
<1>15. CASE send_source_request
  BY <1>15 DEF send_source_request, Proceed, Throw, QueueAccounting
<1>16. CASE read_source_response
  BY <1>16 DEF read_source_response, Proceed, Throw, QueueAccounting
<1>17. CASE write_source
  BY <1>17 DEF write_source, Wrote, WriteFailed, Proceed, Throw, QueueAccounting
<1>18. CASE StreamLoop
  BY <1>18 DEF StreamLoop, Returned, QueueAccounting
<1>19. CASE WaitLocked
  <2>1. CASE WaitPop
    <3>1. /\ GapFree(Tail(queue_), total_)
          /\ Extent(Tail(queue_), total_) = Extent(queue_, total_) - Head(queue_).size
      BY <2>1, PopExtent DEF WaitPop, QueueAccounting
    <3>2. Head(queue_).size \in Nat /\ Extent(queue_, total_) \in Nat
      BY <2>1, FrontCounted DEF WaitPop
    <3>. QED
      BY <1>19, <2>1, <3>1, <3>2 DEF WaitLocked, WaitPop, QueueAccounting
  <2>2. CASE WaitBlock \/ WaitStopped
    BY <1>19, <2>2 DEF WaitLocked, WaitBlock, WaitStopped, QueueAccounting
  <2>. QED
    BY <1>19, <2>1, <2>2 DEF WaitLocked
<1>20. CASE SpuriousWakeup
  BY <1>20, NotifiedCases DEF SpuriousWakeup, QueueAccounting
<1>21. CASE Catch
  BY <1>21 DEF Catch, QueueAccounting
<1>22. CASE ClearLock
  <2>1. cleared = 0 /\ cleared' = 0
    BY <1>22 DEF ClearLock, MutexInv
  <2>. QED
    BY <1>22, <2>1 DEF ClearLock, QueueAccounting
<1>23. CASE ClearPop
  <2>1. /\ GapFree(Tail(queue_), total_)
        /\ Extent(Tail(queue_), total_) = Extent(queue_, total_) - Head(queue_).size
    BY <1>23, PopExtent DEF ClearPop, QueueAccounting
  <2>2. Head(queue_).size \in Nat /\ Extent(queue_, total_) \in Nat
    BY <1>23, FrontCounted DEF ClearPop
  <2>. QED
    BY <1>23, <2>1, <2>2 DEF ClearPop, QueueAccounting
<1>24. CASE ClearEnd
  BY <1>24 DEF ClearEnd, QueueAccounting, GapFree, Extent
<1>25. CASE BackoffLocked
  BY <1>25 DEF BackoffLocked, QueueAccounting
<1>26. CASE BackoffTimeout
  BY <1>26 DEF BackoffTimeout, QueueAccounting
<1>27. CASE UNCHANGED vars
  BY <1>27 DEF vars, QueueAccounting
<1>. QED
  BY <1>1, <1>2, <1>3, <1>4, <1>5, <1>6, <1>7, <1>8, <1>9, <1>10, <1>11, <1>12,
     <1>13, <1>14, <1>15, <1>16, <1>17, <1>18, <1>19, <1>20, <1>21, <1>22, <1>23,
     <1>24, <1>25, <1>26, <1>27
     DEF Next, Owner, Enqueue, WorkerNet, WorkerLocal, Terminated

\* No byte disappears, and the limit holds whenever nobody trims.
LEMMA BytesStep == IndInv /\ [Next]_vars => (BoundInv /\ BytesConserved)'
<1>. SUFFICES ASSUME IndInv, [Next]_vars PROVE (BoundInv /\ BytesConserved)'
  OBVIOUS
<1>. USE DEF IndInv, queueVars, flagVars, histVars, workerVars,
           BoundInv, BytesConserved
<1>0. /\ total_ \in Nat /\ queued_bytes_ \in Nat /\ written \in Nat /\ lost \in Nat
      /\ dropped_bytes_ \in Nat /\ cleared \in Nat /\ payload.size \in Nat /\ NoPayload.size = 0
  BY HandType DEF TypeOK
<1>1. CASE Subscribe
  BY <1>1 DEF Subscribe
<1>2. CASE Spawn
  BY <1>2 DEF Spawn
<1>3. CASE StopLocked
  BY <1>3 DEF StopLocked
<1>4. CASE StopNotify
  BY <1>4, NotifiedCases DEF StopNotify
<1>5. CASE Unsubscribe
  BY <1>5 DEF Unsubscribe
<1>6. CASE Join
  BY <1>6 DEF Join
<1>7. CASE Signal
  BY <1>7 DEF Signal
<1>8. ASSUME NEW s \in Sizes, on_nats_msg(s) PROVE (BoundInv /\ BytesConserved)'
  BY <1>8 DEF on_nats_msg
<1>9. CASE EnqueueLock
  <2>1. msg \in Nat
    BY <1>9, ParameterAssumption DEF EnqueueLock, MsgInv
  <2>2. BoundInv'
    BY <1>9 DEF EnqueueLock
  <2>3. UNCHANGED <<payload, written, lost>>
    BY <1>9 DEF EnqueueLock
  <2>4. total_' = total_ + msg /\ queued_bytes_' = queued_bytes_ + msg /\ dropped_bytes_' = dropped_bytes_
    BY <1>9 DEF EnqueueLock
  <2>5. total_' = queued_bytes_' + payload.size + written + lost + dropped_bytes_'
    BY <1>0, <2>1, <2>4
  <2>. QED
    BY <2>2, <2>3, <2>5
<1>10. CASE TrimPop
  <2>1. Head(queue_).size \in Nat
    BY <1>10, FrontCounted DEF TrimPop, OverLimit
  <2>2. BoundInv'
    BY <1>10 DEF TrimPop
  <2>3. UNCHANGED <<payload, written, lost>>
    BY <1>10 DEF TrimPop
  <2>4. /\ total_' = total_ /\ queued_bytes_' = queued_bytes_ - Head(queue_).size
        /\ dropped_bytes_' = dropped_bytes_ + Head(queue_).size
    BY <1>10 DEF TrimPop
  <2>5. total_' = queued_bytes_' + payload.size + written + lost + dropped_bytes_'
    BY <1>0, <2>1, <2>4
  <2>. QED
    BY <2>2, <2>3, <2>5
<1>11. CASE TrimEnd
  <2>1. queue_ = <<>> => queued_bytes_ = 0
    BY <1>11 DEF TrimEnd, QueueAccounting, Extent, MutexInv
  <2>. QED
    BY <1>11, <2>1, <1>0, ParameterAssumption DEF TrimEnd, OverLimit
<1>12. CASE EnqueueNotify
  BY <1>12, NotifiedCases DEF EnqueueNotify
<1>13. CASE RunLoop
  BY <1>13 DEF RunLoop
<1>14. CASE connect_source
  BY <1>14 DEF connect_source, Proceed, Throw
<1>15. CASE send_source_request
  BY <1>15 DEF send_source_request, Proceed, Throw
<1>16. CASE read_source_response
  BY <1>16 DEF read_source_response, Proceed, Throw
<1>17. CASE write_source
  <2>1. payload' = NoPayload /\ payload.size \in Nat /\ NoPayload.size = 0
    BY <1>17, <1>0 DEF write_source
  <2>. QED
    BY <1>17, <1>0, <2>1 DEF write_source, Wrote, WriteFailed
<1>18. CASE StreamLoop
  BY <1>18 DEF StreamLoop, Returned
<1>19. CASE WaitLocked
  <2>1. CASE WaitPop
    <3>1. Head(queue_).size \in Nat \ {0}
      BY <2>1, FrontCounted DEF WaitPop
    <3>2. payload.size = 0 /\ delivery # "trim"
      BY <1>19, <1>0 DEF WaitLocked, HandInv, MutexInv
    <3>. QED
      BY <1>19, <1>0, <2>1, <3>1, <3>2, ParameterAssumption DEF WaitLocked, WaitPop
  <2>2. CASE WaitBlock \/ WaitStopped
    BY <1>19, <2>2 DEF WaitLocked, WaitBlock, WaitStopped
  <2>. QED
    BY <1>19, <2>1, <2>2 DEF WaitLocked
<1>20. CASE SpuriousWakeup
  BY <1>20, NotifiedCases DEF SpuriousWakeup
<1>21. CASE Catch
  BY <1>21 DEF Catch
<1>22. CASE ClearLock
  BY <1>22 DEF ClearLock
<1>23. CASE ClearPop
  BY <1>23 DEF ClearPop
<1>24. CASE ClearEnd
  <2>1. queued_bytes_ = cleared
    BY <1>24, <1>0 DEF ClearEnd, QueueAccounting, Extent
  <2>2. BoundInv'
    BY <1>24, ParameterAssumption DEF ClearEnd
  <2>3. UNCHANGED <<payload, written, lost>>
    BY <1>24 DEF ClearEnd
  <2>4. total_' = total_ /\ queued_bytes_' = 0 /\ dropped_bytes_' = dropped_bytes_ + cleared
    BY <1>24 DEF ClearEnd
  <2>5. total_' = queued_bytes_' + payload.size + written + lost + dropped_bytes_'
    BY <1>0, <2>1, <2>4
  <2>. QED
    BY <2>2, <2>3, <2>5
<1>25. CASE BackoffLocked
  BY <1>25 DEF BackoffLocked
<1>26. CASE BackoffTimeout
  BY <1>26 DEF BackoffTimeout
<1>27. CASE UNCHANGED vars
  BY <1>27 DEF vars
<1>. QED
  BY <1>1, <1>2, <1>3, <1>4, <1>5, <1>6, <1>7, <1>8, <1>9, <1>10, <1>11, <1>12,
     <1>13, <1>14, <1>15, <1>16, <1>17, <1>18, <1>19, <1>20, <1>21, <1>22, <1>23,
     <1>24, <1>25, <1>26, <1>27
     DEF Next, Owner, Enqueue, WorkerNet, WorkerLocal, Terminated


\* What is queued after a failure was accepted after it.
LEMMA FreshStep == IndInv /\ [Next]_vars => FreshInv'
<1>. SUFFICES ASSUME IndInv, [Next]_vars PROVE FreshInv'
  OBVIOUS
<1>. USE DEF IndInv, TypeOK, queueVars, flagVars, histVars, workerVars,
           FreshInv
<1>1. CASE Subscribe
  BY <1>1 DEF Subscribe
<1>2. CASE Spawn
  BY <1>2 DEF Spawn, OwnerInv
<1>3. CASE StopLocked
  BY <1>3 DEF StopLocked
<1>4. CASE StopNotify
  BY <1>4, NotifiedCases DEF StopNotify
<1>5. CASE Unsubscribe
  BY <1>5 DEF Unsubscribe
<1>6. CASE Join
  BY <1>6 DEF Join
<1>7. CASE Signal
  BY <1>7 DEF Signal
<1>8. ASSUME NEW s \in Sizes, on_nats_msg(s) PROVE FreshInv'
  BY <1>8 DEF on_nats_msg
<1>9. CASE EnqueueLock
  <2>. DEFINE p == [off |-> total_, size |-> msg]
  <2>1. p \in Payload /\ msg \in Nat /\ p.off = total_
    BY <1>9, ParameterAssumption DEF EnqueueLock, MsgInv, Payload
  <2>2. \A i \in 1..Len(queue_') :
           \/ i \in 1..Len(queue_) /\ queue_'[i] = queue_[i]
           \/ queue_'[i] = p
    BY <1>9, <2>1 DEF EnqueueLock
  <2>. QED
    BY <1>9, <2>1, <2>2 DEF EnqueueLock
<1>10. CASE TrimPop
  BY <1>10, FrontType DEF TrimPop, OverLimit
<1>11. CASE TrimEnd
  BY <1>11 DEF TrimEnd, OverLimit
<1>12. CASE EnqueueNotify
  BY <1>12, NotifiedCases DEF EnqueueNotify
<1>13. CASE RunLoop
  BY <1>13 DEF RunLoop
<1>14. CASE connect_source
  BY <1>14 DEF connect_source, Proceed, Throw
<1>15. CASE send_source_request
  BY <1>15 DEF send_source_request, Proceed, Throw
<1>16. CASE read_source_response
  BY <1>16 DEF read_source_response, Proceed, Throw
<1>17. CASE write_source
  BY <1>17 DEF write_source, Wrote, WriteFailed, Proceed, Throw
<1>18. CASE StreamLoop
  BY <1>18 DEF StreamLoop, Returned
<1>19. CASE WaitLocked
  <2>1. CASE WaitPop
    BY <1>19, <2>1, FrontType DEF WaitLocked, WaitPop
  <2>2. CASE WaitBlock \/ WaitStopped
    BY <1>19, <2>2 DEF WaitLocked, WaitBlock, WaitStopped, Returned
  <2>. QED
    BY <1>19, <2>1, <2>2 DEF WaitLocked
<1>20. CASE SpuriousWakeup
  BY <1>20, NotifiedCases DEF SpuriousWakeup
<1>21. CASE Catch
  BY <1>21 DEF Catch
<1>22. CASE ClearLock
  BY <1>22 DEF ClearLock
<1>23. CASE ClearPop
  BY <1>23, FrontType DEF ClearPop
<1>24. CASE ClearEnd
  BY <1>24 DEF ClearEnd
<1>25. CASE BackoffLocked
  BY <1>25 DEF BackoffLocked
<1>26. CASE BackoffTimeout
  BY <1>26 DEF BackoffTimeout
<1>27. CASE UNCHANGED vars
  BY <1>27 DEF vars
<1>. QED
  BY <1>1, <1>2, <1>3, <1>4, <1>5, <1>6, <1>7, <1>8, <1>9, <1>10, <1>11, <1>12,
     <1>13, <1>14, <1>15, <1>16, <1>17, <1>18, <1>19, <1>20, <1>21, <1>22, <1>23,
     <1>24, <1>25, <1>26, <1>27
     DEF Next, Owner, Enqueue, WorkerNet, WorkerLocal, Terminated


\* Written, in hand and queued payloads stay in the order of arrival.
LEMMA OrderStep == IndInv /\ [Next]_vars => OrderInv'
<1>. SUFFICES ASSUME IndInv, [Next]_vars PROVE OrderInv'
  OBVIOUS
<1>. USE DEF IndInv, queueVars, flagVars, histVars, workerVars
<1>0. /\ queue_ \in Seq(Payload) /\ sent \in Seq(Payload) /\ total_ \in Nat
      /\ payload \in Payload \cup {NoPayload}
  BY DEF TypeOK
<1>1. CASE Subscribe
  BY <1>1 DEF Subscribe, OrderInv
<1>2. CASE Spawn
  BY <1>2 DEF Spawn, OrderInv, OwnerInv
<1>3. CASE StopLocked
  BY <1>3 DEF StopLocked, OrderInv
<1>4. CASE StopNotify
  BY <1>4, NotifiedCases DEF StopNotify, OrderInv
<1>5. CASE Unsubscribe
  BY <1>5 DEF Unsubscribe, OrderInv
<1>6. CASE Join
  BY <1>6 DEF Join, OrderInv
<1>7. CASE Signal
  BY <1>7 DEF Signal, OrderInv
<1>8. ASSUME NEW s \in Sizes, on_nats_msg(s) PROVE OrderInv'
  BY <1>8 DEF on_nats_msg, OrderInv
<1>9. CASE EnqueueLock
  <2>. DEFINE p == [off |-> total_, size |-> msg]
  <2>1. p \in Payload /\ msg \in Nat /\ p.off = total_ /\ End(p) = total_ + msg
    BY <1>9, <1>0, ParameterAssumption DEF EnqueueLock, MsgInv, Payload, End
  <2>2. \A i \in 1..Len(queue_') :
           \/ i \in 1..Len(queue_) /\ queue_'[i] = queue_[i]
           \/ i = Len(queue_) + 1 /\ queue_'[i] = p
    BY <1>9, <1>0, <2>1 DEF EnqueueLock
  <2>3. /\ \A i \in 1..Len(queue_) : End(queue_[i]) \in Nat
        /\ \A i \in 1..Len(sent) : End(sent[i]) \in Nat
        /\ End(payload) \in Nat
    BY <1>0, PayloadType DEF End, NoPayload
  <2>4. /\ p \in accepted' /\ accepted \subseteq accepted' /\ total_' = total_ + msg
        /\ UNCHANGED <<sent, worker, payload>>
    BY <1>9 DEF EnqueueLock
  <2>5. \A i \in 1..Len(queue_') : queue_'[i] \in accepted' /\ End(queue_'[i]) <= total_'
    BY <1>0, <2>1, <2>2, <2>3, <2>4 DEF OrderInv
  <2>6. ASSUME NEW i \in 1..Len(queue_'), NEW j \in 1..Len(queue_'), i < j
        PROVE  End(queue_'[i]) <= queue_'[j].off
    <3>1. i \in 1..Len(queue_) /\ queue_'[i] = queue_[i]
      BY <1>0, <2>2, <2>6
    <3>2. CASE j = Len(queue_) + 1
      BY <2>1, <2>2, <3>1, <3>2 DEF OrderInv
    <3>3. CASE j # Len(queue_) + 1
      BY <2>2, <2>6, <3>1, <3>3 DEF OrderInv
    <3>. QED
      BY <3>2, <3>3
  <2>7. ASSUME NEW i \in 1..Len(sent)
        PROVE  /\ End(sent[i]) <= total_'
               /\ \A j \in 1..Len(queue_') : End(sent[i]) <= queue_'[j].off
    <3>1. /\ End(sent[i]) \in Nat /\ End(sent[i]) <= total_
          /\ \A j \in 1..Len(queue_) : End(sent[i]) <= queue_[j].off
      BY <2>3 DEF OrderInv
    <3>2. End(sent[i]) <= total_'
      BY <1>0, <2>1, <2>4, <3>1
    <3>3. \A j \in 1..Len(queue_') : End(sent[i]) <= queue_'[j].off
      BY <2>1, <2>2, <3>1
    <3>. QED
      BY <3>2, <3>3
  <2>8. worker = "write" => /\ End(payload) <= total_'
                            /\ \A j \in 1..Len(queue_') : End(payload) <= queue_'[j].off
    <3>1. worker = "write" => /\ End(payload) <= total_
                              /\ \A j \in 1..Len(queue_) : End(payload) <= queue_[j].off
      BY DEF OrderInv
    <3>. QED
      BY <1>0, <2>1, <2>2, <2>3, <2>4, <3>1
  <2>. QED
    BY <2>4, <2>5, <2>6, <2>7, <2>8 DEF OrderInv
<1>10. CASE TrimPop
  <2>1. /\ queue_ # <<>> /\ queue_' = Tail(queue_)
        /\ UNCHANGED <<total_, accepted, sent, worker, payload>>
    BY <1>10 DEF TrimPop, OverLimit
  <2>2. \A i \in 1..Len(queue_') : i + 1 \in 1..Len(queue_) /\ queue_'[i] = queue_[i + 1]
    BY <1>0, <2>1, FrontType
  <2>. QED
    BY <2>1, <2>2 DEF OrderInv
<1>11. CASE TrimEnd
  BY <1>11 DEF TrimEnd, OverLimit, OrderInv
<1>12. CASE EnqueueNotify
  BY <1>12, NotifiedCases DEF EnqueueNotify, OrderInv
<1>13. CASE RunLoop
  BY <1>13 DEF RunLoop, OrderInv
<1>14. CASE connect_source
  BY <1>14 DEF connect_source, Proceed, Throw, OrderInv
<1>15. CASE send_source_request
  BY <1>15 DEF send_source_request, Proceed, Throw, OrderInv
<1>16. CASE read_source_response
  BY <1>16 DEF read_source_response, Proceed, Throw, OrderInv
<1>17. CASE write_source
  <2>1. CASE Wrote
    <3>1. payload \in Payload /\ sent' = Append(sent, payload) /\ worker' # "write"
      BY <1>0, <2>1 DEF Wrote, NoPayload, Proceed
    <3>2. \A i \in 1..Len(sent') : \/ i \in 1..Len(sent) /\ sent'[i] = sent[i]
                                   \/ sent'[i] = payload
      BY <1>0, <3>1
    <3>. QED
      BY <1>17, <1>0, <3>1, <3>2 DEF write_source, OrderInv
  <2>2. CASE WriteFailed
    BY <1>17, <2>2 DEF write_source, WriteFailed, Throw, OrderInv
  <2>. QED
    BY <1>17, <2>1, <2>2 DEF write_source
<1>18. CASE StreamLoop
  BY <1>18 DEF StreamLoop, Returned, OrderInv
<1>19. CASE WaitLocked
  <2>1. CASE WaitPop
    BY <1>19, <1>0, <2>1, FrontType DEF WaitLocked, WaitPop, OrderInv
  <2>2. CASE WaitBlock \/ WaitStopped
    BY <1>19, <2>2 DEF WaitLocked, WaitBlock, WaitStopped, Returned, OrderInv
  <2>. QED
    BY <1>19, <2>1, <2>2 DEF WaitLocked
<1>20. CASE SpuriousWakeup
  BY <1>20, NotifiedCases DEF SpuriousWakeup, OrderInv
<1>21. CASE Catch
  BY <1>21 DEF Catch, OrderInv
<1>22. CASE ClearLock
  BY <1>22 DEF ClearLock, OrderInv
<1>23. CASE ClearPop
  <2>1. /\ queue_ # <<>> /\ queue_' = Tail(queue_)
        /\ UNCHANGED <<total_, accepted, sent, worker, payload>>
    BY <1>23 DEF ClearPop
  <2>2. \A i \in 1..Len(queue_') : i + 1 \in 1..Len(queue_) /\ queue_'[i] = queue_[i + 1]
    BY <1>0, <2>1, FrontType
  <2>. QED
    BY <2>1, <2>2 DEF OrderInv
<1>24. CASE ClearEnd
  BY <1>24 DEF ClearEnd, OrderInv
<1>25. CASE BackoffLocked
  BY <1>25 DEF BackoffLocked, OrderInv
<1>26. CASE BackoffTimeout
  BY <1>26 DEF BackoffTimeout, OrderInv
<1>27. CASE UNCHANGED vars
  BY <1>27 DEF vars, OrderInv
<1>. QED
  BY <1>1, <1>2, <1>3, <1>4, <1>5, <1>6, <1>7, <1>8, <1>9, <1>10, <1>11, <1>12,
     <1>13, <1>14, <1>15, <1>16, <1>17, <1>18, <1>19, <1>20, <1>21, <1>22, <1>23,
     <1>24, <1>25, <1>26, <1>27
     DEF Next, Owner, Enqueue, WorkerNet, WorkerLocal, Terminated

------------------------------------------------------------------------------
(* The theorems. *)

\* The invariant holds in the initial states.
LEMMA InitInv == Init => IndInv
<1>. SUFFICES ASSUME Init PROVE IndInv
  OBVIOUS
<1>. USE ParameterAssumption DEF Init
<1>0. <<>> \in Seq(Payload) /\ reconnect_delay_ \in MinDelay..MaxDelay
  BY MinDelayInRange
<1>1. TypeOK
  BY <1>0 DEF TypeOK
<1>2. MsgInv /\ OwnerInv /\ MutexInv /\ HandInv /\ BoundInv /\ LinkInv /\ NoLostWakeup
  BY DEF MsgInv, OwnerInv, MutexInv, HandInv, BoundInv, LinkInv, NoLostWakeup
<1>3. QueueAccounting
  BY DEF QueueAccounting, GapFree, Extent
<1>4. BytesConserved
  BY DEF BytesConserved, NoPayload
<1>5. FreshInv /\ OrderInv
  <2>1. /\ failedAt = 0 /\ total_ = 0 /\ worker = "none"
        /\ Len(queue_) = 0 /\ Len(sent) = 0
    OBVIOUS
  <2>. QED
    BY <2>1 DEF FreshInv, OrderInv
<1>. QED
  BY <1>1, <1>2, <1>3, <1>4, <1>5 DEF IndInv

\* IndInv is an invariant of the session, for every size of message, queue
\* limit and back-off, and for every bound on the accepted bytes.
THEOREM Inductive == Spec => []IndInv
<1>1. IndInv /\ [Next]_vars => IndInv'
  BY TypeStep, ControlStep, WakeupStep, AccountingStep, BytesStep, FreshStep,
     OrderStep DEF IndInv
<1>. QED
  BY InitInv, <1>1, PTL DEF Spec

\* Every variable keeps to its type; reconnect_delay_ stays in the configured
\* range and no byte counter goes below zero.
THEOREM TypeCorrect == Spec => []TypeOK
  BY Inductive, PTL DEF IndInv

\* The queue is gap-free and in order and its counter exact; outside the locked
\* sections it is within its limit; and every accepted byte is queued, in hand,
\* written or counted as lost.
THEOREM QueueCorrect == Spec => []QueueSound
<1>1. IndInv => QueueAccounting /\ BytesConserved
  BY DEF IndInv
<1>2. IndInv => QueueBounded
  BY DEF IndInv, BoundInv, MutexInv, QueueBounded
<1>3. IndInv => QueueSound
  BY <1>1, <1>2 DEF QueueSound
<1>. QED
  BY Inductive, <1>3, PTL

\* Chunks go to connections whose request was accepted, no chunk follows a
\* failed write on its connection, and nothing that was accepted before a
\* failure is written after it.
THEOREM StreamCorrect == Spec => []StreamSound
<1>1. IndInv => ChunkOnlyOnGoodLink
  BY DEF IndInv, LinkInv, ChunkOnlyOnGoodLink
<1>2. IndInv => NothingStaleIsWritten
  BY DEF IndInv, FreshInv, NothingStaleIsWritten
<1>3. IndInv => StreamSound
  BY <1>1, <1>2 DEF StreamSound
<1>. QED
  BY Inductive, <1>3, PTL

\* The worker never sleeps through work or through stop().
THEOREM WakeupsArrive == Spec => []NoLostWakeup
  BY Inductive, PTL DEF IndInv

\* reconnect_delay_ shrinks only on the way out of run().
THEOREM BackoffMonotone == Spec => BackoffNeverShrinks
<1>1. IndInv /\ [Next]_vars => [reconnect_delay_' < reconnect_delay_ => Stopping]_vars
  <2>. SUFFICES ASSUME IndInv, Next, reconnect_delay_' < reconnect_delay_
                PROVE  Stopping
    BY DEF IndInv
  <2>. USE DEF IndInv, queueVars, flagVars, histVars, workerVars
  <2>1. reconnect_delay_ \in MinDelay..MaxDelay /\ MinDelay \in Nat /\ MaxDelay \in Nat
    BY ParameterAssumption DEF TypeOK
  <2>2. reconnect_delay_' # reconnect_delay_ /\ reconnect_delay_' # Doubled
    BY <2>1, DoubledInRange
  <2>3. CASE StreamLoop
    <3>1. TRUE \in UnlockedStopping
      BY <2>2, <2>3 DEF StreamLoop, UnlockedStopping, Stopping, TypeOK
    <3>. QED
      BY <3>1 DEF UnlockedStopping, Stopping
  <2>4. CASE WaitLocked
    BY <2>2, <2>4 DEF WaitLocked, WaitBlock, WaitStopped, WaitPop
  <2>5. CASE Owner \/ Signal \/ Terminated \/ Enqueue \/ WorkerNet \/ SpuriousWakeup
             \/ \E s \in Sizes : on_nats_msg(s)
    BY <2>2, <2>5 DEF Owner, Subscribe, Spawn, StopLocked, StopNotify, Unsubscribe,
       Join, Signal, Terminated, vars, Enqueue, EnqueueLock, TrimPop, TrimEnd,
       EnqueueNotify, WorkerNet, connect_source, send_source_request,
       read_source_response, write_source, SpuriousWakeup, on_nats_msg
  <2>6. CASE RunLoop \/ Catch \/ ClearLock \/ ClearPop \/ ClearEnd
    BY <2>2, <2>6 DEF RunLoop, Catch, ClearLock, ClearPop, ClearEnd
  <2>7. CASE BackoffLocked \/ BackoffTimeout
    BY <2>2, <2>7 DEF BackoffLocked, BackoffTimeout
  <2>. QED
    BY <2>3, <2>4, <2>5, <2>6, <2>7 DEF Next, WorkerLocal
<1>. QED
  BY Inductive, <1>1, PTL DEF Spec, BackoffNeverShrinks

\* Every step is a step of the channel, or leaves it alone.
LEMMA FifoStep == IndInv /\ [Next]_vars => [Fifo!Next]_(Fifo!vars)
<1>. SUFFICES ASSUME IndInv, [Next]_vars PROVE [Fifo!Next]_(Fifo!vars)
  OBVIOUS
<1>. USE DEF IndInv, queueVars, flagVars, histVars, workerVars
<1>1. CASE Subscribe
  BY <1>1 DEF Subscribe, Fifo!vars
<1>2. CASE Spawn
  BY <1>2 DEF Spawn, Fifo!vars
<1>3. CASE StopLocked
  BY <1>3 DEF StopLocked, Fifo!vars
<1>4. CASE StopNotify
  BY <1>4, NotifiedCases DEF StopNotify, Fifo!vars
<1>5. CASE Unsubscribe
  BY <1>5 DEF Unsubscribe, Fifo!vars
<1>6. CASE Join
  BY <1>6 DEF Join, Fifo!vars
<1>7. CASE Signal
  BY <1>7 DEF Signal, Fifo!vars
<1>8. ASSUME NEW s \in Sizes, on_nats_msg(s) PROVE [Fifo!Next]_(Fifo!vars)
  BY <1>8 DEF on_nats_msg, Fifo!vars
<1>9. CASE EnqueueLock
  <2>1. msg \in Sizes \ {0} /\ Fifo!Accept(msg)
    BY <1>9 DEF EnqueueLock, MsgInv, Fifo!Accept
  <2>. QED
    BY <2>1 DEF Fifo!Next
<1>10. CASE TrimPop
  BY <1>10 DEF TrimPop, OverLimit, Fifo!vars
<1>11. CASE TrimEnd
  BY <1>11 DEF TrimEnd, OverLimit, Fifo!vars
<1>12. CASE EnqueueNotify
  BY <1>12, NotifiedCases DEF EnqueueNotify, Fifo!vars
<1>13. CASE RunLoop
  BY <1>13 DEF RunLoop, Fifo!vars
<1>14. CASE connect_source
  BY <1>14 DEF connect_source, Proceed, Throw, Fifo!vars
<1>15. CASE send_source_request
  BY <1>15 DEF send_source_request, Proceed, Throw, Fifo!vars
<1>16. CASE read_source_response
  BY <1>16 DEF read_source_response, Proceed, Throw, Fifo!vars
<1>17. CASE write_source
  <2>1. CASE Wrote
    <3>1. payload \in accepted /\ \A i \in 1..Len(sent) : End(sent[i]) <= payload.off
      BY <1>17 DEF write_source, OrderInv
    <3>2. DOMAIN sent = 1..Len(sent)
      BY DEF TypeOK
    <3>3. sent' = Append(sent, payload) /\ UNCHANGED <<total_, accepted>>
      BY <1>17, <2>1 DEF write_source, Wrote
    <3>4. Fifo!Deliver(payload)
      BY <3>1, <3>2, <3>3 DEF Fifo!Deliver, Fifo!End, End
    <3>. QED
      BY <3>1, <3>4 DEF Fifo!Next
  <2>2. CASE WriteFailed
    BY <1>17, <2>2 DEF write_source, WriteFailed, Fifo!vars
  <2>. QED
    BY <1>17, <2>1, <2>2 DEF write_source
<1>18. CASE StreamLoop
  BY <1>18 DEF StreamLoop, Returned, Fifo!vars
<1>19. CASE WaitLocked
  BY <1>19 DEF WaitLocked, WaitBlock, WaitStopped, WaitPop, Returned, Fifo!vars
<1>20. CASE SpuriousWakeup
  BY <1>20, NotifiedCases DEF SpuriousWakeup, Fifo!vars
<1>21. CASE Catch
  BY <1>21 DEF Catch, Fifo!vars
<1>22. CASE ClearLock
  BY <1>22 DEF ClearLock, Fifo!vars
<1>23. CASE ClearPop
  BY <1>23 DEF ClearPop, Fifo!vars
<1>24. CASE ClearEnd
  BY <1>24 DEF ClearEnd, Fifo!vars
<1>25. CASE BackoffLocked
  BY <1>25 DEF BackoffLocked, Fifo!vars
<1>26. CASE BackoffTimeout
  BY <1>26 DEF BackoffTimeout, Fifo!vars
<1>27. CASE UNCHANGED vars
  BY <1>27 DEF vars, Fifo!vars
<1>. QED
  BY <1>1, <1>2, <1>3, <1>4, <1>5, <1>6, <1>7, <1>8, <1>9, <1>10, <1>11, <1>12,
     <1>13, <1>14, <1>15, <1>16, <1>17, <1>18, <1>19, <1>20, <1>21, <1>22, <1>23,
     <1>24, <1>25, <1>26, <1>27
     DEF Next, Owner, Enqueue, WorkerNet, WorkerLocal, Terminated


\* The session implements the lossy FIFO channel: every payload is written at
\* most once, whole and in the order of arrival.
THEOREM ImplementsFifo == Spec => FifoSpec
<1>1. Init => Fifo!Init
  BY DEF Init, Fifo!Init
<1>. QED
  BY Inductive, <1>1, FifoStep, PTL DEF Spec, FifoSpec, Fifo!Spec

------------------------------------------------------------------------------
(* The refinement of SessionLife. *)

\* stop_ tells how far the owner is, and no worker outlives the session.
LifeInv == /\ stop_ <=> owner \in {"notify", "unsubscribe", "join", "destroyed"}
           /\ owner = "destroyed" => worker \in {"none", "done"}

\* What a step may do to the parts of a life.
LEMMA LifeVars ==
    ASSUME owner' = owner, subscription_' = subscription_,
           WorkerLife' = WorkerLife, g_stop' = g_stop
    PROVE  UNCHANGED Life!vars
  BY DEF Phase, Life!vars

\* A worker that finds the flags set may end.
LEMMA MayEnd ==
    ASSUME TypeOK, LifeInv, worker \notin {"none", "done"}, TRUE \in UnlockedStopping
    PROVE  g_stop \/ Phase \in {"stopping", "closing", "joining"}
  BY DEF TypeOK, LifeInv, UnlockedStopping, Stopping, Phase

\* The life the mapping gives is one of the lives of SessionLife.
LEMMA LifeType ==
    ASSUME TypeOK, TypeOK'
    PROVE  LET l == [phase |-> Phase, subscription |-> subscription_,
                     worker |-> WorkerLife]
           IN  l \in Life!Lives /\ l' \in Life!Lives
<1>1. /\ Phase \in {"new", "subscribed", "running", "failed", "stopping",
                     "closing", "joining", "destroyed"}
      /\ WorkerLife \in {"none", "alive", "done"}
  BY DEF TypeOK, Phase, WorkerLife
<1>2. /\ Phase' \in {"new", "subscribed", "running", "failed", "stopping",
                      "closing", "joining", "destroyed"}
      /\ WorkerLife' \in {"none", "alive", "done"}
  BY DEF TypeOK, Phase, WorkerLife
<1>. QED
  BY <1>1, <1>2 DEF TypeOK, Life!Lives

\* The steps of SessionLife, field by field.
LEMMA LifeSteps ==
    ASSUME NEW l \in Life!Lives, NEW m \in Life!Lives
    PROVE  /\ /\ l.phase = "new" /\ m.worker = l.worker
              /\ \/ m.phase = "subscribed" /\ m.subscription = "live"
                 \/ m.phase = "failed" /\ m.subscription = l.subscription
              => Life!Subscribe(l, m)
           /\ /\ l.phase = "subscribed" /\ m.subscription = l.subscription
              /\ \/ m.phase = "running" /\ m.worker = "alive"
                 \/ m.phase = "failed" /\ m.worker = l.worker
              => Life!Spawn(l, m)
           /\ /\ l.phase \in {"running", "failed"} /\ m.phase = "stopping"
              /\ m.subscription = l.subscription /\ m.worker = l.worker
              => Life!BeginStop(l, m)
           /\ /\ l.phase = "stopping" /\ m.phase = "closing"
              /\ m.subscription = l.subscription /\ m.worker = l.worker
              => Life!Notify(l, m)
           /\ /\ l.phase = "closing" /\ m.phase = "joining"
              /\ m.subscription = IF l.subscription = "live" THEN "closed"
                                                            ELSE l.subscription
              /\ m.worker = l.worker
              => Life!Unsubscribe(l, m)
           /\ /\ l.phase = "joining" /\ m.phase = "destroyed"
              /\ l.worker # "alive"
              /\ m.subscription = l.subscription /\ m.worker = l.worker
              => Life!Join(l, m)
           /\ /\ l.worker = "alive" /\ m.worker = "done"
              /\ g_stop \/ l.phase \in {"stopping", "closing", "joining"}
              /\ m.subscription = l.subscription /\ m.phase = l.phase
              => Life!WorkerEnds(l, m, g_stop)
<1>. USE DEF Life!Lives
<1>1. ASSUME l.phase = "new", m.worker = l.worker,
             \/ m.phase = "subscribed" /\ m.subscription = "live"
             \/ m.phase = "failed" /\ m.subscription = l.subscription
      PROVE  Life!Subscribe(l, m)
  BY <1>1 DEF Life!Subscribe
<1>2. ASSUME l.phase = "subscribed", m.subscription = l.subscription,
             \/ m.phase = "running" /\ m.worker = "alive"
             \/ m.phase = "failed" /\ m.worker = l.worker
      PROVE  Life!Spawn(l, m)
  BY <1>2 DEF Life!Spawn
<1>3. ASSUME l.phase \in {"running", "failed"}, m.phase = "stopping",
             m.subscription = l.subscription, m.worker = l.worker
      PROVE  Life!BeginStop(l, m)
  BY <1>3 DEF Life!BeginStop
<1>4. ASSUME l.phase = "stopping", m.phase = "closing",
             m.subscription = l.subscription, m.worker = l.worker
      PROVE  Life!Notify(l, m)
  BY <1>4 DEF Life!Notify
<1>5. ASSUME l.phase = "closing", m.phase = "joining",
             m.subscription = IF l.subscription = "live" THEN "closed"
                                                         ELSE l.subscription,
             m.worker = l.worker
      PROVE  Life!Unsubscribe(l, m)
  BY <1>5 DEF Life!Unsubscribe
<1>6. ASSUME l.phase = "joining", m.phase = "destroyed", l.worker # "alive",
             m.subscription = l.subscription, m.worker = l.worker
      PROVE  Life!Join(l, m)
  BY <1>6 DEF Life!Join
<1>7. ASSUME l.worker = "alive", m.worker = "done",
             g_stop \/ l.phase \in {"stopping", "closing", "joining"},
             m.subscription = l.subscription, m.phase = l.phase
      PROVE  Life!WorkerEnds(l, m, g_stop)
  BY <1>7 DEF Life!WorkerEnds
<1>. QED
  BY <1>1, <1>2, <1>3, <1>4, <1>5, <1>6, <1>7

\* The owner's steps, and the signal.
LEMMA LifeOwnerStep ==
    ASSUME IndInv, TypeOK', LifeInv, Owner \/ Signal
    PROVE  LifeInv' /\ [Life!Next]_(Life!vars)
<1>. USE DEF IndInv, queueVars, flagVars, histVars, workerVars
<1>. DEFINE l == [phase |-> Phase, subscription |-> subscription_,
                  worker |-> WorkerLife]
<1>0. l \in Life!Lives /\ l' \in Life!Lives
  BY LifeType
<1>1. CASE Subscribe
  <2>1. Phase = "new" /\ WorkerLife' = WorkerLife
    BY <1>1 DEF Subscribe, Phase, WorkerLife
  <2>2. \/ Phase' = "subscribed" /\ subscription_' = "live"
        \/ Phase' = "failed" /\ subscription_' = subscription_
    BY <1>1 DEF Subscribe, Phase
  <2>3. Life!Subscribe(l, l')
    BY <1>0, <2>1, <2>2, LifeSteps
  <2>4. LifeInv'
    BY <1>1 DEF Subscribe, LifeInv
  <2>. QED
    BY <1>1, <2>3, <2>4 DEF Subscribe, Life!Next, Life!LifeStep, Life!StartStep
<1>2. CASE Spawn
  <2>1. Phase = "subscribed" /\ subscription_' = subscription_
    BY <1>2 DEF Spawn, Phase
  <2>2. \/ Phase' = "running" /\ WorkerLife' = "alive"
        \/ Phase' = "failed" /\ WorkerLife' = WorkerLife
    BY <1>2 DEF Spawn, Phase, WorkerLife
  <2>3. Life!Spawn(l, l')
    BY <1>0, <2>1, <2>2, LifeSteps
  <2>4. LifeInv'
    BY <1>2 DEF Spawn, LifeInv
  <2>. QED
    BY <1>2, <2>3, <2>4 DEF Spawn, Life!Next, Life!LifeStep, Life!StartStep
<1>3. CASE StopLocked
  <2>1. Phase \in {"running", "failed"} /\ Phase' = "stopping"
    BY <1>3 DEF StopLocked, Phase
  <2>2. subscription_' = subscription_ /\ WorkerLife' = WorkerLife
    BY <1>3 DEF StopLocked, WorkerLife
  <2>3. Life!BeginStop(l, l')
    BY <1>0, <2>1, <2>2, LifeSteps
  <2>4. LifeInv'
    BY <1>3 DEF StopLocked, LifeInv
  <2>. QED
    BY <1>3, <2>3, <2>4 DEF StopLocked, Life!Next, Life!LifeStep, Life!StopStep
<1>4. CASE StopNotify
  <2>1. Phase = "stopping" /\ Phase' = "closing"
    BY <1>4 DEF StopNotify, Phase
  <2>2. subscription_' = subscription_ /\ WorkerLife' = WorkerLife
    BY <1>4, NotifiedCases DEF StopNotify, WorkerLife
  <2>3. Life!Notify(l, l')
    BY <1>0, <2>1, <2>2, LifeSteps
  <2>4. LifeInv'
    BY <1>4 DEF StopNotify, LifeInv
  <2>. QED
    BY <1>4, <2>3, <2>4 DEF StopNotify, Life!Next, Life!LifeStep, Life!StopStep
<1>5. CASE Unsubscribe
  <2>1. Phase = "closing" /\ Phase' = "joining" /\ WorkerLife' = WorkerLife
    BY <1>5 DEF Unsubscribe, Phase, WorkerLife
  <2>2. subscription_' = IF subscription_ = "live" THEN "closed" ELSE subscription_
    BY <1>5 DEF Unsubscribe
  <2>3. Life!Unsubscribe(l, l')
    BY <1>0, <2>1, <2>2, LifeSteps
  <2>4. LifeInv'
    BY <1>5 DEF Unsubscribe, LifeInv
  <2>. QED
    BY <1>5, <2>3, <2>4 DEF Unsubscribe, Life!Next, Life!LifeStep, Life!StopStep
<1>6. CASE Join
  <2>1. Phase = "joining" /\ Phase' = "destroyed"
    BY <1>6 DEF Join, Phase
  <2>2. /\ subscription_' = subscription_
        /\ WorkerLife # "alive" /\ WorkerLife' = WorkerLife
    BY <1>6 DEF Join, WorkerLife
  <2>3. Life!Join(l, l')
    BY <1>0, <2>1, <2>2, LifeSteps
  <2>4. LifeInv'
    BY <1>6 DEF Join, LifeInv
  <2>. QED
    BY <1>6, <2>3, <2>4 DEF Join, Life!Next, Life!LifeStep, Life!StopStep
<1>7. CASE Signal
  <2>1. Phase' = Phase /\ WorkerLife' = WorkerLife
    BY <1>7 DEF Signal, Phase, WorkerLife
  <2>. QED
    BY <1>7, <2>1 DEF Signal, LifeInv, Life!Next
<1>. QED
  BY <1>1, <1>2, <1>3, <1>4, <1>5, <1>6, <1>7 DEF Owner

\* The steps at which the worker may end.
LEMMA LifeEndStep ==
    ASSUME IndInv, TypeOK', LifeInv, RunLoop \/ Catch
    PROVE  LifeInv' /\ [Life!Next]_(Life!vars)
<1>. USE DEF IndInv, queueVars, flagVars, histVars, workerVars
<1>. DEFINE l == [phase |-> Phase, subscription |-> subscription_,
                  worker |-> WorkerLife]
<1>0. l \in Life!Lives /\ l' \in Life!Lives
  BY LifeType
<1>1. /\ owner' = owner /\ subscription_' = subscription_ /\ g_stop' = g_stop
      /\ stop_' = stop_ /\ worker \notin {"none", "done"}
  BY DEF RunLoop, Catch
<1>2. Phase' = Phase /\ WorkerLife = "alive"
  BY <1>1 DEF Phase, WorkerLife
<1>3. LifeInv'
  BY <1>1 DEF LifeInv
<1>4. CASE worker' = "done"
  <2>1. TRUE \in UnlockedStopping
    BY <1>4 DEF RunLoop, Catch, UnlockedStopping, Stopping, TypeOK
  <2>2. g_stop \/ Phase \in {"stopping", "closing", "joining"}
    BY <1>1, <2>1, MayEnd
  <2>3. WorkerLife' = "done"
    BY <1>4 DEF WorkerLife
  <2>4. Life!WorkerEnds(l, l', g_stop)
    BY <1>0, <1>1, <1>2, <2>2, <2>3, LifeSteps
  <2>. QED
    BY <1>1, <1>3, <2>4 DEF Life!Next, Life!LifeStep
<1>5. CASE worker' # "done"
  <2>1. worker' \notin {"none", "done"}
    BY <1>5 DEF RunLoop, Catch
  <2>2. WorkerLife' = WorkerLife
    BY <1>2, <2>1 DEF WorkerLife
  <2>. QED
    BY <1>1, <1>3, <2>2, LifeVars
<1>. QED
  BY <1>4, <1>5

\* No other step changes the life.
LEMMA LifeOtherStep ==
    ASSUME IndInv, LifeInv, [Next]_vars,
           ~(Owner \/ Signal), ~(RunLoop \/ Catch)
    PROVE  LifeInv' /\ [Life!Next]_(Life!vars)
<1>. USE DEF IndInv, queueVars, flagVars, histVars, workerVars
<1>1. /\ owner' = owner /\ subscription_' = subscription_ /\ g_stop' = g_stop
      /\ stop_' = stop_
      /\ \/ worker' = worker
         \/ worker \notin {"none", "done"} /\ worker' \notin {"none", "done"}
  <2>1. CASE Enqueue \/ SpuriousWakeup
    BY <2>1, NotifiedCases DEF Enqueue, EnqueueLock, TrimPop, TrimEnd,
       EnqueueNotify, SpuriousWakeup
  <2>2. ASSUME NEW s \in Sizes, on_nats_msg(s)
        PROVE  UNCHANGED <<owner, subscription_, g_stop, stop_, worker>>
    BY <2>2 DEF on_nats_msg
  <2>3. CASE WorkerNet
    BY <2>3 DEF WorkerNet, connect_source, send_source_request,
       read_source_response, write_source, Wrote, WriteFailed, Proceed, Throw
  <2>4. CASE StreamLoop \/ WaitLocked
    BY <2>4 DEF StreamLoop, WaitLocked, WaitBlock, WaitStopped, WaitPop, Returned
  <2>5. CASE ClearLock \/ ClearPop \/ ClearEnd \/ BackoffLocked \/ BackoffTimeout
    BY <2>5 DEF ClearLock, ClearPop, ClearEnd, BackoffLocked, BackoffTimeout
  <2>6. CASE UNCHANGED vars
    BY <2>6 DEF vars
  <2>. QED
    BY <2>1, <2>2, <2>3, <2>4, <2>5, <2>6 DEF Next, WorkerLocal, Terminated
<1>2. WorkerLife' = WorkerLife
  BY <1>1 DEF WorkerLife
<1>. QED
  BY <1>1, <1>2, LifeVars DEF LifeInv

\* The session goes through the life that main relies on: start() gives up
\* where it fails, stop() closes the subscription before it waits for the
\* worker, the session outlives the worker, and the worker ends only when told.
THEOREM ImplementsLife == Spec => LifeSpec
<1>1. Init => LifeInv /\ Life!Init
  BY DEF Init, LifeInv, Life!Init, Life!NewLife, Phase, WorkerLife
<1>2. IndInv /\ TypeOK' /\ LifeInv /\ [Next]_vars => LifeInv' /\ [Life!Next]_(Life!vars)
  BY LifeOwnerStep, LifeEndStep, LifeOtherStep
<1>3. Spec => []TypeOK
  BY Inductive, PTL DEF IndInv
<1>. QED
  BY Inductive, <1>1, <1>2, <1>3, PTL DEF Spec, LifeSpec, Life!Spec
=============================================================================

---------------------------- MODULE LoggerProofs ----------------------------
(***************************************************************************)
(* Proofs about Logger for every set of logging threads and every number   *)
(* of entries.                                                             *)
(***************************************************************************)
EXTENDS Logger, SequenceTheorems, TLAPS

\* The worker holds an entry exactly while it writes it.
HandInv == /\ worker = "emit" => Len(e) = 1
           /\ worker # "emit" => e = <<>>

\* What was written, what is in hand and what is queued are numbered through.
NumberInv ==
    /\ Len(emitted) + Len(e) + Len(q_) = pushed
    /\ \A k \in 1..Len(emitted) : emitted[k] = k
    /\ \A k \in 1..Len(e) : e[k] = Len(emitted) + k
    /\ \A k \in 1..Len(q_) : q_[k] = Len(emitted) + Len(e) + k

\* The worker falls asleep on an empty queue only, and whoever pushed since it
\* blocked has not notified yet.
SleepInv == /\ worker = "sleep" => q_ = <<>>
            /\ NoEntryLeftAsleep

\* The flag tells whether the destructor began, the worker leaves only after
\* that, and with nothing left that was logged before.
StopInv == /\ stop_ <=> owner # "alive"
           /\ worker = "done" => stop_
           /\ pushedAtStop <= pushed
           /\ FlushedBeforeExit
           /\ HangsOnlyIfMissed

IndInv == TypeOK /\ HandInv /\ NumberInv /\ SleepInv /\ StopInv

------------------------------------------------------------------------------
(* The initial states. *)

LEMMA InitInv == Init => IndInv
<1>. SUFFICES ASSUME Init PROVE IndInv
  OBVIOUS
<1>. USE DEF Init
<1>1. Len(emitted) = 0 /\ Len(e) = 0 /\ Len(q_) = 0 /\ <<>> \in Seq(Nat)
  OBVIOUS
<1>2. TypeOK
  BY <1>1 DEF TypeOK
<1>3. HandInv /\ NumberInv
  BY <1>1 DEF HandInv, NumberInv
<1>4. SleepInv /\ StopInv
  BY DEF SleepInv, StopInv, NoEntryLeftAsleep, FlushedBeforeExit, HangsOnlyIfMissed
<1>. QED
  BY <1>2, <1>3, <1>4 DEF IndInv

------------------------------------------------------------------------------
(* The steps that move an entry. *)

\* A sequence of one entry joined to another is one entry longer.
LEMMA ConcatOne ==
    ASSUME NEW s \in Seq(Nat), NEW t \in Seq(Nat), Len(t) = 1
    PROVE  /\ s \o t \in Seq(Nat) /\ Len(s \o t) = Len(s) + 1
           /\ \A k \in 1..Len(s \o t) :
                 (s \o t)[k] = IF k <= Len(s) THEN s[k] ELSE t[1]
<1>1. /\ s \o t \in Seq(Nat) /\ Len(s \o t) = Len(s) + Len(t)
      /\ \A k \in 1..(Len(s) + Len(t)) :
            (s \o t)[k] = IF k <= Len(s) THEN s[k] ELSE t[k - Len(s)]
  BY ConcatProperties
<1>2. Len(s) \in Nat
  OBVIOUS
<1>. QED
  BY <1>1, <1>2

\* A thread pushes an entry.
LEMMA PushKeeps ==
    ASSUME IndInv, NEW p \in Producers, Push(p)
    PROVE  IndInv'
<1>. USE DEF IndInv, Push
<1>1. /\ q_ \in Seq(Nat) /\ pushed \in Nat /\ pushed' = pushed + 1
      /\ q_' = Append(q_, pushed + 1) /\ q_' \in Seq(Nat)
      /\ Len(q_') = Len(q_) + 1
      /\ \A k \in 1..Len(q_') : q_'[k] = IF k <= Len(q_) THEN q_[k] ELSE pushed + 1
      /\ Len(emitted) \in Nat /\ Len(e) \in Nat /\ Len(q_) \in Nat
  BY DEF TypeOK
<1>2. TypeOK'
  BY <1>1 DEF TypeOK
<1>3. HandInv'
  BY DEF HandInv
<1>4. NumberInv'
  <2>. emitted' = emitted /\ e' = e
    OBVIOUS
  <2>0. Len(emitted) + Len(e) + Len(q_) = pushed
    BY DEF NumberInv
  <2>1. Len(emitted) + Len(e) + Len(q_') = pushed'
    BY ONLY <2>0, <1>1
  <2>2. \A k \in 1..Len(q_') : q_'[k] = Len(emitted) + Len(e) + k
    <3>. SUFFICES ASSUME NEW k \in 1..Len(q_')
                  PROVE  q_'[k] = Len(emitted) + Len(e) + k
      OBVIOUS
    <3>1. CASE k <= Len(q_)
      <4>0. k \in 1..Len(q_)
        BY ONLY <1>1, <3>1, k \in 1..Len(q_')
      <4>1. q_[k] = Len(emitted) + Len(e) + k
        BY <4>0 DEF NumberInv
      <4>. QED
        BY ONLY <4>1, <3>1, <1>1, k \in 1..Len(q_')
    <3>2. CASE ~(k <= Len(q_))
      BY ONLY <2>0, <3>2, <1>1, k \in 1..Len(q_')
    <3>. QED
      BY <3>1, <3>2
  <2>. QED
    BY <2>1, <2>2 DEF NumberInv
<1>5. SleepInv'
  <2>1. worker # "sleep"
    BY DEF TypeOK
  <2>2. producer'[p] = "notify"
    BY DEF TypeOK
  <2>. QED
    BY <2>1, <2>2 DEF SleepInv, NoEntryLeftAsleep
<1>6. StopInv'
  BY <1>1 DEF StopInv, FlushedBeforeExit, HangsOnlyIfMissed, TypeOK
<1>. QED
  BY <1>2, <1>3, <1>4, <1>5, <1>6

\* The worker takes the front of the queue.
LEMMA PopKeeps ==
    ASSUME IndInv, Pop
    PROVE  IndInv'
<1>. USE DEF IndInv, Pop
<1>1. /\ q_ \in Seq(Nat) /\ q_ # <<>> /\ Len(q_) \in Nat \ {0}
      /\ q_' \in Seq(Nat) /\ Len(q_') = Len(q_) - 1
      /\ \A k \in 1..Len(q_') : k + 1 \in 1..Len(q_) /\ q_'[k] = q_[k + 1]
      /\ e = <<>> /\ Len(e) = 0 /\ 1 \in 1..Len(q_)
      /\ Len(emitted) \in Nat /\ pushed \in Nat
  BY DEF TypeOK, HandInv
<1>2. /\ e' = <<q_[1]>> /\ e' \in Seq(Nat) /\ Len(e') = 1 /\ e'[1] = q_[1]
  BY <1>1
<1>3. TypeOK'
  BY <1>1, <1>2 DEF TypeOK
<1>4. HandInv'
  BY <1>2 DEF HandInv
<1>5. NumberInv'
  <2>0. Len(emitted) + Len(e) + Len(q_) = pushed
    BY DEF NumberInv
  <2>1. Len(emitted) + Len(e') + Len(q_') = pushed
    <3>1. Len(q_) \in Nat /\ Len(emitted) \in Nat /\ pushed \in Nat
      BY <1>1
    <3>2. Len(e) = 0 /\ Len(e') = 1 /\ Len(q_') = Len(q_) - 1
      BY <1>1, <1>2
    <3>. QED
      BY ONLY <3>1, <3>2, <2>0
  <2>2. \A k \in 1..Len(e') : e'[k] = Len(emitted) + k
    BY <1>1, <1>2 DEF NumberInv
  <2>3. \A k \in 1..Len(q_') : q_'[k] = Len(emitted) + Len(e') + k
    <3>. SUFFICES ASSUME NEW k \in 1..Len(q_')
                  PROVE  q_'[k] = Len(emitted) + Len(e') + k
      OBVIOUS
    <3>1. q_'[k] = Len(emitted) + Len(e) + (k + 1)
      BY <1>1 DEF NumberInv
    <3>. QED
      BY <3>1, <1>1, <1>2
  <2>. QED
    BY <2>1, <2>2, <2>3 DEF NumberInv
<1>6. SleepInv' /\ StopInv'
  BY DEF SleepInv, NoEntryLeftAsleep, StopInv, FlushedBeforeExit, HangsOnlyIfMissed
<1>. QED
  BY <1>3, <1>4, <1>5, <1>6

\* The worker writes the entry in hand.
LEMMA EmitKeeps ==
    ASSUME IndInv, Emit
    PROVE  IndInv'
<1>. USE DEF IndInv, Emit
<1>1. /\ emitted \in Seq(Nat) /\ e \in Seq(Nat) /\ Len(e) = 1
      /\ Len(emitted) \in Nat /\ Len(q_) \in Nat /\ pushed \in Nat
  BY DEF TypeOK, HandInv
<1>2. /\ emitted' \in Seq(Nat) /\ Len(emitted') = Len(emitted) + 1
      /\ \A k \in 1..Len(emitted') :
            emitted'[k] = IF k <= Len(emitted) THEN emitted[k] ELSE e[1]
      /\ e' = <<>> /\ e' \in Seq(Nat) /\ Len(e') = 0
  <2>1. emitted' = emitted \o e
    OBVIOUS
  <2>. QED
    BY <1>1, <2>1, ConcatOne
<1>3. TypeOK'
  BY <1>2 DEF TypeOK
<1>4. HandInv'
  BY <1>2 DEF HandInv
<1>5. NumberInv'
  BY <1>1, <1>2 DEF NumberInv
<1>6. SleepInv' /\ StopInv'
  BY DEF SleepInv, NoEntryLeftAsleep, StopInv, FlushedBeforeExit, HangsOnlyIfMissed
<1>. QED
  BY <1>3, <1>4, <1>5, <1>6

------------------------------------------------------------------------------
(* The steps that move none. *)

\* A thread that pushed notifies the worker.
LEMMA PushNotifyKeeps ==
    ASSUME IndInv, NEW p \in Producers, PushNotify(p)
    PROVE  IndInv'
<1>. USE DEF IndInv, PushNotify, Notified
<1>1. TypeOK'
  BY DEF TypeOK
<1>2. HandInv' /\ NumberInv'
  BY DEF HandInv, NumberInv
<1>3. worker' # "blocked"
  BY DEF TypeOK
<1>4. SleepInv' /\ StopInv'
  BY <1>3 DEF SleepInv, NoEntryLeftAsleep, StopInv, FlushedBeforeExit,
              HangsOnlyIfMissed
<1>. QED
  BY <1>1, <1>2, <1>4

\* The destructor sets the flag, notifies and joins.
LEMMA OwnerKeeps ==
    ASSUME IndInv, StopSet \/ StopNotify \/ Join
    PROVE  IndInv'
<1>. USE DEF IndInv, StopSet, StopNotify, Join, Notified
<1>1. TypeOK'
  BY DEF TypeOK
<1>2. HandInv' /\ NumberInv'
  BY DEF HandInv, NumberInv
<1>3. SleepInv'
  BY DEF SleepInv, NoEntryLeftAsleep
<1>4. StopInv'
  BY DEF StopInv, FlushedBeforeExit, HangsOnlyIfMissed, TypeOK
<1>. QED
  BY <1>1, <1>2, <1>3, <1>4

\* The worker wakes, tests, blocks and locks again.
LEMMA WaitKeeps ==
    ASSUME IndInv, Wake \/ Eval \/ Sleep \/ SpuriousWakeup \/ Relock
    PROVE  IndInv'
<1>. USE DEF IndInv, Wake, Eval, Sleep, SpuriousWakeup, Relock
<1>1. TypeOK'
  BY DEF TypeOK
<1>2. HandInv' /\ NumberInv'
  BY DEF HandInv, NumberInv
<1>3. SleepInv'
  BY DEF SleepInv, NoEntryLeftAsleep
<1>4. StopInv'
  BY DEF StopInv, FlushedBeforeExit, HangsOnlyIfMissed
<1>. QED
  BY <1>1, <1>2, <1>3, <1>4

\* With the queue empty the worker looks at the flag.
LEMMA TestStopKeeps ==
    ASSUME IndInv, TestStop
    PROVE  IndInv'
<1>. USE DEF IndInv, TestStop, Drained
<1>1. TypeOK'
  BY DEF TypeOK
<1>2. HandInv' /\ NumberInv'
  BY DEF HandInv, NumberInv
<1>3. SleepInv'
  BY DEF SleepInv, NoEntryLeftAsleep
<1>4. Len(emitted) = pushed
  BY DEF HandInv, NumberInv, TypeOK
<1>5. StopInv'
  BY <1>4 DEF StopInv, FlushedBeforeExit, HangsOnlyIfMissed, TypeOK
<1>. QED
  BY <1>1, <1>2, <1>3, <1>5

\* Nothing moves.
LEMMA StutterKeeps ==
    ASSUME IndInv, UNCHANGED vars
    PROVE  IndInv'
<1>. USE DEF IndInv, vars
<1>1. TypeOK' /\ HandInv' /\ NumberInv'
  BY DEF TypeOK, HandInv, NumberInv
<1>2. SleepInv' /\ StopInv'
  BY DEF SleepInv, NoEntryLeftAsleep, StopInv, FlushedBeforeExit, HangsOnlyIfMissed
<1>. QED
  BY <1>1, <1>2

------------------------------------------------------------------------------
(* The theorems. *)

\* IndInv is an invariant, for any number of threads and of entries.
THEOREM Inductive == Spec => []IndInv
<1>1. IndInv /\ [Next]_vars => IndInv'
  BY PushKeeps, PushNotifyKeeps, OwnerKeeps, WaitKeeps, PopKeeps, EmitKeeps,
     TestStopKeeps, StutterKeeps DEF Next, Worker, Terminated
<1>. QED
  BY InitInv, <1>1, PTL DEF Spec

\* No entry is left with a sleeping worker, and a worker sleeps through the
\* destructor only if it missed its one notification.
THEOREM LoggerCorrect == Spec => []Inv
<1>1. IndInv => Inv
  BY DEF IndInv, SleepInv, StopInv, Inv
<1>. QED
  BY Inductive, <1>1, PTL

\* Entries are written exactly once and in the order of the pushes.
THEOREM OrderCorrect == Spec => []ExactlyOnceInOrder
<1>1. IndInv => ExactlyOnceInOrder
  <2>. SUFFICES ASSUME IndInv PROVE ExactlyOnceInOrder
    OBVIOUS
  <2>. DEFINE all == emitted \o e \o q_
  <2>1. /\ emitted \in Seq(Nat) /\ e \in Seq(Nat) /\ q_ \in Seq(Nat)
        /\ Len(emitted) \in Nat /\ Len(e) \in Nat /\ Len(q_) \in Nat
    BY DEF IndInv, TypeOK
  <2>2. Len(all) = Len(emitted) + Len(e) + Len(q_)
    BY <2>1
  <2>3. ASSUME NEW k \in 1..Len(all) PROVE all[k] = k
    <3>1. CASE k <= Len(emitted)
      BY <2>1, <2>2, <2>3, <3>1 DEF IndInv, NumberInv
    <3>2. CASE Len(emitted) < k /\ k <= Len(emitted) + Len(e)
      <4>1. all[k] = e[k - Len(emitted)] /\ k - Len(emitted) \in 1..Len(e)
        BY <2>1, <2>2, <2>3, <3>2
      <4>. QED
        BY <2>1, <4>1 DEF IndInv, NumberInv
    <3>3. CASE Len(emitted) + Len(e) < k
      <4>1. /\ all[k] = q_[k - (Len(emitted) + Len(e))]
            /\ k - (Len(emitted) + Len(e)) \in 1..Len(q_)
        BY <2>1, <2>2, <2>3, <3>3
      <4>. QED
        BY <2>1, <4>1 DEF IndInv, NumberInv
    <3>. QED
      BY <2>1, <2>2, <2>3, <3>1, <3>2, <3>3
  <2>. QED
    BY <2>2, <2>3 DEF ExactlyOnceInOrder, IndInv, NumberInv
<1>. QED
  BY Inductive, <1>1, PTL

\* The worker leaves with everything written that was logged before the
\* destructor began.
THEOREM FlushCorrect == Spec => []FlushedBeforeExit
<1>1. IndInv => FlushedBeforeExit
  BY DEF IndInv, StopInv
<1>. QED
  BY Inductive, <1>1, PTL
=============================================================================

---------------------------- MODULE PipelineProofs ----------------------------
(***************************************************************************)
(* Proofs about Pipeline for any number of sources and every assignment of *)
(* subjects.                                                               *)
(*                                                                         *)
(* The bridge and the decoder have an inductive invariant each; that the   *)
(* bytes keep their order needs a third one, about the chunks on their way *)
(* and the sequence of those that arrived.                                 *)
(***************************************************************************)
EXTENDS Pipeline, WellFoundedInduction, FiniteSetTheorems, SequenceTheorems, TLAPS

------------------------------------------------------------------------------
(* The bridge. *)

\* Sources are started in order, and nothing is handed over before all are.
StartInv ==
    /\ bridge_pc \in {"options", "connect"} => consuming = {}
    /\ bridge_pc = "create" => \E n \in 0..(Sources - 1) : consuming = 1..n
    /\ bridge_pc = "run" => consuming = 1..Sources
    /\ bridge_pc # "run" => handed = {}

BridgeInv == Bridge!TypeOK /\ Bridge!AllOrNothing /\ StartInv

\* The initial state of the bridge.
LEMMA BridgeInit == Bridge!Init => BridgeInv
<1>. SUFFICES ASSUME Bridge!Init PROVE BridgeInv
  OBVIOUS
<1>. USE DEF Bridge!Init, Bridge!Source
<1>1. Bridge!TypeOK
  BY PipelineAssumption DEF Bridge!TypeOK
<1>2. Bridge!AllOrNothing /\ StartInv
  BY DEF Bridge!AllOrNothing, StartInv
<1>. QED
  BY <1>1, <1>2 DEF BridgeInv

\* The source main starts next.
LEMMA CurrentSource ==
    ASSUME BridgeInv, bridge_pc = "create"
    PROVE  \E n \in 0..(Sources - 1) : consuming = 1..n /\ Bridge!Current = n + 1
<1>1. PICK n \in 0..(Sources - 1) : consuming = 1..n
  BY DEF BridgeInv, StartInv
<1>2. 1 \in Int /\ n \in Int /\ n \in Nat
  BY PipelineAssumption
<1>3. Cardinality(1..n) = IF 1 > n THEN 0 ELSE n - 1 + 1
  BY <1>2, FS_Interval
<1>4. Cardinality(1..n) = n
  BY <1>2, <1>3
<1>5. Bridge!Current = n + 1
  BY <1>1, <1>4 DEF Bridge!Current, Bridge!Cardinality, Cardinality
<1>. QED
  BY <1>1, <1>5

\* Start-up either goes on or gives everything back.
LEMMA BridgeStartUp ==
    ASSUME BridgeInv, Bridge!StartUp
    PROVE  BridgeInv'
<1>. USE DEF Bridge!Source, Bridge!streamVars, Bridge!Throw
<1>1. Bridge!TypeOK /\ Bridge!AllOrNothing /\ StartInv /\ Sources \in Nat \ {0}
  BY PipelineAssumption DEF BridgeInv
<1>2. total_' = total_ /\ last_log_' = last_log_ /\ handed' = handed /\ handed = {}
  BY <1>1 DEF Bridge!StartUp, Bridge!natsOptions_Create,
     Bridge!natsConnection_Connect, Bridge!StartSource, StartInv
<1>3. CASE bridge_pc' = "exited" /\ exit_code' = 1 /\ consuming' = {}
  BY <1>1, <1>2, <1>3 DEF BridgeInv, Bridge!TypeOK, Bridge!AllOrNothing, StartInv
<1>4. CASE Bridge!natsOptions_Create /\ bridge_pc' # "exited"
  <2>1. bridge_pc' = "connect" /\ exit_code' = exit_code /\ consuming' = {}
    BY <1>1, <1>4 DEF Bridge!natsOptions_Create, StartInv
  <2>. QED
    BY <1>1, <1>2, <1>4, <2>1 DEF BridgeInv, Bridge!TypeOK, Bridge!AllOrNothing,
       StartInv, Bridge!natsOptions_Create
<1>5. CASE Bridge!natsConnection_Connect /\ bridge_pc' # "exited"
  <2>1. bridge_pc' = "create" /\ exit_code' = exit_code /\ consuming' = {}
    BY <1>1, <1>5 DEF Bridge!natsConnection_Connect, StartInv
  <2>2. 0 \in 0..(Sources - 1) /\ 1..0 = {}
    BY <1>1
  <2>. QED
    BY <1>1, <1>2, <1>5, <2>1, <2>2 DEF BridgeInv, Bridge!TypeOK,
       Bridge!AllOrNothing, StartInv, Bridge!natsConnection_Connect
<1>6. CASE Bridge!StartSource /\ bridge_pc' # "exited"
  <2>1. PICK n \in 0..(Sources - 1) : consuming = 1..n /\ Bridge!Current = n + 1
    BY <1>6, CurrentSource DEF Bridge!StartSource
  <2>2. n \in Nat /\ n + 1 \in 1..Sources /\ n < Sources
    BY <1>1, <2>1
  <2>3. /\ consuming' = consuming \cup {n + 1} /\ exit_code' = exit_code
        /\ bridge_pc' = IF n + 1 = Sources THEN "run" ELSE "create"
        /\ bridge_pc = "create"
    BY <1>6, <2>1 DEF Bridge!StartSource
  <2>4. consuming' = 1..(n + 1)
    BY <2>1, <2>2, <2>3
  <2>5. n + 1 # Sources => n + 1 \in 0..(Sources - 1)
    BY <1>1, <2>2
  <2>6. consuming' \subseteq 1..Sources
    BY <1>1, <2>2, <2>4
  <2>7. StartInv'
    BY <1>2, <2>3, <2>4, <2>5 DEF StartInv
  <2>8. Bridge!TypeOK'
    BY <1>1, <1>2, <2>3, <2>6 DEF Bridge!TypeOK
  <2>9. Bridge!AllOrNothing'
    BY <1>1, <1>2, <2>3, <2>4 DEF Bridge!AllOrNothing
  <2>. QED
    BY <2>7, <2>8, <2>9 DEF BridgeInv
<1>. QED
  BY <1>3, <1>4, <1>5, <1>6 DEF Bridge!StartUp, Bridge!natsOptions_Create,
     Bridge!natsConnection_Connect, Bridge!StartSource

\* The next line of throughput is never overdue.
LEMMA BridgeHandle ==
    ASSUME BridgeInv, NEW k \in Bridge!Source, NEW n \in ChunkSizes,
           Bridge!handle_stream(k, n)
    PROVE  BridgeInv'
<1>. USE DEF Bridge!Source
<1>1. /\ Bridge!TypeOK /\ Bridge!AllOrNothing /\ StartInv
      /\ n \in Nat /\ MaxBytes \in Nat /\ ThroughputEvery \in Nat \ {0}
  BY PipelineAssumption DEF BridgeInv
<1>2. /\ total_[k] \in 0..MaxBytes /\ last_log_[k] \in 0..MaxBytes
      /\ total_[k] + n <= MaxBytes
  BY <1>1 DEF Bridge!TypeOK, Bridge!handle_stream
<1>. DEFINE t == total_[k] + n
            l == IF Bridge!LineDue(t - last_log_[k]) THEN t ELSE last_log_[k]
<1>3. total_' = [total_ EXCEPT ![k] = t] /\ last_log_' = [last_log_ EXCEPT ![k] = l]
  BY DEF Bridge!handle_stream
<1>4. t \in 0..MaxBytes /\ l \in 0..MaxBytes
  BY <1>1, <1>2
<1>5. t - l \in 0..(ThroughputEvery - 1)
  <2>1. total_[k] - last_log_[k] \in 0..(ThroughputEvery - 1)
    BY <1>1 DEF Bridge!TypeOK
  <2>2. CASE t - last_log_[k] >= ThroughputEvery
    BY <1>1, <1>2, <2>2 DEF Bridge!LineDue
  <2>3. CASE ~(t - last_log_[k] >= ThroughputEvery)
    BY <1>1, <1>2, <2>1, <2>3 DEF Bridge!LineDue
  <2>. QED
    BY <2>2, <2>3
<1>. HIDE DEF t, l
<1>6. total_' \in [1..Sources -> 0..MaxBytes] /\ last_log_' \in [1..Sources -> 0..MaxBytes]
  BY <1>1, <1>3, <1>4 DEF Bridge!TypeOK
<1>7. \A j \in 1..Sources : total_'[j] - last_log_'[j] \in 0..(ThroughputEvery - 1)
  BY <1>1, <1>3, <1>5 DEF Bridge!TypeOK
<1>8. bridge_pc' = bridge_pc /\ bridge_pc = "run" /\ consuming' = consuming
      /\ exit_code' = exit_code
  BY DEF Bridge!handle_stream
<1>9. Bridge!TypeOK'
  BY <1>1, <1>6, <1>7, <1>8 DEF Bridge!TypeOK
<1>10. StartInv' /\ Bridge!AllOrNothing'
  BY <1>1, <1>8 DEF StartInv, Bridge!AllOrNothing
<1>. QED
  BY <1>9, <1>10 DEF BridgeInv

\* Every step of the bridge, and every step of something else.
LEMMA BridgeStep ==
    ASSUME BridgeInv, Bridge!Next \/ UNCHANGED bridgeVars
    PROVE  BridgeInv'
<1>1. CASE UNCHANGED bridgeVars
  BY <1>1 DEF bridgeVars, BridgeInv, Bridge!TypeOK, Bridge!AllOrNothing, StartInv,
     Bridge!Source
<1>. QED
  BY <1>1, BridgeStartUp, BridgeHandle DEF Bridge!Next

------------------------------------------------------------------------------
(* The decoder. *)

\* A failure path destroys what there is, in order, and nothing else.
FailInv ==
    /\ wrong = {}
    /\ pc = "fail" => \/ todo = <<>> /\ live = {}
                      \/ todo = <<"opts">> /\ live = {"opts"}
                      \/ todo = <<"nc", "opts">> /\ live = {"opts", "nc"}

\* What main holds at each of its places.
HeldInv ==
    /\ pc = "options" => live = {}
    /\ pc \in {"servers", "connect"} => live = {"opts"}
    /\ pc = "subscribe" => live = {"opts", "nc"}
    /\ pc \in {"poll", "report_ok", "report_bad", "drop_sub"} =>
          live = {"opts", "nc", "sub"}
    /\ pc = "drop_nc" => live = {"opts", "nc"}
    /\ pc = "drop_opts" => live = {"opts"}
    /\ pc \in {"close", "exited"} => live = {}
    /\ lib = "closed" => pc = "exited" /\ returned = 0
    /\ pc \notin {"fail", "exited"} => returned = 0
    /\ FailInv

\* What was seen and reported lags behind what was counted.
CountInv ==
    /\ frames_ok \in Nat /\ frames_bad_crc \in Nat
    /\ seen \in [ok : Nat, bad : Nat] /\ report \in [ok : Nat, bad : Nat]
    /\ pc \in {"report_ok", "report_bad"} =>
          seen.ok <= frames_ok /\ seen.bad <= frames_bad_crc
    /\ pc = "report_bad" => seen.ok <= report.ok /\ report.ok <= frames_ok

DecoderInv == /\ Decoder!TypeOK /\ Decoder!CleanExit /\ Decoder!ReportWithinBounds
              /\ HeldInv /\ CountInv

\* The initial state of the decoder.
LEMMA DecoderInit == Decoder!Init => DecoderInv
<1>. SUFFICES ASSUME Decoder!Init PROVE DecoderInv
  OBVIOUS
<1>. USE DEF Decoder!Init
<1>1. Decoder!TypeOK
  BY PipelineAssumption DEF Decoder!TypeOK
<1>2. Decoder!CleanExit /\ Decoder!ReportWithinBounds /\ HeldInv
  BY DEF Decoder!CleanExit, Decoder!ReportWithinBounds, HeldInv, FailInv
<1>3. CountInv
  BY DEF CountInv
<1>. QED
  BY <1>1, <1>2, <1>3 DEF DecoderInv

\* A call destroys what exists, and only that.
LEMMA DestroyHeld ==
    ASSUME DecoderInv, NEW what \in {"opts", "nc", "sub"}, what \in live,
           Decoder!Destroy(what)
    PROVE  live' = live \ {what} /\ wrong' = {}
<1>1. wrong = {} /\ {what} \ live = {}
  BY DEF DecoderInv, HeldInv, FailInv
<1>. QED
  BY <1>1 DEF Decoder!Destroy

\* The next call of a failure path.
LEMMA FailDestroyHeld ==
    ASSUME DecoderInv, Decoder!FailDestroy
    PROVE  /\ wrong' = {} /\ pc = "fail" /\ pc' = "fail"
           /\ \/ todo' = <<>> /\ live' = {}
              \/ todo' = <<"opts">> /\ live' = {"opts"}
           /\ UNCHANGED <<returned, lib, seen, report, callback, frames_ok,
                          frames_bad_crc>>
<1>. USE DEF Decoder!FailDestroy, Decoder!pushVars
<1>1. CASE todo = <<"opts">> /\ live = {"opts"}
  <2>1. Head(todo) = "opts" /\ Tail(todo) = <<>>
    BY <1>1
  <2>2. Decoder!Destroy("opts")
    BY <2>1
  <2>3. live' = live \ {"opts"} /\ wrong' = {}
    BY <1>1, <2>2, DestroyHeld
  <2>. QED
    BY <1>1, <2>1, <2>3
<1>2. CASE todo = <<"nc", "opts">> /\ live = {"opts", "nc"}
  <2>1. Head(todo) = "nc" /\ Tail(todo) = <<"opts">>
    BY <1>2
  <2>2. Decoder!Destroy("nc")
    BY <2>1
  <2>3. live' = live \ {"nc"} /\ wrong' = {}
    BY <1>2, <2>2, DestroyHeld
  <2>. QED
    BY <1>2, <2>1, <2>3
<1>. QED
  BY <1>1, <1>2 DEF DecoderInv, HeldInv, FailInv

\* The calls at the end of main.
LEMMA GiveBackHeld ==
    ASSUME DecoderInv,
           \/ Decoder!natsSubscription_Destroy \/ Decoder!natsConnection_Destroy
           \/ Decoder!natsOptions_Destroy
    PROVE  /\ wrong' = {}
           /\ \/ pc' = "drop_nc" /\ live' = {"opts", "nc"}
              \/ pc' = "drop_opts" /\ live' = {"opts"}
              \/ pc' = "close" /\ live' = {}
           /\ lib # "closed" /\ returned = 0
           /\ UNCHANGED <<todo, returned, lib, seen, report, callback, frames_ok,
                          frames_bad_crc>>
<1>. USE DEF Decoder!pushVars
<1>1. CASE Decoder!natsSubscription_Destroy
  <2>1. live = {"opts", "nc", "sub"}
    BY <1>1 DEF DecoderInv, HeldInv, Decoder!natsSubscription_Destroy
  <2>2. live' = live \ {"sub"} /\ wrong' = {}
    BY <1>1, <2>1, DestroyHeld DEF Decoder!natsSubscription_Destroy
  <2>. QED
    BY <1>1, <2>1, <2>2 DEF Decoder!natsSubscription_Destroy, DecoderInv, HeldInv
<1>2. CASE Decoder!natsConnection_Destroy
  <2>1. live = {"opts", "nc"}
    BY <1>2 DEF DecoderInv, HeldInv, Decoder!natsConnection_Destroy
  <2>2. live' = live \ {"nc"} /\ wrong' = {}
    BY <1>2, <2>1, DestroyHeld DEF Decoder!natsConnection_Destroy
  <2>. QED
    BY <1>2, <2>1, <2>2 DEF Decoder!natsConnection_Destroy, DecoderInv, HeldInv
<1>3. CASE Decoder!natsOptions_Destroy
  <2>1. live = {"opts"}
    BY <1>3 DEF DecoderInv, HeldInv, Decoder!natsOptions_Destroy
  <2>2. live' = live \ {"opts"} /\ wrong' = {}
    BY <1>3, <2>1, DestroyHeld DEF Decoder!natsOptions_Destroy
  <2>. QED
    BY <1>3, <2>1, <2>2 DEF Decoder!natsOptions_Destroy, DecoderInv, HeldInv
<1>. QED
  BY <1>1, <1>2, <1>3

\* main acquires and gives back.
LEMMA HeldStep ==
    ASSUME DecoderInv, Decoder!Main
    PROVE  HeldInv' /\ Decoder!CleanExit' /\ Decoder!TypeOK'
<1>. USE DEF Decoder!Acquire, Decoder!Fail, Decoder!pushVars
<1>0. HeldInv /\ Decoder!TypeOK
  BY DEF DecoderInv
<1>1. HeldInv' /\ Decoder!TypeOK'
  <2>1. CASE Decoder!natsOptions_Create \/ Decoder!SetServers
    BY <1>0, <2>1 DEF HeldInv, FailInv, Decoder!TypeOK, Decoder!natsOptions_Create,
       Decoder!SetServers
  <2>2. CASE Decoder!natsConnection_Connect
    BY <1>0, <2>2 DEF HeldInv, FailInv, Decoder!TypeOK,
       Decoder!natsConnection_Connect, Decoder!ConnectFailed
  <2>3. CASE Decoder!natsConnection_Subscribe
    BY <1>0, <2>3 DEF HeldInv, FailInv, Decoder!TypeOK,
       Decoder!natsConnection_Subscribe, Decoder!SubscribeFailed
  <2>4. CASE Decoder!Poll \/ Decoder!ReportOk \/ Decoder!ReportBad
    BY <1>0, <2>4 DEF HeldInv, FailInv, Decoder!TypeOK, Decoder!Poll,
       Decoder!ReportOk, Decoder!ReportBad
  <2>5. CASE Decoder!FailDestroy
    <3>1. /\ wrong' = {} /\ pc = "fail" /\ pc' = "fail"
          /\ \/ todo' = <<>> /\ live' = {}
             \/ todo' = <<"opts">> /\ live' = {"opts"}
          /\ UNCHANGED <<returned, lib, seen, report, callback, frames_ok,
                         frames_bad_crc>>
      BY <2>5, FailDestroyHeld
    <3>. QED
      BY <1>0, <3>1 DEF HeldInv, FailInv, Decoder!TypeOK
  <2>6. CASE Decoder!FailReturn
    BY <1>0, <2>6 DEF HeldInv, FailInv, Decoder!TypeOK, Decoder!FailReturn
  <2>7. CASE \/ Decoder!natsSubscription_Destroy \/ Decoder!natsConnection_Destroy
             \/ Decoder!natsOptions_Destroy
    <3>1. /\ wrong' = {}
          /\ \/ pc' = "drop_nc" /\ live' = {"opts", "nc"}
             \/ pc' = "drop_opts" /\ live' = {"opts"}
             \/ pc' = "close" /\ live' = {}
          /\ lib # "closed" /\ returned = 0
          /\ UNCHANGED <<todo, returned, lib, callback, frames_ok, frames_bad_crc>>
      BY <2>7, GiveBackHeld
    <3>. QED
      BY <1>0, <3>1 DEF HeldInv, FailInv, Decoder!TypeOK
  <2>8. CASE Decoder!nats_Close
    BY <1>0, <2>8 DEF HeldInv, FailInv, Decoder!TypeOK, Decoder!nats_Close
  <2>. QED
    BY <2>1, <2>2, <2>3, <2>4, <2>5, <2>6, <2>7, <2>8 DEF Decoder!Main
<1>2. Decoder!CleanExit'
  BY <1>1 DEF HeldInv, FailInv, Decoder!TypeOK, Decoder!CleanExit
<1>. QED
  BY <1>1, <1>2

\* main reads the counters one after the other.
LEMMA ReportStep ==
    ASSUME DecoderInv, Decoder!Main
    PROVE  CountInv' /\ Decoder!ReportWithinBounds'
<1>. USE DEF DecoderInv, Decoder!Acquire, Decoder!Fail, Decoder!pushVars
<1>1. CASE \/ Decoder!natsOptions_Create \/ Decoder!SetServers
           \/ Decoder!natsConnection_Connect
  BY <1>1 DEF CountInv, HeldInv, Decoder!ReportWithinBounds,
     Decoder!natsOptions_Create, Decoder!SetServers,
     Decoder!natsConnection_Connect, Decoder!ConnectFailed
<1>2. CASE Decoder!natsConnection_Subscribe
  BY <1>2 DEF CountInv, HeldInv, Decoder!ReportWithinBounds,
     Decoder!natsConnection_Subscribe, Decoder!SubscribeFailed
<1>3. CASE Decoder!Poll
  <2>1. seen' = [ok |-> frames_ok, bad |-> frames_bad_crc] /\ report' = report
        /\ frames_ok' = frames_ok /\ frames_bad_crc' = frames_bad_crc
        /\ pc' = "report_ok" /\ lib' = lib /\ lib # "closed"
    BY <1>3 DEF Decoder!Poll, HeldInv
  <2>. QED
    BY <2>1 DEF CountInv, Decoder!ReportWithinBounds
<1>4. CASE Decoder!ReportOk
  <2>1. report' = [report EXCEPT !.ok = frames_ok] /\ seen' = seen
        /\ frames_ok' = frames_ok /\ frames_bad_crc' = frames_bad_crc
        /\ pc = "report_ok" /\ pc' = "report_bad" /\ lib' = lib /\ lib # "closed"
    BY <1>4 DEF Decoder!ReportOk, HeldInv
  <2>2. report' \in [ok : Nat, bad : Nat] /\ report'.ok = frames_ok
    BY <2>1 DEF CountInv
  <2>. QED
    BY <2>1, <2>2 DEF CountInv, Decoder!ReportWithinBounds
<1>5. CASE Decoder!ReportBad
  <2>1. report' = [report EXCEPT !.bad = frames_bad_crc] /\ seen' = seen
        /\ frames_ok' = frames_ok /\ frames_bad_crc' = frames_bad_crc
        /\ pc = "report_bad" /\ pc' = "drop_sub"
    BY <1>5 DEF Decoder!ReportBad
  <2>2. report' \in [ok : Nat, bad : Nat] /\ report'.ok = report.ok
        /\ report'.bad = frames_bad_crc
    BY <2>1 DEF CountInv
  <2>. QED
    BY <2>1, <2>2 DEF CountInv, Decoder!ReportWithinBounds
<1>6. CASE \/ Decoder!natsSubscription_Destroy \/ Decoder!natsConnection_Destroy
           \/ Decoder!natsOptions_Destroy \/ Decoder!nats_Close
  BY <1>6 DEF CountInv, HeldInv, Decoder!ReportWithinBounds,
     Decoder!natsSubscription_Destroy, Decoder!natsConnection_Destroy,
     Decoder!natsOptions_Destroy, Decoder!nats_Close
<1>7. CASE Decoder!FailDestroy \/ Decoder!FailReturn
  BY <1>7 DEF CountInv, HeldInv, Decoder!ReportWithinBounds, Decoder!FailDestroy,
     Decoder!FailReturn
<1>. QED
  BY <1>1, <1>2, <1>3, <1>4, <1>5, <1>6, <1>7 DEF Decoder!Main

\* The delivery thread counts, and the signal.
LEMMA DeliverStep ==
    ASSUME DecoderInv, Decoder!on_signal \/ Decoder!Deliver
    PROVE  DecoderInv'
<1>. USE DEF Decoder!mainVars, Decoder!pushVars, Decoder!Push
<1>1. Decoder!TypeOK /\ CountInv /\ MaxFrames \in Nat
  BY PipelineAssumption DEF DecoderInv
<1>2. UNCHANGED <<pc, live, todo, wrong, lib, returned, seen, report>>
  BY DEF Decoder!on_signal, Decoder!Deliver, Decoder!on_nats_msg, Decoder!Frame,
     Decoder!Return
<1>3. /\ frames_ok' \in Nat /\ frames_ok <= frames_ok'
      /\ frames_bad_crc' \in Nat /\ frames_bad_crc <= frames_bad_crc'
      /\ frames_ok' + frames_bad_crc' <= MaxFrames
      /\ callback' \in {"idle", "push"}
  BY <1>1 DEF CountInv, Decoder!TypeOK, Decoder!on_signal, Decoder!Deliver,
     Decoder!on_nats_msg, Decoder!Frame, Decoder!Return
<1>4. Decoder!TypeOK'
  BY <1>1, <1>2, <1>3 DEF Decoder!TypeOK
<1>5. HeldInv' /\ Decoder!CleanExit'
  BY <1>2 DEF DecoderInv, HeldInv, FailInv, Decoder!CleanExit
<1>6. CountInv' /\ Decoder!ReportWithinBounds'
  <2>1. /\ seen.ok \in Nat /\ seen.bad \in Nat /\ report.ok \in Nat /\ report.bad \in Nat
        /\ frames_ok \in Nat /\ frames_bad_crc \in Nat
    BY <1>1 DEF CountInv
  <2>2. CountInv'
    BY <1>1, <1>2, <1>3, <2>1 DEF CountInv
  <2>3. Decoder!ReportWithinBounds'
    BY <1>2, <1>3, <2>1 DEF DecoderInv, Decoder!ReportWithinBounds
  <2>. QED
    BY <2>2, <2>3
<1>. QED
  BY <1>4, <1>5, <1>6 DEF DecoderInv

\* Every step of the decoder, and every step of something else.
LEMMA DecoderStep ==
    ASSUME DecoderInv, Decoder!Next \/ UNCHANGED decoderVars
    PROVE  DecoderInv'
<1>1. CASE UNCHANGED decoderVars
  BY <1>1 DEF decoderVars, DecoderInv, Decoder!TypeOK, Decoder!CleanExit,
     Decoder!ReportWithinBounds, HeldInv, FailInv, CountInv
<1>2. CASE Decoder!Main
  BY <1>2, HeldStep, ReportStep DEF DecoderInv
<1>. QED
  BY <1>1, <1>2, DeliverStep DEF Decoder!Next

------------------------------------------------------------------------------
(* The chunks of the watched source in a sequence.  Own is a recursive       *)
(* function; what it does to one more message follows by induction, from the *)
(* least natural number at which it would not hold.                          *)

\* Every non-empty set of naturals has a least element.
LEMMA Least ==
    ASSUME NEW T, T \subseteq Nat, T # {}
    PROVE  \E x \in T : \A y \in T : x <= y
<1>. DEFINE R == OpToRel(<, Nat)
<1>1. IsWellFoundedOn(R, Nat)
  BY NatLessThanWellFounded
<1>2. \A x, y \in Nat : <<y, x>> \in R <=> y < x
  BY DEF OpToRel
<1>. HIDE DEF R
<1>3. PICK x \in T : \A y \in T : ~(<<y, x>> \in R)
  BY <1>1, WFMin
<1>4. ASSUME NEW y \in T PROVE x <= y
  <2>1. x \in Nat /\ y \in Nat
    OBVIOUS
  <2>2. ~(y < x)
    BY <1>2, <1>3, <2>1
  <2>. QED
    BY <2>1, <2>2
<1>. QED
  BY <1>4

\* f follows the definition of Own on the first n messages of q.
Follows(q, n, f) ==
    f = [m \in 0..n |-> IF m = 0 THEN <<>>
                        ELSE IF q[m].src = Watched THEN Append(f[m - 1], Payload(q[m]))
                        ELSE f[m - 1]]

\* Some function does, for any number of messages.
LEMMA FollowerExists ==
    ASSUME NEW q, NEW n \in Nat
    PROVE  \E f : Follows(q, n, f)
<1>. DEFINE Bad == {k \in Nat : ~\E f : Follows(q, k, f)}
<1>1. SUFFICES ASSUME Bad # {} PROVE FALSE
  OBVIOUS
<1>2. PICK k \in Bad : \A y \in Bad : k <= y
  BY <1>1, Least
<1>3. k # 0
  <2>1. Follows(q, 0, [m \in 0..0 |-> <<>>])
    BY DEF Follows
  <2>. QED
    BY <2>1
<1>4. k \in Nat /\ k - 1 \in Nat /\ k - 1 \notin Bad
  BY <1>2, <1>3
<1>5. PICK f : Follows(q, k - 1, f)
  BY <1>4
<1>. DEFINE Step(h) == [m \in 0..k |->
                          IF m = 0 THEN <<>>
                          ELSE IF q[m].src = Watched THEN Append(h[m - 1], Payload(q[m]))
                          ELSE h[m - 1]]
            g == Step(f)
<1>6. ASSUME NEW m \in 0..(k - 1) PROVE g[m] = f[m]
  <2>1. m \in 0..k
    BY <1>4
  <2>2. f[m] = IF m = 0 THEN <<>>
               ELSE IF q[m].src = Watched THEN Append(f[m - 1], Payload(q[m]))
               ELSE f[m - 1]
    BY <1>5, Zenon DEF Follows
  <2>. QED
    BY <2>1, <2>2, Zenon
<1>7. ASSUME NEW m \in 0..k, m # 0 PROVE g[m - 1] = f[m - 1]
  <2>1. m - 1 \in 0..(k - 1)
    BY <1>4, <1>7
  <2>. QED
    BY <1>6, <2>1, Zenon
<1>8. \A m \in 0..k : g[m] = Step(g)[m]
  BY <1>7
<1>9. Follows(q, k, g)
  BY <1>8 DEF Follows
<1>. QED
  BY <1>9

\* Own is the value of such a function.
LEMMA OwnFollows ==
    ASSUME NEW q, Len(q) \in Nat
    PROVE  \E f : Follows(q, Len(q), f) /\ Own(q) = f[Len(q)]
<1>. DEFINE f == CHOOSE f : Follows(q, Len(q), f)
<1>1. Follows(q, Len(q), f)
  BY FollowerExists
<1>2. Own(q) = f[Len(q)]
  BY DEF Own, Follows
<1>. QED
  BY <1>1, <1>2

\* Two of them agree as far as their sequences do.
LEMMA FollowersAgree ==
    ASSUME NEW q, NEW r, NEW n \in Nat, NEW m \in Nat, n <= m,
           \A k \in 1..n : q[k] = r[k],
           NEW f, Follows(q, n, f), NEW g, Follows(r, m, g)
    PROVE  f[n] = g[n]
<1>. DEFINE Bad == {k \in 0..n : f[k] # g[k]}
<1>1. SUFFICES ASSUME Bad # {} PROVE FALSE
  <2>1. n \in 0..n
    OBVIOUS
  <2>. QED
    BY <2>1
<1>2. PICK k \in Bad : \A y \in Bad : k <= y
  <2>1. Bad \subseteq Nat
    OBVIOUS
  <2>. QED
    BY <1>1, <2>1, Least
<1>3. k \in 0..n /\ k \in 0..m /\ k \in Nat
  OBVIOUS
<1>4. /\ f[k] = IF k = 0 THEN <<>>
                ELSE IF q[k].src = Watched THEN Append(f[k - 1], Payload(q[k]))
                ELSE f[k - 1]
      /\ g[k] = IF k = 0 THEN <<>>
                ELSE IF r[k].src = Watched THEN Append(g[k - 1], Payload(r[k]))
                ELSE g[k - 1]
  BY <1>3, Zenon DEF Follows
<1>5. CASE k = 0
  BY <1>2, <1>4, <1>5
<1>6. CASE k # 0
  <2>1. k - 1 \in 0..n /\ k - 1 \notin Bad /\ k \in 1..n
    BY <1>2, <1>3, <1>6
  <2>2. f[k - 1] = g[k - 1] /\ q[k] = r[k]
    BY <2>1
  <2>. QED
    BY <1>2, <1>4, <1>6, <2>2, Zenon
<1>. QED
  BY <1>5, <1>6

\* No message, no chunk.
LEMMA OwnOfNone == Own(<<>>) = <<>>
<1>1. Len(<<>>) = 0
  OBVIOUS
<1>2. PICK f : Follows(<<>>, 0, f) /\ Own(<<>>) = f[0]
  BY <1>1, OwnFollows
<1>3. 0 \in 0..0
  OBVIOUS
<1>4. f[0] = <<>>
  BY <1>2, <1>3, Zenon DEF Follows
<1>. QED
  BY <1>2, <1>4

\* One more message adds its chunk, if it is the watched source's.
LEMMA OwnOfAppend ==
    ASSUME NEW S, NEW q \in Seq(S), NEW c \in S
    PROVE  Own(Append(q, c)) = IF c.src = Watched THEN Append(Own(q), Payload(c))
                                                  ELSE Own(q)
<1>. DEFINE r == Append(q, c)
            n == Len(q)
<1>1. /\ n \in Nat /\ Len(r) = n + 1 /\ n + 1 \in Nat
      /\ \A k \in 1..n : q[k] = r[k]
      /\ r[n + 1] = c
  BY AppendProperties, LenProperties
<1>. HIDE DEF r, n
<1>2. PICK f : Follows(q, n, f) /\ Own(q) = f[n]
  BY <1>1, OwnFollows DEF n
<1>3. PICK g : Follows(r, n + 1, g) /\ Own(r) = g[n + 1]
  BY <1>1, OwnFollows
<1>4. f[n] = g[n]
  <2>1. n <= n + 1
    BY <1>1
  <2>. QED
    BY <1>1, <1>2, <1>3, <2>1, FollowersAgree
<1>5. n + 1 \in 0..(n + 1) /\ n + 1 # 0 /\ (n + 1) - 1 = n
  BY <1>1
<1>6. g[n + 1] = IF r[n + 1].src = Watched
                 THEN Append(g[(n + 1) - 1], Payload(r[n + 1]))
                 ELSE g[(n + 1) - 1]
  BY <1>3, <1>5, Zenon DEF Follows
<1>7. g[n + 1] = IF c.src = Watched THEN Append(f[n], Payload(c)) ELSE f[n]
  BY <1>1, <1>4, <1>5, <1>6, Zenon
<1>. QED
  BY <1>2, <1>3, <1>7, Zenon DEF r

------------------------------------------------------------------------------
(* The way of the chunks. *)

\* A chunk is a piece of what its source has handed over.
Chunk == [src : 1..Sources, off : Nat, size : ChunkSizes]

ChunkInv == /\ handed \subseteq Chunk
            /\ \A c \in handed : c.off + c.size <= total_[c.src]

\* Two chunks of the watched source, the first before the second.
Before(c, d) == c.src = Watched /\ d.src = Watched => c.off + c.size <= d.off

\* What is on its way is in order, and the decoder's queue is before it.
WayInv ==
    /\ transit \in Seq(handed) /\ inbox \in Seq(handed) /\ fed \in Seq(handed)
    /\ \A m, n \in 1..Len(transit) : m < n => Before(transit[m], transit[n])
    /\ \A m, n \in 1..Len(inbox) : m < n => Before(inbox[m], inbox[n])
    /\ \A m \in 1..Len(inbox), n \in 1..Len(transit) : Before(inbox[m], transit[n])

\* What arrived is before all of that.
ArrivedInv ==
    /\ Own(fed) \in Seq([off : Nat, size : ChunkSizes])
    /\ \A m \in 1..Len(Own(fed)) :
          /\ Own(fed)[m].off + Own(fed)[m].size <= total_[Watched]
          /\ \A n \in 1..Len(inbox) : inbox[n].src = Watched =>
                Own(fed)[m].off + Own(fed)[m].size <= inbox[n].off
          /\ \A n \in 1..Len(transit) : transit[n].src = Watched =>
                Own(fed)[m].off + Own(fed)[m].size <= transit[n].off

OrderInv == ChunkInv /\ WayInv /\ ArrivedInv

\* The initial state of the way.
LEMMA OrderInit == Init => OrderInv
<1>. SUFFICES ASSUME Init PROVE OrderInv
  OBVIOUS
<1>1. handed = {} /\ transit = <<>> /\ inbox = <<>> /\ fed = <<>> /\ Own(fed) = <<>>
  BY OwnOfNone DEF Init, Bridge!Init, Decoder!Init
<1>2. Len(<<>>) = 0 /\ \A S : <<>> \in Seq(S)
  OBVIOUS
<1>3. ChunkInv
  BY <1>1 DEF ChunkInv
<1>4. WayInv
  BY <1>1, <1>2 DEF WayInv
<1>5. 1..0 = {}
  OBVIOUS
<1>6. Own(fed) = <<>> /\ Len(Own(fed)) = 0
  BY <1>1, <1>2, Zenon
<1>7. Own(fed) \in Seq([off : Nat, size : ChunkSizes])
  BY <1>6, <1>2, Zenon
<1>8. ArrivedInv
  BY <1>5, <1>6, <1>7, Zenon DEF ArrivedInv
<1>. QED
  BY <1>3, <1>4, <1>8 DEF OrderInv

\* A queue without its front.
LEMMA TailFacts ==
    ASSUME NEW S, NEW q \in Seq(S), q # <<>>
    PROVE  /\ Head(q) = q[1] /\ Head(q) \in S /\ 1 \in 1..Len(q)
           /\ Tail(q) \in Seq(S) /\ Len(q) \in Nat
           /\ \A n \in 1..Len(Tail(q)) :
                 n + 1 \in 1..Len(q) /\ Tail(q)[n] = q[n + 1] /\ 1 < n + 1
<1>1. /\ Tail(q) \in Seq(S) /\ Len(q) \in Nat /\ Len(q) # 0
      /\ Len(Tail(q)) = Len(q) - 1
      /\ \A n \in 1..Len(Tail(q)) : Tail(q)[n] = q[n + 1]
  BY HeadTailProperties, EmptySeq, LenProperties
<1>2. 1 \in 1..Len(q) /\ \A n \in 1..Len(Tail(q)) : n + 1 \in 1..Len(q) /\ 1 < n + 1
  BY <1>1
<1>3. Head(q) = q[1] /\ Head(q) \in S
  BY HeadTailProperties
<1>. QED
  BY <1>1, <1>2, <1>3

\* What a chunk of the watched source looks like.
LEMMA ChunkFacts ==
    ASSUME BridgeInv, OrderInv, NEW c \in handed
    PROVE  /\ c.off \in Nat /\ c.size \in ChunkSizes /\ c.size \in Nat \ {0}
           /\ c.off + c.size <= total_[c.src] /\ total_[c.src] \in Nat
           /\ Payload(c) \in [off : Nat, size : ChunkSizes]
<1>1. c \in Chunk /\ c.off + c.size <= total_[c.src]
  BY DEF OrderInv, ChunkInv
<1>2. c.src \in 1..Sources /\ c.off \in Nat /\ c.size \in ChunkSizes
  BY <1>1 DEF Chunk
<1>3. c.size \in Nat \ {0}
  BY <1>2, PipelineAssumption
<1>4. total_[c.src] \in Nat
  <2>1. total_ \in [1..Sources -> 0..MaxBytes] /\ 0..MaxBytes \subseteq Nat
    BY PipelineAssumption DEF BridgeInv, Bridge!TypeOK, Bridge!Source
  <2>. QED
    BY <1>2, <2>1
<1>. QED
  BY <1>1, <1>2, <1>3, <1>4 DEF Payload

\* NATS hands one message on, or loses it.
LEMMA RouteKeepsOrder ==
    ASSUME BridgeInv, OrderInv, Route
    PROVE  OrderInv'
<1>1. ChunkInv /\ WayInv /\ ArrivedInv
  BY DEF OrderInv
<1>2. /\ transit # <<>> /\ transit' = Tail(transit) /\ fed' = fed
      /\ handed' = handed /\ total_' = total_
      /\ inbox' = Append(inbox, Head(transit)) \/ inbox' = inbox
  BY DEF Route, bridgeVars, decoderVars
<1>. DEFINE h == Head(transit)
<1>3. /\ transit \in Seq(handed) /\ inbox \in Seq(handed) /\ fed \in Seq(handed)
      /\ Own(fed) \in Seq([off : Nat, size : ChunkSizes])
  BY <1>1 DEF WayInv, ArrivedInv
<1>4. /\ h = transit[1] /\ h \in handed /\ 1 \in 1..Len(transit)
      /\ transit' \in Seq(handed)
      /\ \A n \in 1..Len(transit') :
            n + 1 \in 1..Len(transit) /\ transit'[n] = transit[n + 1] /\ 1 < n + 1
  BY <1>2, <1>3, TailFacts
<1>. HIDE DEF h
<1>5. /\ inbox' \in Seq(handed)
      /\ \A n \in 1..Len(inbox') :
            \/ n \in 1..Len(inbox) /\ inbox'[n] = inbox[n]
            \/ n = Len(inbox) + 1 /\ inbox'[n] = h
  <2>1. CASE inbox' = inbox
    BY <2>1, <1>3
  <2>2. CASE inbox' = Append(inbox, h)
    BY <2>2, <1>3, <1>4, AppendProperties, LenProperties
  <2>. QED
    BY <1>2, <2>1, <2>2 DEF h
<1>6. ChunkInv'
  BY <1>1, <1>2 DEF ChunkInv
<1>7. WayInv'
  <2>1. \A m, n \in 1..Len(transit') : m < n => Before(transit'[m], transit'[n])
    <3>. SUFFICES ASSUME NEW m \in 1..Len(transit'), NEW n \in 1..Len(transit'), m < n
                  PROVE  Before(transit'[m], transit'[n])
      OBVIOUS
    <3>1. m + 1 < n + 1
      OBVIOUS
    <3>. QED
      BY <1>1, <1>4, <3>1 DEF WayInv
  <2>2. \A m, n \in 1..Len(inbox') : m < n => Before(inbox'[m], inbox'[n])
    <3>. SUFFICES ASSUME NEW m \in 1..Len(inbox'), NEW n \in 1..Len(inbox'), m < n
                  PROVE  Before(inbox'[m], inbox'[n])
      OBVIOUS
    <3>1. m \in 1..Len(inbox) /\ inbox'[m] = inbox[m]
      <4>1. Len(inbox') \in Nat /\ Len(inbox) \in Nat
        BY <1>3, <1>5, LenProperties
      <4>. QED
        BY <1>5, <4>1
    <3>. QED
      BY <1>1, <1>4, <1>5, <3>1 DEF WayInv
  <2>3. \A m \in 1..Len(inbox'), n \in 1..Len(transit') : Before(inbox'[m], transit'[n])
    BY <1>1, <1>4, <1>5 DEF WayInv
  <2>. QED
    BY <1>2, <1>3, <1>4, <1>5, <2>1, <2>2, <2>3 DEF WayInv
<1>8. ArrivedInv'
  <2>1. ASSUME NEW m \in 1..Len(Own(fed))
        PROVE  /\ \A n \in 1..Len(inbox') : inbox'[n].src = Watched =>
                     Own(fed)[m].off + Own(fed)[m].size <= inbox'[n].off
               /\ \A n \in 1..Len(transit') : transit'[n].src = Watched =>
                     Own(fed)[m].off + Own(fed)[m].size <= transit'[n].off
    BY <1>1, <1>4, <1>5 DEF ArrivedInv
  <2>. QED
    BY <1>1, <1>2, <2>1 DEF ArrivedInv
<1>. QED
  BY <1>6, <1>7, <1>8 DEF OrderInv

\* The decoder takes the front of its queue.
LEMMA FeedKeepsOrder ==
    ASSUME BridgeInv, OrderInv, Decoder!on_nats_msg, UNCHANGED <<bridgeVars, transit>>
    PROVE  /\ OrderInv'
           /\ LET c == Head(inbox)
              IN  /\ c \in handed
                  /\ \/ c.src # Watched /\ Own(fed') = Own(fed)
                     \/ /\ c.src = Watched /\ Own(fed') = Append(Own(fed), Payload(c))
                        /\ \A m \in 1..Len(Own(fed)) :
                              Own(fed)[m].off + Own(fed)[m].size <= c.off
<1>. DEFINE c == Head(inbox)
<1>1. ChunkInv /\ WayInv /\ ArrivedInv
  BY DEF OrderInv
<1>2. /\ inbox # <<>> /\ inbox' = Tail(inbox) /\ fed' = Append(fed, c)
      /\ handed' = handed /\ total_' = total_ /\ transit' = transit
  BY DEF Decoder!on_nats_msg, bridgeVars
<1>3. /\ transit \in Seq(handed) /\ inbox \in Seq(handed) /\ fed \in Seq(handed)
      /\ Own(fed) \in Seq([off : Nat, size : ChunkSizes])
  BY <1>1 DEF WayInv, ArrivedInv
<1>4. /\ c = inbox[1] /\ c \in handed /\ 1 \in 1..Len(inbox)
      /\ inbox' \in Seq(handed)
      /\ \A n \in 1..Len(inbox') :
            n + 1 \in 1..Len(inbox) /\ inbox'[n] = inbox[n + 1] /\ 1 < n + 1
  BY <1>2, <1>3, TailFacts
<1>. HIDE DEF c
<1>5. fed' \in Seq(handed)
  BY <1>2, <1>3, <1>4, AppendProperties
<1>6. Own(fed') = IF c.src = Watched THEN Append(Own(fed), Payload(c)) ELSE Own(fed)
  BY <1>2, <1>3, <1>4, OwnOfAppend
<1>7. ChunkInv'
  BY <1>1, <1>2 DEF ChunkInv
<1>8. WayInv'
  <2>1. \A m, n \in 1..Len(inbox') : m < n => Before(inbox'[m], inbox'[n])
    <3>. SUFFICES ASSUME NEW m \in 1..Len(inbox'), NEW n \in 1..Len(inbox'), m < n
                  PROVE  Before(inbox'[m], inbox'[n])
      OBVIOUS
    <3>1. m + 1 < n + 1
      OBVIOUS
    <3>. QED
      BY <1>1, <1>4, <3>1 DEF WayInv
  <2>2. \A m \in 1..Len(inbox'), n \in 1..Len(transit') : Before(inbox'[m], transit'[n])
    BY <1>1, <1>2, <1>4 DEF WayInv
  <2>. QED
    BY <1>1, <1>2, <1>3, <1>4, <1>5, <2>1, <2>2 DEF WayInv
<1>9. \A m \in 1..Len(Own(fed)) :
         /\ Own(fed)[m].off + Own(fed)[m].size <= total_[Watched]
         /\ c.src = Watched => Own(fed)[m].off + Own(fed)[m].size <= c.off
         /\ \A n \in 1..Len(inbox') : inbox'[n].src = Watched =>
               Own(fed)[m].off + Own(fed)[m].size <= inbox'[n].off
         /\ \A n \in 1..Len(transit) : transit[n].src = Watched =>
               Own(fed)[m].off + Own(fed)[m].size <= transit[n].off
  BY <1>1, <1>4 DEF ArrivedInv
<1>10. CASE c.src # Watched
  <2>1. Own(fed') = Own(fed)
    BY <1>6, <1>10
  <2>2. ArrivedInv'
    BY <1>2, <1>3, <1>9, <2>1 DEF ArrivedInv
  <2>. QED
    BY <1>4, <1>7, <1>8, <1>10, <2>1, <2>2 DEF OrderInv, c
<1>11. CASE c.src = Watched
  <2>1. Own(fed') = Append(Own(fed), Payload(c))
    BY <1>6, <1>11
  <2>2. /\ Payload(c) \in [off : Nat, size : ChunkSizes]
        /\ Payload(c).off = c.off /\ Payload(c).size = c.size
        /\ c.off + c.size <= total_[Watched]
    BY <1>4, <1>11, ChunkFacts DEF Payload
  <2>3. /\ \A n \in 1..Len(inbox') : inbox'[n].src = Watched => c.off + c.size <= inbox'[n].off
        /\ \A n \in 1..Len(transit) : transit[n].src = Watched => c.off + c.size <= transit[n].off
    BY <1>1, <1>4, <1>11 DEF WayInv, Before
  <2>4. /\ Own(fed') \in Seq([off : Nat, size : ChunkSizes])
        /\ \A m \in 1..Len(Own(fed')) :
              \/ m \in 1..Len(Own(fed)) /\ Own(fed')[m] = Own(fed)[m]
              \/ Own(fed')[m] = Payload(c)
    BY <1>3, <2>1, <2>2, AppendProperties, LenProperties
  <2>5. ASSUME NEW m \in 1..Len(Own(fed'))
        PROVE  /\ Own(fed')[m].off + Own(fed')[m].size <= total_[Watched]
               /\ \A n \in 1..Len(inbox') : inbox'[n].src = Watched =>
                     Own(fed')[m].off + Own(fed')[m].size <= inbox'[n].off
               /\ \A n \in 1..Len(transit) : transit[n].src = Watched =>
                     Own(fed')[m].off + Own(fed')[m].size <= transit[n].off
    <3>1. CASE m \in 1..Len(Own(fed)) /\ Own(fed')[m] = Own(fed)[m]
      BY <3>1, <1>9
    <3>2. CASE Own(fed')[m] = Payload(c)
      BY <3>2, <2>2, <2>3
    <3>. QED
      BY <2>4, <3>1, <3>2
  <2>6. ArrivedInv'
    BY <1>2, <2>4, <2>5 DEF ArrivedInv
  <2>. QED
    BY <1>4, <1>7, <1>8, <1>9, <1>11, <2>1, <2>6 DEF OrderInv, c
<1>. QED
  BY <1>10, <1>11

\* A source hands over a chunk, and it is published or not.
LEMMA HandleKeepsOrder ==
    ASSUME BridgeInv, OrderInv, UNCHANGED <<inbox, decoderVars>>,
           NEW k \in 1..Sources, NEW n \in ChunkSizes, Bridge!handle_stream(k, n)
    PROVE  OrderInv'
<1>. DEFINE c == [src |-> k, off |-> total_[k], size |-> n]
            t == total_[k] + n
<1>1. ChunkInv /\ WayInv /\ ArrivedInv
  BY DEF OrderInv
<1>2. /\ handed' = handed \cup {c} /\ total_' = [total_ EXCEPT ![k] = t]
      /\ inbox' = inbox /\ fed' = fed
      /\ transit' = Append(transit, c) \/ transit' = transit
  BY DEF Bridge!handle_stream, Bridge!Sent, decoderVars
<1>3. total_ \in [1..Sources -> Nat] /\ n \in Nat /\ Watched \in 1..Sources
  <2>1. total_ \in [1..Sources -> 0..MaxBytes] /\ 0..MaxBytes \subseteq Nat
    BY PipelineAssumption DEF BridgeInv, Bridge!TypeOK, Bridge!Source
  <2>. QED
    BY <2>1, PipelineAssumption
<1>4. /\ c \in Chunk /\ c.src = k /\ c.off = total_[k] /\ c.size = n
      /\ total_[k] \in Nat /\ c.off + c.size = t
  BY <1>3 DEF Chunk
<1>. HIDE DEF c
<1>5. \A j \in 1..Sources : total_[j] \in Nat /\ total_'[j] \in Nat /\ total_[j] <= total_'[j]
  BY <1>2, <1>3, <1>4
<1>6. total_'[k] = t
  BY <1>2, <1>3
<1>. HIDE DEF t
<1>7. ChunkInv'
  <2>1. handed' \subseteq Chunk
    BY <1>1, <1>2, <1>4 DEF ChunkInv
  <2>2. ASSUME NEW d \in handed PROVE d.off + d.size <= total_'[d.src]
    <3>1. d.src \in 1..Sources
      BY <1>1 DEF ChunkInv, Chunk
    <3>2. /\ d.off + d.size <= total_[d.src] /\ d.off \in Nat /\ d.size \in Nat
      BY <1>1, ChunkFacts DEF ChunkInv
    <3>. QED
      BY <3>1, <3>2, <1>5
  <2>3. c.off + c.size <= total_'[c.src]
    BY <1>3, <1>4, <1>5, <1>6
  <2>. QED
    BY <1>2, <2>1, <2>2, <2>3 DEF ChunkInv
<1>8. /\ transit \in Seq(handed') /\ inbox' \in Seq(handed') /\ fed' \in Seq(handed')
  <2>1. handed \subseteq handed'
    BY <1>2
  <2>. QED
    BY <1>1, <1>2, <2>1, SeqMonotonic DEF WayInv
<1>9. /\ transit' \in Seq(handed') /\ Len(transit) \in Nat /\ Len(transit') \in Nat
      /\ \A m \in 1..Len(transit') :
            \/ m \in 1..Len(transit) /\ transit'[m] = transit[m]
            \/ m = Len(transit) + 1 /\ transit'[m] = c
  <2>1. CASE transit' = transit
    BY <1>8, <2>1, LenProperties
  <2>2. CASE transit' = Append(transit, c)
    <3>1. c \in handed'
      BY <1>2
    <3>. QED
      BY <1>8, <2>2, <3>1, AppendProperties, LenProperties
  <2>. QED
    BY <1>2, <2>1, <2>2
<1>10. \A d \in handed : Before(d, c)
  <2>. SUFFICES ASSUME NEW d \in handed, c.src = Watched, d.src = Watched
                PROVE  d.off + d.size <= c.off
    BY DEF Before
  <2>. QED
    BY <1>1, <1>4 DEF ChunkInv
<1>11. WayInv'
  <2>1. \A m \in 1..Len(transit) : transit[m] \in handed
    BY <1>1, ElementOfSeq DEF WayInv
  <2>2. \A m \in 1..Len(inbox) : inbox[m] \in handed
    BY <1>1, ElementOfSeq DEF WayInv
  <2>3. \A i, m \in 1..Len(transit') : i < m => Before(transit'[i], transit'[m])
    <3>. SUFFICES ASSUME NEW i \in 1..Len(transit'), NEW m \in 1..Len(transit'), i < m
                  PROVE  Before(transit'[i], transit'[m])
      OBVIOUS
    <3>1. i \in 1..Len(transit) /\ transit'[i] = transit[i]
      BY <1>9
    <3>. QED
      BY <1>1, <1>9, <1>10, <2>1, <3>1 DEF WayInv
  <2>4. \A i \in 1..Len(inbox), m \in 1..Len(transit') : Before(inbox[i], transit'[m])
    BY <1>1, <1>9, <1>10, <2>2 DEF WayInv
  <2>. QED
    BY <1>1, <1>2, <1>8, <1>9, <2>3, <2>4 DEF WayInv
<1>12. ArrivedInv'
  <2>1. Own(fed') = Own(fed)
    BY <1>2
  <2>2. ASSUME NEW m \in 1..Len(Own(fed))
        PROVE  /\ Own(fed)[m].off + Own(fed)[m].size <= total_'[Watched]
               /\ \A j \in 1..Len(transit') : transit'[j].src = Watched =>
                     Own(fed)[m].off + Own(fed)[m].size <= transit'[j].off
    <3>1. Own(fed)[m] \in [off : Nat, size : ChunkSizes]
      BY <1>1, ElementOfSeq DEF ArrivedInv
    <3>2. Own(fed)[m].off \in Nat /\ Own(fed)[m].size \in Nat
      BY <3>1, PipelineAssumption
    <3>. DEFINE e == Own(fed)[m].off + Own(fed)[m].size
    <3>3. e \in Nat /\ e <= total_[Watched]
      BY <1>1, <3>2 DEF ArrivedInv
    <3>4. \A j \in 1..Len(transit) : transit[j].src = Watched => e <= transit[j].off
      BY <1>1 DEF ArrivedInv
    <3>. HIDE DEF e
    <3>5. e <= total_'[Watched]
      BY <1>3, <1>5, <3>3
    <3>6. c.src = Watched => e <= c.off
      BY <1>4, <3>3
    <3>7. \A j \in 1..Len(transit') : transit'[j].src = Watched => e <= transit'[j].off
      BY <1>9, <3>4, <3>6
    <3>. QED
      BY <3>5, <3>7 DEF e
  <2>. QED
    BY <1>1, <1>2, <2>1, <2>2 DEF ArrivedInv
<1>. QED
  BY <1>7, <1>11, <1>12 DEF OrderInv

\* Destroying the subscription empties the decoder's queue.
LEMMA ClearKeepsOrder ==
    ASSUME OrderInv, inbox' = <<>>, UNCHANGED <<handed, total_, transit, fed>>
    PROVE  OrderInv'
<1>1. ChunkInv /\ WayInv /\ ArrivedInv
  BY DEF OrderInv
<1>2. inbox' \in Seq(handed) /\ 1..Len(inbox') = {}
  OBVIOUS
<1>3. ChunkInv' /\ WayInv'
  BY <1>1, <1>2 DEF ChunkInv, WayInv
<1>4. ArrivedInv'
  BY <1>1, <1>2 DEF ArrivedInv
<1>. QED
  BY <1>3, <1>4 DEF OrderInv

\* No other step moves a chunk.
LEMMA StillKeepsOrder ==
    ASSUME OrderInv, UNCHANGED <<handed, total_, transit, inbox, fed>>
    PROVE  OrderInv'
<1>1. ChunkInv' /\ WayInv'
  BY DEF OrderInv, ChunkInv, WayInv
<1>2. ArrivedInv'
  BY DEF OrderInv, ArrivedInv
<1>. QED
  BY <1>1, <1>2 DEF OrderInv

------------------------------------------------------------------------------
(* The steps of the pipeline. *)

IndInv == BridgeInv /\ DecoderInv /\ OrderInv

\* The three kinds of steps.
LEMMA Steps ==
    ASSUME [Next]_vars
    PROVE  \/ Bridge!Next /\ UNCHANGED <<inbox, decoderVars>>
           \/ Decoder!Next /\ UNCHANGED <<bridgeVars, transit>>
           \/ Route
           \/ UNCHANGED <<bridgeVars, transit, inbox, decoderVars>>
  BY DEF Next, vars

\* What a step of the bridge or of the decoder does to the chunks.
LEMMA MovesOfBridge ==
    ASSUME Bridge!Next
    PROVE  \/ \E k \in 1..Sources, n \in ChunkSizes : Bridge!handle_stream(k, n)
           \/ UNCHANGED <<handed, total_, transit>>
  BY DEF Bridge!Next, Bridge!Source, Bridge!StartUp, Bridge!natsOptions_Create,
     Bridge!natsConnection_Connect, Bridge!StartSource, Bridge!streamVars

\* The steps of NatsDecoder as moves of its process.
LEMMA MovesOfDecoder ==
    ASSUME Decoder!Next
    PROVE  \/ Decoder!on_nats_msg
           \/ inbox' = <<>> /\ fed' = fed
           \/ UNCHANGED <<inbox, fed>>
<1>. USE DEF Decoder!pushVars, Decoder!mainVars
<1>1. CASE Decoder!Main
  BY <1>1 DEF Decoder!Main, Decoder!natsOptions_Create,
     Decoder!SetServers, Decoder!natsConnection_Connect,
     Decoder!natsConnection_Subscribe, Decoder!FailDestroy, Decoder!FailReturn,
     Decoder!Poll, Decoder!ReportOk, Decoder!ReportBad,
     Decoder!natsSubscription_Destroy, Decoder!natsConnection_Destroy,
     Decoder!natsOptions_Destroy, Decoder!nats_Close
<1>2. CASE Decoder!on_signal \/ Decoder!Deliver
  BY <1>2 DEF Decoder!on_signal, Decoder!Deliver, Decoder!Frame, Decoder!Return
<1>. QED
  BY <1>1, <1>2 DEF Decoder!Next

\* The chunks stay in order.
LEMMA OrderStep == IndInv /\ [Next]_vars => OrderInv'
<1>. SUFFICES ASSUME IndInv, [Next]_vars PROVE OrderInv'
  OBVIOUS
<1>0. BridgeInv /\ OrderInv
  BY DEF IndInv
<1>1. CASE Bridge!Next /\ UNCHANGED <<inbox, decoderVars>>
  <2>1. CASE UNCHANGED <<handed, total_, transit>>
    BY <1>0, <1>1, <2>1, StillKeepsOrder DEF decoderVars
  <2>. QED
    BY <1>0, <1>1, <2>1, MovesOfBridge, HandleKeepsOrder
<1>2. CASE Decoder!Next /\ UNCHANGED <<bridgeVars, transit>>
  <2>1. CASE inbox' = <<>> /\ fed' = fed
    BY <1>0, <1>2, <2>1, ClearKeepsOrder DEF bridgeVars
  <2>2. CASE UNCHANGED <<inbox, fed>>
    BY <1>0, <1>2, <2>2, StillKeepsOrder DEF bridgeVars
  <2>3. CASE Decoder!on_nats_msg
    BY <1>0, <1>2, <2>3, FeedKeepsOrder
  <2>. QED
    BY <1>2, <2>1, <2>2, <2>3, MovesOfDecoder
<1>3. CASE Route
  BY <1>0, <1>3, RouteKeepsOrder
<1>4. CASE UNCHANGED <<bridgeVars, transit, inbox, decoderVars>>
  BY <1>0, <1>4, StillKeepsOrder DEF bridgeVars, decoderVars
<1>. QED
  BY <1>1, <1>2, <1>3, <1>4, Steps

\* Every step is a step of the channel, or leaves it alone.
LEMMA FifoStep == IndInv /\ [Next]_vars => [Fifo!Next]_(Fifo!vars)
<1>. DEFINE acc == {Payload(c) : c \in {d \in handed : d.src = Watched}}
<1>. SUFFICES ASSUME IndInv, [Next]_vars PROVE [Fifo!Next]_(Fifo!vars)
  OBVIOUS
<1>0. BridgeInv /\ OrderInv
  BY DEF IndInv
<1>1. CASE UNCHANGED <<handed, total_, fed>>
  BY <1>1 DEF Fifo!vars
<1>2. ASSUME NEW k \in 1..Sources, NEW n \in ChunkSizes, Bridge!handle_stream(k, n),
             fed' = fed
      PROVE  [Fifo!Next]_(Fifo!vars)
  <2>. DEFINE c == [src |-> k, off |-> total_[k], size |-> n]
  <2>1. /\ handed' = handed \cup {c}
        /\ total_' = [total_ EXCEPT ![k] = total_[k] + n]
    BY <1>2 DEF Bridge!handle_stream
  <2>2. DOMAIN total_ = 1..Sources /\ Watched \in 1..Sources
    BY <1>0, PipelineAssumption DEF BridgeInv, Bridge!TypeOK, Bridge!Source
  <2>3. c.src = k /\ Payload(c) = [off |-> total_[k], size |-> n]
    BY DEF Payload
  <2>. HIDE DEF c
  <2>4. CASE k = Watched
    <3>1. acc' = acc \cup {[off |-> total_[Watched], size |-> n]}
      BY <2>1, <2>3, <2>4
    <3>2. total_'[Watched] = total_[Watched] + n
      BY <2>1, <2>2, <2>4
    <3>3. Fifo!Accept(n)
      BY <1>2, <3>1, <3>2 DEF Fifo!Accept
    <3>. QED
      BY <3>3 DEF Fifo!Next
  <2>5. CASE k # Watched
    <3>1. acc' = acc
      BY <2>1, <2>3, <2>5
    <3>2. total_'[Watched] = total_[Watched]
      BY <2>1, <2>2, <2>5
    <3>. QED
      BY <1>2, <3>1, <3>2 DEF Fifo!vars
  <2>. QED
    BY <2>4, <2>5
<1>3. CASE Decoder!on_nats_msg /\ UNCHANGED <<bridgeVars, transit>>
  <2>. DEFINE c == Head(inbox)
  <2>1. /\ c \in handed
        /\ \/ c.src # Watched /\ Own(fed') = Own(fed)
           \/ /\ c.src = Watched /\ Own(fed') = Append(Own(fed), Payload(c))
              /\ \A m \in 1..Len(Own(fed)) :
                    Own(fed)[m].off + Own(fed)[m].size <= c.off
    BY <1>0, <1>3, FeedKeepsOrder
  <2>. HIDE DEF c
  <2>2. handed' = handed /\ total_' = total_
    BY <1>3 DEF bridgeVars
  <2>3. CASE Own(fed') = Own(fed)
    BY <2>2, <2>3 DEF Fifo!vars
  <2>4. CASE /\ c.src = Watched /\ Own(fed') = Append(Own(fed), Payload(c))
             /\ \A m \in 1..Len(Own(fed)) :
                   Own(fed)[m].off + Own(fed)[m].size <= c.off
    <3>1. Payload(c) \in acc /\ Payload(c).off = c.off
      BY <2>1, <2>4 DEF Payload
    <3>2. DOMAIN Own(fed) = 1..Len(Own(fed))
      BY <1>0, LenProperties DEF OrderInv, ArrivedInv
    <3>3. \A m \in DOMAIN Own(fed) : Fifo!End(Own(fed)[m]) <= Payload(c).off
      BY <2>4, <3>1, <3>2 DEF Fifo!End
    <3>4. acc' = acc /\ total_'[Watched] = total_[Watched]
      BY <2>2
    <3>5. Fifo!Deliver(Payload(c))
      BY <2>4, <3>3, <3>4 DEF Fifo!Deliver
    <3>. QED
      BY <3>1, <3>5 DEF Fifo!Next
  <2>. QED
    BY <2>1, <2>3, <2>4
<1>4. CASE Bridge!Next /\ UNCHANGED <<inbox, decoderVars>>
  <2>1. fed' = fed
    BY <1>4 DEF decoderVars
  <2>. QED
    BY <1>1, <1>2, <1>4, <2>1, MovesOfBridge
<1>5. CASE Decoder!Next /\ UNCHANGED <<bridgeVars, transit>>
  <2>1. handed' = handed /\ total_' = total_
    BY <1>5 DEF bridgeVars
  <2>. QED
    BY <1>1, <1>3, <1>5, <2>1, MovesOfDecoder
<1>6. CASE Route \/ UNCHANGED <<bridgeVars, transit, inbox, decoderVars>>
  BY <1>1, <1>6 DEF Route, bridgeVars, decoderVars
<1>. QED
  BY <1>4, <1>5, <1>6, Steps

------------------------------------------------------------------------------
(* The theorems. *)

\* The three invariants hold together, in every interleaving of the programs.
THEOREM Inductive == Spec => []IndInv
<1>1. Init => IndInv
  BY BridgeInit, DecoderInit, OrderInit DEF Init, IndInv
<1>2. IndInv /\ [Next]_vars => IndInv'
  <2>. SUFFICES ASSUME IndInv, [Next]_vars PROVE IndInv'
    OBVIOUS
  <2>1. Bridge!Next \/ UNCHANGED bridgeVars
    BY Steps DEF Route
  <2>2. Decoder!Next \/ UNCHANGED decoderVars
    BY Steps DEF Route
  <2>. QED
    BY <2>1, <2>2, BridgeStep, DecoderStep, OrderStep DEF IndInv
<1>. QED
  BY <1>1, <1>2, PTL DEF Spec

\* The bridge publishes only when every source was started.
THEOREM PipelineCorrect == Spec => []Inv
<1>1. IndInv => Inv
  BY DEF IndInv, BridgeInv, DecoderInv, Inv, TypeOK
<1>. QED
  BY Inductive, <1>1, PTL

\* Whichever call fails, the decoder has destroyed all it created when it
\* returns; every call that destroys meets something that exists, so none comes
\* twice or for what was never created, and nothing goes before what hangs on it.
THEOREM ExitCorrect == Spec => []CleanExit
<1>1. IndInv => CleanExit
  BY DEF IndInv, DecoderInv, CleanExit
<1>. QED
  BY Inductive, <1>1, PTL

\* The decoder's last line lies between what was counted when the signal was
\* noticed and what was counted in the end.
THEOREM ReportCorrect == Spec => []ReportWithinBounds
<1>1. IndInv => ReportWithinBounds
  BY DEF IndInv, DecoderInv, ReportWithinBounds
<1>. QED
  BY Inductive, <1>1, PTL

\* From the caster to the framer, the bytes of a source pass through a lossy
\* FIFO channel, whatever the other sources publish.
THEOREM ImplementsFifo == Spec => FifoSpec
<1>1. Init => Fifo!Init
  <2>. SUFFICES ASSUME Init PROVE Fifo!Init
    OBVIOUS
  <2>1. total_ = [k \in 1..Sources |-> 0] /\ handed = {} /\ fed = <<>>
    BY DEF Init, Bridge!Init, Bridge!Source, Decoder!Init
  <2>2. total_[Watched] = 0 /\ Own(fed) = <<>>
    BY <2>1, PipelineAssumption, OwnOfNone
  <2>. QED
    BY <2>1, <2>2 DEF Fifo!Init
<1>. QED
  BY Inductive, <1>1, FifoStep, PTL DEF Spec, FifoSpec, Fifo!Spec
==============================================================================

-------------------------- MODULE BridgeMainProofs --------------------------
(***************************************************************************)
(* Proofs about BridgeMain for every number of mountpoints and signals,    *)
(* and about ConfigParser, which main runs first, for every set of lines   *)
(* that files may have.                                                    *)
(*                                                                         *)
(* The invariant of BridgeMain says, for each position of main, what       *)
(* exists there, and for each session what the phase of its life allows.   *)
(* That of ConfigParser says what the lines read so far have made of the   *)
(* configuration, and which section the next line is in.                   *)
(***************************************************************************)
EXTENDS BridgeMain, ConfigParser, WellFoundedInduction, TLAPS

\* What a phase of a session's life says of its subscription and its worker.
LifeOK(l) ==
    /\ l \in S!Lives
    /\ l.phase = "new" => l = S!NewLife
    /\ l.subscription = "live" =>
          l.phase \in {"subscribed", "running", "failed", "stopping", "closing"}
    /\ l.worker = "alive" => l.phase \in {"running", "stopping", "closing", "joining"}
    /\ l.phase = "running" => l.worker # "none"

LivesInv == \A k \in Session : LifeOK(life[k])

\* A worker that was started is never forgotten.
Worked == \A k \in Session : life[k].worker # "none"

\* The single resources, by where main is.
ResourceInv ==
    /\ nats_options <=> pc \notin {"options", "drop_logger", "join_logger", "exited"}
    /\ nat_connection <=> pc \notin {"options", "connect", "drop_options",
                                     "drop_logger", "join_logger", "exited"}
    /\ logger = "alive" <=> pc \notin {"join_logger", "exited"}
    /\ logger = "gone" <=> pc = "exited"

\* The sessions and their connections, by where main is.
SessionInv ==
    /\ sessions \subseteq ntrip_connections
    /\ \A k \in Session \ sessions : life[k].phase \in {"new", "destroyed"}
    /\ pc \in {"options", "connect"} => started = 0 /\ ntrip_connections = {}
    /\ pc \in {"create", "start", "drop_session", "drop_connection"} =>
          started < Mountpoints
    /\ pc \in {"start", "drop_session"} => Current \in sessions
    /\ pc = "drop_connection" => Current \notin sessions
    /\ pc \in {"drop_connections", "drop_nats", "drop_options", "drop_logger",
               "join_logger", "exited"} => sessions = {}
    /\ pc \in {"drop_nats", "drop_options", "drop_logger", "join_logger", "exited"} =>
          ntrip_connections = {}

\* Iterations that are over started their sessions; main leaves its wait with
\* all of them started, and every other way with an exception.
StartInv ==
    /\ \A k \in 1..started : life[k].worker # "none"
    /\ pc \in {"test", "block", "blocked"} => started = Mountpoints
    /\ pc \in {"drop_session", "drop_connection"} => exit_code = 1
    /\ pc \in {"drop_sessions", "drop_connections", "drop_nats", "drop_options",
               "drop_logger", "join_logger", "exited"} => exit_code = 1 \/ Worked

\* A signal that main will not hear of was notified before main blocked.
WaitInv == pc \in {"block", "blocked"} /\ g_stop /\ handler = "idle" => missed

IndInv == /\ TypeOK /\ LivesInv /\ ResourceInv /\ SessionInv /\ StartInv
          /\ WaitInv
------------------------------------------------------------------------------
(* The life of one session. *)

\* A step of start() leaves a session that is neither new nor destroyed.
LEMMA StartLife ==
    ASSUME NEW l, NEW m, LifeOK(l), S!StartStep(l, m)
    PROVE  /\ LifeOK(m) /\ m.phase \notin {"new", "destroyed"}
           /\ l.worker # "none" => m.worker # "none"
<1>1. l \in S!Lives
  BY DEF LifeOK
<1>. QED
  BY <1>1 DEF LifeOK, S!StartStep, S!Subscribe, S!Spawn, S!Lives, S!NewLife

\* A step of stop() keeps what the worker and the subscription are due.
LEMMA StopLife ==
    ASSUME NEW l, NEW m, LifeOK(l), S!StopStep(l, m)
    PROVE  /\ LifeOK(m) /\ m.phase # "new"
           /\ l.worker # "none" => m.worker # "none"
<1>1. l \in S!Lives
  BY DEF LifeOK
<1>. QED
  BY <1>1 DEF LifeOK, S!StopStep, S!BeginStop, S!Notify, S!Unsubscribe, S!Join,
              S!Lives, S!NewLife

\* The worker ends and the phase stays.
LEMMA WorkerLife ==
    ASSUME NEW l, NEW m, LifeOK(l), S!WorkerEnds(l, m, g_stop)
    PROVE  LifeOK(m) /\ m.phase = l.phase /\ m.worker # "none"
<1>1. l \in S!Lives
  BY DEF LifeOK
<1>. QED
  BY <1>1 DEF LifeOK, S!WorkerEnds, S!Lives, S!NewLife

\* What a session still does means that it exists, and with it its connections
\* and the logger.
LEMMA LifetimesHold == IndInv => Lifetimes
<1>. SUFFICES ASSUME IndInv PROVE Lifetimes
  OBVIOUS
<1>. USE DEF IndInv
<1>1. ASSUME NEW k \in Session,
             life[k].worker = "alive" \/ life[k].subscription = "live"
      PROVE  /\ k \in sessions /\ k \in ntrip_connections
             /\ nat_connection /\ logger = "alive"
  <2>1. life[k].phase \notin {"new", "destroyed"}
    BY <1>1 DEF LivesInv, LifeOK, S!NewLife
  <2>2. k \in sessions
    BY <2>1 DEF SessionInv
  <2>3. k \in ntrip_connections
    BY <2>2 DEF SessionInv
  <2>4. pc \notin {"options", "connect", "drop_options", "drop_logger",
                   "join_logger", "exited"}
    BY <2>2, <2>3 DEF SessionInv
  <2>. QED
    BY <2>2, <2>3, <2>4 DEF ResourceInv
<1>2. NothingLeft
  <2>1. \A k \in Session : life[k].phase = "new" => life[k] = S!NewLife
    BY DEF LivesInv, LifeOK
  <2>. QED
    BY <2>1 DEF NothingLeft, ResourceInv, SessionInv, Destroyed
<1>. QED
  BY <1>1, <1>2 DEF Lifetimes, NothingDangles

------------------------------------------------------------------------------
(* The invariant. *)

\* The initial states.
LEMMA InitInv == Init => IndInv
<1>. SUFFICES ASSUME Init PROVE IndInv
  OBVIOUS
<1>. USE BridgeAssumption DEF Init
<1>1. LifeOK(S!NewLife)
  BY DEF LifeOK, S!NewLife, S!Lives
<1>2. LivesInv /\ life \in [Session -> S!Lives]
  BY <1>1 DEF LivesInv, LifeOK
<1>6. TypeOK
  <2>1. started \in 0..Mountpoints /\ signals \in 0..MaxSignals
    OBVIOUS
  <2>2. ntrip_connections \subseteq Session /\ sessions \subseteq Session
    OBVIOUS
  <2>. QED
    BY <1>2, <2>1, <2>2 DEF TypeOK, Loggers
<1>3. ResourceInv
  BY DEF ResourceInv
<1>4. SessionInv
  BY <1>2 DEF SessionInv, S!NewLife
<1>5. StartInv /\ WaitInv
  BY DEF StartInv, WaitInv
<1>. QED
  BY <1>2, <1>3, <1>4, <1>5, <1>6 DEF IndInv

\* Steps of main that leave the sessions and their connections alone.
LEMMA PlainStep ==
    ASSUME IndInv,
           natsOptions_Create \/ natsConnection_Connect \/ WaitTest \/ WaitBlock
           \/ SpuriousWakeup \/ Signal \/ SignalNotify \/ DropNats \/ DropOptions
           \/ DropLogger \/ JoinLogger \/ WriterEnds \/ WriterWakes
    PROVE  IndInv'
<1>. USE DEF IndInv
<1>1. UNCHANGED <<life, sessions, started, ntrip_connections>>
  BY DEF natsOptions_Create, natsConnection_Connect, WaitTest, WaitBlock,
         SpuriousWakeup, Signal, SignalNotify, DropNats, DropOptions, DropLogger,
         JoinLogger, WriterEnds, WriterWakes, sessionVars, resourceVars, signalVars, Throw
<1>. USE DEF natsOptions_Create, natsConnection_Connect, ConnectFailed, WaitTest,
             WaitBlock, SpuriousWakeup, Signal, SignalNotify, DropNats, DropOptions,
             DropLogger, JoinLogger, WriterEnds, WriterWakes, Throw, resourceVars,
             sessionVars, signalVars
<1>2. TypeOK'
  <2>1. /\ ntrip_connections' \subseteq Session /\ sessions' \subseteq Session
        /\ life' \in [Session -> S!Lives] /\ started' \in 0..Mountpoints
    BY <1>1 DEF TypeOK
  <2>2. signals' \in 0..MaxSignals
    BY BridgeAssumption DEF TypeOK
  <2>3. logger' \in Loggers
    BY DEF TypeOK, Loggers
  <2>. QED
    BY <2>1, <2>2, <2>3 DEF TypeOK
<1>3. LivesInv'
  BY <1>1 DEF LivesInv, Session
<1>4. ResourceInv'
  BY DEF ResourceInv, TypeOK, Loggers
<1>5. SessionInv'
  BY <1>1, BridgeAssumption DEF SessionInv, Session, Current
<1>6. StartInv'
  <2>1. Worked' <=> Worked
    BY <1>1 DEF Worked, Session
  <2>2. pc = "test" => Worked
    BY DEF StartInv, Worked, Session
  <2>. QED
    BY <1>1, <2>1, <2>2 DEF StartInv
<1>7. WaitInv'
  BY DEF WaitInv, TypeOK
<1>. QED
  BY <1>2, <1>3, <1>4, <1>5, <1>6, <1>7

\* A connection and a session come into being.
LEMMA CreateStep ==
    ASSUME IndInv, ntripConnection_Create
    PROVE  IndInv'
<1>. USE DEF IndInv, ntripConnection_Create, Throw, sessionVars, signalVars
<1>1. Current \in Session
  BY BridgeAssumption DEF SessionInv, TypeOK, Current, Session
<1>2. TypeOK' /\ LivesInv'
  BY <1>1 DEF TypeOK, LivesInv, Session
<1>3. ResourceInv' /\ WaitInv'
  BY DEF ResourceInv, WaitInv
<1>4. SessionInv'
  BY DEF SessionInv, Session, Current
<1>5. StartInv'
  BY DEF StartInv, Session
<1>. QED
  BY <1>2, <1>3, <1>4, <1>5

\* The current session takes a step of start(), and fails or not.
LEMMA StartStepKeeps ==
    ASSUME IndInv, start
    PROVE  IndInv'
<1>. USE DEF IndInv
<1>1. Current \in Session /\ Current \in sessions /\ started < Mountpoints
  BY BridgeAssumption DEF SessionInv, TypeOK, Current, Session, start
<1>2. PICK m \in S!Lives : /\ S!StartStep(life[Current], m)
                          /\ life' = [life EXCEPT ![Current] = m]
  BY DEF start
<1>3. /\ LifeOK(m) /\ m.phase \notin {"new", "destroyed"}
      /\ life[Current].worker # "none" => m.worker # "none"
  BY <1>1, <1>2, StartLife DEF LivesInv
<1>4. /\ life \in [Session -> S!Lives]
      /\ \A k \in Session : life'[k] = IF k = Current THEN m ELSE life[k]
  BY <1>1, <1>2 DEF TypeOK
<1>. USE DEF start, Throw, resourceVars, signalVars
<1>5. TypeOK'
  BY <1>2, <1>4 DEF TypeOK
<1>6. LivesInv'
  BY <1>3, <1>4 DEF LivesInv, Session
<1>7. ResourceInv' /\ WaitInv'
  BY DEF ResourceInv, WaitInv
<1>8. SessionInv'
  BY <1>1, <1>4 DEF SessionInv, Session, Current
<1>9. StartInv'
  <2>1. 1..started \subseteq Session /\ started' = started
    BY BridgeAssumption DEF TypeOK, Session
  <2>. QED
    BY <1>3, <1>4, <2>1 DEF StartInv
<1>. QED
  BY <1>5, <1>6, <1>7, <1>8, <1>9

\* An iteration is over.
LEMMA PushBackStep ==
    ASSUME IndInv, push_back
    PROVE  IndInv'
<1>. USE DEF IndInv, push_back, resourceVars, signalVars
<1>1. Current \in Session /\ started' = Current /\ started < Mountpoints
      /\ started \in Nat
  BY BridgeAssumption DEF SessionInv, TypeOK, Current, Session
<1>2. life[Current].worker # "none"
  BY <1>1 DEF LivesInv, LifeOK
<1>3. TypeOK' /\ LivesInv'
  BY <1>1, BridgeAssumption DEF TypeOK, LivesInv, Session
<1>4. ResourceInv' /\ WaitInv'
  BY DEF ResourceInv, WaitInv
<1>5. SessionInv'
  BY <1>1, BridgeAssumption DEF SessionInv, Session, Current, LastIteration
<1>6. StartInv'
  <2>1. \A k \in 1..started' : k = Current \/ k \in 1..started
    BY <1>1 DEF Current
  <2>. QED
    BY <1>1, <1>2, <2>1 DEF StartInv, LastIteration
<1>. QED
  BY <1>3, <1>4, <1>5, <1>6

\* A session that exists takes a step of stop(); the destroyed one is gone.
LEMMA DestroyLife ==
    ASSUME IndInv, NEW k \in sessions, DestroyStep(k)
    PROVE  /\ LivesInv' /\ sessions' \in SUBSET sessions /\ sessions \ {k} \subseteq sessions'
           /\ life' \in [Session -> S!Lives]
           /\ Worked => Worked'
           /\ \A n \in Session \ sessions' : life'[n].phase \in {"new", "destroyed"}
           /\ \A n \in Session : life[n].worker # "none" => life'[n].worker # "none"
<1>. USE DEF IndInv
<1>1. k \in Session
  BY DEF TypeOK
<1>2. PICK m \in S!Lives : S!StopStep(life[k], m) /\ life' = [life EXCEPT ![k] = m]
  BY DEF DestroyStep
<1>3. /\ LifeOK(m) /\ m.phase # "new"
      /\ life[k].worker # "none" => m.worker # "none"
  BY <1>1, <1>2, StopLife DEF LivesInv
<1>4. /\ life \in [Session -> S!Lives]
      /\ \A n \in Session : life'[n] = IF n = k THEN m ELSE life[n]
  BY <1>1, <1>2 DEF TypeOK
<1>5. LivesInv'
  BY <1>3, <1>4 DEF LivesInv, Session
<1>6. sessions' = IF m.phase = "destroyed" THEN sessions \ {k} ELSE sessions
  BY <1>1, <1>4 DEF DestroyStep
<1>7. \A n \in Session : life[n].worker # "none" => life'[n].worker # "none"
  BY <1>3, <1>4
<1>8. Worked => Worked'
  BY <1>7 DEF Worked, Session
<1>9. \A n \in Session \ sessions' : life'[n].phase \in {"new", "destroyed"}
  BY <1>4, <1>6 DEF SessionInv
<1>. QED
  BY <1>2, <1>4, <1>5, <1>6, <1>7, <1>8, <1>9

\* Steps of stop(), of the failed session and of those in the vector.
LEMMA DestroyKeeps ==
    ASSUME IndInv, DropSession \/ DropSessions
    PROVE  IndInv'
<1>. USE DEF IndInv
<1>1. CASE DropSession
  <2>. USE <1>1 DEF DropSession, resourceVars, signalVars
  <2>1. Current \in sessions /\ DestroyStep(Current) /\ UNCHANGED started
        /\ UNCHANGED ntrip_connections
    BY DEF SessionInv, DestroyStep
  <2>2. /\ LivesInv' /\ sessions' \in SUBSET sessions
        /\ life' \in [Session -> S!Lives] /\ (Worked => Worked')
        /\ \A n \in Session \ sessions' : life'[n].phase \in {"new", "destroyed"}
        /\ \A n \in Session : life[n].worker # "none" => life'[n].worker # "none"
    BY <2>1, DestroyLife
  <2>3. TypeOK'
    BY <2>1, <2>2 DEF TypeOK
  <2>4. ResourceInv' /\ WaitInv'
    BY DEF ResourceInv, WaitInv
  <2>5. SessionInv'
    BY <2>1, <2>2 DEF SessionInv, Session, Current
  <2>6. 1..started \subseteq Session
    BY BridgeAssumption DEF TypeOK, Session
  <2>7. StartInv'
    BY <2>1, <2>2, <2>6 DEF StartInv
  <2>. QED
    BY <2>2, <2>3, <2>4, <2>5, <2>7
<1>2. CASE DropSessions /\ \E k \in sessions : DestroyStep(k) /\ UNCHANGED pc
  <2>. USE <1>2 DEF DropSessions, resourceVars, signalVars
  <2>1. PICK k \in sessions : DestroyStep(k) /\ UNCHANGED pc
    OBVIOUS
  <2>2. UNCHANGED <<started, ntrip_connections>>
    BY <2>1 DEF DestroyStep
  <2>3. /\ LivesInv' /\ sessions' \in SUBSET sessions
        /\ life' \in [Session -> S!Lives] /\ (Worked => Worked')
        /\ \A n \in Session \ sessions' : life'[n].phase \in {"new", "destroyed"}
        /\ \A n \in Session : life[n].worker # "none" => life'[n].worker # "none"
    BY <2>1, DestroyLife
  <2>4. TypeOK'
    BY <2>2, <2>3 DEF TypeOK
  <2>5. ResourceInv' /\ WaitInv'
    BY <2>1 DEF ResourceInv, WaitInv
  <2>6. SessionInv'
    BY <2>1, <2>2, <2>3 DEF SessionInv, Session, Current
  <2>7. 1..started \subseteq Session
    BY BridgeAssumption DEF TypeOK, Session
  <2>8. StartInv'
    BY <2>1, <2>2, <2>3, <2>7 DEF StartInv
  <2>. QED
    BY <2>3, <2>4, <2>5, <2>6, <2>8
<1>3. CASE DropSessions /\ sessions = {} /\ pc' = "drop_connections"
           /\ UNCHANGED sessionVars
  <2>. USE <1>3 DEF DropSessions, resourceVars, sessionVars, signalVars
  <2>1. TypeOK' /\ LivesInv'
    BY DEF TypeOK, LivesInv, Session
  <2>2. ResourceInv' /\ WaitInv'
    BY DEF ResourceInv, WaitInv
  <2>3. SessionInv'
    BY DEF SessionInv, Session, Current
  <2>4. StartInv'
    BY DEF StartInv, Worked, Session
  <2>. QED
    BY <2>1, <2>2, <2>3, <2>4
<1>. QED
  BY <1>1, <1>2, <1>3 DEF DropSessions

\* The connections are destroyed when the sessions that use them are gone.
LEMMA DropConnectionKeeps ==
    ASSUME IndInv, DropConnection \/ DropConnections
    PROVE  IndInv'
<1>. USE DEF IndInv, DropConnection, DropConnections, sessionVars, signalVars
<1>1. TypeOK' /\ LivesInv'
  BY DEF TypeOK, LivesInv, Session
<1>2. ResourceInv' /\ WaitInv'
  BY DEF ResourceInv, WaitInv
<1>3. SessionInv'
  BY DEF SessionInv, Session, Current
<1>4. StartInv'
  BY DEF StartInv, Worked, Session
<1>. QED
  BY <1>1, <1>2, <1>3, <1>4

\* The worker of a session ends, wherever main is.
LEMMA WorkerKeeps ==
    ASSUME IndInv, NEW k \in Session, WorkerEnds(k)
    PROVE  IndInv'
<1>. USE DEF IndInv, WorkerEnds, resourceVars, signalVars
<1>1. PICK m \in S!Lives : /\ S!WorkerEnds(life[k], m, g_stop)
                          /\ life' = [life EXCEPT ![k] = m]
  OBVIOUS
<1>2. LifeOK(m) /\ m.phase = life[k].phase /\ m.worker # "none"
  BY <1>1, WorkerLife DEF LivesInv
<1>3. /\ life \in [Session -> S!Lives]
      /\ \A n \in Session : life'[n] = IF n = k THEN m ELSE life[n]
  BY <1>1 DEF TypeOK
<1>4. TypeOK'
  BY <1>1, <1>3 DEF TypeOK
<1>5. LivesInv'
  BY <1>2, <1>3 DEF LivesInv, Session
<1>6. ResourceInv' /\ WaitInv'
  BY DEF ResourceInv, WaitInv
<1>7. SessionInv'
  BY <1>2, <1>3 DEF SessionInv, Session, Current
<1>8. StartInv'
  <2>1. 1..started \subseteq Session
    BY BridgeAssumption DEF TypeOK, Session
  <2>2. Worked => Worked'
    BY <1>2, <1>3 DEF Worked, Session
  <2>. QED
    BY <1>2, <1>3, <2>1, <2>2 DEF StartInv
<1>. QED
  BY <1>4, <1>5, <1>6, <1>7, <1>8

\* Nothing moves.
LEMMA StutterKeeps ==
    ASSUME IndInv, UNCHANGED vars
    PROVE  IndInv'
<1>. USE DEF IndInv, vars, resourceVars, sessionVars, signalVars
<1>1. TypeOK' /\ LivesInv' /\ ResourceInv' /\ WaitInv'
  BY DEF TypeOK, LivesInv, Session, ResourceInv, WaitInv
<1>2. SessionInv'
  BY DEF SessionInv, Session, Current
<1>3. StartInv'
  BY DEF StartInv, Worked, Session
<1>. QED
  BY <1>1, <1>2, <1>3

\* IndInv is an invariant for any number of mountpoints and of signals.
THEOREM Inductive == Spec => []IndInv
<1>1. IndInv /\ [Next]_vars => IndInv'
  <2>. SUFFICES ASSUME IndInv, [Next]_vars PROVE IndInv'
    OBVIOUS
  <2>1. CASE Main
    BY <2>1, PlainStep, CreateStep, StartStepKeeps, PushBackStep, DestroyKeeps,
       DropConnectionKeeps DEF Main
  <2>2. CASE SpuriousWakeup \/ Signal \/ SignalNotify \/ WriterEnds \/ WriterWakes
    BY <2>2, PlainStep
  <2>3. ASSUME NEW k \in Session, WorkerEnds(k) PROVE IndInv'
    BY <2>3, WorkerKeeps
  <2>4. CASE Exited \/ UNCHANGED vars
    BY <2>4, StutterKeeps DEF Exited
  <2>. QED
    BY <2>1, <2>2, <2>3, <2>4 DEF Next
<1>. QED
  BY InitInv, <1>1, PTL DEF Spec

\* In every state, for any number of mountpoints: main waits for the signal
\* only with every session started, returns 0 only after that, and sleeps
\* through a signal only if it came between the test and the blocking.
THEOREM MainCorrect == Spec => []Inv
<1>1. IndInv => Inv
  <2>. SUFFICES ASSUME IndInv PROVE Inv
    OBVIOUS
  <2>1. AllOrNothing
    BY DEF IndInv, StartInv, AllOrNothing, Worked, Session
  <2>2. HangsOnlyIfMissed
    BY DEF IndInv, WaitInv, HangsOnlyIfMissed
  <2>. QED
    BY <2>1, <2>2 DEF IndInv, Inv
<1>. QED
  BY Inductive, <1>1, PTL

\* On every way out, what a session points to outlives it, and nothing that
\* main acquired is left.
THEOREM LifetimesCorrect == Spec => []Lifetimes
  BY Inductive, LifetimesHold, PTL

------------------------------------------------------------------------------
(* The configuration that main starts from, whatever lines files may have. *)

\* Numbers up to n have a latest one.
LEMMA LatestFacts ==
    ASSUME NEW n \in Nat, NEW T, T \subseteq 0..n, T # {}
    PROVE  Latest(T) \in T /\ \A k \in T : k <= Latest(T)
<1>. DEFINE R == OpToRel(<, Nat)
            D == {n - k : k \in T}
<1>1. IsWellFoundedOn(R, Nat)
  BY NatLessThanWellFounded
<1>2. \A x, y \in Nat : <<y, x>> \in R <=> y < x
  BY DEF OpToRel
<1>. HIDE DEF R
<1>3. D \subseteq Nat /\ D # {}
  <2>1. \A k \in T : n - k \in Nat
    OBVIOUS
  <2>2. PICK k \in T : TRUE
    OBVIOUS
  <2>3. n - k \in D
    BY <2>2
  <2>. QED
    BY <2>1, <2>3
<1>4. PICK d \in D : \A y \in D : ~(<<y, d>> \in R)
  BY <1>1, <1>3, WFMin
<1>5. PICK m \in T : d = n - m
  OBVIOUS
<1>6. \A k \in T : k <= m
  <2>. TAKE k \in T
  <2>1. n - k \in D /\ n - k \in Nat /\ d \in Nat
    BY <1>3
  <2>2. ~(n - k < d)
    BY <1>2, <1>4, <2>1
  <2>3. k \in Nat /\ m \in Nat
    OBVIOUS
  <2>. QED
    BY <1>5, <2>2, <2>3
<1>. QED
  BY <1>6, Zenon DEF Latest

\* A later number is the latest one.
LEMMA NewLatest ==
    ASSUME NEW n \in Nat, NEW T, T \subseteq 0..n
    PROVE  Latest(T \cup {n + 1}) = n + 1
<1>. DEFINE U == T \cup {n + 1}
<1>1. U \subseteq 0..(n + 1) /\ U # {} /\ n + 1 \in U /\ n + 1 \in Nat
  OBVIOUS
<1>. HIDE DEF U
<1>2. Latest(U) \in U /\ \A k \in U : k <= Latest(U)
  BY <1>1, LatestFacts
<1>3. n + 1 <= Latest(U) /\ Latest(U) \in 0..(n + 1)
  BY <1>1, <1>2
<1>4. Latest(U) = n + 1
  BY <1>3
<1>. QED
  BY <1>4 DEF U

\* The file g is f with the line l at its end.
Extended(f, l, g) == f \in Seq(Lines) /\ l \in Lines /\ g = Append(f, l)

\* One more line.
LEMMA NextLine ==
    ASSUME NEW f \in Seq(Lines), NEW l \in Lines
    PROVE  LET g == Append(f, l)
           IN  /\ g \in Seq(Lines) /\ Len(f) \in Nat /\ Len(g) = Len(f) + 1
               /\ DOMAIN f = 1..Len(f) /\ DOMAIN g = 1..(Len(f) + 1)
               /\ g[Len(f) + 1] = l /\ \A m \in 1..Len(f) : g[m] = f[m]
  OBVIOUS

\* The section of a line does not depend on later lines.
LEMMA NameFacts ==
    ASSUME NEW f, NEW l, NEW g, Extended(f, l, g)
    PROVE  /\ \A m \in 0..Len(f) : NameAt(g, m) = NameAt(f, m)
           /\ NameAt(g, Len(g)) = IF l.kind = "section" THEN l.name
                                    ELSE NameAt(f, Len(f))
<1>. DEFINE n == Len(f)
            Heads(h, m) == {k \in 1..m : h[k].kind = "section"} \cup {0}
<1>1. /\ n \in Nat /\ Len(g) = n + 1 /\ g[n + 1] = l
      /\ \A m \in 1..n : g[m] = f[m]
  BY NextLine DEF Extended
<1>. HIDE DEF n
<1>2. \A h, m : NameAt(h, m) = IF Latest(Heads(h, m)) = 0 THEN "options"
                                 ELSE h[Latest(Heads(h, m))].name
  BY DEF NameAt
<1>3. ASSUME NEW m \in 0..n PROVE /\ Heads(g, m) = Heads(f, m)
                                  /\ Latest(Heads(f, m)) \in 0..m
                                  /\ NameAt(g, m) = NameAt(f, m)
  <2>1. Heads(g, m) = Heads(f, m)
    BY <1>1
  <2>2. Heads(f, m) \subseteq 0..m /\ Heads(f, m) # {} /\ m \in Nat
    BY <1>1
  <2>3. Latest(Heads(f, m)) \in 0..m
    <3>. HIDE DEF Heads
    <3>. QED
      BY <2>2, LatestFacts
  <2>. DEFINE o == Latest(Heads(f, m))
  <2>4. o # 0 => g[o] = f[o]
    <3>. HIDE DEF o
    <3>. QED
      BY <1>1, <2>3 DEF o
  <2>5. NameAt(g, m) = IF o = 0 THEN "options" ELSE g[o].name
    BY <1>2, <2>1
  <2>6. NameAt(f, m) = IF o = 0 THEN "options" ELSE f[o].name
    BY <1>2
  <2>. HIDE DEF o, Heads
  <2>. QED
    BY <2>1, <2>3, <2>4, <2>5, <2>6 DEF o
<1>4. CASE l.kind = "section"
  <2>1. Heads(g, n + 1) = Heads(f, n) \cup {n + 1}
    BY <1>1, <1>4
  <2>2. Heads(f, n) \subseteq 0..n
    BY <1>1
  <2>. HIDE DEF Heads
  <2>3. Latest(Heads(g, n + 1)) = n + 1
    BY <1>1, <2>1, <2>2, NewLatest
  <2>4. NameAt(g, n + 1) = g[n + 1].name
    <3>1. NameAt(g, n + 1) = IF Latest(Heads(g, n + 1)) = 0 THEN "options"
                               ELSE g[Latest(Heads(g, n + 1))].name
      BY <1>2
    <3>2. n + 1 # 0
      BY <1>1
    <3>. QED
      BY <2>3, <3>1, <3>2
  <2>. QED
    BY <1>1, <1>3, <1>4, <2>4 DEF n
<1>5. CASE l.kind # "section"
  <2>1. Heads(g, n + 1) = Heads(g, n)
    BY <1>1, <1>5
  <2>. HIDE DEF Heads
  <2>2. NameAt(g, n + 1) = NameAt(g, n)
    BY <1>2, <2>1
  <2>3. n \in 0..n
    BY <1>1
  <2>. QED
    BY <1>1, <1>3, <1>5, <2>2, <2>3 DEF n
<1>. QED
  BY <1>4, <1>5

\* Where the latest line is an entry.
Belongs(f, l, names) == l.kind \notin {"blank", "section"} /\ NameAt(f, Len(f)) \in names

LEMMA EntryFacts ==
    ASSUME NEW f, NEW l, NEW g, Extended(f, l, g), NEW names
    PROVE  /\ EntryLines(f, names) \subseteq 1..Len(f)
           /\ Belongs(f, l, names) =>
                EntryLines(g, names) = EntryLines(f, names) \cup {Len(f) + 1}
           /\ ~Belongs(f, l, names) => EntryLines(g, names) = EntryLines(f, names)
<1>. DEFINE n == Len(f)
            Own(h, m) == h[m].kind \notin {"blank", "section"} /\ NameAt(h, m) \in names
<1>1. /\ n \in Nat /\ Len(g) = n + 1 /\ g[n + 1] = l
      /\ DOMAIN f = 1..n /\ DOMAIN g = 1..(n + 1)
      /\ \A m \in 1..n : g[m] = f[m]
  BY NextLine DEF Extended
<1>2. EntryLines(f, names) = {m \in 1..n : Own(f, m)}
  BY <1>1 DEF EntryLines
<1>3. EntryLines(g, names) = {m \in 1..(n + 1) : Own(g, m)}
  BY <1>1 DEF EntryLines
<1>4. \A m \in 1..n : Own(g, m) <=> Own(f, m)
  <2>. TAKE m \in 1..n
  <2>1. m \in 0..n /\ g[m] = f[m]
    BY <1>1
  <2>2. NameAt(g, m) = NameAt(f, m)
    BY <2>1, NameFacts
  <2>. QED
    BY <2>1, <2>2
<1>5. Own(g, n + 1) <=> Belongs(f, l, names)
  <2>1. l.kind # "section" => NameAt(g, n + 1) = NameAt(f, n)
    <3>1. NameAt(g, Len(g)) = IF l.kind = "section" THEN l.name ELSE NameAt(f, Len(f))
      BY NameFacts
    <3>. QED
      BY <1>1, <3>1
  <2>. QED
    BY <1>1, <2>1 DEF Belongs
<1>6. \A m : m \in 1..(n + 1) <=> m \in 1..n \/ m = n + 1
  BY <1>1
<1>. HIDE DEF Own, n
<1>7. EntryLines(g, names) = IF Belongs(f, l, names) THEN {m \in 1..n : Own(f, m)} \cup {n + 1}
                               ELSE {m \in 1..n : Own(f, m)}
  BY <1>3, <1>4, <1>5, <1>6, Zenon
<1>. QED
  BY <1>2, <1>7 DEF n

\* The lines that set an option.
SetLines(f, key) == {m \in EntryLines(f, {"options"}) : f[m].key = key}

LEMMA ValueByLines ==
    ASSUME NEW f, NEW key, NEW default
    PROVE  LastValue(f, key, default) =
             IF SetLines(f, key) = {} THEN default ELSE f[Latest(SetLines(f, key))].value
  BY DEF LastValue, SetLines

\* The value of an option after one more line.
LEMMA OptionValue ==
    ASSUME NEW f, NEW l, NEW g, Extended(f, l, g),
           NEW key, NEW default
    PROVE  /\ Belongs(f, l, {"options"}) /\ l.key = key =>
                LastValue(g, key, default) = l.value
           /\ ~(Belongs(f, l, {"options"}) /\ l.key = key) =>
                LastValue(g, key, default) = LastValue(f, key, default)
<1>. DEFINE n == Len(f)
            E(h) == EntryLines(h, {"options"})
            Set(h) == SetLines(h, key)
<1>1. /\ n \in Nat /\ g[n + 1] = l /\ \A m \in 1..n : g[m] = f[m]
  BY NextLine DEF Extended
<1>2. E(f) \subseteq 1..n
  BY EntryFacts
<1>3. E(g) = IF Belongs(f, l, {"options"}) THEN E(f) \cup {n + 1} ELSE E(f)
  <2>1. PICK names : names = {"options"}
    OBVIOUS
  <2>2. /\ Belongs(f, l, names) =>
             EntryLines(g, names) = EntryLines(f, names) \cup {Len(f) + 1}
        /\ ~Belongs(f, l, names) => EntryLines(g, names) = EntryLines(f, names)
    BY EntryFacts
  <2>. QED
    BY <2>1, <2>2
<1>4. \A h : LastValue(h, key, default) =
               IF Set(h) = {} THEN default ELSE h[Latest(Set(h))].value
  BY ValueByLines
<1>. HIDE DEF n, E
<1>5. Set(f) \subseteq 1..n /\ Set(f) \subseteq 0..n
  BY <1>1, <1>2 DEF SetLines, E
<1>6. CASE Belongs(f, l, {"options"}) /\ l.key = key
  <2>1. Set(g) = Set(f) \cup {n + 1}
    BY <1>1, <1>2, <1>3, <1>6 DEF SetLines, E
  <2>. HIDE DEF Set
  <2>2. Latest(Set(g)) = n + 1 /\ Set(g) # {}
    BY <1>1, <1>5, <2>1, NewLatest
  <2>3. LastValue(g, key, default) = g[n + 1].value
    <3>1. LastValue(g, key, default) =
            IF Set(g) = {} THEN default ELSE g[Latest(Set(g))].value
      BY <1>4
    <3>. QED
      BY <2>2, <3>1
  <2>. QED
    BY <1>1, <1>6, <2>3
<1>7. CASE ~(Belongs(f, l, {"options"}) /\ l.key = key)
  <2>1. Set(g) = Set(f)
    <3>1. \A m \in E(f) : g[m].key = f[m].key
      BY <1>1, <1>2
    <3>2. CASE Belongs(f, l, {"options"})
      BY <1>1, <1>3, <1>7, <3>1, <3>2 DEF SetLines, E
    <3>3. CASE ~Belongs(f, l, {"options"})
      BY <1>3, <3>1, <3>3 DEF SetLines, E
    <3>. QED
      BY <3>2, <3>3
  <2>. HIDE DEF Set
  <2>2. Set(f) # {} => Latest(Set(f)) \in 1..n
    BY <1>1, <1>5, LatestFacts
  <2>3. Set(f) # {} => g[Latest(Set(f))] = f[Latest(Set(f))]
    BY <1>1, <2>2
  <2>4. LastValue(g, key, default) =
          IF Set(g) = {} THEN default ELSE g[Latest(Set(g))].value
    BY <1>4
  <2>5. LastValue(f, key, default) =
          IF Set(f) = {} THEN default ELSE f[Latest(Set(f))].value
    BY <1>4
  <2>6. LastValue(g, key, default) = LastValue(f, key, default)
    BY <2>1, <2>3, <2>4, <2>5
  <2>. QED
    BY <1>7, <2>6
<1>. QED
  BY <1>6, <1>7

\* A list that has some lines of a file still has them when a line is added.
LEMMA OrderKept ==
    ASSUME NEW f, NEW l, NEW g, Extended(f, l, g),
           NEW s, NEW T, T \subseteq 1..Len(f), InOrder(s, f, T)
    PROVE  InOrder(s, g, T)
<1>1. PICK at \in [DOMAIN s -> T] :
        /\ \A j, k \in DOMAIN s : j < k => at[j] < at[k]
        /\ \A n \in T : \E k \in DOMAIN s : at[k] = n
        /\ \A k \in DOMAIN s : s[k] = f[at[k]]
  BY DEF InOrder
<1>2. \A m \in 1..Len(f) : g[m] = f[m]
  BY NextLine DEF Extended
<1>3. \A k \in DOMAIN s : s[k] = g[at[k]]
  BY <1>1, <1>2
<1>. QED
  BY <1>1, <1>3 DEF InOrder

\* The list grows with the lines.
LEMMA OrderGrows ==
    ASSUME NEW f, NEW l, NEW g, Extended(f, l, g),
           NEW s \in Seq(Lines), NEW T, T \subseteq 1..Len(f), InOrder(s, f, T)
    PROVE  InOrder(Append(s, l), g, T \cup {Len(f) + 1})
<1>. DEFINE n == Len(f)
            c == Len(s)
            t == Append(s, l)
            U == T \cup {n + 1}
<1>1. PICK at \in [DOMAIN s -> T] :
        /\ \A j, k \in DOMAIN s : j < k => at[j] < at[k]
        /\ \A m \in T : \E k \in DOMAIN s : at[k] = m
        /\ \A k \in DOMAIN s : s[k] = f[at[k]]
  BY DEF InOrder
<1>2. /\ n \in Nat /\ g[n + 1] = l /\ \A m \in 1..n : g[m] = f[m]
      /\ T \subseteq 1..n
  BY NextLine DEF Extended
<1>3. /\ c \in Nat /\ DOMAIN s = 1..c /\ DOMAIN t = 1..(c + 1) /\ t[c + 1] = l
      /\ \A k \in 1..c : t[k] = s[k]
  BY NextLine DEF Extended
<1>. DEFINE to == [k \in 1..(c + 1) |-> IF k = c + 1 THEN n + 1 ELSE at[k]]
<1>. HIDE DEF n, c, t
<1>4. \A k \in 1..c : at[k] \in T /\ at[k] \in 1..n /\ k \in 1..(c + 1) /\ k # c + 1
  <2>. TAKE k \in 1..c
  <2>1. at[k] \in T
    BY <1>1, <1>3
  <2>2. at[k] \in 1..n
    BY <1>2, <2>1
  <2>3. k \in 1..(c + 1) /\ k # c + 1
    BY <1>3
  <2>. QED
    BY <2>1, <2>2, <2>3
<1>5. to[c + 1] = n + 1 /\ \A k \in 1..c : to[k] = at[k]
  BY <1>3, <1>4
<1>6. \A k : k \in 1..(c + 1) <=> k \in 1..c \/ k = c + 1
  BY <1>3
<1>7. to \in [1..(c + 1) -> U]
  BY <1>4, <1>6
<1>. HIDE DEF to
<1>8. ASSUME NEW j \in 1..(c + 1), NEW k \in 1..(c + 1), j < k PROVE to[j] < to[k]
  <2>1. j \in 1..c
    BY <1>3, <1>8
  <2>2. CASE k = c + 1
    BY <1>2, <1>4, <1>5, <2>1, <2>2
  <2>3. CASE k \in 1..c
    BY <1>1, <1>3, <1>5, <1>8, <2>1, <2>3
  <2>. QED
    BY <1>6, <2>2, <2>3
<1>9. ASSUME NEW m \in U PROVE \E k \in 1..(c + 1) : to[k] = m
  <2>1. CASE m = n + 1
    BY <1>5, <1>6, <2>1
  <2>2. CASE m \in T
    <3>1. PICK k \in 1..c : at[k] = m
      BY <1>1, <1>3, <2>2
    <3>. QED
      BY <1>5, <1>6, <3>1
  <2>. QED
    BY <2>1, <2>2
<1>10. \A k \in 1..(c + 1) : t[k] = g[to[k]]
  <2>. TAKE k \in 1..(c + 1)
  <2>1. CASE k = c + 1
    BY <1>2, <1>3, <1>5, <2>1
  <2>2. CASE k \in 1..c
    <3>1. t[k] = f[at[k]] /\ to[k] = at[k] /\ at[k] \in 1..n
      BY <1>1, <1>3, <1>4, <1>5, <2>2
    <3>. QED
      BY <1>2, <3>1
  <2>. QED
    BY <1>6, <2>1, <2>2
<1>11. InOrder(t, g, U)
  <2>. HIDE DEF U
  <2>1. to \in [DOMAIN t -> U]
    BY <1>3, <1>7
  <2>2. /\ \A j, k \in DOMAIN t : j < k => to[j] < to[k]
        /\ \A m \in U : \E k \in DOMAIN t : to[k] = m
        /\ \A k \in DOMAIN t : t[k] = g[to[k]]
    BY <1>3, <1>8, <1>9, <1>10
  <2>. QED
    BY <2>1, <2>2 DEF InOrder
<1>. QED
  BY <1>11 DEF n, t

\* A list is empty if there are no lines for it, and only then.
LEMMA OrderEmpty ==
    ASSUME NEW f, NEW s \in Seq(Lines), NEW T, InOrder(s, f, T)
    PROVE  s = <<>> <=> T = {}
<1>1. PICK at \in [DOMAIN s -> T] : \A n \in T : \E k \in DOMAIN s : at[k] = n
  BY DEF InOrder
<1>2. DOMAIN s = 1..Len(s) /\ Len(s) \in Nat
  OBVIOUS
<1>3. ASSUME s = <<>> PROVE T = {}
  <2>1. DOMAIN s = {}
    BY <1>3
  <2>. QED
    BY <1>1, <2>1
<1>4. ASSUME T = {} PROVE s = <<>>
  <2>1. ~\E k : k \in DOMAIN s
    BY <1>1, <1>4
  <2>2. Len(s) = 0
    BY <1>2, <2>1
  <2>. QED
    BY <2>2
<1>. QED
  BY <1>3, <1>4

\* What a list of the configuration has of the file f.
ListOK(list, f, n) ==
    LET lines == EntryLines(f, Names(n))
    IN  /\ list \in Seq(Lines)
        /\ IF n = "destination"
           THEN list = IF lines = {} THEN <<>> ELSE <<f[Latest(lines)]>>
           ELSE InOrder(list, f, lines)

\* A line of another section.
LEMMA ListStays ==
    ASSUME NEW f, NEW l, NEW g, Extended(f, l, g),
           NEW list, NEW n, ListOK(list, f, n), ~Belongs(f, l, Names(n))
    PROVE  ListOK(list, g, n)
<1>. DEFINE T == EntryLines(f, Names(n))
<1>1. T \subseteq 1..Len(f) /\ EntryLines(g, Names(n)) = T
  <2>1. PICK names : names = Names(n)
    OBVIOUS
  <2>2. EntryLines(f, names) \subseteq 1..Len(f)
    BY EntryFacts
  <2>3. ~Belongs(f, l, names) => EntryLines(g, names) = EntryLines(f, names)
    BY EntryFacts
  <2>. QED
    BY <2>1, <2>2, <2>3
<1>2. /\ list \in Seq(Lines)
      /\ n = "destination" => list = IF T = {} THEN <<>> ELSE <<f[Latest(T)]>>
      /\ n # "destination" => InOrder(list, f, T)
  BY DEF ListOK
<1>. HIDE DEF T
<1>3. ASSUME T # {} PROVE f[Latest(T)] = g[Latest(T)]
  <2>1. Len(f) \in Nat /\ \A m \in 1..Len(f) : g[m] = f[m]
    BY NextLine DEF Extended
  <2>2. T \subseteq 0..Len(f)
    BY <1>1
  <2>3. Latest(T) \in T
    BY <1>3, <2>1, <2>2, LatestFacts
  <2>. QED
    BY <1>1, <2>1, <2>3
<1>4. n # "destination" => InOrder(list, g, T)
  BY <1>1, <1>2, OrderKept
<1>. QED
  BY <1>1, <1>2, <1>3, <1>4 DEF ListOK

\* An entry of the list.
LEMMA ListGrows ==
    ASSUME NEW f, NEW l, NEW g, Extended(f, l, g),
           NEW list, NEW n, ListOK(list, f, n), Belongs(f, l, Names(n))
    PROVE  ListOK(IF n = "destination" THEN <<l>> ELSE Append(list, l), g, n)
<1>. DEFINE T == EntryLines(f, Names(n))
            U == EntryLines(g, Names(n))
            h == Len(f) + 1
<1>1. T \subseteq 1..Len(f) /\ U = T \cup {h}
  BY EntryFacts
<1>2. list \in Seq(Lines) /\ (n # "destination" => InOrder(list, f, T))
  BY DEF ListOK
<1>3. Len(f) \in Nat /\ g[h] = l /\ l \in Lines
  BY NextLine DEF Extended
<1>. HIDE DEF T, U
<1>4. CASE n = "destination"
  <2>1. T \subseteq 0..Len(f)
    BY <1>1
  <2>2. Latest(U) = h /\ U # {}
    BY <1>1, <1>3, <2>1, NewLatest
  <2>3. <<l>> \in Seq(Lines) /\ <<l>> = <<g[Latest(U)]>>
    BY <1>3, <2>2
  <2>. QED
    BY <1>4, <2>2, <2>3 DEF ListOK, U
<1>5. CASE n # "destination"
  <2>1. InOrder(Append(list, l), g, U)
    BY <1>1, <1>2, <1>5, OrderGrows
  <2>2. Append(list, l) \in Seq(Lines)
    BY <1>2, <1>3
  <2>. QED
    BY <1>5, <2>1, <2>2 DEF ListOK, U
<1>. QED
  BY <1>4, <1>5

\* The name of the section that the next line is in.
CurrentName == NameAt(file, Len(file))

\* The value of an option is that of its last line, and positive.
OptionOK(value, f, k) == value = LastValue(f, k, DefaultOptions[k]) /\ 0 < value

\* So is the threshold of the progress log, if its bytes fit an int.
ThroughputOK(value, f) == ThroughputIn(f) \in Fitting => value = ThroughputIn(f)

\* As long as no line was wrong, the configuration is what the lines say.
ReadInv ==
    /\ CurrentName \in DOMAIN Sections /\ section = Sections[CurrentName]
    /\ \A k \in IntOptions : OptionOK(configuration.options[k], file, k)
    /\ ThroughputOK(configuration.options.throughput_log_every_bytes, file)
    /\ \A n \in ListNames : ListOK(configuration.lists[n], file, n)

\* The options that a configuration has.
OptionNames == IntOptions \cup {"throughput_log_every_bytes"}

ParserInv ==
    /\ program \in {"ntrip2nats", "nats2ntrip"} /\ file \in Seq(Lines)
    /\ {"options", "lists"} \subseteq DOMAIN configuration
    /\ OptionNames \subseteq DOMAIN configuration.options
    /\ DOMAIN configuration.lists = ListNames
    /\ outcome # "rejected" => ReadInv
    /\ outcome = "accepted" => Usable

\* The sections and the lists they fill.
LEMMA SectionFacts ==
    ASSUME program \in {"ntrip2nats", "nats2ntrip"}
    PROVE  /\ "options" \in DOMAIN Sections /\ Sections["options"] = "options"
           /\ "options" \notin ListNames /\ Names("options") = {"options"}
           /\ \A x \in DOMAIN Sections : Sections[x] \in ListNames \cup {"options"}
           /\ \A x \in DOMAIN Sections : \A n \in ListNames \cup {"options"} :
                x \in Names(n) <=> Sections[x] = n
<1>1. Names("options") = {"options"}
  BY DEF Names
<1>2. "options" \notin ListNames
  BY DEF ListNames
<1>3. \A x \in DOMAIN Sections : Sections[x] \in ListNames \cup {"options"}
  BY DEF ListNames
<1>4. CASE program = "ntrip2nats"
  <2>1. Sections = [options |-> "options", nats_destinations |-> "servers",
                      ntrip_sources |-> "sources"]
    BY <1>4 DEF Sections, Ntrip2NatsSections
  <2>2. ListNames \subseteq {"servers", "sources"}
    BY <2>1 DEF ListNames
  <2>3. /\ Names("servers") = {"nats_destinations", "nats_sources"}
        /\ Names("sources") = {"ntrip_sources"}
    BY DEF Names
  <2>4. ASSUME NEW x \in DOMAIN Sections, NEW n \in ListNames \cup {"options"}
        PROVE  x \in Names(n) <=> Sections[x] = n
    <3>1. n \in {"servers", "sources", "options"}
      BY <2>2
    <3>2. x \in {"options", "nats_destinations", "ntrip_sources"}
      BY <2>1
    <3>. QED
      BY <1>1, <2>1, <2>3, <3>1, <3>2
  <2>. QED
    BY <1>1, <1>2, <1>3, <2>1, <2>4
<1>5. CASE program = "nats2ntrip"
  <2>1. Sections = [options |-> "options", nats_sources |-> "servers",
                      nats_mountpoints |-> "mountpoints",
                      ntrip_sources |-> "mountpoints",
                      ntrip_destinations |-> "destination"]
    BY <1>5 DEF Sections, Nats2NtripSections
  <2>2. ListNames \subseteq {"servers", "mountpoints", "destination"}
    BY <2>1 DEF ListNames
  <2>3. /\ Names("servers") = {"nats_destinations", "nats_sources"}
        /\ Names("mountpoints") = {"nats_mountpoints", "ntrip_sources"}
        /\ Names("destination") = {"ntrip_destinations"}
    BY DEF Names
  <2>4. ASSUME NEW x \in DOMAIN Sections, NEW n \in ListNames \cup {"options"}
        PROVE  x \in Names(n) <=> Sections[x] = n
    <3>1. n \in {"servers", "mountpoints", "destination", "options"}
      BY <2>2
    <3>2. x \in {"options", "nats_sources", "nats_mountpoints", "ntrip_sources",
                 "ntrip_destinations"}
      BY <2>1
    <3>. QED
      BY <1>1, <2>1, <2>3, <3>1, <3>2
  <2>. QED
    BY <1>1, <1>2, <1>3, <2>1, <2>4
<1>. QED
  BY <1>4, <1>5

\* The empty file.
LEMMA ParserStart == ParserInit => ParserInv
<1>. SUFFICES ASSUME ParserInit PROVE ParserInv
  OBVIOUS
<1>1. /\ program \in {"ntrip2nats", "nats2ntrip"} /\ file = <<>> /\ section = "options"
      /\ configuration = [options |-> DefaultOptions,
                          lists |-> [n \in ListNames |-> <<>>]]
      /\ outcome = "reading"
  BY DEF ParserInit
<1>2. CurrentName = "options"
  <2>. DEFINE T == {m \in 1..0 : file[m].kind = "section"} \cup {0}
  <2>1. T = {0} /\ T \subseteq 0..0 /\ 0 \in Nat /\ Len(file) = 0
    BY <1>1
  <2>. HIDE DEF T
  <2>2. Latest(T) = 0
    BY <2>1, LatestFacts
  <2>. QED
    BY <2>1, <2>2 DEF CurrentName, NameAt, T
<1>3. \A names : EntryLines(file, names) = {}
  <2>1. DOMAIN file = {}
    BY <1>1
  <2>. QED
    BY <2>1 DEF EntryLines
<1>4. ASSUME NEW k \in IntOptions PROVE OptionOK(configuration.options[k], file, k)
  <2>1. SetLines(file, k) = {}
    BY <1>3 DEF SetLines
  <2>2. LastValue(file, k, DefaultOptions[k]) = DefaultOptions[k]
    BY <2>1, ValueByLines
  <2>3. 0 < DefaultOptions[k]
    BY DEF DefaultOptions, IntOptions
  <2>. QED
    BY <1>1, <2>2, <2>3 DEF OptionOK
<1>5. ASSUME NEW n \in ListNames PROVE ListOK(configuration.lists[n], file, n)
  <2>1. configuration.lists[n] = <<>> /\ <<>> \in Seq(Lines) /\ DOMAIN <<>> = {}
    BY <1>1
  <2>2. InOrder(<<>>, file, {})
    <3>1. [k \in {} |-> 0] \in [{} -> {}]
      OBVIOUS
    <3>. QED
      BY <2>1, <3>1 DEF InOrder
  <2>. QED
    BY <1>3, <2>1, <2>2 DEF ListOK
<1>6. /\ {"options", "lists"} \subseteq DOMAIN configuration
      /\ OptionNames \subseteq DOMAIN configuration.options
      /\ DOMAIN configuration.lists = ListNames
  BY <1>1 DEF DefaultOptions, IntOptions, OptionNames
<1>7. "options" \in DOMAIN Sections /\ Sections["options"] = "options"
  BY <1>1, SectionFacts
<1>8. file \in Seq(Lines)
  BY <1>1
<1>9. ThroughputOK(configuration.options.throughput_log_every_bytes, file)
  <2>1. SetLines(file, "throughput_log_kb") = {}
    BY <1>3 DEF SetLines
  <2>2. ThroughputIn(file) = DefaultOptions.throughput_log_every_bytes
    BY <2>1, ValueByLines DEF ThroughputIn
  <2>. QED
    BY <1>1, <2>2 DEF ThroughputOK
<1>. QED
  BY <1>1, <1>2, <1>4, <1>5, <1>6, <1>7, <1>8, <1>9 DEF ParserInv, ReadInv

\* The sections are those of the program.
LEMMA SectionsKept ==
    ASSUME program' = program
    PROVE  Sections' = Sections /\ ListNames' = ListNames
  BY DEF Sections, ListNames

\* What a step that reads the line l has to show, apart from the lists and options.
LEMMA LineRead ==
    ASSUME ParserInv, NEW l \in Lines, program' = program, file' = Append(file, l),
           outcome' = outcome, outcome = "reading",
           {"options", "lists"} \subseteq DOMAIN configuration',
           OptionNames \subseteq DOMAIN configuration'.options,
           DOMAIN configuration'.lists = ListNames,
           section' = IF l.kind = "section" THEN Sections[l.name] ELSE section,
           l.kind = "section" => l.name \in DOMAIN Sections,
           \A k \in IntOptions : OptionOK(configuration'.options[k], Append(file, l), k),
           ThroughputOK(configuration'.options.throughput_log_every_bytes, Append(file, l)),
           \A n \in ListNames : ListOK(configuration'.lists[n], Append(file, l), n)
    PROVE  ParserInv'
<1>1. file \in Seq(Lines) /\ ReadInv
  BY DEF ParserInv
<1>2. CurrentName' = IF l.kind = "section" THEN l.name ELSE CurrentName
  <2>1. PICK g : g = Append(file, l) /\ Extended(file, l, g)
    BY <1>1 DEF Extended
  <2>2. NameAt(g, Len(g)) = IF l.kind = "section" THEN l.name ELSE NameAt(file, Len(file))
    BY <2>1, NameFacts
  <2>. QED
    BY <2>1, <2>2 DEF CurrentName
<1>3. Sections' = Sections /\ ListNames' = ListNames
  BY SectionsKept
<1>4. file' \in Seq(Lines)
  BY <1>1, NextLine
<1>5. CurrentName' \in DOMAIN Sections' /\ section' = Sections'[CurrentName']
  BY <1>1, <1>2, <1>3 DEF ReadInv
<1>6. \A k \in IntOptions : OptionOK(configuration'.options[k], file', k)
  OBVIOUS
<1>7. \A n \in ListNames : ListOK(configuration'.lists[n], file', n)
  OBVIOUS
<1>8. ThroughputOK(configuration'.options.throughput_log_every_bytes, file')
  OBVIOUS
<1>9. ReadInv'
  BY <1>3, <1>5, <1>6, <1>7, <1>8 DEF ReadInv, OptionOK, ThroughputOK, ListOK
<1>. QED
  BY <1>3, <1>4, <1>9 DEF ParserInv

\* A line that is wrong.
LEMMA LineRejected ==
    ASSUME ParserInv, NEW l \in Lines, program' = program, file' = Append(file, l),
           outcome' = "rejected", UNCHANGED <<section, configuration>>
    PROVE  ParserInv'
<1>1. ListNames' = ListNames /\ configuration' = configuration
  BY SectionsKept
<1>2. file' \in Seq(Lines)
  BY NextLine DEF ParserInv
<1>. QED
  BY <1>1, <1>2 DEF ParserInv

\* What is no entry of the options leaves their values alone, and what is no
\* entry of a list leaves that list alone.
LEMMA OthersStay ==
    ASSUME ParserInv, outcome = "reading", NEW l \in Lines
    PROVE  /\ \A k \in IntOptions :
                ~(Belongs(file, l, {"options"}) /\ l.key = k) =>
                  OptionOK(configuration.options[k], Append(file, l), k)
           /\ ~(Belongs(file, l, {"options"}) /\ l.key = "throughput_log_kb") =>
                ThroughputOK(configuration.options.throughput_log_every_bytes,
                             Append(file, l))
           /\ \A n \in ListNames :
                ~Belongs(file, l, Names(n)) =>
                  ListOK(configuration.lists[n], Append(file, l), n)
<1>1. /\ file \in Seq(Lines)
      /\ \A k \in IntOptions : OptionOK(configuration.options[k], file, k)
      /\ ThroughputOK(configuration.options.throughput_log_every_bytes, file)
      /\ \A n \in ListNames : ListOK(configuration.lists[n], file, n)
  BY DEF ParserInv, ReadInv
<1>. DEFINE g == Append(file, l)
<1>2. Extended(file, l, g)
  BY <1>1 DEF Extended
<1>. HIDE DEF g
<1>3. ASSUME NEW k \in IntOptions, ~(Belongs(file, l, {"options"}) /\ l.key = k)
      PROVE  OptionOK(configuration.options[k], g, k)
  <2>1. PICK d : d = DefaultOptions[k]
    OBVIOUS
  <2>2. ~(Belongs(file, l, {"options"}) /\ l.key = k) =>
          LastValue(g, k, d) = LastValue(file, k, d)
    BY <1>2, OptionValue
  <2>. QED
    BY <1>1, <1>3, <2>1, <2>2 DEF OptionOK
<1>4. ASSUME NEW n \in ListNames, ~Belongs(file, l, Names(n))
      PROVE  ListOK(configuration.lists[n], g, n)
  <2>1. ListOK(configuration.lists[n], file, n)
    BY <1>1
  <2>. QED
    BY <1>2, <1>4, <2>1, ListStays
<1>5. ASSUME ~(Belongs(file, l, {"options"}) /\ l.key = "throughput_log_kb")
      PROVE  ThroughputOK(configuration.options.throughput_log_every_bytes, g)
  <2>1. \A d : LastValue(g, "throughput_log_kb", d) = LastValue(file, "throughput_log_kb", d)
    BY <1>2, <1>5, OptionValue
  <2>2. ThroughputIn(g) = ThroughputIn(file)
    BY <2>1 DEF ThroughputIn
  <2>. QED
    BY <1>1, <2>2 DEF ThroughputOK
<1>. QED
  BY <1>3, <1>4, <1>5 DEF g

\* A threshold that fits comes out of the multiplication as it is.
LEMMA TimesFits == \A v \in Fitting : Times1024(v) = v
<1>. TAKE v \in Fitting
<1>1. PICK half \in Nat, whole \in Nat : /\ half = 2^21 /\ whole = 2^22
                                        /\ half = 2097152 /\ whole = 4194304
  BY SMT
<1>2. v \in 0..(half - 1)
  BY <1>1, SMT DEF Fitting
<1>3. v \in Nat /\ v < half
  BY <1>2, SMT
<1>4. (v + half) % whole = v + half
  BY <1>1, <1>3, SMT
<1>5. half = 2^21 /\ whole = 2^22
  BY <1>1, SMT
<1>6. Times1024(v) = ((v + half) % whole) - half
  BY <1>5 DEF Times1024
<1>. QED
  BY <1>3, <1>4, <1>6, SMT

\* The line after a configuration that is right so far.
LEMMA LineKeeps ==
    ASSUME ParserInv, NEW l \in Lines, ReadLine(l)
    PROVE  ParserInv'
<1>. DEFINE g == Append(file, l)
            o == configuration.options
            lists == configuration.lists
            every(c) == c.options.throughput_log_every_bytes
<1>1. outcome = "reading" /\ program' = program /\ file' = g
  BY DEF ReadLine
<1>2. /\ program \in {"ntrip2nats", "nats2ntrip"} /\ file \in Seq(Lines)
      /\ {"options", "lists"} \subseteq DOMAIN configuration
      /\ OptionNames \subseteq DOMAIN o /\ DOMAIN lists = ListNames
      /\ CurrentName \in DOMAIN Sections /\ section = Sections[CurrentName]
      /\ \A k \in IntOptions : OptionOK(o[k], file, k)
      /\ \A n \in ListNames : ListOK(lists[n], file, n)
  BY <1>1 DEF ParserInv, ReadInv
<1>3. Extended(file, l, g)
  BY <1>2 DEF Extended
<1>4. /\ \A k \in IntOptions :
            ~(Belongs(file, l, {"options"}) /\ l.key = k) => OptionOK(o[k], g, k)
      /\ ~(Belongs(file, l, {"options"}) /\ l.key = "throughput_log_kb") =>
            ThroughputOK(every(configuration), g)
      /\ \A n \in ListNames : ~Belongs(file, l, Names(n)) => ListOK(lists[n], g, n)
  BY <1>1, OthersStay
<1>5. /\ section \in ListNames \cup {"options"} /\ "options" \notin ListNames
      /\ \A n \in ListNames \cup {"options"} : CurrentName \in Names(n) <=> section = n
      /\ Names("options") = {"options"}
  BY <1>2, SectionFacts
<1>6. \A n \in ListNames \cup {"options"} :
        Belongs(file, l, Names(n)) <=> l.kind \notin {"blank", "section"} /\ section = n
  BY <1>5 DEF Belongs, CurrentName
<1>7. Belongs(file, l, {"options"}) <=> l.kind \notin {"blank", "section"} /\ section = "options"
  <2>1. PICK n : n = "options"
    OBVIOUS
  <2>2. Belongs(file, l, Names(n)) <=> l.kind \notin {"blank", "section"} /\ section = n
    BY <1>6, <2>1
  <2>. QED
    BY <1>5, <2>1, <2>2
<1>. HIDE DEF g
<1>8. ASSUME Reject PROVE ParserInv'
  BY <1>1, <1>8, LineRejected DEF Reject, g
<1>9. CASE l.kind = "blank"
  <2>1. UNCHANGED <<section, configuration, outcome>>
    BY <1>9 DEF ReadLine
  <2>2. \A k \in IntOptions : OptionOK(configuration'.options[k], g, k)
    BY <1>4, <1>7, <1>9, <2>1
  <2>3. \A n \in ListNames : ListOK(configuration'.lists[n], g, n)
    BY <1>4, <1>6, <1>9, <2>1
  <2>4. ThroughputOK(every(configuration'), g)
    BY <1>4, <1>7, <1>9, <2>1
  <2>. QED
    BY <1>1, <1>2, <1>9, <2>1, <2>2, <2>3, <2>4, LineRead DEF g
<1>10. CASE l.kind = "section"
  <2>1. parse_section_header(l)
    BY <1>10 DEF ReadLine
  <2>2. CASE l.name \in DOMAIN Sections
    <3>1. section' = Sections[l.name] /\ UNCHANGED <<configuration, outcome>>
      BY <2>1, <2>2 DEF parse_section_header
    <3>2. \A k \in IntOptions : OptionOK(configuration'.options[k], g, k)
      BY <1>4, <1>7, <1>10, <3>1
    <3>3. \A n \in ListNames : ListOK(configuration'.lists[n], g, n)
      BY <1>4, <1>6, <1>10, <3>1
    <3>4. ThroughputOK(every(configuration'), g)
      BY <1>4, <1>7, <1>10, <3>1
    <3>. QED
      BY <1>1, <1>2, <1>10, <2>2, <3>1, <3>2, <3>3, <3>4, LineRead DEF g
  <2>3. CASE l.name \notin DOMAIN Sections
    BY <1>8, <2>1, <2>3 DEF parse_section_header
  <2>. QED
    BY <2>2, <2>3
<1>11. CASE l.kind \notin {"blank", "section"} /\ section = "options"
  <2>1. parse_options_body_line(l)
    BY <1>11 DEF ReadLine
  <2>2. \A n \in ListNames : ListOK(lists[n], g, n)
    BY <1>4, <1>5, <1>6, <1>11
  <2>3. CASE ~(l.kind = "option" /\ Positive(l.value))
    BY <1>8, <2>1, <2>3 DEF parse_options_body_line
  <2>4. CASE l.kind = "option" /\ Positive(l.value) /\ l.key \in IntOptions
    <3>1. /\ configuration' = [configuration EXCEPT !.options[l.key] = l.value]
          /\ UNCHANGED <<section, outcome>>
      BY <2>1, <2>4 DEF parse_options_body_line, Keep
    <3>2. /\ configuration'.options = [o EXCEPT ![l.key] = l.value]
          /\ configuration'.lists = lists /\ DOMAIN configuration' = DOMAIN configuration
      BY <1>2, <3>1
    <3>3. DOMAIN configuration'.options = DOMAIN o /\ configuration'.options[l.key] = l.value
      BY <1>2, <2>4, <3>2 DEF OptionNames
    <3>4. ASSUME NEW k \in IntOptions PROVE OptionOK(configuration'.options[k], g, k)
      <4>1. CASE k = l.key
        <5>1. PICK d : d = DefaultOptions[k]
          OBVIOUS
        <5>2. LastValue(g, k, d) = l.value
          BY <1>3, <1>7, <1>11, <4>1, OptionValue
        <5>3. 0 < l.value
          BY <2>4 DEF Positive
        <5>. QED
          BY <3>3, <4>1, <5>1, <5>2, <5>3 DEF OptionOK
      <4>2. CASE k # l.key
        <5>1. configuration'.options[k] = o[k]
          BY <1>2, <3>2, <4>2
        <5>. QED
          BY <1>4, <4>2, <5>1
      <4>. QED
        BY <4>1, <4>2
    <3>5. ThroughputOK(every(configuration'), g)
      <4>1. l.key \notin {"throughput_log_kb", "throughput_log_every_bytes"}
        BY <2>4 DEF IntOptions
      <4>2. every(configuration') = every(configuration)
        BY <1>2, <3>2, <4>1 DEF OptionNames
      <4>. QED
        BY <1>4, <4>1, <4>2
    <3>. QED
      BY <1>1, <1>2, <1>11, <2>2, <3>1, <3>2, <3>3, <3>4, <3>5, LineRead DEF g
  <2>5. CASE /\ l.kind = "option" /\ Positive(l.value) /\ l.key \notin IntOptions
             /\ l.key = "throughput_log_kb"
    <3>1. /\ configuration' = [configuration EXCEPT !.options.throughput_log_every_bytes =
                                   Times1024(l.value)]
          /\ UNCHANGED <<section, outcome>>
      BY <2>1, <2>5 DEF parse_options_body_line, Keep
    <3>2. /\ configuration'.options =
               [o EXCEPT !.throughput_log_every_bytes = Times1024(l.value)]
          /\ configuration'.lists = lists /\ DOMAIN configuration' = DOMAIN configuration
      BY <1>2, <3>1
    <3>3. DOMAIN configuration'.options = DOMAIN o
      BY <3>2
    <3>4. ASSUME NEW k \in IntOptions PROVE OptionOK(configuration'.options[k], g, k)
      <4>1. k # "throughput_log_every_bytes" /\ k # l.key
        BY <2>5 DEF IntOptions
      <4>2. configuration'.options[k] = o[k]
        BY <1>2, <3>2, <4>1 DEF OptionNames
      <4>. QED
        BY <1>4, <4>1, <4>2
    <3>5. ThroughputOK(every(configuration'), g)
      <4>1. every(configuration') = Times1024(l.value)
        BY <1>2, <3>2 DEF OptionNames
      <4>2. ThroughputIn(g) = l.value
        <5>1. \A d : LastValue(g, "throughput_log_kb", d) = l.value
          BY <1>3, <1>7, <1>11, <2>5, OptionValue
        <5>. QED
          BY <5>1 DEF ThroughputIn
      <4>3. l.value \in Fitting => Times1024(l.value) = l.value
        BY TimesFits
      <4>. QED
        BY <4>1, <4>2, <4>3 DEF ThroughputOK
    <3>. QED
      BY <1>1, <1>2, <1>11, <2>2, <3>1, <3>2, <3>3, <3>4, <3>5, LineRead DEF g
  <2>6. CASE /\ l.kind = "option" /\ Positive(l.value) /\ l.key \notin IntOptions
             /\ l.key # "throughput_log_kb"
    BY <1>8, <2>1, <2>6 DEF parse_options_body_line
  <2>. QED
    BY <2>3, <2>4, <2>5, <2>6
<1>12. CASE l.kind \notin {"blank", "section"} /\ section # "options"
  <2>1. parse_list_line(l) /\ section \in ListNames
    BY <1>5, <1>12 DEF ReadLine
  <2>2. CASE ~Fits(l)
    BY <1>8, <2>1, <2>2 DEF parse_list_line
  <2>3. CASE Fits(l)
    <3>. DEFINE new == Added(lists[section], l)
    <3>1. /\ configuration' = [configuration EXCEPT !.lists[section] = new]
          /\ UNCHANGED <<section, outcome>>
      BY <2>1, <2>3 DEF parse_list_line, Keep
    <3>. HIDE DEF new
    <3>2. /\ configuration'.lists = [lists EXCEPT ![section] = new]
          /\ configuration'.options = o /\ DOMAIN configuration' = DOMAIN configuration
      BY <1>2, <3>1
    <3>3. DOMAIN configuration'.lists = ListNames /\ configuration'.lists[section] = new
      BY <1>2, <2>1, <3>2
    <3>4. ListOK(new, g, section)
      <4>1. ListOK(lists[section], file, section) /\ Belongs(file, l, Names(section))
        BY <1>2, <1>6, <1>12, <2>1
      <4>. QED
        BY <1>3, <4>1, ListGrows DEF Added, new
    <3>5. ASSUME NEW n \in ListNames PROVE ListOK(configuration'.lists[n], g, n)
      <4>1. CASE n = section
        BY <3>3, <3>4, <4>1
      <4>2. CASE n # section
        <5>1. configuration'.lists[n] = lists[n]
          BY <1>2, <3>2, <4>2
        <5>2. ~Belongs(file, l, Names(n))
          BY <1>6, <4>2
        <5>. QED
          BY <1>4, <5>1, <5>2
      <4>. QED
        BY <4>1, <4>2
    <3>6. \A k \in IntOptions : OptionOK(configuration'.options[k], g, k)
      BY <1>4, <1>7, <1>12, <3>2
    <3>7. ThroughputOK(every(configuration'), g)
      BY <1>4, <1>7, <1>12, <3>2
    <3>. QED
      BY <1>1, <1>2, <1>12, <3>1, <3>2, <3>3, <3>5, <3>6, <3>7, LineRead DEF g
  <2>. QED
    BY <2>2, <2>3
<1>. QED
  BY <1>9, <1>10, <1>11, <1>12

\* ParserInv is inductive.
LEMMA ParserInductive == ParserSpec => []ParserInv
<1>1. ASSUME ParserInv, [ParserNext]_parserVars PROVE ParserInv'
  <2>1. ASSUME NEW l \in Lines, ReadLine(l) PROVE ParserInv'
    BY <1>1, <2>1, LineKeeps
  <2>2. CASE EndOfFile
    <3>1. /\ UNCHANGED <<program, file, section, configuration>> /\ outcome = "reading"
          /\ outcome' = IF Usable THEN "accepted" ELSE "rejected"
      BY <2>2 DEF EndOfFile
    <3>2. Sections' = Sections /\ ListNames' = ListNames /\ CurrentName' = CurrentName
      BY <3>1, SectionsKept DEF CurrentName
    <3>3. (Usable)' <=> Usable
      BY <3>1, <3>2 DEF Usable
    <3>4. ReadInv => ReadInv'
      BY <3>1, <3>2 DEF ReadInv, OptionOK, ThroughputOK, ThroughputIn, ListOK
    <3>. QED
      BY <1>1, <3>1, <3>2, <3>3, <3>4 DEF ParserInv
  <2>3. CASE UNCHANGED parserVars
    <3>1. UNCHANGED <<program, file, section, configuration, outcome>>
      BY <2>3 DEF parserVars
    <3>2. Sections' = Sections /\ ListNames' = ListNames /\ CurrentName' = CurrentName
      BY <3>1, SectionsKept DEF CurrentName
    <3>3. (Usable)' <=> Usable
      BY <3>1, <3>2 DEF Usable
    <3>4. ReadInv => ReadInv'
      BY <3>1, <3>2 DEF ReadInv, OptionOK, ThroughputOK, ThroughputIn, ListOK
    <3>. QED
      BY <1>1, <3>1, <3>2, <3>3, <3>4 DEF ParserInv
  <2>. QED
    BY <1>1, <2>1, <2>2, <2>3 DEF ParserNext
<1>. QED
  BY <1>1, ParserStart, PTL DEF ParserSpec

\* An accepted configuration is what the file says, whatever lines it has:
\* the size of the read buffer and the two delays have the value of their last
\* line in whatever options section or their default, and so has the threshold
\* of the progress log if its bytes fit an int; the lists are the entries of all
\* the sections of their names in the order of the file, and the destination is
\* the last one (parse_configuration() of both programs).
THEOREM ConfigurationAsWritten == ParserSpec => []AsWritten
<1>1. ASSUME ParserInv PROVE AsWritten
  <2>. SUFFICES ASSUME outcome = "accepted" PROVE AsWritten
    BY DEF AsWritten
  <2>1. ReadInv /\ Usable
    BY <1>1 DEF ParserInv
  <2>2. \A k \in IntOptions :
          configuration.options[k] = LastValue(file, k, DefaultOptions[k])
    BY <2>1 DEF ReadInv, OptionOK
  <2>3. ThroughputIn(file) \in Fitting =>
          configuration.options.throughput_log_every_bytes = ThroughputIn(file)
    BY <2>1 DEF ReadInv, ThroughputOK
  <2>4. ASSUME NEW n \in ListNames
        PROVE  IF n = "destination"
               THEN configuration.lists[n] = <<file[Latest(EntryLines(file, Names(n)))]>>
               ELSE InOrder(configuration.lists[n], file, EntryLines(file, Names(n)))
    <3>1. ListOK(configuration.lists[n], file, n) /\ configuration.lists[n] # <<>>
      BY <2>1 DEF ReadInv, Usable
    <3>. QED
      BY <3>1 DEF ListOK
  <2>. QED
    BY <2>2, <2>3, <2>4 DEF AsWritten
<1>. QED
  BY <1>1, ParserInductive, PTL

\* What the sessions and connections rely on holds of every configuration that
\* is accepted: the back-off starts above zero and within its limit, the read
\* buffer is not empty, and the file has an entry for every list.
THEOREM ConfigurationUsable == ParserSpec => []AcceptedIsUsable
<1>1. ASSUME ParserInv PROVE AcceptedIsUsable
  <2>. SUFFICES ASSUME outcome = "accepted" PROVE AcceptedIsUsable
    BY DEF AcceptedIsUsable
  <2>1. ReadInv /\ Usable
    BY <1>1 DEF ParserInv
  <2>2. \A k \in IntOptions : 0 < configuration.options[k]
    BY <2>1 DEF ReadInv, OptionOK
  <2>3. 0 < configuration.options.reconnect_min_sec /\ 0 < configuration.options.read_buffer_bytes
    BY <2>2 DEF IntOptions
  <2>4. ASSUME NEW n \in ListNames PROVE EntryLines(file, Names(n)) # {}
    <3>. DEFINE lines == EntryLines(file, Names(n))
    <3>1. ListOK(configuration.lists[n], file, n) /\ configuration.lists[n] # <<>>
      BY <2>1 DEF ReadInv, Usable
    <3>2. /\ configuration.lists[n] \in Seq(Lines)
          /\ n = "destination" => (lines = {} => configuration.lists[n] = <<>>)
          /\ n # "destination" => InOrder(configuration.lists[n], file, lines)
      BY <3>1 DEF ListOK
    <3>. HIDE DEF lines
    <3>3. lines # {}
      BY <3>1, <3>2, OrderEmpty
    <3>. QED
      BY <3>3 DEF lines
  <2>. QED
    BY <2>1, <2>3, <2>4 DEF AcceptedIsUsable, Usable
<1>. QED
  BY <1>1, ParserInductive, PTL

\* main of nats2ntrip builds one session for each mountpoint and has at least
\* one to build: BridgeAssumption holds of the number of mountpoints of every
\* configuration that its parser accepts.
THEOREM SomethingToBridge ==
    ParserSpec => [](outcome = "accepted" /\ program = "nats2ntrip"
                   => Len(configuration.lists["mountpoints"]) \in Nat \ {0})
<1>1. ASSUME ParserInv, outcome = "accepted", program = "nats2ntrip"
      PROVE  Len(configuration.lists["mountpoints"]) \in Nat \ {0}
  <2>1. ReadInv /\ Usable
    BY <1>1 DEF ParserInv
  <2>2. "mountpoints" \in ListNames
    <3>1. Sections = Nats2NtripSections
      BY <1>1 DEF Sections
    <3>2. "nats_mountpoints" \in DOMAIN Sections
          /\ Sections["nats_mountpoints"] = "mountpoints"
      BY <3>1 DEF Nats2NtripSections
    <3>. QED
      BY <3>2 DEF ListNames
  <2>3. /\ configuration.lists["mountpoints"] \in Seq(Lines)
        /\ configuration.lists["mountpoints"] # <<>>
    BY <2>1, <2>2 DEF ReadInv, ListOK, Usable
  <2>. QED
    BY <2>3
<1>. QED
  BY <1>1, ParserInductive, PTL
=============================================================================

----------------------------- MODULE BridgeMain -----------------------------
(***************************************************************************)
(* main() of nats2ntrip from the moment its configuration is read: it      *)
(* acquires the NATS options, the NATS connection and, per mountpoint, an  *)
(* NTRIP connection and a session, waits for a signal, and gives all of it *)
(* back.  Any acquisition may fail and throw; what was acquired so far is  *)
(* then given back by the destructors of the locals.                       *)
(*                                                                         *)
(* Between start and destruction each session goes through the steps of    *)
(* SessionLife while main is elsewhere.  handle_signal() runs whenever a   *)
(* signal arrives, on whatever thread, without g_stop_mtx: its two         *)
(* statements are two steps, and so are the test of the predicate of       *)
(* g_stop_cv.wait and the blocking that follows it.                        *)
(*                                                                         *)
(* Of the Logger only the end is modelled: its destructor tells the writer *)
(* to end and joins it, and the writer may miss that (see Logger).         *)
(***************************************************************************)
EXTENDS Naturals

CONSTANTS
    Mountpoints,        \* number of mountpoints configured
    MaxSignals          \* bound of the model: signals in a behaviour

\* A configuration without mountpoints is rejected by the parser.
ASSUME BridgeAssumption == Mountpoints \in Nat \ {0} /\ MaxSignals \in Nat

VARIABLES
    pc,                 \* where main is
    nats_options,       \* are they created and not yet destroyed?
    nat_connection,
    ntrip_connections,  \* the mountpoints whose connection exists
    life,               \* the life of each mountpoint's session
    sessions,           \* the sessions that exist
    started,            \* the mountpoints whose loop iteration is over
    logger,             \* its life: see Loggers
    exit_code,
    g_stop,
    handler,            \* "idle", or "notify" between its two statements
    signals,            \* the signals that arrived
    missed              \* history: notified between the test and the blocking

resourceVars == <<nats_options, nat_connection, ntrip_connections, logger>>
sessionVars  == <<life, sessions, started>>
signalVars   == <<g_stop, handler, signals, missed>>
vars == <<pc, resourceVars, sessionVars, exit_code, signalVars>>

S == INSTANCE SessionLife

\* "alive" until its destructor begins, then "ending" or "asleep" (the writer
\* heard of it or not), "ended" (the writer is done) and "gone".
Loggers == {"alive", "ending", "asleep", "ended", "gone"}

Session == 1..Mountpoints

\* The mountpoint of the iteration main is in.
Current == started + 1

Init == /\ pc = "options"
        /\ nats_options = FALSE /\ nat_connection = FALSE
        /\ ntrip_connections = {}
        /\ life = [i \in Session |-> S!NewLife]
        /\ sessions = {} /\ started = 0
        /\ logger = "alive" /\ exit_code = 0
        /\ g_stop = FALSE /\ handler = "idle" /\ signals = 0 /\ missed = FALSE

------------------------------------------------------------------------------
(* Start-up. *)

\* Faulty: main returns 0 after a failure.
ThrowIgnored(p) == pc' = p /\ UNCHANGED exit_code

\* An exception: the destructors run from p on, and main returns 1.
Throw(p) == pc' = p /\ exit_code' = 1

natsOptions_Create ==
    /\ pc = "options"
    /\ \/ nats_options' = TRUE /\ pc' = "connect" /\ UNCHANGED exit_code
       \/ Throw("drop_logger") /\ UNCHANGED nats_options
    /\ UNCHANGED <<nat_connection, ntrip_connections, logger, sessionVars, signalVars>>

\* Faulty: a bare pointer, which the failing connection leaves behind.
ConnectFailedLeakingOptions == Throw("drop_logger")

ConnectFailed == Throw("drop_options")

natsConnection_Connect ==
    /\ pc = "connect"
    /\ \/ nat_connection' = TRUE /\ pc' = "create" /\ UNCHANGED exit_code
       \/ ConnectFailed /\ UNCHANGED nat_connection
    /\ UNCHANGED <<nats_options, ntrip_connections, logger, sessionVars, signalVars>>

\* ntripOptions_Create and ntripConnection_Create of the current mountpoint;
\* the NTRIP options do not outlive the iteration.
ntripConnection_Create ==
    /\ pc = "create"
    /\ \/ /\ ntrip_connections' = ntrip_connections \cup {Current}
          /\ sessions' = sessions \cup {Current}
          /\ pc' = "start"
          /\ UNCHANGED exit_code
       \/ Throw("drop_sessions") /\ UNCHANGED <<ntrip_connections, sessions>>
    /\ UNCHANGED <<nats_options, nat_connection, logger, life, started, signalVars>>

\* session->start(), which throws when the session has failed.
start ==
    /\ pc = "start"
    /\ \E m \in S!Lives : /\ S!StartStep(life[Current], m)
                         /\ life' = [life EXCEPT ![Current] = m]
    /\ IF life'[Current].phase = "failed" THEN Throw("drop_session")
                                          ELSE UNCHANGED <<pc, exit_code>>
    /\ UNCHANGED <<resourceVars, sessions, started, signalVars>>

LastIteration == Current = Mountpoints

\* The end of an iteration, and of the loop.
push_back ==
    /\ pc = "start"
    /\ life[Current].phase = "running"
    /\ started' = Current
    /\ pc' = IF LastIteration THEN "test" ELSE "create"
    /\ UNCHANGED <<resourceVars, life, sessions, exit_code, signalVars>>

------------------------------------------------------------------------------
(* The wait for a signal, and the signals. *)

\* The predicate of g_stop_cv.wait.
WaitTest ==
    /\ pc = "test"
    /\ pc' = IF g_stop THEN "drop_sessions" ELSE "block"
    /\ UNCHANGED <<resourceVars, sessionVars, exit_code, signalVars>>

WaitBlock ==
    /\ pc = "block"
    /\ pc' = "blocked"
    /\ UNCHANGED <<resourceVars, sessionVars, exit_code, signalVars>>

SpuriousWakeup ==
    /\ pc = "blocked"
    /\ pc' = "test"
    /\ UNCHANGED <<resourceVars, sessionVars, exit_code, signalVars>>

\* handle_signal(): g_stop = true.
Signal ==
    /\ handler = "idle" /\ signals < MaxSignals /\ pc # "exited"
    /\ signals' = signals + 1
    /\ g_stop' = TRUE
    /\ handler' = "notify"
    /\ UNCHANGED <<pc, resourceVars, sessionVars, exit_code, missed>>

\* Faulty: the handler only sets the flag.
SignalNotifyForgotten ==
    /\ handler = "notify"
    /\ handler' = "idle"
    /\ UNCHANGED <<pc, resourceVars, sessionVars, exit_code, g_stop, signals, missed>>

\* handle_signal(): g_stop_cv.notify_all(), which wakes main if it is blocked.
SignalNotify ==
    /\ handler = "notify"
    /\ handler' = "idle"
    /\ pc' = IF pc = "blocked" THEN "test" ELSE pc
    /\ missed' = (missed \/ pc = "block")
    /\ UNCHANGED <<resourceVars, sessionVars, exit_code, g_stop, signals>>

------------------------------------------------------------------------------
(* The way out: stream_sessions.clear() after a signal, and the destructors  *)
(* of the locals in the reverse order of their declaration.                  *)

Destroyed(i) == life[i].phase = "destroyed"

\* A step of stop() of session i, which is gone after the last one.
DestroyStep(i) ==
    /\ \E m \in S!Lives : S!StopStep(life[i], m) /\ life' = [life EXCEPT ![i] = m]
    /\ sessions' = IF life'[i].phase = "destroyed" THEN sessions \ {i} ELSE sessions
    /\ UNCHANGED started

\* The failed session, a local of the loop body, and then its connection.
DropSession ==
    /\ pc = "drop_session"
    /\ DestroyStep(Current)
    /\ pc' = IF Current \in sessions' THEN pc ELSE "drop_connection"
    /\ UNCHANGED <<resourceVars, exit_code, signalVars>>

DropConnection ==
    /\ pc = "drop_connection"
    /\ ntrip_connections' = ntrip_connections \ {Current}
    /\ pc' = "drop_sessions"
    /\ UNCHANGED <<nats_options, nat_connection, logger, sessionVars, exit_code,
                   signalVars>>

\* Faulty: the vector of the connections is declared after that of the sessions.
DropSessionsLate ==
    /\ pc = "drop_sessions"
    /\ \/ /\ ntrip_connections # {}
          /\ ntrip_connections' = ntrip_connections \ {CHOOSE i \in ntrip_connections : TRUE}
          /\ UNCHANGED <<pc, sessionVars>>
       \/ /\ ntrip_connections = {}
          /\ \E i \in sessions : /\ \A j \in sessions : i <= j
                                 /\ DestroyStep(i)
          /\ UNCHANGED <<pc, ntrip_connections>>
       \/ /\ ntrip_connections = {} /\ sessions = {}
          /\ pc' = "drop_connections"
          /\ UNCHANGED <<sessionVars, ntrip_connections>>
    /\ UNCHANGED <<nats_options, nat_connection, logger, exit_code, signalVars>>

\* The vector of the sessions, from the front.
DropSessions ==
    /\ pc = "drop_sessions"
    /\ \/ /\ \E i \in sessions : /\ \A j \in sessions : i <= j
                                 /\ DestroyStep(i)
          /\ UNCHANGED pc
       \/ sessions = {} /\ pc' = "drop_connections" /\ UNCHANGED sessionVars
    /\ UNCHANGED <<resourceVars, exit_code, signalVars>>

\* The vector of the connections, the NATS connection and the NATS options.
DropConnections ==
    /\ pc = "drop_connections"
    /\ ntrip_connections' = {}
    /\ pc' = "drop_nats"
    /\ UNCHANGED <<nats_options, nat_connection, logger, sessionVars, exit_code,
                   signalVars>>

DropNats ==
    /\ pc = "drop_nats"
    /\ nat_connection' = FALSE
    /\ pc' = "drop_options"
    /\ UNCHANGED <<nats_options, ntrip_connections, logger, sessionVars, exit_code,
                   signalVars>>

DropOptions ==
    /\ pc = "drop_options"
    /\ nats_options' = FALSE
    /\ pc' = "drop_logger"
    /\ UNCHANGED <<nat_connection, ntrip_connections, logger, sessionVars, exit_code,
                   signalVars>>

\* main logs what it caught and returns: the Logger is the last local.
\* ~Logger() sets stop_ and notifies without mtx_, which the writer misses if
\* it is between its test of stop_ and its blocking.
DropLogger ==
    /\ pc = "drop_logger"
    /\ logger' \in {"ending", "asleep"}
    /\ pc' = "join_logger"
    /\ UNCHANGED <<nats_options, nat_connection, ntrip_connections, sessionVars,
                   exit_code, signalVars>>

JoinLogger ==
    /\ pc = "join_logger"
    /\ logger = "ended"
    /\ logger' = "gone"
    /\ pc' = "exited"
    /\ UNCHANGED <<nats_options, nat_connection, ntrip_connections, sessionVars,
                   exit_code, signalVars>>

------------------------------------------------------------------------------
\* The worker of a session ends: see S!WorkerEnds.
WorkerEnds(i) ==
    /\ \E m \in S!Lives : /\ S!WorkerEnds(life[i], m, g_stop)
                          /\ life' = [life EXCEPT ![i] = m]
    /\ UNCHANGED <<pc, resourceVars, sessions, started, exit_code, signalVars>>

\* The writer of the Logger has written what is queued.
WriterEnds ==
    /\ logger = "ending"
    /\ logger' = "ended"
    /\ UNCHANGED <<pc, nats_options, nat_connection, ntrip_connections, sessionVars,
                   exit_code, signalVars>>

\* It wakes up without a notification, and finds stop_ set.
WriterWakes ==
    /\ logger = "asleep"
    /\ logger' = "ending"
    /\ UNCHANGED <<pc, nats_options, nat_connection, ntrip_connections, sessionVars,
                   exit_code, signalVars>>

\* The process is over.
Exited == pc = "exited" /\ UNCHANGED vars

Main == \/ natsOptions_Create \/ natsConnection_Connect \/ ntripConnection_Create
        \/ start \/ push_back \/ WaitTest \/ WaitBlock
        \/ DropSession \/ DropConnection \/ DropSessions \/ DropConnections
        \/ DropNats \/ DropOptions \/ DropLogger \/ JoinLogger

Next == \/ Main \/ SpuriousWakeup
        \/ Signal \/ SignalNotify
        \/ \E i \in Session : WorkerEnds(i)
        \/ WriterEnds \/ WriterWakes
        \/ Exited

Spec == Init /\ [][Next]_vars

\* main runs on unless it waits for somebody (its calls into the NATS library
\* return), a handler that was entered returns, and the writer of the Logger
\* writes what is queued.  Nothing is assumed of the workers of the sessions.
Fairness == WF_vars(Main) /\ WF_vars(SignalNotify) /\ WF_vars(WriterEnds)

FairSpec == Spec /\ Fairness

------------------------------------------------------------------------------
(* Properties. *)

\* The values of the variables.
TypeOK ==
    /\ pc \in {"options", "connect", "create", "start", "test", "block", "blocked",
               "drop_session", "drop_connection", "drop_sessions",
               "drop_connections", "drop_nats", "drop_options", "drop_logger",
               "join_logger", "exited"}
    /\ nats_options \in BOOLEAN /\ nat_connection \in BOOLEAN /\ logger \in Loggers
    /\ ntrip_connections \subseteq Session /\ sessions \subseteq Session
    /\ life \in [Session -> S!Lives]
    /\ started \in 0..Mountpoints
    /\ exit_code \in {0, 1}
    /\ g_stop \in BOOLEAN /\ missed \in BOOLEAN
    /\ handler \in {"idle", "notify"} /\ signals \in 0..MaxSignals

\* A session keeps bare pointers and references: as long as its worker runs or
\* NATS may call it back, the session, its NTRIP connection, the NATS connection
\* and the logger exist, and the logger's destructor has not begun (the order of
\* main's declarations).
NothingDangles ==
    \A i \in Session :
        life[i].worker = "alive" \/ life[i].subscription = "live" =>
            /\ i \in sessions /\ i \in ntrip_connections
            /\ nat_connection /\ logger = "alive"

\* Whatever failed and wherever a signal struck, main returns with everything
\* it acquired given back.
NothingLeft ==
    pc = "exited" =>
        /\ ~nats_options /\ ~nat_connection /\ logger = "gone"
        /\ ntrip_connections = {} /\ sessions = {}
        /\ \A i \in Session : Destroyed(i) \/ life[i] = S!NewLife

\* What main acquires lives long enough and no longer: the order of the
\* declarations and of the calls at the end of main, on every way out.
Lifetimes == NothingDangles /\ NothingLeft

\* A session that could not start brings the bridge down: main waits for the
\* signal, and returns 0, only with every mountpoint bridged.
AllOrNothing ==
    pc \in {"test", "block", "blocked"} \/ (pc = "exited" /\ exit_code = 0) =>
        \A i \in Session : life[i].worker # "none"

\* The wake-up is lost only if handle_signal() runs between main's test of
\* g_stop and its blocking (it does not take g_stop_mtx).
HangsOnlyIfMissed ==
    pc = "blocked" /\ g_stop /\ handler = "idle" => missed

\* In every state, whatever failed: main waits for the signal with all sessions
\* running or not at all, and sleeps through one only in that window.
Inv == TypeOK /\ AllOrNothing /\ HangsOnlyIfMissed

\* What stop() of a session waits for: its worker ends.  The worker may be in a
\* network call, and those have no timeout; StreamSession shows that it ends if
\* they return (StopCompletes).
WorkersEnd ==
    \A i \in Session : life[i].phase = "joining" ~> life[i].worker # "alive"

\* main waits for a notification that was given and lost: handle_signal() came
\* between its test and its blocking, or ~Logger() between those of the writer.
SignalLost == pc = "blocked" /\ missed
EndLost == pc = "join_logger" /\ logger = "asleep"

\* Provided that the workers end when they are told to, the bridge ends after a
\* failure and after a signal, unless a notification is lost in one of the two
\* places that notify without the mutex; and a signal that finds main blocked
\* gets it out of there: the operator's second Ctrl+C makes up for a first one
\* that was lost.
Ends ==
    WorkersEnd =>
        /\ (g_stop \/ exit_code = 1) ~> (pc = "exited" \/ SignalLost \/ EndLost)
        /\ (pc = "blocked" /\ handler = "notify") ~> (pc = "exited" \/ EndLost)
==============================================================================

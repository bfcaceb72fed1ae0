----------------------------- MODULE NatsDecoder -----------------------------
(***************************************************************************)
(* rtcm_decoder_nats: main(), which acquires its NATS objects by hand,     *)
(* polls g_running and gives everything back, and the NATS delivery        *)
(* thread, which runs on_nats_msg at the same time.                        *)
(*                                                                         *)
(* What push() makes of the bytes is in RtcmFramer; here a push finds some *)
(* frames, and counts each as good or bad in a step of its own: main reads *)
(* the two counters for its last line, one after the other, while a push   *)
(* may be under way.                                                       *)
(***************************************************************************)
EXTENDS Naturals, Sequences

CONSTANT MaxFrames      \* bound: frames that are counted in a behaviour

VARIABLES
    pc,                         \* where main is
    live,                       \* which of "opts", "nc" and "sub" exist
    todo,                       \* what main destroys before its early return
    wrong,                      \* history: destroyed without existing
    lib,                        \* "open", or "closed" by nats_Close()
    returned,                   \* what main returned
    g_running,
    seen,                       \* history: the counters when main left its loop
    report,                     \* the last line: its two numbers
    inbox,                      \* messages queued for the subscription
    callback,                   \* "idle" or "push"
    frames_ok, frames_bad_crc,
    fed                         \* history: the messages push() was given

mainVars == <<pc, live, todo, wrong, lib, returned, seen, report>>
pushVars == <<callback, frames_ok, frames_bad_crc, fed>>
vars == <<mainVars, g_running, inbox, pushVars>>

Init == /\ pc = "options" /\ live = {} /\ todo = <<>> /\ wrong = {}
        /\ lib = "open" /\ returned = 0
        /\ seen = [ok |-> 0, bad |-> 0] /\ report = seen
        /\ g_running = TRUE /\ inbox = <<>>
        /\ callback = "idle" /\ frames_ok = 0 /\ frames_bad_crc = 0 /\ fed = <<>>

------------------------------------------------------------------------------
(* main().  A step that fails is followed by the calls that the code writes   *)
(* out at that place, and by return 1.                                       *)

Acquire(what, next) ==
    live' = live \cup {what} /\ pc' = next /\ UNCHANGED <<todo, returned>>

Fail(calls) ==
    pc' = "fail" /\ todo' = calls /\ returned' = 1 /\ UNCHANGED live

\* natsSubscription_Destroy, natsConnection_Destroy or natsOptions_Destroy, which
\* may be called only for what exists.
Destroy(what) ==
    live' = live \ {what} /\ wrong' = wrong \cup ({what} \ live)

natsOptions_Create ==
    /\ pc = "options"
    /\ Acquire("opts", "servers") \/ Fail(<<>>)
    /\ UNCHANGED <<wrong, lib, seen, report, g_running, inbox, pushVars>>

\* split_csv() and natsOptions_SetServers.
SetServers ==
    /\ pc = "servers"
    /\ \/ pc' = "connect" /\ UNCHANGED <<live, todo, returned>>
       \/ Fail(<<"opts">>)
    /\ UNCHANGED <<wrong, lib, seen, report, g_running, inbox, pushVars>>

\* Faulty: the calls of the next failure, though there is no connection.
ConnectFailedAsSubscribed == Fail(<<"nc", "opts">>)

ConnectFailed == Fail(<<"opts">>)

natsConnection_Connect ==
    /\ pc = "connect"
    /\ Acquire("nc", "subscribe") \/ ConnectFailed
    /\ UNCHANGED <<wrong, lib, seen, report, g_running, inbox, pushVars>>

\* Faulty: the connection is forgotten.
SubscribeFailedLeaking == Fail(<<"opts">>)

SubscribeFailed == Fail(<<"nc", "opts">>)

natsConnection_Subscribe ==
    /\ pc = "subscribe"
    /\ Acquire("sub", "poll") \/ SubscribeFailed
    /\ UNCHANGED <<wrong, lib, seen, report, g_running, inbox, pushVars>>

\* The next of these calls, and the return after the last one.
FailDestroy ==
    /\ pc = "fail" /\ todo # <<>>
    /\ Destroy(Head(todo))
    /\ todo' = Tail(todo)
    /\ UNCHANGED <<pc, returned, lib, seen, report, g_running, inbox, pushVars>>

FailReturn ==
    /\ pc = "fail" /\ todo = <<>>
    /\ pc' = "exited"
    /\ UNCHANGED <<live, todo, wrong, returned, lib, seen, report, g_running, inbox,
                   pushVars>>

\* Faulty: the loop does not look at the flag.
StopsNever == FALSE

\* What the loop's condition reads.
Stops == ~g_running

\* The end of the polling loop: the signal came some time before.
Poll ==
    /\ pc = "poll" /\ Stops
    /\ pc' = "report_ok"
    /\ seen' = [ok |-> frames_ok, bad |-> frames_bad_crc]
    /\ UNCHANGED <<live, todo, wrong, lib, returned, report, g_running, inbox, pushVars>>

ReportOk ==
    /\ pc = "report_ok"
    /\ report' = [report EXCEPT !.ok = frames_ok]
    /\ pc' = "report_bad"
    /\ UNCHANGED <<live, todo, wrong, lib, returned, seen, g_running, inbox, pushVars>>

ReportBad ==
    /\ pc = "report_bad"
    /\ report' = [report EXCEPT !.bad = frames_bad_crc]
    /\ pc' = "drop_sub"
    /\ UNCHANGED <<live, todo, wrong, lib, returned, seen, g_running, inbox, pushVars>>

\* The queued messages go with the subscription; a callback that is running
\* goes on.
natsSubscription_Destroy ==
    /\ pc = "drop_sub"
    /\ Destroy("sub") /\ inbox' = <<>>
    /\ pc' = "drop_nc"
    /\ UNCHANGED <<todo, lib, returned, seen, report, g_running, pushVars>>

natsConnection_Destroy ==
    /\ pc = "drop_nc"
    /\ Destroy("nc")
    /\ pc' = "drop_opts"
    /\ UNCHANGED <<todo, lib, returned, seen, report, g_running, inbox, pushVars>>

natsOptions_Destroy ==
    /\ pc = "drop_opts"
    /\ Destroy("opts")
    /\ pc' = "close"
    /\ UNCHANGED <<todo, lib, returned, seen, report, g_running, inbox, pushVars>>

nats_Close ==
    /\ pc = "close"
    /\ lib' = "closed" /\ pc' = "exited"
    /\ UNCHANGED <<live, todo, wrong, returned, seen, report, g_running, inbox, pushVars>>

Main == \/ natsOptions_Create \/ SetServers \/ natsConnection_Connect
        \/ natsConnection_Subscribe \/ FailDestroy \/ FailReturn
        \/ Poll \/ ReportOk \/ ReportBad
        \/ natsSubscription_Destroy \/ natsConnection_Destroy
        \/ natsOptions_Destroy \/ nats_Close

------------------------------------------------------------------------------
(* The signal, and the delivery thread, which lives until the process ends. *)

on_signal ==
    /\ g_running /\ pc # "exited"
    /\ g_running' = FALSE
    /\ UNCHANGED <<mainVars, inbox, pushVars>>

\* Faulty: the counters are those of a single push.
PushOfFreshFramer ==
    callback' = "push" /\ frames_ok' = 0 /\ frames_bad_crc' = 0

Push == callback' = "push" /\ UNCHANGED <<frames_ok, frames_bad_crc>>

on_nats_msg ==
    /\ pc # "exited" /\ "sub" \in live
    /\ callback = "idle" /\ inbox # <<>>
    /\ Push
    /\ fed' = Append(fed, Head(inbox)) /\ inbox' = Tail(inbox)
    /\ UNCHANGED <<mainVars, g_running>>

\* The next complete candidate, with a good checksum or a bad one.
Frame ==
    /\ pc # "exited" /\ callback = "push"
    /\ frames_ok + frames_bad_crc < MaxFrames
    /\ \/ frames_ok' = frames_ok + 1 /\ UNCHANGED frames_bad_crc
       \/ frames_bad_crc' = frames_bad_crc + 1 /\ UNCHANGED frames_ok
    /\ UNCHANGED <<mainVars, g_running, inbox, callback, fed>>

\* push() and on_nats_msg return.
Return ==
    /\ pc # "exited" /\ callback = "push"
    /\ callback' = "idle"
    /\ UNCHANGED <<mainVars, g_running, inbox, frames_ok, frames_bad_crc, fed>>

Deliver == on_nats_msg \/ Frame \/ Return

Next == Main \/ on_signal \/ Deliver

------------------------------------------------------------------------------
(* Properties. *)

\* The values of the variables that tell the states of main apart.
TypeOK ==
    /\ pc \in {"options", "servers", "connect", "subscribe", "poll", "report_ok",
               "report_bad", "drop_sub", "drop_nc", "drop_opts", "close", "fail",
               "exited"}
    /\ live \subseteq {"opts", "nc", "sub"} /\ wrong \subseteq {"opts", "nc", "sub"}
    /\ todo \in {<<>>, <<"opts">>, <<"nc", "opts">>} /\ lib \in {"open", "closed"}
    /\ callback \in {"idle", "push"} /\ frames_ok + frames_bad_crc <= MaxFrames

\* Whatever fails, main has destroyed everything it created when it returns.  It
\* never destroys what it did not create, or destroyed before, nor a thing before
\* those that hang on it; and it closes the library last, and only when all went
\* well.
CleanExit ==
    /\ pc = "exited" => live = {}
    /\ wrong = {}
    /\ "sub" \in live => "nc" \in live
    /\ "nc" \in live => "opts" \in live
    /\ lib = "closed" => returned = 0 /\ live = {}

\* The last line never shows fewer frames than had been counted when the
\* signal was noticed, nor more than were counted in the end, although it is
\* read while the delivery thread goes on counting.
ReportWithinBounds ==
    pc \in {"drop_sub", "drop_nc", "drop_opts", "close"} \/ lib = "closed" =>
        /\ seen.ok <= report.ok /\ report.ok <= frames_ok
        /\ seen.bad <= report.bad /\ report.bad <= frames_bad_crc
==============================================================================

----------------------------- MODULE Ntrip2Nats -----------------------------
(***************************************************************************)
(* main() of ntrip2nats from the moment its configuration is read, and     *)
(* StreamSession::handle_stream, which publishes what a connection hands   *)
(* over.  Everything after start-up runs on the one thread in io.run(), so *)
(* a call of the handler is one step, and an exception during start-up     *)
(* destroys the locals in one step: no handler has run yet.                *)
(*                                                                         *)
(* What a source hands over is the clean payload of NtripConnection.  The  *)
(* chunk of size bytes at offset off of source k is the record             *)
(* [src |-> k, off |-> off, size |-> size].                                *)
(***************************************************************************)
EXTENDS Naturals, Sequences, FiniteSets

CONSTANTS
    Sources,            \* number of sources configured
    ThroughputEvery,    \* throughput_log_every_bytes, as long as it is positive
    ChunkSizes,         \* sizes of what one read hands over
    MaxBytes            \* bound: bytes followed per source

VARIABLES
    pc,                 \* where main is
    consuming,          \* the sources whose session was started
    exit_code,
    total_, last_log_,  \* per source: bytes handed over, and at the last line
    handed,             \* history: the chunks handed over, of all sources
    transit             \* what was published and is on its way through NATS

vars == <<pc, consuming, exit_code, total_, last_log_, handed, transit>>

Source == 1..Sources

\* The source of the iteration main is in.
Current == Cardinality(consuming) + 1

Init == /\ pc = "options" /\ consuming = {} /\ exit_code = 0
        /\ total_ = [k \in Source |-> 0] /\ last_log_ = total_
        /\ handed = {} /\ transit = <<>>

------------------------------------------------------------------------------
(* Start-up: every step succeeds or throws. *)

streamVars == <<total_, last_log_, handed, transit>>

\* Faulty: the source that fails is skipped.
ThrowSkipping == pc' = "run" /\ UNCHANGED <<exit_code, consuming>>

\* What was acquired is given back, and main returns 1.
Throw == pc' = "exited" /\ exit_code' = 1 /\ consuming' = {}

natsOptions_Create ==
    /\ pc = "options"
    /\ \/ pc' = "connect" /\ UNCHANGED <<exit_code, consuming>>
       \/ Throw
    /\ UNCHANGED streamVars

natsConnection_Connect ==
    /\ pc = "connect"
    /\ \/ pc' = "create" /\ UNCHANGED <<exit_code, consuming>>
       \/ Throw
    /\ UNCHANGED streamVars

\* One iteration: create the NTRIP connection and its session, and start it.
StartSource ==
    /\ pc = "create"
    /\ \/ /\ consuming' = consuming \cup {Current}
          /\ pc' = IF Current = Sources THEN "run" ELSE "create"
          /\ UNCHANGED exit_code
       \/ Throw
    /\ UNCHANGED streamVars

------------------------------------------------------------------------------
(* io.run(). *)

\* Faulty: a publication that was reported as failed is repeated.
SentTwice(c) == transit' = transit \o <<c, c>>

\* natsConnection_Publish queues the bytes, or fails and they are gone.
Sent(c) == transit' = Append(transit, c)

\* A line of throughput is due after that many bytes.
LineDue(bytes) == bytes >= ThroughputEvery

handle_stream(k, n) ==
    /\ pc = "run" /\ k \in consuming
    /\ total_[k] + n <= MaxBytes
    /\ LET c == [src |-> k, off |-> total_[k], size |-> n]
           t == total_[k] + n
       IN  /\ total_' = [total_ EXCEPT ![k] = t]
           /\ last_log_' = [last_log_ EXCEPT
                               ![k] = IF LineDue(t - @) THEN t ELSE @]
           /\ handed' = handed \cup {c}
           /\ Sent(c) \/ UNCHANGED transit
    /\ UNCHANGED <<pc, consuming, exit_code>>

StartUp == natsOptions_Create \/ natsConnection_Connect \/ StartSource

Next == StartUp \/ \E k \in Source, n \in ChunkSizes : handle_stream(k, n)

------------------------------------------------------------------------------
\* The values of the variables; a session's next line is never overdue.
TypeOK ==
    /\ pc \in {"options", "connect", "create", "run", "exited"}
    /\ consuming \subseteq Source /\ exit_code \in {0, 1}
    /\ total_ \in [Source -> 0..MaxBytes]
    /\ last_log_ \in [Source -> 0..MaxBytes]
    /\ \A k \in Source : total_[k] - last_log_[k] \in 0..(ThroughputEvery - 1)

\* Nothing is published, and main does not run, unless every configured source
\* was started; main says so in its exit code.
AllOrNothing ==
    /\ handed # {} \/ pc = "run" => consuming = Source
    /\ pc = "exited" <=> exit_code = 1
==============================================================================

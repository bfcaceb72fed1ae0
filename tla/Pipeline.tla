------------------------------ MODULE Pipeline ------------------------------
(***************************************************************************)
(* ntrip2nats, NATS and one rtcm_decoder_nats: how the bytes of a source   *)
(* come from its caster to the decoder's framer.                           *)
(*                                                                         *)
(* NATS is external code, modelled from how the two programs use it:       *)
(* core publish and subscribe.  Messages of one publisher reach a          *)
(* subscriber in order or not at all; who is not subscribed misses them.   *)
(***************************************************************************)
EXTENDS Naturals, Sequences, FiniteSets

CONSTANTS
    Sources, ThroughputEvery, ChunkSizes, MaxBytes, MaxFrames,
    Subject,                \* the subject of each source: NTRIP.<mountpoint>
    Mountpoint,             \* the subject the decoder was told to listen to
    Watched                 \* the source the end-to-end property is about

\* A configuration without sources is rejected by the parser.
ASSUME PipelineAssumption ==
    /\ Sources \in Nat \ {0} /\ ThroughputEvery \in Nat \ {0}
    /\ ChunkSizes \subseteq Nat \ {0} /\ MaxBytes \in Nat /\ MaxFrames \in Nat
    /\ Watched \in 1..Sources /\ DOMAIN Subject = 1..Sources

VARIABLES
    \* of the bridge
    bridge_pc, consuming, exit_code, total_, last_log_, handed,
    \* of NATS
    transit, inbox,
    \* of the decoder
    pc, live, todo, wrong, lib, returned, g_running, seen, report, callback,
    frames_ok, frames_bad_crc, fed

bridgeVars  == <<bridge_pc, consuming, exit_code, total_, last_log_, handed>>
decoderVars == <<pc, live, todo, wrong, lib, returned, g_running, seen, report, callback,
                 frames_ok, frames_bad_crc, fed>>
vars == <<bridgeVars, transit, inbox, decoderVars>>

Bridge  == INSTANCE Ntrip2Nats WITH pc <- bridge_pc
Decoder == INSTANCE NatsDecoder

\* One message reaches the decoder, or not.
Route ==
    /\ transit # <<>>
    /\ transit' = Tail(transit)
    /\ \/ /\ "sub" \in live /\ Subject[Head(transit).src] = Mountpoint
          /\ inbox' = Append(inbox, Head(transit))
       \/ UNCHANGED inbox
    /\ UNCHANGED <<bridgeVars, decoderVars>>

Init == Bridge!Init /\ Decoder!Init

Next == \/ Bridge!Next /\ UNCHANGED <<inbox, decoderVars>>
        \/ Decoder!Next /\ UNCHANGED <<bridgeVars, transit>>
        \/ Route

Spec == Init /\ [][Next]_vars

\* main of the decoder is never stopped for good, and its calls return.
FairSpec ==
    Spec /\ WF_vars(Decoder!Main /\ UNCHANGED <<bridgeVars, transit>>)

------------------------------------------------------------------------------
(* Properties. *)

\* The values of the variables.
TypeOK == Bridge!TypeOK /\ Decoder!TypeOK

\* The invariant of the pipeline, with what the bridge promises: it publishes
\* only when every source was started.
Inv == TypeOK /\ Bridge!AllOrNothing

CleanExit == Decoder!CleanExit

ReportWithinBounds == Decoder!ReportWithinBounds

\* A chunk of the watched source without its source.
Payload(c) == [off |-> c.off, size |-> c.size]

\* The chunks of the watched source among the messages of q, in their order.
Own(q) ==
    LET upto[n \in 0..Len(q)] ==
            IF n = 0 THEN <<>>
            ELSE IF q[n].src = Watched THEN Append(upto[n - 1], Payload(q[n]))
            ELSE upto[n - 1]
    IN  upto[Len(q)]

\* From the caster to the framer the bytes of a source pass through a lossy
\* FIFO channel, whoever else publishes on its subject and wherever bytes are
\* lost: a failed publish, a decoder that is not subscribed yet, NATS itself.
\* The framer never sees them twice, out of order or in other pieces.
Fifo == INSTANCE LossyFifo WITH
            Sizes <- ChunkSizes,
            total <- total_[Watched],
            accepted <- {Payload(c) : c \in {d \in handed : d.src = Watched}},
            delivered <- Own(fed)

FifoSpec == Fifo!Spec

\* After a signal, at whatever moment of its start-up or run, the decoder ends.
SignalEnds == ~g_running ~> pc = "exited"
==============================================================================

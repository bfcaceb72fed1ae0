------------------------------ MODULE LossyFifo ------------------------------
(***************************************************************************)
(* What a bridge session promises between the feed it listens to and the   *)
(* stream it writes: a FIFO channel that may lose payloads but never       *)
(* reorders, duplicates, splits or invents one.                            *)
(*                                                                         *)
(* A payload is the interval of the accepted byte stream it occupies: the  *)
(* offset of its first byte and its size.  Losing a payload needs no       *)
(* action: the payload is simply passed over by a later delivery.          *)
(***************************************************************************)
EXTENDS Naturals, Sequences

CONSTANT Sizes              \* the sizes, in bytes, a payload may have

VARIABLES
    total,                  \* bytes accepted so far
    accepted,               \* every payload accepted so far
    delivered               \* the payloads delivered, in order

vars == <<total, accepted, delivered>>

Payload == [off : Nat, size : Sizes]

End(p) == p.off + p.size

Init == /\ total = 0
        /\ accepted = {}
        /\ delivered = <<>>

Accept(s) == /\ accepted' = accepted \cup {[off |-> total, size |-> s]}
             /\ total' = total + s
             /\ UNCHANGED delivered

Deliver(p) == /\ \A i \in DOMAIN delivered : End(delivered[i]) <= p.off
              /\ delivered' = Append(delivered, p)
              /\ UNCHANGED <<total, accepted>>

Next == \/ \E s \in Sizes : Accept(s)
        \/ \E p \in accepted : Deliver(p)

Spec == Init /\ [][Next]_vars
==============================================================================

----------------------------- MODULE SessionLife -----------------------------
(***************************************************************************)
(* What nats2ntrip's main may rely on about one StreamSession: the order   *)
(* in which start(), stop() and the destructor acquire and give back the   *)
(* subscription and the worker thread.  StreamSession implements this      *)
(* specification; BridgeMain is built on its steps.                        *)
(*                                                                         *)
(* The life of a session is a record, and a step is a relation between the *)
(* life l before and the life m after it, so that a module with many       *)
(* sessions can take a step of one of them.                                *)
(***************************************************************************)

VARIABLES life, g_stop

vars == <<life, g_stop>>

Lives == [phase : {"new", "subscribed", "running", "failed", "stopping",
                   "closing", "joining", "destroyed"},
          subscription : {"none", "live", "closed"},
          worker : {"none", "alive", "done"}]

NewLife == [phase |-> "new", subscription |-> "none", worker |-> "none"]

\* start(): subscribe, then start the worker; either may throw.
Subscribe(l, m) ==
    /\ l.phase = "new"
    /\ \/ m = [l EXCEPT !.phase = "subscribed", !.subscription = "live"]
       \/ m = [l EXCEPT !.phase = "failed"]

Spawn(l, m) ==
    /\ l.phase = "subscribed"
    /\ \/ m = [l EXCEPT !.phase = "running", !.worker = "alive"]
       \/ m = [l EXCEPT !.phase = "failed"]

StartStep(l, m) == Subscribe(l, m) \/ Spawn(l, m)

\* stop(), called by the destructor: flag and wake-up, unsubscribe, join.
BeginStop(l, m) ==
    /\ l.phase \in {"running", "failed"}
    /\ m = [l EXCEPT !.phase = "stopping"]

Notify(l, m) ==
    /\ l.phase = "stopping"
    /\ m = [l EXCEPT !.phase = "closing"]

Unsubscribe(l, m) ==
    /\ l.phase = "closing"
    /\ m = [l EXCEPT !.phase = "joining",
                     !.subscription = IF @ = "live" THEN "closed" ELSE @]

Join(l, m) ==
    /\ l.phase = "joining"
    /\ l.worker # "alive"
    /\ m = [l EXCEPT !.phase = "destroyed"]

StopStep(l, m) ==
    BeginStop(l, m) \/ Notify(l, m) \/ Unsubscribe(l, m) \/ Join(l, m)

\* The worker ends only when it is asked to: by stop_, or by a signal (g).
WorkerEnds(l, m, g) ==
    /\ l.worker = "alive"
    /\ g \/ l.phase \in {"stopping", "closing", "joining"}
    /\ m = [l EXCEPT !.worker = "done"]

LifeStep(l, m, g) == StartStep(l, m) \/ StopStep(l, m) \/ WorkerEnds(l, m, g)

------------------------------------------------------------------------------
Init == life = NewLife /\ g_stop \in BOOLEAN

Next == \/ LifeStep(life, life', g_stop) /\ UNCHANGED g_stop
        \/ g_stop' = TRUE /\ UNCHANGED life

Spec == Init /\ [][Next]_vars
==============================================================================

----------------------------- MODULE PowerTask ------------------------------
(***************************************************************************)
(* start_app, stop_app and restart_app: they act on the stored container   *)
(* ids, swallow every Docker error and then write the status they aim at.  *)
(***************************************************************************)
EXTENDS TaskRuntime

power == {"start", "stop", "restart"}

Aim(t) == IF t = "stop" THEN "stopped" ELSE "running"

PowerBegin(w, m) == Begin(w, m, power)
PowerLoad(w) == LoadRow(w, power, "power")

\* The loop over the stored ids: unknown ids and failing calls are ignored.
SwitchStored(w, up) ==
    /\ \E cs \in Reached(ById(worker[w].ids)) : containers' = Switched(cs, up)
    /\ Goto(w, "commit")
    /\ UNCHANGED <<row, job, queue, volumes, faults, taskFrame>>

StartContainers(w) == At(w, "power", {"start"}) /\ SwitchStored(w, TRUE)
StopContainers(w) == At(w, "power", {"stop"}) /\ SwitchStored(w, FALSE)

\* Every container is stopped before the first is started.
RestartContainers(w) ==
    LET mine == ById(worker[w].ids) IN
    /\ At(w, "power", {"restart"})
    /\ \E off \in Reached(mine), on \in Reached(mine) :
           containers' = (containers \ mine)
               \cup {[c EXCEPT !.up = c \in on \/ (c.up /\ c \notin off)] :
                         c \in mine}
    /\ Goto(w, "commit")
    /\ UNCHANGED <<row, job, queue, volumes, faults, taskFrame>>

\* The status is written when the session saw another one; if the row is gone
\* that write raises.
PowerRecord(w) ==
    LET i == Target(w)
        aim == Aim(Type(w))
    IN  /\ At(w, "commit", power)
        /\ IF worker[w].seen = aim
           THEN Goto(w, "finish") /\ UNCHANGED row
           ELSE IF Live(i)
                THEN /\ row' = [row EXCEPT ![i].status = aim]
                     /\ Goto(w, "finish")
                ELSE /\ worker' = [worker EXCEPT ![w].pc = "failjob",
                                                 ![w].dead = TRUE]
                     /\ UNCHANGED row
        /\ UNCHANGED <<job, queue, containers, volumes, faults, taskFrame>>

PowerComplete(w) == CompleteJob(w, power)

PowerHandler(w) == HandlerRaises(w, power) \/ FailJobAndRetry(w, power)

PowerStep(w) ==
    \/ \E m \in queue : PowerBegin(w, m)
    \/ PowerLoad(w)
    \/ StartContainers(w) \/ StopContainers(w) \/ RestartContainers(w)
    \/ PowerRecord(w) \/ PowerComplete(w) \/ PowerHandler(w)
=============================================================================

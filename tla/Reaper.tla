------------------------------- MODULE Reaper -------------------------------
(***************************************************************************)
(* reap_orphan_containers, run by Celery beat: it reads the ids of the     *)
(* installations, then lists the managed containers, then removes those    *)
(* whose label is not among the ids.                                       *)
(***************************************************************************)
EXTENDS Platform

reaperFrame == <<row, job, unsent, queue, worker, request, lost, faults>>

ReaperReadIds ==
    /\ Beat
    /\ reaper.pc = "idle"
    /\ reaper' = [reaper EXCEPT !.pc = "list",
                                !.live = {i \in Installations : Live(i)}]
    /\ UNCHANGED <<containers, volumes, reaperFrame>>

\* Faulty variant: only containers that are up are listed.
OrphansUp == {c \in containers : c.up /\ c.inst \notin reaper.live}

\* Managed containers, up or not, whose label is not among the ids read.
Orphans == {c \in containers : c.inst \notin reaper.live}

\* list_managed() and the grouping of the orphans; with none the task returns.
ReaperList ==
    /\ reaper.pc = "list"
    /\ reaper' = IF Orphans = {} THEN IdleReaper
                 ELSE [IdleReaper EXCEPT !.pc = "reap",
                                         !.orphans = {c.id : c \in Orphans}]
    /\ UNCHANGED <<containers, volumes, reaperFrame>>

\* Stop and remove the orphans by id, and the labelled volumes beside them.
ReaperRemove ==
    LET orphans == ById(reaper.orphans)
        insts == {job[x.job].inst : x \in reaper.orphans}
    IN  /\ reaper.pc = "reap"
        /\ \E gone \in Reached(orphans) : containers' = containers \ gone
        /\ volumes' = {v \in volumes : ~(v.inst \in insts /\ v.labelled)}
        /\ reaper' = IdleReaper
        /\ UNCHANGED reaperFrame

\* One of these runs that misses nothing.
ReaperRemovesAll ==
    ReaperRemove /\ containers' = containers \ ById(reaper.orphans)

\* A query or a listing raises: the run ends, the next one starts anew.
ReaperFails ==
    /\ reaper.pc = "list"
    /\ reaper' = IdleReaper
    /\ UNCHANGED <<containers, volumes, reaperFrame>>

ReaperNext == ReaperReadIds \/ ReaperList \/ ReaperRemove \/ ReaperFails
=============================================================================

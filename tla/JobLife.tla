------------------------------ MODULE JobLife -------------------------------
(***************************************************************************)
(* What a job promises whoever asked for it, without API, broker, pool or  *)
(* tasks: it is in one place at a time, it moves on through them, it is    *)
(* executed a bounded number of times, and once over it is over.           *)
(***************************************************************************)
EXTENDS Naturals

CONSTANTS
    Jobs,    \* job ids
    MaxRuns  \* how often a job may be executed

VARIABLES
    place,   \* job -> "none", "unsent", "queued", "executing" or "over"
    runs     \* job -> how often its execution began

Move(j, from, to) == place[j] = from /\ place' = [place EXCEPT ![j] = to]

\* The API commits the job; it publishes the task; a slot takes the message.
Request(j) == Move(j, "none", "unsent") /\ UNCHANGED runs
Publish(j) == Move(j, "unsent", "queued") /\ UNCHANGED runs
Take(j) == /\ Move(j, "queued", "executing")
           /\ runs' = [runs EXCEPT ![j] = @ + 1]

\* The publication fails, or the message is taken by a process that cannot
\* execute it.
Lose(j) == /\ place[j] \in {"unsent", "queued"}
           /\ place' = [place EXCEPT ![j] = "over"]
           /\ UNCHANGED runs

\* The execution ends with a retry, or for good.
Again(j) == /\ runs[j] < MaxRuns
            /\ Move(j, "executing", "queued")
            /\ UNCHANGED runs
End(j) == Move(j, "executing", "over") /\ UNCHANGED runs

Init ==
    /\ place = [j \in Jobs |-> "none"]
    /\ runs = [j \in Jobs |-> 0]

Next ==
    \E j \in Jobs : Request(j) \/ Publish(j) \/ Take(j) \/ Lose(j) \/ Again(j) \/ End(j)

Spec == Init /\ [][Next]_<<place, runs>>
=============================================================================

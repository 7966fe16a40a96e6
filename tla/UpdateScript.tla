---------------------------- MODULE UpdateScript ----------------------------
(***************************************************************************)
(* scripts/update.sh on a source deployment: pull, decide what changed,    *)
(* rebuild and restart it, and roll back to the commit recorded before.    *)
(* The script keeps one file between its runs, and stops at the first      *)
(* command that fails (set -e).                                            *)
(***************************************************************************)
EXTENDS Integers, Sequences

CONSTANTS
    MaxCommits,  \* how many commits are ever pushed
    Modes,       \* how the script is called
    MaxFaults    \* how many runs are cut short

Sources == {"backend", "frontend"}  \* what compose builds
Parts == Sources \cup {"config"}    \* and the other services, from compose's own files

ASSUME UpdateAssumption ==
    /\ MaxCommits \in Nat /\ MaxFaults \in Nat
    /\ Modes \subseteq {"update", "rebuild-all", "services", "rollback"}

VARIABLES
    upstream,  \* the commits pushed after the installed one: the parts each changes
    head,      \* the commit checked out, 0 the installed one
    prevFile,  \* .ianoie-prev-commit, None when there is no such file
    applied,   \* part -> the commit it was built or recreated from
    script,    \* the run under way
    faults     \* how many runs were cut short

vars == <<upstream, head, prevFile, applied, script, faults>>

None == -1
Commits == 0..MaxCommits

\* A run: where it is, its mode, HEAD before the pull, whether it is the first,
\* what it will build, whether it will recreate, and the last word of the run
\* before.
NewScript == [pc |-> "idle", mode |-> "update", before |-> 0, first |-> FALSE,
              services |-> {}, recreate |-> FALSE, said |-> "nothing"]

\* How a run can end.
Words == {"nothing", "failed", "already up to date", "nothing to rebuild",
          "rolled back", "update complete"}

Init ==
    /\ upstream = <<>>
    /\ head = 0
    /\ prevFile = None
    /\ applied = [p \in Parts |-> 0]
    /\ script = NewScript
    /\ faults = 0

\* Somebody pushes a commit.
Push(parts) ==
    /\ Len(upstream) < MaxCommits
    /\ upstream' = Append(upstream, parts)
    /\ UNCHANGED <<head, prevFile, applied, script, faults>>

-----------------------------------------------------------------------------
Exit(word) == script' = [NewScript EXCEPT !.mode = script.mode, !.said = word,
                                          !.before = script.before]

Start(mode, chosen) ==
    /\ script.pc = "idle"
    /\ mode \in Modes \ {"rollback"}
    /\ chosen # {} <=> mode = "services"
    /\ script' = [pc |-> "pull", mode |-> mode, before |-> head,
                  first |-> prevFile = None, services |-> chosen,
                  recreate |-> FALSE, said |-> "nothing"]
    /\ UNCHANGED <<upstream, head, prevFile, applied, faults>>

\* git pull --ff-only.
Pull ==
    /\ script.pc = "pull"
    /\ head' = Len(upstream)
    /\ script' = [script EXCEPT !.pc = "decide"]
    /\ UNCHANGED <<upstream, prevFile, applied, faults>>

PullFails ==
    /\ script.pc = "pull"
    /\ Exit("failed")
    /\ UNCHANGED <<upstream, head, prevFile, applied, faults>>

\* The parts that git diff shows as changed between two commits.
Changed(from, to) ==
    {p \in Parts : \E k \in 1..Len(upstream) : from < k /\ k <= to /\ p \in upstream[k]}

\* The pre-update commit is remembered; the first run writes the new one.
Remember ==
    prevFile' = IF script.first THEN head
                ELSE IF script.before # head THEN script.before ELSE prevFile

\* Faulty variant: only the last commit of a pull is looked at.
ToBuildLast == IF script.mode = "services" THEN script.services
               ELSE IF script.mode = "rebuild-all" \/ script.first THEN Sources
               ELSE Changed(head - 1, head) \cap Sources

\* What is rebuilt, and whether everything is recreated.
ToBuild == IF script.mode = "services" THEN script.services
           ELSE IF script.mode = "rebuild-all" \/ script.first THEN Sources
           ELSE Changed(script.before, head) \cap Sources
ToRecreate == /\ script.mode = "update" /\ ~script.first
              /\ "config" \in Changed(script.before, head)

\* From the pull to the first docker command.
Decide ==
    /\ script.pc = "decide"
    /\ Remember
    /\ IF script.before = head /\ ~script.first /\ script.mode = "update"
       THEN Exit("already up to date")
       ELSE IF ToBuild = {} /\ ~ToRecreate
       THEN Exit("nothing to rebuild")
       ELSE script' = [script EXCEPT !.pc = "build", !.services = ToBuild,
                                     !.recreate = ToRecreate]
    /\ UNCHANGED <<upstream, head, applied, faults>>

\* docker compose up -d --build, of what is to be built.
Build ==
    /\ script.pc = "build"
    /\ applied' = [p \in Parts |-> IF p \in script.services THEN head ELSE applied[p]]
    /\ IF script.recreate
       THEN script' = [script EXCEPT !.pc = "recreate"]
       ELSE Exit(IF script.mode = "rollback" THEN "rolled back" ELSE "update complete")
    /\ UNCHANGED <<upstream, head, prevFile, faults>>

\* docker compose up -d.
Recreate ==
    /\ script.pc = "recreate"
    /\ applied' = [applied EXCEPT !["config"] = head]
    /\ Exit("update complete")
    /\ UNCHANGED <<upstream, head, prevFile, faults>>

\* --rollback up to its rebuild; without the file it fails at once.
StartRollback ==
    /\ script.pc = "idle"
    /\ "rollback" \in Modes
    /\ prevFile # None
    /\ script' = [NewScript EXCEPT !.pc = "build", !.mode = "rollback",
                                   !.before = head, !.services = Sources]
    /\ head' = prevFile
    /\ UNCHANGED <<upstream, prevFile, applied, faults>>

\* A command fails or the run is interrupted: some of the services are up with
\* what was built, and the rest of the script does not run.
CutShort ==
    /\ script.pc \in {"decide", "build", "recreate"}
    /\ faults < MaxFaults
    /\ faults' = faults + 1
    /\ \E done \in SUBSET CASE script.pc = "decide" -> {}
                         [] script.pc = "build" -> script.services
                         [] script.pc = "recreate" -> {"config"} :
           applied' = [p \in Parts |-> IF p \in done THEN head ELSE applied[p]]
    /\ Exit("failed")
    /\ UNCHANGED <<upstream, head, prevFile>>

Next ==
    \/ \E parts \in SUBSET Parts : Push(parts)
    \/ \E mode \in Modes, chosen \in SUBSET Sources : Start(mode, chosen)
    \/ Pull \/ PullFails \/ Decide \/ Build \/ Recreate
    \/ StartRollback
    \/ CutShort

Spec == Init /\ [][Next]_vars

-----------------------------------------------------------------------------
\* The runs that begin at one of these commits.
Runs(commits) ==
    [pc : {"idle", "pull", "decide", "build", "recreate"},
     mode : Modes \cup {"update", "rollback"},
     before : commits, first : BOOLEAN, recreate : BOOLEAN,
     services : SUBSET Sources, said : Words]

\* Every variable has its type; what is applied and remembered was once HEAD.
TypeOK ==
    /\ upstream \in Seq(SUBSET Parts) /\ Len(upstream) <= MaxCommits
    /\ head \in 0..Len(upstream)
    /\ prevFile \in {None} \cup 0..Len(upstream)
    /\ applied \in [Parts -> 0..Len(upstream)]
    /\ script \in Runs(0..Len(upstream))
    /\ faults \in 0..MaxFaults

\* A part runs what is checked out: nothing that changes it lies between.
Current(p) == p \notin Changed(applied[p], head) \cup Changed(head, applied[p])

\* Whatever is pushed, pulled and rolled back: as long as no run was cut short
\* and none was restricted to some services, the containers that compose
\* builds run what is checked out whenever the script is idle.
SourcesCurrent ==
    script.pc = "idle" /\ faults = 0 /\ "services" \notin Modes
        => \A p \in Sources : Current(p)

\* Even after runs that were cut short: a run leaves out only what it does not
\* make stale, so what was current before a pull is current after its build.
NothingForgotten ==
    script.pc = "build" /\ script.mode # "services" =>
        \A p \in Sources \ script.services :
            p \notin Changed(applied[p], script.before) \cup Changed(script.before, applied[p])
                => Current(p)

\* The message of the script: "Already up to date ... Nothing to do."
UpToDateMeansCurrent ==
    script.said = "already up to date" => \A p \in Sources : Current(p)

\* The comment in the script: "compose/.env changed -> recreate everything so
\* all services pick up the new config".
ConfigPickedUp == script.said = "update complete" => Current("config")

\* The usage text: "--rollback  # restore the previous commit + rebuild".  A
\* rollback undoes the update before it, if that has moved HEAD.
RollbackUndoes ==
    [][StartRollback /\ script.said = "update complete" /\ script.before # head
           => head' = script.before]_vars
=============================================================================

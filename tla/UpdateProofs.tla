---------------------------- MODULE UpdateProofs ----------------------------
(***************************************************************************)
(* What the update script leaves running, for any number of commits, any   *)
(* contents of them and any order of pulls, rebuilds and rollbacks.        *)
(***************************************************************************)
EXTENDS UpdateScript, TLAPS

\* A part is what it would be if it were built from commit c.
CurrentAt(p, c) == p \notin Changed(applied[p], c) \cup Changed(c, applied[p])

\* A pull begins where the run has begun, and only moves forward.
Forward ==
    /\ script.pc = "pull" => script.before = head
    /\ script.pc = "decide" => script.before <= head

\* Before the decision the sources are as they were before the pull, after it
\* those left out are current.
Covered ==
    faults = 0 /\ "services" \notin Modes =>
        /\ script.pc \in {"idle", "pull", "recreate"} =>
               \A p \in Sources : CurrentAt(p, head)
        /\ script.pc = "decide" => \A p \in Sources : CurrentAt(p, script.before)
        /\ script.pc = "build" =>
               \A p \in Sources \ script.services : CurrentAt(p, head)

IInv == TypeOK /\ Forward /\ Covered /\ NothingForgotten

\* Changed between two commits, once there is another one in between, is
\* changed on one side of it: a part current at the first and not changed up to
\* the second is current at the second.
LEMMA Carried ==
    ASSUME TypeOK, NEW p \in Parts, NEW a \in Commits, NEW b \in Commits, a <= b,
           CurrentAt(p, a), p \notin Changed(a, b)
    PROVE  CurrentAt(p, b)
<1>1. Len(upstream) \in Nat /\ applied[p] \in Nat /\ a \in Nat /\ b \in Nat
  BY UpdateAssumption DEF TypeOK, Commits
<1>2. p \notin Changed(applied[p], b)
  BY <1>1 DEF CurrentAt, Changed
<1>3. p \notin Changed(b, applied[p])
  BY <1>1 DEF CurrentAt, Changed
<1> QED BY <1>2, <1>3 DEF CurrentAt

\* Nothing changes between a commit and itself.
LEMMA Built ==
    ASSUME TypeOK, NEW c \in Nat
    PROVE  Changed(c, c) = {}
<1>1. Len(upstream) \in Nat
  BY DEF TypeOK
<1> QED BY <1>1 DEF Changed

\* A run that ends is a run.
LEMMA ExitType ==
    ASSUME NEW commits, script \in Runs(commits), NEW word \in Words, Exit(word)
    PROVE  script' \in Runs(commits)
<1>1. script' = [NewScript EXCEPT !.mode = script.mode, !.said = word,
                                  !.before = script.before]
  BY DEF Exit
<1>2. script.mode \in Modes \cup {"update", "rollback"} /\ script.before \in commits
  BY DEF Runs
<1> QED BY <1>1, <1>2 DEF NewScript, Runs

\* The variables keep their types.
LEMMA TypeStep ==
    ASSUME TypeOK, [Next]_vars
    PROVE  TypeOK'
<1>0. /\ Len(upstream) \in Nat /\ Len(upstream) <= MaxCommits /\ MaxCommits \in Nat
      /\ MaxFaults \in Nat /\ faults \in 0..MaxFaults
      /\ upstream \in Seq(SUBSET Parts)
      /\ head \in 0..Len(upstream) /\ applied \in [Parts -> 0..Len(upstream)]
      /\ prevFile \in {None} \cup 0..Len(upstream)
      /\ script \in Runs(0..Len(upstream))
  BY UpdateAssumption DEF TypeOK
<1>1. ASSUME NEW parts \in SUBSET Parts, Push(parts) PROVE TypeOK'
  <2>1. /\ upstream' = Append(upstream, parts) /\ Len(upstream) < MaxCommits
        /\ UNCHANGED <<head, prevFile, applied, script, faults>>
    BY <1>1 DEF Push
  <2>2. upstream' \in Seq(SUBSET Parts) /\ Len(upstream') = Len(upstream) + 1
    BY <1>0, <2>1
  <2>3. 0..Len(upstream) \subseteq 0..Len(upstream')
    BY <1>0, <2>2
  <2>4. applied \in [Parts -> 0..Len(upstream')]
    BY <1>0, <2>3
  <2>5. script \in Runs(0..Len(upstream'))
    BY <1>0, <2>3 DEF Runs
  <2>6. Len(upstream') <= MaxCommits
    BY <1>0, <2>1, <2>2
  <2> QED BY <1>0, <2>1, <2>2, <2>3, <2>4, <2>5, <2>6 DEF TypeOK
<1>2. ASSUME NEW mode \in Modes, NEW chosen \in SUBSET Sources, Start(mode, chosen)
      PROVE  TypeOK'
  <2>1. (prevFile = None) \in BOOLEAN
    OBVIOUS
  <2>2. script' \in Runs(0..Len(upstream))
    BY <1>0, <1>2, <2>1 DEF Start, Runs, Words
  <2> QED BY <1>0, <1>2, <2>2 DEF Start, TypeOK
<1>3. CASE Pull
  <2>1. script' \in Runs(0..Len(upstream)) /\ head' \in 0..Len(upstream)
    BY <1>0, <1>3 DEF Pull, Runs
  <2> QED BY <1>0, <1>3, <2>1 DEF Pull, TypeOK
<1>4. CASE PullFails
  <2>1. script' \in Runs(0..Len(upstream))
    BY <1>0, <1>4, ExitType DEF PullFails, Words
  <2> QED BY <1>0, <1>4, <2>1 DEF PullFails, TypeOK
<1>5. CASE Decide
  <2>1. prevFile' \in {None} \cup 0..Len(upstream)
    BY <1>0, <1>5 DEF Decide, Remember, Runs
  <2>2. ToBuild \in SUBSET Sources
    BY <1>0 DEF ToBuild, Runs
  <2>3. ToRecreate \in BOOLEAN
    BY Zenon DEF ToRecreate
  <2>4. \/ Exit("already up to date") \/ Exit("nothing to rebuild")
        \/ script' = [script EXCEPT !.pc = "build", !.services = ToBuild,
                                    !.recreate = ToRecreate]
    BY <1>5 DEF Decide
  <2>5. script' \in Runs(0..Len(upstream))
    BY <1>0, <2>2, <2>3, <2>4, ExitType DEF Runs, Words
  <2> QED BY <1>0, <1>5, <2>1, <2>5 DEF Decide, TypeOK
<1>6. CASE Build
  <2>1. applied' \in [Parts -> 0..Len(upstream)]
    BY <1>0, <1>6 DEF Build
  <2>2. \/ script' = [script EXCEPT !.pc = "recreate"]
        \/ Exit("rolled back") \/ Exit("update complete")
    BY <1>6 DEF Build
  <2>3. script' \in Runs(0..Len(upstream))
    <3>1. CASE script' = [script EXCEPT !.pc = "recreate"]
      BY <1>0, <3>1 DEF Runs
    <3> QED BY <1>0, <2>2, <3>1, ExitType DEF Words
  <2> QED BY <1>0, <1>6, <2>1, <2>3 DEF Build, TypeOK
<1>7. CASE Recreate
  <2>1. script' \in Runs(0..Len(upstream))
    BY <1>0, <1>7, ExitType DEF Recreate, Words
  <2>2. applied' \in [Parts -> 0..Len(upstream)]
    BY <1>0, <1>7 DEF Recreate
  <2> QED BY <1>0, <1>7, <2>1, <2>2 DEF Recreate, TypeOK
<1>8. CASE StartRollback
  <2>1. script' \in Runs(0..Len(upstream)) /\ head' \in 0..Len(upstream)
    BY <1>0, <1>8 DEF StartRollback, NewScript, Runs, Words
  <2> QED BY <1>0, <1>8, <2>1 DEF StartRollback, TypeOK
<1>9. CASE CutShort
  <2>1. script' \in Runs(0..Len(upstream))
    BY <1>0, <1>9, ExitType DEF CutShort, Words
  <2>2. applied' \in [Parts -> 0..Len(upstream)]
    BY <1>0, <1>9 DEF CutShort
  <2>3. faults' \in 0..MaxFaults
    BY <1>0, <1>9 DEF CutShort
  <2> QED BY <1>0, <1>9, <2>1, <2>2, <2>3 DEF CutShort, TypeOK
<1>10. CASE UNCHANGED vars
  BY <1>0, <1>10 DEF vars, TypeOK
<1> QED BY <1>1, <1>2, <1>3, <1>4, <1>5, <1>6, <1>7, <1>8, <1>9, <1>10 DEF Next

\* A commit that is pushed changes nothing between those that were there.
LEMMA PushKeeps ==
    ASSUME TypeOK, NEW parts \in SUBSET Parts, Push(parts)
    PROVE  \A a, b \in 0..Len(upstream) : Changed(a, b)' = Changed(a, b)
<1>1. /\ Len(upstream) \in Nat /\ Len(upstream') = Len(upstream) + 1
      /\ \A k \in 1..Len(upstream) : upstream'[k] = upstream[k]
  BY DEF TypeOK, Push
<1> QED BY <1>1 DEF Changed

\* What the script decides to leave out has not changed since the pull.
LEMMA LeftOut ==
    ASSUME TypeOK, Decide, script.mode # "services", script'.pc = "build"
    PROVE  \A p \in Sources \ script'.services : p \notin Changed(script.before, head)
<1>1. script'.services = ToBuild
  BY DEF Decide, Exit, NewScript, TypeOK, Runs
<1> QED BY <1>1 DEF ToBuild

\* The pull and the decision go forward.
LEMMA ForwardStep ==
    ASSUME TypeOK, Forward, [Next]_vars
    PROVE  Forward'
<1>0. /\ Len(upstream) \in Nat /\ head \in 0..Len(upstream)
      /\ script \in Runs(0..Len(upstream))
  BY DEF TypeOK
<1>1. ASSUME NEW parts \in SUBSET Parts, Push(parts) PROVE Forward'
  BY <1>1 DEF Push, Forward
<1>2. ASSUME NEW mode \in Modes, NEW chosen \in SUBSET Sources, Start(mode, chosen)
      PROVE  Forward'
  BY <1>2 DEF Start, Forward
<1>3. CASE Pull
  BY <1>0, <1>3 DEF Pull, Forward, Runs
<1>4. CASE script'.pc \notin {"pull", "decide"}
  BY <1>4 DEF Forward
<1>5. CASE PullFails \/ Decide \/ Build \/ Recreate \/ StartRollback \/ CutShort
  BY <1>0, <1>4, <1>5 DEF PullFails, Decide, Build, Recreate, StartRollback, CutShort,
                          Exit, NewScript, Runs
<1>6. CASE UNCHANGED vars
  BY <1>6 DEF vars, Forward
<1> QED BY <1>1, <1>2, <1>3, <1>5, <1>6 DEF Next

\* Every step keeps the sources covered.
LEMMA CoveredStep ==
    ASSUME IInv, [Next]_vars
    PROVE  Covered' /\ NothingForgotten'
<1>0. /\ Len(upstream) \in Nat /\ Len(upstream) <= MaxCommits /\ MaxCommits \in Nat
      /\ faults \in Nat /\ Sources \subseteq Parts
      /\ head \in 0..Len(upstream) /\ applied \in [Parts -> 0..Len(upstream)]
      /\ script \in Runs(0..Len(upstream))
  BY UpdateAssumption DEF IInv, TypeOK, Parts
<1> DEFINE Good == faults = 0 /\ "services" \notin Modes
<1>1. ASSUME NEW parts \in SUBSET Parts, Push(parts)
      PROVE  Covered' /\ NothingForgotten'
  <2>1. \A a, b \in 0..Len(upstream) : Changed(a, b)' = Changed(a, b)
    BY <1>1, PushKeeps DEF IInv
  <2>2. UNCHANGED <<head, applied, script, faults>> /\ script.before \in 0..Len(upstream)
    BY <1>0, <1>1 DEF Push, Runs
  <2>3. \A p \in Sources : /\ CurrentAt(p, head)' = CurrentAt(p, head)
                           /\ CurrentAt(p, script.before)' = CurrentAt(p, script.before)
    BY <1>0, <2>1, <2>2 DEF CurrentAt
  <2> QED BY <2>2, <2>3 DEF Covered, NothingForgotten, IInv, Current, CurrentAt
<1>2. ASSUME NEW mode \in Modes, NEW chosen \in SUBSET Sources, Start(mode, chosen)
      PROVE  Covered' /\ NothingForgotten'
  <2>1. /\ script.pc = "idle" /\ script'.pc = "pull"
        /\ UNCHANGED <<upstream, head, applied, faults>>
    BY <1>2 DEF Start
  <2> QED BY <2>1 DEF Covered, NothingForgotten, IInv, CurrentAt, Changed
<1>3. CASE Pull
  <2>1. /\ script.pc = "pull" /\ script'.pc = "decide" /\ script'.before = script.before
        /\ UNCHANGED <<upstream, applied, faults>>
    BY <1>0, <1>3 DEF Pull, Runs
  <2>2. script.before = head
    BY <2>1 DEF IInv, Forward
  <2> QED BY <2>1, <2>2 DEF Covered, NothingForgotten, IInv, CurrentAt, Changed
<1>4. CASE PullFails
  <2>1. /\ script.pc = "pull" /\ script'.pc = "idle"
        /\ UNCHANGED <<upstream, head, applied, faults>>
    BY <1>4 DEF PullFails, Exit, NewScript
  <2> QED BY <2>1 DEF Covered, NothingForgotten, IInv, CurrentAt, Changed
<1>5. CASE Decide
  <2>1. /\ script.pc = "decide" /\ UNCHANGED <<upstream, head, applied, faults>>
        /\ script.before \in Commits /\ head \in Commits /\ script.before <= head
    <3>1. script.pc = "decide" /\ UNCHANGED <<upstream, head, applied, faults>>
      BY <1>5 DEF Decide
    <3>2. script.before \in 0..Len(upstream)
      BY <1>0 DEF Runs
    <3> QED BY <1>0, <3>1, <3>2 DEF IInv, Forward, Commits
  <2>2. \A p \in Sources : CurrentAt(p, script.before) /\ p \notin Changed(script.before, head)
                             => CurrentAt(p, head)
    BY <1>0, <2>1, Carried DEF IInv
  <2>3. CASE script'.pc = "build"
    <3>1. script' = [script EXCEPT !.pc = "build", !.services = ToBuild,
                                   !.recreate = ToRecreate]
      BY <1>5, <2>3 DEF Decide, Exit, NewScript
    <3>2. script'.mode = script.mode /\ script'.before = script.before
      BY <1>0, <3>1 DEF Runs
    <3>3. script.mode # "services" => \A p \in Sources \ script'.services :
              CurrentAt(p, script.before) => CurrentAt(p, head)
      BY <1>5, <2>2, <2>3, LeftOut DEF IInv
    <3>4. NothingForgotten'
      BY <2>1, <3>2, <3>3 DEF NothingForgotten, Current, CurrentAt, Changed
    <3>5. ASSUME Good PROVE \A p \in Sources \ script'.services : CurrentAt(p, head)
      <4>1. script.mode # "services"
        BY <1>0, <3>5 DEF Runs
      <4>2. \A p \in Sources : CurrentAt(p, script.before)
        BY <2>1, <3>5 DEF IInv, Covered
      <4> QED BY <3>3, <4>1, <4>2
    <3> QED BY <2>1, <2>3, <3>4, <3>5 DEF Covered, CurrentAt, Changed
  <2>4. CASE script'.pc # "build"
    <3>1. script'.pc = "idle"
      BY <1>0, <1>5, <2>4 DEF Decide, Exit, NewScript, Runs
    <3>2. ASSUME Good PROVE \A p \in Sources : CurrentAt(p, head)
      <4>1. \A p \in Sources : CurrentAt(p, script.before)
        BY <2>1, <3>2 DEF IInv, Covered
      <4>2. CASE script.before = head
        BY <4>1, <4>2
      <4>3. CASE script.before # head
        <5>1. ToBuild = {}
          BY <1>0, <1>5, <2>4, <4>3 DEF Decide, Runs
        <5>2. script.mode # "services"
          BY <1>0, <3>2 DEF Runs
        <5>3. \A p \in Sources : p \notin Changed(script.before, head)
          BY <5>1, <5>2 DEF ToBuild
        <5> QED BY <2>2, <4>1, <5>3
      <4> QED BY <4>2, <4>3
    <3> QED BY <2>1, <3>1, <3>2 DEF Covered, NothingForgotten, CurrentAt, Changed
  <2> QED BY <2>3, <2>4
<1>6. CASE Build
  <2>1. /\ script.pc = "build" /\ script'.pc \in {"idle", "recreate"}
        /\ UNCHANGED <<upstream, head, faults>>
        /\ \A p \in Sources : applied'[p] = IF p \in script.services THEN head ELSE applied[p]
    BY <1>0, <1>6 DEF Build, Exit, NewScript, Runs
  <2>2. \A p \in Sources : p \in script.services => CurrentAt(p, head)'
    BY <1>0, <2>1, Built DEF CurrentAt, Changed, IInv
  <2>3. \A p \in Sources : p \notin script.services /\ CurrentAt(p, head) => CurrentAt(p, head)'
    BY <2>1 DEF CurrentAt, Changed
  <2> QED BY <2>1, <2>2, <2>3 DEF Covered, NothingForgotten, IInv
<1>7. CASE Recreate
  <2>1. /\ script.pc = "recreate" /\ script'.pc = "idle"
        /\ UNCHANGED <<upstream, head, faults>>
        /\ \A p \in Sources : applied'[p] = applied[p]
    BY <1>0, <1>7 DEF Recreate, Exit, NewScript, Sources, Parts
  <2> QED BY <2>1 DEF Covered, NothingForgotten, IInv, CurrentAt, Changed
<1>8. CASE StartRollback
  <2>1. script'.pc = "build" /\ script'.services = Sources
    BY <1>8 DEF StartRollback, NewScript
  <2> QED BY <2>1 DEF Covered, NothingForgotten
<1>9. CASE CutShort
  <2>1. script'.pc = "idle" /\ faults' # 0
    BY <1>0, <1>9 DEF CutShort, Exit, NewScript
  <2> QED BY <2>1 DEF Covered, NothingForgotten
<1>10. CASE UNCHANGED vars
  BY <1>10 DEF vars, IInv, Covered, NothingForgotten, Current, CurrentAt, Changed
<1> QED BY <1>1, <1>2, <1>3, <1>4, <1>5, <1>6, <1>7, <1>8, <1>9, <1>10 DEF Next

\* The invariant holds of the installed deployment.
LEMMA InitIInv == Init => IInv
<1> SUFFICES ASSUME Init PROVE IInv
  OBVIOUS
<1>1. upstream = <<>> /\ Len(upstream) = 0 /\ head = 0 /\ faults = 0
      /\ upstream \in Seq(SUBSET Parts)
  BY DEF Init
<1>2. applied \in [Parts -> 0..Len(upstream)]
  BY <1>1 DEF Init
<1>3. script.pc = "idle" /\ script \in Runs(0..Len(upstream))
  BY <1>1 DEF Init, NewScript, Runs, Words
<1>4. TypeOK
  BY <1>1, <1>2, <1>3, UpdateAssumption DEF TypeOK, Init
<1>5. \A p \in Sources : CurrentAt(p, head)
  BY <1>1 DEF CurrentAt, Changed
<1> QED BY <1>3, <1>4, <1>5 DEF IInv, Forward, Covered, NothingForgotten

\* The invariant holds throughout.
LEMMA Inductive == Spec => []IInv
<1>1. IInv /\ [Next]_vars => IInv'
  BY TypeStep, ForwardStep, CoveredStep DEF IInv
<1> QED BY InitIInv, <1>1, PTL DEF Spec

\* Whatever is pushed, pulled, rebuilt and rolled back in runs that are neither
\* cut short nor restricted to some services, between two runs of update.sh
\* the services that compose builds run what is checked out.
THEOREM SourcesCurrentHolds == Spec => []SourcesCurrent
<1>1. IInv => SourcesCurrent
  BY DEF IInv, Covered, SourcesCurrent, Current, CurrentAt
<1> QED BY Inductive, <1>1, PTL

\* Even after runs that were cut short: what a run of update.sh leaves out was
\* stale before its pull or is current.
THEOREM NothingForgottenHolds == Spec => []NothingForgotten
<1>1. IInv => NothingForgotten
  BY DEF IInv
<1> QED BY Inductive, <1>1, PTL
=============================================================================

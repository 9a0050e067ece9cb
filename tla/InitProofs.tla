------------------------------ MODULE InitProofs ------------------------------
(***************************************************************************)
(* Proofs about InitRepository, for every tree of directories, every       *)
(* number of runs and every bound: a HEAD is short only for a cause, and a *)
(* command works in the nearest repository.                                *)
(***************************************************************************)
EXTENDS InitRepository, TLAPS

-----------------------------------------------------------------------------
(* The type invariant: what an init has made before the part it is at.     *)
MadeSoFar(p) ==
  /\ step[p] # "idle" => here[p] \in Dir
  /\ step[p] = "objects" => "git" \in parts[here[p]]
  /\ step[p] = "refs"    => {"git", "objects"} \subseteq parts[here[p]]
  /\ step[p] = "heads"   => {"git", "objects", "refs"} \subseteq parts[here[p]]
  /\ step[p] \in {"open", "write"} => parts[here[p]] = Parts

(* What a run made is not unmade by the steps of the others. *)
LEMMA MadeStays ==
  ASSUME InitTypeOK, NEW p \in Proc, MadeSoFar(p), parts' \in [Dir -> SUBSET Parts],
         step'[p] = step[p], here'[p] = here[p], \A d \in Dir : parts[d] \subseteq parts'[d]
  PROVE  MadeSoFar(p)'
<1>1. parts \in [Dir -> SUBSET Parts]
  BY DEF InitTypeOK
<1>2. step[p] # "idle" => here[p] \in Dir /\ parts[here[p]] \subseteq parts'[here[p]]
  BY DEF MadeSoFar
<1>3. CASE step[p] \in {"open", "write"}
  BY <1>1, <1>2, <1>3 DEF MadeSoFar
<1>4. CASE step[p] \notin {"open", "write"}
  BY <1>2, <1>4 DEF MadeSoFar
<1>5. QED
  BY <1>3, <1>4

LEMMA InitTypeInit == InitInit => InitTypeOK
BY InitAssumption DEF InitInit, InitTypeOK, Step, Parts

LEMMA InitTypeStep == InitTypeOK /\ [InitNext]_initVars => InitTypeOK'
<1> SUFFICES ASSUME InitTypeOK, [InitNext]_initVars PROVE InitTypeOK'
  OBVIOUS
<1> DEFINE Disk == /\ kind \in [Dir -> {"absent", "file", "directory"}]
                   /\ parts \in [Dir -> SUBSET Parts]
                   /\ head \in [Dir -> {"absent", "empty", "whole"}]
                   /\ \A d \in Dir : kind[d] = "directory" <=> "git" \in parts[d]
           Runs == /\ step \in [Proc -> Step]
                   /\ here \in [Proc -> Dir \cup {None}]
                   /\ out \in [Proc -> {"none", "ok", "io_error", "repository_not_found"}]
                   /\ starts \in 0 .. MaxStarts
                   /\ passed \in [Proc -> SUBSET Dir]
                   /\ had \in [Proc -> SUBSET Dir]
                   /\ blind \subseteq Proc /\ spoilt \subseteq Dir
<1>a. Disk /\ Runs /\ \A p \in Proc : MadeSoFar(p)
  BY DEF InitTypeOK, MadeSoFar
<1>b. ASSUME Disk', Runs', \A q \in Proc : MadeSoFar(q)' PROVE InitTypeOK'
  BY ONLY <1>b DEF InitTypeOK, MadeSoFar
(* What is to be shown of a step of p: the others keep what they made. *)
<1>c. ASSUME NEW p \in Proc, Disk', Runs', MadeSoFar(p)',
             \A q \in Proc \ {p} : step'[q] = step[q] /\ here'[q] = here[q],
             \A d \in Dir : parts[d] \subseteq parts'[d]
      PROVE  InitTypeOK'
  <2>1. \A q \in Proc \ {p} : MadeSoFar(q)'
    BY <1>a, <1>c, MadeStays
  <2>2. QED
    BY <1>b, <1>c, <2>1
<1>1. ASSUME NEW p \in Proc, NEW d \in Dir, InitCommand(p, d) \/ Open(p, d) PROVE InitTypeOK'
  <2>1. PICK s \in {"git", "find"} : Start(p, d, s)
    BY <1>1 DEF InitCommand, Open
  <2>2. Disk' /\ Runs' /\ parts' = parts /\ step'[p] = s /\ here'[p] = d
    BY <1>a, <2>1, InitAssumption DEF Start, Goto, disk, Step, Parts, Repositories
  <2>3. MadeSoFar(p)'
    BY <2>2 DEF MadeSoFar
  <2>4. \A q \in Proc \ {p} : step'[q] = step[q] /\ here'[q] = here[q]
    BY <1>a, <2>1 DEF Start, Goto
  <2>5. QED
    BY <1>c, <2>2, <2>3, <2>4
<1>2. ASSUME NEW p \in Proc, MakeDirectory(p) PROVE InitTypeOK'
  <2>1. here[p] \in Dir /\ step[p] \in Parts /\ UNCHANGED <<here, starts, passed, had, blind, spoilt>>
    BY <1>a, <1>2 DEF MakeDirectory, Parts, MadeSoFar, history
  <2>2. CASE End(p, "io_error") /\ UNCHANGED disk
    BY <1>a, <1>c, <2>1, <2>2 DEF End, Goto, disk, Step, MadeSoFar
  <2>3. CASE /\ kind'  = [kind EXCEPT ![here[p]] = "directory"]
             /\ parts' = [parts EXCEPT ![here[p]] = @ \cup {step[p]}]
             /\ Goto(p, NextPart[step[p]])
             /\ UNCHANGED <<head, out>>
    <3>1. NextPart[step[p]] \in Step
      BY <2>1 DEF NextPart, Parts, Step
    <3>2. "git" \in parts'[here[p]]
      BY <1>a, <2>1, <2>3 DEF MadeSoFar, Parts
    <3>3. Disk'
      BY <1>a, <2>1, <2>3, <3>2
    <3>4. Runs'
      BY <1>a, <2>1, <2>3, <3>1 DEF Goto
    <3>5. MadeSoFar(p)'
      BY <1>a, <2>1, <2>3 DEF MadeSoFar, Goto, NextPart, Parts, Step
    <3>6. QED
      BY <1>a, <1>c, <2>1, <2>3, <3>3, <3>4, <3>5 DEF Goto
  <2>4. QED
    BY <1>2, <2>2, <2>3 DEF MakeDirectory
<1>3. ASSUME NEW p \in Proc, OpenHead(p) \/ WriteHead(p) \/ FlushRefused(p)
      PROVE  InitTypeOK'
  <2>1. here[p] \in Dir
    BY <1>a, <1>3 DEF OpenHead, WriteHead, FlushRefused, MadeSoFar
  <2>2. QED
    BY <1>a, <1>c, <1>3, <2>1
    DEF OpenHead, WriteHead, FlushRefused, End, Goto, disk, history, Step, MadeSoFar
<1>4. ASSUME NEW p \in Proc, FindGitRoot(p) \/ FindRefused(p) PROVE InitTypeOK'
  <2>1. here[p] \in Dir
    BY <1>a, <1>4 DEF FindGitRoot, FindRefused, MadeSoFar
  <2>2. QED
    BY <1>a, <1>c, <1>4, <2>1, InitAssumption
    DEF FindGitRoot, FindRefused, Upwards, End, Goto, disk, Step, MadeSoFar
<1>5. ASSUME NEW p \in Proc, Leave(p) \/ Kill(p) PROVE InitTypeOK'
  <2>1. Forget(p) /\ spoilt' \subseteq Dir
    BY <1>a, <1>5 DEF Leave, Kill, MadeSoFar
  <2>2. Disk' /\ Runs' /\ parts' = parts /\ step'[p] = "idle"
    BY <1>a, <2>1 DEF Forget, Goto, disk, Step
  <2>3. MadeSoFar(p)'
    BY <2>2 DEF MadeSoFar
  <2>4. \A q \in Proc \ {p} : step'[q] = step[q] /\ here'[q] = here[q]
    BY <1>a, <2>1 DEF Forget, Goto
  <2>5. QED
    BY <1>c, <2>2, <2>3, <2>4
<1>6. CASE UNCHANGED initVars
  BY <1>a, <1>b, <1>6 DEF initVars, disk, run, history, MadeSoFar
<1>7. QED
  BY <1>1, <1>2, <1>3, <1>4, <1>5, <1>6 DEF InitNext, StepOf

(* Whatever inits and searches run, die and are refused, the types hold. *)
THEOREM InitTypeCorrect == InitSpec => []InitTypeOK
BY InitTypeInit, InitTypeStep, PTL DEF InitSpec

-----------------------------------------------------------------------------
(* HeadIsOwed is inductive with the types: the parts are made before HEAD. *)
LEMMA HeadStep == InitTypeOK /\ HeadIsOwed /\ [InitNext]_initVars => HeadIsOwed'
<1> SUFFICES ASSUME InitTypeOK, HeadIsOwed, [InitNext]_initVars, NEW d \in Dir
             PROVE  /\ head'[d] = "empty" =>
                         d \in spoilt' \/ \E p \in Proc : step'[p] = "write" /\ here'[p] = d
                    /\ head'[d] # "absent" => parts'[d] = Parts
  BY DEF HeadIsOwed
<1>a. /\ kind \in [Dir -> {"absent", "file", "directory"}]
      /\ parts \in [Dir -> SUBSET Parts] /\ head \in [Dir -> {"absent", "empty", "whole"}]
      /\ step \in [Proc -> Step] /\ here \in [Proc -> Dir \cup {None}]
      /\ \A p \in Proc : MadeSoFar(p)
  BY DEF InitTypeOK, MadeSoFar
<1>b. /\ head[d] = "empty" => d \in spoilt \/ \E p \in Proc : step[p] = "write" /\ here[p] = d
      /\ head[d] # "absent" => parts[d] = Parts
  BY DEF HeadIsOwed
<1>1. ASSUME NEW p \in Proc, NEW e \in Dir, InitCommand(p, e) \/ Open(p, e)
      PROVE  /\ UNCHANGED <<head, parts, spoilt>> /\ step[p] = "idle"
             /\ \A q \in Proc \ {p} : step'[q] = step[q] /\ here'[q] = here[q]
  BY <1>a, <1>1 DEF InitCommand, Open, Start, Goto, disk
<1>2. ASSUME NEW p \in Proc, MakeDirectory(p)
      PROVE  /\ UNCHANGED <<head, here, spoilt>> /\ step[p] # "write"
             /\ \A q \in Proc \ {p} : step'[q] = step[q]
             /\ parts'[d] \in SUBSET Parts /\ parts[d] \subseteq parts'[d]
  BY <1>a, <1>2 DEF MakeDirectory, End, Goto, disk, history, Parts
<1>3. ASSUME NEW p \in Proc, OpenHead(p)
      PROVE  /\ UNCHANGED <<parts, here, spoilt>> /\ step[p] = "open"
             /\ \A q \in Proc \ {p} : step'[q] = step[q]
             /\ \/ UNCHANGED head
                \/ head'[d] = (IF d = here[p] THEN "empty" ELSE head[d]) /\ step'[p] = "write"
  BY <1>a, <1>3 DEF OpenHead, End, Goto, disk, history
<1>4. ASSUME NEW p \in Proc, WriteHead(p) \/ FlushRefused(p)
      PROVE  /\ UNCHANGED <<parts, here>> /\ step[p] = "write"
             /\ \A q \in Proc \ {p} : step'[q] = step[q]
             /\ \/ head'[d] = head[d] /\ spoilt' = spoilt \cup {here[p]}
                \/ /\ head'[d] = (IF d = here[p] THEN "whole" ELSE head[d])
                   /\ spoilt' = spoilt \ {here[p]}
  BY <1>a, <1>4 DEF WriteHead, FlushRefused, End, Goto, disk, history
<1>5. ASSUME NEW p \in Proc, FindGitRoot(p) \/ FindRefused(p)
      PROVE  /\ UNCHANGED <<head, parts, spoilt>> /\ step[p] # "write"
             /\ \A q \in Proc \ {p} : step'[q] = step[q] /\ here'[q] = here[q]
  BY <1>a, <1>5 DEF FindGitRoot, FindRefused, Upwards, End, Goto, disk
<1>6. ASSUME NEW p \in Proc, Leave(p) \/ Kill(p)
      PROVE  /\ UNCHANGED <<head, parts>>
             /\ spoilt' = IF step[p] = "write" THEN spoilt \cup {here[p]} ELSE spoilt
             /\ \A q \in Proc \ {p} : step'[q] = step[q] /\ here'[q] = here[q]
  BY <1>a, <1>6 DEF Leave, Kill, Forget, Goto, disk
<1>7. CASE UNCHANGED initVars
  BY <1>b, <1>7 DEF initVars, disk, run, history
<1>8. ASSUME NEW p \in Proc,
             StepOf(p) \/ FlushRefused(p) \/ FindRefused(p) \/ Leave(p) \/ Kill(p)
      PROVE  /\ head'[d] = "empty" =>
                  d \in spoilt' \/ \E q \in Proc : step'[q] = "write" /\ here'[q] = d
             /\ head'[d] # "absent" => parts'[d] = Parts
  <2>1. CASE MakeDirectory(p)
    BY <1>b, <1>2, <2>1
  <2>2. CASE OpenHead(p)
    BY <1>a, <1>b, <1>3, <2>2 DEF MadeSoFar
  <2>3. CASE WriteHead(p) \/ FlushRefused(p)
    BY <1>a, <1>b, <1>4, <2>3 DEF MadeSoFar
  <2>4. CASE FindGitRoot(p) \/ FindRefused(p)
    BY <1>b, <1>5, <2>4
  <2>5. CASE Leave(p) \/ Kill(p)
    BY <1>b, <1>6, <2>5
  <2>6. QED
    BY <1>8, <2>1, <2>2, <2>3, <2>4, <2>5 DEF StepOf
<1>9. ASSUME NEW p \in Proc, NEW e \in Dir, InitCommand(p, e) \/ Open(p, e)
      PROVE  /\ head'[d] = "empty" =>
                  d \in spoilt' \/ \E q \in Proc : step'[q] = "write" /\ here'[q] = d
             /\ head'[d] # "absent" => parts'[d] = Parts
  BY <1>b, <1>1, <1>9
<1>10. QED
  BY <1>7, <1>8, <1>9 DEF InitNext

(* A HEAD that was opened and is not written is owed, or was given up for cause. *)
THEOREM HeadsAreOwed == InitSpec => []HeadIsOwed
<1>1. InitInit => HeadIsOwed
  BY DEF InitInit, HeadIsOwed
<1>2. QED
  BY <1>1, HeadStep, InitTypeCorrect, PTL DEF InitSpec

-----------------------------------------------------------------------------
(***************************************************************************)
(* FoundIsNearest.  What it lacks to be inductive is that a repository is  *)
(* there to stay: what a run had when it started, there still is; and that *)
(* a run has passed nothing before it starts.                              *)
(***************************************************************************)
HadStays ==
  \A p \in Proc : had[p] \subseteq Repositories /\ (step[p] = "idle" => passed[p] = {})

LEMMA FoundStep ==
  InitTypeOK /\ HadStays /\ FoundIsNearest /\ [InitNext]_initVars => (HadStays /\ FoundIsNearest)'
<1> SUFFICES ASSUME InitTypeOK, HadStays, FoundIsNearest, [InitNext]_initVars
             PROVE  (HadStays /\ FoundIsNearest)'
  OBVIOUS
<1> DEFINE Nearest(p) ==
      /\ p \notin blind => had[p] \cap passed[p] = {}
      /\ step[p] = "exit" /\ out[p] = "ok" => kind[here[p]] = "directory"
      /\ step[p] = "exit" /\ out[p] = "repository_not_found" =>
           Above[here[p]] = None /\ here[p] \in passed[p]
      /\ had[p] \subseteq {d \in Dir : kind[d] = "directory"}
      /\ step[p] = "idle" => passed[p] = {}
<1>a. /\ kind \in [Dir -> {"absent", "file", "directory"}]
      /\ parts \in [Dir -> SUBSET Parts]
      /\ step \in [Proc -> Step] /\ here \in [Proc -> Dir \cup {None}]
      /\ out \in [Proc -> {"none", "ok", "io_error", "repository_not_found"}]
      /\ passed \in [Proc -> SUBSET Dir] /\ had \in [Proc -> SUBSET Dir]
      /\ \A d \in Dir : kind[d] = "directory" <=> "git" \in parts[d]
      /\ \A p \in Proc : MadeSoFar(p)
  BY DEF InitTypeOK, MadeSoFar
<1>b. \A p \in Proc : Nearest(p)
  BY DEF FoundIsNearest, HadStays, Repositories
<1>c. \A p \in Proc : step[p] = "exit" => here[p] \in Dir
  BY <1>a DEF MadeSoFar
(* Repositories stay, and a run is not touched by the steps of the others. *)
<1>d. ASSUME NEW p \in Proc, Nearest(p)', kind' \in [Dir -> {"absent", "file", "directory"}],
             \A d \in Dir : kind[d] = "directory" => kind'[d] = "directory",
             \A q \in Proc \ {p} : /\ step'[q] = step[q] /\ here'[q] = here[q]
                                   /\ out'[q] = out[q] /\ passed'[q] = passed[q]
                                   /\ had'[q] = had[q]
                                   /\ q \in blind => q \in blind'
      PROVE  (HadStays /\ FoundIsNearest)'
  <2>1. ASSUME NEW q \in Proc \ {p} PROVE Nearest(q)'
    BY <1>b, <1>c, <1>d, <2>1
  <2>2. \A q \in Proc : Nearest(q)'
    BY <1>d, <2>1
  <2>3. QED
    BY <2>2 DEF FoundIsNearest, HadStays, Repositories
<1>1. ASSUME NEW p \in Proc, NEW d \in Dir, InitCommand(p, d) \/ Open(p, d)
      PROVE  (HadStays /\ FoundIsNearest)'
  BY <1>a, <1>b, <1>d, <1>1 DEF InitCommand, Open, Start, Goto, disk, Repositories
<1>2. ASSUME NEW p \in Proc, MakeDirectory(p) PROVE (HadStays /\ FoundIsNearest)'
  BY <1>a, <1>b, <1>d, <1>2 DEF MakeDirectory, End, Goto, disk, history, NextPart, Parts
<1>3. ASSUME NEW p \in Proc, OpenHead(p) \/ WriteHead(p) \/ FlushRefused(p)
      PROVE  (HadStays /\ FoundIsNearest)'
  <2>1. here[p] \in Dir /\ kind[here[p]] = "directory"
    BY <1>a, <1>3 DEF OpenHead, WriteHead, FlushRefused, MadeSoFar, Parts
  <2>2. QED
    BY <1>a, <1>b, <1>d, <1>3, <2>1
    DEF OpenHead, WriteHead, FlushRefused, End, Goto, disk, history
<1>4. ASSUME NEW p \in Proc, FindGitRoot(p) \/ FindRefused(p)
      PROVE  (HadStays /\ FoundIsNearest)'
  <2>1. here[p] \in Dir /\ UNCHANGED <<kind, had>> /\ step[p] = "find"
    BY <1>a, <1>4 DEF FindGitRoot, FindRefused, MadeSoFar, disk
  <2>2. QED
    BY <1>a, <1>b, <1>d, <1>4, <2>1, InitAssumption
    DEF FindGitRoot, FindRefused, Upwards, IsRepository, End, Goto
<1>5. ASSUME NEW p \in Proc, Leave(p) \/ Kill(p) PROVE (HadStays /\ FoundIsNearest)'
  BY <1>a, <1>b, <1>d, <1>5 DEF Leave, Kill, Forget, Goto, disk
<1>6. CASE UNCHANGED initVars
  BY <1>b, <1>6 DEF initVars, disk, run, history, FoundIsNearest, HadStays, Repositories
<1>7. QED
  BY <1>1, <1>2, <1>3, <1>4, <1>5, <1>6 DEF InitNext, StepOf

(* A command that opens a repository works in the nearest one. *)
THEOREM FoundRepositoriesAreNearest == InitSpec => []FoundIsNearest
<1>1. InitInit => HadStays /\ FoundIsNearest
  BY DEF InitInit, HadStays, FoundIsNearest
<1>2. QED
  BY <1>1, FoundStep, InitTypeCorrect, PTL DEF InitSpec
=============================================================================

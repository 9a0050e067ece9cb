---------------------------- MODULE InitRepository ----------------------------
(***************************************************************************)
(* GitRepository::Init and GitRepository::Open (git_repository.cpp): init  *)
(* makes a repository one part after another, and over one that is there;  *)
(* every other command looks for the nearest one, from its directory       *)
(* upwards.  Both may be at work in the same directories, and an init that *)
(* died may be followed by another.                                        *)
(***************************************************************************)
EXTENDS Naturals

CONSTANTS
  Proc,       \* runs
  Dir,        \* the directories
  Above,      \* the directory above one, or None
  None,
  MaxStarts,  \* bound: how many commands are started
  CanKill,    \* runs may be killed
  CanFail     \* the operating system may refuse a call

(* What init makes; ".git" itself is made on the way to "objects". *)
Parts == {"git", "objects", "refs", "heads"}

(* Mutated form of NextPart: the directory of the branches is left out. *)
NextPartShort == [git |-> "objects", objects |-> "refs", refs |-> "open", heads |-> "open"]

NextPart == [git |-> "objects", objects |-> "refs", refs |-> "heads", heads |-> "open"]

ASSUME InitAssumption ==
  /\ None \notin Dir
  /\ Above \in [Dir -> Dir \cup {None}]
  /\ MaxStarts \in Nat /\ CanKill \in BOOLEAN /\ CanFail \in BOOLEAN

VARIABLES
  kind,    \* what ".git" is in each directory
  parts,   \* the directories there are in it, itself included
  head,    \* its HEAD
  step,    \* where the run stands: an init at the part it makes next
  here,    \* the directory it is at
  out,     \* how it ended
  starts,  \* how many commands were started
  (* History variables *)
  passed,  \* the directories the walk found no repository in
  had,     \* the directories that had a repository when it started
  blind,   \* runs that were refused an answer and went on
  spoilt   \* directories an init was at HEAD of when it died or was refused

disk     == <<kind, parts, head>>
run      == <<step, here, out>>
history  == <<passed, had, blind, spoilt>>
initVars == <<disk, run, starts, history>>

Step == {"idle", "open", "write", "find", "exit"} \cup Parts
Repositories == {d \in Dir : kind[d] = "directory"}

(* Nothing, a file as linked work trees have it, or a repository. *)
InitInit ==
  /\ kind \in [Dir -> {"absent", "file", "directory"}]
  /\ parts = [d \in Dir |-> IF kind[d] = "directory" THEN Parts ELSE {}]
  /\ head  = [d \in Dir |-> IF kind[d] = "directory" THEN "whole" ELSE "absent"]
  /\ step  = [p \in Proc |-> "idle"]
  /\ here  = [p \in Proc |-> None]
  /\ out   = [p \in Proc |-> "none"]
  /\ starts = 0
  /\ passed = [p \in Proc |-> {}]
  /\ had   = [p \in Proc |-> {}]
  /\ blind = {} /\ spoilt = {}

Goto(p, s) == step' = [step EXCEPT ![p] = s]
End(p, s)  == Goto(p, "exit") /\ out' = [out EXCEPT ![p] = s]

Start(p, d, s) ==
  /\ step[p] = "idle" /\ starts < MaxStarts
  /\ starts' = starts + 1
  /\ Goto(p, s)
  /\ here' = [here EXCEPT ![p] = d]
  /\ had'  = [had EXCEPT ![p] = Repositories]
  /\ UNCHANGED <<disk, out, passed, blind, spoilt>>

-----------------------------------------------------------------------------
(* GitRepository::Init *)
InitCommand(p, d) == Start(p, d, "git")

MakeDirectory(p) ==
  LET d == here[p] IN
  /\ step[p] \in Parts
  /\ \/ /\ kind[d] = "file" \/ CanFail
        /\ End(p, "io_error")
        /\ UNCHANGED disk
     \/ /\ kind[d] # "file"
        /\ kind'  = [kind EXCEPT ![d] = "directory"]
        /\ parts' = [parts EXCEPT ![d] = @ \cup {step[p]}]
        /\ Goto(p, NextPart[step[p]])
        /\ UNCHANGED <<head, out>>
  /\ UNCHANGED <<here, starts, history>>

(* Mutated form of OpenHead: HEAD is only created. *)
OpenHeadOnly(p) ==
  /\ step[p] = "open"
  /\ head' = [head EXCEPT ![here[p]] = "empty"]
  /\ End(p, "ok")
  /\ UNCHANGED <<kind, parts, here, starts, history>>

(* HEAD is truncated if there is one. *)
OpenHead(p) ==
  /\ step[p] = "open"
  /\ \/ CanFail /\ End(p, "io_error") /\ UNCHANGED disk
     \/ /\ head' = [head EXCEPT ![here[p]] = "empty"]
        /\ Goto(p, "write")
        /\ UNCHANGED <<kind, parts, out>>
  /\ UNCHANGED <<here, starts, history>>

(* The line is in the ofstream's buffer until the destructor flushes it. *)
WriteHead(p) ==
  /\ step[p] = "write"
  /\ head' = [head EXCEPT ![here[p]] = "whole"]
  /\ spoilt' = spoilt \ {here[p]}
  /\ End(p, "ok")
  /\ UNCHANGED <<kind, parts, here, starts, passed, had, blind>>

(* good() was tested before: a flush that is refused goes unnoticed. *)
FlushRefused(p) ==
  /\ CanFail /\ step[p] = "write"
  /\ spoilt' = spoilt \cup {here[p]}
  /\ End(p, "ok")
  /\ UNCHANGED <<disk, here, starts, passed, had, blind>>

-----------------------------------------------------------------------------
(* GitRepository::Open, FindGitRoot *)
Open(p, d) == Start(p, d, "find")

(* Mutated form of IsRepository: a file will do. *)
IsAnything(d) == kind[d] # "absent"

IsRepository(d) == kind[d] = "directory"

(* Mutated form of Upwards: the top directory is above itself. *)
UpwardsForEver(p) ==
  /\ passed' = [passed EXCEPT ![p] = @ \cup {here[p]}]
  /\ here' = [here EXCEPT ![p] = IF Above[@] = None THEN @ ELSE Above[@]]
  /\ UNCHANGED <<step, out>>

Upwards(p) ==
  /\ passed' = [passed EXCEPT ![p] = @ \cup {here[p]}]
  /\ IF Above[here[p]] = None THEN End(p, "repository_not_found") /\ UNCHANGED here
     ELSE here' = [here EXCEPT ![p] = Above[@]] /\ UNCHANGED <<step, out>>

FindGitRoot(p) ==
  /\ step[p] = "find"
  /\ IF IsRepository(here[p]) THEN End(p, "ok") /\ UNCHANGED <<here, passed>>
     ELSE Upwards(p)
  /\ UNCHANGED <<disk, starts, had, blind, spoilt>>

(* exists() is refused, or is_directory(), whose error is taken for a no. *)
FindRefused(p) ==
  /\ CanFail /\ step[p] = "find"
  /\ \/ End(p, "io_error") /\ UNCHANGED <<here, passed, blind>>
     \/ /\ kind[here[p]] # "absent"
        /\ Upwards(p)
        /\ blind' = blind \cup {p}
  /\ UNCHANGED <<disk, starts, had, spoilt>>

-----------------------------------------------------------------------------
Forget(p) ==
  /\ Goto(p, "idle")
  /\ here' = [here EXCEPT ![p] = None]
  /\ out'  = [out EXCEPT ![p] = "none"]
  /\ passed' = [passed EXCEPT ![p] = {}]
  /\ had'  = [had EXCEPT ![p] = {}]
  /\ blind' = blind \ {p}
  /\ UNCHANGED <<disk, starts>>

Leave(p) == step[p] = "exit" /\ Forget(p) /\ UNCHANGED spoilt

Kill(p) ==
  /\ CanKill /\ step[p] \notin {"idle", "exit"}
  /\ spoilt' = IF step[p] = "write" THEN spoilt \cup {here[p]} ELSE spoilt
  /\ Forget(p)

StepOf(p) == MakeDirectory(p) \/ OpenHead(p) \/ WriteHead(p) \/ FindGitRoot(p)

InitNext ==
  \E p \in Proc :
    \/ \E d \in Dir : InitCommand(p, d) \/ Open(p, d)
    \/ StepOf(p) \/ FlushRefused(p) \/ FindRefused(p) \/ Leave(p) \/ Kill(p)

InitSpec == InitInit /\ [][InitNext]_initVars

(* A command that was started is scheduled until it exits. *)
InitFairSpec == InitSpec /\ \A p \in Proc : WF_initVars(StepOf(p))

-----------------------------------------------------------------------------
(* An init has made what comes before the part it is at. *)
InitTypeOK ==
  /\ kind \in [Dir -> {"absent", "file", "directory"}]
  /\ parts \in [Dir -> SUBSET Parts]
  /\ head \in [Dir -> {"absent", "empty", "whole"}]
  /\ step \in [Proc -> Step]
  /\ here \in [Proc -> Dir \cup {None}]
  /\ out \in [Proc -> {"none", "ok", "io_error", "repository_not_found"}]
  /\ starts \in 0 .. MaxStarts
  /\ passed \in [Proc -> SUBSET Dir]
  /\ had \in [Proc -> SUBSET Dir]
  /\ blind \subseteq Proc /\ spoilt \subseteq Dir
  /\ \A d \in Dir : kind[d] = "directory" <=> "git" \in parts[d]
  /\ \A p \in Proc :
       /\ step[p] # "idle" => here[p] \in Dir
       /\ step[p] = "objects" => "git" \in parts[here[p]]
       /\ step[p] = "refs"    => {"git", "objects"} \subseteq parts[here[p]]
       /\ step[p] = "heads"   => {"git", "objects", "refs"} \subseteq parts[here[p]]
       /\ step[p] \in {"open", "write"} => parts[here[p]] = Parts

(***************************************************************************)
(* No HEAD is left short without a cause: where it was opened and is not   *)
(* written, an init is still to write it, or the last to be at it died or  *)
(* was refused the flush; and wherever HEAD was opened, the directories    *)
(* were made before.  So a HEAD that was left short is written by the next *)
(* init, and inits side by side leave a whole repository.  Of a HEAD that  *)
(* no init came to open nothing is said.                                   *)
(***************************************************************************)
HeadIsOwed ==
  \A d \in Dir :
    /\ head[d] = "empty" =>
         d \in spoilt \/ \E p \in Proc : step[p] = "write" /\ here[p] = d
    /\ head[d] # "absent" => parts[d] = Parts

(***************************************************************************)
(* A command works in the nearest repository: it opens a directory, every  *)
(* one it passed had no repository when it started, and it says there is   *)
(* none only if none was there, whatever inits make around it meanwhile.   *)
(* A question the operating system refuses to answer voids this.           *)
(***************************************************************************)
FoundIsNearest ==
  \A p \in Proc :
    /\ p \notin blind => had[p] \cap passed[p] = {}
    /\ step[p] = "exit" /\ out[p] = "ok" => kind[here[p]] = "directory"
    /\ step[p] = "exit" /\ out[p] = "repository_not_found" =>
         Above[here[p]] = None /\ here[p] \in passed[p]

(* Every command that starts ends: the walk ends at the top directory. *)
InitEnds == \A p \in Proc : []<>(step[p] \in {"idle", "exit"})
=============================================================================

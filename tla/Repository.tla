------------------------------ MODULE Repository ------------------------------
(***************************************************************************)
(* The commands of git_cli_application.cpp that work on an existing        *)
(* repository (git_repository.cpp): hash-object, write-tree, commit-tree,  *)
(* cat-file and ls-tree, each run of which is a process of its own over    *)
(* the shared ObjectStore, while a user edits the working tree.  A file is *)
(* read in as many calls as it has pieces, and may change between them.    *)
(*                                                                         *)
(* An object is the record of what its raw bytes say, and stands for its   *)
(* hash.  A tree object is a SET of entries: the names of a directory      *)
(* differ and the code sorts the entries by name before it serialises      *)
(* them, so the set determines the bytes.                                  *)
(***************************************************************************)
EXTENDS ObjectStore, FiniteSets, Sequences

CONSTANTS
  File,      \* paths of the working tree that may hold a regular file
  Dir,       \* paths that may hold a directory, Root among them
  Root,      \* the current directory of the commands
  DotGit,    \* the paths of the working tree whose last component is ".git"
  Parent,    \* Parent[n]: the directory that holds n
  Piece,     \* what one call reads of a file
  NReads,    \* bound: how many pieces a file may have
  Content,   \* contents of files, sequences of pieces (none reads as a tree body)
  Folder,    \* a directory at a path
  Absent,    \* nothing at a path
  CommitArgs, \* the <<tree, parent>> that commit-tree is given
  ReadArgs,   \* the hashes that cat-file and ls-tree are given
  MaxEdits,  \* bound: how often the user edits the working tree
  MaxStarts  \* bound: how many commands are started

Path == File \cup Dir

Blob(c)      == [type |-> "blob", content |-> c]
Tree(es)     == [type |-> "tree", entries |-> es]
Commit(t, c) == [type |-> "commit", tree |-> t, parent |-> c]

Entry == [mode : {"100644", "40000"}, name : Path, hash : Object]

Text == UNION {[1 .. k -> Piece] : k \in 0 .. NReads}

(* What reading a file may yield whose content is one member of H after another. *)
Reads(H) ==
  {s \in Text : /\ \A i \in DOMAIN s : \E h \in H : i \in DOMAIN h /\ s[i] = h[i]
              /\ \E h \in H : Len(h) <= Len(s)}

(* Directories are nested, to a finite depth; a tree has entries. *)
ASSUME RepositoryAssumption ==
  /\ File \cap Dir = {} /\ Root \in Dir /\ IsFiniteSet(Dir)
  /\ Parent \in [Path \ {Root} -> Dir]
  /\ \E depth \in [Dir -> 0 .. Cardinality(Dir)] :
       \A d \in Dir \ {Root} : depth[Parent[d]] < depth[d]
  /\ \A o \in Object : o.type = "tree" => o.entries \subseteq Entry
  /\ NReads \in Nat /\ Content \subseteq Text
  /\ Absent \notin Content \cup {Folder} /\ Folder \notin Content
  /\ \A s \in Reads(Content) : Blob(s) \in Object
  /\ CommitArgs \subseteq (Object \cup {BadHash}) \X (Object \cup {BadHash, None})
  /\ \A a \in CommitArgs : BadHash \in {a[1], a[2]} \/ Commit(a[1], a[2]) \in Object
  /\ ReadArgs \subseteq Object \cup {BadHash}
  /\ MaxEdits \in Nat /\ MaxStarts \in Nat

TreeEntry(mode, n, o) == [mode |-> mode, name |-> n, hash |-> o]

(* The objects an object names. *)
Refs(o) ==
  IF o.type = "tree" THEN {e.hash : e \in o.entries}
  ELSE IF o.type = "commit" THEN {o.tree, o.parent} \ {None}
  ELSE {}

VARIABLES
  work,     \* work[n]: the content of a file, Folder, or Absent
  kept,     \* the content of a run's open file that has lost its path, or Absent
  at,       \* where the command of a run stands
  dir,      \* the directory of the innermost WriteTreeRecursive
  left,     \* left[p][d]: names its iterator has still to yield
  entries,  \* entries[p][d]: the entries collected for d
  name,     \* the file that is being read, or whose blob is being stored
  buffer,   \* what was read of it
  args,     \* the arguments of commit-tree
  out,      \* how the command ended, and the object whose hash or body it printed
  (* History variables *)
  edits,    \* how many edits there were
  starts,   \* how many commands were started
  edited,   \* runs during which there was one
  held,     \* held[p]: what each file held at some time of the run
  disturbed, \* disturbed[p]: files that were overwritten while the run read them
  printed   \* the trees write-tree printed the hash of

files   == <<work, kept>>
walk    == <<dir, left, entries, name, buffer>>
command == <<at, walk, args, out>>
watch   == <<edits, edited, held, disturbed>>
vars    == <<storeVars, files, command, watch, printed, starts>>

Reading == {"hashing", "reading"}

At == Reading \cup {"idle", "hash", "walk", "blob", "tree",
                    "tree?", "parent?", "commit", "cat", "ls", "exit"}

(* What the file a run has open holds: a file keeps its content when it loses its path. *)
Opened(p) == IF kept[p] = Absent THEN work[name[p]] ELSE kept[p]

Status == {"none", "ok", "io_error", "object_not_found", "compression_error",
           "object_format_invalid", "object_hash_invalid", "tree_format_invalid",
           "tree_not_found", "commit_not_found"}

CommandTypeOK ==
  /\ at \in [Proc -> At]
  /\ dir \in [Proc -> Dir]
  /\ left \in [Proc -> [Dir -> SUBSET Path]]
  /\ entries \in [Proc -> [Dir -> SUBSET Entry]]
  /\ name \in [Proc -> Path]
  /\ buffer \in [Proc -> Text]
  /\ args \in [Proc -> [tree : Object \cup {BadHash, None}, parent : Object \cup {BadHash, None}]]
  /\ out \in [Proc -> [status : Status, hash : Object \cup {None}]]

(* The objects commands store and the arguments they have checked so far. *)
CallsMatchCommands ==
  \A p \in Proc :
    /\ pc[p] = "idle" <=> at[p] \in Reading \cup {"idle", "walk", "tree?", "parent?", "exit"}
    /\ at[p] \in {"hash", "blob", "tree", "commit"} => obj[p] \in Object
    /\ at[p] \in {"tree?", "parent?"} => <<args[p].tree, args[p].parent>> \in CommitArgs
    /\ at[p] = "parent?" => args[p].tree \in exists

WatchTypeOK ==
  /\ work \in [Path -> Content \cup {Folder, Absent}]
  /\ \A f \in File : work[f] \in Content \cup {Absent}
  /\ kept \in [Proc -> Content \cup {Absent}]
  /\ edits \in 0 .. MaxEdits /\ starts \in 0 .. MaxStarts
  /\ edited \subseteq Proc
  /\ held \in [Proc -> SUBSET (File \X Content)]
  /\ disturbed \in [Proc -> SUBSET File]
  /\ printed \subseteq Object

(* Only the run that reads a file has it open, and every piece it read is from a content. *)
OpenFilesOK ==
  \A p \in Proc :
    /\ IF at[p] \in Reading THEN name[p] \in File /\ Opened(p) \in Content
                            ELSE kept[p] = Absent
    /\ \A i \in DOMAIN buffer[p] : \E c \in Content : i \in DOMAIN c /\ buffer[p][i] = c[i]

TypeOK == StoreTypeOK /\ CommandTypeOK /\ CallsMatchCommands /\ WatchTypeOK /\ OpenFilesOK

Outcome(s, o) == [status |-> s, hash |-> o]

Holds(w) == {fc \in File \X Content : w[fc[1]] = fc[2]}

Init ==
  /\ StoreInit
  /\ \E w \in [Path -> Content \cup {Folder, Absent}] :
       /\ \A f \in File : w[f] \in Content \cup {Absent}
       /\ \A d \in Dir : w[d] = Folder
       /\ work = w
  /\ kept = [p \in Proc |-> Absent]
  /\ at  = [p \in Proc |-> "idle"]
  /\ dir = [p \in Proc |-> Root]
  /\ left = [p \in Proc |-> [d \in Dir |-> {}]]
  /\ entries = [p \in Proc |-> [d \in Dir |-> {}]]
  /\ name = [p \in Proc |-> Root]
  /\ buffer = [p \in Proc |-> << >>]
  /\ args = [p \in Proc |-> [tree |-> None, parent |-> None]]
  /\ out = [p \in Proc |-> Outcome("none", None)]
  /\ edits = 0 /\ starts = 0 /\ edited = {}
  /\ held = [p \in Proc |-> {}]
  /\ disturbed = [p \in Proc |-> {}]
  /\ printed = {}

GoTo(p, step) == at' = [at EXCEPT ![p] = step]
Exit(p, r)    == GoTo(p, "exit") /\ out' = [out EXCEPT ![p] = r]
Fail(p, e)    == Exit(p, Outcome(e, None))

(* Mutated form of Answer: an object is printed although the call failed. *)
AnswerAnyway(p) == Outcome(res[p], obj[p])

(* How a command that ends with its store call ends. *)
Answer(p) == Outcome(res[p], IF res[p] = "ok" THEN obj[p] ELSE None)

-----------------------------------------------------------------------------
(* ReadBinaryFile: the opening of a file, its reading and its end.         *)

(* The opening, of a directory too, may fail. *)
Unreadable(n) == work[n] = Absent \/ CanFail

OpenFile(p, n, step) ==
  /\ work[n] # Absent
  /\ GoTo(p, step)
  /\ name' = [name EXCEPT ![p] = n]
  /\ buffer' = [buffer EXCEPT ![p] = << >>]
  /\ UNCHANGED kept

(* Mutated form of FileEnd: reading stops although the file goes on. *)
FileEndEarly(p) ==
  /\ at[p] \in Reading /\ Blob(buffer[p]) \in Object
  /\ GoTo(p, IF at[p] = "hashing" THEN "hash" ELSE "blob")
  /\ CallStore(p, Blob(buffer[p]))
  /\ kept' = [kept EXCEPT ![p] = Absent]
  /\ UNCHANGED <<work, walk, args, out, watch, printed>>

FilePiece(p) ==
  LET k == Len(buffer[p]) + 1 IN
  /\ at[p] \in Reading /\ k <= Len(Opened(p))
  /\ buffer' = [buffer EXCEPT ![p] = Append(@, Opened(p)[k])]
  /\ UNCHANGED <<storeVars, files, at, dir, left, entries, name, args, out, watch, printed>>

(* The end of the file as it is now; what was read is stored as a blob. *)
FileEnd(p) ==
  /\ at[p] \in Reading /\ Len(Opened(p)) <= Len(buffer[p])
  /\ GoTo(p, IF at[p] = "hashing" THEN "hash" ELSE "blob")
  /\ CallStore(p, Blob(buffer[p]))
  /\ kept' = [kept EXCEPT ![p] = Absent]
  /\ UNCHANGED <<work, walk, args, out, watch, printed>>

(***************************************************************************)
(* A read is refused.  The code means to fail with kIoError; where the     *)
(* stream iterator throws instead, as libstdc++'s does, nothing catches it *)
(* and the run is over as well, its answer lost.                           *)
(***************************************************************************)
FileError(p) ==
  /\ CanFail /\ at[p] \in Reading
  /\ Fail(p, "io_error")
  /\ kept' = [kept EXCEPT ![p] = Absent]
  /\ UNCHANGED <<storeVars, work, walk, args, watch, printed>>

-----------------------------------------------------------------------------
(* hash-object -w                                                          *)

HashObject(p, f) ==
  /\ at[p] = "idle"
  /\ \/ Unreadable(f) /\ Fail(p, "io_error") /\ UNCHANGED <<kept, name, buffer>>
     \/ OpenFile(p, f, "hashing") /\ UNCHANGED out
  /\ UNCHANGED <<storeVars, work, dir, left, entries, args, watch, printed>>

(* The end of hash-object, commit-tree and cat-file. *)
PrintAnswer(p) ==
  /\ at[p] \in {"hash", "commit", "cat"}
  /\ Return(p)
  /\ Exit(p, Answer(p))
  /\ UNCHANGED <<files, walk, args, watch, printed>>

-----------------------------------------------------------------------------
(* write-tree: WriteTreeRecursive, its frames kept by directory.           *)

(* The names are read, with their types, when the iterator opens d. *)
Listing(d) == {n \in Path \ ({Root} \cup DotGit) : Parent[n] = d /\ work[n] # Absent}

Enter(p, d, l) ==
  /\ dir' = [dir EXCEPT ![p] = d]
  /\ left' = [left EXCEPT ![p] = [l EXCEPT ![d] = Listing(d)]]
  /\ entries' = [entries EXCEPT ![p][d] = {}]
  /\ UNCHANGED <<name, buffer>>

WriteTree(p) ==
  /\ at[p] = "idle"
  /\ GoTo(p, "walk")
  /\ Enter(p, Root, left[p])
  /\ edited' = edited \ {p}
  /\ held' = [held EXCEPT ![p] = Holds(work)]
  /\ disturbed' = [disturbed EXCEPT ![p] = {}]
  /\ UNCHANGED <<storeVars, files, args, out, edits, printed>>

(* A subdirectory that is gone when its turn comes fails the command. *)
WalkDir(p, n) ==
  /\ at[p] = "walk" /\ n \in left[p][dir[p]] \cap Dir
  /\ \/ Unreadable(n) /\ Fail(p, "io_error") /\ UNCHANGED walk
     \/ /\ work[n] # Absent
        /\ Enter(p, n, [left[p] EXCEPT ![dir[p]] = @ \ {n}])
        /\ UNCHANGED <<at, out>>
  /\ UNCHANGED <<storeVars, files, args, watch, printed>>

(* Mutated form of WalkFile: the iterator does not advance. *)
WalkFileAgain(p, n) ==
  /\ at[p] = "walk" /\ n \in left[p][dir[p]] \cap File
  /\ OpenFile(p, n, "reading")
  /\ UNCHANGED <<storeVars, work, dir, left, entries, out, args, watch, printed>>

(* So does a file; otherwise it is read, and its blob stored. *)
WalkFile(p, n) ==
  /\ at[p] = "walk" /\ n \in left[p][dir[p]] \cap File
  /\ \/ Unreadable(n) /\ Fail(p, "io_error") /\ UNCHANGED <<kept, left, name, buffer>>
     \/ /\ OpenFile(p, n, "reading")
        /\ left' = [left EXCEPT ![p][dir[p]] = @ \ {n}]
        /\ UNCHANGED out
  /\ UNCHANGED <<storeVars, work, dir, entries, args, watch, printed>>

(* Mutated form of BlobStored: the entry is added although the blob was not stored. *)
BlobStoredUnchecked(p) ==
  /\ at[p] = "blob"
  /\ Return(p)
  /\ GoTo(p, "walk")
  /\ entries' = [entries EXCEPT ![p][dir[p]] = @ \cup {TreeEntry("100644", name[p], obj[p])}]
  /\ UNCHANGED <<files, dir, left, name, buffer, args, out, watch, printed>>

BlobStored(p) ==
  /\ at[p] = "blob"
  /\ Return(p)
  /\ IF res[p] # "ok" THEN Fail(p, res[p]) /\ UNCHANGED entries
     ELSE /\ GoTo(p, "walk")
          /\ entries' = [entries EXCEPT ![p][dir[p]] =
                           @ \cup {TreeEntry("100644", name[p], obj[p])}]
          /\ UNCHANGED out
  /\ UNCHANGED <<files, dir, left, name, buffer, args, watch, printed>>

WalkEnd(p) ==
  /\ at[p] = "walk" /\ left[p][dir[p]] = {}
  /\ Tree(entries[p][dir[p]]) \in Object   \* the instance has every tree there can be
  /\ GoTo(p, "tree")
  /\ CallStore(p, Tree(entries[p][dir[p]]))
  /\ UNCHANGED <<files, walk, args, out, watch, printed>>

TreeStored(p) ==
  /\ at[p] = "tree"
  /\ Return(p)
  /\ \/ /\ res[p] # "ok"
        /\ Fail(p, res[p])
        /\ UNCHANGED <<dir, entries, printed>>
     \/ /\ res[p] = "ok" /\ dir[p] = Root
        /\ Exit(p, Answer(p))
        /\ printed' = printed \cup {obj[p]}
        /\ UNCHANGED <<dir, entries>>
     \/ /\ res[p] = "ok" /\ dir[p] # Root
        /\ GoTo(p, "walk")
        /\ dir' = [dir EXCEPT ![p] = Parent[dir[p]]]
        /\ entries' = [entries EXCEPT ![p][Parent[dir[p]]] =
                         @ \cup {TreeEntry("40000", dir[p], obj[p])}]
        /\ UNCHANGED <<out, printed>>
  /\ UNCHANGED <<files, left, name, buffer, args, watch>>

-----------------------------------------------------------------------------
(* commit-tree: of the tree and the parent only the existence is checked.  *)

CommitTree(p, t, c) ==
  /\ at[p] = "idle"
  /\ GoTo(p, "tree?")
  /\ args' = [args EXCEPT ![p] = [tree |-> t, parent |-> c]]
  /\ UNCHANGED <<storeVars, files, walk, out, watch, printed>>

StoreCommit(p, t, c) ==
  /\ GoTo(p, "commit")
  /\ CallStore(p, Commit(t, c))
  /\ UNCHANGED out

(* ObjectExists, and the error of the command when it says no; the query may fail too. *)
Refused(h, missing) ==
  CASE h = BadHash   -> "object_hash_invalid"
    [] h \notin exists -> missing
    [] OTHER         -> "none"

CheckTree(p) ==
  LET t == args[p].tree
      c == args[p].parent
      e == Refused(t, "tree_not_found")
  IN
  /\ at[p] = "tree?"
  /\ \/ e # "none" /\ Fail(p, e) /\ UNCHANGED storeVars
     \/ CanFail /\ t # BadHash /\ Fail(p, "io_error") /\ UNCHANGED storeVars
     \/ e = "none" /\ c # None /\ GoTo(p, "parent?") /\ UNCHANGED <<out, storeVars>>
     \/ e = "none" /\ c = None /\ StoreCommit(p, t, c)
  /\ UNCHANGED <<files, walk, args, watch, printed>>

CheckParent(p) ==
  LET t == args[p].tree
      c == args[p].parent
      e == Refused(c, "commit_not_found")
  IN
  /\ at[p] = "parent?"
  /\ \/ e # "none" /\ Fail(p, e) /\ UNCHANGED storeVars
     \/ CanFail /\ c # BadHash /\ Fail(p, "io_error") /\ UNCHANGED storeVars
     \/ e = "none" /\ StoreCommit(p, t, c)
  /\ UNCHANGED <<files, walk, args, watch, printed>>

-----------------------------------------------------------------------------
(* cat-file -p and ls-tree --name-only                                     *)

ReadCommand(p, h, step) ==
  /\ at[p] = "idle"
  /\ GoTo(p, step)
  /\ CallRead(p, h)
  /\ UNCHANGED <<files, walk, args, out, watch, printed>>

(* No body but a tree's parses as one. *)
ParseTreeEntries(o) == IF o.type = "tree" THEN "ok" ELSE "tree_format_invalid"

ListTreeNames(p) ==
  /\ at[p] = "ls"
  /\ Return(p)
  /\ IF res[p] = "ok" /\ ParseTreeEntries(obj[p]) # "ok"
     THEN Fail(p, ParseTreeEntries(obj[p])) ELSE Exit(p, Answer(p))
  /\ UNCHANGED <<files, walk, args, watch, printed>>

-----------------------------------------------------------------------------
(* The process ends, and the next command starts afresh. *)
Reset(p) ==
  /\ GoTo(p, "idle")
  /\ dir' = [dir EXCEPT ![p] = Root]
  /\ left' = [left EXCEPT ![p] = [d \in Dir |-> {}]]
  /\ entries' = [entries EXCEPT ![p] = [d \in Dir |-> {}]]
  /\ name' = [name EXCEPT ![p] = Root]
  /\ buffer' = [buffer EXCEPT ![p] = << >>]
  /\ kept' = [kept EXCEPT ![p] = Absent]
  /\ args' = [args EXCEPT ![p] = [tree |-> None, parent |-> None]]
  /\ out' = [out EXCEPT ![p] = Outcome("none", None)]
  /\ edited' = edited \ {p}
  /\ held' = [held EXCEPT ![p] = {}]
  /\ disturbed' = [disturbed EXCEPT ![p] = {}]
  /\ UNCHANGED <<work, edits, printed>>

Leave(p) == at[p] = "exit" /\ Reset(p) /\ UNCHANGED storeVars

KillCommand(p) ==
  /\ CanKill /\ at[p] \notin {"idle", "exit"}
  /\ IF pc[p] = "idle" THEN UNCHANGED storeVars ELSE Kill(p)
  /\ Reset(p)

(***************************************************************************)
(* The user writes or removes a file, makes or removes an (empty)          *)
(* directory.  A file is overwritten in place, where those who have it     *)
(* open read on in the new content, or removed or replaced by another, and *)
(* they read on in the old one.                                            *)
(***************************************************************************)
OpenBy(n) == {p \in Proc : at[p] \in Reading /\ name[p] = n /\ kept[p] = Absent}

Overwrite(n, v) ==
  /\ work[n] \in Content /\ v \in Content
  /\ disturbed' = [p \in Proc |-> IF p \in OpenBy(n) THEN disturbed[p] \cup {n}
                                                     ELSE disturbed[p]]
  /\ UNCHANGED kept

Replace(n) ==
  /\ kept' = [p \in Proc |-> IF p \in OpenBy(n) THEN work[n] ELSE kept[p]]
  /\ UNCHANGED disturbed

Edit(n, v) ==
  /\ edits < MaxEdits /\ work[n] # v
  /\ n \notin DotGit \cup {Root} /\ work[Parent[n]] = Folder
  /\ n \in Dir => \A m \in Path \ {Root} : Parent[m] = n => work[m] = Absent
  /\ work' = [work EXCEPT ![n] = v]
  /\ Overwrite(n, v) \/ Replace(n)
  /\ edits' = edits + 1
  /\ edited' = {p \in Proc : at[p] # "idle"}
  /\ held' = [p \in Proc |-> IF at[p] = "idle" THEN {} ELSE held[p] \cup Holds(work')]
  /\ UNCHANGED <<storeVars, command, printed>>

(* The steps of a command that has started, its store call included. *)
StepOf(p) ==
  \/ FilePiece(p) \/ FileEnd(p)
  \/ PrintAnswer(p)
  \/ \E n \in Path : WalkDir(p, n) \/ WalkFile(p, n)
  \/ BlobStored(p) \/ WalkEnd(p) \/ TreeStored(p)
  \/ CheckTree(p) \/ CheckParent(p)
  \/ ListTreeNames(p)
  \/ StoreStep(p) /\ UNCHANGED <<files, command, watch, printed>>

Start(p) ==
  /\ starts < MaxStarts
  /\ starts' = starts + 1
  /\ \/ \E f \in File : HashObject(p, f)
     \/ WriteTree(p)
     \/ \E a \in CommitArgs : CommitTree(p, a[1], a[2])
     \/ \E h \in ReadArgs, s \in {"cat", "ls"} : ReadCommand(p, h, s)

UserEdits ==
  \/ \E f \in File, v \in Content \cup {Absent} : Edit(f, v)
  \/ \E d \in Dir, v \in {Folder, Absent} : Edit(d, v)

Next ==
  \/ \E p \in Proc : Start(p)
  \/ /\ \/ \E p \in Proc :
             \/ StepOf(p) \/ Leave(p) \/ KillCommand(p)
             \/ FileError(p)
             \/ StoreFault(p) /\ UNCHANGED <<files, command, watch, printed>>
        \/ UserEdits
     /\ UNCHANGED starts

Spec == Init /\ [][Next]_vars

(* A command that was started is scheduled until it exits. *)
FairSpec == Spec /\ \A p \in Proc : WF_vars(StepOf(p) /\ UNCHANGED starts)

-----------------------------------------------------------------------------
(***************************************************************************)
(* Nothing in the store dangles: every object that a stored tree or commit *)
(* names is in the store too.  WriteTreeRecursive stores children before   *)
(* their tree and CommitTree checks before it stores, so this must survive *)
(* commands that are killed, refused or interleaved in any way.            *)
(***************************************************************************)
Connected == \A o \in exists : Refs(o) \subseteq exists

(***************************************************************************)
(* What write-tree prints.  If nobody edited the working tree since the    *)
(* command started, it is the tree of the working tree; if somebody did,   *)
(* each file in it has a content that the file held at some time during    *)
(* the command, never another run's or an earlier one.  Only a file that   *)
(* was overwritten while the command was reading it may be mixed, and then *)
(* of pieces that were each where they are in a content it held.           *)
(***************************************************************************)
TreeAt[d \in Dir] ==
  Tree({TreeEntry("100644", f, Blob(work[f])) : f \in Listing(d) \cap File}
       \cup {TreeEntry("40000", n, TreeAt[n]) : n \in Listing(d) \cap Dir})

Leaves[o \in Object] ==
  IF o.type # "tree" THEN {}
  ELSE UNION {IF e.mode = "40000" THEN Leaves[e.hash] ELSE {<<e.name, e.hash.content>>}
                : e \in o.entries}

HeldBy(p, f) == {h \in Content : <<f, h>> \in held[p]}

WasHeld(p, f, c) == IF f \in disturbed[p] THEN c \in Reads(HeldBy(p, f))
                                         ELSE c \in HeldBy(p, f)

WriteTreeIsSnapshot ==
  [][\A p \in Proc :
       at[p] = "tree" /\ at'[p] = "exit" /\ out'[p].status = "ok"
         => /\ \A leaf \in Leaves[out'[p].hash] : WasHeld(p, leaf[1], leaf[2])
            /\ p \notin edited => out'[p].hash = TreeAt[Root]]_vars

(***************************************************************************)
(* While nothing dies and nothing is refused, a tree whose hash write-tree *)
(* printed is, from some moment on and for good, readable down to its last *)
(* blob, although runs that store the same objects may still truncate them *)
(* when the hash is printed.  (printed only grows.)                        *)
(***************************************************************************)
Reach[o \in Object] == {o} \cup UNION {Reach[x] : x \in Refs(o)}

PrintedTreeBecomesComplete ==
  <>[](\A o \in printed : \A x \in Reach[o] : Whole(x))

(* Every command that starts ends, edits of the working tree or not. *)
CommandsEnd == \A p \in Proc : []<>(at[p] \in {"exit", "idle"})

(***************************************************************************)
(* "Tree hash", "Parent commit hash" (git_cli_application.cpp), "Tree      *)
(* object not found", "Parent commit not found" (git_repository.cpp): the  *)
(* commits in the store name a tree and, if any, a commit.                 *)
(***************************************************************************)
CommitsNameTreesAndCommits ==
  \A o \in exists : o.type = "commit" =>
    o.tree.type = "tree" /\ (o.parent = None \/ o.parent.type = "commit")
=============================================================================

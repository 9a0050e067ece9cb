--------------------------------- MODULE Clone ---------------------------------
(***************************************************************************)
(* GitRemoteClient::Clone (git_remote_client.cpp): make the destination a  *)
(* repository, ask the remote for its refs and then for a pack of the      *)
(* branch selected, unpack it (module Unpack) and restore the tree of its  *)
(* commit, one entry after another.  The remote may move between the two   *)
(* requests.  The destination may exist, so several clones may work in one *)
(* place, at once or after one that died.                                  *)
(*                                                                         *)
(* A path is the sequence of the names below the destination; work says    *)
(* what is at the paths that exist.  The bytes of a file are written in    *)
(* pieces, each at its place, as those of an object are; work says whose   *)
(* piece is at each.  A body reads as tree entries or as a commit in the   *)
(* way module TreeFormat says.                                             *)
(***************************************************************************)
EXTENDS Unpack, RefSelect

CONSTANTS
  Directory,  \* what is at the path of a directory
  Malformed,  \* the body is no tree
  ParseTreeEntries,      \* the entries of a body, or Malformed
  ExtractCommitTreeHash, \* the tree a body names, or None
  Small,      \* bodies that fit the ofstream's buffer
  Listings,   \* the listings the remote may give
  Packs,      \* Packs[h]: its answers when h is wanted and listed
  Denied,     \* its answer when h is not
  Before,     \* what the destination may hold at first
  MaxMoves    \* bound: how often the remote moves

Path == Seq(STRING)
GitTreeEntry == [mode : STRING, name : STRING, hash : Object]
ListedRef == [name : Path, hash : HeadHash]
Root == << >>
Child(dir, e) == Append(dir, e.name)

(* A file: the body that each of the pieces it has is from; a whole one.  *)
FileContent == UNION {[places -> Body] : places \in SUBSET (1 .. NPieces)}
Length(b) == IF b = EmptyBody THEN 0 ELSE IF b \in Small THEN 1 ELSE NPieces
Image(b)  == [i \in 1 .. Length(b) |-> b]

ASSUME CloneAssumption ==
  /\ Directory \notin FileContent
  /\ Small \subseteq Body
  /\ ParseTreeEntries \in
       [Body -> Seq(GitTreeEntry) \cup {Malformed}]
  /\ ExtractCommitTreeHash \in [Body -> Object \cup {None}]
  /\ \A l \in Listings : l \in Seq(ListedRef) /\ Sorted(l)
  /\ Packs \in [HeadHash -> SUBSET Response] /\ Denied \in Response /\ ~Denied.signature
  /\ \A w \in Before : /\ DOMAIN w \subseteq Path
                       /\ w \in [DOMAIN w -> FileContent \cup {Directory}]
  /\ MaxMoves \in Nat

VARIABLES
  stage,    \* where the clone stands
  head,     \* the hash selected
  target,   \* the path at hand
  todo,     \* the calls of RestoreTreeRecursive under way, the innermost last
  blob,     \* the object whose body is being written
  sent,     \* how many pieces of it are written
  ended,    \* how the clone ended
  work,     \* what is at each path that exists
  remote,   \* the listing the remote gives now
  (* History variables *)
  moves,    \* how often the remote moved
  dirs,     \* the directories a clone has restored, with their trees
  files,    \* the files it has written, with their objects
  lost,     \* those of its files that another content, a write given up or the device spoilt
  over,     \* over[p]: the clones whose bytes p took by opening the file it is writing
  unsure    \* clones that read an object which had a writer at work or was damaged

run      == <<stage, head, target, todo, blob, sent, ended>>
chronicle == <<dirs, files, lost, over>>
cloneVars == <<vars, run, work, remote, moves, chronicle, unsure>>
unpackVars == <<unpack, starts, torn>>

Stage == {"idle", "refs", "pack", "unpack", "tree", "walk", "blob", "write", "exit"}
CloneStatus == Status \cup {"network_error", "remote_ref_not_found",
                            "commit_format_invalid", "tree_format_invalid"}

CloneInit ==
  /\ Init
  /\ stage  = [p \in Proc |-> "idle"]
  /\ head   = [p \in Proc |-> None]
  /\ target = [p \in Proc |-> Root]
  /\ todo   = [p \in Proc |-> << >>]
  /\ blob   = [p \in Proc |-> None]
  /\ sent   = [p \in Proc |-> 0]
  /\ ended  = [p \in Proc |-> "none"]
  /\ work \in Before /\ remote \in Listings /\ moves = 0
  /\ dirs  = [p \in Proc |-> {}]
  /\ files = [p \in Proc |-> {}]
  /\ lost  = [p \in Proc |-> {}]
  /\ over  = [p \in Proc |-> {}]
  /\ unsure = {}

Enter(p, s)    == stage' = [stage EXCEPT ![p] = s]
CloneEnd(p, s) == Enter(p, "exit") /\ ended' = [ended EXCEPT ![p] = s]
Aim(p, n)      == target' = [target EXCEPT ![p] = n]
Put(n, v)      == work' = [m \in DOMAIN work \cup {n} |-> IF m = n THEN v ELSE work[m]]

IsDirectory(n) == n \in DOMAIN work /\ work[n] = Directory
IsFile(n)      == n \in DOMAIN work /\ work[n] # Directory

-----------------------------------------------------------------------------
(* The destination and the repository in it are made.                      *)
CloneStart(p) ==
  /\ stage[p] = "idle"
  /\ starts + Cardinality({q \in Proc : stage[q] \in {"refs", "pack"}}) < MaxStarts
  /\ \/ /\ IsFile(Root) \/ CanFail
        /\ CloneEnd(p, "io_error")
        /\ UNCHANGED work
     \/ /\ ~IsFile(Root)
        /\ Put(Root, Directory)
        /\ Enter(p, "refs")
        /\ UNCHANGED ended
  /\ UNCHANGED <<vars, head, target, todo, blob, sent, remote, moves, chronicle, unsure>>

-----------------------------------------------------------------------------
(* FetchRepositoryData.  curl waits for an answer as long as it takes.     *)

FetchRefs(p) ==
  /\ stage[p] = "refs"
  /\ \/ CloneEnd(p, "network_error") /\ UNCHANGED head
     \/ SelectHeadHash(remote) = {} /\ CloneEnd(p, "remote_ref_not_found") /\ UNCHANGED head
     \/ \E h \in SelectHeadHash(remote) :
          /\ head' = [head EXCEPT ![p] = h]
          /\ Enter(p, "pack")
          /\ UNCHANGED ended
  /\ UNCHANGED <<vars, target, todo, blob, sent, work, remote, moves, chronicle, unsure>>

RemoteMoves ==
  /\ moves < MaxMoves
  /\ remote' \in Listings \ {remote}
  /\ moves' = moves + 1
  /\ UNCHANGED <<vars, run, work, chronicle, unsure>>

(* A remote answers with a pack only while it lists what is wanted. *)
Answers(h) ==
  IF \E i \in 1 .. Len(remote) : remote[i].hash = h THEN Packs[h] ELSE {Denied}

FetchPack(p) ==
  /\ stage[p] = "pack"
  /\ \/ /\ CloneEnd(p, "network_error")
        /\ UNCHANGED vars
     \/ /\ \E r \in Answers(head[p]) : UnpackAndStore(p, r, head[p])
        /\ Enter(p, "unpack")
        /\ UNCHANGED ended
  /\ UNCHANGED <<head, target, todo, blob, sent, work, remote, moves, chronicle, unsure>>

-----------------------------------------------------------------------------
(* Mutated form of Unpacked: the body is used whether the call succeeded or not. *)
UnpackedHeedless(p) ==
  LET tree_hash == ExtractCommitTreeHash[head_body[p]] IN
  /\ stage[p] = "unpack" /\ at[p] = "exit" /\ tree_hash # None
  /\ CallRead(p, tree_hash)
  /\ Enter(p, "tree")
  /\ UNCHANGED <<unpackVars, head, target, todo, blob, sent, ended, work, remote, moves,
                 chronicle, unsure>>

(* The pack is unpacked; what is restored is the tree of the head.         *)
Unpacked(p) ==
  LET tree_hash == ExtractCommitTreeHash[head_body[p]] IN
  /\ stage[p] = "unpack" /\ at[p] = "exit"
  /\ \/ out[p] # "ok" /\ CloneEnd(p, out[p]) /\ UNCHANGED storeVars
     \/ /\ out[p] = "ok" /\ tree_hash = None
        /\ CloneEnd(p, "commit_format_invalid")
        /\ UNCHANGED storeVars
     \/ /\ out[p] = "ok" /\ tree_hash # None
        /\ CallRead(p, tree_hash)
        /\ Enter(p, "tree")
        /\ UNCHANGED ended
  /\ UNCHANGED <<unpackVars, head, target, todo, blob, sent, work, remote, moves, chronicle,
                 unsure>>

-----------------------------------------------------------------------------
(* RestoreTreeRecursive.                                                   *)

Doubtful(p) ==
  unsure' = IF p \in raced \/ obj[p] \in damaged THEN unsure \cup {p} ELSE unsure

Frames        == [dir : Path, tree : Object, next : Nat]
Frame(n, t)   == [dir |-> n, tree |-> t, next |-> 1]
Top(p)        == Last(todo[p])
Entries(t)    == ParseTreeEntries[t.body]

TreeRead(p) ==
  LET entries == Entries(obj[p]) IN
  /\ stage[p] = "tree"
  /\ Return(p)
  /\ \/ res[p] # "ok" /\ CloneEnd(p, res[p]) /\ UNCHANGED todo
     \/ /\ res[p] = "ok" /\ entries = Malformed
        /\ CloneEnd(p, "tree_format_invalid")
        /\ UNCHANGED todo
     \/ /\ res[p] = "ok" /\ entries # Malformed
        /\ todo' = [todo EXCEPT ![p] = Append(@, Frame(target[p], obj[p]))]
        /\ Enter(p, "walk")
        /\ UNCHANGED ended
  /\ Doubtful(p)
  /\ UNCHANGED <<unpackVars, head, target, blob, sent, work, remote, moves, chronicle>>

AtEntry(p)   == stage[p] = "walk" /\ Top(p).next <= Len(Entries(Top(p).tree))
NextEntry(p) == Entries(Top(p).tree)[Top(p).next]

PathAt(p) == Child(Top(p).dir, NextEntry(p))

Advance(p) ==
  /\ todo' = [todo EXCEPT ![p][Len(todo[p])].next = @ + 1]
  /\ Aim(p, PathAt(p))

IsTree(e) == e.mode = "40000"

(* Mutated form of Taken: create_directory, and not create_directories. *)
TakenByAny(n) == n \in DOMAIN work

(* No directory can be made where a file is; one that is there will do. *)
Taken(n) == IsFile(n)

RestoreDirectory(p) ==
  /\ AtEntry(p) /\ IsTree(NextEntry(p))
  /\ Advance(p)
  /\ \/ /\ Taken(PathAt(p)) \/ CanFail
        /\ CloneEnd(p, "io_error")
        /\ UNCHANGED <<storeVars, work>>
     \/ /\ ~Taken(PathAt(p))
        /\ Put(PathAt(p), Directory)
        /\ CallRead(p, NextEntry(p).hash)
        /\ Enter(p, "tree")
        /\ UNCHANGED ended
  /\ UNCHANGED <<unpackVars, head, blob, sent, remote, moves, chronicle, unsure>>

(* Any other entry is taken for a file, a commit of another repository too. *)
RestoreFile(p) ==
  /\ AtEntry(p) /\ ~IsTree(NextEntry(p))
  /\ Advance(p)
  /\ CallRead(p, NextEntry(p).hash)
  /\ Enter(p, "blob")
  /\ UNCHANGED <<unpackVars, head, blob, sent, ended, work, remote, moves, chronicle, unsure>>

Writes(q, n)   == stage[q] = "write" /\ target[q] = n
Others(p, n)   == {q \in Proc \ {p} : Writes(q, n)}
Restored(q, n) == \E f \in files[q] : f[1] = n

(***************************************************************************)
(* Two contents meet in the file n when p opens it to write the body of o: *)
(* whose bytes are lost is whoever writes, or has written, another one.    *)
(***************************************************************************)
LostByOpening(p, n, o) ==
  {q \in Proc :
     \/ q = p /\ \/ Restored(p, n)
                 \/ \E r \in Others(p, n) : blob[r].body # o.body
     \/ q # p /\ \/ Writes(q, n) /\ blob[q].body # o.body
                 \/ \E f \in files[q] : f[1] = n /\ f[2].body # o.body}

(* Half way p stops: the bytes it took from others by opening n stay away. *)
LostByStopping(p, n) ==
  {q \in over[p] : /\ sent[p] < Length(blob[p].body)
                   /\ Restored(q, n) \/ Writes(q, n)}

Lose(Q, n) == lost' = [q \in Proc |-> IF q \in Q THEN lost[q] \cup {n} ELSE lost[q]]

(* The file is created or truncated: whatever is in it is gone. *)
OpenFile(p, n, o) ==
  /\ Put(n, << >>)
  /\ blob' = [blob EXCEPT ![p] = o]
  /\ sent' = [sent EXCEPT ![p] = 0]
  /\ Lose(LostByOpening(p, n, o), n)
  /\ over' = [q \in Proc |->
       IF q = p THEN {r \in Proc \ {p} : Restored(r, n) \/ Writes(r, n)}
       ELSE IF Writes(q, n) THEN over[q] \ {p} ELSE over[q]]
  /\ Enter(p, "write")
  /\ UNCHANGED ended

BlobRead(p) ==
  /\ stage[p] = "blob"
  /\ Return(p)
  /\ \/ /\ res[p] # "ok"
        /\ CloneEnd(p, res[p])
        /\ UNCHANGED <<blob, sent, work, lost, over>>
     \/ /\ res[p] = "ok" /\ (IsDirectory(target[p]) \/ CanFail)
        /\ CloneEnd(p, "io_error")
        /\ UNCHANGED <<blob, sent, work, lost, over>>
     \/ /\ res[p] = "ok" /\ ~IsDirectory(target[p])
        /\ OpenFile(p, target[p], obj[p])
  /\ Doubtful(p)
  /\ UNCHANGED <<unpackVars, head, target, todo, remote, moves, dirs, files>>

(* A piece goes to its place, whatever others have left or put there. *)
PieceWritten(p) ==
  LET n == target[p]
      i == sent[p] + 1
  IN
  /\ stage[p] = "write" /\ sent[p] < Length(blob[p].body)
  /\ Put(n, [j \in DOMAIN work[n] \cup {i} |-> IF j = i THEN blob[p].body ELSE work[n][j]])
  /\ sent' = [sent EXCEPT ![p] = i]
  /\ UNCHANGED <<vars, stage, head, target, todo, blob, ended, remote, moves, chronicle, unsure>>

Written(p) == files' = [files EXCEPT ![p] = @ \cup {<<target[p], blob[p]>>}]
LetGo(p)   == sent' = [sent EXCEPT ![p] = 0] /\ over' = [over EXCEPT ![p] = {}]

(* Mutated form of FileWritten: a short write is taken for a complete one. *)
FileWrittenShort(p) ==
  /\ stage[p] = "write"
  /\ Written(p) /\ LetGo(p)
  /\ Enter(p, "walk")
  /\ UNCHANGED <<vars, head, target, todo, blob, ended, work, remote, moves, dirs, lost, unsure>>

FileWritten(p) ==
  /\ stage[p] = "write" /\ sent[p] = Length(blob[p].body)
  /\ Written(p) /\ LetGo(p)
  /\ Enter(p, "walk")
  /\ UNCHANGED <<vars, head, target, todo, blob, ended, work, remote, moves, dirs, lost, unsure>>

(* The device refuses the bytes; when they were buffered, nobody notices. *)
FileRefused(p) ==
  LET n == target[p] IN
  /\ CanFail /\ stage[p] = "write" /\ sent[p] < Length(blob[p].body)
  /\ \/ /\ blob[p].body \in Small
        /\ Lose(LostByStopping(p, n) \cup {p}, n)
        /\ Written(p)
        /\ Enter(p, "walk")
        /\ UNCHANGED ended
     \/ /\ blob[p].body \notin Small
        /\ Lose(LostByStopping(p, n), n)
        /\ CloneEnd(p, "io_error")
        /\ UNCHANGED files
  /\ LetGo(p)
  /\ UNCHANGED <<vars, head, target, todo, blob, work, remote, moves, dirs, unsure>>

TreeEnds(p) ==
  /\ stage[p] = "walk" /\ Top(p).next > Len(Entries(Top(p).tree))
  /\ dirs' = [dirs EXCEPT ![p] = @ \cup {<<Top(p).dir, Top(p).tree>>}]
  /\ todo' = [todo EXCEPT ![p] = Front(@)]
  /\ IF Len(todo[p]) = 1 THEN CloneEnd(p, "ok") ELSE UNCHANGED <<stage, ended>>
  /\ UNCHANGED <<vars, head, target, blob, sent, work, remote, moves, files, lost, over, unsure>>

-----------------------------------------------------------------------------
(* The process ends, of itself or not. *)
Forget(p) ==
  /\ Enter(p, "idle")
  /\ head' = [head EXCEPT ![p] = None]
  /\ Aim(p, Root)
  /\ todo' = [todo EXCEPT ![p] = << >>]
  /\ blob' = [blob EXCEPT ![p] = None]
  /\ LetGo(p)
  /\ ended' = [ended EXCEPT ![p] = "none"]
  /\ dirs'  = [dirs EXCEPT ![p] = {}]
  /\ files' = [files EXCEPT ![p] = {}]
  /\ unsure' = unsure \ {p}
  /\ UNCHANGED <<work, remote, moves>>

CloneLeaves(p) ==
  /\ stage[p] = "exit"
  /\ IF at[p] = "exit" THEN Leave(p) ELSE UNCHANGED vars
  /\ lost' = [lost EXCEPT ![p] = {}]
  /\ Forget(p)

KillClone(p) ==
  /\ CanKill /\ stage[p] \notin {"idle", "exit"}
  /\ IF at[p] = "idle" THEN UNCHANGED vars ELSE KillUnpack(p)
  /\ lost' = [q \in Proc |->
       IF q = p THEN {}
       ELSE IF stage[p] = "write" /\ q \in LostByStopping(p, target[p])
       THEN lost[q] \cup {target[p]} ELSE lost[q]]
  /\ Forget(p)

-----------------------------------------------------------------------------
(* The steps a clone takes by itself: all but the two requests. *)
CloneStep(p) ==
  \/ StepOf(p) /\ UNCHANGED <<run, work, remote, moves, chronicle, unsure>>
  \/ Unpacked(p) \/ TreeRead(p) \/ RestoreDirectory(p) \/ RestoreFile(p)
  \/ BlobRead(p) \/ PieceWritten(p) \/ FileWritten(p) \/ TreeEnds(p)

CloneNext ==
  \/ \E p \in Proc :
       \/ CloneStart(p) \/ FetchRefs(p) \/ FetchPack(p)
       \/ CloneStep(p) \/ FileRefused(p)
       \/ /\ StoreFault(p)
          /\ UNCHANGED <<unpackVars, run, work, remote, moves, chronicle, unsure>>
       \/ CloneLeaves(p) \/ KillClone(p)
  \/ RemoteMoves

CloneSpec == CloneInit /\ [][CloneNext]_cloneVars

(* A clone that waits for nobody is scheduled. *)
CloneFairSpec == CloneSpec /\ \A p \in Proc : WF_cloneVars(CloneStep(p))

-----------------------------------------------------------------------------
(* What a clone is at and what Unpack and the store are at agree. *)
PlaceOK(p) ==
  /\ stage[p] \in {"idle", "refs", "pack"} => at[p] = "idle"
  /\ stage[p] = "pack" => head[p] \in HeadHash
  /\ stage[p] = "unpack" => at[p] # "idle"
  /\ stage[p] \in {"tree", "walk", "blob", "write"} => at[p] = "exit" /\ out[p] = "ok"
  /\ stage[p] = "exit" => at[p] \in {"idle", "exit"}
  /\ pc[p] = "idle" <=> \/ at[p] \in {"idle", "object", "parsed"}
                        \/ at[p] = "exit" /\ stage[p] \notin {"tree", "blob"}
  /\ stage[p] \in {"tree", "blob"} => obj[p] \in Object
  /\ stage[p] = "write" => blob[p] \in Object /\ sent[p] <= Length(blob[p].body)
  /\ stage[p] \in {"blob", "walk", "write"} => todo[p] # << >>
  /\ \A i \in 1 .. Len(todo[p]) :
       /\ Entries(todo[p][i].tree) # Malformed
       /\ todo[p][i].next \in 1 .. Len(Entries(todo[p][i].tree)) + 1

CloneTypeOK ==
  /\ stage \in [Proc -> Stage]
  /\ head \in [Proc -> HeadHash \cup {None}]
  /\ target \in [Proc -> Path]
  /\ todo \in [Proc -> Seq(Frames)]
  /\ blob \in [Proc -> Object \cup {None}]
  /\ sent \in [Proc -> 0 .. NPieces]
  /\ ended \in [Proc -> CloneStatus]
  /\ DOMAIN work \subseteq Path /\ work \in [DOMAIN work -> FileContent \cup {Directory}]
  /\ remote \in Listings
  /\ moves \in 0 .. MaxMoves
  /\ dirs \in [Proc -> SUBSET (Path \X Object)]
  /\ files \in [Proc -> SUBSET (Path \X Object)]
  /\ lost \in [Proc -> SUBSET Path]
  /\ over \in [Proc -> SUBSET Proc]
  /\ unsure \subseteq Proc
  /\ \A p \in Proc : PlaceOK(p)

(***************************************************************************)
(* A clone that reports success has restored the tree of the commit the    *)
(* remote listed: the destination is a directory restored from it, each    *)
(* such directory holds what its tree names, and each file every piece of  *)
(* the body of its blob, unless all that it lacks is yet to come from one  *)
(* clone that is writing the same, or the file is known to be lost: to     *)
(* another content, to a clone that emptied it and gave up half way, or to *)
(* a full device.  It takes the head from FindRefHash, the body from       *)
(* UnpackAndStore, and the order and the paths of RestoreTreeRecursive     *)
(* together, with what clones that write one file do to each other.        *)
(***************************************************************************)
(* The pieces of b that the file n lacks, and those that q has yet to write. *)
Missing(n, b) == {i \in 1 .. Length(b) : i \notin DOMAIN work[n] \/ work[n][i] # b}
Owed(q)       == sent[q] + 1 .. Length(blob[q].body)

HoldsEntry(p, n, e) ==
  IF IsTree(e) THEN <<Child(n, e), e.hash>> \in dirs[p]
  ELSE <<Child(n, e), e.hash>> \in files[p]

CheckoutIsTree ==
  \A p \in Proc :
    stage[p] = "exit" /\ ended[p] = "ok" =>
      /\ <<Root, ExtractCommitTreeHash[head[p].body]>> \in dirs[p]
      /\ \A d \in dirs[p] :
           /\ IsDirectory(d[1])
           /\ \A i \in 1 .. Len(Entries(d[2])) : HoldsEntry(p, d[1], Entries(d[2])[i])
      /\ \A f \in files[p] :
           \/ f[1] \in lost[p]
           \/ IsFile(f[1]) /\ work[f[1]] = Image(f[2].body)
           \/ \E q \in Proc : /\ Writes(q, f[1]) /\ blob[q].body = f[2].body
                             /\ Missing(f[1], f[2].body) \subseteq Owed(q)

(***************************************************************************)
(* A clone that was sent a complete pack fails for a cause outside of it:  *)
(* a file where a directory is to go or the other way round, a refusal, or *)
(* an object that was being written or had been damaged when it was read.  *)
(* What an earlier attempt left whole in the destination is no obstacle.   *)
(***************************************************************************)
Complete(r, h) ==
  LET D == Delivered(r, Len(r.records))
      t == ExtractCommitTreeHash[h.body]
  IN
  /\ Sound(r, h)
  /\ t \in D /\ t.type = "tree"
  /\ \A o \in D : o.type = "tree" =>
       /\ Entries(o) # Malformed
       /\ \A i \in 1 .. Len(Entries(o)) :
            /\ Entries(o)[i].hash \in D
            /\ IsTree(Entries(o)[i]) => Entries(o)[i].hash.type = "tree"

(* What is at the path of the last entry is of the other kind. *)
Obstructed(p) ==
  LET e == Entries(Top(p).tree)[Top(p).next - 1] IN
  IF IsTree(e) THEN IsFile(target[p]) ELSE IsDirectory(target[p])

CloneFailsForCause ==
  \A p \in Proc :
    stage[p] = "exit" /\ at[p] = "exit" /\ Complete(response[p], head_hash[p]) =>
      \/ ended[p] = "ok"
      \/ ended[p] = "io_error" /\ (CanFail \/ Obstructed(p))
      \/ ended[p] \in Torn /\ p \in torn \cup unsure

(* The branch a clone would take now. *)
HeadIsPreferred == PreferredHead(remote)

(* A clone that has got its answers ends: no tree, delta or pack keeps it for ever. *)
CloneEnds == \A p \in Proc : []<>(stage[p] \in {"idle", "refs", "pack", "exit"})
=============================================================================

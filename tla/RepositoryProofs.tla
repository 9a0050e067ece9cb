--------------------------- MODULE RepositoryProofs ---------------------------
(***************************************************************************)
(* Proofs about Repository, for every set of runs, every working tree and  *)
(* every bound: its runs use the store as ObjectStore allows, so what      *)
(* ObjectStoreProofs shows holds of them too, nothing in the store         *)
(* dangles, and write-tree prints the tree of what the working tree held.  *)
(***************************************************************************)
EXTENDS Repository, ObjectStoreProofs, Induction, FiniteSetTheorems, SequenceTheorems

-----------------------------------------------------------------------------
(* Texts, and what a read makes of them.                                   *)
LEMMA TextType ==
  ASSUME NEW s \in Text
  PROVE  /\ s \in Seq(Piece) /\ Len(s) \in 0 .. NReads
         /\ DOMAIN s = 1 .. Len(s) /\ s \in [1 .. Len(s) -> Piece]
<1>1. PICK k \in 0 .. NReads : s \in [1 .. k -> Piece]
  BY DEF Text
<1>2. k \in Nat
  BY <1>1, RepositoryAssumption
<1>3. s \in Seq(Piece)
  BY <1>1, <1>2, SeqDef
<1>4. Len(s) \in Nat /\ DOMAIN s = 1 .. Len(s) /\ s \in [1 .. Len(s) -> Piece]
  BY <1>3, LenProperties
<1>5. Len(s) = k
  BY <1>1, <1>2, <1>3, <1>4
<1>6. QED
  BY <1>1, <1>3, <1>4, <1>5

LEMMA EmptyText == << >> \in Text
<1>1. 0 \in 0 .. NReads /\ << >> \in [1 .. 0 -> Piece]
  BY RepositoryAssumption
<1>2. QED
  BY <1>1 DEF Text

(* A call reads the piece of the open file that comes after what was read. *)
LEMMA PieceIsRead ==
  ASSUME NEW b \in Text, NEW c \in Text, Len(b) + 1 <= Len(c)
  PROVE  /\ Append(b, c[Len(b) + 1]) \in Text
         /\ \A i \in DOMAIN Append(b, c[Len(b) + 1]) :
              \/ i \in DOMAIN b /\ Append(b, c[Len(b) + 1])[i] = b[i]
              \/ i \in DOMAIN c /\ Append(b, c[Len(b) + 1])[i] = c[i]
<1> DEFINE k == Len(b) + 1
           r == Append(b, c[k])
<1>1. /\ b \in Seq(Piece) /\ Len(b) \in 0 .. NReads /\ DOMAIN b = 1 .. Len(b)
      /\ Len(c) \in 0 .. NReads /\ DOMAIN c = 1 .. Len(c) /\ c \in [1 .. Len(c) -> Piece]
  BY TextType
<1>2. k \in 1 .. Len(c) /\ k \in 0 .. NReads /\ NReads \in Nat
  BY <1>1, RepositoryAssumption
<1>3. c[k] \in Piece
  BY <1>1, <1>2
<1>4. /\ r \in Seq(Piece) /\ Len(r) = Len(b) + 1
      /\ \A i \in 1 .. Len(b) : r[i] = b[i]
      /\ r[Len(b) + 1] = c[k]
  BY <1>1, <1>3, AppendProperties
<1>5. r \in [1 .. k -> Piece] /\ DOMAIN r = 1 .. k
  BY <1>4, LenProperties
<1>6. r \in Text
  BY <1>2, <1>5 DEF Text
<1>7. ASSUME NEW i \in DOMAIN r
      PROVE  (i \in DOMAIN b /\ r[i] = b[i]) \/ (i \in DOMAIN c /\ r[i] = c[i])
  <2>1. i \in 1 .. Len(b) \/ i = k
    BY <1>1, <1>5
  <2>2. QED
    BY <2>1, <1>1, <1>2, <1>4
<1>8. QED
  BY <1>6, <1>7

(* What was read up to the end of a content that it agrees with is that content. *)
LEMMA WholeIsRead ==
  ASSUME NEW b \in Text, NEW c \in Text, Len(c) <= Len(b),
         \A i \in DOMAIN b : i \in DOMAIN c /\ b[i] = c[i]
  PROVE  b = c
<1>1. /\ Len(b) \in Nat /\ DOMAIN b = 1 .. Len(b) /\ b \in [1 .. Len(b) -> Piece]
      /\ Len(c) \in Nat /\ DOMAIN c = 1 .. Len(c) /\ c \in [1 .. Len(c) -> Piece]
  BY TextType, RepositoryAssumption
<1>2. Len(b) <= Len(c)
  <2>1. CASE Len(b) = 0
    BY <1>1, <2>1
  <2>2. CASE Len(b) # 0
    <3>1. Len(b) \in DOMAIN b
      BY <1>1, <2>2
    <3>2. QED
      BY <1>1, <3>1
  <2>3. QED
    BY <2>1, <2>2
<1>3. Len(b) = Len(c)
  <2>1. Len(b) \in Nat /\ Len(c) \in Nat
    BY <1>1
  <2>2. QED
    BY ONLY <2>1, <1>2, Len(c) <= Len(b)
<1>4. \A i \in 1 .. Len(b) : b[i] = c[i]
  BY <1>1
<1>5. QED
  BY <1>1, <1>3, <1>4

(* What the commands store as a blob is an object. *)
LEMMA BufferIsBlob ==
  ASSUME TypeOK, NEW p \in Proc, at[p] \in Reading, Len(Opened(p)) <= Len(buffer[p])
  PROVE  Blob(buffer[p]) \in Object
<1>1. Opened(p) \in Content /\ buffer[p] \in Text
  BY DEF TypeOK, OpenFilesOK, CommandTypeOK
<1>2. \A i \in DOMAIN buffer[p] : \E c \in Content : i \in DOMAIN c /\ buffer[p][i] = c[i]
  BY DEF TypeOK, OpenFilesOK
<1>3. buffer[p] \in Reads(Content)
  BY <1>1, <1>2 DEF Reads
<1>4. QED
  BY <1>3, RepositoryAssumption

-----------------------------------------------------------------------------
(* Every step of a command is a step of the store or leaves it alone.      *)
LEMMA UsesStore == TypeOK /\ [Next]_vars => [StoreNext]_storeVars
<1> SUFFICES ASSUME TypeOK, [Next]_vars PROVE [StoreNext]_storeVars
  OBVIOUS
<1> USE StoreAssumption, RepositoryAssumption DEF TypeOK
<1>1. ASSUME NEW p \in Proc, NEW o \in Object, CallStore(p, o) PROVE StoreNext
  BY <1>1 DEF StoreNext
<1>2. ASSUME NEW p \in Proc, NEW h \in Object \cup {BadHash}, CallRead(p, h) PROVE StoreNext
  BY <1>2 DEF StoreNext
<1>3. ASSUME NEW p \in Proc, Return(p) \/ StoreStep(p) \/ StoreFault(p) \/ Kill(p)
      PROVE  StoreNext
  BY <1>3 DEF StoreNext
<1>4. ASSUME NEW p \in Proc, FileEnd(p) PROVE StoreNext
  <2>1. Blob(buffer[p]) \in Object /\ CallStore(p, Blob(buffer[p]))
    BY <1>4, BufferIsBlob DEF FileEnd
  <2>2. QED
    BY <1>1, <2>1
<1>5. ASSUME NEW p \in Proc, Start(p) PROVE [StoreNext]_storeVars
  <2>1. ASSUME NEW f \in File, HashObject(p, f) PROVE [StoreNext]_storeVars
    BY ONLY <2>1 DEF HashObject
  <2>2. ASSUME WriteTree(p) PROVE [StoreNext]_storeVars
    BY <2>2 DEF WriteTree
  <2>3. ASSUME NEW t, NEW c, CommitTree(p, t, c) PROVE [StoreNext]_storeVars
    BY <2>3 DEF CommitTree
  <2>4. ASSUME NEW h \in ReadArgs, NEW s, ReadCommand(p, h, s) PROVE [StoreNext]_storeVars
    BY <1>2, <2>4 DEF ReadCommand
  <2>5. QED
    BY <1>5, <2>1, <2>2, <2>3, <2>4 DEF Start
<1>6. ASSUME NEW p \in Proc, StepOf(p) PROVE [StoreNext]_storeVars
  <2>1. ASSUME NEW n \in Path, WalkDir(p, n) PROVE [StoreNext]_storeVars
    BY <2>1 DEF WalkDir
  <2>2. ASSUME NEW n \in Path, WalkFile(p, n) PROVE [StoreNext]_storeVars
    BY ONLY <2>2 DEF WalkFile
  <2>3. ASSUME WalkEnd(p) PROVE [StoreNext]_storeVars
    BY <1>1, <2>3 DEF WalkEnd
  <2>4. ASSUME CheckTree(p) PROVE [StoreNext]_storeVars
    <3>1. ASSUME Refused(args[p].tree, "tree_not_found") = "none", args[p].parent = None
          PROVE  Commit(args[p].tree, args[p].parent) \in Object
      BY <2>4, <3>1 DEF CheckTree, Refused, CallsMatchCommands
    <3>2. QED
      BY <1>1, <2>4, <3>1 DEF CheckTree, StoreCommit
  <2>5. ASSUME CheckParent(p) PROVE [StoreNext]_storeVars
    <3>1. ASSUME Refused(args[p].parent, "commit_not_found") = "none"
          PROVE  Commit(args[p].tree, args[p].parent) \in Object
      BY <2>5, <3>1 DEF CheckParent, Refused, CallsMatchCommands, StoreTypeOK
    <3>2. QED
      BY <1>1, <2>5, <3>1 DEF CheckParent, StoreCommit
  <2>6. ASSUME PrintAnswer(p) \/ BlobStored(p) \/ TreeStored(p) \/ ListTreeNames(p)
               \/ StoreStep(p)
        PROVE  [StoreNext]_storeVars
    BY <1>3, <2>6 DEF PrintAnswer, BlobStored, TreeStored, ListTreeNames
  <2>7. ASSUME FilePiece(p) PROVE [StoreNext]_storeVars
    BY <2>7 DEF FilePiece
  <2>8. QED
    BY <1>4, <1>6, <2>1, <2>2, <2>3, <2>4, <2>5, <2>6, <2>7 DEF StepOf
<1>7. ASSUME NEW p \in Proc, Leave(p) \/ KillCommand(p) \/ FileError(p)
      PROVE  [StoreNext]_storeVars
  BY <1>3, <1>7 DEF Leave, KillCommand, FileError
<1>8. ASSUME UserEdits PROVE [StoreNext]_storeVars
  BY <1>8 DEF UserEdits, Edit
<1>9. CASE UNCHANGED vars
  BY <1>9 DEF vars
<1>10. QED
  BY <1>3, <1>5, <1>6, <1>7, <1>8, <1>9 DEF Next

-----------------------------------------------------------------------------
(***************************************************************************)
(* The type invariant.  It relates the two program counters of a run, the  *)
(* command's and its store call's, and says that what commit-tree stores   *)
(* after its checks is an object.                                          *)
(***************************************************************************)
LEMMA RepTypeInit == Init => TypeOK
<1> USE RepositoryAssumption
<1> SUFFICES ASSUME Init PROVE TypeOK
  OBVIOUS
<1>1. StoreTypeOK
  BY TypeInit DEF Init
<1>2. CommandTypeOK
  <2>2. buffer \in [Proc -> Text]
    BY EmptyText DEF Init
  <2>3. QED
    BY <2>2 DEF Init, CommandTypeOK, At, Status, Outcome, Path
<1>3. CallsMatchCommands
  <2>1. \A p \in Proc : pc[p] = "idle" /\ at[p] = "idle"
    BY ONLY Init DEF Init, StoreInit
  <2>2. QED
    BY ONLY <2>1 DEF CallsMatchCommands, Reading
<1>4. WatchTypeOK
  <2>1. /\ work \in [Path -> Content \cup {Folder, Absent}]
        /\ \A f \in File : work[f] \in Content \cup {Absent}
    BY DEF Init
  <2>2. /\ edits = 0 /\ starts = 0 /\ edited = {} /\ printed = {}
        /\ held = [p \in Proc |-> {}] /\ disturbed = [p \in Proc |-> {}]
        /\ kept = [p \in Proc |-> Absent]
    BY DEF Init
  <2>3. edits \in 0 .. MaxEdits /\ starts \in 0 .. MaxStarts
    BY <2>2
  <2>4. /\ held \in [Proc -> SUBSET (File \X Content)] /\ disturbed \in [Proc -> SUBSET File]
        /\ kept \in [Proc -> Content \cup {Absent}]
    BY <2>2
  <2>5. QED
    BY <2>1, <2>2, <2>3, <2>4 DEF WatchTypeOK
<1>5. OpenFilesOK
  <2>1. \A p \in Proc : at[p] = "idle" /\ kept[p] = Absent /\ buffer[p] = << >>
    BY ONLY Init DEF Init
  <2>2. \A p \in Proc : at[p] \notin Reading
    BY ONLY <2>1 DEF Reading
  <2>3. DOMAIN << >> = {}
    OBVIOUS
  <2>4. QED
    BY ONLY <2>1, <2>2, <2>3 DEF OpenFilesOK
<1>6. QED
  BY <1>1, <1>2, <1>3, <1>4, <1>5 DEF TypeOK

(* GoTo and Exit keep the types, and leave the other runs where they are. *)
LEMMA GoToType ==
  ASSUME CommandTypeOK, NEW p \in Proc, NEW s \in At, GoTo(p, s)
  PROVE  /\ at' \in [Proc -> At] /\ at'[p] = s
         /\ \A q \in Proc \ {p} : at'[q] = at[q]
BY DEF CommandTypeOK, GoTo

LEMMA ExitType ==
  ASSUME CommandTypeOK, NEW p \in Proc, NEW s \in Status, NEW o \in Object \cup {None},
         Exit(p, Outcome(s, o))
  PROVE  /\ at' \in [Proc -> At] /\ at'[p] = "exit"
         /\ \A q \in Proc \ {p} : at'[q] = at[q]
         /\ out' \in [Proc -> [status : Status, hash : Object \cup {None}]]
<1>1. GoTo(p, "exit") /\ "exit" \in At
  BY DEF Exit, At
<1>2. Outcome(s, o) \in [status : Status, hash : Object \cup {None}]
  BY DEF Outcome
<1>3. QED
  BY <1>1, <1>2, GoToType DEF Exit, CommandTypeOK

(* Files are opened, read and closed by one run each, and edited under all of them. *)
LEMMA OpenFilesKept == TypeOK /\ [Next]_vars => OpenFilesOK'
<1> SUFFICES ASSUME TypeOK, [Next]_vars PROVE OpenFilesOK'
  OBVIOUS
<1>a. CommandTypeOK /\ WatchTypeOK /\ OpenFilesOK
  BY DEF TypeOK
<1> DEFINE OneOK(p) ==
             /\ IF at[p] \in Reading THEN name[p] \in File /\ Opened(p) \in Content
                                     ELSE kept[p] = Absent
             /\ \A i \in DOMAIN buffer[p] :
                  \E c \in Content : i \in DOMAIN c /\ buffer[p][i] = c[i]
           Same(p) == /\ at'[p] = at[p] /\ name'[p] = name[p]
                      /\ buffer'[p] = buffer[p] /\ kept'[p] = kept[p]
<1>0. \A p \in Proc : OneOK(p)
  BY <1>a DEF OpenFilesOK
<1>b. ASSUME NEW p \in Proc, work' = work, \A q \in Proc \ {p} : Same(q), OneOK(p)'
      PROVE  OpenFilesOK'
  <2>1. ASSUME NEW q \in Proc \ {p} PROVE OneOK(q)'
    BY <1>0, <1>b DEF Opened
  <2>2. QED
    BY <1>b, <2>1 DEF OpenFilesOK
<1>c. ASSUME NEW p \in Proc, at[p] \notin Reading, NEW s, s \notin Reading, GoTo(p, s),
             UNCHANGED <<files, name, buffer>>
      PROVE  OpenFilesOK'
  <2>1. at'[p] = s /\ \A q \in Proc \ {p} : at'[q] = at[q]
    BY <1>a, <1>c DEF GoTo, CommandTypeOK
  <2>2. QED
    BY <1>0, <1>b, <1>c, <2>1 DEF files
<1>d. ASSUME UNCHANGED <<files, at, name, buffer>> PROVE OpenFilesOK'
  BY <1>a, <1>d DEF OpenFilesOK, Opened, files
<1>e. ASSUME NEW p \in Proc, at[p] \notin Reading, NEW n \in File, NEW s \in Reading,
             OpenFile(p, n, s), work' = work
      PROVE  OpenFilesOK'
  <2>1. \A q \in Proc \ {p} : Same(q)
    BY <1>a, <1>e DEF OpenFile, GoTo, CommandTypeOK
  <2>2. /\ at'[p] \in Reading /\ name'[p] = n /\ buffer'[p] = << >> /\ kept'[p] = kept[p]
        /\ work[n] \in Content
    BY <1>a, <1>e DEF OpenFile, GoTo, CommandTypeOK, WatchTypeOK
  <2>3. Opened(p)' = work[n]
    BY <1>0, <1>e, <2>2 DEF Opened
  <2>4. OneOK(p)'
    BY <2>2, <2>3
  <2>5. QED
    BY <1>b, <1>e, <2>1, <2>4
<1>f. ASSUME NEW p \in Proc, NEW s, s \notin Reading, GoTo(p, s), work' = work,
             kept' = [kept EXCEPT ![p] = Absent], \A q \in Proc \ {p} : name'[q] = name[q],
             \/ buffer' = buffer
             \/ buffer' = [buffer EXCEPT ![p] = << >>]
      PROVE  OpenFilesOK'
  <2>1. \A q \in Proc \ {p} : Same(q)
    BY <1>a, <1>f DEF GoTo, CommandTypeOK, WatchTypeOK
  <2>2. /\ at'[p] = s /\ kept'[p] = Absent
        /\ buffer'[p] = buffer[p] \/ buffer'[p] = << >>
    BY <1>a, <1>f DEF GoTo, CommandTypeOK, WatchTypeOK
  <2>3. OneOK(p)'
    BY <1>0, <1>f, <2>2
  <2>4. QED
    BY <1>b, <1>f, <2>1, <2>3
<1> HIDE DEF OneOK
<1>1. ASSUME NEW p \in Proc, Start(p) PROVE OpenFilesOK'
  <2>0. at[p] \notin Reading
    BY <1>1 DEF Start, HashObject, WriteTree, CommitTree, ReadCommand, Reading
  <2>1. ASSUME NEW f \in File, HashObject(p, f) PROVE OpenFilesOK'
    BY <2>0, <2>1, <1>c, <1>e DEF HashObject, Fail, Exit, Reading, files
  <2>2. ASSUME WriteTree(p) PROVE OpenFilesOK'
    BY <2>0, <2>2, <1>c DEF WriteTree, Enter, Reading
  <2>3. ASSUME NEW t, NEW c, CommitTree(p, t, c) PROVE OpenFilesOK'
    BY <2>0, <2>3, <1>c DEF CommitTree, Reading, walk
  <2>4. ASSUME NEW h, NEW s \in {"cat", "ls"}, ReadCommand(p, h, s) PROVE OpenFilesOK'
    BY <2>0, <2>4, <1>c DEF ReadCommand, Reading, walk
  <2>5. QED
    BY <1>1, <2>1, <2>2, <2>3, <2>4 DEF Start
<1>2. ASSUME NEW p \in Proc, StepOf(p) PROVE OpenFilesOK'
  <2>1. ASSUME FilePiece(p) PROVE OpenFilesOK'
    <3>1. \A q \in Proc \ {p} : Same(q)
      BY <1>a, <2>1 DEF FilePiece, CommandTypeOK, files
    <3>2. PICK c \in Content : c = Opened(p) /\ Opened(p)' = c /\ name[p] \in File
      BY <1>0, <2>1 DEF FilePiece, Opened, files, OneOK
    <3>3. /\ buffer[p] \in Text /\ c \in Text /\ Len(buffer[p]) + 1 <= Len(c)
          /\ buffer'[p] = Append(buffer[p], c[Len(buffer[p]) + 1])
      BY <1>a, <2>1, <3>2, RepositoryAssumption DEF FilePiece, CommandTypeOK
    <3>4. \A i \in DOMAIN buffer'[p] : (i \in DOMAIN buffer[p] /\ buffer'[p][i] = buffer[p][i])
                                      \/ (i \in DOMAIN c /\ buffer'[p][i] = c[i])
      BY <3>3, PieceIsRead
    <3>5. \A i \in DOMAIN buffer'[p] : \E x \in Content : i \in DOMAIN x /\ buffer'[p][i] = x[i]
      BY <1>0, <3>4 DEF OneOK
    <3>6. OneOK(p)'
      BY <2>1, <3>2, <3>5 DEF FilePiece, OneOK
    <3>7. QED
      BY <1>b, <2>1, <3>1, <3>6 DEF FilePiece, files
  <2>2. ASSUME FileEnd(p) PROVE OpenFilesOK'
    BY <2>2, <1>f DEF FileEnd, walk, Reading
  <2>3. ASSUME PrintAnswer(p) \/ ListTreeNames(p) \/ WalkEnd(p) PROVE OpenFilesOK'
    BY <2>3, <1>c DEF PrintAnswer, ListTreeNames, WalkEnd, Fail, Exit, walk, Reading
  <2>4. ASSUME NEW n \in Path, WalkDir(p, n) PROVE OpenFilesOK'
    BY <2>4, <1>c, <1>d DEF WalkDir, Enter, Fail, Exit, walk, Reading
  <2>5. ASSUME NEW n \in Path, WalkFile(p, n) PROVE OpenFilesOK'
    BY <2>5, <1>c, <1>e DEF WalkFile, Fail, Exit, files, Reading
  <2>6. ASSUME BlobStored(p) \/ TreeStored(p) PROVE OpenFilesOK'
    BY <2>6, <1>c DEF BlobStored, TreeStored, Fail, Exit, Reading
  <2>7. ASSUME CheckTree(p) \/ CheckParent(p) PROVE OpenFilesOK'
    BY <2>7, <1>c DEF CheckTree, CheckParent, StoreCommit, Fail, Exit, walk, Reading
  <2>8. ASSUME UNCHANGED <<files, command>> PROVE OpenFilesOK'
    BY <2>8, <1>d DEF command, walk
  <2>9. QED
    BY <1>2, <2>1, <2>2, <2>3, <2>4, <2>5, <2>6, <2>7, <2>8 DEF StepOf
<1>3. ASSUME NEW p \in Proc, Leave(p) \/ KillCommand(p) PROVE OpenFilesOK'
  <2>1. Reset(p)
    BY <1>3 DEF Leave, KillCommand
  <2>2. \A q \in Proc \ {p} : name'[q] = name[q]
    BY <1>a, <2>1 DEF Reset, CommandTypeOK
  <2>3. QED
    BY <1>f, <2>1, <2>2 DEF Reset, Reading
<1>4. ASSUME NEW p \in Proc, FileError(p) PROVE OpenFilesOK'
  BY <1>4, <1>f DEF FileError, Fail, Exit, walk, Reading
<1>5. ASSUME UNCHANGED <<files, command>> PROVE OpenFilesOK'
  BY <1>5, <1>d DEF command, walk
<1>6. ASSUME NEW n \in Path, NEW v, Edit(n, v), n \in File => v \in Content \cup {Absent}
      PROVE  OpenFilesOK'
  <2>1. UNCHANGED <<at, name, buffer>> /\ work' = [work EXCEPT ![n] = v]
    BY <1>6 DEF Edit, command, walk
  <2>2. ASSUME NEW p \in Proc, at[p] \in Reading PROVE Opened(p)' \in Content
    <3>1. name[p] \in File /\ Opened(p) \in Content
      BY <1>0, <2>2 DEF OneOK
    <3>2. CASE p \in OpenBy(n) /\ Overwrite(n, v)
      BY <1>a, <2>1, <3>2 DEF OpenBy, Overwrite, Opened, WatchTypeOK
    <3>3. CASE p \in OpenBy(n) /\ Replace(n)
      BY <1>a, <3>1, <3>3, RepositoryAssumption DEF OpenBy, Replace, Opened
    <3>4. CASE p \notin OpenBy(n)
      <4>1. kept'[p] = kept[p]
        BY <1>6, <3>4 DEF Edit, Overwrite, Replace
      <4>2. kept[p] = Absent => name[p] # n
        BY <2>2, <3>4 DEF OpenBy
      <4>3. QED
        BY <1>a, <2>1, <3>1, <4>1, <4>2 DEF Opened, WatchTypeOK
    <3>5. QED
      BY <1>6, <3>2, <3>3, <3>4 DEF Edit
  <2>3. ASSUME NEW p \in Proc, at[p] \notin Reading PROVE kept'[p] = kept[p]
    BY <1>6, <2>3 DEF Edit, Overwrite, Replace, OpenBy
  <2>4. QED
    BY <1>a, <2>1, <2>2, <2>3 DEF OpenFilesOK
<1>7. CASE UNCHANGED vars
  BY <1>5, <1>7 DEF vars
<1>8. QED
  <2>1. ASSUME UserEdits PROVE OpenFilesOK'
    BY <1>6, <2>1, RepositoryAssumption DEF UserEdits, Path
  <2>2. QED
    BY <1>1, <1>2, <1>3, <1>4, <1>5, <1>7, <2>1 DEF Next

LEMMA RepTypeStep == TypeOK /\ OkMeansStored /\ [Next]_vars => TypeOK'
<1> SUFFICES ASSUME TypeOK, OkMeansStored, [Next]_vars PROVE TypeOK'
  OBVIOUS
<1> USE StoreAssumption, RepositoryAssumption
<1>a. StoreTypeOK /\ CommandTypeOK /\ CallsMatchCommands /\ WatchTypeOK
  BY DEF TypeOK
<1>b. StoreTypeOK' /\ OpenFilesOK'
  BY UsesStore, TypeStep, OpenFilesKept DEF TypeOK
<1> DEFINE Rest == CommandTypeOK /\ CallsMatchCommands /\ WatchTypeOK
<1> SUFFICES Rest'
  BY <1>b DEF TypeOK
<1> USE DEF files, walk, command, watch, GoTo
(* A command opens a file. *)
<1>c. ASSUME NEW p \in Proc, NEW n \in File, NEW s \in Reading, OpenFile(p, n, s), pc[p] = "idle",
             starts' \in 0 .. MaxStarts, left' \in [Proc -> [Dir -> SUBSET Path]],
             UNCHANGED <<storeVars, work, dir, entries, args, out, watch, printed>>
      PROVE  Rest'
  <2>1. /\ at'[p] = s /\ at' \in [Proc -> At] /\ s \in At
        /\ \A q \in Proc \ {p} : at'[q] = at[q]
    BY <1>c, <1>a DEF OpenFile, CommandTypeOK, At
  <2>2. name' \in [Proc -> Path]
    BY <1>c, <1>a DEF OpenFile, CommandTypeOK, Path
  <2>3. buffer' \in [Proc -> Text]
    BY <1>c, <1>a, EmptyText DEF OpenFile, CommandTypeOK
  <2>4. CommandTypeOK'
    BY <1>c, <2>1, <2>2, <2>3, <1>a DEF CommandTypeOK
  <2>5. CallsMatchCommands'
    BY <1>c, <2>1, <1>a DEF CallsMatchCommands, Reading, storeVars, call, disk
  <2>6. WatchTypeOK'
    BY <1>c, <1>a DEF OpenFile, WatchTypeOK
  <2>7. QED
    BY <2>4, <2>5, <2>6
(* A command without a call ends with an error. *)
<1>d. ASSUME NEW p \in Proc, Fail(p, "io_error"), pc[p] = "idle", starts' \in 0 .. MaxStarts,
             kept' \in [Proc -> Content \cup {Absent}],
             UNCHANGED <<storeVars, work, walk, args, watch, printed>>
      PROVE  Rest'
  <2>1. /\ at'[p] = "exit" /\ at' \in [Proc -> At]
        /\ \A q \in Proc \ {p} : at'[q] = at[q]
        /\ out' \in [Proc -> [status : Status, hash : Object \cup {None}]]
    BY <1>d, <1>a, ExitType DEF Fail, Status
  <2>2. CommandTypeOK'
    BY <1>d, <2>1, <1>a DEF CommandTypeOK
  <2>3. CallsMatchCommands'
    BY <1>d, <2>1, <1>a DEF CallsMatchCommands, Reading, storeVars, call, disk
  <2>4. QED
    BY <1>d, <2>2, <2>3, <1>a DEF WatchTypeOK
<1>1. ASSUME NEW p \in Proc, Start(p) PROVE Rest'
  <2>0. starts' \in 0 .. MaxStarts
    BY <1>1, <1>a DEF Start, WatchTypeOK
  <2>1. ASSUME NEW f \in File, HashObject(p, f) PROVE Rest'
    <3>0. pc[p] = "idle"
      BY <2>1, <1>a DEF HashObject, CallsMatchCommands, Reading
    <3>1. CASE Fail(p, "io_error") /\ UNCHANGED <<kept, name, buffer>>
      BY <2>0, <2>1, <3>0, <3>1, <1>a, <1>d DEF HashObject, WatchTypeOK
    <3>2. CASE OpenFile(p, f, "hashing") /\ UNCHANGED out
      BY <2>0, <2>1, <3>0, <3>2, <1>a, <1>c DEF HashObject, CommandTypeOK, Reading
    <3>3. QED
      BY <2>1, <3>1, <3>2 DEF HashObject
  <2>2. ASSUME WriteTree(p) PROVE Rest'
    <3>1. CommandTypeOK'
      BY <2>2, <1>a DEF WriteTree, Enter, Listing, CommandTypeOK, At
    <3>2. CallsMatchCommands'
      BY <2>2, <1>a DEF WriteTree, Enter, CommandTypeOK, CallsMatchCommands, Reading, storeVars, call, disk
    <3>3. WatchTypeOK'
      BY <2>2, <2>0, <1>a DEF WriteTree, WatchTypeOK, Holds
    <3>4. QED
      BY <3>1, <3>2, <3>3
  <2>3. ASSUME NEW a \in CommitArgs, CommitTree(p, a[1], a[2]) PROVE Rest'
    <3>1. /\ a = <<a[1], a[2]>>
          /\ a[1] \in Object \cup {BadHash} /\ a[2] \in Object \cup {BadHash, None}
      OBVIOUS
    <3>2. CommandTypeOK'
      BY <2>3, <3>1, <1>a DEF CommitTree, CommandTypeOK, At
    <3>3. CallsMatchCommands'
      BY <2>3, <3>1, <1>a DEF CommitTree, CommandTypeOK, CallsMatchCommands, Reading, storeVars, call, disk
    <3>4. QED
      BY <2>3, <3>2, <3>3, <2>0, <1>a DEF CommitTree, WatchTypeOK
  <2>4. ASSUME NEW h \in ReadArgs, NEW s \in {"cat", "ls"}, ReadCommand(p, h, s) PROVE Rest'
    <3>1. CommandTypeOK'
      BY <2>4, <1>a DEF ReadCommand, CommandTypeOK, At
    <3>2. CallsMatchCommands'
      <4>1. at'[p] \in {"cat", "ls"} /\ \A q \in Proc \ {p} : at'[q] = at[q]
        BY <2>4, <1>a DEF ReadCommand, CommandTypeOK
      <4>2. QED
        BY <2>4, <4>1, <1>a, CallEffects DEF ReadCommand, CallsMatchCommands, Reading
    <3>3. QED
      BY <2>4, <3>1, <3>2, <2>0, <1>a DEF ReadCommand, WatchTypeOK
  <2>5. QED
    BY <1>1, <2>1, <2>2, <2>3, <2>4 DEF Start
<1>2. ASSUME starts' = starts, NEW p \in Proc, StepOf(p) PROVE Rest'
  <2>0. p \in Proc /\ dir[p] \in Dir /\ "exit" \in At
    BY <1>a DEF CommandTypeOK, At
  (* The command ends, its store call, if it had one, over. *)
  <2>a. ASSUME NEW s \in Status, NEW o \in Object \cup {None}, Exit(p, Outcome(s, o)),
               Return(p) \/ (pc[p] = "idle" /\ UNCHANGED storeVars),
               UNCHANGED <<files, dir, left, entries, name, buffer, args, watch>>,
               printed' \in SUBSET Object
        PROVE  Rest'
    <3>1. /\ at'[p] = "exit" /\ at' \in [Proc -> At]
          /\ \A q \in Proc \ {p} : at'[q] = at[q]
          /\ out' \in [Proc -> [status : Status, hash : Object \cup {None}]]
      BY <2>a, <1>a, ExitType
    <3>2. /\ pc'[p] = "idle" /\ exists' = exists
          /\ \A q \in Proc \ {p} : pc'[q] = pc[q] /\ obj'[q] = obj[q]
      BY <2>a, <1>a, CallEffects DEF storeVars, call, disk
    <3>3. CommandTypeOK'
      BY <2>a, <3>1, <1>a DEF CommandTypeOK
    <3>4. CallsMatchCommands'
      BY <2>a, <3>1, <3>2, <1>a DEF CallsMatchCommands, Reading
    <3>5. QED
      BY <2>a, <1>2, <3>3, <3>4, <1>a DEF WatchTypeOK
  (* The walk goes on after a store call, or without one. *)
  <2>b. ASSUME GoTo(p, "walk") \/ (at[p] = "walk" /\ at' = at),
               Return(p) \/ (pc[p] = "idle" /\ UNCHANGED storeVars),
               dir' \in [Proc -> Dir], left' \in [Proc -> [Dir -> SUBSET Path]],
               entries' \in [Proc -> [Dir -> SUBSET Entry]],
               UNCHANGED <<files, name, buffer, args, out, watch, printed>>
        PROVE  Rest'
    <3>1. /\ at'[p] = "walk" /\ at' \in [Proc -> At]
          /\ \A q \in Proc \ {p} : at'[q] = at[q]
      BY <2>b, <1>a DEF CommandTypeOK, At
    <3>2. /\ pc'[p] = "idle" /\ exists' = exists
          /\ \A q \in Proc \ {p} : pc'[q] = pc[q] /\ obj'[q] = obj[q]
      BY <2>b, <1>a, CallEffects DEF storeVars, call, disk
    <3>3. CommandTypeOK'
      BY <2>b, <3>1, <1>a DEF CommandTypeOK
    <3>4. CallsMatchCommands'
      BY <2>b, <3>1, <3>2, <1>a DEF CallsMatchCommands, Reading
    <3>5. QED
      BY <2>b, <1>2, <3>3, <3>4, <1>a DEF WatchTypeOK
  (* The command calls the store to have o stored. *)
  <2>c. ASSUME NEW s \in {"hash", "blob", "tree", "commit"}, NEW o \in Object,
               GoTo(p, s), CallStore(p, o), kept' \in [Proc -> Content \cup {Absent}],
               UNCHANGED <<work, walk, args, out, watch, printed>>
        PROVE  Rest'
    <3>1. /\ at'[p] = s /\ at' \in [Proc -> At]
          /\ \A q \in Proc \ {p} : at'[q] = at[q]
      BY <2>c, <1>a DEF CommandTypeOK, At
    <3>2. /\ pc'[p] # "idle" /\ obj'[p] = o /\ exists' = exists
          /\ \A q \in Proc \ {p} : pc'[q] = pc[q] /\ obj'[q] = obj[q]
      BY <2>c, <1>a, CallEffects
    <3>3. CommandTypeOK'
      BY <2>c, <3>1, <1>a DEF CommandTypeOK
    <3>4. CallsMatchCommands'
      BY <2>c, <3>1, <3>2, <1>a DEF CallsMatchCommands, Reading
    <3>5. QED
      BY <2>c, <1>2, <3>3, <3>4, <1>a DEF WatchTypeOK
  <2>d. res[p] \in Status
    BY <1>a DEF StoreTypeOK, Result, Status
  <2>e. at[p] \in {"hash", "blob", "tree", "commit", "cat", "ls"} /\ Return(p) /\ res[p] = "ok"
          => obj[p] \in Object
    BY <1>a DEF OkMeansStored, StoreTypeOK, Return
  <2>1. ASSUME PrintAnswer(p) PROVE Rest'
    <3>1. (IF res[p] = "ok" THEN obj[p] ELSE None) \in Object \cup {None}
      BY <2>1, <2>e DEF PrintAnswer
    <3>2. QED
      BY <2>1, <2>a, <2>d, <3>1, <1>a DEF PrintAnswer, Answer, WatchTypeOK
  <2>2. ASSUME NEW n \in Path, WalkDir(p, n) PROVE Rest'
    <3>0. pc[p] = "idle"
      BY <2>2, <1>a DEF WalkDir, CallsMatchCommands, Reading
    <3>1. CASE Fail(p, "io_error") /\ UNCHANGED walk
      BY <2>2, <2>a, <3>0, <3>1, <1>a DEF WalkDir, Fail, Status, WatchTypeOK
    <3>2. CASE Enter(p, n, [left[p] EXCEPT ![dir[p]] = @ \ {n}]) /\ UNCHANGED <<at, out>>
      <4>1. n \in Dir /\ Listing(n) \in SUBSET Path
        BY <2>2 DEF WalkDir, Listing
      <4>2. [left[p] EXCEPT ![dir[p]] = @ \ {n}] \in [Dir -> SUBSET Path]
        BY <2>0, <1>a DEF CommandTypeOK
      <4>3. /\ dir' \in [Proc -> Dir] /\ left' \in [Proc -> [Dir -> SUBSET Path]]
            /\ entries' \in [Proc -> [Dir -> SUBSET Entry]]
        BY <3>2, <4>1, <4>2, <1>a DEF Enter, CommandTypeOK
      <4>4. QED
        BY <2>2, <2>b, <3>0, <3>2, <4>3 DEF WalkDir, Enter
    <3>3. QED
      BY <2>2, <3>1, <3>2 DEF WalkDir
  <2>3. ASSUME NEW n \in Path, WalkFile(p, n) PROVE Rest'
    <3>0. pc[p] = "idle" /\ n \in File /\ starts' \in 0 .. MaxStarts
      BY <2>3, <1>2, <1>a DEF WalkFile, CallsMatchCommands, Reading, WatchTypeOK
    <3>1. CASE Fail(p, "io_error") /\ UNCHANGED <<kept, left, name, buffer>>
      BY <2>3, <3>0, <3>1, <1>a, <1>d DEF WalkFile, WatchTypeOK
    <3>2. CASE /\ OpenFile(p, n, "reading")
               /\ left' = [left EXCEPT ![p][dir[p]] = @ \ {n}] /\ UNCHANGED out
      <4>1. left' \in [Proc -> [Dir -> SUBSET Path]]
        BY <3>2, <2>0, <1>a DEF CommandTypeOK
      <4>2. QED
        BY <2>3, <3>0, <3>2, <4>1, <1>c DEF WalkFile, Reading
    <3>3. QED
      BY <2>3, <3>1, <3>2 DEF WalkFile
  <2>4. ASSUME BlobStored(p) PROVE Rest'
    <3>1. CASE Fail(p, res[p]) /\ UNCHANGED entries
      BY <2>4, <2>a, <2>d, <3>1, <1>a DEF BlobStored, Fail, WatchTypeOK
    <3>2. CASE /\ res[p] = "ok" /\ GoTo(p, "walk") /\ UNCHANGED out
               /\ entries' = [entries EXCEPT ![p][dir[p]] =
                                @ \cup {TreeEntry("100644", name[p], obj[p])}]
      <4>1. TreeEntry("100644", name[p], obj[p]) \in Entry
        BY <2>4, <2>e, <3>2, <1>a DEF BlobStored, TreeEntry, Entry, CommandTypeOK
      <4>2. entries' \in [Proc -> [Dir -> SUBSET Entry]]
        BY <3>2, <4>1, <2>0, <1>a DEF CommandTypeOK
      <4>3. QED
        BY <2>4, <2>b, <3>2, <4>2, <1>a DEF BlobStored, CommandTypeOK
    <3>3. QED
      BY <2>4, <3>1, <3>2 DEF BlobStored
  <2>5. ASSUME WalkEnd(p) PROVE Rest'
    BY <2>5, <2>c, <1>a DEF WalkEnd, WatchTypeOK
  <2>6. ASSUME TreeStored(p) PROVE Rest'
    <3>1. CASE Fail(p, res[p]) /\ UNCHANGED <<dir, entries, printed>>
      BY <2>6, <2>a, <2>d, <3>1, <1>a DEF TreeStored, Fail, WatchTypeOK
    <3>2. CASE /\ res[p] = "ok" /\ Exit(p, Answer(p)) /\ printed' = printed \cup {obj[p]}
               /\ UNCHANGED <<dir, entries>>
      <4>1. obj[p] \in Object
        BY <2>6, <2>e, <3>2 DEF TreeStored
      <4>2. QED
        BY <2>6, <2>a, <2>d, <3>2, <4>1, <1>a DEF TreeStored, Answer, WatchTypeOK
    <3>3. CASE /\ res[p] = "ok" /\ dir[p] # Root /\ GoTo(p, "walk") /\ UNCHANGED out
               /\ dir' = [dir EXCEPT ![p] = Parent[dir[p]]]
               /\ entries' = [entries EXCEPT ![p][Parent[dir[p]]] =
                                @ \cup {TreeEntry("40000", dir[p], obj[p])}]
               /\ UNCHANGED printed
      <4>1. TreeEntry("40000", dir[p], obj[p]) \in Entry
        BY <2>6, <2>e, <2>0, <3>3 DEF TreeStored, TreeEntry, Entry, Path
      <4>2. Parent[dir[p]] \in Dir
        BY <2>0, <3>3 DEF Path
      <4>3. /\ dir' \in [Proc -> Dir]
            /\ entries' \in [Proc -> [Dir -> SUBSET Entry]]
        BY <3>3, <4>1, <4>2, <1>a DEF CommandTypeOK
      <4>4. QED
        BY <2>6, <2>b, <3>3, <4>3, <1>a DEF TreeStored, CommandTypeOK
    <3>4. QED
      BY <2>6, <3>1, <3>2, <3>3 DEF TreeStored
  <2>7. ASSUME CheckTree(p) PROVE Rest'
    <3> DEFINE t == args[p].tree
               c == args[p].parent
               e == Refused(t, "tree_not_found")
    <3>0. /\ pc[p] = "idle" /\ <<t, c>> \in CommitArgs
          /\ e \in Status /\ (e = "none" => t # BadHash /\ t \in exists)
      BY <2>7, <1>a DEF CheckTree, CallsMatchCommands, Reading, Refused, Status
    <3>1. CASE (Fail(p, e) \/ Fail(p, "io_error")) /\ UNCHANGED storeVars
      BY <2>7, <2>a, <3>0, <3>1, <1>a DEF CheckTree, Fail, WatchTypeOK, Status
    <3>2. CASE e = "none" /\ GoTo(p, "parent?") /\ UNCHANGED <<out, storeVars>>
      <4>1. at' \in [Proc -> At] /\ at'[p] = "parent?" /\ \A q \in Proc \ {p} : at'[q] = at[q]
        BY <3>2, <1>a DEF CommandTypeOK, At
      <4>2. CommandTypeOK'
        BY <2>7, <3>2, <4>1, <1>a DEF CheckTree, CommandTypeOK
      <4>3. CallsMatchCommands'
        BY <2>7, <3>0, <3>2, <4>1, <1>a DEF CheckTree, CallsMatchCommands, Reading, storeVars, call, disk
      <4>4. QED
        BY <2>7, <4>2, <4>3, <1>2, <1>a DEF CheckTree, WatchTypeOK
    <3>3. CASE e = "none" /\ c = None /\ StoreCommit(p, t, c)
      <4>1. Commit(t, c) \in Object
        BY <3>0, <3>3
      <4>2. QED
        BY <2>7, <2>c, <3>3, <4>1, <1>a DEF CheckTree, StoreCommit, WatchTypeOK
    <3>4. QED
      BY <2>7, <3>1, <3>2, <3>3 DEF CheckTree
  <2>8. ASSUME CheckParent(p) PROVE Rest'
    <3> DEFINE t == args[p].tree
               c == args[p].parent
               e == Refused(c, "commit_not_found")
    <3>0. /\ pc[p] = "idle" /\ <<t, c>> \in CommitArgs /\ t # BadHash
          /\ e \in Status /\ (e = "none" => c # BadHash)
      BY <2>8, <1>a DEF CheckParent, CallsMatchCommands, Reading, Refused, Status, StoreTypeOK
    <3>1. CASE (Fail(p, e) \/ Fail(p, "io_error")) /\ UNCHANGED storeVars
      BY <2>8, <2>a, <3>0, <3>1, <1>a DEF CheckParent, Fail, WatchTypeOK, Status
    <3>2. CASE e = "none" /\ StoreCommit(p, t, c)
      <4>1. Commit(t, c) \in Object
        BY <3>0, <3>2
      <4>2. QED
        BY <2>8, <2>c, <3>2, <4>1, <1>a DEF CheckParent, StoreCommit, WatchTypeOK
    <3>3. QED
      BY <2>8, <3>1, <3>2 DEF CheckParent
  <2>9. ASSUME ListTreeNames(p) PROVE Rest'
    <3>1. (IF res[p] = "ok" THEN obj[p] ELSE None) \in Object \cup {None}
      BY <2>9, <2>e DEF ListTreeNames
    <3>2. CASE Fail(p, "tree_format_invalid")
      BY <2>9, <2>a, <3>2, <1>a DEF ListTreeNames, Fail, Status, WatchTypeOK
    <3>3. CASE Exit(p, Answer(p))
      BY <2>9, <2>a, <2>d, <3>1, <3>3, <1>a DEF ListTreeNames, Answer, WatchTypeOK
    <3>4. QED
      BY <2>9, <3>2, <3>3 DEF ListTreeNames, ParseTreeEntries
  <2>11. ASSUME FilePiece(p) PROVE Rest'
    <3>1. /\ buffer[p] \in Text /\ Opened(p) \in Text /\ Len(buffer[p]) + 1 <= Len(Opened(p))
          /\ buffer' = [buffer EXCEPT ![p] = Append(@, Opened(p)[Len(buffer[p]) + 1])]
      BY <2>11, <1>a DEF FilePiece, CommandTypeOK, OpenFilesOK, TypeOK
    <3>2. buffer' \in [Proc -> Text]
      BY <3>1, <1>a, PieceIsRead DEF CommandTypeOK
    <3>3. CommandTypeOK'
      BY <2>11, <3>2, <1>a DEF FilePiece, CommandTypeOK
    <3>4. CallsMatchCommands'
      BY <2>11, <1>a DEF FilePiece, CallsMatchCommands, storeVars, call, disk
    <3>5. QED
      BY <2>11, <3>3, <3>4, <1>2, <1>a DEF FilePiece, WatchTypeOK
  <2>12. ASSUME FileEnd(p) PROVE Rest'
    <3>1. Blob(buffer[p]) \in Object
      BY <2>12, BufferIsBlob DEF FileEnd
    <3>2. kept' \in [Proc -> Content \cup {Absent}]
      BY <2>12, <1>a DEF FileEnd, WatchTypeOK
    <3>3. QED
      BY <2>12, <2>c, <3>1, <3>2 DEF FileEnd
  <2>10. ASSUME StoreStep(p), UNCHANGED <<files, command, watch, printed>> PROVE Rest'
    <3>1. CallsMatchCommands'
      BY <2>10, <1>a, CallEffects DEF CallsMatchCommands, Reading
    <3>2. QED
      BY <2>10, <3>1, <1>2, <1>a DEF CommandTypeOK, WatchTypeOK
  <2>13. QED
    BY <1>2, <2>11, <2>12, <2>1, <2>2, <2>3, <2>4, <2>5, <2>6, <2>7, <2>8, <2>9, <2>10 DEF StepOf
<1>3. ASSUME starts' = starts, NEW p \in Proc, Reset(p),
             \/ UNCHANGED storeVars /\ pc[p] = "idle"
             \/ Kill(p)
      PROVE  Rest'
  <2>1. CommandTypeOK'
    BY <1>3, <1>a, EmptyText DEF Reset, CommandTypeOK, At, Path, Outcome, Status
  <2>2. /\ pc'[p] = "idle" /\ exists' = exists
        /\ \A q \in Proc \ {p} : pc'[q] = pc[q] /\ obj'[q] = obj[q]
    BY <1>3, <1>a, CallEffects DEF storeVars, call, disk
  <2>3. CallsMatchCommands'
    BY <1>3, <2>2, <1>a DEF Reset, CommandTypeOK, CallsMatchCommands, Reading
  <2>4. WatchTypeOK'
    BY <1>3, <1>a DEF Reset, WatchTypeOK
  <2>5. QED
    BY <2>1, <2>3, <2>4
<1>4. ASSUME starts' = starts, NEW p \in Proc, Leave(p) \/ KillCommand(p) PROVE Rest'
  BY <1>3, <1>4, <1>a DEF Leave, KillCommand, CallsMatchCommands, Reading
<1>5. ASSUME starts' = starts, NEW p \in Proc, StoreFault(p),
             UNCHANGED <<files, command, watch, printed>>
      PROVE  Rest'
  <2>1. CallsMatchCommands'
    BY <1>5, <1>a, CallEffects DEF CallsMatchCommands, Reading
  <2>2. QED
    BY <1>5, <2>1, <1>a DEF CommandTypeOK, WatchTypeOK
<1>6. ASSUME starts' = starts, UserEdits PROVE Rest'
  <2>1. ASSUME NEW n \in Path, NEW v \in Content \cup {Folder, Absent}, Edit(n, v),
               n \in File => v \in Content \cup {Absent}
        PROVE  Rest'
    <3>1. /\ work' \in [Path -> Content \cup {Folder, Absent}]
          /\ \A f \in File : work'[f] \in Content \cup {Absent}
      BY <2>1, <1>a DEF Edit, WatchTypeOK, Path
    <3>2. held' \in [Proc -> SUBSET (File \X Content)]
      BY <2>1, <1>a DEF Edit, WatchTypeOK, Holds
    <3>3. edits' \in 0 .. MaxEdits /\ edited' \subseteq Proc /\ printed' = printed
      BY <2>1, <1>a DEF Edit, WatchTypeOK
    <3>7. kept' \in [Proc -> Content \cup {Absent}] /\ disturbed' \in [Proc -> SUBSET File]
      <4>1. \A p \in OpenBy(n) : p \in Proc /\ n \in File /\ work[n] \in Content \cup {Absent}
        BY <1>a DEF OpenBy, OpenFilesOK, TypeOK, WatchTypeOK
      <4>2. CASE Overwrite(n, v)
        BY <4>1, <4>2, <1>a DEF Overwrite, WatchTypeOK
      <4>3. CASE Replace(n)
        BY <4>1, <4>3, <1>a DEF Replace, WatchTypeOK
      <4>4. QED
        BY <2>1, <4>2, <4>3 DEF Edit
    <3>4. WatchTypeOK'
      BY <3>1, <3>2, <3>3, <3>7, <1>6, <1>a DEF WatchTypeOK
    <3>5. CommandTypeOK' /\ CallsMatchCommands'
      BY <2>1, <1>a DEF Edit, CommandTypeOK, CallsMatchCommands, Reading, storeVars, call, disk
    <3>6. QED
      BY <3>4, <3>5
  <2>2. QED
    BY <1>6, <2>1 DEF UserEdits, Path
<1>7. CASE UNCHANGED vars
  BY <1>7, <1>a DEF vars, storeVars, call, disk, CommandTypeOK, CallsMatchCommands, WatchTypeOK
<1>9. ASSUME starts' = starts, NEW p \in Proc, FileError(p) PROVE Rest'
  <2>1. pc[p] = "idle" /\ starts' \in 0 .. MaxStarts
    BY <1>9, <1>a DEF FileError, CallsMatchCommands, WatchTypeOK
  <2>2. kept' \in [Proc -> Content \cup {Absent}]
    BY <1>9, <1>a DEF FileError, WatchTypeOK
  <2>3. QED
    BY <1>9, <1>d, <2>1, <2>2 DEF FileError
<1>8. QED
  BY <1>1, <1>2, <1>4, <1>5, <1>6, <1>7, <1>9 DEF Next

-----------------------------------------------------------------------------
(* The invariant of the commands' use of the store, and what follows.      *)
RepInv == TypeOK /\ OpenFilesExist /\ OkMeansStored

LEMMA RepInvInit == Init => RepInv
<1> SUFFICES ASSUME Init PROVE RepInv
  OBVIOUS
<1>1. OkMeansStored
  BY DEF Init, StoreInit, OkMeansStored
<1>2. QED
  BY <1>1, RepTypeInit, OpenFilesInit DEF RepInv, Init

LEMMA RepInvStep == RepInv /\ [Next]_vars => RepInv'
BY RepTypeStep, UsesStore, OpenFilesStep, OkMeansStoredStep DEF RepInv, TypeOK

THEOREM RepositoryTypeCorrect == Spec => []TypeOK
<1>1. RepInv => TypeOK
  BY DEF RepInv
<1>2. QED
  BY <1>1, RepInvInit, RepInvStep, PTL DEF Spec

(***************************************************************************)
(* The commands are clients of the store: whatever they do is one of its   *)
(* behaviours, so every theorem of ObjectStoreProofs holds of them.        *)
(***************************************************************************)
THEOREM RepositoryUsesStore == Spec => StoreSpec
<1>1. Init => StoreInit
  BY DEF Init
<1>2. QED
  BY <1>1, UsesStore, RepositoryTypeCorrect, PTL DEF Spec, StoreSpec

(* Commands killed or refused anywhere, a torn read still has its cause. *)
THEOREM RepositoryTornReadsHaveCause ==
  Spec => [](MissingPiecesAreOwed /\ TornReadMeansRaceOrCrash) /\ ImplementsContract
BY RepositoryUsesStore, StoreOwesMissingPieces, StoreTornReadsHaveCause,
   StoreImplementsContract, PTL

-----------------------------------------------------------------------------
(***************************************************************************)
(* Connected.  The inductive invariant also follows an object's references *)
(* before it has a file: those of an object being stored are in the store, *)
(* and so are the hashes write-tree has collected in its entries.          *)
(***************************************************************************)
Storing(p) == pc[p] \in {"check", "open", "write"}

Linked ==
  /\ Connected
  /\ \A p \in Proc : Storing(p) => Refs(obj[p]) \subseteq exists
  /\ \A p \in Proc : \A d \in Dir : \A e \in entries[p][d] : e.hash \in exists

(* How the store grows, and whose objects are new to it. *)
LEMMA StoreGrowth ==
  ASSUME StoreTypeOK, [StoreNext]_storeVars
  PROVE  /\ exists \subseteq exists'
         /\ \A o \in exists' : o \in exists \/ \E p \in Proc : Storing(p) /\ obj[p] = o
         /\ \A p \in Proc : Storing(p)' => \/ Storing(p) /\ obj'[p] = obj[p]
                                           \/ pc[p] = "idle" /\ pc'[p] = "check"
<1> USE DEF StoreTypeOK, disk, history, Storing
<1> DEFINE Claim == /\ exists \subseteq exists'
                    /\ \A o \in exists' : o \in exists \/ \E p \in Proc : Storing(p) /\ obj[p] = o
                    /\ \A p \in Proc : Storing(p)' => \/ Storing(p) /\ obj'[p] = obj[p]
                                                      \/ pc[p] = "idle" /\ pc'[p] = "check"
<1>a. ASSUME NEW p \in Proc,
             \A q \in Proc \ {p} : pc'[q] = pc[q] /\ obj'[q] = obj[q],
             \/ exists' = exists
             \/ pc[p] = "open" /\ exists' = exists \cup {obj[p]},
             \/ pc'[p] \notin {"check", "open", "write"}
             \/ pc[p] = "idle" /\ pc'[p] = "check"
             \/ pc[p] \in {"check", "open", "write"} /\ obj'[p] = obj[p]
      PROVE  Claim
  <2>1. /\ exists \subseteq exists'
        /\ \A o \in exists' : o \in exists \/ \E q \in Proc : Storing(q) /\ obj[q] = o
    BY <1>a
  <2>2. ASSUME NEW q \in Proc, Storing(q)'
        PROVE  \/ Storing(q) /\ obj'[q] = obj[q]
               \/ pc[q] = "idle" /\ pc'[q] = "check"
    BY <1>a, <2>2
  <2>3. QED
    BY <2>1, <2>2
<1> HIDE DEF Claim
<1>1. ASSUME NEW p \in Proc, NEW x, CallStore(p, x) \/ CallRead(p, x) PROVE Claim
  BY <1>a, <1>1 DEF CallStore, CallRead, Goto
<1>2. ASSUME NEW p \in Proc, Return(p) \/ Kill(p) PROVE Claim
  BY <1>a, <1>2 DEF Return, Kill, Hang, Goto
<1>3. ASSUME NEW p \in Proc, StoreFound(p) \/ StoreClose(p) \/ StoreMissing(p) PROVE Claim
  BY <1>a, <1>3 DEF StoreFound, StoreClose, StoreMissing, Finish, Goto
<1>4. ASSUME NEW p \in Proc, StoreOpen(p) \/ StoreWrite(p) PROVE Claim
  BY <1>a, <1>4 DEF StoreOpen, StoreWrite, Goto
<1>5. ASSUME NEW p \in Proc, WriteRefused(p) \/ CallRefused(p) PROVE Claim
  BY <1>a, <1>5 DEF WriteRefused, CallRefused, Finish, Goto
<1>6. ASSUME NEW p \in Proc, ReadRejected(p) \/ ReadMissing(p) \/ ReadOpen(p) PROVE Claim
  BY <1>a, <1>6 DEF ReadRejected, ReadMissing, ReadOpen, Finish, Goto
<1>7. ASSUME NEW p \in Proc, ReadPiece(p) \/ ReadEnd(p) PROVE Claim
  BY <1>a, <1>7 DEF ReadPiece, ReadEnd, Finish, Goto
<1>8. ASSUME UNCHANGED storeVars PROVE Claim
  <2>1. ASSUME NEW q \in Proc PROVE Storing(q)' <=> Storing(q)
    BY <1>8 DEF storeVars, call
  <2>2. QED
    BY <1>8, <2>1 DEF storeVars, call, Claim
<1>9. Claim
  BY <1>1, <1>2, <1>3, <1>4, <1>5, <1>6, <1>7, <1>8 DEF StoreNext, StoreStep, StoreFault
<1>10. QED
  BY <1>9 DEF Claim

LEMMA RefsOf ==
  ASSUME NEW es, NEW t, NEW c, NEW b
  PROVE  /\ Refs(Blob(b)) = {}
         /\ Refs(Tree(es)) = {e.hash : e \in es}
         /\ Refs(Commit(t, c)) = {t, c} \ {None}
BY DEF Refs, Blob, Tree, Commit

LEMMA LinkedStep == RepInv /\ Linked /\ [Next]_vars => Linked'
<1> SUFFICES ASSUME RepInv, Linked, [Next]_vars PROVE Linked'
  OBVIOUS
<1>a. /\ TypeOK /\ StoreTypeOK /\ CommandTypeOK /\ CallsMatchCommands /\ OkMeansStored
      /\ [StoreNext]_storeVars
  BY UsesStore DEF RepInv, TypeOK
<1>b. /\ exists \subseteq exists'
      /\ \A o \in exists' : o \in exists \/ \E p \in Proc : Storing(p) /\ obj[p] = o
      /\ \A p \in Proc : Storing(p)' => \/ Storing(p) /\ obj'[p] = obj[p]
                                        \/ pc[p] = "idle" /\ pc'[p] = "check"
  BY <1>a, StoreGrowth
<1>c. Connected'
  BY <1>b DEF Linked, Connected
(* What is left to show of a step of p: what it stores next and collects. *)
<1> DEFINE Stores(p)   == pc[p] = "idle" /\ pc'[p] = "check" => Refs(obj'[p]) \subseteq exists
           Collects(p) == \A d \in Dir : \A e \in entries'[p][d] : e.hash \in exists
<1>d. ASSUME NEW p \in Proc, Stores(p), Collects(p),
             \A q \in Proc \ {p} : pc'[q] = pc[q] /\ entries'[q] = entries[q]
      PROVE  Linked'
  <2>1. \A q \in Proc : Storing(q)' => Refs(obj'[q]) \subseteq exists'
    BY <1>b, <1>d DEF Linked, Storing
  <2>2. \A q \in Proc : \A d \in Dir : \A e \in entries'[q][d] : e.hash \in exists'
    BY <1>b, <1>d DEF Linked
  <2>3. QED
    BY <1>c, <2>1, <2>2 DEF Linked
<1> HIDE DEF Stores, Collects
<1>e. ASSUME NEW p \in Proc, entries' = entries PROVE Collects(p)
  BY <1>e DEF Collects, Linked
<1>f. ASSUME NEW p \in Proc, pc'[p] # "check" \/ pc[p] # "idle" PROVE Stores(p)
  BY <1>f DEF Stores
<1>1. ASSUME NEW p \in Proc, entries' = entries,
             \/ UNCHANGED storeVars
             \/ Return(p) \/ Kill(p) \/ StoreStep(p) \/ StoreFault(p)
      PROVE  Linked'
  BY <1>1, <1>a, <1>d, <1>e, <1>f, CallEffects DEF storeVars, call
<1>2. ASSUME NEW p \in Proc, NEW o, CallStore(p, o), Refs(o) \subseteq exists,
             entries' = entries
      PROVE  Linked'
  BY <1>2, <1>a, <1>d, <1>e, CallEffects DEF Stores
<1>3. ASSUME NEW p \in Proc, NEW h, CallRead(p, h), entries' = entries PROVE Linked'
  <2>1. pc'[p] = "find" /\ \A q \in Proc \ {p} : pc'[q] = pc[q]
    BY <1>3, <1>a DEF CallRead, Goto, StoreTypeOK
  <2>2. QED
    BY <1>3, <2>1, <1>d, <1>e, <1>f
(* write-tree adds the hash its last store call was answered "ok" for. *)
<1>4. ASSUME NEW p \in Proc, Return(p), NEW d \in Dir, NEW mode, NEW n, res[p] = "ok",
             entries' = [entries EXCEPT ![p][d] = @ \cup {TreeEntry(mode, n, obj[p])}]
      PROVE  Linked'
  <2>1. obj[p] \in exists
    BY <1>4, <1>a DEF Return, OkMeansStored
  <2>2. Collects(p) /\ \A q \in Proc \ {p} : entries'[q] = entries[q]
    BY <1>4, <1>a, <2>1 DEF Linked, Collects, CommandTypeOK, TreeEntry
  <2>3. pc'[p] = "idle" /\ \A q \in Proc \ {p} : pc'[q] = pc[q]
    BY <1>4, <1>a, CallEffects
  <2>4. QED
    BY <2>2, <2>3, <1>d, <1>f
<1>5. ASSUME NEW p \in Proc, NEW d \in Dir, NEW l, Enter(p, d, l), UNCHANGED storeVars
      PROVE  Linked'
  <2>1. Collects(p) /\ \A q \in Proc \ {p} : entries'[q] = entries[q]
    BY <1>5, <1>a DEF Enter, Linked, Collects, CommandTypeOK
  <2>2. QED
    BY <1>5, <2>1, <1>d, <1>f DEF storeVars, call
<1>6. ASSUME NEW p \in Proc, Start(p) PROVE Linked'
  <2>1. ASSUME NEW f \in File, HashObject(p, f) PROVE Linked'
    BY <1>1, <2>1 DEF HashObject
  <2>2. ASSUME WriteTree(p) PROVE Linked'
    BY <1>5, <2>2, RepositoryAssumption DEF WriteTree
  <2>3. ASSUME NEW t, NEW c, CommitTree(p, t, c) PROVE Linked'
    BY <1>1, <2>3 DEF CommitTree, walk
  <2>4. ASSUME NEW h, NEW s, ReadCommand(p, h, s) PROVE Linked'
    BY <1>3, <2>4 DEF ReadCommand, walk
  <2>5. QED
    BY <1>6, <2>1, <2>2, <2>3, <2>4 DEF Start
<1>7. ASSUME NEW p \in Proc, StepOf(p) PROVE Linked'
  <2>1. ASSUME NEW n \in Path, WalkDir(p, n) PROVE Linked'
    BY <1>1, <1>5, <2>1 DEF WalkDir, walk
  <2>2. ASSUME NEW n \in Path, WalkFile(p, n) PROVE Linked'
    BY <1>1, <2>2 DEF WalkFile
  <2>3. ASSUME BlobStored(p) PROVE Linked'
    BY <1>1, <1>4, <2>3, <1>a DEF BlobStored, CommandTypeOK
  (* Its entries are in the store before a tree is. *)
  <2>4. ASSUME WalkEnd(p) PROVE Linked'
    <3>1. Refs(Tree(entries[p][dir[p]])) = {e.hash : e \in entries[p][dir[p]]}
      BY RefsOf
    <3>2. \A e \in entries[p][dir[p]] : e.hash \in exists
      BY <1>a DEF Linked, CommandTypeOK
    <3>3. Refs(Tree(entries[p][dir[p]])) \subseteq exists
      BY <3>1, <3>2
    <3>4. QED
      BY <1>2, <2>4, <3>3 DEF WalkEnd, walk
  <2>5. ASSUME TreeStored(p) PROVE Linked'
    <3>1. dir[p] # Root => Parent[dir[p]] \in Dir
      BY <1>a, RepositoryAssumption DEF CommandTypeOK, Path
    <3>2. QED
      BY <1>1, <1>4, <2>5, <3>1 DEF TreeStored
  (* commit-tree has found its tree and its parent in the store. *)
  <2>6. ASSUME CheckTree(p) PROVE Linked'
    <3>1. ASSUME Refused(args[p].tree, "tree_not_found") = "none", args[p].parent = None
          PROVE  Refs(Commit(args[p].tree, args[p].parent)) \subseteq exists
      <4>1. args[p].tree \in exists
        BY <3>1 DEF Refused
      <4>2. QED
        BY <3>1, <4>1, RefsOf
    <3>2. QED
      BY <1>1, <1>2, <2>6, <3>1 DEF CheckTree, StoreCommit, walk
  <2>7. ASSUME CheckParent(p) PROVE Linked'
    <3>1. ASSUME Refused(args[p].parent, "commit_not_found") = "none"
          PROVE  Refs(Commit(args[p].tree, args[p].parent)) \subseteq exists
      <4>1. args[p].parent \in exists
        BY <3>1 DEF Refused
      <4>2. args[p].tree \in exists
        BY <2>7, <1>a DEF CheckParent, CallsMatchCommands
      <4>3. QED
        BY <4>1, <4>2, RefsOf
    <3>2. QED
      BY <1>1, <1>2, <2>7, <3>1 DEF CheckParent, StoreCommit, walk
  <2>8. ASSUME PrintAnswer(p) \/ ListTreeNames(p) PROVE Linked'
    BY <1>1, <2>8 DEF PrintAnswer, ListTreeNames, walk
  <2>9. ASSUME StoreStep(p), UNCHANGED command PROVE Linked'
    BY <1>1, <2>9 DEF command, walk
  <2>10. ASSUME FilePiece(p) \/ FileEnd(p) PROVE Linked'
    <3>1. Refs(Blob(buffer[p])) \subseteq exists
      BY RefsOf
    <3>2. QED
      BY <1>1, <1>2, <2>10, <3>1 DEF FilePiece, FileEnd, walk
  <2>11. QED
    BY <1>7, <2>1, <2>2, <2>3, <2>4, <2>5, <2>6, <2>7, <2>8, <2>9, <2>10 DEF StepOf
<1>8. ASSUME NEW p \in Proc, Leave(p) \/ KillCommand(p) PROVE Linked'
  <2>1. Reset(p) /\ (UNCHANGED storeVars \/ Kill(p))
    BY <1>8 DEF Leave, KillCommand
  <2>2. Collects(p) /\ \A q \in Proc \ {p} : entries'[q] = entries[q]
    BY <2>1, <1>a DEF Reset, Collects, CommandTypeOK
  <2>3. Stores(p) /\ \A q \in Proc \ {p} : pc'[q] = pc[q]
    BY <2>1, <1>a, <1>f, CallEffects DEF storeVars, call
  <2>4. QED
    BY <2>2, <2>3, <1>d
<1>9. ASSUME UNCHANGED <<storeVars, entries>> PROVE Linked'
  BY <1>9 DEF Linked, Connected, Storing, storeVars, disk, call
<1>10. QED
  <2>1. ASSUME UserEdits PROVE Linked'
    BY <1>9, <2>1 DEF UserEdits, Edit, command, walk
  <2>2. ASSUME NEW p \in Proc, StoreFault(p), UNCHANGED command PROVE Linked'
    BY <1>1, <2>2 DEF command, walk
  <2>3. ASSUME NEW p \in Proc, FileError(p) PROVE Linked'
    BY <1>1, <2>3 DEF FileError, walk
  <2>4. CASE UNCHANGED vars
    BY <1>9, <2>4 DEF vars, command, walk
  <2>5. QED
    BY <1>6, <1>7, <1>8, <2>1, <2>2, <2>3, <2>4 DEF Next

(***************************************************************************)
(* Nothing in the store dangles, however commands interleave, are killed   *)
(* or are refused: children are stored before the tree that names them,    *)
(* and commit-tree checks before it stores.                                *)
(***************************************************************************)
THEOREM StoreIsConnected == Spec => []Connected
<1>1. Init => Linked
  BY DEF Init, StoreInit, Linked, Connected, Storing
<1>2. Linked => Connected
  BY DEF Linked
<1>3. QED
  BY <1>1, <1>2, RepInvInit, RepInvStep, LinkedStep, PTL DEF Spec

-----------------------------------------------------------------------------
(***************************************************************************)
(* WriteTreeIsSnapshot.  TreeAt and Leaves are defined by recursion; what  *)
(* is needed of them is that they satisfy their equations, that is, that   *)
(* there is a function that does.                                          *)
(***************************************************************************)
EntryOf(t, n) ==
  IF n \in File THEN TreeEntry("100644", n, Blob(work[n])) ELSE TreeEntry("40000", n, t[n])

EntriesAt(t, d) == {EntryOf(t, n) : n \in Listing(d)}

LEMMA EntriesOfListing ==
  ASSUME NEW t, NEW d
  PROVE  Tree(EntriesAt(t, d))
           = Tree({TreeEntry("100644", f, Blob(work[f])) : f \in Listing(d) \cap File}
                  \cup {TreeEntry("40000", n, t[n]) : n \in Listing(d) \cap Dir})
<1>1. \A n \in Listing(d) : (n \in File \/ n \in Dir) /\ ~(n \in File /\ n \in Dir)
  BY RepositoryAssumption DEF Listing, Path
<1>2. EntriesAt(t, d)
        = {TreeEntry("100644", f, Blob(work[f])) : f \in Listing(d) \cap File}
          \cup {TreeEntry("40000", n, t[n]) : n \in Listing(d) \cap Dir}
  BY <1>1 DEF EntriesAt, EntryOf
<1>3. QED
  BY <1>2

(* The tree of a directory is made of those of the directories in it. *)
LEMMA TreeAtEquation == \A d \in Dir : TreeAt[d] = Tree(EntriesAt(TreeAt, d))
<1> DEFINE TreeOf(t, d) == Tree(EntriesAt(t, d))
           Fits(t) ==
             t = [d \in Dir |->
                    Tree({TreeEntry("100644", f, Blob(work[f])) : f \in Listing(d) \cap File}
                         \cup {TreeEntry("40000", n, t[n]) : n \in Listing(d) \cap Dir})]
<1>1. TreeAt = CHOOSE t : Fits(t)
  BY DEF TreeAt
<1>0. \A t : Fits(t) <=> t = [d \in Dir |-> TreeOf(t, d)]
  <2> TAKE t
  <2>1. \A d \in Dir :
          TreeOf(t, d) = Tree({TreeEntry("100644", f, Blob(work[f])) : f \in Listing(d) \cap File}
                              \cup {TreeEntry("40000", n, t[n]) : n \in Listing(d) \cap Dir})
    BY EntriesOfListing
  <2> HIDE DEF TreeOf
  <2>2. QED
    BY <2>1
<1> HIDE DEF Fits
<1>2. PICK depth \in [Dir -> 0 .. Cardinality(Dir)] :
        \A d \in Dir \ {Root} : depth[Parent[d]] < depth[d]
  BY RepositoryAssumption
<1>3. Cardinality(Dir) \in Nat
  BY RepositoryAssumption, FS_CardinalityType
<1> DEFINE K == Cardinality(Dir)
           Deep(k) == {d \in Dir : depth[d] + k > K}
           S == {k \in Nat : \E t : \A d \in Deep(k) : t[d] = TreeOf(t, d)}
<1>4. \A d \in Dir : depth[d] \in Nat /\ depth[d] <= K
  BY <1>2, <1>3
<1>5. ASSUME NEW t, NEW u, NEW d \in Dir, \A n \in Listing(d) \cap Dir : t[n] = u[n]
      PROVE  TreeOf(t, d) = TreeOf(u, d)
  <2>1. \A n \in Listing(d) : n \in File \/ n \in Dir
    BY DEF Listing, Path
  <2>2. \A n \in Listing(d) : EntryOf(t, n) = EntryOf(u, n)
    BY <1>5, <2>1 DEF EntryOf
  <2>3. EntriesAt(t, d) = EntriesAt(u, d)
    BY <2>2 DEF EntriesAt
  <2>4. QED
    BY <2>3
<1> HIDE DEF TreeOf
<1>6. 0 \in S
  <2>1. Deep(0) = {}
    BY <1>3, <1>4
  <2>2. QED
    BY <2>1
<1>7. ASSUME NEW k \in Nat, k \in S PROVE k + 1 \in S
  <2>1. PICK t : \A d \in Deep(k) : t[d] = TreeOf(t, d)
    BY <1>7
  <2> DEFINE u == [d \in Dir |-> TreeOf(t, d)]
  <2>2. ASSUME NEW d \in Deep(k + 1) PROVE u[d] = TreeOf(u, d)
    <3>1. ASSUME NEW n \in Listing(d) \cap Dir PROVE t[n] = u[n]
      <4>1. n \in Dir \ {Root} /\ Parent[n] = d
        BY DEF Listing
      <4>2. n \in Deep(k)
        BY <1>2, <1>3, <1>4, <4>1
      <4>3. QED
        BY <2>1, <4>2
    <3> HIDE DEF u
    <3>2. TreeOf(t, d) = TreeOf(u, d)
      BY <1>5, <3>1
    <3>3. QED
      BY <3>2 DEF u
  <2> HIDE DEF u
  <2>3. QED
    BY <2>2
<1> HIDE DEF S
<1>8. K + 1 \in S
  BY <1>3, <1>6, <1>7, Induct
<1>9. PICK t : \A d \in Deep(K + 1) : t[d] = TreeOf(t, d)
  BY <1>8 DEF S
<1>10. \A d \in Dir : t[d] = TreeOf(t, d)
  <2>1. \A d \in Dir : d \in Deep(K + 1)
    BY <1>3, <1>4
  <2>2. QED
    BY <1>9, <2>1
<1> DEFINE u == [d \in Dir |-> t[d]]
<1>11. Fits(u)
  <2>1. \A d \in Dir : u[d] = t[d] /\ TreeOf(u, d) = TreeOf(t, d)
    BY <1>5
  <2>2. \A d \in Dir : u[d] = TreeOf(u, d)
    BY <1>10, <2>1
  <2> HIDE DEF u
  <2>3. u = [d \in Dir |-> u[d]]
    BY DEF u
  <2>4. QED
    BY <2>2, <2>3, <1>0
<1> HIDE DEF u
<1>12. \E v : Fits(v)
  BY <1>11
<1>13. Fits(TreeAt)
  BY <1>1, <1>12
<1>15. TreeAt = [d \in Dir |-> TreeOf(TreeAt, d)]
  BY <1>0, <1>13
<1>14. \A d \in Dir : TreeAt[d] = TreeOf(TreeAt, d)
  BY <1>15
<1>16. QED
  BY <1>14 DEF TreeOf

(* The leaves of a tree are its files and the leaves of its subtrees. *)
LeavesOf(l, o) ==
  IF o.type # "tree" THEN {}
  ELSE UNION {IF e.mode = "40000" THEN l[e.hash] ELSE {<<e.name, e.hash.content>>}
                : e \in o.entries}

LEMMA EntriesOfTrees ==
  \A o \in Object : o.type = "tree" => \A e \in o.entries : e.hash \in Object
BY RepositoryAssumption DEF Entry

LEMMA LeavesEquation == \A o \in Object : Leaves[o] = LeavesOf(Leaves, o)
<1> DEFINE U == UNION {{<<e.name, e.hash.content>> : e \in o.entries} : o \in Object}
           F == [Object -> SUBSET U]
           Closed(l) == \A o \in Object : LeavesOf(l, o) \subseteq l[o]
           least == [o \in Object |-> {x \in U : \A l \in F : Closed(l) => x \in l[o]}]
           Fits(l) == l = [o \in Object |-> LeavesOf(l, o)]
<1>1. Leaves = CHOOSE l : Fits(l)
  BY DEF Leaves, LeavesOf
<1>2. ASSUME NEW l \in F, NEW o \in Object PROVE LeavesOf(l, o) \subseteq U
  <2> SUFFICES ASSUME NEW x \in LeavesOf(l, o) PROVE x \in U
    OBVIOUS
  <2>1. o.type = "tree"
    BY DEF LeavesOf
  <2>2. PICK e \in o.entries :
          x \in IF e.mode = "40000" THEN l[e.hash] ELSE {<<e.name, e.hash.content>>}
    BY <2>1 DEF LeavesOf
  <2>3. CASE e.mode = "40000"
    <3>1. e.hash \in Object
      BY <2>1, EntriesOfTrees
    <3>2. QED
      BY <2>2, <2>3, <3>1
  <2>4. CASE e.mode # "40000"
    BY <2>2, <2>4
  <2>5. QED
    BY <2>3, <2>4
<1>3. ASSUME NEW l, NEW m, \A o \in Object : l[o] \subseteq m[o], NEW o \in Object
      PROVE  LeavesOf(l, o) \subseteq LeavesOf(m, o)
  <2> SUFFICES ASSUME NEW x \in LeavesOf(l, o) PROVE x \in LeavesOf(m, o)
    OBVIOUS
  <2>1. o.type = "tree"
    BY DEF LeavesOf
  <2>2. PICK e \in o.entries :
          x \in IF e.mode = "40000" THEN l[e.hash] ELSE {<<e.name, e.hash.content>>}
    BY <2>1 DEF LeavesOf
  <2>3. e.hash \in Object
    BY <2>1, EntriesOfTrees
  <2>4. x \in IF e.mode = "40000" THEN m[e.hash] ELSE {<<e.name, e.hash.content>>}
    BY <1>3, <2>2, <2>3
  <2>5. QED
    BY <2>1, <2>4 DEF LeavesOf
<1> HIDE DEF U
<1>4. least \in F
  OBVIOUS
<1>5. ASSUME NEW l \in F, Closed(l), NEW o \in Object PROVE least[o] \subseteq l[o]
  BY <1>5
<1>6. ASSUME NEW o \in Object PROVE LeavesOf(least, o) \subseteq least[o]
  <2> SUFFICES ASSUME NEW x \in LeavesOf(least, o) PROVE x \in least[o]
    OBVIOUS
  <2>1. x \in U
    BY <1>2, <1>4
  <2>2. ASSUME NEW l \in F, Closed(l) PROVE x \in l[o]
    <3>1. LeavesOf(least, o) \subseteq LeavesOf(l, o)
      BY <1>3, <1>5, <2>2
    <3>2. QED
      BY <2>2, <3>1
  <2>3. QED
    BY <2>1, <2>2
<1> DEFINE g == [o \in Object |-> LeavesOf(least, o)]
<1>7. g \in F
  BY <1>2, <1>4
<1>8. \A o \in Object : g[o] = LeavesOf(least, o)
  OBVIOUS
<1> HIDE DEF least, g, F
<1>9. Closed(g)
  BY <1>3, <1>6, <1>8
<1>10. \A o \in Object : least[o] = LeavesOf(least, o)
  BY <1>5, <1>6, <1>7, <1>8, <1>9
<1>11. Fits(least)
  <2>1. least = [o \in Object |-> least[o]]
    BY DEF least
  <2>2. QED
    BY <1>10, <2>1
<1>12. \E l : Fits(l)
  BY <1>11
<1> HIDE DEF Fits
<1>13. Fits(Leaves)
  BY <1>1, <1>12
<1>14. QED
  BY <1>13 DEF Fits

-----------------------------------------------------------------------------
(***************************************************************************)
(* The invariant of write-tree's walk.  Whatever a run has collected       *)
(* stands for files the working tree held during it; and as long as nobody *)
(* edits the working tree, the directories it has opened and not yet left  *)
(* are a chain from Root to the one it is in, and of every name in one of  *)
(* them it has the right entry, or has it still to come.                   *)
(***************************************************************************)
Walking(p) == at[p] \in {"walk", "reading", "blob", "tree"}

LeavesOfEntry(e) ==
  IF e.mode = "40000" THEN Leaves[e.hash] ELSE {<<e.name, e.hash.content>>}

EntryWasHeld(p, e) == \A leaf \in LeavesOfEntry(e) : WasHeld(p, leaf[1], leaf[2])

(* What has been read of the open file, and what it holds now. *)
ReadsHeld(p) ==
  /\ Opened(p) \in HeldBy(p, name[p])
  /\ \A i \in DOMAIN buffer[p] :
       \E h \in HeldBy(p, name[p]) : i \in DOMAIN h /\ buffer[p][i] = h[i]
  /\ name[p] \notin disturbed[p] =>
       \A i \in DOMAIN buffer[p] : i \in DOMAIN Opened(p) /\ buffer[p][i] = Opened(p)[i]

GatheredBy(p) ==
  /\ at[p] = "idle" => \A d \in Dir : entries[p][d] = {}
  /\ Walking(p) => Holds(work) \subseteq held[p]
  /\ \A d \in Dir : \A e \in entries[p][d] : EntryWasHeld(p, e)
  /\ at[p] = "reading" => ReadsHeld(p)
  /\ at[p] = "blob" => WasHeld(p, name[p], obj[p].content)
  /\ at[p] = "tree" => obj[p] = Tree(entries[p][dir[p]])

(* open: the directories of the frames of WriteTreeRecursive. *)
Chain(p, open) ==
  /\ Root \in open /\ dir[p] \in open
  /\ \A a \in open \ {Root} : Parent[a] \in open /\ Parent[a] # dir[p] /\ a \in Listing(Parent[a])
  /\ \A a, b \in open \ {Root} : Parent[a] = Parent[b] => a = b

InFrame(p, open, d) ==
  /\ left[p][d] \subseteq Listing(d)
  /\ entries[p][d] \subseteq EntriesAt(TreeAt, d)
  /\ \A n \in Listing(d) :
       \/ n \in left[p][d] \/ n \in open \/ EntryOf(TreeAt, n) \in entries[p][d]
       \/ at[p] \in {"reading", "blob"} /\ d = dir[p] /\ n = name[p]

Faithful(p, open) ==
  /\ Chain(p, open)
  /\ \A d \in open : InFrame(p, open, d)
  /\ disturbed[p] = {}
  /\ at[p] \in {"reading", "blob"} => name[p] \in Listing(dir[p]) \cap File
  /\ at[p] = "reading" => kept[p] = Absent
  /\ at[p] = "blob" => obj[p] = Blob(work[name[p]])
  /\ at[p] = "tree" => obj[p] = TreeAt[dir[p]]

Undisturbed(p) ==
  Walking(p) /\ p \notin edited => \E open \in SUBSET Dir : Faithful(p, open)

WalkInv(p) == GatheredBy(p) /\ Undisturbed(p)

SnapshotInv == \A p \in Proc : WalkInv(p)

(* While the working tree stays as it is, so does what should be stored. *)
LEMMA WorkKept ==
  ASSUME work' = work
  PROVE  /\ TreeAt' = TreeAt
         /\ \A d : Listing(d)' = Listing(d) /\ EntriesAt(TreeAt, d)' = EntriesAt(TreeAt, d)
         /\ \A n : EntryOf(TreeAt, n)' = EntryOf(TreeAt, n)
<1>1. TreeAt' = TreeAt
  BY SMT DEF TreeAt, Listing
<1>2. \A d : Listing(d)' = Listing(d)
  BY DEF Listing
<1>3. \A n : EntryOf(TreeAt, n)' = EntryOf(TreeAt, n)
  BY <1>1 DEF EntryOf
<1>4. \A d : EntriesAt(TreeAt, d)' = EntriesAt(TreeAt, d)
  BY <1>2, <1>3 DEF EntriesAt
<1>5. QED
  BY <1>1, <1>2, <1>3, <1>4

(* A run that takes no part in a step keeps its invariant. *)
Apart(p) ==
  /\ at'[p] = at[p] /\ dir'[p] = dir[p] /\ left'[p] = left[p] /\ entries'[p] = entries[p]
  /\ name'[p] = name[p] /\ buffer'[p] = buffer[p] /\ kept'[p] = kept[p]
  /\ obj'[p] = obj[p] /\ held'[p] = held[p] /\ disturbed'[p] = disturbed[p]
  /\ p \in edited' <=> p \in edited

LEMMA LeavesKept == \A e : LeavesOfEntry(e)' = LeavesOfEntry(e)
BY DEF LeavesOfEntry

(* What was held stays so, and so does what was collected of it. *)
LEMMA HeldKept ==
  ASSUME NEW p \in Proc, held[p] \subseteq held'[p], disturbed[p] \subseteq disturbed'[p]
  PROVE  /\ \A f : HeldBy(p, f) \subseteq HeldBy(p, f)'
         /\ \A f, c : WasHeld(p, f, c) => WasHeld(p, f, c)'
         /\ \A e : EntryWasHeld(p, e) => EntryWasHeld(p, e)'
<1>1. \A f : HeldBy(p, f) \subseteq HeldBy(p, f)'
  BY DEF HeldBy
<1>2. \A H, I : H \subseteq I => Reads(H) \subseteq Reads(I)
  BY DEF Reads
<1>3. ASSUME NEW f, NEW c \in HeldBy(p, f) PROVE c \in Reads(HeldBy(p, f)')
  <2>1. c \in Text /\ c \in HeldBy(p, f)'
    BY <1>1, <1>3, RepositoryAssumption DEF HeldBy
  <2>2. Len(c) <= Len(c)
    BY <2>1, TextType, RepositoryAssumption
  <2>3. QED
    BY <2>1, <2>2 DEF Reads
<1>4. \A f, c : WasHeld(p, f, c) => WasHeld(p, f, c)'
  BY <1>1, <1>2, <1>3 DEF WasHeld
<1>5. \A e : EntryWasHeld(p, e) => EntryWasHeld(p, e)'
  BY <1>4, LeavesKept DEF EntryWasHeld
<1>6. QED
  BY <1>1, <1>4, <1>5

LEMMA ApartKept ==
  ASSUME work' = work, NEW p \in Proc, Apart(p), WalkInv(p) PROVE WalkInv(p)'
<1>1. GatheredBy(p)'
  <2>1. \A d \in Dir : \A e \in entries'[p][d] : EntryWasHeld(p, e)'
    BY HeldKept DEF GatheredBy, WalkInv, Apart
  <2>2. \A f, c : WasHeld(p, f, c) => WasHeld(p, f, c)'
    BY HeldKept DEF Apart
  <2>3. ReadsHeld(p) => ReadsHeld(p)'
    BY DEF ReadsHeld, Opened, HeldBy, Apart
  <2>4. GatheredBy(p) /\ Holds(work)' = Holds(work)
    BY DEF WalkInv, Holds
  <2>5. QED
    BY <2>1, <2>2, <2>3, <2>4 DEF GatheredBy, Walking, Apart
<1>2. ASSUME NEW open \in SUBSET Dir, Faithful(p, open) PROVE Faithful(p, open)'
  <2>1. Chain(p, open)'
    BY <1>2, WorkKept DEF Apart, Faithful, Chain
  <2>2. ASSUME NEW d \in open PROVE InFrame(p, open, d)'
    BY <1>2, <2>2, WorkKept DEF Apart, Faithful, InFrame
  <2>3. QED
    BY <1>2, <2>1, <2>2, WorkKept DEF Apart, Faithful
<1>3. Undisturbed(p)'
  BY <1>2 DEF Undisturbed, WalkInv, Walking, Apart
<1>4. QED
  BY <1>1, <1>3 DEF WalkInv

(* So does one that does not walk and collects nothing. *)
LEMMA ElsewhereKept ==
  ASSUME NEW p \in Proc, WalkInv(p), entries'[p] = entries[p],
         held'[p] = held[p], disturbed'[p] = disturbed[p],
         at'[p] \notin {"idle", "walk", "reading", "blob", "tree"}
  PROVE  WalkInv(p)'
<1>1. GatheredBy(p)'
  BY HeldKept DEF GatheredBy, Walking, WalkInv
<1>2. QED
  BY <1>1 DEF WalkInv, Undisturbed, Walking

-----------------------------------------------------------------------------
(* One lemma for each step of the walk.                                    *)
WalkTypes == TypeOK /\ SnapshotInv

LEMMA WriteTreeWalks ==
  ASSUME WalkTypes, NEW p \in Proc, WriteTree(p) PROVE WalkInv(p)'
<1>a. CommandTypeOK /\ WatchTypeOK /\ WalkInv(p) /\ Root \in Dir
  BY RepositoryAssumption DEF WalkTypes, TypeOK, SnapshotInv
<1>1. /\ at[p] = "idle" /\ at'[p] = "walk" /\ dir'[p] = Root /\ work' = work
      /\ held'[p] = Holds(work) /\ p \notin edited' /\ disturbed'[p] = {}
      /\ left'[p][Root] = Listing(Root) /\ \A d \in Dir : entries'[p][d] = {}
  BY <1>a DEF WriteTree, Enter, GoTo, CommandTypeOK, WatchTypeOK, WalkInv, GatheredBy, files
<1>2. GatheredBy(p)'
  BY <1>1 DEF GatheredBy, Walking, Holds
<1>3. Faithful(p, {Root})'
  <2>1. Chain(p, {Root})'
    BY <1>1 DEF Chain
  <2>2. InFrame(p, {Root}, Root)'
    BY <1>1, <1>a, WorkKept DEF InFrame
  <2>3. QED
    BY <1>1, <2>1, <2>2 DEF Faithful
<1>4. QED
  BY <1>2, <1>3, <1>a DEF WalkInv, Undisturbed

LEMMA WalkDirWalks ==
  ASSUME WalkTypes, NEW p \in Proc, NEW n \in Path, WalkDir(p, n) PROVE WalkInv(p)'
<1>a. CommandTypeOK /\ WalkInv(p) /\ p \in Proc
  BY DEF WalkTypes, TypeOK, SnapshotInv
<1>b. /\ UNCHANGED <<work, obj, held, edited, disturbed>>
      /\ at[p] = "walk" /\ n \in left[p][dir[p]] \cap Dir
  BY DEF WalkDir, storeVars, call, watch, files
<1>1. CASE Fail(p, "io_error") /\ UNCHANGED walk
  <2>1. at'[p] = "exit" /\ entries'[p] = entries[p] /\ held'[p] = held[p] /\ disturbed'[p] = disturbed[p]
    BY <1>1, <1>a, <1>b DEF Fail, Exit, GoTo, walk, CommandTypeOK
  <2>2. QED
    BY <2>1, <1>a, ElsewhereKept
<1>2. CASE Enter(p, n, [left[p] EXCEPT ![dir[p]] = @ \ {n}]) /\ UNCHANGED <<at, out>>
  <2>1. PICK d \in Dir : d = dir[p]
    BY <1>a DEF CommandTypeOK
  <2>2. /\ at'[p] = "walk" /\ dir'[p] = n /\ held'[p] = held[p]
        /\ entries'[p][n] = {} /\ \A e \in Dir \ {n} : entries'[p][e] = entries[p][e]
    BY <1>2, <1>a, <1>b DEF Enter, CommandTypeOK
  <2>3. left'[p] = [[left[p] EXCEPT ![d] = @ \ {n}] EXCEPT ![n] = Listing(n)]
    BY <1>2, <1>a, <2>1 DEF Enter, CommandTypeOK
  <2>4. left[p] \in [Dir -> SUBSET Path]
    BY <1>a DEF CommandTypeOK
  <2>5. /\ left'[p][n] = Listing(n)
        /\ n # d => left'[p][d] = left[p][d] \ {n}
        /\ \A e \in Dir \ {n, d} : left'[p][e] = left[p][e]
    BY <1>b, <2>3, <2>4
  <2>6. GatheredBy(p)'
    BY <1>a, <1>b, <2>2, HeldKept DEF GatheredBy, Walking, WalkInv, Holds
  <2>7. ASSUME NEW open \in SUBSET Dir, Faithful(p, open) PROVE Faithful(p, open \cup {n})'
    <3>1. n \in Listing(d) /\ n # Root /\ Parent[n] = d
      BY <1>b, <2>1, <2>7 DEF Faithful, Chain, InFrame, Listing
    <3>2. n \notin open /\ d \in open /\ n # d
      BY <2>1, <2>7, <3>1 DEF Faithful, Chain
    <3>3. Chain(p, open \cup {n})'
      <4>1. \A a \in (open \cup {n}) \ {Root} :
              Parent[a] \in open /\ Parent[a] # n /\ a \in Listing(Parent[a])
        BY <2>7, <3>1, <3>2 DEF Faithful, Chain
      <4>2. \A a, b \in (open \cup {n}) \ {Root} : Parent[a] = Parent[b] => a = b
        BY <2>1, <2>7, <3>1, <3>2 DEF Faithful, Chain
      <4>3. Root \in open \cup {n} /\ dir'[p] = n
        BY <2>2, <2>7 DEF Faithful, Chain
      <4>4. QED
        BY <1>b, <4>1, <4>2, <4>3, WorkKept DEF Chain
    <3>4. InFrame(p, open \cup {n}, n)'
      BY <1>b, <2>2, <2>5, WorkKept DEF InFrame
    <3>5. ASSUME NEW e \in open PROVE InFrame(p, open \cup {n}, e)'
      <4>1. e \in Dir /\ e # n /\ InFrame(p, open, e)
        BY <2>7, <3>2 DEF Faithful
      <4>2. entries'[p][e] = entries[p][e] /\ left'[p][e] = left[p][e] \ (IF e = d THEN {n} ELSE {})
        BY <2>2, <2>5, <3>2, <4>1
      <4>3. QED
        BY <1>b, <2>2, <4>1, <4>2, WorkKept DEF InFrame
    <3>6. QED
      BY <1>b, <2>2, <2>7, <3>3, <3>4, <3>5 DEF Faithful
  <2>8. Undisturbed(p)'
    <3>1. \A open \in SUBSET Dir : open \cup {n} \in SUBSET Dir
      BY <1>b
    <3>2. QED
      BY <1>a, <1>b, <2>7, <3>1 DEF Undisturbed, WalkInv, Walking
  <2>9. QED
    BY <2>6, <2>8 DEF WalkInv
<1>3. QED
  BY <1>1, <1>2 DEF WalkDir

LEMMA WalkFileWalks ==
  ASSUME WalkTypes, NEW p \in Proc, NEW n \in Path, WalkFile(p, n) PROVE WalkInv(p)'
<1>a. CommandTypeOK /\ WatchTypeOK /\ WalkInv(p)
  BY DEF WalkTypes, TypeOK, SnapshotInv
<1>b. /\ UNCHANGED <<work, held, edited, disturbed>> /\ at[p] = "walk"
      /\ n \in left[p][dir[p]] \cap File /\ n \notin Dir
  BY RepositoryAssumption DEF WalkFile, watch
<1>1. CASE Fail(p, "io_error") /\ UNCHANGED <<kept, left, name, buffer>>
  <2>1. at'[p] = "exit" /\ entries'[p] = entries[p]
    BY <1>1, <1>a, <1>b DEF WalkFile, Fail, Exit, GoTo, CommandTypeOK
  <2>2. QED
    BY <2>1, <1>a, <1>b, ElsewhereKept
<1>2. CASE OpenFile(p, n, "reading") /\ left' = [left EXCEPT ![p][dir[p]] = @ \ {n}]
  <2>1. PICK d \in Dir : d = dir[p]
    BY <1>a DEF CommandTypeOK
  <2>2. /\ at'[p] = "reading" /\ dir'[p] = d /\ name'[p] = n /\ buffer'[p] = << >>
        /\ entries'[p] = entries[p] /\ left'[p][d] = left[p][d] \ {n}
        /\ \A e \in Dir \ {d} : left'[p][e] = left[p][e]
    BY <1>2, <1>a, <1>b, <2>1 DEF WalkFile, OpenFile, GoTo, CommandTypeOK
  <2>3. kept'[p] = Absent
    BY <1>2, <1>b DEF OpenFile, WalkTypes, TypeOK, OpenFilesOK, Reading
  <2>4. work[n] \in HeldBy(p, n)
    <3>1. work[n] \in Content
      BY <1>2, <1>a, <1>b DEF OpenFile, WatchTypeOK
    <3>2. QED
      BY <1>a, <1>b, <3>1 DEF WalkInv, GatheredBy, Walking, Holds, HeldBy
  <2>5. ReadsHeld(p)'
    <3>1. Opened(p)' = work[n] /\ HeldBy(p, n)' = HeldBy(p, n)
      BY <1>b, <2>2, <2>3 DEF Opened, HeldBy
    <3>2. DOMAIN << >> = {}
      OBVIOUS
    <3>3. QED
      BY <2>2, <2>4, <3>1, <3>2 DEF ReadsHeld, HeldBy
  <2>6. GatheredBy(p)'
    <3>1. \A d2 \in Dir : \A e \in entries'[p][d2] : EntryWasHeld(p, e)'
      BY <1>a, <1>b, <2>2, HeldKept DEF GatheredBy, WalkInv
    <3>2. Holds(work)' \subseteq held'[p]
      BY <1>a, <1>b DEF GatheredBy, Walking, WalkInv, Holds
    <3>3. QED
      BY <2>2, <2>5, <3>1, <3>2 DEF GatheredBy
  <2>7. ASSUME NEW open \in SUBSET Dir, Faithful(p, open) PROVE Faithful(p, open)'
    <3>1. n \in Listing(d)
      BY <1>b, <2>1, <2>7 DEF Faithful, Chain, InFrame
    <3>2. Chain(p, open)'
      BY <1>b, <2>1, <2>2, <2>7, WorkKept DEF Faithful, Chain
    <3>3. ASSUME NEW e \in open PROVE InFrame(p, open, e)'
      <4>1. InFrame(p, open, e) /\ left'[p][e] = left[p][e] \ (IF e = d THEN {n} ELSE {})
        BY <2>2, <2>7 DEF Faithful
      <4>2. QED
        BY <1>b, <2>1, <2>2, <4>1, WorkKept DEF InFrame
    <3>4. QED
      BY <1>b, <2>2, <2>3, <2>7, <3>1, <3>2, <3>3, WorkKept DEF Faithful
  <2>8. Undisturbed(p)'
    BY <1>a, <1>b, <2>7 DEF Undisturbed, WalkInv, Walking
  <2>9. QED
    BY <2>6, <2>8 DEF WalkInv
<1>3. QED
  BY <1>1, <1>2 DEF WalkFile

(* Every piece comes from what the file holds when it is read. *)
LEMMA FilePieceWalks ==
  ASSUME WalkTypes, NEW p \in Proc, FilePiece(p) PROVE WalkInv(p)'
<1>a. CommandTypeOK /\ WatchTypeOK /\ WalkInv(p) /\ Opened(p) \in Content
  BY DEF FilePiece, WalkTypes, TypeOK, SnapshotInv, OpenFilesOK
<1>b. UNCHANGED <<storeVars, files, at, dir, left, entries, name, watch>> /\ at[p] \in Reading
  BY DEF FilePiece
<1>c. UNCHANGED <<work, kept, held, edited, disturbed, obj>>
  BY <1>b DEF files, watch, storeVars, call
<1>1. CASE at[p] = "hashing"
  BY <1>1, <1>a, <1>b, <1>c, ElsewhereKept
<1>2. CASE at[p] = "reading"
  <2>1. PICK c \in Content : c = Opened(p)
    BY <1>a
  <2>2. Opened(p)' = c
    BY <1>b, <1>c, <2>1 DEF Opened
  <2>3. /\ buffer[p] \in Text /\ c \in Text /\ Len(buffer[p]) + 1 <= Len(c)
        /\ buffer'[p] = Append(buffer[p], c[Len(buffer[p]) + 1])
    BY <1>a, <2>1, RepositoryAssumption DEF FilePiece, CommandTypeOK
  <2>4. \A i \in DOMAIN buffer'[p] : (i \in DOMAIN buffer[p] /\ buffer'[p][i] = buffer[p][i])
                                    \/ (i \in DOMAIN c /\ buffer'[p][i] = c[i])
    BY <2>3, PieceIsRead
  <2>5. ReadsHeld(p)
    BY <1>2, <1>a DEF WalkInv, GatheredBy
  <2>6. ReadsHeld(p)'
    <3>1. \A f : HeldBy(p, f)' = HeldBy(p, f)
      BY <1>c DEF HeldBy
    <3>2. c \in HeldBy(p, name[p])
      BY <2>1, <2>5 DEF ReadsHeld
    <3>3. \A i \in DOMAIN buffer'[p] :
            \E h \in HeldBy(p, name[p]) : i \in DOMAIN h /\ buffer'[p][i] = h[i]
      BY <2>4, <2>5, <3>2 DEF ReadsHeld
    <3>4. name[p] \notin disturbed[p] =>
            \A i \in DOMAIN buffer'[p] : i \in DOMAIN c /\ buffer'[p][i] = c[i]
      BY <2>1, <2>4, <2>5 DEF ReadsHeld
    <3>5. QED
      BY <1>b, <1>c, <2>2, <3>1, <3>2, <3>3, <3>4 DEF ReadsHeld
  <2>7. GatheredBy(p)'
    <3>1. \A d2 \in Dir : \A e \in entries'[p][d2] : EntryWasHeld(p, e)'
      BY <1>a, <1>b, <1>c, HeldKept DEF GatheredBy, WalkInv
    <3>2. Holds(work)' \subseteq held'[p]
      BY <1>2, <1>a, <1>c DEF GatheredBy, Walking, WalkInv, Holds
    <3>3. QED
      BY <1>2, <1>b, <2>6, <3>1, <3>2 DEF GatheredBy
  <2>8. ASSUME NEW open \in SUBSET Dir, Faithful(p, open) PROVE Faithful(p, open)'
    <3>1. Chain(p, open)'
      BY <1>b, <1>c, <2>8, WorkKept DEF Faithful, Chain
    <3>2. ASSUME NEW e \in open PROVE InFrame(p, open, e)'
      BY <1>b, <1>c, <2>8, WorkKept DEF Faithful, InFrame
    <3>3. QED
      BY <1>2, <1>b, <1>c, <2>8, <3>1, <3>2, WorkKept DEF Faithful
  <2>9. Undisturbed(p)'
    BY <1>2, <1>a, <1>b, <1>c, <2>8 DEF Undisturbed, WalkInv, Walking
  <2>10. QED
    BY <2>7, <2>9 DEF WalkInv
<1>3. QED
  BY <1>1, <1>2, <1>b DEF Reading

LEMMA FileEndWalks ==
  ASSUME WalkTypes, NEW p \in Proc, FileEnd(p) PROVE WalkInv(p)'
<1>a. /\ StoreTypeOK /\ CommandTypeOK /\ WatchTypeOK /\ WalkInv(p)
      /\ Opened(p) \in Content /\ name[p] \in File
  BY DEF FileEnd, WalkTypes, TypeOK, SnapshotInv, OpenFilesOK
<1>b. /\ UNCHANGED <<work, walk, watch>> /\ at[p] \in Reading
      /\ Len(Opened(p)) <= Len(buffer[p])
  BY DEF FileEnd
<1>c. UNCHANGED <<dir, left, entries, name, buffer, held, edited, disturbed>>
  BY <1>b DEF walk, watch
<1>1. /\ at'[p] = (IF at[p] = "hashing" THEN "hash" ELSE "blob")
      /\ obj'[p] = Blob(buffer[p])
  BY <1>a, CallEffects DEF FileEnd, GoTo, CommandTypeOK
<1>2. CASE at[p] = "hashing"
  BY <1>1, <1>2, <1>a, <1>c, ElsewhereKept
<1>3. CASE at[p] = "reading"
  <2>1. PICK c \in Content : c = Opened(p)
    BY <1>a
  <2>2. PICK b \in Text : b = buffer[p]
    BY <1>a DEF CommandTypeOK
  <2>3. PICK f \in File : f = name[p]
    BY <1>a
  <2>4. c \in Text /\ Len(c) <= Len(b)
    BY <1>b, <2>1, <2>2, RepositoryAssumption
  <2>5. ReadsHeld(p)
    BY <1>3, <1>a DEF WalkInv, GatheredBy
  (* All that was read is what the file holds, unless it was overwritten. *)
  <2>6. f \notin disturbed[p] => b = c
    <3> HAVE f \notin disturbed[p]
    <3>1. \A i \in DOMAIN b : i \in DOMAIN c /\ b[i] = c[i]
      BY <2>1, <2>2, <2>3, <2>5 DEF ReadsHeld
    <3>2. QED
      BY <2>4, <3>1, WholeIsRead
  <2>7. WasHeld(p, f, b)
    <3>1. c \in HeldBy(p, f)
      BY <2>1, <2>3, <2>5 DEF ReadsHeld
    <3>2. b \in Reads(HeldBy(p, f))
      BY <2>2, <2>3, <2>4, <2>5, <3>1 DEF ReadsHeld, Reads
    <3>3. QED
      BY <2>6, <3>1, <3>2 DEF WasHeld
  <2>8. GatheredBy(p)'
    <3>1. \A d2 \in Dir : \A e \in entries'[p][d2] : EntryWasHeld(p, e)'
      BY <1>a, <1>c, HeldKept DEF GatheredBy, WalkInv
    <3>2. Holds(work)' \subseteq held'[p]
      BY <1>3, <1>a, <1>b, <1>c DEF GatheredBy, Walking, WalkInv, Holds
    <3>3. WasHeld(p, f, b)'
      BY <1>c, <2>7, HeldKept
    <3>4. at'[p] = "blob" /\ name'[p] = f /\ obj'[p].content = b
      BY <1>1, <1>3, <1>c, <2>2, <2>3 DEF Blob
    <3>5. QED
      BY <3>1, <3>2, <3>3, <3>4 DEF GatheredBy
  <2>9. ASSUME NEW open \in SUBSET Dir, Faithful(p, open) PROVE Faithful(p, open)'
    <3>1. Chain(p, open)'
      BY <1>b, <1>c, <2>9, WorkKept DEF Faithful, Chain
    <3>2. ASSUME NEW e \in open PROVE InFrame(p, open, e)'
      BY <1>1, <1>3, <1>b, <1>c, <2>9, <3>2, WorkKept DEF Faithful, InFrame
    <3>3. obj'[p] = Blob(work[f])
      <4>1. f \notin disturbed[p] /\ c = work[f]
        BY <1>3, <2>1, <2>3, <2>9 DEF Faithful, Opened
      <4>2. QED
        BY <1>1, <2>2, <2>6, <4>1
    <3>4. QED
      BY <1>1, <1>3, <1>b, <1>c, <2>3, <2>9, <3>1, <3>2, <3>3, WorkKept DEF Faithful
  <2>10. Undisturbed(p)'
    BY <1>3, <1>a, <1>c, <2>9 DEF Undisturbed, WalkInv, Walking
  <2>11. QED
    BY <2>8, <2>10 DEF WalkInv
<1>4. QED
  BY <1>2, <1>3, <1>b DEF Reading

LEMMA BlobStoredWalks ==
  ASSUME WalkTypes, NEW p \in Proc, BlobStored(p) PROVE WalkInv(p)'
<1>a. CommandTypeOK /\ WalkInv(p)
  BY DEF WalkTypes, TypeOK, SnapshotInv
<1>b. UNCHANGED <<work, held, edited, disturbed>> /\ at[p] = "blob"
  BY DEF BlobStored, watch, files
<1>1. CASE Fail(p, res[p]) /\ UNCHANGED entries
  <2>1. at'[p] = "exit" /\ entries'[p] = entries[p] /\ held'[p] = held[p] /\ disturbed'[p] = disturbed[p]
    BY <1>1, <1>a, <1>b DEF Fail, Exit, GoTo, CommandTypeOK
  <2>2. QED
    BY <2>1, <1>a, ElsewhereKept
<1>2. CASE /\ GoTo(p, "walk")
           /\ entries' = [entries EXCEPT ![p][dir[p]] =
                            @ \cup {TreeEntry("100644", name[p], obj[p])}]
  <2>1. PICK d \in Dir : d = dir[p]
    BY <1>a DEF CommandTypeOK
  <2>2. PICK n \in Path : n = name[p]
    BY <1>a DEF CommandTypeOK
  <2>0. PICK o : o = obj[p]
    OBVIOUS
  <2> DEFINE e == TreeEntry("100644", n, o)
  <2>3. /\ at'[p] = "walk" /\ dir'[p] = d /\ held'[p] = held[p] /\ left'[p] = left[p]
        /\ entries'[p][d] = entries[p][d] \cup {e}
        /\ \A x \in Dir \ {d} : entries'[p][x] = entries[p][x]
    BY <1>2, <1>a, <1>b, <2>1, <2>0, <2>2 DEF BlobStored, GoTo, CommandTypeOK
  <2>4. EntryWasHeld(p, e)
    <3>1. LeavesOfEntry(e) = {<<n, o.content>>}
      BY DEF LeavesOfEntry, TreeEntry
    <3>2. QED
      BY <1>a, <1>b, <2>0, <2>2, <3>1 DEF WalkInv, GatheredBy, EntryWasHeld
  <2> HIDE DEF e
  <2>5. GatheredBy(p)'
    <3>1. \A x \in Dir : \A y \in entries'[p][x] : EntryWasHeld(p, y)
      BY <1>a, <2>3, <2>4 DEF GatheredBy, WalkInv
    <3>2. \A x \in Dir : \A y \in entries'[p][x] : EntryWasHeld(p, y)'
      BY <1>b, <3>1, HeldKept
    <3>3. Holds(work)' \subseteq held'[p]
      BY <1>a, <1>b DEF GatheredBy, Walking, WalkInv, Holds
    <3>4. QED
      BY <2>3, <3>2, <3>3 DEF GatheredBy
  <2>6. ASSUME NEW open \in SUBSET Dir, Faithful(p, open) PROVE Faithful(p, open)'
    <3>1. n \in Listing(d) /\ EntryOf(TreeAt, n) = e
      BY <1>b, <2>1, <2>0, <2>2, <2>6 DEF Faithful, EntryOf, e
    <3>2. Chain(p, open)'
      BY <1>b, <2>1, <2>3, <2>6, WorkKept DEF Faithful, Chain
    <3>3. ASSUME NEW x \in open PROVE InFrame(p, open, x)'
      <4>1. InFrame(p, open, x) /\ entries'[p][x] = entries[p][x] \cup (IF x = d THEN {e} ELSE {})
        BY <2>3, <2>6 DEF Faithful
      <4>2. e \in EntriesAt(TreeAt, d)
        BY <3>1 DEF EntriesAt
      <4>3. QED
        BY <1>b, <2>1, <2>0, <2>2, <2>3, <3>1, <4>1, <4>2, WorkKept DEF InFrame
    <3>4. QED
      BY <1>b, <2>3, <2>6, <3>2, <3>3 DEF Faithful
  <2>7. Undisturbed(p)'
    BY <1>a, <1>b, <2>6 DEF Undisturbed, WalkInv, Walking
  <2>8. QED
    BY <2>5, <2>7 DEF WalkInv
<1>3. QED
  BY <1>1, <1>2 DEF BlobStored

LEMMA WalkEndWalks ==
  ASSUME WalkTypes, NEW p \in Proc, WalkEnd(p) PROVE WalkInv(p)'
<1>a. StoreTypeOK /\ CommandTypeOK /\ WalkInv(p)
  BY DEF WalkTypes, TypeOK, SnapshotInv
<1>b. /\ UNCHANGED <<work, held, edited, disturbed, walk>>
      /\ at[p] = "walk" /\ left[p][dir[p]] = {}
  BY DEF WalkEnd, watch, files
<1>1. at'[p] = "tree" /\ obj'[p] = Tree(entries[p][dir[p]])
  BY <1>a, CallEffects DEF WalkEnd, GoTo, CommandTypeOK
<1>2. UNCHANGED <<dir, left, entries, name>>
  BY <1>b DEF walk
<1>3. GatheredBy(p)'
  BY <1>a, <1>b, <1>1, <1>2, HeldKept DEF GatheredBy, Walking, WalkInv, Holds
<1>4. ASSUME NEW open \in SUBSET Dir, Faithful(p, open) PROVE Faithful(p, open)'
  <2>1. PICK d \in Dir : d = dir[p]
    BY <1>a DEF CommandTypeOK
  (* None of its names is open, so that the entries of all have been collected. *)
  <2>2. \A n \in Listing(d) : n \notin open
    BY <1>4, <2>1 DEF Faithful, Chain, Listing
  <2>3. InFrame(p, open, d)
    BY <1>4, <2>1 DEF Faithful, Chain
  <2>4. \A n \in Listing(d) : EntryOf(TreeAt, n) \in entries[p][d]
    BY <1>b, <2>1, <2>2, <2>3 DEF InFrame
  <2>5. entries[p][d] = EntriesAt(TreeAt, d)
    BY <2>3, <2>4 DEF InFrame, EntriesAt
  <2>6. obj'[p] = TreeAt[d]
    BY <1>1, <2>1, <2>5, TreeAtEquation
  <2>7. Chain(p, open)'
    BY <1>4, <1>b, <1>2, WorkKept DEF Faithful, Chain
  <2>8. ASSUME NEW x \in open PROVE InFrame(p, open, x)'
    <3>1. InFrame(p, open, x)
      BY <1>4 DEF Faithful
    <3>2. QED
      BY <1>b, <1>1, <1>2, <3>1, WorkKept DEF InFrame
  <2>9. QED
    BY <1>4, <1>b, <1>1, <1>2, <2>1, <2>6, <2>7, <2>8, WorkKept DEF Faithful
<1>5. Undisturbed(p)'
  BY <1>a, <1>b, <1>4 DEF Undisturbed, WalkInv, Walking
<1>6. QED
  BY <1>3, <1>5 DEF WalkInv

(* The leaves of the tree that is being stored were held. *)
LEMMA TreeLeaves ==
  ASSUME WalkTypes, NEW p \in Proc, at[p] = "tree"
  PROVE  \A leaf \in Leaves[obj[p]] : WasHeld(p, leaf[1], leaf[2])
<1>1. obj[p] \in Object /\ dir[p] \in Dir /\ WalkInv(p)
  BY DEF WalkTypes, TypeOK, CommandTypeOK, CallsMatchCommands, SnapshotInv
<1>2. obj[p].type = "tree" /\ obj[p].entries = entries[p][dir[p]]
  BY <1>1 DEF WalkInv, GatheredBy, Tree
<1>3. Leaves[obj[p]] = UNION {LeavesOfEntry(e) : e \in entries[p][dir[p]]}
  BY <1>1, <1>2, LeavesEquation DEF LeavesOf, LeavesOfEntry
<1>4. \A e \in entries[p][dir[p]] : EntryWasHeld(p, e)
  BY <1>1 DEF WalkInv, GatheredBy
<1>5. QED
  BY <1>3, <1>4 DEF EntryWasHeld

LEMMA TreeStoredWalks ==
  ASSUME WalkTypes, NEW p \in Proc, TreeStored(p) PROVE WalkInv(p)'
<1>a. CommandTypeOK /\ WalkInv(p) /\ p \in Proc
  BY DEF WalkTypes, TypeOK, SnapshotInv
<1>b. UNCHANGED <<work, held, edited, disturbed, left, name>> /\ at[p] = "tree"
  BY DEF TreeStored, watch, files
<1>1. CASE GoTo(p, "exit") /\ UNCHANGED entries
  <2>1. at'[p] = "exit" /\ entries'[p] = entries[p] /\ held'[p] = held[p] /\ disturbed'[p] = disturbed[p]
    BY <1>1, <1>a, <1>b DEF GoTo, CommandTypeOK
  <2>2. QED
    BY <2>1, <1>a, ElsewhereKept
<1>2. CASE /\ dir[p] # Root /\ GoTo(p, "walk")
           /\ dir' = [dir EXCEPT ![p] = Parent[dir[p]]]
           /\ entries' = [entries EXCEPT ![p][Parent[dir[p]]] =
                            @ \cup {TreeEntry("40000", dir[p], obj[p])}]
  <2>1. PICK d \in Dir : d = dir[p]
    BY <1>a DEF CommandTypeOK
  <2>2. PICK u \in Dir : u = Parent[d]
    BY <1>2, <2>1, RepositoryAssumption DEF Path
  <2>3. PICK o : o = obj[p]
    OBVIOUS
  <2> DEFINE e == TreeEntry("40000", d, o)
  <2>4. /\ at'[p] = "walk" /\ dir'[p] = u /\ held'[p] = held[p] /\ left'[p] = left[p]
        /\ entries'[p][u] = entries[p][u] \cup {e}
        /\ \A x \in Dir \ {u} : entries'[p][x] = entries[p][x]
    BY <1>2, <1>a, <1>b, <2>1, <2>2, <2>3 DEF GoTo, CommandTypeOK
  <2>5. EntryWasHeld(p, e)
    <3>1. LeavesOfEntry(e) = Leaves[o]
      BY DEF LeavesOfEntry, TreeEntry
    <3>2. QED
      BY <1>b, <2>3, <3>1, TreeLeaves DEF EntryWasHeld
  <2> HIDE DEF e
  <2>6. GatheredBy(p)'
    <3>1. \A x \in Dir : \A y \in entries'[p][x] : EntryWasHeld(p, y)
      BY <1>a, <2>4, <2>5 DEF GatheredBy, WalkInv
    <3>2. \A x \in Dir : \A y \in entries'[p][x] : EntryWasHeld(p, y)'
      BY <1>b, <3>1, HeldKept
    <3>3. Holds(work)' \subseteq held'[p]
      BY <1>a, <1>b DEF GatheredBy, Walking, WalkInv, Holds
    <3>4. QED
      BY <2>4, <3>2, <3>3 DEF GatheredBy
  <2>7. ASSUME NEW open \in SUBSET Dir, Faithful(p, open) PROVE Faithful(p, open \ {d})'
    <3>1. /\ d \in open /\ d # Root /\ u \in open \ {d} /\ d \in Listing(u)
          /\ \A a \in open \ {Root} :
               Parent[a] \in open /\ Parent[a] # d /\ a \in Listing(Parent[a])
          /\ \A a, b \in open \ {Root} : Parent[a] = Parent[b] => a = b
      BY <1>2, <2>1, <2>2, <2>7 DEF Faithful, Chain
    <3>2. Chain(p, open \ {d})'
      <4>1. Root \in open \ {d}
        BY <3>1, <2>7 DEF Faithful, Chain
      <4>2. \A a \in (open \ {d}) \ {Root} :
              Parent[a] \in open \ {d} /\ Parent[a] # u /\ a \in Listing(Parent[a])
        BY <2>2, <3>1
      <4>3. QED
        BY <1>b, <2>4, <3>1, <4>1, <4>2, WorkKept DEF Chain
    <3>3. EntryOf(TreeAt, d) = e
      <4>1. d \notin File
        BY RepositoryAssumption
      <4>2. o = TreeAt[d]
        BY <1>b, <2>1, <2>3, <2>7 DEF Faithful
      <4>3. QED
        BY <4>1, <4>2 DEF EntryOf, e
    <3>4. ASSUME NEW x \in open \ {d} PROVE InFrame(p, open \ {d}, x)'
      <4>1. InFrame(p, open, x) /\ entries'[p][x] = entries[p][x] \cup (IF x = u THEN {e} ELSE {})
        BY <2>4, <2>7 DEF Faithful
      <4>2. e \in EntriesAt(TreeAt, u)
        BY <3>1, <3>3 DEF EntriesAt
      <4>3. d \in Listing(x) => x = u
        BY <2>2 DEF Listing
      <4>4. QED
        BY <1>b, <2>4, <3>3, <4>1, <4>2, <4>3, WorkKept DEF InFrame
    <3>5. QED
      BY <1>b, <2>4, <2>7, <3>2, <3>4 DEF Faithful
  <2>8. Undisturbed(p)'
    <3>1. \A open \in SUBSET Dir : open \ {d} \in SUBSET Dir
      OBVIOUS
    <3>2. QED
      BY <1>a, <1>b, <2>7, <3>1 DEF Undisturbed, WalkInv, Walking
  <2>9. QED
    BY <2>6, <2>8 DEF WalkInv
<1>3. QED
  BY <1>1, <1>2 DEF TreeStored, Fail, Exit

LEMMA SnapshotInvStep == TypeOK /\ SnapshotInv /\ [Next]_vars => SnapshotInv'
<1> SUFFICES ASSUME WalkTypes, [Next]_vars PROVE SnapshotInv'
  BY DEF WalkTypes
<1>a. StoreTypeOK /\ CommandTypeOK /\ WatchTypeOK /\ SnapshotInv
  BY DEF WalkTypes, TypeOK
<1>b. \A p \in Proc : WalkInv(p)
  BY <1>a DEF SnapshotInv
(* What is left to show of a step of p. *)
<1>c. ASSUME NEW p \in Proc, work' = work, \A q \in Proc \ {p} : Apart(q), WalkInv(p)'
      PROVE  SnapshotInv'
  BY <1>b, <1>c, ApartKept DEF SnapshotInv
<1>1. ASSUME NEW p \in Proc, Start(p) PROVE SnapshotInv'
  <2>1. ASSUME NEW f \in File, HashObject(p, f) PROVE SnapshotInv'
    <3>1. /\ work' = work /\ UNCHANGED <<kept, dir, left, entries, watch, obj>>
          /\ at'[p] \in {"exit", "hashing"} /\ \A q \in Proc \ {p} : at'[q] = at[q]
      BY <2>1, <1>a DEF HashObject, OpenFile, Fail, Exit, GoTo, CommandTypeOK, storeVars, call
    <3>2. \A q \in Proc \ {p} : name'[q] = name[q] /\ buffer'[q] = buffer[q]
      BY <2>1, <1>a DEF HashObject, OpenFile, CommandTypeOK
    <3>3. WalkInv(p)'
      BY <3>1, <1>b, ElsewhereKept DEF watch
    <3>4. QED
      BY <1>c, <3>1, <3>2, <3>3 DEF Apart, watch
  <2>2. ASSUME WriteTree(p) PROVE SnapshotInv'
    <3>1. \A q \in Proc \ {p} : Apart(q)
      BY <2>2, <1>a
      DEF WriteTree, Enter, GoTo, Apart, CommandTypeOK, WatchTypeOK, storeVars, call, files
    <3>2. work' = work
      BY <2>2 DEF WriteTree, files
    <3>3. QED
      BY <1>c, <2>2, <3>1, <3>2, WriteTreeWalks
  <2>3. ASSUME NEW t, NEW c, CommitTree(p, t, c) PROVE SnapshotInv'
    <3>1. /\ UNCHANGED <<work, kept, walk, watch, obj>>
          /\ at'[p] = "tree?" /\ \A q \in Proc \ {p} : at'[q] = at[q]
      BY <2>3, <1>a DEF CommitTree, GoTo, CommandTypeOK, storeVars, call, files
    <3>2. WalkInv(p)'
      BY <3>1, <1>b, ElsewhereKept DEF walk, watch
    <3>3. QED
      BY <1>c, <3>1, <3>2 DEF Apart, walk, watch
  <2>4. ASSUME NEW h \in ReadArgs, NEW s \in {"cat", "ls"}, ReadCommand(p, h, s) PROVE SnapshotInv'
    <3>1. /\ UNCHANGED <<work, kept, walk, watch>>
          /\ at'[p] = s /\ \A q \in Proc \ {p} : at'[q] = at[q]
      BY <2>4, <1>a DEF ReadCommand, GoTo, CommandTypeOK, files
    <3>2. \A q \in Proc \ {p} : obj'[q] = obj[q]
      BY <2>4, <1>a, CallEffects DEF ReadCommand
    <3>3. WalkInv(p)'
      BY <3>1, <1>b, ElsewhereKept DEF walk, watch
    <3>4. QED
      BY <1>c, <3>1, <3>2, <3>3 DEF Apart, walk, watch
  <2>5. QED
    BY <1>1, <2>1, <2>2, <2>3, <2>4 DEF Start
<1>2. ASSUME NEW p \in Proc, StepOf(p) PROVE SnapshotInv'
  (* A command that ends or goes on to its next check collects nothing. *)
  <2>a. ASSUME UNCHANGED <<files, walk, watch>>,
               Return(p) \/ UNCHANGED storeVars \/ \E o : CallStore(p, o),
               NEW s \in At \ {"idle", "walk", "reading", "blob", "tree"}, GoTo(p, s)
        PROVE  SnapshotInv'
    <3>1. at'[p] = s /\ \A q \in Proc \ {p} : at'[q] = at[q]
      BY <2>a, <1>a DEF GoTo, CommandTypeOK
    <3>2. \A q \in Proc \ {p} : obj'[q] = obj[q]
      BY <2>a, <1>a, CallEffects DEF storeVars, call
    <3>3. WalkInv(p)'
      BY <2>a, <3>1, <1>b, ElsewhereKept DEF walk, watch
    <3>4. QED
      BY <1>c, <2>a, <3>1, <3>2, <3>3 DEF Apart, files, walk, watch
  <2>1. ASSUME PrintAnswer(p) \/ ListTreeNames(p) PROVE SnapshotInv'
    <3>1. GoTo(p, "exit") /\ "exit" \in At \ {"idle", "walk", "reading", "blob", "tree"}
      BY <2>1 DEF PrintAnswer, ListTreeNames, Fail, Exit, At
    <3>2. QED
      BY <2>1, <2>a, <3>1 DEF PrintAnswer, ListTreeNames
  <2>2. ASSUME CheckTree(p) \/ CheckParent(p) PROVE SnapshotInv'
    <3>1. \E s \in At \ {"idle", "walk", "reading", "blob", "tree"} : GoTo(p, s)
      BY <2>2 DEF CheckTree, CheckParent, StoreCommit, Fail, Exit, At
    <3>2. QED
      BY <2>2, <2>a, <3>1 DEF CheckTree, CheckParent, StoreCommit
  <2>3. ASSUME NEW n \in Path, WalkDir(p, n) PROVE SnapshotInv'
    <3>1. \A q \in Proc \ {p} : Apart(q)
      BY <2>3, <1>a
      DEF WalkDir, Enter, Fail, Exit, GoTo, Apart, CommandTypeOK, storeVars, call, files, walk, watch
    <3>2. work' = work
      BY <2>3 DEF WalkDir, files
    <3>3. QED
      BY <1>c, <2>3, <3>1, <3>2, WalkDirWalks
  <2>4. ASSUME NEW n \in Path, WalkFile(p, n) PROVE SnapshotInv'
    <3>1. \A q \in Proc \ {p} : Apart(q)
      BY <2>4, <1>a
      DEF WalkFile, OpenFile, Fail, Exit, GoTo, Apart, CommandTypeOK, storeVars, call, watch
    <3>2. work' = work
      BY <2>4 DEF WalkFile
    <3>3. QED
      BY <1>c, <2>4, <3>1, <3>2, WalkFileWalks
  <2>10. ASSUME FilePiece(p) PROVE SnapshotInv'
    <3>1. \A q \in Proc \ {p} : Apart(q)
      BY <2>10, <1>a DEF FilePiece, Apart, CommandTypeOK, storeVars, call, files, watch
    <3>2. work' = work
      BY <2>10 DEF FilePiece, files
    <3>3. QED
      BY <1>c, <2>10, <3>1, <3>2, FilePieceWalks
  <2>11. ASSUME FileEnd(p) PROVE SnapshotInv'
    <3>1. \A q \in Proc \ {p} : obj'[q] = obj[q]
      BY <2>11, <1>a, CallEffects DEF FileEnd
    <3>2. \A q \in Proc \ {p} : Apart(q)
      BY <2>11, <3>1, <1>a DEF FileEnd, GoTo, Apart, CommandTypeOK, WatchTypeOK, walk, watch
    <3>3. work' = work
      BY <2>11 DEF FileEnd
    <3>4. QED
      BY <1>c, <2>11, <3>2, <3>3, FileEndWalks
  <2>5. ASSUME BlobStored(p) PROVE SnapshotInv'
    <3>1. \A q \in Proc \ {p} : obj'[q] = obj[q]
      BY <2>5, <1>a, CallEffects DEF BlobStored
    <3>2. \A q \in Proc \ {p} : Apart(q)
      BY <2>5, <3>1, <1>a DEF BlobStored, Fail, Exit, GoTo, Apart, CommandTypeOK, files, watch
    <3>3. work' = work
      BY <2>5 DEF BlobStored, files
    <3>4. QED
      BY <1>c, <2>5, <3>2, <3>3, BlobStoredWalks
  <2>6. ASSUME WalkEnd(p) PROVE SnapshotInv'
    <3>1. \A q \in Proc \ {p} : obj'[q] = obj[q]
      BY <2>6, <1>a, CallEffects DEF WalkEnd
    <3>2. \A q \in Proc \ {p} : Apart(q)
      BY <2>6, <3>1, <1>a DEF WalkEnd, GoTo, Apart, CommandTypeOK, files, walk, watch
    <3>3. work' = work
      BY <2>6 DEF WalkEnd, files
    <3>4. QED
      BY <1>c, <2>6, <3>2, <3>3, WalkEndWalks
  <2>7. ASSUME TreeStored(p) PROVE SnapshotInv'
    <3>1. \A q \in Proc \ {p} : obj'[q] = obj[q]
      BY <2>7, <1>a, CallEffects DEF TreeStored
    <3>2. \A q \in Proc \ {p} : Apart(q)
      BY <2>7, <3>1, <1>a DEF TreeStored, Fail, Exit, GoTo, Apart, CommandTypeOK, files, watch
    <3>3. work' = work
      BY <2>7 DEF TreeStored, files
    <3>4. QED
      BY <1>c, <2>7, <3>2, <3>3, TreeStoredWalks
  <2>8. ASSUME StoreStep(p), UNCHANGED <<files, command, watch>> PROVE SnapshotInv'
    <3>1. obj' = obj
      BY <2>8, <1>a, CallEffects
    <3>2. \A q \in Proc : Apart(q)
      BY <2>8, <3>1 DEF Apart, files, command, walk, watch
    <3>3. QED
      BY <2>8, <3>2, <1>b, ApartKept DEF SnapshotInv, files
  <2>9. QED
    BY <1>2, <2>1, <2>2, <2>3, <2>4, <2>5, <2>6, <2>7, <2>8, <2>10, <2>11 DEF StepOf
<1>3. ASSUME NEW p \in Proc, Leave(p) \/ KillCommand(p) PROVE SnapshotInv'
  <2>1. Reset(p) /\ (UNCHANGED storeVars \/ Kill(p))
    BY <1>3 DEF Leave, KillCommand
  <2>2. \A q \in Proc \ {p} : obj'[q] = obj[q]
    BY <2>1, <1>a, CallEffects DEF storeVars, call
  <2>3. \A q \in Proc \ {p} : Apart(q)
    BY <2>1, <2>2, <1>a DEF Reset, GoTo, Apart, CommandTypeOK, WatchTypeOK
  <2>4. at'[p] = "idle" /\ \A d \in Dir : entries'[p][d] = {}
    BY <2>1, <1>a DEF Reset, GoTo, CommandTypeOK
  <2>5. WalkInv(p)'
    BY <2>4 DEF WalkInv, GatheredBy, Undisturbed, Walking
  <2>6. QED
    BY <2>1, <2>3, <2>5, <1>c DEF Reset
<1>4. ASSUME NEW p \in Proc, StoreFault(p), UNCHANGED <<files, command, watch>> PROVE SnapshotInv'
  <2>1. obj' = obj
    BY <1>4, <1>a, CallEffects
  <2>2. \A q \in Proc : Apart(q)
    BY <1>4, <2>1 DEF Apart, files, command, walk, watch
  <2>3. QED
    BY <1>4, <2>2, <1>b, ApartKept DEF SnapshotInv, files
<1>8. ASSUME NEW p \in Proc, FileError(p) PROVE SnapshotInv'
  <2>1. /\ UNCHANGED <<work, walk, watch, obj>> /\ at'[p] = "exit"
        /\ \A q \in Proc \ {p} : at'[q] = at[q] /\ kept'[q] = kept[q]
    BY <1>8, <1>a DEF FileError, Fail, Exit, GoTo, CommandTypeOK, WatchTypeOK, storeVars, call
  <2>2. WalkInv(p)'
    BY <2>1, <1>b, ElsewhereKept DEF walk, watch
  <2>3. QED
    BY <1>c, <2>1, <2>2 DEF Apart, walk, watch
(* An edit disturbs every run that is under way, and each holds what it made. *)
<1>5. ASSUME NEW n, NEW v, Edit(n, v) PROVE SnapshotInv'
  <2> SUFFICES ASSUME NEW p \in Proc PROVE WalkInv(p)'
    BY DEF SnapshotInv
  <2>1. /\ UNCHANGED <<at, dir, entries, name, buffer, obj>> /\ (p \in edited' <=> at[p] # "idle")
        /\ work' = [work EXCEPT ![n] = v]
    BY <1>5 DEF Edit, command, walk, storeVars, call
  <2>2. held'[p] = IF at[p] = "idle" THEN {} ELSE held[p] \cup Holds(work')
    BY <1>5 DEF Edit
  <2>3. GatheredBy(p)'
    <3>1. GatheredBy(p)
      BY <1>b DEF WalkInv
    <3>2. CASE at[p] = "idle"
      BY <2>1, <3>1, <3>2 DEF GatheredBy, Walking
    <3>3. CASE at[p] # "idle"
      <4>1. held[p] \subseteq held'[p] /\ Holds(work)' \subseteq held'[p]
        BY <2>2, <3>3 DEF Holds
      <4>2. disturbed[p] \subseteq disturbed'[p]
        BY <1>5, <1>a DEF Edit, Overwrite, Replace, WatchTypeOK
      <4>3. /\ \A f : HeldBy(p, f) \subseteq HeldBy(p, f)'
            /\ \A f, c : WasHeld(p, f, c) => WasHeld(p, f, c)'
            /\ \A e : EntryWasHeld(p, e) => EntryWasHeld(p, e)'
        BY <4>1, <4>2, HeldKept
      <4>4. ASSUME at[p] = "reading" PROVE ReadsHeld(p)'
        <5>1. PICK f \in File : f = name[p]
          BY <4>4 DEF WalkTypes, TypeOK, OpenFilesOK, Reading
        <5>2. ReadsHeld(p)
          BY <3>1, <4>4 DEF GatheredBy
        (* The run reads on in the same content, or in one that overwrote it. *)
        <5>3. \/ Opened(p)' = Opened(p)
              \/ f \in disturbed'[p] /\ Opened(p)' \in HeldBy(p, f)'
          <6>1. CASE p \in OpenBy(n) /\ Overwrite(n, v)
            <7>1. f = n /\ kept'[p] = Absent /\ f \in disturbed'[p] /\ v \in Content
              BY <5>1, <6>1 DEF OpenBy, Overwrite
            <7>2. Opened(p)' = v /\ work'[f] = v
              BY <1>a, <2>1, <5>1, <7>1 DEF Opened, WatchTypeOK, Path
            <7>3. v \in HeldBy(p, f)'
              BY <4>1, <5>1, <7>1, <7>2 DEF HeldBy, Holds
            <7>4. QED
              BY <7>1, <7>2, <7>3
          <6>2. CASE p \in OpenBy(n) /\ Replace(n)
            BY <1>a, <5>1, <5>2, <6>2, RepositoryAssumption
            DEF OpenBy, Replace, Opened, ReadsHeld, HeldBy
          <6>3. CASE p \notin OpenBy(n)
            <7>1. kept'[p] = kept[p] /\ (kept[p] = Absent => f # n)
              BY <1>5, <4>4, <5>1, <6>3 DEF Edit, Overwrite, Replace, OpenBy, Reading
            <7>2. QED
              BY <1>a, <2>1, <5>1, <7>1 DEF Opened, WatchTypeOK, Path
          <6>4. QED
            BY <1>5, <6>1, <6>2, <6>3 DEF Edit
        <5>4. Opened(p)' \in HeldBy(p, f)'
          BY <4>3, <5>1, <5>2, <5>3 DEF ReadsHeld
        <5>5. \A i \in DOMAIN buffer[p] :
                \E h \in HeldBy(p, f)' : i \in DOMAIN h /\ buffer[p][i] = h[i]
          BY <4>3, <5>1, <5>2 DEF ReadsHeld
        <5>6. f \notin disturbed'[p] =>
                \A i \in DOMAIN buffer[p] : i \in DOMAIN Opened(p)' /\ buffer[p][i] = Opened(p)'[i]
          BY <4>2, <5>1, <5>2, <5>3 DEF ReadsHeld
        <5>7. name'[p] = f /\ buffer'[p] = buffer[p]
          BY <2>1, <5>1
        <5>8. QED
          BY <5>4, <5>5, <5>6, <5>7 DEF ReadsHeld
      <4>5. \A d \in Dir : \A e \in entries'[p][d] : EntryWasHeld(p, e)'
        BY <2>1, <3>1, <4>3 DEF GatheredBy
      <4>6. at[p] = "blob" => WasHeld(p, name[p], obj[p].content)'
        BY <2>1, <3>1, <4>3 DEF GatheredBy
      <4>7. QED
        BY <2>1, <3>1, <3>3, <4>1, <4>4, <4>5, <4>6 DEF GatheredBy, Walking
    <3>4. QED
      BY <3>2, <3>3
  <2>4. QED
    BY <2>1, <2>3 DEF WalkInv, Undisturbed, Walking
<1>6. CASE UNCHANGED vars
  <2>1. work' = work /\ \A q \in Proc : Apart(q)
    BY <1>6 DEF vars, Apart, files, command, walk, watch, storeVars, call
  <2>2. QED
    BY <2>1, <1>b, ApartKept DEF SnapshotInv
<1>7. QED
  BY <1>1, <1>2, <1>3, <1>4, <1>5, <1>6, <1>8 DEF Next, UserEdits

(***************************************************************************)
(* What write-tree prints is the tree of the working tree, if nobody       *)
(* edited it meanwhile, and is made of contents that its files held during *)
(* the run, mixed only where a file was overwritten while it was read:     *)
(* whatever the working tree and the pieces it is read in, and however     *)
(* many other runs store, fail or die at the same time.                    *)
(***************************************************************************)
THEOREM SnapshotHolds == Spec => WriteTreeIsSnapshot
<1>1. Init => SnapshotInv
  <2> SUFFICES ASSUME Init, NEW p \in Proc PROVE WalkInv(p)
    BY DEF SnapshotInv
  <2>1. at[p] = "idle" /\ \A d \in Dir : entries[p][d] = {}
    BY DEF Init
  <2>2. QED
    BY <2>1 DEF WalkInv, GatheredBy, Undisturbed, Walking
<1> DEFINE Claim == \A p \in Proc :
              at[p] = "tree" /\ at'[p] = "exit" /\ out'[p].status = "ok"
                => /\ \A leaf \in Leaves[out'[p].hash] : WasHeld(p, leaf[1], leaf[2])
                   /\ p \notin edited => out'[p].hash = TreeAt[Root]
<1>2. TypeOK /\ SnapshotInv /\ [Next]_vars => Claim
  <2> SUFFICES ASSUME WalkTypes, [Next]_vars, NEW p \in Proc,
                      at[p] = "tree", at'[p] = "exit", out'[p].status = "ok"
               PROVE  /\ \A leaf \in Leaves[out'[p].hash] : WasHeld(p, leaf[1], leaf[2])
                      /\ p \notin edited => out'[p].hash = TreeAt[Root]
    BY DEF WalkTypes
  <2>a. CommandTypeOK /\ WalkInv(p)
    BY DEF WalkTypes, TypeOK, SnapshotInv
  (* No step of another run, and no other step of this one, ends it so. *)
  <2>1. TreeStored(p)
    <3>1. ASSUME NEW q \in Proc, Start(q) PROVE FALSE
      BY <3>1, <2>a DEF Start, HashObject, OpenFile, WriteTree, CommitTree, ReadCommand, Fail, Exit,
                        GoTo, CommandTypeOK
    <3>2. ASSUME NEW q \in Proc, StepOf(q) PROVE TreeStored(p)
      <4>1. CASE q = p
        BY <4>1, <3>2 DEF StepOf, FilePiece, FileEnd, PrintAnswer, WalkDir, WalkFile, BlobStored,
                          WalkEnd, CheckTree, CheckParent, ListTreeNames, command, Reading
      <4>2. CASE q # p
        <5>1. UNCHANGED at \/ \E s : GoTo(q, s)
          BY <3>2 DEF StepOf, FilePiece, FileEnd, PrintAnswer, WalkDir, WalkFile, OpenFile, BlobStored,
                      WalkEnd, TreeStored, CheckTree, CheckParent, ListTreeNames, StoreCommit, Fail,
                      Exit, command
        <5>2. at'[p] = at[p]
          BY <4>2, <5>1, <2>a DEF GoTo, CommandTypeOK
        <5>3. QED
          BY <5>2
      <4>3. QED
        BY <4>1, <4>2
    <3>3. ASSUME NEW q \in Proc, Leave(q) \/ KillCommand(q) PROVE FALSE
      BY <3>3, <2>a DEF Leave, KillCommand, Reset, GoTo, CommandTypeOK
    <3>4. ASSUME NEW q \in Proc, FileError(q) PROVE FALSE
      BY <3>4, <2>a DEF FileError, Fail, Exit, GoTo, CommandTypeOK, Reading
    <3>5. QED
      BY <3>1, <3>2, <3>3, <3>4 DEF Next, UserEdits, Edit, command, vars
  <2>2. dir[p] = Root /\ out'[p].hash = obj[p]
    BY <2>1, <2>a DEF TreeStored, Fail, Exit, GoTo, Answer, Outcome, CommandTypeOK
  <2>3. \A leaf \in Leaves[obj[p]] : WasHeld(p, leaf[1], leaf[2])
    BY TreeLeaves
  <2>4. p \notin edited => obj[p] = TreeAt[Root]
    BY <2>a, <2>2 DEF WalkInv, Undisturbed, Walking, Faithful
  <2>5. QED
    BY <2>2, <2>3, <2>4
<1>3. TypeOK /\ SnapshotInv /\ [Next]_vars => [Claim]_vars
  BY <1>2
<1>4. QED
  BY <1>1, <1>3, SnapshotInvStep, RepositoryTypeCorrect, PTL DEF Spec, WriteTreeIsSnapshot

(***************************************************************************)
(* The safe half of PrintedTreeBecomesComplete: where nothing dies and     *)
(* nothing is refused, whenever no run is writing every tree write-tree    *)
(* has printed is in the store, and so is, whole, all it can be followed   *)
(* to.                                                                     *)
(***************************************************************************)
THEOREM PrintedTreesAreReadable ==
  ASSUME ~CanKill, ~CanFail
  PROVE  Spec => [](NobodyWrites =>
                      /\ printed \subseteq exists
                      /\ \A o \in exists : Whole(o) /\ Refs(o) \subseteq exists)
<1>1. Init => printed \subseteq exists
  BY DEF Init
<1>2. RepInv /\ printed \subseteq exists /\ [Next]_vars => (printed \subseteq exists)'
  <2> SUFFICES ASSUME RepInv, printed \subseteq exists, [Next]_vars
               PROVE  printed' \subseteq exists'
    OBVIOUS
  <2>1. exists \subseteq exists'
    BY UsesStore, StoreGrowth DEF RepInv, TypeOK
  <2>2. ASSUME NEW p \in Proc, TreeStored(p) PROVE printed' \subseteq exists
    BY <2>2 DEF TreeStored, Return, RepInv, OkMeansStored
  <2>3. printed' = printed \/ \E p \in Proc : TreeStored(p)
    BY DEF Next, Start, HashObject, WriteTree, CommitTree, ReadCommand, StepOf, FilePiece, FileEnd,
           PrintAnswer, WalkDir, WalkFile, BlobStored, WalkEnd, CheckTree, CheckParent,
           ListTreeNames, Leave, KillCommand, Reset, FileError, UserEdits, Edit, vars
  <2>4. QED
    BY <2>1, <2>2, <2>3
<1>3. Spec => [](printed \subseteq exists)
  BY <1>1, <1>2, RepInvInit, RepInvStep, PTL DEF Spec
<1>4. Spec => [](NobodyWrites => \A o \in exists : Whole(o))
  BY RepositoryUsesStore, QuietStoreIsWhole, PTL
<1>5. (NobodyWrites => \A o \in exists : Whole(o)) /\ Connected /\ printed \subseteq exists
        => (NobodyWrites =>
              /\ printed \subseteq exists
              /\ \A o \in exists : Whole(o) /\ Refs(o) \subseteq exists)
  BY DEF Connected
<1>6. QED
  BY <1>3, <1>4, <1>5, StoreIsConnected, PTL
=============================================================================

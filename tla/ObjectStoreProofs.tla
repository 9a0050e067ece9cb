-------------------------- MODULE ObjectStoreProofs --------------------------
(* Proofs about ObjectStore, for every set of runs and of objects. *)
EXTENDS ObjectStore, TLAPS

LEMMA LastPieceType ==
  ASSUME NEW o \in Object
  PROVE  /\ LastPiece(o) \in Nat \ {0} /\ LastPiece(o) <= NPieces
         /\ Pieces(o) \subseteq 1 .. NPieces
BY StoreAssumption DEF LastPiece, Pieces

(***************************************************************************)
(* The type invariant: in particular a run that writes or reads always has *)
(* an object, and never goes past the object's last piece.                 *)
(***************************************************************************)
LEMMA TypeInit == StoreInit => StoreTypeOK
BY StoreAssumption DEF StoreInit, StoreTypeOK, Step, Result

LEMMA TypeStep == StoreTypeOK /\ [StoreNext]_storeVars => StoreTypeOK'
<1> USE StoreAssumption DEF StoreTypeOK, Step, Result, disk, history
<1> SUFFICES ASSUME StoreTypeOK, [StoreNext]_storeVars PROVE StoreTypeOK'
  OBVIOUS
<1>1. ASSUME NEW p \in Proc, NEW o \in Object, CallStore(p, o) PROVE StoreTypeOK'
  BY <1>1 DEF CallStore, Goto
<1>2. ASSUME NEW p \in Proc, NEW h \in Object \cup {BadHash}, CallRead(p, h)
      PROVE StoreTypeOK'
  BY <1>2 DEF CallRead, Goto
<1>3. ASSUME NEW p \in Proc, Return(p) PROVE StoreTypeOK'
  BY <1>3 DEF Return, Hang, Goto
<1>4. ASSUME NEW p \in Proc, StoreFound(p) PROVE StoreTypeOK'
  BY <1>4 DEF StoreFound, Finish, Goto
<1>5. ASSUME NEW p \in Proc, StoreMissing(p) PROVE StoreTypeOK'
  BY <1>5 DEF StoreMissing, Goto
<1>6. ASSUME NEW p \in Proc, StoreOpen(p) PROVE StoreTypeOK'
  BY <1>6, LastPieceType DEF StoreOpen, Goto
<1>7. ASSUME NEW p \in Proc, StoreWrite(p) PROVE StoreTypeOK'
  <2> DEFINE o == obj[p]
  <2>1. o \in Object /\ pos[p] \in 1 .. LastPiece(o) /\ pos[p] \in Pieces(o)
    BY <1>7 DEF StoreWrite, Pieces
  <2>2. /\ data' \in [Object -> SUBSET (1 .. NPieces)]
        /\ \A x \in Object : data'[x] \subseteq Pieces(x)
    BY <1>7, <2>1, LastPieceType DEF StoreWrite
  <2>3. pos' \in [Proc -> 1 .. NPieces + 1]
    BY <1>7, <2>1, LastPieceType DEF StoreWrite
  <2>4. \A q \in Proc : pc'[q] \in {"write", "read"} => pos'[q] <= LastPiece(obj'[q]) + 1
    BY <1>7, <2>1, LastPieceType DEF StoreWrite
  <2>5. QED
    BY <1>7, <2>2, <2>3, <2>4 DEF StoreWrite, Pieces
<1>8. ASSUME NEW p \in Proc, StoreClose(p) PROVE StoreTypeOK'
  BY <1>8 DEF StoreClose, Finish, Goto
<1>9. ASSUME NEW p \in Proc, WriteRefused(p) PROVE StoreTypeOK'
  BY <1>9 DEF WriteRefused, Finish, Goto
<1>10. ASSUME NEW p \in Proc, CallRefused(p) PROVE StoreTypeOK'
  BY <1>10 DEF CallRefused, Finish, Goto
<1>11. ASSUME NEW p \in Proc, ReadRejected(p) PROVE StoreTypeOK'
  BY <1>11 DEF ReadRejected, Finish, Goto
<1>12. ASSUME NEW p \in Proc, ReadMissing(p) PROVE StoreTypeOK'
  BY <1>12 DEF ReadMissing, Finish, Goto
<1>13. ASSUME NEW p \in Proc, ReadOpen(p) PROVE StoreTypeOK'
  BY <1>13, LastPieceType DEF ReadOpen, Goto
<1>14. ASSUME NEW p \in Proc, ReadPiece(p) PROVE StoreTypeOK'
  <2> DEFINE o == obj[p]
  <2>1. o \in Object /\ pos[p] \in Nat /\ pos[p] <= LastPiece(o)
    BY <1>14, LastPieceType DEF ReadPiece, AtEOF, Pieces
  <2>2. pos' \in [Proc -> 1 .. NPieces + 1]
    BY <1>14, <2>1, LastPieceType DEF ReadPiece
  <2>3. \A q \in Proc : pc'[q] \in {"write", "read"} => pos'[q] <= LastPiece(obj'[q]) + 1
    BY <1>14, <2>1, LastPieceType DEF ReadPiece
  <2>4. QED
    BY <1>14, <2>1, <2>2, <2>3 DEF ReadPiece, Pieces
<1>15. ASSUME NEW p \in Proc, ReadEnd(p) PROVE StoreTypeOK'
  BY <1>15 DEF ReadEnd, Finish, Goto, ExtractBody, ZlibDecompressString
<1>16. ASSUME NEW p \in Proc, Kill(p) PROVE StoreTypeOK'
  BY <1>16 DEF Kill, Hang, Goto
<1>17. CASE UNCHANGED storeVars
  BY <1>17 DEF storeVars, call
<1>18. QED
  BY <1>1, <1>2, <1>3, <1>4, <1>5, <1>6, <1>7, <1>8, <1>9, <1>10, <1>11,
     <1>12, <1>13, <1>14, <1>15, <1>16, <1>17
  DEF StoreNext, StoreStep, StoreFault

THEOREM StoreTypeCorrect == StoreSpec => []StoreTypeOK
BY TypeInit, TypeStep, PTL DEF StoreSpec

-----------------------------------------------------------------------------
(***************************************************************************)
(* MissingPiecesAreOwed is inductive given the types.  The run that opened *)
(* the file last truncated it and starts from its first piece, so it still *)
(* has every missing piece ahead of it, and every other writer only adds.  *)
(***************************************************************************)
LEMMA OwedInit == StoreInit => MissingPiecesAreOwed
BY DEF StoreInit, MissingPiecesAreOwed

LEMMA OwedStep ==
  StoreTypeOK /\ StoreTypeOK' /\ MissingPiecesAreOwed /\ [StoreNext]_storeVars
    => MissingPiecesAreOwed'
<1> DEFINE Owed(o) == \/ Whole(o)
                      \/ \E p \in Proc :
                           /\ Writing(p, o)
                           /\ Pieces(o) \ data[o] \subseteq pos[p] .. LastPiece(o)
<1> SUFFICES ASSUME StoreTypeOK, StoreTypeOK', MissingPiecesAreOwed, [StoreNext]_storeVars,
                    NEW o \in Object, o \in exists', o \notin damaged'
             PROVE  Owed(o)'
  BY DEF MissingPiecesAreOwed, StoreTypeOK
<1> USE DEF Writing
<1>0. o \in exists /\ o \notin damaged => Owed(o)
  BY DEF MissingPiecesAreOwed
<1> HIDE DEF Owed
<1>a. LastPiece(o) \in Nat \ {0} /\ Pieces(o) = 1 .. LastPiece(o)
  BY LastPieceType DEF Pieces
(* A step that writes nothing and by which no writer of o stops keeps Owed(o). *)
<1>b. ASSUME UNCHANGED <<disk, damaged, pos>>,
             \A q \in Proc : Writing(q, o) => Writing(q, o)'
      PROVE  Owed(o)'
  BY <1>0, <1>b DEF Owed, Whole, disk
<1>1. ASSUME NEW p \in Proc, pc[p] # "write",
             UNCHANGED <<disk, damaged>>,
             \A q \in Proc \ {p} : UNCHANGED <<pc[q], obj[q], pos[q]>>
      PROVE  Owed(o)'
  BY <1>0, <1>1 DEF Owed, Whole, disk
<1>2. ASSUME NEW p \in Proc, StoreOpen(p) PROVE Owed(o)'
  <2>1. CASE obj[p] = o
    <3>1. data'[o] = {} /\ pos'[p] = 1 /\ Writing(p, o)'
      BY <1>2, <2>1 DEF StoreOpen, StoreTypeOK, Goto, Step
    <3>2. QED
      BY <3>1, <1>a DEF Owed
  <2>2. CASE obj[p] # o
    <3>1. /\ o \in exists /\ o \notin damaged /\ data'[o] = data[o] /\ pos' = pos
          /\ \A q \in Proc : Writing(q, o) => Writing(q, o)'
      BY <1>2, <2>2 DEF StoreOpen, StoreTypeOK, Goto
    <3>2. QED
      BY <3>1, <1>0 DEF Owed, Whole
  <2>3. QED
    BY <2>1, <2>2
<1>3. ASSUME NEW p \in Proc, StoreWrite(p) PROVE Owed(o)'
  <2>1. /\ o \in exists /\ o \notin damaged /\ exists' = exists
        /\ \A q \in Proc : Writing(q, o) <=> Writing(q, o)'
        /\ \A q \in Proc \ {p} : pos'[q] = pos[q]
    BY <1>3 DEF StoreWrite, StoreTypeOK, disk, history
  <2>2. CASE obj[p] = o
    <3>1. /\ pos[p] \in 1 .. LastPiece(o)
          /\ data'[o] = data[o] \cup {pos[p]}
          /\ pos'[p] = pos[p] + 1
      BY <1>3, <1>a, <2>2 DEF StoreWrite, StoreTypeOK
    <3>2. CASE Whole(o)
      BY <2>1, <3>1, <3>2, <1>a DEF Owed, Whole
    <3>3. CASE \E q \in Proc : /\ Writing(q, o)
                               /\ Pieces(o) \ data[o] \subseteq pos[q] .. LastPiece(o)
      <4>1. PICK q \in Proc : /\ Writing(q, o)
                              /\ Pieces(o) \ data[o] \subseteq pos[q] .. LastPiece(o)
        BY <3>3
      <4>2. Writing(q, o)'
        BY <2>1, <4>1
      <4>3. Pieces(o) \ data'[o] \subseteq pos'[q] .. LastPiece(o)
        <5>1. pos[q] \in Nat /\ (pos'[q] = pos[q] \/ q = p)
          BY <2>1 DEF StoreTypeOK
        <5>2. CASE q = p
          BY <3>1, <4>1, <5>1, <5>2, <1>a
        <5>3. CASE q # p
          BY <3>1, <4>1, <5>1, <5>3, <1>a
        <5>4. QED
          BY <5>2, <5>3
      <4>4. QED
        BY <4>2, <4>3 DEF Owed
    <3>4. QED
      BY <1>0, <2>1, <3>2, <3>3 DEF Owed
  <2>3. CASE obj[p] # o
    <3>1. data'[o] = data[o]
      BY <1>3, <2>3 DEF StoreWrite, StoreTypeOK
    <3>2. \A q \in Proc : Writing(q, o) => q # p
      BY <2>3
    <3>3. QED
      BY <1>0, <2>1, <3>1, <3>2 DEF Owed, Whole
  <2>4. QED
    BY <2>2, <2>3
(* The end of a writer: nothing is missing, or the object is damaged. *)
<1>4. ASSUME NEW p \in Proc, pc[p] = "write",
             UNCHANGED disk, damaged \subseteq damaged',
             obj[p] = o => pos[p] \notin Pieces(o),
             \A q \in Proc \ {p} : UNCHANGED <<pc[q], obj[q], pos[q]>>
      PROVE  Owed(o)'
  <2>1. o \in exists /\ o \notin damaged /\ exists' = exists /\ data' = data
    BY <1>4 DEF disk
  <2>2. CASE Whole(o)
    BY <2>1, <2>2 DEF Owed, Whole
  <2>3. CASE \E q \in Proc : /\ Writing(q, o)
                             /\ Pieces(o) \ data[o] \subseteq pos[q] .. LastPiece(o)
    <3>1. PICK q \in Proc : /\ Writing(q, o)
                            /\ Pieces(o) \ data[o] \subseteq pos[q] .. LastPiece(o)
      BY <2>3
    <3>2. CASE q # p
      BY <1>4, <2>1, <3>1, <3>2 DEF Owed
    <3>3. CASE q = p
      <4>1. pos[p] = LastPiece(o) + 1
        BY <1>4, <3>1, <3>3, <1>a DEF StoreTypeOK
      <4>2. Pieces(o) \ data[o] = {}
        BY <3>1, <3>3, <4>1, <1>a
      <4>3. QED
        BY <2>1, <4>2 DEF Owed, Whole, StoreTypeOK
    <3>4. QED
      BY <3>2, <3>3
  <2>4. QED
    BY <1>0, <2>1, <2>2, <2>3 DEF Owed
<1>5. ASSUME NEW p \in Proc, StoreClose(p) PROVE Owed(o)'
  BY <1>4, <1>5 DEF StoreClose, Finish, Goto, disk, StoreTypeOK
<1>6. ASSUME NEW p \in Proc, WriteRefused(p) PROVE Owed(o)'
  BY <1>4, <1>6 DEF WriteRefused, Finish, Goto, disk, StoreTypeOK
<1>7. ASSUME NEW p \in Proc, Kill(p) PROVE Owed(o)'
  BY <1>1, <1>4, <1>7 DEF Kill, Hang, Goto, disk, StoreTypeOK
<1>8. ASSUME NEW p \in Proc, NEW x, CallStore(p, x) \/ CallRead(p, x) PROVE Owed(o)'
  BY <1>1, <1>8 DEF CallStore, CallRead, Goto, disk, history, StoreTypeOK
<1>9. ASSUME NEW p \in Proc, Return(p) PROVE Owed(o)'
  BY <1>1, <1>9 DEF Return, Hang, Goto, disk, StoreTypeOK
<1>10. ASSUME NEW p \in Proc, StoreFound(p) \/ StoreMissing(p) PROVE Owed(o)'
  BY <1>1, <1>10 DEF StoreFound, StoreMissing, Finish, Goto, disk, history, StoreTypeOK
<1>11. ASSUME NEW p \in Proc, ReadRejected(p) \/ ReadMissing(p) \/ CallRefused(p) PROVE Owed(o)'
  BY <1>1, <1>11
     DEF ReadRejected, ReadMissing, CallRefused, Finish, Goto, disk, history, StoreTypeOK
<1>12. ASSUME NEW p \in Proc, ReadOpen(p) PROVE Owed(o)'
  BY <1>1, <1>12 DEF ReadOpen, Goto, disk, StoreTypeOK
<1>13. ASSUME NEW p \in Proc, ReadPiece(p) PROVE Owed(o)'
  BY <1>1, <1>13 DEF ReadPiece, disk, history, StoreTypeOK
<1>14. ASSUME NEW p \in Proc, ReadEnd(p) PROVE Owed(o)'
  BY <1>1, <1>14 DEF ReadEnd, Finish, Goto, disk, history, StoreTypeOK
<1>15. CASE UNCHANGED storeVars
  BY <1>b, <1>15 DEF storeVars, disk, call, history
<1>16. QED
  BY <1>2, <1>3, <1>5, <1>6, <1>7, <1>8, <1>9, <1>10, <1>11, <1>12, <1>13, <1>14, <1>15
  DEF StoreNext, StoreStep, StoreFault

(* A torn file always has a cause: StoreRawObject racing, killed or refused. *)
THEOREM StoreOwesMissingPieces == StoreSpec => []MissingPiecesAreOwed
<1>1. StoreInit => MissingPiecesAreOwed
  BY OwedInit
<1>2. QED
  BY <1>1, OwedStep, StoreTypeCorrect, PTL DEF StoreSpec

(***************************************************************************)
(* Where no run dies and nothing is refused, StoreRawObject truncating the *)
(* files of other writers does no lasting harm: whenever nobody is writing *)
(* every file is whole, whoever raced before.                              *)
(***************************************************************************)
NobodyWrites == \A p \in Proc : pc[p] # "write"

THEOREM QuietStoreIsWhole ==
  ASSUME ~CanKill, ~CanFail
  PROVE  StoreSpec => [](NobodyWrites => \A o \in exists : Whole(o))
<1>1. StoreInit => damaged = {}
  BY DEF StoreInit
<1>2. damaged = {} /\ [StoreNext]_storeVars => (damaged = {})'
  BY DEF StoreNext, StoreStep, StoreFault, CallStore, CallRead, Return, Kill, WriteRefused,
         CallRefused, StoreFound, StoreMissing, StoreOpen, StoreWrite, StoreClose, ReadRejected,
         ReadMissing, ReadOpen, ReadPiece, ReadEnd, storeVars, history
<1>3. damaged = {} /\ MissingPiecesAreOwed => (NobodyWrites => \A o \in exists : Whole(o))
  BY DEF MissingPiecesAreOwed, NobodyWrites, Writing
<1>4. QED
  BY <1>1, <1>2, <1>3, StoreOwesMissingPieces, PTL DEF StoreSpec

-----------------------------------------------------------------------------
(***************************************************************************)
(* What TornReadMeansRaceOrCrash rests on: a reader that met no writer of  *)
(* its object, none of whose writers was cut short, is reading a whole     *)
(* file and has every piece before its position.  MissingPiecesAreOwed     *)
(* says so when it opens the file; whoever truncates it later marks the    *)
(* reader as raced.                                                        *)
(***************************************************************************)
QuietReadersSeeAll ==
  \A p \in Proc :
    pc[p] = "read" /\ p \notin raced /\ obj[p] \notin damaged
      => Whole(obj[p]) /\ got[p] = 1 .. pos[p] - 1

ReadInv == QuietReadersSeeAll /\ TornReadMeansRaceOrCrash

LEMMA ReadInit == StoreInit => ReadInv
BY DEF StoreInit, ReadInv, QuietReadersSeeAll, TornReadMeansRaceOrCrash

LEMMA ReadStep ==
  StoreTypeOK /\ StoreTypeOK' /\ MissingPiecesAreOwed /\ ReadInv /\ [StoreNext]_storeVars
    => ReadInv'
<1> DEFINE Quiet(q) == q \notin raced /\ obj[q] \notin damaged
           Good(q)  == /\ pc[q] = "read" /\ Quiet(q) => Whole(obj[q]) /\ got[q] = 1 .. pos[q] - 1
                       /\ pc[q] = "done" /\ Quiet(q) => res[q] \notin Torn
<1> SUFFICES ASSUME StoreTypeOK, StoreTypeOK', MissingPiecesAreOwed, ReadInv,
                    [StoreNext]_storeVars, NEW q \in Proc
             PROVE  Good(q)'
  BY DEF ReadInv, QuietReadersSeeAll, TornReadMeansRaceOrCrash
<1>0. Good(q)
  BY DEF ReadInv, QuietReadersSeeAll, TornReadMeansRaceOrCrash
(* A step of another run that only adds to the file q reads. *)
<1>a. ASSUME UNCHANGED <<pc[q], obj[q], pos[q], got[q], res[q]>>,
             q \in raced => q \in raced',
             damaged \subseteq damaged',
             pc[q] = "read" /\ Whole(obj[q]) => Whole(obj[q])'
      PROVE  Good(q)'
  BY <1>0, <1>a
(* A step of q itself that leaves it neither reading nor with a torn result. *)
<1>b. ASSUME pc'[q] # "read", pc'[q] = "done" => res'[q] \notin Torn
      PROVE  Good(q)'
  BY <1>b
<1> HIDE DEF Good
<1>c. ASSUME NEW p \in Proc, p # q, UNCHANGED disk,
             \A x \in Proc \ {p} : UNCHANGED <<pc[x], obj[x], pos[x], got[x], res[x]>>,
             q \in raced => q \in raced', damaged \subseteq damaged'
      PROVE  Good(q)'
  BY <1>a, <1>c DEF Whole, disk
<1>1. ASSUME NEW p \in Proc, NEW x, CallStore(p, x) \/ CallRead(p, x) PROVE Good(q)'
  BY <1>1, <1>b, <1>c DEF CallStore, CallRead, Goto, history, StoreTypeOK
<1>2. ASSUME NEW p \in Proc, Return(p) PROVE Good(q)'
  BY <1>2, <1>b, <1>c DEF Return, Hang, Goto, StoreTypeOK
<1>3. ASSUME NEW p \in Proc, StoreFound(p) \/ StoreMissing(p) \/ StoreClose(p) PROVE Good(q)'
  BY <1>3, <1>b, <1>c DEF StoreFound, StoreMissing, StoreClose, Finish, Goto, history,
                          StoreTypeOK, Torn
<1>4. ASSUME NEW p \in Proc, StoreOpen(p) PROVE Good(q)'
  <2>1. CASE p = q
    BY <1>4, <1>b, <2>1 DEF StoreOpen, Goto, StoreTypeOK
  <2>2. CASE p # q /\ pc[q] = "read" /\ obj[q] = obj[p]
    <3>1. q \in raced' /\ pc'[q] = "read"
      BY <1>4, <2>2 DEF StoreOpen, Goto, StoreTypeOK
    <3>2. QED
      BY <3>1 DEF Good
  <2>3. CASE p # q /\ ~(pc[q] = "read" /\ obj[q] = obj[p])
    BY <1>4, <1>a, <2>3 DEF StoreOpen, Goto, StoreTypeOK, Whole
  <2>4. QED
    BY <2>1, <2>2, <2>3
<1>5. ASSUME NEW p \in Proc, StoreWrite(p) PROVE Good(q)'
  <2>1. CASE p = q
    BY <1>5, <1>b, <2>1 DEF StoreWrite, StoreTypeOK
  <2>2. CASE p # q
    <3>1. \A o \in Object : Whole(o) => Whole(o)'
      BY <1>5 DEF StoreWrite, StoreTypeOK, Whole
    <3>2. pc[q] = "read" => obj[q] \in Object
      BY DEF StoreTypeOK
    <3>3. UNCHANGED <<pc[q], obj[q], pos[q], got[q], res[q], raced, damaged>>
      BY <1>5, <2>2 DEF StoreWrite, StoreTypeOK, history
    <3>4. QED
      BY <1>a, <3>1, <3>2, <3>3
  <2>3. QED
    BY <2>1, <2>2
<1>6. ASSUME NEW p \in Proc, WriteRefused(p) \/ CallRefused(p) PROVE Good(q)'
  BY <1>6, <1>b, <1>c DEF WriteRefused, CallRefused, Finish, Goto, history, StoreTypeOK, Torn
<1>7. ASSUME NEW p \in Proc, ReadRejected(p) \/ ReadMissing(p) PROVE Good(q)'
  BY <1>7, <1>b, <1>c DEF ReadRejected, ReadMissing, Finish, Goto, history, StoreTypeOK, Torn
<1>8. ASSUME NEW p \in Proc, ReadOpen(p) PROVE Good(q)'
  <2>1. CASE p = q
    <3>1. /\ obj[q] \in exists /\ obj'[q] = obj[q] /\ pos'[q] = 1 /\ got'[q] = {}
          /\ pc'[q] = "read" /\ exists' = exists /\ data' = data /\ damaged' = damaged
      BY <1>8, <2>1 DEF ReadOpen, Goto, StoreTypeOK, disk
    <3>2. q \notin raced' => ~ \E x \in Proc : Writing(x, obj[q])
      BY <1>8, <2>1 DEF ReadOpen
    <3>3. q \notin raced' /\ obj[q] \notin damaged => Whole(obj[q])
      BY <3>1, <3>2 DEF MissingPiecesAreOwed
    <3>4. QED
      BY <3>1, <3>3 DEF Good, Whole
  <2>2. CASE p # q
    BY <1>8, <1>c, <2>2 DEF ReadOpen, Goto, StoreTypeOK
  <2>3. QED
    BY <2>1, <2>2
<1>9. ASSUME NEW p \in Proc, ReadPiece(p) PROVE Good(q)'
  <2>1. CASE p = q
    <3>1. /\ pc[q] = "read" /\ obj[q] \in Object /\ pos[q] \in Nat \ {0}
          /\ pc' = pc /\ obj' = obj /\ data' = data /\ exists' = exists
          /\ raced' = raced /\ damaged' = damaged
          /\ pos'[q] = pos[q] + 1
          /\ got'[q] = got[q] \cup (data[obj[q]] \cap {pos[q]})
          /\ \E k \in data[obj[q]] : pos[q] <= k
      BY <1>9, <2>1 DEF ReadPiece, AtEOF, StoreTypeOK, disk, history
    <3>2. ASSUME Whole(obj[q]), got[q] = 1 .. pos[q] - 1
          PROVE  Whole(obj[q])' /\ got'[q] = 1 .. pos'[q] - 1
      <4>1. data[obj[q]] = 1 .. LastPiece(obj[q]) /\ LastPiece(obj[q]) \in Nat
        BY <3>1, <3>2, LastPieceType DEF Whole, Pieces
      <4>2. data[obj[q]] \cap {pos[q]} = {pos[q]}
        BY <3>1, <4>1
      <4>3. got'[q] = 1 .. pos[q]
        BY <3>1, <3>2, <4>2
      <4>4. QED
        BY <3>1, <3>2, <4>3 DEF Whole
    <3>3. QED
      BY <1>0, <3>1, <3>2 DEF Good
  <2>2. CASE p # q
    BY <1>9, <1>c, <2>2 DEF ReadPiece, StoreTypeOK, history
  <2>3. QED
    BY <2>1, <2>2
<1>10. ASSUME NEW p \in Proc, ReadEnd(p) PROVE Good(q)'
  <2>1. CASE p = q
    <3>1. /\ pc[q] = "read" /\ obj[q] \in Object /\ pos[q] \in Nat \ {0}
          /\ pc'[q] = "done" /\ obj' = obj /\ raced' = raced /\ damaged' = damaged
          /\ pos[q] <= LastPiece(obj[q]) + 1
          /\ \A k \in data[obj[q]] : k < pos[q]
          /\ res'[q] = ExtractBody(ZlibDecompressString(q))
      BY <1>10, <2>1 DEF ReadEnd, AtEOF, Finish, Goto, StoreTypeOK, history
    <3>2. ASSUME Quiet(q) PROVE res'[q] = "ok"
      <4>1. /\ data[obj[q]] = 1 .. LastPiece(obj[q]) /\ LastPiece(obj[q]) \in Nat \ {0}
            /\ Pieces(obj[q]) = 1 .. LastPiece(obj[q])
            /\ got[q] = 1 .. pos[q] - 1
        BY <1>0, <3>1, <3>2, LastPieceType DEF Good, Whole, Pieces
      <4>2. pos[q] = LastPiece(obj[q]) + 1
        BY <3>1, <4>1
      <4>3. ZlibDecompressString(q) = "raw"
        BY <4>1, <4>2 DEF ZlibDecompressString
      <4>4. QED
        BY <3>1, <4>3 DEF ExtractBody
    <3>3. QED
      BY <3>1, <3>2 DEF Good, Torn
  <2>2. CASE p # q
    BY <1>10, <1>c, <2>2 DEF ReadEnd, Finish, Goto, StoreTypeOK, history
  <2>3. QED
    BY <2>1, <2>2
<1>11. ASSUME NEW p \in Proc, Kill(p) PROVE Good(q)'
  BY <1>11, <1>b, <1>c DEF Kill, Hang, Goto, StoreTypeOK
<1>12. CASE UNCHANGED storeVars
  BY <1>12, <1>0 DEF storeVars, disk, call, history, Good, Whole
<1>13. QED
  BY <1>1, <1>2, <1>3, <1>4, <1>5, <1>6, <1>7, <1>8, <1>9, <1>10, <1>11, <1>12
  DEF StoreNext, StoreStep, StoreFault

(* Without a race or a cut-short write, no reader is told its object is corrupt. *)
THEOREM StoreTornReadsHaveCause == StoreSpec => []TornReadMeansRaceOrCrash
<1>1. ReadInv => TornReadMeansRaceOrCrash
  BY DEF ReadInv
<1>2. QED
  BY <1>1, ReadInit, ReadStep, StoreTypeCorrect, StoreOwesMissingPieces, PTL DEF StoreSpec

-----------------------------------------------------------------------------
(***************************************************************************)
(* Damage is final.  Only a run at "open" or "write" could repair a torn   *)
(* file, and a run gets there only through StoreMissing, which the         *)
(* existence check closes once the file is there.                          *)
(***************************************************************************)
LEMMA TornStep ==
  ASSUME StoreTypeOK, StoreNext, NEW o \in Object, Abandoned(o)
  PROVE  Abandoned(o)'
<1> USE DEF Abandoned, Whole, StoreTypeOK, disk, history
<1>1. ASSUME NEW p \in Proc, UNCHANGED disk,
             pc'[p] \in {"open", "write"} => obj'[p] # o,
             \A q \in Proc \ {p} : UNCHANGED <<pc[q], obj[q]>>
      PROVE  Abandoned(o)'
  BY <1>1
<1>2. ASSUME NEW p \in Proc, NEW x, CallStore(p, x) \/ CallRead(p, x) PROVE Abandoned(o)'
  BY <1>1, <1>2 DEF CallStore, CallRead, Goto
<1>3. ASSUME NEW p \in Proc, Return(p) \/ Kill(p) PROVE Abandoned(o)'
  BY <1>1, <1>3 DEF Return, Kill, Hang, Goto
<1>4. ASSUME NEW p \in Proc, StoreFound(p) \/ StoreClose(p) \/ StoreMissing(p)
      PROVE  Abandoned(o)'
  BY <1>1, <1>4 DEF StoreFound, StoreClose, StoreMissing, Finish, Goto
<1>5. ASSUME NEW p \in Proc, StoreOpen(p) PROVE Abandoned(o)'
  BY <1>5 DEF StoreOpen, Goto
<1>6. ASSUME NEW p \in Proc, StoreWrite(p) PROVE Abandoned(o)'
  BY <1>6 DEF StoreWrite
<1>7. ASSUME NEW p \in Proc, WriteRefused(p) \/ CallRefused(p) PROVE Abandoned(o)'
  BY <1>1, <1>7 DEF WriteRefused, CallRefused, Finish, Goto
<1>8. ASSUME NEW p \in Proc, ReadRejected(p) \/ ReadMissing(p) \/ ReadOpen(p)
      PROVE  Abandoned(o)'
  BY <1>1, <1>8 DEF ReadRejected, ReadMissing, ReadOpen, Finish, Goto
<1>9. ASSUME NEW p \in Proc, ReadPiece(p) \/ ReadEnd(p) PROVE Abandoned(o)'
  BY <1>1, <1>9 DEF ReadPiece, ReadEnd, Finish, Goto
<1>10. QED
  BY <1>2, <1>3, <1>4, <1>5, <1>6, <1>7, <1>8, <1>9 DEF StoreNext, StoreStep, StoreFault

(* No store call ever repairs a file that was left with a piece missing. *)
THEOREM StoreNeverRepairs == StoreSpec => TornStaysTorn
<1>1. StoreTypeOK /\ [StoreNext]_storeVars
        => [\A o \in Object : Abandoned(o) => Abandoned(o)']_storeVars
  BY TornStep
<1>2. QED
  BY <1>1, StoreTypeCorrect, PTL DEF StoreSpec, TornStaysTorn

-----------------------------------------------------------------------------
(***************************************************************************)
(* The store implements ObjectDatabase: StoreOpen publishes the object,    *)
(* the other steps that touch the file are invisible, and the call's last  *)
(* step answers.  A read may answer "corrupt" only as                      *)
(* TornReadMeansRaceOrCrash allows.                                        *)
(***************************************************************************)
OpenFilesExist == \A p \in Proc : pc[p] \in {"write", "read"} => obj[p] \in exists

LEMMA OpenFilesInit == StoreInit => OpenFilesExist
BY DEF StoreInit, OpenFilesExist

LEMMA OpenFilesStep ==
  StoreTypeOK /\ OpenFilesExist /\ [StoreNext]_storeVars => OpenFilesExist'
<1> USE DEF OpenFilesExist, StoreTypeOK, disk, history
<1> SUFFICES ASSUME StoreTypeOK, OpenFilesExist, [StoreNext]_storeVars PROVE OpenFilesExist'
  OBVIOUS
<1>1. ASSUME NEW p \in Proc, NEW x, CallStore(p, x) \/ CallRead(p, x) PROVE OpenFilesExist'
  BY <1>1 DEF CallStore, CallRead, Goto
<1>2. ASSUME NEW p \in Proc, Return(p) \/ Kill(p) PROVE OpenFilesExist'
  BY <1>2 DEF Return, Kill, Hang, Goto
<1>3. ASSUME NEW p \in Proc, StoreFound(p) \/ StoreClose(p) \/ StoreMissing(p)
      PROVE  OpenFilesExist'
  BY <1>3 DEF StoreFound, StoreClose, StoreMissing, Finish, Goto
<1>4. ASSUME NEW p \in Proc, StoreOpen(p) \/ StoreWrite(p) PROVE OpenFilesExist'
  BY <1>4 DEF StoreOpen, StoreWrite, Goto
<1>5. ASSUME NEW p \in Proc, WriteRefused(p) \/ CallRefused(p) PROVE OpenFilesExist'
  BY <1>5 DEF WriteRefused, CallRefused, Finish, Goto
<1>6. ASSUME NEW p \in Proc, ReadRejected(p) \/ ReadMissing(p) \/ ReadOpen(p)
      PROVE  OpenFilesExist'
  BY <1>6 DEF ReadRejected, ReadMissing, ReadOpen, Finish, Goto
<1>7. ASSUME NEW p \in Proc, ReadPiece(p) \/ ReadEnd(p) PROVE OpenFilesExist'
  BY <1>7 DEF ReadPiece, ReadEnd, Finish, Goto
<1>8. CASE UNCHANGED storeVars
  BY <1>8 DEF storeVars, call
<1>9. QED
  BY <1>1, <1>2, <1>3, <1>4, <1>5, <1>6, <1>7, <1>8 DEF StoreNext, StoreStep, StoreFault

LEMMA ContractInit == StoreInit => Contract!Init
BY DEF StoreInit, Contract!Init, Phase

LEMMA ContractStep ==
  StoreTypeOK /\ OpenFilesExist /\ TornReadMeansRaceOrCrash' /\ [StoreNext]_storeVars
    => [Contract!Next]_(Contract!vars)
<1> DEFINE phase == [p \in Proc |-> Phase(pc[p])]
<1> SUFFICES ASSUME StoreTypeOK, OpenFilesExist, TornReadMeansRaceOrCrash',
                    [StoreNext]_storeVars
             PROVE  [Contract!Next]_(Contract!vars)
  OBVIOUS
<1> USE DEF disk, history
<1>a. \A p \in Proc : pc[p] \in Step
  BY DEF StoreTypeOK
<1>b. ASSUME NEW p \in Proc, NEW s, Goto(p, s)
      PROVE  phase' = [phase EXCEPT ![p] = Phase(s)]
  BY <1>b DEF Goto, StoreTypeOK
<1>c. ASSUME NEW p \in Proc
      PROVE  /\ pc[p] \in {"check", "open", "write"} => phase[p] = "put"
             /\ pc[p] \in {"find", "read"} => phase[p] = "get"
             /\ pc[p] = "done" => phase[p] = "answered"
             /\ pc[p] = "idle" => phase[p] = "idle"
  BY DEF Phase
<1>d. /\ Phase("check") = "put" /\ Phase("open") = "put" /\ Phase("write") = "put"
      /\ Phase("find") = "get" /\ Phase("read") = "get"
      /\ Phase("done") = "answered" /\ Phase("idle") = "idle"
  BY DEF Phase
<1> HIDE DEF phase
<1>1. ASSUME NEW p \in Proc, NEW o \in Object, CallStore(p, o) PROVE Contract!Next
  <2>1. Contract!Request(p, "put", o)
    BY <1>1, <1>b, <1>c, <1>d DEF CallStore, Contract!Request, phase
  <2>2. QED
    BY <2>1 DEF Contract!Next
<1>2. ASSUME NEW p \in Proc, NEW h \in Object \cup {BadHash}, CallRead(p, h)
      PROVE  Contract!Next
  <2>1. Contract!Request(p, "get", h)
    BY <1>2, <1>b, <1>c, <1>d DEF CallRead, Contract!Request, phase
  <2>2. QED
    BY <2>1 DEF Contract!Next
(* The answer and the end of a call, whatever the run was doing. *)
<1>3. ASSUME NEW p \in Proc, NEW r,
             pc[p] \in {"check", "open", "write", "find", "read"},
             Finish(p, r), UNCHANGED <<exists, obj, raced>>,
             r \in Contract!AnswerOf(p), Contract!CutShort(p)
      PROVE  Contract!Next
  <2>1. phase[p] \in {"put", "get"} /\ phase' = [phase EXCEPT ![p] = "answered"]
    BY <1>3, <1>b, <1>c, <1>d DEF Finish
  <2>2. \E a \in Contract!AnswerOf(p) : res' = [res EXCEPT ![p] = a]
    BY <1>3 DEF Finish
  <2>3. Contract!Answer(p)
    BY <1>3, <2>1, <2>2 DEF Contract!Answer, phase
  <2>4. QED
    BY <2>3 DEF Contract!Next
<1>4. ASSUME NEW p \in Proc, pc[p] # "idle", Hang(p), exists' = exists, Contract!CutShort(p)
      PROVE  Contract!Next
  <2>1. phase[p] # "idle" /\ phase' = [phase EXCEPT ![p] = "idle"]
    BY <1>4, <1>a, <1>b, <1>c, <1>d DEF Hang, Step
  <2>2. Contract!Leave(p)
    BY <1>4, <2>1 DEF Hang, Contract!Leave, phase
  <2>3. QED
    BY <2>2 DEF Contract!Next
<1>e. ASSUME NEW p \in Proc, damaged' = damaged PROVE Contract!CutShort(p)
  BY <1>e DEF Contract!CutShort
<1>f. ASSUME NEW p \in Proc, pc[p] = "write", damaged' = damaged \cup {obj[p]}
      PROVE  Contract!CutShort(p)
  BY <1>c, <1>f DEF Contract!CutShort, phase
<1>5. ASSUME NEW p \in Proc, Return(p) PROVE Contract!Next
  BY <1>4, <1>5, <1>e DEF Return
<1>6. ASSUME NEW p \in Proc, Kill(p) PROVE Contract!Next
  BY <1>4, <1>6, <1>e, <1>f DEF Kill
<1>7. ASSUME NEW p \in Proc, StoreFound(p) \/ StoreClose(p) PROVE Contract!Next
  <2>1. "ok" \in Contract!AnswerOf(p)
    BY <1>7, <1>c DEF StoreFound, StoreClose, Contract!AnswerOf, OpenFilesExist, phase
  <2>2. QED
    BY <1>3, <1>7, <1>e, <2>1 DEF StoreFound, StoreClose
<1>8. ASSUME NEW p \in Proc, StoreOpen(p) PROVE Contract!Next
  <2>1. phase[p] = "put" /\ phase' = phase
    BY <1>8, <1>b, <1>c, <1>d DEF StoreOpen, phase, Goto, Phase
  <2>2. {q \in Proc : pc[q] = "read" /\ obj[q] = obj[p]}
          \in SUBSET {q \in Proc : phase[q] = "get" /\ obj[q] = obj[p]}
    BY <1>c
  <2>3. Contract!Publish(p)
    BY <1>8, <2>1, <2>2 DEF StoreOpen, Contract!Publish, phase
  <2>4. QED
    BY <2>3 DEF Contract!Next
<1>9. ASSUME NEW p \in Proc, WriteRefused(p) PROVE Contract!Next
  <2>1. {"ok", "io_error"} \subseteq Contract!AnswerOf(p)
    BY <1>9, <1>c DEF WriteRefused, Contract!AnswerOf, OpenFilesExist, phase
  <2>2. QED
    BY <1>3, <1>9, <1>f, <2>1 DEF WriteRefused
<1>10. ASSUME NEW p \in Proc, CallRefused(p) PROVE Contract!Next
  <2>1. "io_error" \in Contract!AnswerOf(p)
    BY DEF Contract!AnswerOf
  <2>2. QED
    BY <1>3, <1>10, <1>e, <2>1 DEF CallRefused
<1>11. ASSUME NEW p \in Proc, ReadRejected(p) PROVE Contract!Next
  <2>1. "object_hash_invalid" \in Contract!AnswerOf(p)
    BY <1>11, <1>c DEF ReadRejected, Contract!AnswerOf, phase
  <2>2. QED
    BY <1>3, <1>11, <1>e, <2>1 DEF ReadRejected
<1>12. ASSUME NEW p \in Proc, ReadMissing(p) PROVE Contract!Next
  <2>1. "object_not_found" \in Contract!AnswerOf(p)
    BY <1>12, <1>c DEF ReadMissing, Contract!AnswerOf, phase
  <2>2. QED
    BY <1>3, <1>12, <1>e, <2>1 DEF ReadMissing
<1>13. ASSUME NEW p \in Proc, ReadOpen(p) PROVE [Contract!Next]_(Contract!vars)
  <2>1. phase[p] = "get" /\ phase' = phase
    BY <1>13, <1>b, <1>c, <1>d DEF ReadOpen, phase, Goto, Phase
  <2>2. CASE \E q \in Proc : Writing(q, obj[p])
    <3>1. Contract!InFlight(obj[p])
      BY <1>c, <2>2 DEF Writing, Contract!InFlight, phase
    <3>2. Contract!Overlap(p)
      BY <1>13, <2>1, <2>2, <3>1 DEF ReadOpen, Contract!Overlap, phase
    <3>3. QED
      BY <3>2 DEF Contract!Next
  <2>3. CASE ~ \E q \in Proc : Writing(q, obj[p])
    BY <1>13, <2>1, <2>3 DEF ReadOpen, Contract!vars, phase
  <2>4. QED
    BY <2>2, <2>3
<1>14. ASSUME NEW p \in Proc, StoreMissing(p) \/ StoreWrite(p) \/ ReadPiece(p)
       PROVE  UNCHANGED Contract!vars
  <2>1. CASE StoreMissing(p)
    <3>1. phase' = phase
      BY <1>b, <1>c, <1>d, <2>1 DEF StoreMissing, phase, Goto, Phase
    <3>2. QED
      BY <2>1, <3>1 DEF StoreMissing, Contract!vars, phase
  <2>2. CASE StoreWrite(p) \/ ReadPiece(p)
    BY <2>2 DEF StoreWrite, ReadPiece, Contract!vars
  <2>3. QED
    BY <1>14, <2>1, <2>2
<1>15. ASSUME NEW p \in Proc, ReadEnd(p) PROVE Contract!Next
  <2> DEFINE r == ExtractBody(ZlibDecompressString(p))
  <2>1. r \in {"ok"} \cup Torn
    BY DEF ExtractBody, ZlibDecompressString, Torn
  <2>2. pc'[p] = "done" /\ res'[p] = r /\ obj' = obj /\ raced' = raced /\ damaged' = damaged
    BY <1>15 DEF ReadEnd, Finish, Goto, StoreTypeOK
  <2>3. r \in Torn => p \in raced \/ obj[p] \in damaged
    BY <2>2 DEF TornReadMeansRaceOrCrash
  <2>4. phase[p] = "get" /\ obj[p] \in exists
    BY <1>15, <1>c DEF ReadEnd, OpenFilesExist
  <2>5. r \in Contract!AnswerOf(p)
    BY <2>1, <2>3, <2>4 DEF Contract!AnswerOf, Torn, phase
  <2>6. QED
    BY <1>3, <1>15, <1>e, <2>5 DEF ReadEnd
<1>16. CASE UNCHANGED storeVars
  BY <1>16 DEF storeVars, call, Contract!vars, phase
<1>17. QED
  BY <1>1, <1>2, <1>5, <1>6, <1>7, <1>8, <1>9, <1>10, <1>11, <1>12, <1>13, <1>14,
     <1>15, <1>16
  DEF StoreNext, StoreStep, StoreFault

(* Every run of the store is a run of the contract. *)
THEOREM StoreImplementsContract == StoreSpec => ImplementsContract
<1>1. StoreSpec => []OpenFilesExist
  BY OpenFilesInit, OpenFilesStep, StoreTypeCorrect, PTL DEF StoreSpec
<1>2. QED
  BY <1>1, ContractInit, ContractStep, StoreTypeCorrect, StoreTornReadsHaveCause, PTL
  DEF StoreSpec, ImplementsContract, Contract!Spec

-----------------------------------------------------------------------------
(***************************************************************************)
(* What the proofs about the clients of the store need to know of a call.  *)
(***************************************************************************)
(* A store or read call that is answered "ok" has found its object's file. *)
OkMeansStored == \A p \in Proc : pc[p] = "done" /\ res[p] = "ok" => obj[p] \in exists

LEMMA OkMeansStoredStep ==
  StoreTypeOK /\ OpenFilesExist /\ OkMeansStored /\ [StoreNext]_storeVars => OkMeansStored'
<1> USE DEF OkMeansStored, StoreTypeOK, disk, history
<1> SUFFICES ASSUME StoreTypeOK, OpenFilesExist, OkMeansStored, [StoreNext]_storeVars
             PROVE  OkMeansStored'
  OBVIOUS
<1>1. ASSUME NEW p \in Proc, NEW x, CallStore(p, x) \/ CallRead(p, x) PROVE OkMeansStored'
  BY <1>1 DEF CallStore, CallRead, Goto
<1>2. ASSUME NEW p \in Proc, Return(p) \/ Kill(p) PROVE OkMeansStored'
  BY <1>2 DEF Return, Kill, Hang, Goto
<1>3. ASSUME NEW p \in Proc, StoreFound(p) \/ StoreClose(p) \/ WriteRefused(p)
      PROVE  OkMeansStored'
  BY <1>3 DEF StoreFound, StoreClose, WriteRefused, Finish, Goto, OpenFilesExist
<1>4. ASSUME NEW p \in Proc, StoreMissing(p) \/ StoreOpen(p) \/ StoreWrite(p)
      PROVE  OkMeansStored'
  BY <1>4 DEF StoreMissing, StoreOpen, StoreWrite, Goto
<1>5. ASSUME NEW p \in Proc, CallRefused(p) \/ ReadRejected(p) \/ ReadMissing(p)
      PROVE  OkMeansStored'
  BY <1>5 DEF CallRefused, ReadRejected, ReadMissing, Finish, Goto
<1>6. ASSUME NEW p \in Proc, ReadOpen(p) \/ ReadPiece(p) PROVE OkMeansStored'
  BY <1>6 DEF ReadOpen, ReadPiece, Goto
<1>7. ASSUME NEW p \in Proc, ReadEnd(p) PROVE OkMeansStored'
  BY <1>7 DEF ReadEnd, Finish, Goto, OpenFilesExist
<1>8. CASE UNCHANGED storeVars
  BY <1>8 DEF storeVars, call
<1>9. QED
  BY <1>1, <1>2, <1>3, <1>4, <1>5, <1>6, <1>7, <1>8 DEF StoreNext, StoreStep, StoreFault

(* What a step does to the calls of the other runs, and to its own. *)
LEMMA CallEffects ==
  ASSUME StoreTypeOK, NEW p \in Proc
  PROVE  /\ \A o : CallStore(p, o) \/ CallRead(p, o)
                  => /\ pc[p] = "idle" /\ pc'[p] # "idle" /\ obj'[p] = o
                     /\ exists' = exists
                     /\ \A q \in Proc \ {p} : pc'[q] = pc[q] /\ obj'[q] = obj[q]
         /\ Return(p) \/ Kill(p)
              => /\ pc[p] # "idle" /\ pc'[p] = "idle" /\ exists' = exists
                 /\ \A q \in Proc \ {p} : pc'[q] = pc[q] /\ obj'[q] = obj[q]
         /\ StoreStep(p) \/ StoreFault(p)
              => /\ pc[p] # "idle" /\ pc'[p] # "idle" /\ obj' = obj
                 /\ exists \subseteq exists'
                 /\ \A q \in Proc \ {p} : pc'[q] = pc[q]
<1> USE DEF StoreTypeOK, disk, history
<1>1. ASSUME NEW o, CallStore(p, o) \/ CallRead(p, o)
      PROVE  /\ pc[p] = "idle" /\ pc'[p] # "idle" /\ obj'[p] = o
             /\ exists' = exists
             /\ \A q \in Proc \ {p} : pc'[q] = pc[q] /\ obj'[q] = obj[q]
  BY <1>1 DEF CallStore, CallRead, Goto
<1>2. ASSUME Return(p) \/ Kill(p)
      PROVE  /\ pc[p] # "idle" /\ pc'[p] = "idle" /\ exists' = exists
             /\ \A q \in Proc \ {p} : pc'[q] = pc[q] /\ obj'[q] = obj[q]
  BY <1>2 DEF Return, Kill, Hang, Goto
<1>3. ASSUME StoreStep(p) \/ StoreFault(p)
      PROVE  /\ pc[p] # "idle" /\ pc'[p] # "idle" /\ obj' = obj
             /\ exists \subseteq exists'
             /\ \A q \in Proc \ {p} : pc'[q] = pc[q]
  <2>1. CASE StoreFound(p) \/ StoreMissing(p) \/ StoreOpen(p) \/ StoreWrite(p) \/ StoreClose(p)
    BY <2>1 DEF StoreFound, StoreMissing, StoreOpen, StoreWrite, StoreClose, Finish, Goto
  <2>2. CASE ReadRejected(p) \/ ReadMissing(p) \/ ReadOpen(p) \/ ReadPiece(p) \/ ReadEnd(p)
    BY <2>2 DEF ReadRejected, ReadMissing, ReadOpen, ReadPiece, ReadEnd, Finish, Goto
  <2>3. CASE WriteRefused(p) \/ CallRefused(p)
    BY <2>3 DEF WriteRefused, CallRefused, Finish, Goto
  <2>4. QED
    BY <1>3, <2>1, <2>2, <2>3 DEF StoreStep, StoreFault
<1>4. QED
  BY <1>1, <1>2, <1>3

(* No step of the store takes an object out of it. *)
LEMMA StoreOnlyGrows ==
  ASSUME [StoreNext]_storeVars
  PROVE  exists \subseteq exists'
<1>1. ASSUME NEW p \in Proc, StoreStep(p) PROVE exists \subseteq exists'
  BY <1>1 DEF StoreStep, StoreFound, StoreMissing, StoreOpen, StoreWrite, StoreClose,
              ReadRejected, ReadMissing, ReadOpen, ReadPiece, ReadEnd, disk
<1>2. ASSUME NEW p \in Proc, StoreFault(p) \/ Return(p) \/ Kill(p)
      PROVE  exists \subseteq exists'
  BY <1>2 DEF StoreFault, WriteRefused, CallRefused, Return, Kill, disk
<1>3. ASSUME NEW p \in Proc, NEW x, CallStore(p, x) \/ CallRead(p, x)
      PROVE  exists \subseteq exists'
  BY <1>3 DEF CallStore, CallRead, disk
<1>4. CASE UNCHANGED storeVars
  BY <1>4 DEF storeVars, disk
<1>5. QED
  BY <1>1, <1>2, <1>3, <1>4 DEF StoreNext
=============================================================================

------------------------------ MODULE CloneProofs ------------------------------
(***************************************************************************)
(* Proofs about Clone, for every remote, every number of clones and every  *)
(* bound: a clone unpacks as module Unpack says, so that what is proved    *)
(* there holds of it, and a clone that reports success has restored the    *)
(* tree of the commit it selected.                                         *)
(***************************************************************************)
EXTENDS Clone, UnpackProofs, Induction

-----------------------------------------------------------------------------
(* What the entries of a tree are, and what the frames of a walk hold.     *)
LEMMA ElementOf ==
  ASSUME NEW S, NEW s \in Seq(S)
  PROVE  Len(s) \in Nat /\ \A i \in 1 .. Len(s) : s[i] \in S
OBVIOUS

LEMMA ReplaceIn ==
  ASSUME NEW S, NEW s \in Seq(S), NEW n \in 1 .. Len(s), NEW x \in S
  PROVE  /\ [s EXCEPT ![n] = x] \in Seq(S)
         /\ Len([s EXCEPT ![n] = x]) = Len(s)
         /\ [s EXCEPT ![n] = x][n] = x
         /\ \A i \in 1 .. n - 1 : [s EXCEPT ![n] = x][i] = s[i]
OBVIOUS

LEMMA EntriesType ==
  ASSUME NEW o \in Object, Entries(o) # Malformed
  PROVE  /\ Entries(o) \in Seq(GitTreeEntry)
         /\ Len(Entries(o)) \in Nat
         /\ \A i \in 1 .. Len(Entries(o)) :
              Entries(o)[i].hash \in Object /\ Entries(o)[i].name \in STRING
<1>1. o.body \in Body
  BY UnpackAssumption
<1>2. Entries(o) \in Seq(GitTreeEntry)
  BY <1>1, CloneAssumption DEF Entries
<1>3. \A i \in 1 .. Len(Entries(o)) :
        Entries(o)[i] \in GitTreeEntry
  BY ONLY <1>2, ElementOf
<1>4. QED
  BY ONLY <1>2, <1>3, ElementOf DEF GitTreeEntry

LEMMA ChildType ==
  ASSUME NEW n \in Path, NEW e, e.name \in STRING
  PROVE  Child(n, e) \in Path
BY DEF Child, Path

LEMMA TopFrame ==
  ASSUME CloneTypeOK, NEW p \in Proc, todo[p] # << >>
  PROVE  /\ Len(todo[p]) \in Nat \ {0}
         /\ Top(p) = todo[p][Len(todo[p])]
         /\ Top(p) \in Frames
         /\ Entries(Top(p).tree) # Malformed
         /\ Top(p).next \in 1 .. Len(Entries(Top(p).tree)) + 1
<1>1. todo[p] \in Seq(Frames) /\ PlaceOK(p)
  BY DEF CloneTypeOK
<1>2. Len(todo[p]) \in Nat \ {0} /\ Len(todo[p]) \in 1 .. Len(todo[p])
  BY ONLY <1>1, todo[p] # << >>
<1>3. Top(p) = todo[p][Len(todo[p])]
  BY DEF Top, Last
<1>4. Top(p) \in Frames
  BY ONLY <1>1, <1>2, <1>3, ElementOf
<1>5. \A i \in 1 .. Len(todo[p]) :
        /\ Entries(todo[p][i].tree) # Malformed
        /\ todo[p][i].next \in 1 .. Len(Entries(todo[p][i].tree)) + 1
  BY ONLY <1>1 DEF PlaceOK
<1>6. QED
  BY ONLY <1>2, <1>3, <1>4, <1>5

LEMMA EntryAtHand ==
  ASSUME CloneTypeOK, NEW p \in Proc, AtEntry(p)
  PROVE  /\ todo[p] # << >>
         /\ NextEntry(p).hash \in Object
         /\ PathAt(p) \in Path
<1>1. todo[p] # << >>
  BY DEF CloneTypeOK, PlaceOK, AtEntry
<1>2. /\ Top(p).next \in 1 .. Len(Entries(Top(p).tree))
      /\ Top(p).tree \in Object /\ Top(p).dir \in Path
  BY <1>1, TopFrame, EntriesType DEF AtEntry, Frames
<1>3. QED
  BY <1>1, <1>2, TopFrame, EntriesType, ChildType DEF NextEntry, PathAt

-----------------------------------------------------------------------------
(* What a step of p does to what Unpack keeps of the others, and of p.     *)
OtherRuns(p) == \A q \in Proc \ {p} : UNCHANGED <<OwnState(q), out[q], head_body[q]>>

LEMMA CallRuns ==
  ASSUME TypeOK, NEW p \in Proc, NEW h, CallRead(p, h) \/ Return(p), UNCHANGED unpackVars
  PROVE  OtherRuns(p)
BY CallEffects DEF TypeOK, unpackVars, unpack, OtherRuns, OwnState

LEMMA StepOfEffects ==
  ASSUME TypeOK, NEW p \in Proc, StepOf(p)
  PROVE  /\ OtherRuns(p) /\ head_hash' = head_hash
         /\ at[p] \notin {"idle", "exit"} =>
              at'[p] # "idle" /\ (at'[p] = "exit" => pc'[p] = "idle")
         /\ at[p] \in {"idle", "exit"} =>
              /\ UNCHANGED <<at, out, head_body>> /\ obj' = obj
              /\ pc[p] # "idle" /\ pc'[p] # "idle"
<1>a. /\ at \in [Proc -> At] /\ index \in [Proc -> Nat] /\ parsed \in [Proc -> Object \cup {None}]
      /\ head_body \in [Proc -> Body] /\ out \in [Proc -> Status]
      /\ StoreTypeOK /\ \A q \in Proc : RunTypeOK(q)
  BY DEF TypeOK, UnpackTypeOK
<1>1. CASE StreamEnds(p) \/ OffsetDelta(p) \/ UnpackEnd(p)
  <2>1. /\ UNCHANGED <<pc, obj, response, head_hash, index, parsed, head_body>>
        /\ at[p] = "object" /\ \E s : Exit(p, s)
    BY <1>1 DEF StreamEnds, OffsetDelta, UnpackEnd, AtRecord, storeVars, call
  <2>2. pc[p] = "idle"
    BY <1>a, <2>1 DEF RunTypeOK
  <2>3. QED
    BY <1>a, <2>1, <2>2 DEF Exit, GoTo, OtherRuns, OwnState
<1>2. CASE RegularObject(p)
  <2>1. /\ UNCHANGED <<pc, obj, response, head_hash, index, head_body>>
        /\ at[p] = "object" /\ pc[p] = "idle"
    BY <1>a, <1>2 DEF RegularObject, AtRecord, storeVars, call, RunTypeOK
  <2>2. QED
    BY <1>a, <1>2, <2>1 DEF RegularObject, Exit, GoTo, OtherRuns, OwnState
<1>3. CASE ReferenceDelta(p)
  <2>1. /\ UNCHANGED <<response, head_hash, index, parsed, head_body>>
        /\ at[p] = "object" /\ pc[p] = "idle"
    BY <1>a, <1>3 DEF ReferenceDelta, AtRecord, RunTypeOK
  <2>2. \/ Exit(p, "pack_delta_invalid") /\ UNCHANGED <<pc, obj>>
        \/ GoTo(p, "base") /\ UNCHANGED out /\ CallRead(p, NextRecord(p).base)
    BY <1>3 DEF ReferenceDelta, storeVars, call
  <2>3. QED
    BY <1>a, <2>1, <2>2, CallEffects DEF Exit, GoTo, OtherRuns, OwnState
<1>4. CASE BaseRead(p)
  <2>1. UNCHANGED <<response, head_hash, index, head_body>> /\ at[p] = "base" /\ Return(p)
    BY <1>4 DEF BaseRead
  <2>2. /\ \A q \in Proc \ {p} : parsed'[q] = parsed[q]
        /\ (\E s : Exit(p, s)) \/ (GoTo(p, "parsed") /\ UNCHANGED out)
    BY <1>a, <1>4 DEF BaseRead
  <2>3. QED
    BY <1>a, <2>1, <2>2, CallEffects DEF Exit, GoTo, OtherRuns, OwnState
<1>5. CASE StoreParsed(p)
  <2>1. /\ UNCHANGED <<response, head_hash, index, parsed, head_body, out>>
        /\ at[p] = "parsed" /\ GoTo(p, "store") /\ CallStore(p, parsed[p])
    BY <1>5 DEF StoreParsed
  <2>2. QED
    BY <1>a, <2>1, CallEffects DEF GoTo, OtherRuns, OwnState
<1>6. CASE ObjectStored(p)
  <2>1. UNCHANGED <<response, head_hash, parsed>> /\ at[p] = "store" /\ Return(p)
    BY <1>6 DEF ObjectStored
  <2>2. /\ \A q \in Proc \ {p} : index'[q] = index[q] /\ head_body'[q] = head_body[q]
        /\ (\E s : Exit(p, s)) \/ (GoTo(p, "object") /\ UNCHANGED out)
    BY <1>a, <1>6 DEF ObjectStored
  <2>3. QED
    BY <1>a, <2>1, <2>2, CallEffects DEF Exit, GoTo, OtherRuns, OwnState
<1>7. CASE StoreStep(p) /\ UNCHANGED <<unpack, starts, torn>>
  <2>1. pc[p] # "idle" /\ pc'[p] # "idle" /\ obj' = obj /\ \A q \in Proc \ {p} : pc'[q] = pc[q]
    BY <1>a, <1>7, CallEffects
  <2>2. at[p] \in {"idle", "exit"} \/ at[p] \in {"base", "store"}
    BY <1>a, <2>1 DEF RunTypeOK, At
  <2>3. QED
    BY <1>7, <2>1, <2>2 DEF unpack, OtherRuns, OwnState
<1>8. QED
  BY <1>1, <1>2, <1>3, <1>4, <1>5, <1>6, <1>7 DEF StepOf

LEMMA RunEndsEffects ==
  ASSUME TypeOK, NEW p \in Proc, Leave(p) \/ KillUnpack(p)
  PROVE  OtherRuns(p) /\ at'[p] = "idle" /\ pc'[p] = "idle"
<1>a. /\ at \in [Proc -> At] /\ StoreTypeOK
      /\ response \in [Proc -> Response \cup {None}] /\ head_hash \in [Proc -> HeadHash \cup {None}]
      /\ index \in [Proc -> Nat] /\ parsed \in [Proc -> Object \cup {None}]
      /\ head_body \in [Proc -> Body] /\ out \in [Proc -> Status]
  BY DEF TypeOK, UnpackTypeOK
<1>1. Reset(p)
  BY DEF Leave, KillUnpack
<1>2. pc'[p] = "idle" /\ \A q \in Proc \ {p} : pc'[q] = pc[q] /\ obj'[q] = obj[q]
  <2>1. CASE UNCHANGED storeVars /\ pc[p] = "idle"
    BY <2>1 DEF storeVars, call
  <2>2. CASE Kill(p)
    BY <2>2, <1>a, CallEffects
  <2>3. QED
    BY <2>1, <2>2 DEF Leave, KillUnpack
<1>3. QED
  BY <1>a, <1>1, <1>2 DEF Reset, GoTo, OtherRuns, OwnState

-----------------------------------------------------------------------------
(***************************************************************************)
(* The type invariant.  It ties together where a clone stands, where the   *)
(* unpacking stands and whether a call to the store is under way.          *)
(***************************************************************************)
CloneOwn(p) == <<stage[p], head[p], target[p], todo[p], blob[p], sent[p], ended[p]>>

LEMMA PlaceUntouched ==
  ASSUME NEW p \in Proc, PlaceOK(p),
         UNCHANGED <<CloneOwn(p), at[p], out[p], pc[p], obj[p]>>
  PROVE  PlaceOK(p)'
BY DEF PlaceOK, CloneOwn

(* The parts of the type invariant: the clones, what they restored, the remote. *)
RunsType ==
  /\ stage \in [Proc -> Stage]
  /\ head \in [Proc -> HeadHash \cup {None}]
  /\ target \in [Proc -> Path]
  /\ todo \in [Proc -> Seq(Frames)]
  /\ blob \in [Proc -> Object \cup {None}]
  /\ sent \in [Proc -> 0 .. NPieces]
  /\ ended \in [Proc -> CloneStatus]
WorkType ==
  /\ DOMAIN work \subseteq Path /\ work \in [DOMAIN work -> FileContent \cup {Directory}]
RestType ==
  /\ remote \in Listings
  /\ moves \in 0 .. MaxMoves
  /\ dirs \in [Proc -> SUBSET (Path \X Object)]
  /\ files \in [Proc -> SUBSET (Path \X Object)]
  /\ lost \in [Proc -> SUBSET Path]
  /\ over \in [Proc -> SUBSET Proc]
  /\ unsure \subseteq Proc

LEMMA TypesAre ==
  CloneTypeOK <=> RunsType /\ WorkType /\ RestType /\ \A p \in Proc : PlaceOK(p)
BY DEF CloneTypeOK, RunsType, WorkType, RestType

LEMMA PutType ==
  ASSUME WorkType, NEW n \in Path, NEW v \in FileContent \cup {Directory}, Put(n, v)
  PROVE  /\ WorkType'
         /\ DOMAIN work' = DOMAIN work \cup {n} /\ work'[n] = v
         /\ \A m \in DOMAIN work \ {n} : work'[m] = work[m]
BY DEF WorkType, Put

(* Going elsewhere and ending leave the other clones where they are. *)
LEMMA EnterType ==
  ASSUME RunsType, NEW p \in Proc, NEW s \in Stage, Enter(p, s)
  PROVE  /\ stage' \in [Proc -> Stage] /\ stage'[p] = s
         /\ \A q \in Proc \ {p} : stage'[q] = stage[q]
BY DEF RunsType, Enter

LEMMA CloneEndType ==
  ASSUME RunsType, NEW p \in Proc, NEW s \in CloneStatus, CloneEnd(p, s)
  PROVE  /\ stage' \in [Proc -> Stage] /\ stage'[p] = "exit"
         /\ ended' \in [Proc -> CloneStatus] /\ ended'[p] = s
         /\ \A q \in Proc \ {p} : stage'[q] = stage[q] /\ ended'[q] = ended[q]
BY DEF RunsType, CloneEnd, Enter, Stage

LEMMA CloneTypeInit == CloneInit => CloneTypeOK
<1> SUFFICES ASSUME CloneInit PROVE CloneTypeOK
  OBVIOUS
<1>a. Root \in Path /\ << >> \in Seq(Frames)
  BY ONLY DEF Path, Root
<1>1. RunsType
  <2>1. 0 \in 0 .. NPieces
    BY StoreAssumption
  <2>2. QED
    BY <1>a, <2>1 DEF CloneInit, RunsType, Stage, CloneStatus, Status
<1>b. RestType
  BY CloneAssumption DEF CloneInit, RestType
<1>2. WorkType
  BY CloneAssumption DEF CloneInit, WorkType
<1>3. ASSUME NEW p \in Proc PROVE PlaceOK(p)
  <2>1. /\ stage[p] = "idle" /\ todo[p] = << >>
        /\ at[p] = "idle" /\ pc[p] = "idle"
    BY DEF CloneInit, Init, StoreInit
  <2>2. QED
    BY <2>1 DEF PlaceOK
<1>4. QED
  BY <1>1, <1>b, <1>2, <1>3, TypesAre

(* How a walk's frames change. *)
FramesOK(s) ==
  \A i \in 1 .. Len(s) : /\ Entries(s[i].tree) # Malformed
                         /\ s[i].next \in 1 .. Len(Entries(s[i].tree)) + 1

LEMMA PushFrame ==
  ASSUME CloneTypeOK, NEW p \in Proc, NEW o \in Object, Entries(o) # Malformed,
         todo' = [todo EXCEPT ![p] = Append(@, Frame(target[p], o))]
  PROVE  /\ todo' \in [Proc -> Seq(Frames)] /\ FramesOK(todo'[p])
         /\ \A q \in Proc \ {p} : todo'[q] = todo[q]
         /\ Len(todo'[p]) = Len(todo[p]) + 1 /\ todo'[p] # << >>
         /\ todo'[p][Len(todo[p]) + 1] = Frame(target[p], o)
         /\ \A i \in 1 .. Len(todo[p]) : todo'[p][i] = todo[p][i]
<1>1. todo \in [Proc -> Seq(Frames)] /\ todo[p] \in Seq(Frames) /\ FramesOK(todo[p])
  BY DEF CloneTypeOK, PlaceOK, FramesOK
<1>2. Frame(target[p], o) \in Frames
  BY DEF CloneTypeOK, Frame, Frames
<1>3. /\ todo'[p] = Append(todo[p], Frame(target[p], o))
      /\ \A q \in Proc \ {p} : todo'[q] = todo[q]
  BY ONLY <1>1, todo' = [todo EXCEPT ![p] = Append(@, Frame(target[p], o))]
<1>4. /\ todo'[p] \in Seq(Frames) /\ Len(todo'[p]) = Len(todo[p]) + 1 /\ Len(todo[p]) \in Nat
      /\ todo'[p][Len(todo[p]) + 1] = Frame(target[p], o)
      /\ \A i \in 1 .. Len(todo[p]) : todo'[p][i] = todo[p][i]
  BY ONLY <1>1, <1>2, <1>3
<1>5. todo' \in [Proc -> Seq(Frames)]
  BY ONLY <1>1, <1>3, <1>4, todo' = [todo EXCEPT ![p] = Append(@, Frame(target[p], o))]
<1>6. todo'[p] # << >>
  BY ONLY <1>4
<1>7. Len(Entries(o)) \in Nat
  BY EntriesType
<1>8. FramesOK(todo'[p])
  <2>1. ASSUME NEW i \in 1 .. Len(todo'[p])
        PROVE  /\ Entries(todo'[p][i].tree) # Malformed
               /\ todo'[p][i].next \in 1 .. Len(Entries(todo'[p][i].tree)) + 1
    <3>1. i \in 1 .. Len(todo[p]) \/ i = Len(todo[p]) + 1
      BY ONLY <1>4, <2>1
    <3>2. CASE i \in 1 .. Len(todo[p])
      BY ONLY <1>1, <1>4, <3>2 DEF FramesOK
    <3>3. CASE i = Len(todo[p]) + 1
      BY ONLY <1>4, <1>7, <3>3, Entries(o) # Malformed DEF Frame
    <3>4. QED
      BY <3>1, <3>2, <3>3
  <2>2. QED
    BY <2>1 DEF FramesOK
<1>9. QED
  BY ONLY <1>3, <1>4, <1>5, <1>6, <1>8

LEMMA AdvanceFrame ==
  ASSUME CloneTypeOK, NEW p \in Proc, AtEntry(p), Advance(p)
  PROVE  /\ todo' \in [Proc -> Seq(Frames)] /\ FramesOK(todo'[p])
         /\ \A q \in Proc \ {p} : todo'[q] = todo[q]
         /\ Len(todo'[p]) = Len(todo[p]) /\ todo'[p] # << >>
         /\ todo'[p][Len(todo[p])] = [Top(p) EXCEPT !.next = @ + 1]
         /\ \A i \in 1 .. Len(todo[p]) - 1 : todo'[p][i] = todo[p][i]
<1> DEFINE n == Len(todo[p])
<1>1. todo \in [Proc -> Seq(Frames)] /\ todo[p] \in Seq(Frames) /\ FramesOK(todo[p])
  BY DEF CloneTypeOK, PlaceOK, FramesOK
<1>2. /\ n \in Nat \ {0} /\ Top(p) = todo[p][n] /\ Top(p) \in Frames
      /\ Entries(Top(p).tree) # Malformed
  BY EntryAtHand, TopFrame
<1>3. Top(p).next \in 1 .. Len(Entries(Top(p).tree)) /\ Len(Entries(Top(p).tree)) \in Nat
  BY <1>2, EntryAtHand, TopFrame, EntriesType DEF AtEntry, Frames
<1>4. todo' = [todo EXCEPT ![p][n].next = @ + 1]
  BY DEF Advance
<1>5. /\ todo'[p] = [todo[p] EXCEPT ![n] = [Top(p) EXCEPT !.next = @ + 1]]
      /\ \A q \in Proc \ {p} : todo'[q] = todo[q]
  <2>1. todo'[p] = [todo[p] EXCEPT ![n].next = @ + 1]
    BY ONLY <1>1, <1>4
  <2>2. \A q \in Proc \ {p} : todo'[q] = todo[q]
    BY ONLY <1>1, <1>4
  <2>3. QED
    BY ONLY <1>2, <2>1, <2>2
<1>6. [Top(p) EXCEPT !.next = @ + 1] \in Frames
  BY ONLY <1>2, <1>3 DEF Frames
<1>7. /\ todo'[p] \in Seq(Frames) /\ Len(todo'[p]) = n
      /\ todo'[p][n] = [Top(p) EXCEPT !.next = @ + 1]
      /\ \A i \in 1 .. n - 1 : todo'[p][i] = todo[p][i]
  <2>1. n \in 1 .. Len(todo[p])
    BY ONLY <1>2
  <2>2. QED
    BY ONLY <1>1, <1>5, <1>6, <2>1, ReplaceIn
<1>8. todo' \in [Proc -> Seq(Frames)]
  BY ONLY <1>1, <1>4, <1>5, <1>7
<1>9. todo'[p] # << >>
  BY ONLY <1>2, <1>7
<1>10. FramesOK(todo'[p])
  <2>1. ASSUME NEW i \in 1 .. Len(todo'[p])
        PROVE  /\ Entries(todo'[p][i].tree) # Malformed
               /\ todo'[p][i].next \in 1 .. Len(Entries(todo'[p][i].tree)) + 1
    <3>1. i \in 1 .. n - 1 \/ i = n
      BY ONLY <1>2, <1>7, <2>1
    <3>2. CASE i \in 1 .. n - 1
      BY ONLY <1>1, <1>2, <1>7, <3>2 DEF FramesOK
    <3>3. CASE i = n
      <4>1. todo'[p][i].tree = Top(p).tree /\ todo'[p][i].next = Top(p).next + 1
        BY ONLY <1>2, <1>7, <3>3 DEF Frames
      <4>2. QED
        BY ONLY <1>2, <1>3, <4>1
    <3>4. QED
      BY <3>1, <3>2, <3>3
  <2>2. QED
    BY <2>1 DEF FramesOK
<1>11. QED
  BY ONLY <1>5, <1>7, <1>8, <1>9, <1>10

LEMMA PopFrame ==
  ASSUME CloneTypeOK, NEW p \in Proc, todo[p] # << >>, todo' = [todo EXCEPT ![p] = Front(@)]
  PROVE  /\ todo' \in [Proc -> Seq(Frames)] /\ FramesOK(todo'[p])
         /\ \A q \in Proc \ {p} : todo'[q] = todo[q]
         /\ Len(todo'[p]) = Len(todo[p]) - 1
         /\ \A i \in 1 .. Len(todo[p]) - 1 : todo'[p][i] = todo[p][i]
<1>1. todo \in [Proc -> Seq(Frames)] /\ todo[p] \in Seq(Frames) /\ FramesOK(todo[p])
  BY DEF CloneTypeOK, PlaceOK, FramesOK
<1>2. Len(todo[p]) \in Nat \ {0}
  BY TopFrame
<1>3. /\ todo'[p] = SubSeq(todo[p], 1, Len(todo[p]) - 1)
      /\ \A q \in Proc \ {p} : todo'[q] = todo[q]
  BY ONLY <1>1, todo' = [todo EXCEPT ![p] = Front(@)] DEF Front
<1>4. /\ todo'[p] \in Seq(Frames) /\ Len(todo'[p]) = Len(todo[p]) - 1
      /\ \A i \in 1 .. Len(todo[p]) - 1 : todo'[p][i] = todo[p][i]
  <2> DEFINE n == Len(todo[p])
  <2>1. n - 1 \in Int /\ \A i \in 1 .. n - 1 : todo[p][i] \in Frames
    BY ONLY <1>1, <1>2, ElementOf
  <2>2. /\ SubSeq(todo[p], 1, n - 1) \in Seq(Frames)
        /\ Len(SubSeq(todo[p], 1, n - 1)) = n - 1
        /\ \A i \in 1 .. n - 1 : SubSeq(todo[p], 1, n - 1)[i] = todo[p][i]
    <3>1. /\ SubSeq(todo[p], 1, n - 1) \in Seq(Frames)
          /\ Len(SubSeq(todo[p], 1, n - 1)) = IF 1 <= n - 1 THEN (n - 1) - 1 + 1 ELSE 0
          /\ \A i \in 1 .. (n - 1) - 1 + 1 : SubSeq(todo[p], 1, n - 1)[i] = todo[p][1 + i - 1]
      BY ONLY <2>1, SubSeqProperties
    <3>2. QED
      BY ONLY <1>2, <3>1
  <2>3. QED
    BY ONLY <1>3, <2>2
<1>5. todo' \in [Proc -> Seq(Frames)]
  BY ONLY <1>1, <1>3, <1>4, todo' = [todo EXCEPT ![p] = Front(@)]
<1>6. FramesOK(todo'[p])
  <2>1. ASSUME NEW i \in 1 .. Len(todo'[p])
        PROVE  /\ Entries(todo'[p][i].tree) # Malformed
               /\ todo'[p][i].next \in 1 .. Len(Entries(todo'[p][i].tree)) + 1
    <3>1. i \in 1 .. Len(todo[p]) /\ todo'[p][i] = todo[p][i]
      BY ONLY <1>2, <1>4, <2>1
    <3>2. QED
      BY ONLY <1>1, <3>1 DEF FramesOK
  <2>2. QED
    BY <2>1 DEF FramesOK
<1>7. QED
  BY ONLY <1>3, <1>4, <1>5, <1>6

-----------------------------------------------------------------------------
(* What is selected is listed, and what answers is a response. *)
LEMMA SelectedIsListed ==
  ASSUME NEW l \in Listings, NEW h \in SelectHeadHash(l)
  PROVE  h \in HeadHash
<1>1. PICK ref : h \in FindRefHash(l, ref)
  BY DEF SelectHeadHash
<1>2. PICK i \in 1 .. Len(l) : h = l[i].hash
  BY <1>1 DEF FindRefHash, Found
<1>3. l \in Seq(ListedRef)
  BY CloneAssumption
<1>4. l[i] \in ListedRef
  BY <1>3
<1>5. QED
  BY <1>2, <1>4 DEF ListedRef

LEMMA AnswersAreResponses ==
  ASSUME NEW h \in HeadHash, NEW r \in Answers(h)
  PROVE  r \in Response
BY CloneAssumption DEF Answers

LEMMA UnpackAndStoreEffects ==
  ASSUME TypeOK, NEW p \in Proc, NEW r, NEW h, UnpackAndStore(p, r, h)
  PROVE  /\ OtherRuns(p) /\ at'[p] \in {"object", "exit"} /\ head_hash'[p] = h
         /\ UNCHANGED <<pc, obj, storeVars>>
         /\ at[p] = "idle"
<1>a. /\ at \in [Proc -> At] /\ response \in [Proc -> Response \cup {None}]
      /\ head_hash \in [Proc -> HeadHash \cup {None}] /\ out \in [Proc -> Status]
  BY DEF TypeOK, UnpackTypeOK
<1>1. QED
  BY <1>a DEF UnpackAndStore, GoTo, Exit, OtherRuns, OwnState, storeVars, call

-----------------------------------------------------------------------------
(***************************************************************************)
(* A clone unpacks as Unpack says: every step of it is one of Unpack's, of *)
(* the command that has its answer, or leaves the unpacking alone.         *)
(***************************************************************************)
LEMMA CloneStepsUnpack == TypeOK /\ CloneTypeOK /\ [CloneNext]_cloneVars => [Next]_vars
<1> SUFFICES ASSUME TypeOK, CloneTypeOK, [CloneNext]_cloneVars PROVE [Next]_vars
  OBVIOUS
<1>a. \A p \in Proc : PlaceOK(p)
  BY DEF CloneTypeOK
(* The command uses the store once it has its answer. *)
<1>b. ASSUME NEW p \in Proc, NEW h \in Object, CallRead(p, h) \/ Return(p), at[p] = "exit",
             UNCHANGED unpackVars
      PROVE  Next
  BY <1>b DEF Next, Elsewhere, unpackVars
<1>1. ASSUME NEW p \in Proc,
             CloneStart(p) \/ FetchRefs(p) \/ PieceWritten(p) \/ FileWritten(p)
             \/ FileRefused(p) \/ TreeEnds(p)
      PROVE  UNCHANGED vars
  BY <1>1 DEF CloneStart, FetchRefs, PieceWritten, FileWritten, FileRefused, TreeEnds
<1>2. ASSUME NEW p \in Proc, FetchPack(p) PROVE [Next]_vars
  <2>1. head[p] \in HeadHash
    BY <1>a, <1>2 DEF FetchPack, PlaceOK
  <2>2. ASSUME NEW r \in Answers(head[p]), UnpackAndStore(p, r, head[p]) PROVE Next
    <3>1. r \in Response
      BY <2>1, AnswersAreResponses
    <3>2. QED
      BY <2>1, <2>2, <3>1 DEF Next
  <2>3. QED
    BY <1>2, <2>2 DEF FetchPack
<1>3. ASSUME NEW p \in Proc, StepOf(p) \/ (StoreFault(p) /\ UNCHANGED unpackVars) PROVE Next
  BY <1>3 DEF Next, unpackVars
<1>4. ASSUME NEW p \in Proc, Unpacked(p) PROVE [Next]_vars
  <2>1. at[p] = "exit" /\ UNCHANGED unpackVars
    BY <1>4 DEF Unpacked
  <2>2. head_body[p] \in Body
    BY DEF TypeOK, UnpackTypeOK
  <2>3. \/ UNCHANGED storeVars
        \/ \E h \in Object : CallRead(p, h)
    BY <1>4, <2>2, CloneAssumption DEF Unpacked
  <2>4. QED
    BY <1>b, <2>1, <2>3 DEF vars, unpackVars
<1>5. ASSUME NEW p \in Proc, TreeRead(p) \/ BlobRead(p) PROVE Next
  <2>1. at[p] = "exit" /\ obj[p] \in Object /\ Return(p) /\ UNCHANGED unpackVars
    BY <1>a, <1>5 DEF TreeRead, BlobRead, PlaceOK
  <2>2. QED
    BY <1>b, <2>1
<1>6. ASSUME NEW p \in Proc, RestoreDirectory(p) \/ RestoreFile(p) PROVE [Next]_vars
  <2>1. AtEntry(p) /\ UNCHANGED unpackVars
    BY <1>6 DEF RestoreDirectory, RestoreFile
  <2>2. at[p] = "exit" /\ NextEntry(p).hash \in Object
    BY <1>a, <2>1, EntryAtHand DEF AtEntry, PlaceOK
  <2>3. UNCHANGED storeVars \/ CallRead(p, NextEntry(p).hash)
    BY <1>6 DEF RestoreDirectory, RestoreFile
  <2>4. QED
    BY <1>b, <2>1, <2>2, <2>3 DEF vars, unpackVars
<1>7. ASSUME NEW p \in Proc, CloneLeaves(p) \/ KillClone(p) PROVE [Next]_vars
  BY <1>7 DEF CloneLeaves, KillClone, Next
<1>8. CASE RemoteMoves \/ UNCHANGED cloneVars
  BY <1>8 DEF RemoteMoves, cloneVars
<1>9. QED
  BY <1>1, <1>2, <1>3, <1>4, <1>5, <1>6, <1>7, <1>8 DEF CloneNext, CloneStep
-----------------------------------------------------------------------------
(* One clone moves, the others stay where they are. *)
LEMMA OneClone ==
  ASSUME CloneTypeOK, NEW p \in Proc, RunsType', WorkType', RestType', PlaceOK(p)',
         OtherRuns(p), \A q \in Proc \ {p} : UNCHANGED CloneOwn(q)
  PROVE  CloneTypeOK'
<1>1. ASSUME NEW q \in Proc PROVE PlaceOK(q)'
  <2>1. CASE q = p
    BY <2>1
  <2>2. CASE q # p
    <3>1. PlaceOK(q)
      BY DEF CloneTypeOK
    <3>2. UNCHANGED <<CloneOwn(q), at[q], out[q], pc[q], obj[q]>>
      BY <2>2 DEF OtherRuns, OwnState
    <3>3. QED
      BY ONLY <3>1, <3>2, PlaceUntouched
  <2>3. QED
    BY <2>1, <2>2
<1>2. QED
  BY ONLY <1>1, RunsType', WorkType', RestType'
  DEF CloneTypeOK, RunsType, WorkType, RestType

LEMMA VarsStay ==
  ASSUME UNCHANGED vars, NEW p \in Proc
  PROVE  OtherRuns(p) /\ UNCHANGED <<at, out, pc, obj, head_hash, head_body, index, response>>
BY DEF vars, storeVars, call, unpack, OtherRuns, OwnState

LEMMA DoubtfulType ==
  ASSUME RestType, NEW p \in Proc, Doubtful(p)
  PROVE  unsure' \subseteq Proc
BY DEF RestType, Doubtful

LEMMA LoseType ==
  ASSUME RestType, NEW Q, NEW n \in Path, Lose(Q, n)
  PROVE  lost' \in [Proc -> SUBSET Path]
BY DEF RestType, Lose

LEMMA WrittenType ==
  ASSUME CloneTypeOK, NEW p \in Proc, blob[p] \in Object, Written(p)
  PROVE  files' \in [Proc -> SUBSET (Path \X Object)]
<1>1. /\ files \in [Proc -> SUBSET (Path \X Object)]
      /\ target[p] \in Path
  BY DEF CloneTypeOK
<1>2. QED
  BY ONLY <1>1, blob[p] \in Object, Written(p) DEF Written

-----------------------------------------------------------------------------
(* What one clone does, and what it leaves alone of the others. *)
ActsOf(p) ==
  \/ CloneStart(p) \/ FetchRefs(p) \/ FetchPack(p)
  \/ CloneStep(p) \/ FileRefused(p)
  \/ /\ StoreFault(p)
     /\ UNCHANGED <<unpackVars, run, work, remote, moves, chronicle, unsure>>
  \/ CloneLeaves(p) \/ KillClone(p)

Own(p) == <<CloneOwn(p), dirs[p], files[p], at[p], obj[p], head_hash[p]>>

LEMMA NextIsActs ==
  CloneNext => RemoteMoves \/ \E p \in Proc : ActsOf(p)
BY DEF CloneNext, ActsOf

(* The unpacking of one clone, or a call of it, as the others see it. *)
LEMMA RunsOfOthers ==
  ASSUME TypeOK, CloneTypeOK, NEW p \in Proc, ActsOf(p)
  PROVE  OtherRuns(p)
<1>1. CASE UNCHANGED vars
  BY <1>1, VarsStay
<1>2. CASE StepOf(p) \/ Leave(p) \/ KillUnpack(p) \/ \E r : UnpackAndStore(p, r, head[p])
  BY <1>2, StepOfEffects, RunEndsEffects, UnpackAndStoreEffects
<1>3. CASE StoreFault(p) /\ UNCHANGED unpackVars
  <2>1. StoreTypeOK /\ UNCHANGED <<at, response, head_hash, index, parsed, head_body, out>>
    BY <1>3 DEF TypeOK, unpackVars, unpack
  <2>2. obj' = obj /\ \A q \in Proc \ {p} : pc'[q] = pc[q]
    BY <1>3, <2>1, CallEffects
  <2>3. QED
    BY ONLY <2>1, <2>2 DEF OtherRuns, OwnState
<1>4. CASE UNCHANGED unpackVars /\ (Return(p) \/ \E h : CallRead(p, h))
  BY <1>4, CallRuns
<1>5. \/ UNCHANGED vars
      \/ StepOf(p) \/ Leave(p) \/ KillUnpack(p) \/ \E r : UnpackAndStore(p, r, head[p])
      \/ StoreFault(p) /\ UNCHANGED unpackVars
      \/ UNCHANGED unpackVars /\ (Return(p) \/ \E h : CallRead(p, h))
  <2>1. CASE CloneStart(p) \/ FetchRefs(p) \/ FetchPack(p) \/ FileRefused(p)
    BY <2>1 DEF CloneStart, FetchRefs, FetchPack, FileRefused
  <2>2. CASE Unpacked(p) \/ RestoreDirectory(p) \/ RestoreFile(p)
    BY <2>2 DEF Unpacked, RestoreDirectory, RestoreFile, vars, unpackVars
  <2>3. CASE TreeRead(p) \/ BlobRead(p)
    BY <2>3 DEF TreeRead, BlobRead
  <2>4. CASE PieceWritten(p) \/ FileWritten(p) \/ TreeEnds(p) \/ CloneLeaves(p)
          \/ KillClone(p)
    BY <2>4 DEF PieceWritten, FileWritten, TreeEnds, CloneLeaves, KillClone
  <2>5. QED
    BY <2>1, <2>2, <2>3, <2>4 DEF ActsOf, CloneStep
<1>6. QED
  BY <1>1, <1>2, <1>3, <1>4, <1>5

LEMMA OthersStay ==
  ASSUME TypeOK, CloneTypeOK, NEW p \in Proc, ActsOf(p)
  PROVE  \A q \in Proc \ {p} : UNCHANGED Own(q)
<1>a. RunsType /\ RestType
  BY TypesAre
<1>1. \A q \in Proc \ {p} : UNCHANGED <<at[q], obj[q], head_hash[q]>>
  BY RunsOfOthers DEF OtherRuns, OwnState
<1>2. \A q \in Proc \ {p} : UNCHANGED <<stage[q], ended[q]>>
  <2>1. CASE CloneStart(p) \/ FetchRefs(p) \/ FetchPack(p) \/ FileRefused(p)
    BY <1>a, <2>1 DEF CloneStart, FetchRefs, FetchPack, FileRefused, Enter, CloneEnd, RunsType
  <2>2. CASE Unpacked(p) \/ RestoreDirectory(p) \/ RestoreFile(p)
    BY <1>a, <2>2 DEF Unpacked, RestoreDirectory, RestoreFile, Enter, CloneEnd, RunsType
  <2>3. CASE TreeRead(p) \/ BlobRead(p) \/ TreeEnds(p)
    BY <1>a, <2>3 DEF TreeRead, BlobRead, OpenFile, TreeEnds, Enter, CloneEnd, RunsType
  <2>4. CASE PieceWritten(p) \/ FileWritten(p) \/ CloneLeaves(p) \/ KillClone(p)
    BY <1>a, <2>4 DEF PieceWritten, FileWritten, CloneLeaves, KillClone, Forget, Enter, RunsType
  <2>5. CASE UNCHANGED run
    BY <2>5 DEF run
  <2>6. QED
    BY <2>1, <2>2, <2>3, <2>4, <2>5 DEF ActsOf, CloneStep
<1>3. \A q \in Proc \ {p} : UNCHANGED <<head[q], target[q], blob[q], sent[q]>>
  <2>1. CASE CloneStart(p) \/ FetchRefs(p) \/ FetchPack(p) \/ FileRefused(p)
    BY <1>a, <2>1 DEF CloneStart, FetchRefs, FetchPack, FileRefused, LetGo, RunsType
  <2>2. CASE Unpacked(p) \/ RestoreDirectory(p) \/ RestoreFile(p)
    BY <1>a, <2>2 DEF Unpacked, RestoreDirectory, RestoreFile, Advance, Aim, RunsType
  <2>3. CASE TreeRead(p) \/ BlobRead(p) \/ TreeEnds(p)
    BY <1>a, <2>3 DEF TreeRead, BlobRead, OpenFile, TreeEnds, RunsType
  <2>4. CASE PieceWritten(p) \/ FileWritten(p) \/ CloneLeaves(p) \/ KillClone(p)
    BY <1>a, <2>4 DEF PieceWritten, FileWritten, CloneLeaves, KillClone, Forget, LetGo, Aim,
       RunsType
  <2>5. CASE UNCHANGED run
    BY <2>5 DEF run
  <2>6. QED
    BY <2>1, <2>2, <2>3, <2>4, <2>5 DEF ActsOf, CloneStep
<1>4. \A q \in Proc \ {p} : UNCHANGED <<todo[q], dirs[q], files[q]>>
  <2>1. CASE CloneStart(p) \/ FetchRefs(p) \/ FetchPack(p) \/ FileRefused(p)
    BY <1>a, <2>1 DEF CloneStart, FetchRefs, FetchPack, FileRefused, Written, chronicle,
       RunsType, RestType
  <2>2. CASE Unpacked(p) \/ RestoreDirectory(p) \/ RestoreFile(p)
    BY <1>a, <2>2 DEF Unpacked, RestoreDirectory, RestoreFile, Advance, chronicle,
       RunsType, RestType
  <2>3. CASE TreeRead(p) \/ BlobRead(p) \/ TreeEnds(p)
    BY <1>a, <2>3 DEF TreeRead, BlobRead, TreeEnds, chronicle, RunsType, RestType
  <2>4. CASE PieceWritten(p) \/ FileWritten(p) \/ CloneLeaves(p) \/ KillClone(p)
    BY <1>a, <2>4 DEF PieceWritten, FileWritten, CloneLeaves, KillClone, Forget, Written,
       chronicle, RunsType, RestType
  <2>5. CASE UNCHANGED <<run, chronicle>>
    BY <2>5 DEF run, chronicle
  <2>6. QED
    BY <2>1, <2>2, <2>3, <2>4, <2>5 DEF ActsOf, CloneStep
<1>5. QED
  BY <1>1, <1>2, <1>3, <1>4 DEF Own, CloneOwn

-----------------------------------------------------------------------------
(***************************************************************************)
(* A directory stays one and a file stays one, whoever is at work: what a  *)
(* clone opens is no directory, and what it makes a directory is no file.  *)
(***************************************************************************)
WritersHaveFiles == \A p \in Proc : stage[p] = "write" => IsFile(target[p])

KindsKept == \A n : /\ IsDirectory(n) => IsDirectory(n)'
                    /\ IsFile(n) => IsFile(n)'

LEMMA PutKinds ==
  ASSUME NEW n, NEW v, Put(n, v), IsFile(n) => v # Directory, IsDirectory(n) => v = Directory
  PROVE  /\ KindsKept
         /\ v = Directory => IsDirectory(n)'
         /\ v # Directory => IsFile(n)'
BY DEF Put, KindsKept, IsDirectory, IsFile

(* A new file is empty, and a file with one piece more is a file. *)
LEMMA EmptyIsFile == << >> \in FileContent
BY DEF FileContent

LEMMA LengthType == ASSUME NEW b PROVE Length(b) \in 0 .. NPieces
BY StoreAssumption DEF Length

Grown(c, i, b) == [j \in DOMAIN c \cup {i} |-> IF j = i THEN b ELSE c[j]]

LEMMA GrownType ==
  ASSUME NEW c \in FileContent, NEW i \in 1 .. NPieces, NEW b \in Body
  PROVE  Grown(c, i, b) \in FileContent
<1>1. PICK S \in SUBSET (1 .. NPieces) : c \in [S -> Body]
  BY DEF FileContent
<1>2. S \cup {i} \in SUBSET (1 .. NPieces) /\ Grown(c, i, b) \in [S \cup {i} -> Body]
  BY ONLY <1>1, i \in 1 .. NPieces, b \in Body DEF Grown
<1>3. QED
  BY ONLY <1>2 DEF FileContent

LEMMA PieceEffects ==
  ASSUME CloneTypeOK, WritersHaveFiles, NEW p \in Proc, PieceWritten(p)
  PROVE  /\ sent[p] + 1 \in 1 .. NPieces /\ blob[p] \in Object /\ blob[p].body \in Body
         /\ sent[p] + 1 \in 1 .. Length(blob[p].body)
         /\ target[p] \in Path /\ IsFile(target[p])
         /\ Put(target[p], Grown(work[target[p]], sent[p] + 1, blob[p].body))
         /\ Grown(work[target[p]], sent[p] + 1, blob[p].body) \in FileContent
<1>1. /\ sent[p] \in 0 .. NPieces /\ blob[p] \in Object /\ target[p] \in Path
      /\ sent[p] < Length(blob[p].body) /\ IsFile(target[p])
  BY TypesAre DEF PieceWritten, WritersHaveFiles, RunsType, PlaceOK
<1>2. blob[p].body \in Body
  BY <1>1, UnpackAssumption
<1>3. sent[p] + 1 \in 1 .. NPieces /\ sent[p] + 1 \in 1 .. Length(blob[p].body)
  BY <1>1, LengthType, StoreAssumption
<1>4. work[target[p]] \in FileContent
  BY <1>1, TypesAre DEF IsFile, WorkType
<1>5. QED
  BY <1>1, <1>2, <1>3, <1>4, GrownType DEF PieceWritten, Grown

LEMMA KindsStay ==
  ASSUME CloneTypeOK, WritersHaveFiles, [CloneNext]_cloneVars
  PROVE  KindsKept
<1>1. CASE UNCHANGED work
  BY <1>1 DEF KindsKept, IsDirectory, IsFile
<1>2. ASSUME NEW p \in Proc, CloneStart(p) PROVE KindsKept
  <2>1. CASE Put(Root, Directory) /\ ~IsFile(Root)
    BY ONLY <2>1, PutKinds
  <2>2. QED
    BY <1>1, <1>2, <2>1 DEF CloneStart
<1>3. ASSUME NEW p \in Proc, RestoreDirectory(p) PROVE KindsKept
  <2>1. CASE Put(PathAt(p), Directory) /\ ~IsFile(PathAt(p))
    BY ONLY <2>1, PutKinds
  <2>2. QED
    BY <1>1, <1>3, <2>1 DEF RestoreDirectory, Taken
<1>4. ASSUME NEW p \in Proc, BlobRead(p) PROVE KindsKept
  <2>1. CASE Put(target[p], << >>) /\ ~IsDirectory(target[p])
    <3>1. << >> # Directory
      BY EmptyIsFile, CloneAssumption
    <3>2. QED
      BY ONLY <2>1, <3>1, PutKinds
  <2>2. QED
    BY <1>1, <1>4, <2>1 DEF BlobRead, OpenFile
<1>5. ASSUME NEW p \in Proc, PieceWritten(p) PROVE KindsKept
  <2>1. PICK v \in FileContent : Put(target[p], v)
    BY <1>5, PieceEffects
  <2>2. v # Directory
    BY CloneAssumption
  <2>3. ~IsDirectory(target[p])
    BY <1>5, PieceEffects DEF IsDirectory, IsFile
  <2>4. QED
    BY ONLY <2>1, <2>2, <2>3, PutKinds
<1>6. ASSUME NEW p \in Proc, ActsOf(p) PROVE KindsKept
  <2>1. \/ CloneStart(p) \/ RestoreDirectory(p) \/ BlobRead(p) \/ PieceWritten(p)
        \/ UNCHANGED work
    BY <1>6 DEF ActsOf, CloneStep, FetchRefs, FetchPack, Unpacked, TreeRead, RestoreFile,
       FileWritten, TreeEnds, FileRefused, CloneLeaves, KillClone, Forget
  <2>2. QED
    BY <1>1, <1>2, <1>3, <1>4, <1>5, <2>1
<1>7. CASE RemoteMoves \/ UNCHANGED cloneVars
  BY <1>1, <1>7 DEF RemoteMoves, cloneVars
<1>8. QED
  BY <1>6, <1>7, NextIsActs

LEMMA WritersStep ==
  ASSUME TypeOK, CloneTypeOK, WritersHaveFiles, [CloneNext]_cloneVars
  PROVE  WritersHaveFiles'
<1>a. KindsKept
  BY KindsStay
<1>b. RunsType
  BY TypesAre
<1>1. ASSUME NEW p \in Proc, ActsOf(p), NEW q \in Proc, stage'[q] = "write"
      PROVE  IsFile(target[q])'
  <2>1. CASE UNCHANGED <<stage[q], target[q]>>
    BY <1>1, <1>a, <2>1 DEF WritersHaveFiles, KindsKept, IsFile
  <2>2. CASE q = p
    <3>1. CASE BlobRead(p)
      <4>1. Put(target[p], << >>) /\ ~IsDirectory(target[p]) /\ UNCHANGED target
        BY <1>b, <1>1, <2>2, <3>1 DEF BlobRead, OpenFile, CloneEnd, Enter, RunsType
      <4>2. << >> # Directory
        BY EmptyIsFile, CloneAssumption
      <4>3. IsFile(target[p])'
        BY ONLY <4>1, <4>2 DEF Put, IsFile
      <4>4. QED
        BY <2>2, <4>3
    <3>2. CASE CloneStart(p) \/ FetchRefs(p) \/ FetchPack(p) \/ Unpacked(p)
      BY <1>b, <1>1, <2>2, <3>2
      DEF CloneStart, FetchRefs, FetchPack, Unpacked, CloneEnd, Enter, RunsType
    <3>3. CASE TreeRead(p) \/ RestoreDirectory(p) \/ RestoreFile(p)
      BY <1>b, <1>1, <2>2, <3>3
      DEF TreeRead, RestoreDirectory, RestoreFile, CloneEnd, Enter, RunsType
    <3>4. CASE FileWritten(p) \/ FileRefused(p) \/ CloneLeaves(p) \/ KillClone(p)
      BY <1>b, <1>1, <2>2, <3>4
      DEF FileWritten, FileRefused, CloneLeaves, KillClone, Forget, CloneEnd, Enter, RunsType
    <3>5. CASE TreeEnds(p)
      BY <1>b, <1>1, <2>2, <3>5 DEF TreeEnds, CloneEnd, Enter, RunsType
    <3>6. CASE UNCHANGED run \/ PieceWritten(p)
      BY <2>1, <2>2, <3>6 DEF run, PieceWritten
    <3>7. QED
      BY <1>1, <3>1, <3>2, <3>3, <3>4, <3>5, <3>6 DEF ActsOf, CloneStep
  <2>3. CASE q # p
    BY <1>1, <2>1, <2>3, OthersStay DEF Own, CloneOwn
  <2>4. QED
    BY <2>2, <2>3
<1>2. CASE UNCHANGED run
  BY <1>a, <1>2 DEF run, WritersHaveFiles, KindsKept, IsFile
<1>3. RemoteMoves \/ UNCHANGED cloneVars => UNCHANGED run
  BY DEF RemoteMoves, cloneVars
<1>4. QED
  BY <1>1, <1>2, <1>3, NextIsActs DEF WritersHaveFiles

-----------------------------------------------------------------------------
(* What each action does to the types. *)
LEMMA StartType ==
  ASSUME TypeOK, TypeOK', CloneTypeOK, NEW p \in Proc,
         CloneStart(p) \/ FetchRefs(p) \/ FetchPack(p)
  PROVE  CloneTypeOK'
<1>a. RunsType /\ WorkType /\ RestType /\ PlaceOK(p)
  BY TypesAre
<1>b. Root \in Path
  BY ONLY DEF Path, Root
<1>c. at[p] = "idle" => pc[p] = "idle"
  BY <1>a DEF PlaceOK
<1>1. CASE CloneStart(p)
  <2>1. /\ stage[p] = "idle" /\ UNCHANGED <<head, target, todo, blob, sent>>
        /\ UNCHANGED <<remote, moves, dirs, files, lost, over, unsure>> /\ UNCHANGED vars
    BY <1>1 DEF CloneStart, chronicle
  <2>2. RestType'
    BY ONLY <1>a, <2>1 DEF RestType
  <2>3. CASE CloneEnd(p, "io_error") /\ UNCHANGED work
    <3>1. RunsType' /\ stage'[p] = "exit" /\ \A q \in Proc \ {p} : UNCHANGED CloneOwn(q)
      BY <1>a, <2>1, <2>3, CloneEndType DEF CloneStatus, Status, RunsType, CloneOwn
    <3>2. PlaceOK(p)'
      BY ONLY <1>a, <2>1, <3>1, VarsStay DEF PlaceOK
    <3>3. WorkType'
      BY ONLY <1>a, <2>3 DEF WorkType
    <3>4. QED
      BY <2>1, <2>2, <3>1, <3>2, <3>3, VarsStay, OneClone
  <2>4. CASE Put(Root, Directory) /\ Enter(p, "refs") /\ UNCHANGED ended
    <3>1. RunsType' /\ stage'[p] = "refs" /\ \A q \in Proc \ {p} : UNCHANGED CloneOwn(q)
      BY <1>a, <2>1, <2>4, EnterType DEF Stage, RunsType, CloneOwn
    <3>2. PlaceOK(p)'
      BY ONLY <1>a, <2>1, <3>1, VarsStay DEF PlaceOK
    <3>3. WorkType'
      BY <1>a, <1>b, <2>4, PutType
    <3>4. QED
      BY <2>1, <2>2, <3>1, <3>2, <3>3, VarsStay, OneClone
  <2>5. QED
    BY <1>1, <2>3, <2>4 DEF CloneStart
<1>2. CASE FetchRefs(p)
  <2>1. /\ stage[p] = "refs" /\ UNCHANGED <<target, todo, blob, sent, work>>
        /\ UNCHANGED <<remote, moves, dirs, files, lost, over, unsure>> /\ UNCHANGED vars
    BY <1>2 DEF FetchRefs, chronicle
  <2>2. RestType' /\ WorkType'
    BY ONLY <1>a, <2>1 DEF RestType, WorkType
  <2>3. CASE UNCHANGED head /\ \E s \in CloneStatus : CloneEnd(p, s)
    <3>1. RunsType' /\ stage'[p] = "exit" /\ \A q \in Proc \ {p} : UNCHANGED CloneOwn(q)
      BY <1>a, <2>1, <2>3, CloneEndType DEF RunsType, CloneOwn
    <3>2. PlaceOK(p)'
      BY ONLY <1>a, <2>1, <3>1, VarsStay DEF PlaceOK
    <3>3. QED
      BY <2>1, <2>2, <3>1, <3>2, VarsStay, OneClone
  <2>4. ASSUME NEW h \in SelectHeadHash(remote),
               head' = [head EXCEPT ![p] = h], Enter(p, "pack"), UNCHANGED ended
        PROVE  CloneTypeOK'
    <3>1. h \in HeadHash
      BY <1>a, SelectedIsListed DEF RestType
    <3>2. /\ RunsType' /\ stage'[p] = "pack" /\ head'[p] \in HeadHash
          /\ \A q \in Proc \ {p} : UNCHANGED CloneOwn(q)
      BY <1>a, <2>1, <2>4, <3>1, EnterType DEF Stage, RunsType, CloneOwn
    <3>3. PlaceOK(p)'
      BY ONLY <1>a, <2>1, <3>2, VarsStay DEF PlaceOK
    <3>4. QED
      BY <2>1, <2>2, <3>2, <3>3, VarsStay, OneClone
  <2>5. QED
    BY <1>2, <2>3, <2>4 DEF FetchRefs, CloneStatus
<1>3. CASE FetchPack(p)
  <2>1. /\ stage[p] = "pack" /\ UNCHANGED <<head, target, todo, blob, sent, work>>
        /\ UNCHANGED <<remote, moves, dirs, files, lost, over, unsure>>
    BY <1>3 DEF FetchPack, chronicle
  <2>2. RestType' /\ WorkType'
    BY ONLY <1>a, <2>1 DEF RestType, WorkType
  <2>3. CASE CloneEnd(p, "network_error") /\ UNCHANGED vars
    <3>1. RunsType' /\ stage'[p] = "exit" /\ \A q \in Proc \ {p} : UNCHANGED CloneOwn(q)
      BY <1>a, <2>1, <2>3, CloneEndType DEF RunsType, CloneOwn, CloneStatus
    <3>2. PlaceOK(p)'
      BY ONLY <1>a, <2>1, <2>3, <3>1, VarsStay DEF PlaceOK
    <3>3. QED
      BY <2>3, <2>2, <3>1, <3>2, VarsStay, OneClone
  <2>4. ASSUME NEW r, UnpackAndStore(p, r, head[p]), Enter(p, "unpack"), UNCHANGED ended
        PROVE  CloneTypeOK'
    <3>1. RunsType' /\ stage'[p] = "unpack" /\ \A q \in Proc \ {p} : UNCHANGED CloneOwn(q)
      BY <1>a, <2>1, <2>4, EnterType DEF Stage, RunsType, CloneOwn
    <3>2. /\ OtherRuns(p) /\ at'[p] \in {"object", "exit"}
          /\ UNCHANGED <<pc, obj>> /\ at[p] = "idle"
      BY <2>4, UnpackAndStoreEffects
    <3>3. PlaceOK(p)'
      BY ONLY <1>a, <1>c, <2>1, <3>1, <3>2 DEF PlaceOK
    <3>4. QED
      BY <2>2, <3>1, <3>2, <3>3, OneClone
  <2>5. QED
    BY <1>3, <2>3, <2>4 DEF FetchPack
<1>4. QED
  BY <1>1, <1>2, <1>3

LEMMA UnpackingType ==
  ASSUME TypeOK, TypeOK', CloneTypeOK, NEW p \in Proc,
         StepOf(p) \/ (StoreFault(p) /\ UNCHANGED unpackVars),
         UNCHANGED <<run, work, remote, moves, chronicle, unsure>>
  PROVE  CloneTypeOK'
<1>a. RunsType /\ WorkType /\ RestType /\ PlaceOK(p)
  BY TypesAre
<1>b. /\ UNCHANGED <<stage, head, target, todo, blob, sent, ended>>
      /\ UNCHANGED <<work, remote, moves, dirs, files, lost, over, unsure>>
  BY DEF run, chronicle
<1>1. RunsType' /\ WorkType' /\ RestType'
  BY ONLY <1>a, <1>b DEF RunsType, WorkType, RestType
<1>2. /\ OtherRuns(p)
      /\ at[p] \notin {"idle", "exit"} =>
           at'[p] # "idle" /\ (at'[p] = "exit" => pc'[p] = "idle")
      /\ at[p] \in {"idle", "exit"} =>
           /\ at'[p] = at[p] /\ out'[p] = out[p] /\ obj'[p] = obj[p]
           /\ pc[p] # "idle" /\ pc'[p] # "idle"
  <2>1. CASE StepOf(p)
    BY <2>1, StepOfEffects
  <2>2. CASE StoreFault(p) /\ UNCHANGED unpackVars
    <3>1. /\ StoreTypeOK /\ RunTypeOK(p)
          /\ UNCHANGED <<at, response, head_hash, index, parsed, head_body, out>>
      BY <2>2 DEF unpackVars, unpack, TypeOK, UnpackTypeOK
    <3>2. pc[p] # "idle" /\ pc'[p] # "idle" /\ obj' = obj /\ \A q \in Proc \ {p} : pc'[q] = pc[q]
      BY <2>2, <3>1, CallEffects
    <3>3. QED
      BY ONLY <3>1, <3>2 DEF OtherRuns, OwnState
  <2>3. QED
    BY <2>1, <2>2
<1>3. RunTypeOK(p)' /\ at'[p] \in At
  BY DEF TypeOK, UnpackTypeOK
<1>4. stage[p] \in Stage
  BY <1>a DEF RunsType
<1>5. PlaceOK(p)'
  <2>1. CASE at[p] \in {"idle", "exit"}
    BY ONLY <1>a, <1>b, <1>2, <2>1 DEF PlaceOK
  <2>2. CASE at[p] \notin {"idle", "exit"}
    <3>1. stage[p] = "unpack" /\ stage'[p] = "unpack"
      BY ONLY <1>a, <1>b, <1>4, <2>2 DEF PlaceOK, Stage
    <3>2. pc'[p] = "idle" <=> at'[p] \in {"object", "parsed", "exit"}
      BY ONLY <1>2, <1>3, <2>2 DEF RunTypeOK, At
    <3>3. at'[p] # "idle"
      BY ONLY <1>2, <2>2
    <3>4. QED
      BY ONLY <1>a, <1>b, <3>1, <3>2, <3>3 DEF PlaceOK
  <2>3. QED
    BY <2>1, <2>2
<1>6. QED
  BY <1>1, <1>2, <1>5, <1>b, OneClone DEF CloneOwn

(* The calls of the restoring command leave the unpacking alone. *)
LEMMA RestoringCalls ==
  ASSUME TypeOK, NEW p \in Proc, UNCHANGED unpackVars
  PROVE  /\ UNCHANGED <<at, out, head_hash, head_body, response, index>>
         /\ \A h : CallRead(p, h) => pc'[p] # "idle" /\ obj'[p] = h /\ OtherRuns(p)
         /\ Return(p) => pc'[p] = "idle" /\ OtherRuns(p)
         /\ res[p] \in CloneStatus
<1>1. UNCHANGED <<at, out, head_hash, head_body, response, index>>
  BY DEF unpackVars, unpack
<1>2. StoreTypeOK
  BY DEF TypeOK
<1>3. res[p] \in CloneStatus
  BY <1>2 DEF StoreTypeOK, Result, CloneStatus, Status
<1>4. QED
  BY <1>1, <1>2, <1>3, CallEffects, CallRuns

LEMMA UnpackedType ==
  ASSUME TypeOK, CloneTypeOK, NEW p \in Proc, Unpacked(p)
  PROVE  CloneTypeOK'
<1> DEFINE tree == ExtractCommitTreeHash[head_body[p]]
<1>a. RunsType /\ WorkType /\ RestType /\ PlaceOK(p)
  BY TypesAre
<1>b. /\ stage[p] = "unpack" /\ at[p] = "exit" /\ UNCHANGED unpackVars
      /\ UNCHANGED <<head, target, todo, blob, sent>>
      /\ UNCHANGED <<work, remote, moves, dirs, files, lost, over, unsure>>
  BY DEF Unpacked, chronicle
<1>c. WorkType' /\ RestType'
  BY ONLY <1>a, <1>b DEF WorkType, RestType
<1>d. out[p] \in CloneStatus /\ head_body[p] \in Body /\ UNCHANGED <<at, out>>
  BY <1>b, RestoringCalls DEF TypeOK, UnpackTypeOK, CloneStatus
<1>1. CASE UNCHANGED storeVars /\ \E s \in CloneStatus : CloneEnd(p, s)
  <2>1. RunsType' /\ stage'[p] = "exit" /\ \A q \in Proc \ {p} : UNCHANGED CloneOwn(q)
    BY <1>a, <1>b, <1>1, CloneEndType DEF RunsType, CloneOwn
  <2>2. UNCHANGED vars
    BY <1>b, <1>1 DEF vars, unpackVars
  <2>3. PlaceOK(p)'
    BY ONLY <1>a, <1>b, <2>1, <2>2, VarsStay DEF PlaceOK
  <2>4. QED
    BY <1>c, <2>1, <2>2, <2>3, VarsStay, OneClone
<1>2. CASE /\ out[p] = "ok" /\ tree # None /\ CallRead(p, tree)
           /\ Enter(p, "tree") /\ UNCHANGED ended
  <2>1. RunsType' /\ stage'[p] = "tree" /\ \A q \in Proc \ {p} : UNCHANGED CloneOwn(q)
    BY <1>a, <1>b, <1>2, EnterType DEF Stage, RunsType, CloneOwn
  <2>2. tree \in Object
    BY <1>d, <1>2, CloneAssumption
  <2>3. pc'[p] # "idle" /\ obj'[p] \in Object /\ OtherRuns(p)
    BY <1>b, <1>2, <2>2, RestoringCalls
  <2>4. PlaceOK(p)'
    BY ONLY <1>a, <1>b, <1>d, <1>2, <2>1, <2>3 DEF PlaceOK
  <2>5. QED
    BY <1>c, <2>1, <2>3, <2>4, OneClone
<1>3. QED
  BY <1>1, <1>2, <1>d DEF Unpacked, CloneStatus

LEMMA TreeReadType ==
  ASSUME TypeOK, CloneTypeOK, NEW p \in Proc, TreeRead(p)
  PROVE  CloneTypeOK'
<1>a. RunsType /\ WorkType /\ RestType /\ PlaceOK(p)
  BY TypesAre
<1>b. /\ stage[p] = "tree" /\ Return(p) /\ UNCHANGED unpackVars /\ Doubtful(p)
      /\ UNCHANGED <<head, target, blob, sent>>
      /\ UNCHANGED <<work, remote, moves, dirs, files, lost, over>>
  BY DEF TreeRead, chronicle
<1>c. /\ OtherRuns(p) /\ UNCHANGED <<at, out>> /\ pc'[p] = "idle"
      /\ obj[p] \in Object /\ res[p] \in CloneStatus
      /\ at[p] = "exit" /\ out[p] = "ok"
  BY <1>a, <1>b, RestoringCalls DEF PlaceOK
<1>d. WorkType' /\ RestType'
  BY <1>a, <1>b, DoubtfulType DEF WorkType, RestType
<1>1. CASE UNCHANGED todo /\ \E s \in CloneStatus : CloneEnd(p, s)
  <2>1. RunsType' /\ stage'[p] = "exit" /\ \A q \in Proc \ {p} : UNCHANGED CloneOwn(q)
    BY <1>a, <1>b, <1>1, CloneEndType DEF RunsType, CloneOwn
  <2>2. PlaceOK(p)'
    BY ONLY <1>a, <1>b, <1>c, <1>1, <2>1 DEF PlaceOK
  <2>3. QED
    BY <1>c, <1>d, <2>1, <2>2, OneClone
<1>2. CASE /\ Entries(obj[p]) # Malformed
           /\ todo' = [todo EXCEPT ![p] = Append(@, Frame(target[p], obj[p]))]
           /\ Enter(p, "walk") /\ UNCHANGED ended
  <2>1. /\ todo' \in [Proc -> Seq(Frames)] /\ FramesOK(todo'[p]) /\ todo'[p] # << >>
        /\ \A q \in Proc \ {p} : todo'[q] = todo[q]
    BY <1>c, <1>2, PushFrame
  <2>2. RunsType' /\ stage'[p] = "walk" /\ \A q \in Proc \ {p} : UNCHANGED CloneOwn(q)
    BY <1>a, <1>b, <1>2, <2>1, EnterType DEF Stage, RunsType, CloneOwn
  <2>3. PlaceOK(p)'
    BY ONLY <1>c, <2>1, <2>2 DEF PlaceOK, FramesOK
  <2>4. QED
    BY <1>c, <1>d, <2>2, <2>3, OneClone
<1>3. QED
  BY <1>1, <1>2, <1>c DEF TreeRead, CloneStatus

LEMMA RestoreType ==
  ASSUME TypeOK, CloneTypeOK, NEW p \in Proc, RestoreDirectory(p) \/ RestoreFile(p)
  PROVE  CloneTypeOK'
<1>a. RunsType /\ WorkType /\ RestType /\ PlaceOK(p)
  BY TypesAre
<1>b. /\ stage[p] = "walk" /\ AtEntry(p) /\ Advance(p) /\ UNCHANGED unpackVars
      /\ UNCHANGED <<head, blob, sent>>
      /\ UNCHANGED <<remote, moves, dirs, files, lost, over, unsure>>
  BY DEF RestoreDirectory, RestoreFile, AtEntry, chronicle
<1>c. /\ todo' \in [Proc -> Seq(Frames)] /\ FramesOK(todo'[p]) /\ todo'[p] # << >>
      /\ \A q \in Proc \ {p} : todo'[q] = todo[q]
  BY <1>b, AdvanceFrame
<1>d. PathAt(p) \in Path /\ NextEntry(p).hash \in Object
  BY <1>b, EntryAtHand
<1>e. /\ target' \in [Proc -> Path] /\ target'[p] = PathAt(p)
      /\ \A q \in Proc \ {p} : target'[q] = target[q]
  BY <1>a, <1>b, <1>d DEF Advance, Aim, RunsType
<1>f. /\ UNCHANGED <<at, out>> /\ at[p] = "exit" /\ out[p] = "ok" /\ pc[p] = "idle"
      /\ \A h : CallRead(p, h) => pc'[p] # "idle" /\ obj'[p] = h /\ OtherRuns(p)
  BY <1>a, <1>b, RestoringCalls DEF PlaceOK
<1>g. RestType'
  BY ONLY <1>a, <1>b DEF RestType
<1>1. CASE CloneEnd(p, "io_error") /\ UNCHANGED <<storeVars, work>>
  <2>1. RunsType' /\ stage'[p] = "exit" /\ \A q \in Proc \ {p} : UNCHANGED CloneOwn(q)
    BY <1>a, <1>b, <1>c, <1>e, <1>1, CloneEndType DEF RunsType, CloneOwn, CloneStatus, Status
  <2>2. UNCHANGED vars /\ WorkType'
    BY <1>a, <1>b, <1>1 DEF vars, unpackVars, WorkType
  <2>3. pc'[p] = "idle"
    BY <1>f, <2>2, VarsStay
  <2>4. PlaceOK(p)'
    BY ONLY <1>c, <1>f, <2>1, <2>3 DEF PlaceOK, FramesOK
  <2>5. QED
    BY <1>g, <2>1, <2>2, <2>4, VarsStay, OneClone
<1>2. CASE /\ CallRead(p, NextEntry(p).hash) /\ UNCHANGED ended
           /\ \/ Enter(p, "tree") /\ Put(PathAt(p), Directory)
              \/ Enter(p, "blob") /\ UNCHANGED work
  <2>1. /\ RunsType' /\ stage'[p] \in {"tree", "blob"}
        /\ \A q \in Proc \ {p} : UNCHANGED CloneOwn(q)
    BY <1>a, <1>b, <1>c, <1>e, <1>2, EnterType DEF Stage, RunsType, CloneOwn
  <2>2. WorkType'
    <3>1. CASE Put(PathAt(p), Directory)
      BY <1>a, <1>d, <3>1, PutType
    <3>2. CASE UNCHANGED work
      BY ONLY <1>a, <3>2 DEF WorkType
    <3>3. QED
      BY <1>2, <3>1, <3>2
  <2>3. pc'[p] # "idle" /\ obj'[p] \in Object /\ OtherRuns(p)
    BY <1>d, <1>f, <1>2
  <2>4. PlaceOK(p)'
    BY ONLY <1>c, <1>f, <2>1, <2>3 DEF PlaceOK, FramesOK
  <2>5. QED
    BY <1>g, <2>1, <2>2, <2>3, <2>4, OneClone
<1>3. QED
  BY <1>1, <1>2 DEF RestoreDirectory, RestoreFile

LEMMA BlobReadType ==
  ASSUME TypeOK, CloneTypeOK, NEW p \in Proc, BlobRead(p)
  PROVE  CloneTypeOK'
<1>a. RunsType /\ WorkType /\ RestType /\ PlaceOK(p)
  BY TypesAre
<1>b. /\ stage[p] = "blob" /\ Return(p) /\ UNCHANGED unpackVars /\ Doubtful(p)
      /\ UNCHANGED <<head, target, todo>>
      /\ UNCHANGED <<remote, moves, dirs, files>>
  BY DEF BlobRead
<1>c. /\ OtherRuns(p) /\ UNCHANGED <<at, out>> /\ pc'[p] = "idle"
      /\ obj[p] \in Object /\ res[p] \in CloneStatus
      /\ at[p] = "exit" /\ out[p] = "ok" /\ todo[p] # << >>
  BY <1>a, <1>b, RestoringCalls DEF PlaceOK
<1>d. target[p] \in Path /\ unsure' \subseteq Proc
  BY <1>a, <1>b, DoubtfulType DEF RunsType
<1>1. CASE /\ UNCHANGED <<blob, sent, work, lost, over>>
           /\ \E s \in CloneStatus : CloneEnd(p, s)
  <2>1. RunsType' /\ stage'[p] = "exit" /\ \A q \in Proc \ {p} : UNCHANGED CloneOwn(q)
    BY <1>a, <1>b, <1>1, CloneEndType DEF RunsType, CloneOwn
  <2>2. RestType' /\ WorkType'
    BY ONLY <1>a, <1>b, <1>d, <1>1 DEF RestType, WorkType
  <2>3. PlaceOK(p)'
    BY ONLY <1>a, <1>b, <1>c, <1>1, <2>1 DEF PlaceOK
  <2>4. QED
    BY <1>c, <2>1, <2>2, <2>3, OneClone
<1>2. CASE OpenFile(p, target[p], obj[p])
  <2>0. /\ Put(target[p], << >>) /\ blob' = [blob EXCEPT ![p] = obj[p]]
        /\ sent' = [sent EXCEPT ![p] = 0]
        /\ Lose(LostByOpening(p, target[p], obj[p]), target[p])
        /\ Enter(p, "write") /\ UNCHANGED ended
    BY <1>2 DEF OpenFile
  <2>a. 0 \in 0 .. NPieces
    BY StoreAssumption
  <2>1. /\ RunsType' /\ stage'[p] = "write" /\ blob'[p] \in Object /\ sent'[p] = 0
        /\ \A q \in Proc \ {p} : UNCHANGED CloneOwn(q)
    BY <1>a, <1>b, <1>c, <2>0, <2>a, EnterType DEF Stage, RunsType, CloneOwn
  <2>2. WorkType'
    BY <1>a, <1>d, <2>0, PutType, EmptyIsFile
  <2>b. over' \in [Proc -> SUBSET Proc]
    BY <1>a, <1>2 DEF OpenFile, RestType
  <2>3. RestType'
    BY <1>a, <1>b, <1>d, <2>0, <2>b, LoseType DEF RestType
  <2>c. 0 <= Length(blob'[p].body)
    BY LengthType
  <2>4. PlaceOK(p)'
    BY ONLY <1>a, <1>b, <1>c, <2>0, <2>1, <2>c DEF PlaceOK, Length
  <2>5. QED
    BY <1>c, <2>1, <2>2, <2>3, <2>4, OneClone
<1>3. QED
  BY <1>1, <1>2, <1>c DEF BlobRead, CloneStatus, Status

LEMMA PieceType ==
  ASSUME CloneTypeOK, WritersHaveFiles, NEW p \in Proc, PieceWritten(p)
  PROVE  CloneTypeOK'
<1>a. RunsType /\ WorkType /\ RestType /\ PlaceOK(p)
  BY TypesAre
<1>b. /\ stage[p] = "write" /\ UNCHANGED vars
      /\ UNCHANGED <<stage, head, target, todo, blob, ended>>
      /\ UNCHANGED <<remote, moves, dirs, files, lost, over, unsure>>
      /\ sent' = [sent EXCEPT ![p] = sent[p] + 1]
  BY DEF PieceWritten, chronicle
<1>1. WorkType'
  BY <1>a, PieceEffects, PutType
<1>2. /\ sent' \in [Proc -> 0 .. NPieces] /\ sent'[p] = sent[p] + 1
      /\ \A q \in Proc \ {p} : sent'[q] = sent[q]
  BY <1>a, <1>b, PieceEffects DEF RunsType
<1>3. RunsType' /\ RestType' /\ \A q \in Proc \ {p} : UNCHANGED CloneOwn(q)
  BY ONLY <1>a, <1>b, <1>2 DEF RunsType, RestType, CloneOwn
<1>4. UNCHANGED <<at, out, pc, obj>> /\ OtherRuns(p)
  BY <1>b, VarsStay
<1>5. sent'[p] <= Length(blob[p].body)
  BY <1>2, PieceEffects, LengthType
<1>6. PlaceOK(p)'
  BY ONLY <1>a, <1>b, <1>4, <1>5 DEF PlaceOK, Length
<1>7. QED
  BY <1>1, <1>3, <1>4, <1>6, OneClone

LEMMA LetGoType ==
  ASSUME CloneTypeOK, NEW p \in Proc, LetGo(p)
  PROVE  /\ sent' \in [Proc -> 0 .. NPieces] /\ over' \in [Proc -> SUBSET Proc]
         /\ \A q \in Proc \ {p} : sent'[q] = sent[q] /\ over'[q] = over[q]
<1>1. 0 \in 0 .. NPieces
  BY StoreAssumption
<1>2. QED
  BY ONLY <1>1, CloneTypeOK, LetGo(p) DEF CloneTypeOK, LetGo

LEMMA WriteType ==
  ASSUME TypeOK, CloneTypeOK, NEW p \in Proc, FileWritten(p) \/ FileRefused(p)
  PROVE  CloneTypeOK'
<1>a. RunsType /\ WorkType /\ RestType /\ PlaceOK(p)
  BY TypesAre
<1>b. /\ stage[p] = "write" /\ UNCHANGED vars
      /\ UNCHANGED <<head, target, todo, blob, work>>
      /\ UNCHANGED <<remote, moves, dirs, unsure>> /\ LetGo(p)
  BY DEF FileWritten, FileRefused
<1>c. /\ OtherRuns(p) /\ UNCHANGED <<at, out, pc, obj>>
      /\ at[p] = "exit" /\ out[p] = "ok" /\ todo[p] # << >> /\ pc[p] = "idle"
      /\ blob[p] \in Object /\ target[p] \in Path
  BY <1>a, <1>b, VarsStay DEF PlaceOK, RunsType
<1>d. /\ sent' \in [Proc -> 0 .. NPieces] /\ over' \in [Proc -> SUBSET Proc]
      /\ \A q \in Proc \ {p} : sent'[q] = sent[q]
  BY <1>b, LetGoType
<1>1. WorkType'
  BY ONLY <1>a, <1>b DEF WorkType
<1>2. /\ files' \in [Proc -> SUBSET (Path \X Object)]
      /\ lost' \in [Proc -> SUBSET Path]
  <2>1. files' = files \/ Written(p)
    BY DEF FileWritten, FileRefused
  <2>2. lost' = lost \/ \E Q : Lose(Q, target[p])
    BY DEF FileWritten, FileRefused
  <2>3. QED
    BY <1>a, <1>c, <2>1, <2>2, LoseType, WrittenType DEF RestType
<1>3. RestType'
  BY ONLY <1>a, <1>b, <1>d, <1>2 DEF RestType
<1>4. CASE Enter(p, "walk") /\ UNCHANGED ended
  <2>1. RunsType' /\ stage'[p] = "walk" /\ \A q \in Proc \ {p} : UNCHANGED CloneOwn(q)
    BY <1>a, <1>b, <1>d, <1>4, EnterType DEF Stage, RunsType, CloneOwn
  <2>2. PlaceOK(p)'
    BY ONLY <1>a, <1>b, <1>c, <2>1 DEF PlaceOK
  <2>3. QED
    BY <1>c, <1>1, <1>3, <2>1, <2>2, OneClone
<1>5. CASE CloneEnd(p, "io_error")
  <2>1. RunsType' /\ stage'[p] = "exit" /\ \A q \in Proc \ {p} : UNCHANGED CloneOwn(q)
    BY <1>a, <1>b, <1>d, <1>5, CloneEndType DEF RunsType, CloneOwn, CloneStatus, Status
  <2>2. PlaceOK(p)'
    BY ONLY <1>a, <1>b, <1>c, <2>1 DEF PlaceOK
  <2>3. QED
    BY <1>c, <1>1, <1>3, <2>1, <2>2, OneClone
<1>6. QED
  BY <1>4, <1>5 DEF FileWritten, FileRefused

LEMMA TreeEndsType ==
  ASSUME TypeOK, CloneTypeOK, NEW p \in Proc, TreeEnds(p)
  PROVE  CloneTypeOK'
<1>a. RunsType /\ WorkType /\ RestType /\ PlaceOK(p)
  BY TypesAre
<1>b. /\ stage[p] = "walk" /\ UNCHANGED vars /\ todo' = [todo EXCEPT ![p] = Front(@)]
      /\ dirs' = [dirs EXCEPT ![p] = @ \cup {<<Top(p).dir, Top(p).tree>>}]
      /\ UNCHANGED <<head, target, blob, sent>>
      /\ UNCHANGED <<work, remote, moves, files, lost, over, unsure>>
  BY DEF TreeEnds
<1>c. /\ OtherRuns(p) /\ UNCHANGED <<at, out, pc, obj>>
      /\ at[p] = "exit" /\ out[p] = "ok" /\ todo[p] # << >> /\ pc[p] = "idle"
  BY <1>a, <1>b, VarsStay DEF PlaceOK
<1>d. Top(p).dir \in Path /\ Top(p).tree \in Object /\ Len(todo[p]) \in Nat \ {0}
  BY <1>c, TopFrame DEF Frames
<1>1. /\ todo' \in [Proc -> Seq(Frames)] /\ FramesOK(todo'[p])
      /\ \A q \in Proc \ {p} : todo'[q] = todo[q]
      /\ Len(todo'[p]) = Len(todo[p]) - 1
  BY <1>b, <1>c, PopFrame
<1>2. RestType' /\ WorkType'
  BY ONLY <1>a, <1>b, <1>d DEF RestType, WorkType
<1>3. CASE Len(todo[p]) = 1 /\ CloneEnd(p, "ok")
  <2>1. RunsType' /\ stage'[p] = "exit" /\ \A q \in Proc \ {p} : UNCHANGED CloneOwn(q)
    BY <1>a, <1>b, <1>1, <1>3, CloneEndType DEF RunsType, CloneOwn, CloneStatus, Status
  <2>2. PlaceOK(p)'
    BY ONLY <1>c, <1>1, <2>1 DEF PlaceOK, FramesOK
  <2>3. QED
    BY <1>c, <1>2, <2>1, <2>2, OneClone
<1>4. CASE Len(todo[p]) # 1 /\ UNCHANGED <<stage, ended>>
  <2>1. RunsType' /\ stage'[p] = "walk" /\ \A q \in Proc \ {p} : UNCHANGED CloneOwn(q)
    BY <1>a, <1>b, <1>1, <1>4 DEF RunsType, CloneOwn
  <2>2. todo'[p] # << >>
    <3>1. SUFFICES ASSUME todo'[p] = << >> PROVE FALSE
      OBVIOUS
    <3>2. Len(todo'[p]) = 0
      BY ONLY <3>1
    <3>3. QED
      BY ONLY <1>d, <1>1, <1>4, <3>2
  <2>3. PlaceOK(p)'
    BY ONLY <1>c, <1>1, <2>1, <2>2 DEF PlaceOK, FramesOK
  <2>4. QED
    BY <1>c, <1>2, <2>1, <2>3, OneClone
<1>5. QED
  BY <1>3, <1>4 DEF TreeEnds

LEMMA CloneGoneType ==
  ASSUME TypeOK, CloneTypeOK, NEW p \in Proc, CloneLeaves(p) \/ KillClone(p)
  PROVE  CloneTypeOK'
<1>a. RunsType /\ WorkType /\ RestType /\ PlaceOK(p)
  BY TypesAre
<1>b. Forget(p)
  BY DEF CloneLeaves, KillClone
<1>c. Root \in Path /\ << >> \in Seq(Frames)
  BY ONLY DEF Path, Root
<1>1. OtherRuns(p) /\ at'[p] = "idle" /\ pc'[p] = "idle"
  <2>1. CASE Leave(p) \/ KillUnpack(p)
    BY <2>1, RunEndsEffects
  <2>2. CASE UNCHANGED vars /\ at[p] = "idle"
    BY <1>a, <2>2, VarsStay DEF PlaceOK
  <2>3. at[p] \in {"idle", "exit"} \/ KillClone(p)
    BY <1>a DEF CloneLeaves, PlaceOK
  <2>4. QED
    BY <2>1, <2>2, <2>3 DEF CloneLeaves, KillClone
<1>2. /\ stage'[p] = "idle" /\ todo'[p] = << >>
      /\ \A q \in Proc \ {p} : UNCHANGED CloneOwn(q)
  BY <1>a, <1>b, LetGoType DEF Forget, Enter, Aim, RunsType, CloneOwn
<1>d. LetGo(p)
  BY <1>b DEF Forget
<1>3. RunsType'
  BY <1>a, <1>b, <1>c, <1>d, LetGoType DEF Forget, Enter, Aim, RunsType, Stage, CloneStatus, Status
<1>4. WorkType'
  BY <1>a, <1>b DEF Forget, WorkType
<1>5. lost' \in [Proc -> SUBSET Path]
  <2>1. target[p] \in Path /\ lost \in [Proc -> SUBSET Path]
    BY <1>a DEF RunsType, RestType
  <2>2. CASE CloneLeaves(p)
    BY <2>1, <2>2 DEF CloneLeaves
  <2>3. CASE KillClone(p)
    BY <2>1, <2>3 DEF KillClone
  <2>4. QED
    BY <2>2, <2>3
<1>6. RestType'
  BY <1>a, <1>b, <1>d, <1>5, LetGoType DEF Forget, RestType
<1>7. PlaceOK(p)'
  BY ONLY <1>1, <1>2 DEF PlaceOK
<1>8. QED
  BY <1>1, <1>2, <1>3, <1>4, <1>6, <1>7, OneClone

LEMMA NothingOfClones ==
  ASSUME CloneTypeOK, UNCHANGED vars, UNCHANGED <<run, work, chronicle, unsure>>,
         remote' \in Listings, moves' \in 0 .. MaxMoves
  PROVE  CloneTypeOK'
<1>1. /\ UNCHANGED <<stage, head, target, todo, blob, sent, ended>>
      /\ UNCHANGED <<work, dirs, files, lost, over, unsure>>
      /\ UNCHANGED <<at, out, pc, obj>>
  BY DEF run, chronicle, vars, storeVars, call, unpack
<1>2. RunsType' /\ WorkType' /\ RestType'
  BY <1>1, TypesAre DEF RunsType, WorkType, RestType
<1>3. ASSUME NEW q \in Proc PROVE PlaceOK(q)'
  BY <1>1, PlaceUntouched DEF CloneTypeOK, CloneOwn
<1>4. QED
  BY ONLY <1>2, <1>3 DEF CloneTypeOK, RunsType, WorkType, RestType

LEMMA CloneTypeStep ==
  TypeOK /\ CloneTypeOK /\ WritersHaveFiles /\ [CloneNext]_cloneVars => CloneTypeOK'
<1> SUFFICES ASSUME TypeOK, CloneTypeOK, WritersHaveFiles, [CloneNext]_cloneVars
             PROVE  CloneTypeOK'
  OBVIOUS
<1>a. TypeOK'
  BY CloneStepsUnpack, UnpackTypeStep
<1>1. ASSUME NEW p \in Proc, CloneStart(p) \/ FetchRefs(p) \/ FetchPack(p) PROVE CloneTypeOK'
  BY <1>a, <1>1, StartType
<1>2. ASSUME NEW p \in Proc, CloneStep(p) \/ FileRefused(p) PROVE CloneTypeOK'
  BY <1>a, <1>2, UnpackingType, UnpackedType, TreeReadType, RestoreType, BlobReadType,
     PieceType, WriteType, TreeEndsType DEF CloneStep
<1>3. ASSUME NEW p \in Proc, StoreFault(p),
             UNCHANGED <<unpackVars, run, work, remote, moves, chronicle, unsure>>
      PROVE  CloneTypeOK'
  BY <1>a, <1>3, UnpackingType
<1>4. ASSUME NEW p \in Proc, CloneLeaves(p) \/ KillClone(p) PROVE CloneTypeOK'
  BY <1>4, CloneGoneType
<1>5. CASE RemoteMoves
  <2>1. remote' \in Listings /\ moves' \in 0 .. MaxMoves
    BY <1>5, CloneAssumption DEF RemoteMoves, CloneTypeOK
  <2>2. QED
    BY <1>5, <2>1, NothingOfClones DEF RemoteMoves
<1>6. CASE UNCHANGED cloneVars
  <2>1. remote' \in Listings /\ moves' \in 0 .. MaxMoves
    BY <1>6 DEF cloneVars, CloneTypeOK
  <2>2. QED
    BY <1>6, <2>1, NothingOfClones DEF cloneVars
<1>7. QED
  BY <1>1, <1>2, <1>3, <1>4, <1>5, <1>6 DEF CloneNext

(* Every clone stands where its unpacking and its calls to the store allow. *)
THEOREM CloneTypeCorrect == CloneSpec => [](TypeOK /\ CloneTypeOK)
<1>1. CloneInit => TypeOK /\ CloneTypeOK /\ WritersHaveFiles
  BY CloneTypeInit, UnpackTypeInit DEF CloneInit, WritersHaveFiles
<1>2. TypeOK /\ CloneTypeOK /\ [CloneNext]_cloneVars => TypeOK'
  BY CloneStepsUnpack, UnpackTypeStep
<1>3. TypeOK /\ CloneTypeOK /\ WritersHaveFiles /\ [CloneNext]_cloneVars => WritersHaveFiles'
  BY WritersStep
<1>4. QED
  BY <1>1, <1>2, <1>3, CloneTypeStep, PTL DEF CloneSpec

(***************************************************************************)
(* What Unpack says is all that a clone does to its store and its pack:    *)
(* whatever holds of UnpackAndStore among any users of the store holds     *)
(* inside clones, their restoring, their ends and a remote that moves.     *)
(***************************************************************************)
THEOREM CloneUnpacks == CloneSpec => Spec
<1>1. CloneInit => Init
  BY DEF CloneInit
<1>2. QED
  BY <1>1, CloneStepsUnpack, CloneTypeCorrect, PTL DEF CloneSpec, Spec

(* A clone goes on to the tree only when the whole pack is in the store. *)
THEOREM CloneUnpacksWhole == CloneSpec => []SuccessMeansWholePack
BY CloneUnpacks, UnpackSuccessIsWhole, PTL

(* A sound pack unpacks in every clone, unless the system or a torn base is in the way. *)
THEOREM CloneUnpacksSound == CloneSpec => []SoundPackUnpacks
BY CloneUnpacks, SoundPacksUnpack, PTL

-----------------------------------------------------------------------------
(* HeadIsPreferred: what a search by text makes of a sorted listing.       *)

LEMMA ListingNames ==
  ASSUME NEW l \in Listings
  PROVE  /\ Len(l) \in Nat /\ Sorted(l)
         /\ \A i \in 1 .. Len(l) : l[i].name \in Seq(STRING)
<1>1. l \in Seq(ListedRef) /\ Sorted(l)
  BY CloneAssumption
<1>2. Len(l) \in Nat /\ \A i \in 1 .. Len(l) : l[i] \in ListedRef
  BY <1>1
<1>3. QED
  BY <1>1, <1>2 DEF ListedRef, Path

(* The names searched for, and what begins like one of them. *)
PreferredPart == {"refs/heads/", "master", "main"}

LEMMA TwoParts ==
  ASSUME NEW S, NEW x \in S, NEW y \in S
  PROVE  /\ <<x>> \o <<y>> \in Seq(S) /\ Len(<<x>> \o <<y>>) = 2
         /\ (<<x>> \o <<y>>)[1] = x
<1>1. <<x>> \in Seq(S) /\ <<y>> \in Seq(S) /\ Len(<<x>>) = 1 /\ Len(<<y>>) = 1 /\ (<<x>>)[1] = x
  OBVIOUS
<1> DEFINE s == <<x>>
           t == <<y>>
           c == s \o t
<1> HIDE DEF s, t
<1>2. s \in Seq(S) /\ t \in Seq(S) /\ Len(s) = 1 /\ Len(t) = 1 /\ s[1] = x
  BY <1>1 DEF s, t
<1>3. /\ c \in Seq(S) /\ Len(c) = Len(s) + Len(t)
      /\ \A i \in 1 .. Len(s) + Len(t) : c[i] = IF i <= Len(s) THEN s[i] ELSE t[i - Len(s)]
  BY <1>2, ConcatProperties
<1>4. Len(c) = 2 /\ c[1] = s[1]
  BY <1>2, <1>3
<1>5. QED
  BY <1>2, <1>3, <1>4 DEF s, t

LEMMA PreferredNames ==
  /\ Heads \in Seq(PreferredPart) /\ Len(Heads) = 1
  /\ \A ref \in {Master, Main} :
       ref \in Seq(PreferredPart) /\ Len(ref) = 2 /\ ref[1] = Heads[1]
<1>1. "refs/heads/" \in PreferredPart /\ "master" \in PreferredPart /\ "main" \in PreferredPart
  BY DEF PreferredPart
<1>2. \A S, x : x \in S => <<x>> \in Seq(S) /\ Len(<<x>>) = 1 /\ (<<x>>)[1] = x
  OBVIOUS
<1>3. Heads \in Seq(PreferredPart) /\ Len(Heads) = 1 /\ Heads[1] = "refs/heads/"
  BY <1>1, <1>2, Zenon DEF Heads
<1>4. \A x \in PreferredPart : LET ref == <<"refs/heads/">> \o <<x>> IN
        ref \in Seq(PreferredPart) /\ Len(ref) = 2 /\ ref[1] = "refs/heads/"
  BY <1>1, TwoParts
<1>5. QED
  BY <1>1, <1>3, <1>4, Zenon DEF Heads, Master, Main

LEMMA PrefixByParts ==
  ASSUME NEW S, NEW T, NEW s \in Seq(S), NEW t \in Seq(T)
  PROVE  IsPrefix(s, t) <=> Len(s) <= Len(t) /\ \A k \in 1 .. Len(s) : s[k] = t[k]
BY DEF IsPrefix

LEMMA PreferredAreBranches ==
  ASSUME NEW t \in Seq(STRING), NEW ref \in {Master, Main}, IsPrefix(ref, t)
  PROVE  IsPrefix(Heads, t)
<1>1. /\ ref \in Seq(PreferredPart) /\ Len(ref) = 2 /\ ref[1] = Heads[1]
      /\ Heads \in Seq(PreferredPart) /\ Len(Heads) = 1
  BY PreferredNames
<1>2. Len(ref) <= Len(t) /\ \A k \in 1 .. Len(ref) : ref[k] = t[k]
  BY <1>1, PrefixByParts
<1>a. Len(t) \in Nat /\ 1 \in 1 .. 2
  OBVIOUS
<1>b. ref[1] = t[1] /\ 1 <= Len(t)
  BY <1>1, <1>2, <1>a
<1>c. \A k \in 1 .. Len(Heads) : k = 1
  BY <1>1
<1>3. Len(Heads) <= Len(t) /\ \A k \in 1 .. Len(Heads) : Heads[k] = t[k]
  BY <1>1, <1>b, <1>c, Zenon
<1>4. QED
  BY <1>1, <1>3, PrefixByParts

(* A search finds nothing only where nothing begins like the name, and one line at most. *)
LEMMA FirstLineFound ==
  ASSUME NEW l \in Listings, NEW ref, NEW i \in 1 .. Len(l), IsPrefix(ref, l[i].name)
  PROVE  \E j \in 1 .. Len(l) : FoundAt(l, ref, j)
<1> DEFINE M == {j \in 1 .. Len(l) : IsPrefix(ref, l[j].name)}
<1>1. M \subseteq Nat /\ M # {}
  BY ListingNames
<1>2. PICK j \in M : \A k \in M : j <= k
  BY <1>1, Least
<1>3. \A k \in 1 .. j - 1 : ~IsPrefix(ref, l[k].name)
  BY <1>2, ListingNames
<1>4. QED
  BY <1>2, <1>3 DEF FoundAt

LEMMA OneLineFound ==
  ASSUME NEW l \in Listings, NEW ref, NEW i \in 1 .. Len(l), FoundAt(l, ref, i)
  PROVE  FindRefHash(l, ref) = {l[i].hash}
<1>1. ASSUME NEW j \in 1 .. Len(l), FoundAt(l, ref, j) PROVE j = i
  BY <1>1, ListingNames DEF FoundAt
<1>2. Found(l, ref) = {i}
  BY <1>1 DEF Found
<1>3. QED
  BY <1>2 DEF FindRefHash

LEMMA NothingFound ==
  ASSUME NEW l \in Listings, NEW ref
  PROVE  FindRefHash(l, ref) = {} <=> \A i \in 1 .. Len(l) : ~IsPrefix(ref, l[i].name)
<1>1. ASSUME NEW i \in 1 .. Len(l), IsPrefix(ref, l[i].name) PROVE FindRefHash(l, ref) # {}
  <2>1. PICK j \in 1 .. Len(l) : FoundAt(l, ref, j)
    BY <1>1, FirstLineFound
  <2>2. FindRefHash(l, ref) = {l[j].hash}
    BY <2>1, OneLineFound
  <2>3. QED
    BY <2>2
<1>2. ASSUME \A i \in 1 .. Len(l) : ~IsPrefix(ref, l[i].name) PROVE FindRefHash(l, ref) = {}
  BY <1>2 DEF FindRefHash, Found, FoundAt
<1>3. QED
  BY <1>1, <1>2

(* Of the lines that begin like a name, the one that bears it is the first. *)
LEMMA NameIsFound ==
  ASSUME NEW l \in Listings, NEW ref \in Seq(PreferredPart), HashesOf(l, ref) # {}
  PROVE  FindRefHash(l, ref) = HashesOf(l, ref)
<1>1. PICK i \in 1 .. Len(l) : l[i].name = ref
  BY DEF HashesOf
<1>2. IsPrefix(ref, ref)
  BY PrefixByParts
<1>3. \A j \in 1 .. Len(l) : l[j].name = ref => j = i
  BY <1>1, ListingNames DEF Sorted
<1>4. \A j \in 1 .. i - 1 : ~IsPrefix(ref, l[j].name)
  <2> SUFFICES ASSUME NEW j \in 1 .. i - 1, IsPrefix(ref, l[j].name) PROVE FALSE
    OBVIOUS
  <2>1. j \in 1 .. Len(l) /\ j # i /\ j < i
    BY ListingNames
  <2>2. IsStrictPrefix(l[i].name, l[j].name)
    BY <1>1, <1>3, <2>1 DEF IsStrictPrefix
  <2>3. i < j
    BY <2>1, <2>2, ListingNames DEF Sorted
  <2>4. QED
    BY <2>1, <2>3
<1>5. FindRefHash(l, ref) = {l[i].hash}
  BY <1>1, <1>2, <1>4, OneLineFound DEF FoundAt
<1>6. HashesOf(l, ref) = {l[i].hash}
  BY <1>1, <1>3 DEF HashesOf
<1>7. QED
  BY <1>5, <1>6

LEMMA ListingPrefersHead ==
  ASSUME NEW l \in Listings
  PROVE  PreferredHead(l)
<1> DEFINE master == HashesOf(l, Master)
           main   == HashesOf(l, Main)
           mimics == {i \in Branches(l) : IsPrefix(Master, l[i].name)}
<1>0. \A i \in 1 .. Len(l) :
        IsPrefix(Master, l[i].name) \/ IsPrefix(Main, l[i].name) => i \in Branches(l)
  BY ListingNames, PreferredAreBranches DEF Branches
<1>1. master # {} => SelectHeadHash(l) = master
  BY NameIsFound, PreferredNames DEF SelectHeadHash
<1>2. ASSUME mimics = {}, main # {} PROVE SelectHeadHash(l) = main
  <2>1. FindRefHash(l, Master) = {}
    BY <1>0, <1>2, NothingFound
  <2>2. FindRefHash(l, Main) = main
    BY <1>2, NameIsFound, PreferredNames
  <2>3. QED
    BY <1>2, <2>1, <2>2 DEF SelectHeadHash
<1>3. SelectHeadHash(l) \subseteq {l[i].hash : i \in Branches(l)}
  <2>1. \A ref \in {Master, Main, Heads} :
          FindRefHash(l, ref) \subseteq {l[i].hash : i \in Branches(l)}
    BY <1>0 DEF FindRefHash, Found, FoundAt, Branches
  <2>2. QED
    BY <2>1 DEF SelectHeadHash
<1>4. SelectHeadHash(l) = {} <=> Branches(l) = {}
  <2>1. FindRefHash(l, Heads) = {} <=> Branches(l) = {}
    BY NothingFound DEF Branches
  <2>2. Branches(l) = {} => FindRefHash(l, Master) = {} /\ FindRefHash(l, Main) = {}
    BY <1>0, NothingFound
  <2>3. QED
    BY <2>1, <2>2 DEF SelectHeadHash
<1>5. QED
  BY <1>1, <1>2, <1>3, <1>4 DEF PreferredHead

(***************************************************************************)
(* Whatever the remote lists and however it moves, the search by text      *)
(* takes master where there is one, main where nothing begins like master, *)
(* some branch otherwise, and none only if there is none.                  *)
(***************************************************************************)
THEOREM CloneHeadIsPreferred == CloneSpec => []HeadIsPreferred
<1>1. CloneTypeOK => HeadIsPreferred
  BY ListingPrefersHead DEF CloneTypeOK, HeadIsPreferred
<1>2. QED
  BY <1>1, CloneTypeCorrect, PTL

-----------------------------------------------------------------------------
(***************************************************************************)
(* CheckoutIsTree, for every remote, every number of clones and every      *)
(* bound.  Three inductive invariants say what success says before the     *)
(* end: DirsKept of the directories, FilesKept of the files and of those   *)
(* who write them, AllWalk of the walk through the trees.                  *)
(***************************************************************************)

(* A clone that has not come to the tree has restored nothing; the directories *)
(* it has made, and the one it is about to walk through, are directories.       *)
Fresh(p) ==
  stage[p] \in {"idle", "refs", "pack", "unpack"} =>
    todo[p] = << >> /\ target[p] = Root /\ dirs[p] = {} /\ files[p] = {}

DirsOf(p) ==
  /\ stage[p] \in {"refs", "pack", "unpack"} => IsDirectory(Root)
  /\ stage[p] = "tree" => IsDirectory(target[p])
  /\ \A i \in 1 .. Len(todo[p]) : IsDirectory(todo[p][i].dir)
  /\ \A d \in dirs[p] : IsDirectory(d[1])

DirsKept == WritersHaveFiles /\ \A p \in Proc : Fresh(p) /\ DirsOf(p)

LEMMA DirsUntouched ==
  ASSUME KindsKept, NEW p \in Proc, Fresh(p), DirsOf(p),
         UNCHANGED <<CloneOwn(p), dirs[p], files[p]>>
  PROVE  Fresh(p)' /\ DirsOf(p)'
BY DEF KindsKept, Fresh, DirsOf, CloneOwn, IsDirectory

(* The walk goes where a directory was made, and comes back to one. *)
LEMMA DirsOfActs ==
  ASSUME TypeOK, CloneTypeOK, DirsKept, KindsKept, NEW p \in Proc, ActsOf(p)
  PROVE  Fresh(p)' /\ DirsOf(p)'
<1>a. RunsType /\ WorkType /\ RestType /\ PlaceOK(p) /\ Fresh(p) /\ DirsOf(p)
  BY TypesAre DEF DirsKept
<1>b. \A n : IsDirectory(n) => IsDirectory(n)'
  BY DEF KindsKept
<1>1. CASE CloneStart(p)
  <2>1. /\ stage[p] = "idle" /\ UNCHANGED <<target, todo, dirs, files>>
        /\ stage'[p] = "exit" \/ (stage'[p] = "refs" /\ Put(Root, Directory))
    BY <1>a, <1>1 DEF CloneStart, chronicle, CloneEnd, Enter, RunsType
  <2>2. stage'[p] = "refs" => IsDirectory(Root)'
    BY <2>1 DEF Put, IsDirectory
  <2>3. QED
    BY ONLY <1>a, <1>b, <2>1, <2>2 DEF Fresh, DirsOf
<1>2. CASE FetchRefs(p) \/ FetchPack(p)
  <2>1. /\ stage[p] \in {"refs", "pack"} /\ UNCHANGED <<target, todo, dirs, files>>
        /\ stage'[p] \in {"exit", "pack", "unpack"}
    BY <1>a, <1>2 DEF FetchRefs, FetchPack, chronicle, CloneEnd, Enter, RunsType
  <2>2. QED
    BY ONLY <1>a, <1>b, <2>1 DEF Fresh, DirsOf
<1>3. CASE Unpacked(p)
  <2>1. /\ stage[p] = "unpack" /\ UNCHANGED <<target, todo, dirs, files>>
        /\ stage'[p] \in {"exit", "tree"}
    BY <1>a, <1>3 DEF Unpacked, chronicle, CloneEnd, Enter, RunsType
  <2>2. QED
    BY ONLY <1>a, <1>b, <2>1 DEF Fresh, DirsOf
<1>4. CASE TreeRead(p)
  <2>1. /\ stage[p] = "tree" /\ UNCHANGED <<target, dirs, files>>
        /\ stage'[p] \in {"exit", "walk"}
        /\ \/ UNCHANGED todo
           \/ /\ Entries(obj[p]) # Malformed
              /\ todo' = [todo EXCEPT ![p] = Append(@, Frame(target[p], obj[p]))]
    BY <1>a, <1>4 DEF TreeRead, chronicle, CloneEnd, Enter, RunsType
  <2>2. CASE UNCHANGED todo
    BY ONLY <1>a, <1>b, <2>1, <2>2 DEF Fresh, DirsOf
  <2>3. CASE /\ Entries(obj[p]) # Malformed
             /\ todo' = [todo EXCEPT ![p] = Append(@, Frame(target[p], obj[p]))]
    <3>1. /\ Len(todo'[p]) = Len(todo[p]) + 1 /\ Len(todo[p]) \in Nat
          /\ todo'[p][Len(todo[p]) + 1].dir = target[p]
          /\ \A i \in 1 .. Len(todo[p]) : todo'[p][i] = todo[p][i]
      BY <1>a, <2>1, <2>3, PushFrame DEF PlaceOK, Frame, RunsType
    <3>2. IsDirectory(target[p])'
      BY ONLY <1>a, <1>b, <2>1 DEF DirsOf
    <3>3. (\A i \in 1 .. Len(todo[p]) : IsDirectory(todo[p][i].dir))'
      <4>1. ASSUME NEW i \in 1 .. Len(todo'[p]) PROVE IsDirectory(todo'[p][i].dir)
        <5>1. i \in 1 .. Len(todo[p]) \/ i = Len(todo[p]) + 1
          BY ONLY <3>1, <4>1
        <5>2. IsDirectory(target[p]) /\ \A j \in 1 .. Len(todo[p]) : IsDirectory(todo[p][j].dir)
          BY ONLY <1>a, <2>1 DEF DirsOf
        <5>3. QED
          BY ONLY <3>1, <5>1, <5>2
      <4>2. QED
        BY ONLY <4>1, KindsKept DEF KindsKept, IsDirectory
    <3>4. QED
      BY ONLY <1>a, <1>b, <2>1, <3>3 DEF Fresh, DirsOf
  <2>4. QED
    BY <2>1, <2>2, <2>3
<1>5. CASE RestoreDirectory(p) \/ RestoreFile(p)
  <2>1. /\ stage[p] = "walk" /\ AtEntry(p) /\ Advance(p) /\ UNCHANGED <<dirs, files>>
        /\ \/ stage'[p] \in {"exit", "blob"}
           \/ stage'[p] = "tree" /\ Put(PathAt(p), Directory)
    BY <1>a, <1>5
    DEF RestoreDirectory, RestoreFile, AtEntry, chronicle, CloneEnd, Enter, RunsType
  <2>2. /\ Len(todo'[p]) = Len(todo[p]) /\ Len(todo[p]) \in Nat \ {0}
        /\ \A i \in 1 .. Len(todo[p]) : todo'[p][i].dir = todo[p][i].dir
    <3>1. /\ Len(todo[p]) \in Nat \ {0} /\ Top(p) = todo[p][Len(todo[p])] /\ Top(p) \in Frames
          /\ Len(todo'[p]) = Len(todo[p])
          /\ todo'[p][Len(todo[p])] = [Top(p) EXCEPT !.next = @ + 1]
          /\ \A i \in 1 .. Len(todo[p]) - 1 : todo'[p][i] = todo[p][i]
      BY <2>1, EntryAtHand, TopFrame, AdvanceFrame
    <3>2. todo'[p][Len(todo[p])].dir = todo[p][Len(todo[p])].dir
      BY ONLY <3>1 DEF Frames
    <3>3. ASSUME NEW i \in 1 .. Len(todo[p]) PROVE todo'[p][i].dir = todo[p][i].dir
      <4>1. i \in 1 .. Len(todo[p]) - 1 \/ i = Len(todo[p])
        BY ONLY <3>1, <3>3
      <4>2. QED
        BY ONLY <3>1, <3>2, <4>1
    <3>4. QED
      BY ONLY <3>1, <3>3
  <2>3. target'[p] = PathAt(p)
    BY <1>a, <2>1 DEF Advance, Aim, RunsType
  <2>4. stage'[p] = "tree" => IsDirectory(target[p])'
    BY <2>1, <2>3 DEF Put, IsDirectory
  <2>5. (\A i \in 1 .. Len(todo[p]) : IsDirectory(todo[p][i].dir))'
    <3>1. \A i \in 1 .. Len(todo'[p]) : IsDirectory(todo'[p][i].dir)
      BY ONLY <1>a, <2>2 DEF DirsOf
    <3>2. QED
      BY ONLY <3>1, KindsKept DEF KindsKept, IsDirectory
  <2>6. QED
    BY ONLY <1>a, <1>b, <2>1, <2>4, <2>5 DEF Fresh, DirsOf
<1>6. CASE BlobRead(p) \/ PieceWritten(p) \/ FileWritten(p) \/ FileRefused(p)
  <2>1. /\ stage[p] \in {"blob", "write"} /\ UNCHANGED <<target, todo, dirs>>
        /\ stage'[p] \in {"exit", "write", "walk"}
    BY <1>a, <1>6 DEF BlobRead, OpenFile, PieceWritten, FileWritten, FileRefused, chronicle,
       CloneEnd, Enter, RunsType
  <2>2. QED
    BY ONLY <1>a, <1>b, <2>1 DEF Fresh, DirsOf
<1>7. CASE TreeEnds(p)
  <2>1. /\ stage[p] = "walk" /\ stage'[p] \in {"exit", "walk"} /\ todo[p] # << >>
        /\ todo' = [todo EXCEPT ![p] = Front(@)] /\ UNCHANGED <<target, files>>
        /\ dirs'[p] = dirs[p] \cup {<<Top(p).dir, Top(p).tree>>}
    BY <1>a, <1>7 DEF TreeEnds, CloneEnd, Enter, RunsType, RestType, PlaceOK
  <2>2. /\ Len(todo[p]) \in Nat \ {0} /\ Top(p) = todo[p][Len(todo[p])]
        /\ Len(todo'[p]) = Len(todo[p]) - 1
        /\ \A i \in 1 .. Len(todo[p]) - 1 : todo'[p][i] = todo[p][i]
    BY <2>1, TopFrame, PopFrame
  <2>3. (\A i \in 1 .. Len(todo[p]) : IsDirectory(todo[p][i].dir))'
    <3>1. \A i \in 1 .. Len(todo'[p]) : IsDirectory(todo'[p][i].dir)
      BY ONLY <1>a, <2>2 DEF DirsOf
    <3>2. QED
      BY ONLY <3>1, KindsKept DEF KindsKept, IsDirectory
  <2>4. (\A d \in dirs[p] : IsDirectory(d[1]))'
    <3>1. \A d \in dirs'[p] : IsDirectory(d[1])
      BY ONLY <1>a, <2>1, <2>2 DEF DirsOf
    <3>2. QED
      BY ONLY <3>1, KindsKept DEF KindsKept, IsDirectory
  <2>5. QED
    BY ONLY <1>a, <1>b, <2>1, <2>3, <2>4 DEF Fresh, DirsOf
<1>8. CASE CloneLeaves(p) \/ KillClone(p)
  <2>1. /\ stage'[p] = "idle" /\ todo'[p] = << >> /\ target'[p] = Root
        /\ dirs'[p] = {} /\ files'[p] = {}
    BY <1>a, <1>8 DEF CloneLeaves, KillClone, Forget, Enter, Aim, RunsType, RestType
  <2>2. QED
    BY ONLY <2>1 DEF Fresh, DirsOf
<1>9. CASE UNCHANGED <<run, chronicle>>
  BY <1>a, <1>9, DirsUntouched DEF run, chronicle, CloneOwn
<1>10. QED
  BY <1>1, <1>2, <1>3, <1>4, <1>5, <1>6, <1>7, <1>8, <1>9 DEF ActsOf, CloneStep

LEMMA DirsKeptStep ==
  TypeOK /\ CloneTypeOK /\ DirsKept /\ [CloneNext]_cloneVars => DirsKept'
<1> SUFFICES ASSUME TypeOK, CloneTypeOK, DirsKept, [CloneNext]_cloneVars PROVE DirsKept'
  OBVIOUS
<1>1. KindsKept /\ WritersHaveFiles'
  BY KindsStay, WritersStep DEF DirsKept
<1>2. ASSUME NEW p \in Proc, ActsOf(p), NEW q \in Proc PROVE Fresh(q)' /\ DirsOf(q)'
  <2>1. CASE q = p
    BY <1>1, <1>2, <2>1, DirsOfActs
  <2>2. CASE q # p
    BY <1>1, <1>2, <2>2, OthersStay, DirsUntouched DEF Own, DirsKept
  <2>3. QED
    BY <2>1, <2>2
<1>3. CASE UNCHANGED <<run, chronicle>>
  BY <1>1, <1>3, DirsUntouched DEF run, chronicle, CloneOwn, DirsKept
<1>4. RemoteMoves \/ UNCHANGED cloneVars => UNCHANGED <<run, chronicle>>
  BY DEF RemoteMoves, cloneVars
<1>5. QED
  BY <1>1, <1>2, <1>3, <1>4, NextIsActs DEF DirsKept

-----------------------------------------------------------------------------
(***************************************************************************)
(* A file a clone has written, or is writing, is lost, or it holds pieces  *)
(* of its body alone, whoever writes it writes the same, and all that it   *)
(* lacks is yet to come from one writer: from the clone itself, or from    *)
(* one that is known to have taken the clone's bytes by opening the file.  *)
(***************************************************************************)
Mine(p, n, b) ==
  \/ \E f \in files[p] : f[1] = n /\ f[2].body = b
  \/ Writes(p, n) /\ blob[p].body = b

Pure(n, b) ==
  /\ IsFile(n) /\ DOMAIN work[n] \subseteq 1 .. Length(b)
  /\ \A i \in DOMAIN work[n] : work[n][i] = b

Agreed(n, b) == \A r \in Proc : Writes(r, n) => blob[r].body = b

Tended(p, n, b) ==
  \/ Missing(n, b) = {}
  \/ \E r \in Proc : /\ Writes(r, n) /\ (r = p \/ p \in over[r])
                     /\ Missing(n, b) \subseteq Owed(r)

FileKept(p, n, b) ==
  Mine(p, n, b) => n \in lost[p] \/ (Pure(n, b) /\ Agreed(n, b) /\ Tended(p, n, b))

(* A clone that writes a file for the second time has lost the first one. *)
Rewrites(p) == stage[p] = "write" /\ Restored(p, target[p]) => target[p] \in lost[p]

FilesKept == \A p \in Proc : Rewrites(p) /\ \A n, b : FileKept(p, n, b)

(* What a step does to no writer, no file written and no file at all. *)
WritersStay(Q) ==
  \A q \in Q : /\ stage'[q] = "write" <=> stage[q] = "write"
               /\ stage[q] = "write" =>
                    target'[q] = target[q] /\ blob'[q] = blob[q] /\ sent'[q] = sent[q]

FilesStay(S) == \A n \in S : n \in DOMAIN work' /\ work'[n] = work[n]

(* A step that touches neither a file nor those who write it. *)
WritersOfStay(q, n) ==
  \A r \in Proc : /\ Writes(r, n)' <=> Writes(r, n)
                  /\ Writes(r, n) => /\ blob'[r] = blob[r] /\ sent'[r] = sent[r]
                                     /\ q \in over[r] => q \in over'[r]

LEMMA KeptAlone ==
  ASSUME NEW q \in Proc, NEW n, NEW b, FileKept(q, n, b), Mine(q, n, b), n \notin lost[q],
         IsFile(n) => n \in DOMAIN work' /\ work'[n] = work[n], WritersOfStay(q, n)
  PROVE  FileKept(q, n, b)'
<1>1. Pure(n, b) /\ Agreed(n, b) /\ Tended(q, n, b)
  BY DEF FileKept
<1>2. n \in DOMAIN work' /\ work'[n] = work[n]
  BY <1>1 DEF Pure
<1>3. Pure(n, b)' /\ Missing(n, b)' = Missing(n, b)
  BY ONLY <1>1, <1>2 DEF Pure, IsFile, Missing, Length
<1>4. Agreed(n, b)'
  BY ONLY <1>1, WritersOfStay(q, n) DEF Agreed, WritersOfStay
<1>5. \A r \in Proc : Writes(r, n) => Owed(r)' = Owed(r)
  BY DEF WritersOfStay, Owed, Length
<1>6. Tended(q, n, b)'
  BY ONLY <1>1, <1>3, <1>5, WritersOfStay(q, n) DEF Tended, WritersOfStay
<1>7. QED
  BY ONLY <1>3, <1>4, <1>6 DEF FileKept

LEMMA FilesUntouched ==
  ASSUME FilesKept, WritersStay(Proc), FilesStay({n \in DOMAIN work : IsFile(n)}),
         \A q \in Proc : \/ files'[q] = files[q] /\ lost'[q] = lost[q]
                         \/ files'[q] = {} /\ stage'[q] # "write",
         \A q \in Proc : stage[q] = "write" => over'[q] = over[q]
  PROVE  FilesKept'
<1>a. \A q \in Proc : \A n : WritersOfStay(q, n)
  BY DEF WritersStay, Writes, WritersOfStay
<1>b. \A n : IsFile(n) => n \in DOMAIN work' /\ work'[n] = work[n]
  BY DEF FilesStay, IsFile
<1>1. ASSUME NEW q \in Proc, NEW n, NEW b PROVE FileKept(q, n, b)'
  <2>1. CASE files'[q] = {} /\ stage'[q] # "write"
    BY ONLY <2>1 DEF FileKept, Mine, Writes
  <2>2. CASE files'[q] = files[q] /\ lost'[q] = lost[q]
    <3>1. Mine(q, n, b)' <=> Mine(q, n, b)
      BY <1>a, <2>2 DEF Mine, WritersOfStay
    <3>2. CASE Mine(q, n, b) /\ n \notin lost[q]
      BY <1>a, <1>b, <3>2, KeptAlone DEF FilesKept
    <3>3. QED
      BY ONLY <2>2, <3>1, <3>2 DEF FileKept
  <2>3. QED
    BY <2>1, <2>2
<1>2. ASSUME NEW q \in Proc PROVE Rewrites(q)'
  <2>1. SUFFICES ASSUME stage'[q] = "write" PROVE Rewrites(q)'
    BY DEF Rewrites
  <2>2. /\ stage[q] = "write" /\ target'[q] = target[q]
        /\ files'[q] = files[q] /\ lost'[q] = lost[q] /\ Rewrites(q)
    BY <2>1 DEF WritersStay, FilesKept
  <2>3. QED
    BY ONLY <2>2 DEF Rewrites, Restored
<1>3. QED
  BY <1>1, <1>2 DEF FilesKept

(* p opens the file n to write the body of o. *)
LEMMA FilesOpened ==
  ASSUME CloneTypeOK, FilesKept, NEW p \in Proc, NEW o \in Object, NEW n,
         target[p] = n, target'[p] = n, stage[p] # "write", OpenFile(p, n, o),
         WritersStay(Proc \ {p}), files' = files
  PROVE  FilesKept'
<1> DEFINE L == LostByOpening(p, n, o)
<1>a. /\ n \in DOMAIN work' /\ work'[n] = << >>
      /\ \A m : m # n => /\ m \in DOMAIN work' <=> m \in DOMAIN work
                         /\ m \in DOMAIN work => work'[m] = work[m]
  BY DEF OpenFile, Put
<1>b. \A q \in Proc : lost'[q] = IF q \in L THEN lost[q] \cup {n} ELSE lost[q]
  BY DEF OpenFile, Lose
<1>c. stage'[p] = "write" /\ blob'[p] = o /\ sent'[p] = 0
  BY DEF OpenFile, Enter, CloneTypeOK
<1>d. \A q \in Proc \ {p} : \A m :
        /\ Writes(q, m)' <=> Writes(q, m)
        /\ Writes(q, m) => blob'[q] = blob[q] /\ sent'[q] = sent[q]
  BY DEF WritersStay, Writes
<1>e. \A m : ~Writes(p, m) /\ (Writes(p, m)' <=> m = n)
  BY <1>c DEF Writes
<1>f. \A q \in Proc \ {p} : Restored(q, n) \/ Writes(q, n) => q \in over'[p]
  BY DEF OpenFile, CloneTypeOK
<1>g. \A r \in Proc \ {p} : \A m : m # n /\ Writes(r, m) => over'[r] = over[r]
  BY DEF OpenFile, CloneTypeOK, Writes
<1>h. DOMAIN << >> = {} /\ << >> # Directory
  BY EmptyIsFile, CloneAssumption
(* Where p writes alone, or writes what all the others do, it owes every piece. *)
<1>1. ASSUME NEW q \in Proc, Agreed(n, o.body)', q = p \/ q \in over'[p]
      PROVE  (Pure(n, o.body) /\ Agreed(n, o.body) /\ Tended(q, n, o.body))'
  <2>1. Pure(n, o.body)'
    BY ONLY <1>a, <1>h DEF Pure, IsFile
  <2>2. Owed(p)' = 1 .. Length(o.body)
    BY ONLY <1>c DEF Owed, Length
  <2>3. Missing(n, o.body)' \subseteq Owed(p)'
    BY ONLY <2>2 DEF Missing, Length
  <2>4. Writes(p, n)'
    BY ONLY <1>e
  <2>5. QED
    BY ONLY <1>1, <2>1, <2>3, <2>4, p \in Proc DEF Tended
<1>2. ASSUME NEW q \in Proc, NEW m, NEW b PROVE FileKept(q, m, b)'
  <2>1. SUFFICES ASSUME Mine(q, m, b)', m \notin lost'[q] PROVE FileKept(q, m, b)'
    BY DEF FileKept
  <2>2. m \notin lost[q] /\ (m = n => q \notin L)
    BY ONLY <1>b, <2>1
  <2>3. CASE m # n
    <3>1. Mine(q, m, b)
      BY ONLY <1>d, <1>e, <2>1, <2>3, q \in Proc, files' = files DEF Mine
    <3>2. WritersOfStay(q, m)
      BY ONLY <1>d, <1>e, <1>g, <2>3 DEF WritersOfStay
    <3>3. IsFile(m) => m \in DOMAIN work' /\ work'[m] = work[m]
      BY ONLY <1>a, <2>3 DEF IsFile
    <3>4. FileKept(q, m, b)
      BY DEF FilesKept
    <3>5. QED
      BY ONLY <2>2, <3>1, <3>2, <3>3, <3>4, q \in Proc, KeptAlone
  <2>4. CASE m = n /\ q = p
    <3>1. ~Restored(p, n) /\ \A r \in Others(p, n) : blob[r].body = o.body
      BY <2>2, <2>4 DEF LostByOpening
    <3>2. b = o.body
      BY ONLY <1>c, <2>1, <2>4, <3>1, files' = files DEF Mine, Restored
    <3>3. Agreed(n, o.body)'
      BY ONLY <1>c, <1>d, <1>e, <3>1 DEF Agreed, Others
    <3>4. QED
      BY ONLY <1>1, <2>4, <3>2, <3>3, p \in Proc DEF FileKept
  <2>5. CASE m = n /\ q # p
    <3>1. Mine(q, n, b)
      BY ONLY <1>d, <2>1, <2>5, q \in Proc, files' = files DEF Mine
    <3>2. b = o.body
      BY <2>2, <2>5, <3>1 DEF LostByOpening, Mine
    <3>3. Agreed(n, b)
      BY <2>2, <2>5, <3>1 DEF FilesKept, FileKept
    <3>4. Agreed(n, o.body)'
      BY ONLY <1>c, <1>d, <1>e, <3>2, <3>3 DEF Agreed
    <3>5. q \in over'[p]
      BY ONLY <1>f, <2>5, <3>1, q \in Proc DEF Mine, Restored
    <3>6. QED
      BY ONLY <1>1, <2>5, <3>2, <3>4, <3>5, q \in Proc DEF FileKept
  <2>6. QED
    BY <2>3, <2>4, <2>5
<1>3. ASSUME NEW q \in Proc PROVE Rewrites(q)'
  <2>1. SUFFICES ASSUME stage'[q] = "write" PROVE Rewrites(q)'
    BY DEF Rewrites
  <2>2. CASE q = p
    <3>1. Restored(p, n) => n \in lost'[p]
      BY <1>b DEF LostByOpening
    <3>2. QED
      BY ONLY <2>2, <3>1, target'[p] = n, files' = files DEF Rewrites, Restored
  <2>3. CASE q # p
    <3>1. stage[q] = "write" /\ target'[q] = target[q] /\ Rewrites(q)
      BY <2>1, <2>3 DEF WritersStay, FilesKept
    <3>2. lost[q] \subseteq lost'[q]
      BY ONLY <1>b, q \in Proc
    <3>3. QED
      BY ONLY <3>1, <3>2, files' = files DEF Rewrites, Restored
  <2>4. QED
    BY <2>2, <2>3
<1>4. QED
  BY <1>2, <1>3 DEF FilesKept

(* p writes one piece of the file n. *)
LEMMA FilesGrow ==
  ASSUME CloneTypeOK, WritersHaveFiles, FilesKept, NEW p \in Proc, NEW n, target[p] = n,
         PieceWritten(p), WritersStay(Proc \ {p})
  PROVE  FilesKept'
<1> DEFINE c == blob[p].body
           i == sent[p] + 1
<1>a. /\ stage[p] = "write" /\ i \in 1 .. Length(c) /\ sent[p] \in Nat /\ IsFile(n)
      /\ Put(n, Grown(work[n], i, c))
      /\ UNCHANGED <<stage, target, blob, files, lost, over>>
  <2>1. stage[p] = "write" /\ UNCHANGED <<stage, target, blob, files, lost, over>>
    BY Zenon DEF PieceWritten, chronicle
  <2>2. sent[p] \in 0 .. NPieces
    BY DEF CloneTypeOK
  <2>3. sent[p] \in Nat
    BY <2>2, StoreAssumption
  <2>4. QED
    BY <2>1, <2>3, PieceEffects
<1>b. /\ n \in DOMAIN work' /\ work'[n] = Grown(work[n], i, c)
      /\ \A m : m # n => /\ m \in DOMAIN work' <=> m \in DOMAIN work
                         /\ m \in DOMAIN work => work'[m] = work[m]
  BY <1>a DEF Put
<1>c. sent'[p] = i
  BY DEF PieceWritten, CloneTypeOK
<1>d. \A q \in Proc \ {p} : \A m : Writes(q, m) => sent'[q] = sent[q]
  BY DEF WritersStay, Writes
<1>e. \A q \in Proc : \A m : Writes(q, m)' <=> Writes(q, m)
  BY ONLY <1>a DEF Writes
<1>f. Writes(p, n) /\ \A m : Writes(p, m) => m = n
  BY ONLY <1>a, target[p] = n DEF Writes
<1>g. /\ DOMAIN Grown(work[n], i, c) = DOMAIN work[n] \cup {i}
      /\ Grown(work[n], i, c)[i] = c
      /\ \A j \in DOMAIN work[n] : j # i => Grown(work[n], i, c)[j] = work[n][j]
  BY ONLY DEF Grown
<1>h. IsFile(n)'
  BY <1>b, PieceEffects, CloneAssumption DEF IsFile
<1>1. ASSUME NEW q \in Proc, NEW m, NEW b PROVE FileKept(q, m, b)'
  <2>1. SUFFICES ASSUME Mine(q, m, b)', m \notin lost'[q] PROVE FileKept(q, m, b)'
    BY DEF FileKept
  <2>2. Mine(q, m, b) /\ m \notin lost[q] /\ FileKept(q, m, b)
    BY <1>a, <1>e, <2>1 DEF Mine, FilesKept
  <2>3. CASE m # n
    <3>1. WritersOfStay(q, m)
      BY ONLY <1>a, <1>d, <1>e, <1>f, <2>3 DEF WritersOfStay
    <3>2. IsFile(m) => m \in DOMAIN work' /\ work'[m] = work[m]
      BY ONLY <1>b, <2>3 DEF IsFile
    <3>3. QED
      BY ONLY <2>2, <3>1, <3>2, q \in Proc, KeptAlone
  <2>4. CASE m = n
    <3>1. Pure(n, b) /\ Agreed(n, b) /\ Tended(q, n, b) /\ c = b
      BY ONLY <1>f, <2>2, <2>4, p \in Proc DEF FileKept, Agreed
    <3>2. Pure(n, b)'
      BY ONLY <1>a, <1>b, <1>g, <1>h, <3>1 DEF Pure, Length
    <3>3. Agreed(n, b)'
      BY ONLY <1>a, <1>e, <3>1 DEF Agreed
    <3>4. Missing(n, b)' = Missing(n, b) \ {i}
      BY ONLY <1>a, <1>b, <1>g, <3>1 DEF Missing, Length
    <3>5. Tended(q, n, b)'
      <4>1. CASE Missing(n, b) = {}
        BY ONLY <3>4, <4>1 DEF Tended
      <4>2. CASE Missing(n, b) # {}
        <5>1. PICK r \in Proc : /\ Writes(r, n) /\ (r = q \/ q \in over[r])
                                /\ Missing(n, b) \subseteq Owed(r)
          BY ONLY <3>1, <4>2 DEF Tended
        <5>2. CASE r # p
          <6>1. Owed(r)' = Owed(r)
            BY ONLY <1>a, <1>d, <5>1, <5>2 DEF Owed, Length
          <6>2. QED
            BY ONLY <1>a, <1>e, <3>4, <5>1, <6>1 DEF Tended
        <5>3. CASE r = p
          <6>1. Owed(p)' = i + 1 .. Length(c)
            BY ONLY <1>a, <1>c DEF Owed, Length
          <6>2. Owed(p) = i .. Length(c)
            BY ONLY DEF Owed
          <6>3. Length(c) \in Int
            BY LengthType, StoreAssumption
          <6>4. i .. Length(c) \subseteq {i} \cup (i + 1 .. Length(c))
            BY ONLY <1>a, <6>3
          <6>5. Missing(n, b)' \subseteq Owed(p)'
            BY ONLY <3>4, <5>1, <5>3, <6>1, <6>2, <6>4
          <6>6. QED
            BY ONLY <1>a, <1>e, <5>1, <5>3, <6>5 DEF Tended
        <5>4. QED
          BY <5>2, <5>3
      <4>3. QED
        BY <4>1, <4>2
    <3>6. QED
      BY ONLY <2>4, <3>2, <3>3, <3>5 DEF FileKept
  <2>5. QED
    BY <2>3, <2>4
<1>2. \A q \in Proc : Rewrites(q)'
  BY <1>a DEF FilesKept, Rewrites, Restored
<1>3. QED
  BY <1>1, <1>2 DEF FilesKept

(* p lets go of the file n: it is written, the device refused it, or the process died. *)
LEMMA FilesLetGo ==
  ASSUME CloneTypeOK, FilesKept, NEW p \in Proc, NEW n, target[p] = n,
         stage[p] = "write", stage'[p] # "write", UNCHANGED work, LetGo(p),
         WritersStay(Proc \ {p}),
         \A q \in Proc \ {p} :
           /\ files'[q] = files[q] /\ lost[q] \subseteq lost'[q]
           /\ q \in LostByStopping(p, n) => n \in lost'[q],
         \A f \in files'[p] :
           \/ f[1] \in lost'[p]
           \/ f[1] \notin lost[p] /\ f[1] # n /\ f \in files[p]
           \/ n \notin lost[p] /\ f = <<n, blob[p]>> /\ sent[p] = Length(blob[p].body)
  PROVE  FilesKept'
<1>a. \A q \in Proc : \A m :
        /\ Writes(q, m)' <=> Writes(q, m) /\ q # p
        /\ Writes(q, m) /\ q # p =>
             blob'[q] = blob[q] /\ sent'[q] = sent[q] /\ over'[q] = over[q]
  BY LetGoType DEF WritersStay, Writes
<1>b. Writes(p, n) /\ \A m : Writes(p, m) => m = n
  BY DEF Writes
<1>c. sent[p] \in Nat /\ Length(blob[p].body) \in Nat /\ sent[p] <= Length(blob[p].body)
  BY LengthType DEF CloneTypeOK, PlaceOK
(* What was at n, and is still to come. *)
<1>1. ASSUME NEW q \in Proc, NEW b, Mine(q, n, b), n \notin lost[q],
             sent[p] = Length(blob[p].body) \/ (q # p /\ q \notin LostByStopping(p, n))
      PROVE  FileKept(q, n, b)'
  <2>1. Pure(n, b) /\ Agreed(n, b) /\ Tended(q, n, b)
    BY <1>1 DEF FilesKept, FileKept
  <2>2. Pure(n, b)' /\ Missing(n, b)' = Missing(n, b)
    BY ONLY <2>1, UNCHANGED work DEF Pure, IsFile, Missing, Length
  <2>3. Agreed(n, b)'
    BY ONLY <1>a, <2>1 DEF Agreed
  <2>4. Tended(q, n, b)'
    <3>1. CASE Missing(n, b) = {}
      BY ONLY <2>2, <3>1 DEF Tended
    <3>2. CASE Missing(n, b) # {}
      <4>1. PICK r \in Proc : /\ Writes(r, n) /\ (r = q \/ q \in over[r])
                              /\ Missing(n, b) \subseteq Owed(r)
        BY ONLY <2>1, <3>2 DEF Tended
      <4>2. CASE r # p
        <5>1. Owed(r)' = Owed(r)
          BY ONLY <1>a, <4>1, <4>2 DEF Owed, Length
        <5>2. QED
          BY ONLY <1>a, <2>2, <4>1, <4>2, <5>1 DEF Tended
      <4>3. CASE r = p
        <5>1. sent[p] = Length(blob[p].body)
          <6>1. q # p => Restored(q, n) \/ Writes(q, n)
            BY ONLY <1>1 DEF Mine, Restored
          <6>2. CASE q # p /\ q \notin LostByStopping(p, n)
            <7>1. ~(sent[p] < Length(blob[p].body))
              BY <4>1, <4>3, <6>1, <6>2 DEF LostByStopping
            <7>2. QED
              BY ONLY <1>c, <7>1
          <6>3. QED
            BY ONLY <1>1, <6>2
        <5>2. Owed(p) = {}
          BY ONLY <1>c, <5>1 DEF Owed
        <5>3. QED
          BY ONLY <3>2, <4>1, <4>3, <5>2
      <4>4. QED
        BY <4>2, <4>3
    <3>3. QED
      BY <3>1, <3>2
  <2>5. QED
    BY ONLY <2>2, <2>3, <2>4 DEF FileKept
<1>2. ASSUME NEW q \in Proc, NEW m, NEW b, m # n, Mine(q, m, b), m \notin lost[q]
      PROVE  FileKept(q, m, b)'
  <2>1. WritersOfStay(q, m)
    BY ONLY <1>a, <1>b, <1>2 DEF WritersOfStay
  <2>2. FileKept(q, m, b)
    BY DEF FilesKept
  <2>3. IsFile(m) => m \in DOMAIN work' /\ work'[m] = work[m]
    BY ONLY UNCHANGED work DEF IsFile
  <2>4. QED
    BY ONLY <1>2, <2>1, <2>2, <2>3, KeptAlone
<1>3. ASSUME NEW q \in Proc, NEW m, NEW b PROVE FileKept(q, m, b)'
  <2>1. SUFFICES ASSUME Mine(q, m, b)', m \notin lost'[q] PROVE FileKept(q, m, b)'
    BY DEF FileKept
  <2>2. CASE q # p
    <3>1. /\ Mine(q, m, b) /\ m \notin lost[q]
          /\ m = n => q \notin LostByStopping(p, n)
      BY ONLY <1>a, <2>1, <2>2, q \in Proc,
         \A r \in Proc \ {p} :
           /\ files'[r] = files[r] /\ lost[r] \subseteq lost'[r]
           /\ r \in LostByStopping(p, n) => n \in lost'[r] DEF Mine
    <3>2. QED
      BY <1>1, <1>2, <2>2, <3>1
  <2>3. CASE q = p
    <3>1. PICK f \in files'[p] : f[1] = m /\ f[2].body = b
      BY ONLY <2>1, <2>3, stage'[p] # "write" DEF Mine, Writes
    <3>2. CASE m \notin lost[p] /\ m # n /\ f \in files[p]
      <4>1. Mine(p, m, b)
        BY ONLY <3>1, <3>2 DEF Mine
      <4>2. QED
        BY <1>2, <2>3, <3>2, <4>1
    <3>3. CASE n \notin lost[p] /\ f = <<n, blob[p]>> /\ sent[p] = Length(blob[p].body)
      <4>1. m = n /\ blob[p].body = b
        BY ONLY <3>1, <3>3
      <4>2. Mine(p, n, b)
        BY ONLY <1>b, <4>1 DEF Mine
      <4>3. QED
        BY <1>1, <2>3, <3>3, <4>1, <4>2
    <3>4. QED
      BY <2>1, <2>3, <3>1, <3>2, <3>3
  <2>4. QED
    BY <2>2, <2>3
<1>4. ASSUME NEW q \in Proc PROVE Rewrites(q)'
  <2>1. SUFFICES ASSUME stage'[q] = "write" PROVE Rewrites(q)'
    BY DEF Rewrites
  <2>2. /\ q # p /\ stage[q] = "write" /\ target'[q] = target[q] /\ Rewrites(q)
        /\ files'[q] = files[q] /\ lost[q] \subseteq lost'[q]
    BY <2>1 DEF WritersStay, FilesKept
  <2>3. QED
    BY ONLY <2>2 DEF Rewrites, Restored
<1>5. QED
  BY <1>3, <1>4 DEF FilesKept

LEMMA FilesOfActs ==
  ASSUME TypeOK, CloneTypeOK, DirsKept, FilesKept, NEW p \in Proc, ActsOf(p)
  PROVE  FilesKept'
<1>a. RunsType /\ RestType /\ PlaceOK(p) /\ WritersHaveFiles
  BY TypesAre DEF DirsKept
<1>b. WritersStay(Proc \ {p}) /\ \A q \in Proc \ {p} : files'[q] = files[q]
  BY OthersStay DEF WritersStay, Own, CloneOwn
(* Most steps are no writer's. *)
<1>c. ASSUME stage[p] # "write", stage'[p] # "write", UNCHANGED over,
             FilesStay({n \in DOMAIN work : IsFile(n)}),
             \A q \in Proc : \/ files'[q] = files[q] /\ lost'[q] = lost[q]
                             \/ q = p /\ files'[p] = {}
      PROVE  FilesKept'
  <2>1. WritersStay(Proc)
    BY <1>b, <1>c DEF WritersStay
  <2>2. QED
    BY <1>c, <2>1, FilesUntouched
<1>d. UNCHANGED work => FilesStay({n \in DOMAIN work : IsFile(n)})
  BY DEF FilesStay
<1>e. ASSUME NEW n, ~IsFile(n), NEW v, Put(n, v)
      PROVE  FilesStay({m \in DOMAIN work : IsFile(m)})
  BY <1>e DEF Put, FilesStay
<1>1. CASE CloneStart(p)
  <2>1. /\ stage[p] # "write" /\ stage'[p] # "write" /\ UNCHANGED <<files, lost, over>>
        /\ UNCHANGED work \/ (~IsFile(Root) /\ Put(Root, Directory))
    BY <1>a, <1>1 DEF CloneStart, chronicle, CloneEnd, Enter, RunsType
  <2>2. QED
    BY <1>c, <1>d, <1>e, <2>1
<1>2. CASE FetchRefs(p) \/ FetchPack(p) \/ Unpacked(p)
  <2>1. stage[p] # "write" /\ stage'[p] # "write" /\ UNCHANGED <<files, lost, over, work>>
    BY <1>a, <1>2 DEF FetchRefs, FetchPack, Unpacked, chronicle, CloneEnd, Enter, RunsType
  <2>2. QED
    BY <1>c, <1>d, <2>1
<1>3. CASE TreeRead(p) \/ TreeEnds(p)
  <2>1. stage[p] # "write" /\ stage'[p] # "write" /\ UNCHANGED <<files, lost, over, work>>
    BY <1>a, <1>3 DEF TreeRead, TreeEnds, chronicle, CloneEnd, Enter, RunsType
  <2>2. QED
    BY <1>c, <1>d, <2>1
<1>4. CASE RestoreDirectory(p) \/ RestoreFile(p)
  <2>1. /\ stage[p] # "write" /\ stage'[p] # "write" /\ UNCHANGED <<files, lost, over>>
        /\ UNCHANGED work \/ (~IsFile(PathAt(p)) /\ Put(PathAt(p), Directory))
    BY <1>a, <1>4 DEF RestoreDirectory, RestoreFile, Taken, AtEntry, chronicle, CloneEnd, Enter,
       RunsType
  <2>2. QED
    BY <1>c, <1>d, <1>e, <2>1
<1>5. CASE BlobRead(p)
  <2>1. /\ stage[p] = "blob" /\ obj[p] \in Object /\ UNCHANGED <<target, files>>
        /\ \/ stage'[p] = "exit" /\ UNCHANGED <<work, lost, over>>
           \/ OpenFile(p, target[p], obj[p])
    BY <1>a, <1>5 DEF BlobRead, CloneEnd, Enter, RunsType, PlaceOK
  <2>2. CASE stage'[p] = "exit" /\ UNCHANGED <<work, lost, over>>
    BY <1>c, <1>d, <2>1, <2>2
  <2>3. CASE OpenFile(p, target[p], obj[p])
    <3>1. PICK n : n = target[p]
      OBVIOUS
    <3>2. target'[p] = n /\ OpenFile(p, n, obj[p])
      BY <2>1, <2>3, <3>1
    <3>3. PICK o \in Object : o = obj[p]
      BY <2>1
    <3>4. QED
      BY <1>b, <2>1, <3>1, <3>2, <3>3, FilesOpened
  <2>4. QED
    BY <2>1, <2>2, <2>3
<1>6. CASE PieceWritten(p)
  <2>1. PICK n : n = target[p]
    OBVIOUS
  <2>2. QED
    BY <1>a, <1>b, <1>6, <2>1, FilesGrow
<1>7. CASE FileWritten(p)
  <2>1. PICK n : n = target[p]
    OBVIOUS
  <2>2. /\ stage[p] = "write" /\ stage'[p] # "write" /\ UNCHANGED <<work, lost>> /\ LetGo(p)
        /\ sent[p] = Length(blob[p].body)
        /\ \A f \in files'[p] : f \in files[p] \/ f = <<n, blob[p]>>
    BY <1>a, <1>7, <2>1 DEF FileWritten, Written, Enter, RunsType, RestType
  <2>3. LostByStopping(p, n) = {}
    BY <2>2, LengthType DEF LostByStopping
  <2>4. \A f \in files[p] : f[1] = n => n \in lost[p]
    BY <2>1, <2>2 DEF FilesKept, Rewrites, Restored
  <2>5. \A f \in files'[p] :
          \/ f[1] \in lost'[p]
          \/ f[1] \notin lost[p] /\ f[1] # n /\ f \in files[p]
          \/ n \notin lost[p] /\ f = <<n, blob[p]>> /\ sent[p] = Length(blob[p].body)
    BY ONLY <2>2, <2>4
  <2>6. QED
    BY <1>b, <2>1, <2>2, <2>3, <2>5, FilesLetGo
<1>8. CASE FileRefused(p)
  <2>1. PICK n : n = target[p]
    OBVIOUS
  <2>2. stage[p] = "write" /\ stage'[p] # "write" /\ UNCHANGED work /\ LetGo(p)
    BY <1>a, <1>8 DEF FileRefused, CloneEnd, Enter, RunsType
  <2>3. \A q \in Proc : /\ lost[q] \subseteq lost'[q]
                        /\ q \in LostByStopping(p, n) => n \in lost'[q]
    BY <1>a, <1>8, <2>1 DEF FileRefused, Lose
  <2>4. \A f \in files'[p] : f[1] \in lost'[p] \/ (f \in files[p] /\ f[1] # n)
    <3>1. CASE Lose(LostByStopping(p, n) \cup {p}, n) /\ Written(p)
      <4>1. \A f \in files'[p] : f \in files[p] \/ f[1] = n
        BY <1>a, <2>1, <3>1 DEF Written, RestType
      <4>2. n \in lost'[p]
        BY <3>1 DEF Lose
      <4>3. QED
        BY ONLY <4>1, <4>2
    <3>2. CASE files' = files
      <4>1. Restored(p, n) => n \in lost[p]
        BY <2>1, <2>2 DEF FilesKept, Rewrites
      <4>2. QED
        BY <2>3, <3>2, <4>1 DEF Restored
    <3>3. QED
      BY <1>8, <2>1, <3>1, <3>2 DEF FileRefused
  <2>5. \A f \in files'[p] :
          \/ f[1] \in lost'[p]
          \/ f[1] \notin lost[p] /\ f[1] # n /\ f \in files[p]
          \/ n \notin lost[p] /\ f = <<n, blob[p]>> /\ sent[p] = Length(blob[p].body)
    BY <2>3, <2>4
  <2>6. QED
    BY <1>b, <2>1, <2>2, <2>3, <2>5, FilesLetGo
<1>9. CASE CloneLeaves(p) \/ KillClone(p)
  <2>1. PICK n : n = target[p]
    OBVIOUS
  <2>2. /\ stage'[p] # "write" /\ UNCHANGED work /\ files'[p] = {} /\ LetGo(p)
        /\ CloneLeaves(p) => stage[p] # "write"
    BY <1>a, <1>9 DEF CloneLeaves, KillClone, Forget, Enter, RunsType, RestType
  <2>3. \A q \in Proc \ {p} :
          lost'[q] = IF stage[p] = "write" /\ q \in LostByStopping(p, n)
                     THEN lost[q] \cup {n} ELSE lost[q]
    BY <1>a, <1>9, <2>1, <2>2 DEF CloneLeaves, KillClone, RestType
  <2>4. CASE stage[p] # "write"
    <3>1. \A q \in Proc \ {p} : files'[q] = files[q] /\ lost'[q] = lost[q]
      BY ONLY <1>b, <2>3, <2>4
    <3>2. WritersStay(Proc) /\ \A q \in Proc \ {p} : over'[q] = over[q]
      BY <1>b, <2>2, <2>4, LetGoType DEF WritersStay
    <3>3. QED
      BY <1>d, <2>2, <2>4, <3>1, <3>2, FilesUntouched
  <2>5. CASE stage[p] = "write"
    <3>1. \A q \in Proc \ {p} :
            /\ files'[q] = files[q] /\ lost[q] \subseteq lost'[q]
            /\ q \in LostByStopping(p, n) => n \in lost'[q]
      BY ONLY <1>b, <2>3, <2>5
    <3>2. QED
      BY <1>b, <2>1, <2>2, <2>5, <3>1, FilesLetGo
  <2>6. QED
    BY <2>4, <2>5
<1>10. CASE UNCHANGED <<run, work, chronicle>>
  <2>1. WritersStay(Proc) /\ UNCHANGED <<work, files, lost, over>>
    BY <1>10 DEF run, chronicle, WritersStay
  <2>2. QED
    BY <1>d, <2>1, FilesUntouched
<1>11. QED
  BY <1>1, <1>2, <1>3, <1>4, <1>5, <1>6, <1>7, <1>8, <1>9, <1>10 DEF ActsOf, CloneStep

LEMMA FilesKeptStep ==
  TypeOK /\ CloneTypeOK /\ DirsKept /\ FilesKept /\ [CloneNext]_cloneVars => FilesKept'
<1> SUFFICES ASSUME TypeOK, CloneTypeOK, DirsKept, FilesKept, [CloneNext]_cloneVars
             PROVE  FilesKept'
  OBVIOUS
<1>1. CASE UNCHANGED <<run, work, chronicle>>
  <2>1. /\ WritersStay(Proc) /\ FilesStay({n \in DOMAIN work : IsFile(n)})
        /\ UNCHANGED <<files, lost, over>>
    BY <1>1 DEF run, chronicle, WritersStay, FilesStay
  <2>2. QED
    BY <2>1, FilesUntouched
<1>2. RemoteMoves \/ UNCHANGED cloneVars => UNCHANGED <<run, work, chronicle>>
  BY DEF RemoteMoves, cloneVars
<1>3. QED
  BY <1>1, <1>2, NextIsActs, FilesOfActs

-----------------------------------------------------------------------------
(***************************************************************************)
(* The walk.  A frame has restored the entries before the one it visits,   *)
(* and that one too once the walk is back; each frame was entered through  *)
(* the entry the one below it visits, the first one at the root with the   *)
(* tree of the commit; what the clone is at is what the last one visits.   *)
(***************************************************************************)
Goal(p)    == ExtractCommitTreeHash[head[p].body]
Visited(f) == Entries(f.tree)[f.next - 1]

AtVisited(f, n, o) == f.next > 1 /\ n = Child(f.dir, Visited(f)) /\ o = Visited(f).hash
AtTree(f, n, o)    == AtVisited(f, n, o) /\ IsTree(Visited(f))
AtFile(f, n, o)    == AtVisited(f, n, o) /\ ~IsTree(Visited(f))

(* The first k entries of a frame's tree are among the directories D and the files F. *)
Holds(D, F, f, k) ==
  \A j \in 1 .. k :
    LET e == Entries(f.tree)[j] IN
    IF IsTree(e) THEN <<Child(f.dir, e), e.hash>> \in D ELSE <<Child(f.dir, e), e.hash>> \in F

HeadKept(p) == at[p] # "idle" => head_hash[p] = head[p]

Standing(p) ==
  /\ stage[p] = "tree" => IF todo[p] = << >> THEN target[p] = Root /\ obj[p] = Goal(p)
                          ELSE AtTree(todo[p][Len(todo[p])], target[p], obj[p])
  /\ stage[p] = "blob"  => AtFile(todo[p][Len(todo[p])], target[p], obj[p])
  /\ stage[p] = "write" => AtFile(todo[p][Len(todo[p])], target[p], blob[p])

Entered(s, t) ==
  /\ s # << >> => s[1].dir = Root /\ s[1].tree = t
  /\ \A i \in 1 .. Len(s) - 1 : AtTree(s[i], s[i + 1].dir, s[i + 1].tree)

HeldBefore(D, F, s) == \A i \in 1 .. Len(s) : Holds(D, F, s[i], s[i].next - 2)

Walked(p) ==
  stage[p] \in {"tree", "walk", "blob", "write"} =>
    /\ Entered(todo[p], Goal(p))
    /\ HeldBefore(dirs[p], files[p], todo[p])
    /\ stage[p] = "walk" =>
         Holds(dirs[p], files[p], todo[p][Len(todo[p])], todo[p][Len(todo[p])].next - 1)

DirsHeld(p) ==
  \A d \in dirs[p] : Holds(dirs[p], files[p], Frame(d[1], d[2]), Len(Entries(d[2])))

Reached(p) == stage[p] = "exit" /\ ended[p] = "ok" => <<Root, Goal(p)>> \in dirs[p]

Walk(p) == HeadKept(p) /\ Standing(p) /\ Walked(p) /\ DirsHeld(p) /\ Reached(p)
AllWalk == \A p \in Proc : Walk(p)

LEMMA WalkUntouched ==
  ASSUME NEW p \in Proc, Walk(p), UNCHANGED Own(p)
  PROVE  Walk(p)'
BY DEF Walk, HeadKept, Standing, Walked, DirsHeld, Reached, Goal, Own, CloneOwn

LEMMA HoldsGrows ==
  ASSUME NEW D, NEW F, NEW E, NEW G, D \subseteq E, F \subseteq G, NEW f, NEW k, Holds(D, F, f, k)
  PROVE  Holds(E, G, f, k)
BY DEF Holds

LEMMA HoldsNext ==
  ASSUME NEW D, NEW F, NEW f, NEW n \in Nat, n > 1, f.next = n, Holds(D, F, f, n - 2),
         NEW m, NEW o,
         (AtTree(f, m, o) /\ <<m, o>> \in D) \/ (AtFile(f, m, o) /\ <<m, o>> \in F)
  PROVE  Holds(D, F, f, n - 1)
<1>1. ASSUME NEW j \in 1 .. n - 1
      PROVE  LET e == Entries(f.tree)[j] IN
             IF IsTree(e) THEN <<Child(f.dir, e), e.hash>> \in D
             ELSE <<Child(f.dir, e), e.hash>> \in F
  <2>1. CASE j \in 1 .. n - 2
    BY ONLY <2>1, Holds(D, F, f, n - 2) DEF Holds
  <2>2. CASE j = n - 1
    BY <2>2 DEF AtTree, AtFile, AtVisited, Visited
  <2>3. QED
    BY <1>1, <2>1, <2>2
<1>2. QED
  BY ONLY <1>1 DEF Holds

(* Only the place and the tree of a frame tell what it is to hold. *)
LEMMA HoldsSame ==
  ASSUME NEW D, NEW F, NEW f, NEW g, f.dir = g.dir, f.tree = g.tree, NEW k, Holds(D, F, f, k)
  PROVE  Holds(D, F, g, k)
BY DEF Holds

LEMMA HeadKeptStep ==
  ASSUME TypeOK, CloneTypeOK, NEW p \in Proc, HeadKept(p), ActsOf(p)
  PROVE  HeadKept(p)'
<1>a. RunsType /\ PlaceOK(p)
  BY TypesAre
<1>1. CASE UNCHANGED <<at, head_hash, head>>
  BY <1>1 DEF HeadKept
<1>2. CASE FetchRefs(p)
  BY <1>a, <1>2, VarsStay DEF FetchRefs, PlaceOK, HeadKept
<1>3. CASE FetchPack(p)
  <2>1. UNCHANGED head
    BY <1>3 DEF FetchPack
  <2>2. UNCHANGED vars \/ head_hash'[p] = head[p]
    BY <1>3, UnpackAndStoreEffects DEF FetchPack
  <2>3. QED
    BY <1>1, <2>1, <2>2, VarsStay DEF HeadKept
<1>4. CASE StepOf(p) /\ UNCHANGED run
  BY <1>4, StepOfEffects DEF HeadKept, run
<1>5. CASE CloneLeaves(p) \/ KillClone(p)
  <2>1. at'[p] = "idle"
    <3>1. CASE Leave(p) \/ KillUnpack(p)
      BY <3>1, RunEndsEffects
    <3>2. CASE UNCHANGED vars /\ at[p] = "idle"
      BY <3>2, VarsStay
    <3>3. QED
      BY <1>a, <1>5, <3>1, <3>2 DEF CloneLeaves, KillClone, PlaceOK
  <2>2. QED
    BY ONLY <2>1 DEF HeadKept
<1>6. CASE UNCHANGED unpackVars /\ UNCHANGED head
  BY <1>1, <1>6 DEF unpackVars, unpack
<1>7. CASE UNCHANGED vars /\ UNCHANGED head
  BY <1>1, <1>7, VarsStay
<1>8. \/ FetchRefs(p) \/ FetchPack(p) \/ CloneLeaves(p) \/ KillClone(p)
      \/ StepOf(p) /\ UNCHANGED run
      \/ UNCHANGED unpackVars /\ UNCHANGED head
      \/ UNCHANGED vars /\ UNCHANGED head
  <2>1. CASE CloneStart(p) \/ Unpacked(p) \/ TreeRead(p) \/ RestoreDirectory(p)
    BY <2>1 DEF CloneStart, Unpacked, TreeRead, RestoreDirectory
  <2>2. CASE RestoreFile(p) \/ BlobRead(p) \/ PieceWritten(p) \/ FileWritten(p) \/ TreeEnds(p)
          \/ FileRefused(p)
    BY <2>2 DEF RestoreFile, BlobRead, PieceWritten, FileWritten, TreeEnds, FileRefused
  <2>3. QED
    BY <2>1, <2>2 DEF ActsOf, CloneStep, run
<1>9. QED
  BY <1>2, <1>3, <1>4, <1>5, <1>6, <1>7, <1>8

(* A clone that is not on its walk, and has restored nothing new, owes nothing. *)
LEMMA WalkOver ==
  ASSUME NEW p \in Proc, DirsHeld(p), stage'[p] \notin {"tree", "walk", "blob", "write"},
         stage'[p] = "exit" => ended'[p] # "ok",
         dirs'[p] = {} \/ (dirs'[p] = dirs[p] /\ files'[p] = files[p])
  PROVE  Standing(p)' /\ Walked(p)' /\ DirsHeld(p)' /\ Reached(p)'
BY DEF Standing, Walked, DirsHeld, Reached

LEMMA WalkBegins ==
  ASSUME TypeOK, CloneTypeOK, SuccessMeansWholePack, NEW p \in Proc, Walk(p), Fresh(p), Unpacked(p)
  PROVE  Standing(p)' /\ Walked(p)' /\ DirsHeld(p)' /\ Reached(p)'
<1>a. RunsType
  BY TypesAre
<1>b. /\ stage[p] = "unpack" /\ at[p] = "exit" /\ UNCHANGED unpackVars
      /\ UNCHANGED <<head, target, todo, dirs, files>>
  BY DEF Unpacked, chronicle
<1>c. /\ todo[p] = << >> /\ target[p] = Root /\ dirs[p] = {} /\ head_hash[p] = head[p]
      /\ DirsHeld(p)
  BY <1>b DEF Fresh, Walk, HeadKept
<1>1. CASE stage'[p] = "exit" /\ ended'[p] # "ok"
  BY ONLY <1>b, <1>c, <1>1, WalkOver
<1>2. CASE out[p] = "ok" /\ stage'[p] = "tree" /\ CallRead(p, ExtractCommitTreeHash[head_body[p]])
  <2>1. head_body[p] = head[p].body
    BY <1>b, <1>c, <1>2 DEF SuccessMeansWholePack
  <2>2. obj'[p] = Goal(p)
    BY <1>b, <1>2, <2>1, RestoringCalls DEF Goal
  <2>3. Standing(p)'
    BY ONLY <1>b, <1>c, <1>2, <2>2 DEF Standing, Goal
  <2>4. Entered(<< >>, Goal(p)') /\ HeldBefore(dirs'[p], files'[p], << >>)
    BY ONLY DEF Entered, HeldBefore
  <2>5. todo'[p] = << >> /\ stage'[p] # "walk"
    BY ONLY <1>b, <1>c, <1>2
  <2>6. Walked(p)'
    BY ONLY <2>4, <2>5 DEF Walked
  <2>7. DirsHeld(p)' /\ Reached(p)'
    BY ONLY <1>b, <1>c, <1>2 DEF DirsHeld, Reached
  <2>8. QED
    BY <2>3, <2>6, <2>7
<1>3. QED
  BY <1>a, <1>1, <1>2 DEF Unpacked, CloneEnd, Enter, RunsType

LEMMA WalkDescends ==
  ASSUME TypeOK, CloneTypeOK, NEW p \in Proc, Walk(p), TreeRead(p)
  PROVE  Standing(p)' /\ Walked(p)' /\ DirsHeld(p)' /\ Reached(p)'
<1>a. RunsType /\ PlaceOK(p) /\ Standing(p) /\ Walked(p) /\ DirsHeld(p)
  BY TypesAre DEF Walk
<1>b. /\ stage[p] = "tree" /\ obj[p] \in Object /\ target[p] \in Path
      /\ UNCHANGED <<head, target, dirs, files>>
  BY <1>a DEF TreeRead, chronicle, PlaceOK, RunsType
<1>1. CASE stage'[p] = "exit" /\ ended'[p] # "ok"
  BY ONLY <1>a, <1>b, <1>1, WalkOver
<1>2. CASE /\ stage'[p] = "walk" /\ Entries(obj[p]) # Malformed
           /\ todo' = [todo EXCEPT ![p] = Append(@, Frame(target[p], obj[p]))]
  <2> DEFINE f == Frame(target[p], obj[p])
  <2>1. PICK s, t, n : s = todo[p] /\ t = todo'[p] /\ n = Len(s)
    OBVIOUS
  <2>2. /\ Len(t) = n + 1 /\ n \in Nat /\ t # << >> /\ t[n + 1] = f
        /\ \A i \in 1 .. n : t[i] = s[i]
    <3>1. n \in Nat
      BY <2>1, ElementOf DEF CloneTypeOK
    <3>2. QED
      BY <1>b, <1>2, <2>1, <3>1, PushFrame
  <2>3. f.dir = target[p] /\ f.tree = obj[p] /\ f.next = 1
    BY DEF Frame
  <2>4. /\ Entered(s, Goal(p)) /\ HeldBefore(dirs[p], files[p], s)
        /\ IF s = << >> THEN target[p] = Root /\ obj[p] = Goal(p)
           ELSE AtTree(s[n], target[p], obj[p])
    BY ONLY <1>a, <1>b, <2>1 DEF Walked, Standing
  <2>5. s = << >> <=> n = 0
    BY <2>1 DEF CloneTypeOK
  <2>6. Entered(t, Goal(p))
    <3>1. t[1].dir = Root /\ t[1].tree = Goal(p)
      BY ONLY <2>2, <2>3, <2>4, <2>5 DEF Entered
    <3>2. ASSUME NEW i \in 1 .. Len(t) - 1 PROVE AtTree(t[i], t[i + 1].dir, t[i + 1].tree)
      <4>1. i \in 1 .. n - 1 \/ (i = n /\ n # 0)
        BY ONLY <2>2, <3>2
      <4>2. CASE i \in 1 .. n - 1
        <5>1. AtTree(s[i], s[i + 1].dir, s[i + 1].tree)
          BY ONLY <2>1, <2>4, <4>2 DEF Entered
        <5>2. i \in 1 .. n /\ i + 1 \in 1 .. n
          BY ONLY <2>2, <4>2
        <5>3. t[i] = s[i] /\ t[i + 1] = s[i + 1]
          BY ONLY <2>2, <5>2
        <5>4. QED
          BY ONLY <5>1, <5>3
      <4>3. CASE i = n /\ n # 0
        BY ONLY <2>2, <2>3, <2>4, <2>5, <4>3
      <4>4. QED
        BY <4>1, <4>2, <4>3
    <3>3. QED
      BY ONLY <3>1, <3>2 DEF Entered
  <2>7. HeldBefore(dirs[p], files[p], t) /\ Holds(dirs[p], files[p], t[n + 1], t[n + 1].next - 1)
    <3>1. Holds(dirs[p], files[p], f, f.next - 2) /\ Holds(dirs[p], files[p], f, f.next - 1)
      BY ONLY <2>3 DEF Holds
    <3>2. ASSUME NEW i \in 1 .. Len(t) PROVE Holds(dirs[p], files[p], t[i], t[i].next - 2)
      <4>1. i \in 1 .. n \/ i = n + 1
        BY ONLY <2>2, <3>2
      <4>2. QED
        BY ONLY <2>1, <2>2, <2>4, <3>1, <4>1 DEF HeldBefore
    <3>3. QED
      BY ONLY <2>2, <3>1, <3>2 DEF HeldBefore
  <2>8. Goal(p)' = Goal(p)
    BY ONLY <1>b DEF Goal
  <2>9. Walked(p)'
    BY ONLY <1>b, <2>1, <2>2, <2>6, <2>7, <2>8 DEF Walked
  <2>10. Standing(p)' /\ DirsHeld(p)' /\ Reached(p)'
    BY ONLY <1>a, <1>b, <1>2 DEF Standing, DirsHeld, Reached
  <2>11. QED
    BY <2>9, <2>10
<1>3. QED
  BY <1>a, <1>1, <1>2 DEF TreeRead, CloneEnd, Enter, RunsType

LEMMA WalkVisits ==
  ASSUME TypeOK, CloneTypeOK, NEW p \in Proc, Walk(p), RestoreDirectory(p) \/ RestoreFile(p)
  PROVE  Standing(p)' /\ Walked(p)' /\ DirsHeld(p)' /\ Reached(p)'
<1>a. RunsType /\ Walked(p) /\ DirsHeld(p)
  BY TypesAre DEF Walk
<1>b. /\ stage[p] = "walk" /\ AtEntry(p) /\ Advance(p) /\ UNCHANGED unpackVars
      /\ UNCHANGED <<head, dirs, files>>
  BY DEF RestoreDirectory, RestoreFile, AtEntry, chronicle
<1>1. CASE stage'[p] = "exit" /\ ended'[p] = "io_error"
  BY ONLY <1>a, <1>b, <1>1, WalkOver
<1>2. CASE /\ CallRead(p, NextEntry(p).hash)
           /\ stage'[p] = IF IsTree(NextEntry(p)) THEN "tree" ELSE "blob"
  <2>1. PICK s, t, n, f, g : /\ s = todo[p] /\ t = todo'[p] /\ n = Len(s) /\ f = Top(p)
                             /\ g = [f EXCEPT !.next = @ + 1]
    OBVIOUS
  <2>2. /\ n \in Nat \ {0} /\ f = s[n] /\ f \in Frames
        /\ Len(t) = n /\ t[n] = g /\ t # << >>
        /\ \A i \in 1 .. n - 1 : t[i] = s[i]
    BY <1>b, <2>1, EntryAtHand, TopFrame, AdvanceFrame
  <2>3. f.next \in Nat \ {0}
    BY <1>b, <2>1, <2>2, EntryAtHand, TopFrame, EntriesType DEF Frames
  <2>4. g.dir = f.dir /\ g.tree = f.tree /\ g.next = f.next + 1
    BY ONLY <2>1, <2>2, <2>3 DEF Frames
  <2>5. /\ NextEntry(p) = Visited(g) /\ g.next > 1
        /\ target'[p] = Child(g.dir, Visited(g)) /\ obj'[p] = Visited(g).hash
    <3>1. NextEntry(p) = Entries(f.tree)[f.next] /\ PathAt(p) = Child(f.dir, NextEntry(p))
      BY ONLY <2>1 DEF NextEntry, PathAt
    <3>2. Visited(g) = Entries(f.tree)[f.next] /\ g.next > 1
      BY ONLY <2>3, <2>4 DEF Visited
    <3>3. target'[p] = PathAt(p)
      BY <1>a, <1>b DEF Advance, Aim, RunsType
    <3>4. obj'[p] = NextEntry(p).hash
      BY <1>b, <1>2, RestoringCalls
    <3>5. QED
      BY ONLY <2>4, <3>1, <3>2, <3>3, <3>4
  <2>6. Standing(p)'
    <3>1. todo'[p][Len(todo'[p])] = g /\ todo'[p] # << >>
      BY ONLY <2>1, <2>2
    <3>2. QED
      BY ONLY <1>2, <2>5, <3>1 DEF Standing, AtTree, AtFile, AtVisited
  <2>7. /\ Entered(s, Goal(p)) /\ HeldBefore(dirs[p], files[p], s)
        /\ Holds(dirs[p], files[p], f, f.next - 1)
    BY ONLY <1>a, <1>b, <2>1, <2>2 DEF Walked
  <2>8. /\ \A i \in 1 .. n : t[i].dir = s[i].dir /\ t[i].tree = s[i].tree
        /\ \A i \in 1 .. n - 1 : t[i] = s[i]
    BY ONLY <2>2, <2>4
  <2>9. Entered(t, Goal(p))
    <3>1. t[1].dir = Root /\ t[1].tree = Goal(p)
      <4>1. s # << >> /\ 1 \in 1 .. n
        BY ONLY <2>1, <2>2
      <4>2. QED
        BY ONLY <2>7, <2>8, <4>1 DEF Entered
    <3>2. ASSUME NEW i \in 1 .. Len(t) - 1 PROVE AtTree(t[i], t[i + 1].dir, t[i + 1].tree)
      <4>1. i \in 1 .. n - 1 /\ i + 1 \in 1 .. n
        BY ONLY <2>2, <3>2
      <4>2. QED
        BY ONLY <2>1, <2>7, <2>8, <4>1 DEF Entered
    <3>3. QED
      BY ONLY <3>1, <3>2 DEF Entered
  <2>10. HeldBefore(dirs[p], files[p], t)
    <3>1. ASSUME NEW i \in 1 .. Len(t) PROVE Holds(dirs[p], files[p], t[i], t[i].next - 2)
      <4>1. i \in 1 .. n - 1 \/ i = n
        BY ONLY <2>2, <3>1
      <4>2. CASE i \in 1 .. n - 1
        BY ONLY <2>1, <2>2, <2>7, <2>8, <4>2 DEF HeldBefore
      <4>3. CASE i = n
        <5>1. Holds(dirs[p], files[p], g, f.next - 1)
          BY ONLY <2>4, <2>7, HoldsSame
        <5>2. g.next - 2 = f.next - 1
          BY ONLY <2>3, <2>4
        <5>3. QED
          BY ONLY <2>2, <4>3, <5>1, <5>2
      <4>4. QED
        BY <4>1, <4>2, <4>3
    <3>2. QED
      BY ONLY <3>1 DEF HeldBefore
  <2>11. Goal(p)' = Goal(p)
    BY ONLY <1>b DEF Goal
  <2>12. stage'[p] # "walk" /\ stage'[p] # "exit"
    BY ONLY <1>2
  <2>13. Walked(p)'
    BY ONLY <1>b, <2>1, <2>9, <2>10, <2>11, <2>12 DEF Walked
  <2>14. DirsHeld(p)' /\ Reached(p)'
    BY ONLY <1>a, <1>b, <2>12 DEF DirsHeld, Reached
  <2>15. QED
    BY <2>6, <2>13, <2>14
<1>3. QED
  BY <1>a, <1>1, <1>2 DEF RestoreDirectory, RestoreFile, CloneEnd, Enter, RunsType

LEMMA WalkOpens ==
  ASSUME TypeOK, CloneTypeOK, NEW p \in Proc, Walk(p), BlobRead(p)
  PROVE  Standing(p)' /\ Walked(p)' /\ DirsHeld(p)' /\ Reached(p)'
<1>a. RunsType /\ Standing(p) /\ Walked(p) /\ DirsHeld(p)
  BY TypesAre DEF Walk
<1>b. stage[p] = "blob" /\ UNCHANGED <<head, target, todo, dirs, files>>
  BY DEF BlobRead
<1>1. CASE stage'[p] = "exit" /\ ended'[p] # "ok"
  BY ONLY <1>a, <1>b, <1>1, WalkOver
<1>2. CASE stage'[p] = "write" /\ blob'[p] = obj[p]
  BY ONLY <1>a, <1>b, <1>2 DEF Standing, Walked, DirsHeld, Reached, Goal
<1>3. QED
  BY <1>a, <1>1, <1>2 DEF BlobRead, OpenFile, CloneEnd, Enter, RunsType

LEMMA WalkWrites ==
  ASSUME TypeOK, CloneTypeOK, NEW p \in Proc, Walk(p), FileWritten(p) \/ FileRefused(p)
  PROVE  Standing(p)' /\ Walked(p)' /\ DirsHeld(p)' /\ Reached(p)'
<1>a. RunsType /\ RestType /\ PlaceOK(p) /\ Standing(p) /\ Walked(p) /\ DirsHeld(p)
  BY TypesAre DEF Walk
<1>b. stage[p] = "write" /\ todo[p] # << >> /\ UNCHANGED <<head, target, todo, blob, dirs>>
  BY <1>a DEF FileWritten, FileRefused, PlaceOK
<1>1. CASE stage'[p] = "exit" /\ ended'[p] = "io_error" /\ UNCHANGED files
  BY ONLY <1>a, <1>b, <1>1, WalkOver
<1>2. CASE stage'[p] = "walk" /\ files'[p] = files[p] \cup {<<target[p], blob[p]>>}
  <2>1. PICK s, n, f, k : s = todo[p] /\ n = Len(s) /\ f = s[n] /\ k = f.next
    OBVIOUS
  <2>2. n \in Nat \ {0} /\ k \in Nat
    BY <1>b, <2>1, TopFrame, EntriesType DEF Frames
  <2>3. Entered(s, Goal(p)) /\ HeldBefore(dirs[p], files[p], s) /\ AtFile(f, target[p], blob[p])
    BY ONLY <1>a, <1>b, <2>1 DEF Walked, Standing
  <2>4. \A g, m : Holds(dirs[p], files[p], g, m) => Holds(dirs[p], files'[p], g, m)
    BY <1>2, HoldsGrows
  <2>5. HeldBefore(dirs[p], files'[p], s)
    BY ONLY <2>3, <2>4 DEF HeldBefore
  <2>6. Holds(dirs[p], files'[p], f, k - 1)
    <3>1. Holds(dirs[p], files'[p], f, k - 2)
      BY ONLY <2>1, <2>2, <2>5 DEF HeldBefore
    <3>2. k > 1 /\ <<target[p], blob[p]>> \in files'[p]
      BY ONLY <1>2, <2>1, <2>3 DEF AtFile, AtVisited
    <3>3. QED
      BY ONLY <2>1, <2>2, <2>3, <3>1, <3>2, HoldsNext
  <2>7. Goal(p)' = Goal(p)
    BY ONLY <1>b DEF Goal
  <2>8. Walked(p)'
    BY ONLY <1>b, <2>1, <2>3, <2>5, <2>6, <2>7 DEF Walked
  <2>9. DirsHeld(p)'
    BY ONLY <1>a, <1>b, <2>4 DEF DirsHeld
  <2>10. Standing(p)' /\ Reached(p)'
    BY ONLY <1>2 DEF Standing, Reached
  <2>11. QED
    BY <2>8, <2>9, <2>10
<1>3. QED
  BY <1>a, <1>1, <1>2
  DEF FileWritten, FileRefused, Written, CloneEnd, Enter, RunsType, RestType

LEMMA WalkReturns ==
  ASSUME TypeOK, CloneTypeOK, NEW p \in Proc, Walk(p), TreeEnds(p)
  PROVE  Standing(p)' /\ Walked(p)' /\ DirsHeld(p)' /\ Reached(p)'
<1>a. RunsType /\ RestType /\ PlaceOK(p) /\ Walked(p) /\ DirsHeld(p)
  BY TypesAre DEF Walk
<1>1. PICK s, t, n, f : s = todo[p] /\ t = todo'[p] /\ n = Len(s) /\ f = Top(p)
  OBVIOUS
<1>b. /\ stage[p] = "walk" /\ s # << >> /\ f.next > Len(Entries(f.tree))
      /\ todo' = [todo EXCEPT ![p] = Front(@)] /\ UNCHANGED <<head, files>>
      /\ dirs'[p] = dirs[p] \cup {<<f.dir, f.tree>>}
      /\ \/ n = 1 /\ stage'[p] = "exit"
         \/ n # 1 /\ stage'[p] = "walk"
  BY <1>a, <1>1 DEF TreeEnds, CloneEnd, Enter, RunsType, RestType, PlaceOK
<1>2. /\ n \in Nat \ {0} /\ f = s[n] /\ f \in Frames
      /\ f.next \in 1 .. Len(Entries(f.tree)) + 1 /\ Entries(f.tree) # Malformed
      /\ Len(t) = n - 1 /\ \A i \in 1 .. n - 1 : t[i] = s[i]
  BY <1>1, <1>b, TopFrame, PopFrame
<1>3. Len(Entries(f.tree)) \in Nat /\ f.next = Len(Entries(f.tree)) + 1
  BY <1>b, <1>2, EntriesType DEF Frames
<1>4. /\ Entered(s, Goal(p)) /\ HeldBefore(dirs[p], files[p], s)
      /\ Holds(dirs[p], files[p], f, f.next - 1)
  BY ONLY <1>a, <1>1, <1>b, <1>2 DEF Walked
<1>5. \A g, m : Holds(dirs[p], files[p], g, m) => Holds(dirs'[p], files[p], g, m)
  BY <1>b, HoldsGrows
<1>6. DirsHeld(p)'
  <2>1. Holds(dirs'[p], files[p], Frame(f.dir, f.tree), Len(Entries(f.tree)))
    <3>1. Holds(dirs'[p], files[p], f, Len(Entries(f.tree)))
      BY ONLY <1>3, <1>4, <1>5
    <3>2. Frame(f.dir, f.tree).dir = f.dir /\ Frame(f.dir, f.tree).tree = f.tree
      BY ONLY DEF Frame
    <3>3. QED
      BY ONLY <3>1, <3>2, HoldsSame
  <2>2. ASSUME NEW d \in dirs'[p]
        PROVE  Holds(dirs'[p], files[p], Frame(d[1], d[2]), Len(Entries(d[2])))
    <3>1. CASE d \in dirs[p]
      BY ONLY <1>a, <1>5, <3>1 DEF DirsHeld
    <3>2. CASE d = <<f.dir, f.tree>>
      <4>1. d[1] = f.dir /\ d[2] = f.tree
        BY ONLY <3>2
      <4>2. QED
        BY ONLY <2>1, <4>1
    <3>3. QED
      BY <1>b, <2>2, <3>1, <3>2
  <2>3. QED
    BY ONLY <1>b, <2>2 DEF DirsHeld
<1>7. Goal(p)' = Goal(p)
  BY ONLY <1>b DEF Goal
<1>8. Reached(p)'
  <2>1. CASE n = 1
    BY ONLY <1>b, <1>2, <1>4, <1>7, <2>1 DEF Reached, Entered
  <2>2. CASE n # 1
    BY ONLY <1>b, <2>2 DEF Reached
  <2>3. QED
    BY <2>1, <2>2
<1>9. Walked(p)'
  <2>1. CASE n = 1
    BY ONLY <1>b, <2>1 DEF Walked
  <2>2. CASE n # 1
    <3>1. /\ n - 1 \in 1 .. Len(t) /\ n - 1 \in 1 .. Len(s) - 1 /\ n - 1 \in Nat \ {0}
          /\ Len(t) = n - 1 /\ (n - 1) + 1 = n
      <4>1. n \in Nat \ {0} /\ Len(t) = n - 1
        BY ONLY <1>2
      <4>2. Len(s) = n
        BY ONLY <1>1
      <4>3. QED
        BY ONLY <2>2, <4>1, <4>2
    <3>2. Entered(t, Goal(p))
      <4>1. t[1].dir = Root /\ t[1].tree = Goal(p)
        <5>1. 1 \in 1 .. n - 1
          BY ONLY <3>1
        <5>2. QED
          BY ONLY <1>2, <1>b, <1>4, <5>1 DEF Entered
      <4>2. ASSUME NEW i \in 1 .. Len(t) - 1 PROVE AtTree(t[i], t[i + 1].dir, t[i + 1].tree)
        <5>1. i \in 1 .. n - 1 /\ i + 1 \in 1 .. n - 1 /\ i \in 1 .. Len(s) - 1
          BY ONLY <1>1, <1>2, <3>1, <4>2
        <5>2. t[i] = s[i] /\ t[i + 1] = s[i + 1]
          BY ONLY <1>2, <5>1
        <5>3. AtTree(s[i], s[i + 1].dir, s[i + 1].tree)
          BY ONLY <1>4, <5>1 DEF Entered
        <5>4. QED
          BY ONLY <5>2, <5>3
      <4>3. QED
        BY ONLY <4>1, <4>2 DEF Entered
    <3>3. HeldBefore(dirs'[p], files[p], t)
      <4>1. ASSUME NEW i \in 1 .. Len(t) PROVE Holds(dirs'[p], files[p], t[i], t[i].next - 2)
        <5>1. i \in 1 .. n - 1 /\ i \in 1 .. Len(s)
          BY ONLY <1>1, <1>2, <3>1, <4>1
        <5>2. QED
          BY ONLY <1>2, <1>4, <1>5, <5>1 DEF HeldBefore
      <4>2. QED
        BY ONLY <4>1 DEF HeldBefore
    <3>4. Holds(dirs'[p], files[p], t[n - 1], t[n - 1].next - 1)
      <4>1. PICK g, k : g = s[n - 1] /\ k = g.next
        OBVIOUS
      <4>2. t[n - 1] = g
        BY ONLY <1>2, <3>1, <4>1
      <4>3. AtTree(g, f.dir, f.tree)
        BY ONLY <1>2, <1>4, <3>1, <4>1 DEF Entered
      <4>4. Holds(dirs'[p], files[p], g, k - 2)
        BY ONLY <3>1, <3>3, <4>1, <4>2 DEF HeldBefore
      <4>5. k \in Nat /\ k > 1
        <5>1. s \in Seq(Frames) /\ n - 1 \in 1 .. Len(s)
          BY <1>1, <3>1, <1>2 DEF CloneTypeOK
        <5>2. g \in Frames
          BY ONLY <4>1, <5>1, ElementOf
        <5>3. QED
          BY ONLY <4>1, <4>3, <5>2 DEF Frames, AtTree, AtVisited
      <4>6. Holds(dirs'[p], files[p], g, k - 1)
        BY ONLY <1>b, <4>1, <4>3, <4>4, <4>5, HoldsNext
      <4>7. QED
        BY ONLY <4>1, <4>2, <4>6
    <3>5. /\ todo'[p] = t /\ Len(t) = n - 1 /\ files'[p] = files[p]
          /\ Entered(t, Goal(p)')
      BY ONLY <1>1, <1>b, <1>7, <3>1, <3>2
    <3>6. QED
      BY ONLY <3>3, <3>4, <3>5 DEF Walked
  <2>3. QED
    BY <2>1, <2>2
<1>10. Standing(p)'
  BY ONLY <1>b DEF Standing
<1>11. QED
  BY <1>6, <1>8, <1>9, <1>10

LEMMA WalkOfActs ==
  ASSUME TypeOK, CloneTypeOK, SuccessMeansWholePack, NEW p \in Proc, Walk(p), Fresh(p), ActsOf(p)
  PROVE  Walk(p)'
<1>a. RunsType /\ RestType /\ PlaceOK(p) /\ HeadKept(p) /\ DirsHeld(p)
  BY TypesAre DEF Walk
<1>b. HeadKept(p)'
  BY <1>a, HeadKeptStep
<1>c. SUFFICES Standing(p)' /\ Walked(p)' /\ DirsHeld(p)' /\ Reached(p)'
  BY <1>b DEF Walk
<1>1. CASE CloneStart(p) \/ FetchRefs(p) \/ FetchPack(p)
  <2>1. /\ UNCHANGED <<dirs, files>> /\ stage'[p] \in {"refs", "pack", "unpack", "exit"}
        /\ stage'[p] = "exit" => ended'[p] # "ok"
    BY <1>a, <1>1
    DEF CloneStart, FetchRefs, FetchPack, chronicle, CloneEnd, Enter, RunsType
  <2>2. QED
    BY ONLY <1>a, <2>1, WalkOver
<1>2. CASE CloneLeaves(p) \/ KillClone(p)
  <2>1. stage'[p] = "idle" /\ dirs'[p] = {}
    BY <1>a, <1>2 DEF CloneLeaves, KillClone, Forget, Enter, RunsType, RestType
  <2>2. QED
    BY ONLY <1>a, <2>1, WalkOver
<1>3. CASE (StepOf(p) \/ (StoreFault(p) /\ UNCHANGED unpackVars)) /\ UNCHANGED <<run, chronicle>>
  <2>1. UNCHANGED <<stage, head, target, todo, blob, ended, dirs, files>>
    BY <1>3 DEF run, chronicle
  <2>2. stage[p] \in {"tree", "blob"} => obj'[p] = obj[p]
    <3>1. stage[p] \in {"tree", "blob"} => at[p] = "exit"
      BY <1>a DEF PlaceOK
    <3>2. CASE StepOf(p)
      BY <3>1, <3>2, StepOfEffects
    <3>3. CASE StoreFault(p)
      BY <3>3, CallEffects DEF TypeOK
    <3>4. QED
      BY <1>3, <3>2, <3>3
  <2>3. Standing(p) /\ Walked(p) /\ DirsHeld(p) /\ Reached(p)
    BY DEF Walk
  <2>4. Standing(p)'
    BY ONLY <2>1, <2>2, <2>3 DEF Standing, Goal
  <2>5. QED
    BY ONLY <2>1, <2>3, <2>4 DEF Walked, DirsHeld, Reached, Goal
<1>4. CASE PieceWritten(p)
  <2>1. UNCHANGED <<stage, head, target, todo, blob, ended, dirs, files, obj>>
    BY <1>4, VarsStay DEF PieceWritten, chronicle
  <2>2. Standing(p) /\ Walked(p) /\ DirsHeld(p) /\ Reached(p)
    BY DEF Walk
  <2>3. QED
    BY ONLY <2>1, <2>2 DEF Standing, Walked, DirsHeld, Reached, Goal
<1>5. QED
  BY <1>1, <1>2, <1>3, <1>4, WalkBegins, WalkDescends, WalkVisits, WalkOpens, WalkWrites,
     WalkReturns
  DEF ActsOf, CloneStep

LEMMA AllWalkStep ==
  TypeOK /\ CloneTypeOK /\ SuccessMeansWholePack /\ DirsKept /\ AllWalk /\ [CloneNext]_cloneVars
    => AllWalk'
<1> SUFFICES ASSUME TypeOK, CloneTypeOK, SuccessMeansWholePack, DirsKept, AllWalk,
                    [CloneNext]_cloneVars
             PROVE  AllWalk'
  OBVIOUS
<1>1. ASSUME NEW p \in Proc, ActsOf(p), NEW q \in Proc PROVE Walk(q)'
  <2>1. Walk(q) /\ Fresh(q)
    BY DEF AllWalk, DirsKept
  <2>2. CASE q = p
    BY <1>1, <2>1, <2>2, WalkOfActs
  <2>3. CASE q # p
    BY <1>1, <2>1, <2>3, OthersStay, WalkUntouched
  <2>4. QED
    BY <2>2, <2>3
<1>2. CASE UNCHANGED <<vars, run, chronicle>>
  <2>1. ASSUME NEW q \in Proc PROVE UNCHANGED Own(q)
    BY <1>2, VarsStay DEF run, chronicle, Own, CloneOwn
  <2>2. QED
    BY <2>1, WalkUntouched DEF AllWalk
<1>3. RemoteMoves \/ UNCHANGED cloneVars => UNCHANGED <<vars, run, chronicle>>
  BY DEF RemoteMoves, cloneVars
<1>4. QED
  BY <1>1, <1>2, <1>3, NextIsActs DEF AllWalk

CheckoutInv == DirsKept /\ FilesKept /\ AllWalk

LEMMA CheckoutInit == CloneInit => CheckoutInv
<1> SUFFICES ASSUME CloneInit PROVE CheckoutInv
  OBVIOUS
<1>1. ASSUME NEW p \in Proc
      PROVE  /\ stage[p] = "idle" /\ todo[p] = << >> /\ target[p] = Root /\ at[p] = "idle"
             /\ dirs[p] = {} /\ files[p] = {}
  BY DEF CloneInit, Init
<1>2. DirsKept
  <2>1. ASSUME NEW p \in Proc PROVE Fresh(p) /\ DirsOf(p)
    BY ONLY <1>1 DEF Fresh, DirsOf
  <2>2. QED
    BY <1>1, <2>1 DEF DirsKept, WritersHaveFiles
<1>3. FilesKept
  BY ONLY <1>1 DEF FilesKept, Rewrites, FileKept, Mine, Writes
<1>4. AllWalk
  <2>1. ASSUME NEW p \in Proc PROVE Walk(p)
    BY ONLY <1>1 DEF Walk, HeadKept, Standing, Walked, DirsHeld, Reached
  <2>2. QED
    BY <2>1 DEF AllWalk
<1>5. QED
  BY <1>2, <1>3, <1>4 DEF CheckoutInv

LEMMA CheckoutInvMeansTree == CloneTypeOK /\ CheckoutInv => CheckoutIsTree
<1> SUFFICES ASSUME CloneTypeOK, CheckoutInv, NEW p \in Proc, stage[p] = "exit", ended[p] = "ok"
             PROVE  /\ <<Root, ExtractCommitTreeHash[head[p].body]>> \in dirs[p]
                    /\ \A d \in dirs[p] :
                         /\ IsDirectory(d[1])
                         /\ \A i \in 1 .. Len(Entries(d[2])) :
                              HoldsEntry(p, d[1], Entries(d[2])[i])
                    /\ \A f \in files[p] :
                         \/ f[1] \in lost[p]
                         \/ IsFile(f[1]) /\ work[f[1]] = Image(f[2].body)
                         \/ \E q \in Proc : /\ Writes(q, f[1]) /\ blob[q].body = f[2].body
                                           /\ Missing(f[1], f[2].body) \subseteq Owed(q)
  BY DEF CheckoutIsTree
<1>1. DirsOf(p) /\ DirsHeld(p) /\ Reached(p)
  BY DEF CheckoutInv, DirsKept, AllWalk, Walk
<1>2. <<Root, ExtractCommitTreeHash[head[p].body]>> \in dirs[p]
  BY <1>1 DEF Reached, Goal
<1>3. ASSUME NEW d \in dirs[p], NEW i \in 1 .. Len(Entries(d[2]))
      PROVE  HoldsEntry(p, d[1], Entries(d[2])[i])
  BY ONLY <1>1, <1>3 DEF DirsHeld, Holds, Frame, HoldsEntry, Child
<1>4. \A d \in dirs[p] : IsDirectory(d[1])
  BY ONLY <1>1 DEF DirsOf
<1>5. ASSUME NEW f \in files[p]
      PROVE  \/ f[1] \in lost[p]
             \/ IsFile(f[1]) /\ work[f[1]] = Image(f[2].body)
             \/ \E q \in Proc : /\ Writes(q, f[1]) /\ blob[q].body = f[2].body
                               /\ Missing(f[1], f[2].body) \subseteq Owed(q)
  <2>1. PICK n, b : n = f[1] /\ b = f[2].body
    OBVIOUS
  <2>2. FileKept(p, n, b) /\ Mine(p, n, b)
    BY <2>1 DEF CheckoutInv, FilesKept, Mine
  <2>3. CASE Pure(n, b) /\ Missing(n, b) = {}
    <3>1. work[n] \in FileContent
      BY <2>3 DEF Pure, IsFile, CloneTypeOK
    <3>2. DOMAIN work[n] = 1 .. Length(b) /\ \A i \in 1 .. Length(b) : work[n][i] = b
      BY ONLY <2>3 DEF Pure, Missing
    <3>3. work[n] = Image(b)
      BY ONLY <3>1, <3>2 DEF FileContent, Image
    <3>4. QED
      BY ONLY <2>1, <2>3, <3>3 DEF Pure
  <2>4. QED
    BY ONLY <2>1, <2>2, <2>3 DEF FileKept, Tended, Agreed
<1>6. QED
  BY ONLY <1>2, <1>3, <1>4, <1>5

LEMMA CheckoutInvHolds == CloneSpec => []CheckoutInv
<1>1. /\ TypeOK /\ CloneTypeOK /\ SuccessMeansWholePack /\ CheckoutInv /\ [CloneNext]_cloneVars
         => CheckoutInv'
  BY DirsKeptStep, FilesKeptStep, AllWalkStep DEF CheckoutInv
<1>2. QED
  BY <1>1, CheckoutInit, CloneTypeCorrect, CloneUnpacksWhole, PTL DEF CloneSpec

(***************************************************************************)
(* A clone that reports success has restored the tree of the commit the    *)
(* remote listed: every directory with what its tree names, every file     *)
(* with the body of its blob, but for those known to be lost.              *)
(***************************************************************************)
THEOREM CheckoutCorrect == CloneSpec => []CheckoutIsTree
BY CheckoutInvHolds, CheckoutInvMeansTree, CloneTypeCorrect, PTL

-----------------------------------------------------------------------------
(***************************************************************************)
(* CloneFailsForCause, for every remote, every number of clones and every  *)
(* bound.  A clone that was sent a complete pack, and unpacked it, asks    *)
(* the store only for objects of that pack, so that no read of its walk    *)
(* finds an object missing and no tree is malformed: what is left is a     *)
(* refusal, a torn object or a path that is taken.                         *)
(***************************************************************************)

Good(p) == Complete(response[p], head_hash[p])
Sent(p) == Delivered(response[p], Len(response[p].records))

SentTree(p, o) == o \in Sent(p) /\ o.type = "tree"

(* How a read of an object that is there can go. *)
Asks(p) ==
  /\ pc[p] \in {"find", "read", "done"}
  /\ pc[p] = "done" => \/ res[p] \in {"ok"} \cup Torn
                       \/ CanFail /\ res[p] = "io_error"

Caused(p) ==
  \/ ended[p] = "ok"
  \/ ended[p] = "io_error" /\ (CanFail \/ Obstructed(p))
  \/ ended[p] \in Torn /\ p \in torn \cup unsure

FramesSent(p) == \A i \in 1 .. Len(todo[p]) : SentTree(p, todo[p][i].tree)

ReadSent(p) ==
  /\ stage[p] \in {"tree", "blob"} => obj[p] \in Sent(p) /\ Asks(p)
  /\ stage[p] = "tree" => SentTree(p, obj[p])

Walks(p) == stage[p] \in {"tree", "walk", "blob", "write"}

InPack(p) ==
  at[p] = "exit" /\ Good(p) =>
    /\ Walks(p) => FramesSent(p) /\ ReadSent(p)
    /\ stage[p] = "exit" => Caused(p)

AllInPack == \A p \in Proc : InPack(p)

-----------------------------------------------------------------------------
(* What a step of p does to the calls of the others, and to what is known of them. *)
LEMMA CallsOfActs ==
  ASSUME NEW p \in Proc, ActsOf(p)
  PROVE  \/ UNCHANGED storeVars
         \/ \E o : CallStore(p, o) \/ CallRead(p, o)
         \/ Return(p) \/ Kill(p) \/ StoreStep(p) \/ StoreFault(p)
<1>1. CASE CloneStart(p) \/ FetchRefs(p) \/ FetchPack(p) \/ FileRefused(p)
  BY <1>1 DEF CloneStart, FetchRefs, FetchPack, FileRefused, UnpackAndStore, vars
<1>2. CASE Unpacked(p) \/ RestoreDirectory(p) \/ RestoreFile(p)
  BY <1>2 DEF Unpacked, RestoreDirectory, RestoreFile
<1>3. CASE TreeRead(p) \/ BlobRead(p) \/ PieceWritten(p) \/ FileWritten(p) \/ TreeEnds(p)
  BY <1>3 DEF TreeRead, BlobRead, PieceWritten, FileWritten, TreeEnds, vars
<1>4. CASE CloneLeaves(p) \/ KillClone(p)
  BY <1>4 DEF CloneLeaves, KillClone, Leave, KillUnpack, vars
<1>5. CASE StepOf(p)
  BY <1>5 DEF StepOf, StreamEnds, OffsetDelta, RegularObject, ReferenceDelta, BaseRead,
     StoreParsed, ObjectStored, UnpackEnd
<1>6. QED
  BY <1>1, <1>2, <1>3, <1>4, <1>5 DEF ActsOf, CloneStep

LEMMA DoubtsOfActs ==
  ASSUME NEW p \in Proc, ActsOf(p), NEW q \in Proc \ {p}
  PROVE  (q \in torn => q \in torn') /\ (q \in unsure => q \in unsure')
<1>1. CASE CloneStart(p) \/ FetchRefs(p) \/ FetchPack(p) \/ FileRefused(p)
  BY <1>1 DEF CloneStart, FetchRefs, FetchPack, FileRefused, UnpackAndStore, vars
<1>2. CASE Unpacked(p) \/ RestoreDirectory(p) \/ RestoreFile(p)
  BY <1>2 DEF Unpacked, RestoreDirectory, RestoreFile, unpackVars
<1>3. CASE TreeRead(p) \/ BlobRead(p) \/ PieceWritten(p) \/ FileWritten(p) \/ TreeEnds(p)
  BY <1>3 DEF TreeRead, BlobRead, PieceWritten, FileWritten, TreeEnds, Doubtful, unpackVars, vars
<1>4. CASE CloneLeaves(p) \/ KillClone(p)
  BY <1>4 DEF CloneLeaves, KillClone, Leave, KillUnpack, Reset, Forget, vars
<1>5. CASE StepOf(p) /\ UNCHANGED unsure
  <2>1. q \in torn => q \in torn'
    BY <1>5 DEF StepOf, StreamEnds, OffsetDelta, RegularObject, ReferenceDelta, BaseRead,
       StoreParsed, ObjectStored, UnpackEnd
  <2>2. QED
    BY <1>5, <2>1
<1>6. CASE UNCHANGED <<unpackVars, unsure>>
  BY <1>6 DEF unpackVars
<1>7. QED
  BY <1>1, <1>2, <1>3, <1>4, <1>5, <1>6 DEF ActsOf, CloneStep

LEMMA InPackUntouched ==
  ASSUME KindsKept, NEW p \in Proc, InPack(p),
         UNCHANGED <<CloneOwn(p), OwnState(p), res[p]>>,
         (p \in torn => p \in torn') /\ (p \in unsure => p \in unsure')
  PROVE  InPack(p)'
<1>1. UNCHANGED <<stage[p], target[p], todo[p], ended[p], at[p], response[p], head_hash[p],
                  pc[p], obj[p], res[p]>>
  BY DEF CloneOwn, OwnState
<1>2. /\ Good(p)' <=> Good(p)
      /\ Walks(p)' <=> Walks(p)
      /\ FramesSent(p)' <=> FramesSent(p)
      /\ ReadSent(p)' <=> ReadSent(p)
  BY ONLY <1>1 DEF Good, Walks, FramesSent, ReadSent, SentTree, Sent, Asks
<1>3. Obstructed(p) => Obstructed(p)'
  <2>1. Top(p)' = Top(p)
    BY ONLY <1>1 DEF Top
  <2>2. QED
    BY ONLY <1>1, <2>1, KindsKept DEF KindsKept, Obstructed, IsFile, IsDirectory
<1>4. Caused(p) => Caused(p)'
  BY <1>1, <1>3 DEF Caused
<1>5. QED
  BY ONLY <1>1, <1>2, <1>4, InPack(p) DEF InPack

-----------------------------------------------------------------------------
(* What a complete pack is, and that it is in the store once it is unpacked. *)
LEMMA CompletePacks ==
  ASSUME NEW r \in Response, NEW h, Complete(r, h)
  PROVE  /\ Sound(r, h) /\ r.count = Len(r.records)
         /\ Delivered(r, Len(r.records)) \subseteq Object
         /\ ExtractCommitTreeHash[h.body] \in Delivered(r, Len(r.records))
         /\ ExtractCommitTreeHash[h.body].type = "tree"
         /\ \A o \in Delivered(r, Len(r.records)) : o.type = "tree" =>
              /\ Entries(o) # Malformed
              /\ \A i \in 1 .. Len(Entries(o)) :
                   /\ Entries(o)[i].hash \in Delivered(r, Len(r.records))
                   /\ IsTree(Entries(o)[i]) => Entries(o)[i].hash.type = "tree"
<1>1. Sound(r, h)
  BY DEF Complete
<1>2. \A i \in 1 .. Len(r.records) : Legible(r.records[i])
  BY <1>1, SoundRecords
<1>3. Delivered(r, Len(r.records)) \subseteq Object
  BY <1>2, UnpackAssumption DEF Delivered
<1>4. r.count = Len(r.records)
  BY <1>1 DEF Sound
<1>5. QED
  BY <1>1, <1>3, <1>4 DEF Complete

LEMMA GoodMeans ==
  ASSUME TypeOK, NEW p \in Proc, at[p] = "exit", Good(p)
  PROVE  /\ Sound(response[p], head_hash[p])
         /\ response[p].count = Len(response[p].records)
         /\ Sent(p) \subseteq Object
         /\ SentTree(p, ExtractCommitTreeHash[head_hash[p].body])
         /\ \A o : SentTree(p, o) =>
              /\ Entries(o) # Malformed
              /\ \A i \in 1 .. Len(Entries(o)) :
                   /\ Entries(o)[i].hash \in Sent(p)
                   /\ IsTree(Entries(o)[i]) => SentTree(p, Entries(o)[i].hash)
<1>1. response[p] \in Response
  BY DEF TypeOK, UnpackTypeOK, RunTypeOK
<1>2. QED
  BY <1>1, CompletePacks DEF Good, Sent, SentTree

LEMMA SentIsThere ==
  ASSUME TypeOK, SuccessMeansWholePack, NEW p \in Proc,
         at[p] = "exit", out[p] = "ok", Good(p)
  PROVE  Sent(p) \subseteq exists
BY GoodMeans DEF SuccessMeansWholePack, Sent

LEMMA ReadBegins ==
  ASSUME StoreTypeOK, NEW p \in Proc, NEW h, CallRead(p, h)
  PROVE  obj'[p] = h /\ Asks(p)'
BY DEF StoreTypeOK, CallRead, Goto, Asks

-----------------------------------------------------------------------------
(* The steps that leave Unpack where it is, one after another. *)
LEMMA UnpackedInPack ==
  ASSUME TypeOK, CloneTypeOK, SuccessMeansWholePack, SoundPackUnpacks,
         NEW p \in Proc, Fresh(p), Unpacked(p)
  PROVE  InPack(p)'
<1> DEFINE tree == ExtractCommitTreeHash[head_body[p]]
<1>a. RunsType /\ StoreTypeOK
  BY TypesAre DEF TypeOK
<1>b. /\ stage[p] = "unpack" /\ at[p] = "exit" /\ UNCHANGED unpackVars
      /\ UNCHANGED <<todo, unsure>>
  BY DEF Unpacked
<1>c. UNCHANGED <<at, response, head_hash, torn>>
  BY <1>b DEF unpackVars, unpack
<1>d. todo[p] = << >>
  BY <1>b DEF Fresh
<1>e. SUFFICES ASSUME Good(p)
               PROVE  (Walks(p) => FramesSent(p) /\ ReadSent(p))'
                      /\ (stage[p] = "exit" => Caused(p))'
  BY <1>c DEF InPack, Good
<1>1. CASE out[p] # "ok" /\ stage'[p] = "exit" /\ ended'[p] = out[p]
  <2>1. (CanFail /\ out[p] = "io_error") \/ (p \in torn /\ out[p] \in Torn)
    BY <1>b, <1>e, <1>1, GoodMeans DEF SoundPackUnpacks
  <2>2. Caused(p)'
    BY ONLY <1>b, <1>c, <1>1, <2>1 DEF Caused
  <2>3. QED
    BY <1>1, <2>2 DEF Walks
<1>2. CASE out[p] = "ok"
  <2>1. tree = ExtractCommitTreeHash[head_hash[p].body]
    BY <1>b, <1>2 DEF SuccessMeansWholePack
  <2>2. SentTree(p, tree)
    BY <1>b, <1>e, <2>1, GoodMeans
  <2>3. tree # None
    BY <1>b, <1>e, <2>2, GoodMeans, StoreAssumption DEF SentTree
  <2>4. CallRead(p, tree) /\ stage'[p] = "tree"
    BY <1>a, <1>2, <2>3 DEF Unpacked, Enter, RunsType
  <2>5. obj'[p] = tree /\ Asks(p)'
    BY <1>a, <2>4, ReadBegins
  <2>6. SentTree(p, obj[p])'
    BY ONLY <1>c, <2>2, <2>5 DEF SentTree, Sent
  <2>7. FramesSent(p)'
    BY ONLY <1>b, <1>d DEF FramesSent
  <2>8. QED
    BY ONLY <2>4, <2>5, <2>6, <2>7 DEF ReadSent, SentTree
<1>3. QED
  BY <1>a, <1>1, <1>2 DEF Unpacked, CloneEnd, Enter, RunsType

LEMMA TreeReadInPack ==
  ASSUME TypeOK, CloneTypeOK, TornReadMeansRaceOrCrash, NEW p \in Proc, InPack(p), TreeRead(p)
  PROVE  InPack(p)'
<1>a. /\ RunsType /\ PlaceOK(p)
      /\ stage[p] = "tree" /\ pc[p] = "done" /\ at[p] = "exit" /\ UNCHANGED unpackVars
  BY TypesAre DEF TreeRead, Return, PlaceOK
<1>c. UNCHANGED <<at, response, head_hash, torn>>
  BY <1>a DEF unpackVars, unpack
<1>e. SUFFICES ASSUME Good(p)
               PROVE  (Walks(p) => FramesSent(p) /\ ReadSent(p))'
                      /\ (stage[p] = "exit" => Caused(p))'
  BY <1>c DEF InPack, Good
<1>f. FramesSent(p) /\ SentTree(p, obj[p]) /\ Asks(p)
  BY <1>a, <1>e DEF InPack, Walks, ReadSent
<1>1. CASE res[p] # "ok" /\ stage'[p] = "exit" /\ ended'[p] = res[p]
  <2>1. (CanFail /\ res[p] = "io_error") \/ (p \in unsure' /\ res[p] \in Torn)
    <3>1. (CanFail /\ res[p] = "io_error") \/ res[p] \in Torn
      BY ONLY <1>a, <1>f, <1>1 DEF Asks
    <3>2. ASSUME res[p] \in Torn PROVE p \in unsure'
      BY <1>a, <3>2 DEF TornReadMeansRaceOrCrash, TreeRead, Doubtful
    <3>3. QED
      BY <3>1, <3>2
  <2>2. Caused(p)'
    BY ONLY <1>1, <2>1 DEF Caused
  <2>3. QED
    BY <1>1, <2>2 DEF Walks
<1>2. CASE /\ stage'[p] = "walk" /\ Entries(obj[p]) # Malformed
           /\ todo' = [todo EXCEPT ![p] = Append(@, Frame(target[p], obj[p]))]
  <2>1. PICK s, t, n, o : s = todo[p] /\ t = todo'[p] /\ n = Len(s) /\ o = obj[p]
    OBVIOUS
  <2>2. /\ Len(t) = n + 1 /\ n \in Nat /\ t[n + 1].tree = o
        /\ \A i \in 1 .. n : t[i] = s[i]
    <3>1. n \in Nat
      BY <2>1, ElementOf DEF CloneTypeOK
    <3>2. obj[p] \in Object
      BY <1>a DEF PlaceOK
    <3>3. /\ Len(t) = n + 1 /\ t[n + 1] = Frame(target[p], obj[p])
          /\ \A i \in 1 .. n : t[i] = s[i]
      BY <1>2, <2>1, <3>2, PushFrame
    <3>4. QED
      BY ONLY <2>1, <3>1, <3>3 DEF Frame
  <2>3. ASSUME NEW i \in 1 .. Len(t) PROVE SentTree(p, t[i].tree)
    <3>1. i \in 1 .. n \/ i = n + 1
      BY ONLY <2>2, <2>3
    <3>2. QED
      BY ONLY <1>f, <2>1, <2>2, <3>1 DEF FramesSent
  <2>4. FramesSent(p)'
    BY ONLY <1>c, <2>1, <2>3 DEF FramesSent, SentTree, Sent
  <2>5. QED
    BY <1>2, <2>4 DEF ReadSent
<1>3. CASE Entries(obj[p]) = Malformed
  BY <1>a, <1>e, <1>f, <1>3, GoodMeans
<1>4. QED
  BY <1>a, <1>1, <1>2, <1>3 DEF TreeRead, CloneEnd, Enter, RunsType

LEMMA VisitInPack ==
  ASSUME TypeOK, CloneTypeOK, NEW p \in Proc, InPack(p), RestoreDirectory(p) \/ RestoreFile(p)
  PROVE  InPack(p)'
<1>a. /\ RunsType /\ StoreTypeOK /\ PlaceOK(p) /\ AtEntry(p) /\ Advance(p)
      /\ stage[p] = "walk" /\ UNCHANGED unpackVars
  BY TypesAre DEF RestoreDirectory, RestoreFile, AtEntry, TypeOK
<1>b. at[p] = "exit"
  BY <1>a DEF PlaceOK
<1>c. UNCHANGED <<at, response, head_hash, torn>>
  BY <1>a DEF unpackVars, unpack
<1>e. SUFFICES ASSUME Good(p)
               PROVE  (Walks(p) => FramesSent(p) /\ ReadSent(p))'
                      /\ (stage[p] = "exit" => Caused(p))'
  BY <1>c DEF InPack, Good
<1>f. FramesSent(p)
  BY <1>a, <1>b, <1>e DEF InPack, Walks
<1>1. PICK s, t, n, f, g, e : /\ s = todo[p] /\ t = todo'[p] /\ n = Len(s) /\ f = Top(p)
                              /\ g = [f EXCEPT !.next = @ + 1] /\ e = NextEntry(p)
  OBVIOUS
<1>2. /\ n \in Nat \ {0} /\ f = s[n] /\ f \in Frames
      /\ Len(t) = n /\ t[n] = g /\ t # << >>
      /\ \A i \in 1 .. n - 1 : t[i] = s[i]
  BY <1>a, <1>1, EntryAtHand, TopFrame, AdvanceFrame
<1>3. f.next \in 1 .. Len(Entries(f.tree)) /\ f.next \in Nat \ {0}
  BY <1>a, <1>1, <1>2, EntryAtHand, TopFrame, EntriesType DEF AtEntry, Frames
<1>4. g.tree = f.tree /\ g.next = f.next + 1 /\ g.next - 1 = f.next
  BY ONLY <1>1, <1>2, <1>3 DEF Frames
<1>5. e = Entries(f.tree)[f.next] /\ e = Entries(g.tree)[g.next - 1]
  BY ONLY <1>1, <1>4 DEF NextEntry
<1>6. FramesSent(p)'
  <2>1. \A i \in 1 .. n : t[i].tree = s[i].tree
    BY ONLY <1>2, <1>4
  <2>2. QED
    BY ONLY <1>c, <1>f, <1>1, <1>2, <2>1 DEF FramesSent, SentTree, Sent
<1>7. e.hash \in Sent(p) /\ (IsTree(e) => SentTree(p, e.hash))
  <2>1. SentTree(p, f.tree)
    BY ONLY <1>f, <1>1, <1>2 DEF FramesSent
  <2>2. QED
    BY <1>b, <1>e, <1>3, <1>5, <2>1, GoodMeans
<1>8. CASE /\ CallRead(p, e.hash)
           /\ stage'[p] = IF IsTree(e) THEN "tree" ELSE "blob"
  <2>1. obj'[p] = e.hash /\ Asks(p)'
    BY <1>a, <1>8, ReadBegins
  <2>2. ReadSent(p)'
    BY ONLY <1>c, <1>7, <1>8, <2>1 DEF ReadSent, SentTree, Sent
  <2>3. QED
    BY <1>6, <1>8, <2>2
<1>9. CASE /\ IsTree(e) /\ (IsFile(PathAt(p)) \/ CanFail) /\ UNCHANGED work
           /\ stage'[p] = "exit" /\ ended'[p] = "io_error"
  <2>1. Top(p)' = g
    BY ONLY <1>1, <1>2 DEF Top, Last
  <2>2. target'[p] = PathAt(p)
    BY <1>a DEF Advance, Aim, RunsType
  <2>3. IsFile(PathAt(p)) => IsFile(target[p])'
    BY ONLY <1>9, <2>2 DEF IsFile
  <2>4. IsFile(PathAt(p)) => Obstructed(p)'
    BY ONLY <1>5, <1>9, <2>1, <2>3 DEF Obstructed
  <2>5. Caused(p)'
    BY ONLY <1>9, <2>4 DEF Caused
  <2>6. QED
    BY <1>9, <2>5 DEF Walks
<1>10. QED
  BY <1>a, <1>1, <1>8, <1>9
  DEF RestoreDirectory, RestoreFile, Taken, CloneEnd, Enter, RunsType

LEMMA BlobReadInPack ==
  ASSUME TypeOK, CloneTypeOK, TornReadMeansRaceOrCrash, NEW p \in Proc, InPack(p), Standing(p),
         BlobRead(p)
  PROVE  InPack(p)'
<1>a. /\ RunsType /\ PlaceOK(p)
      /\ stage[p] = "blob" /\ pc[p] = "done" /\ at[p] = "exit" /\ UNCHANGED unpackVars
      /\ UNCHANGED <<todo, target>>
  BY TypesAre DEF BlobRead, Return, PlaceOK
<1>c. UNCHANGED <<at, response, head_hash, torn>>
  BY <1>a DEF unpackVars, unpack
<1>e. SUFFICES ASSUME Good(p)
               PROVE  (Walks(p) => FramesSent(p) /\ ReadSent(p))'
                      /\ (stage[p] = "exit" => Caused(p))'
  BY <1>c DEF InPack, Good
<1>f. FramesSent(p) /\ Asks(p)
  BY <1>a, <1>e DEF InPack, Walks, ReadSent
<1>1. CASE res[p] # "ok" /\ stage'[p] = "exit" /\ ended'[p] = res[p]
  <2>1. (CanFail /\ res[p] = "io_error") \/ (p \in unsure' /\ res[p] \in Torn)
    <3>1. (CanFail /\ res[p] = "io_error") \/ res[p] \in Torn
      BY ONLY <1>a, <1>f, <1>1 DEF Asks
    <3>2. ASSUME res[p] \in Torn PROVE p \in unsure'
      BY <1>a, <3>2 DEF TornReadMeansRaceOrCrash, BlobRead, Doubtful
    <3>3. QED
      BY <3>1, <3>2
  <2>2. Caused(p)'
    BY ONLY <1>1, <2>1 DEF Caused
  <2>3. QED
    BY <1>1, <2>2 DEF Walks
<1>2. CASE /\ IsDirectory(target[p]) \/ CanFail
           /\ UNCHANGED work /\ stage'[p] = "exit" /\ ended'[p] = "io_error"
  <2>1. ~IsTree(Entries(Top(p).tree)[Top(p).next - 1])
    BY ONLY <1>a, Standing(p) DEF Standing, AtFile, Visited, Top, Last
  <2>2. IsDirectory(target[p]) => Obstructed(p)'
    <3>1. Top(p)' = Top(p) /\ target'[p] = target[p]
      BY ONLY <1>a DEF Top
    <3>2. QED
      BY ONLY <1>2, <2>1, <3>1 DEF Obstructed, IsDirectory
  <2>3. Caused(p)'
    BY ONLY <1>2, <2>2 DEF Caused
  <2>4. QED
    BY <1>2, <2>3 DEF Walks
<1>3. CASE stage'[p] = "write"
  <2>1. FramesSent(p)'
    BY ONLY <1>a, <1>c, <1>f DEF FramesSent, SentTree, Sent
  <2>2. QED
    BY <1>3, <2>1 DEF ReadSent
<1>4. QED
  BY <1>a, <1>1, <1>2, <1>3 DEF BlobRead, OpenFile, CloneEnd, Enter, RunsType

LEMMA WriteInPack ==
  ASSUME TypeOK, CloneTypeOK, NEW p \in Proc, InPack(p),
         PieceWritten(p) \/ FileWritten(p) \/ FileRefused(p)
  PROVE  InPack(p)'
<1>a. /\ RunsType /\ PlaceOK(p)
      /\ stage[p] = "write" /\ UNCHANGED <<vars, todo>>
  BY TypesAre DEF PieceWritten, FileWritten, FileRefused
<1>b. at[p] = "exit"
  BY <1>a DEF PlaceOK
<1>c. UNCHANGED <<at, response, head_hash>>
  BY <1>a DEF vars, unpack
<1>e. SUFFICES ASSUME Good(p)
               PROVE  (Walks(p) => FramesSent(p) /\ ReadSent(p))'
                      /\ (stage[p] = "exit" => Caused(p))'
  BY <1>c DEF InPack, Good
<1>1. FramesSent(p)
  BY <1>a, <1>b, <1>e DEF InPack, Walks
<1>2. FramesSent(p)'
  BY ONLY <1>a, <1>c, <1>1 DEF FramesSent, SentTree, Sent
<1>3. \/ stage'[p] \in {"write", "walk"}
      \/ stage'[p] = "exit" /\ ended'[p] = "io_error" /\ CanFail
  BY <1>a DEF PieceWritten, FileWritten, FileRefused, CloneEnd, Enter, RunsType
<1>4. QED
  BY <1>2, <1>3 DEF Walks, ReadSent, Caused

LEMMA TreeEndsInPack ==
  ASSUME TypeOK, CloneTypeOK, NEW p \in Proc, InPack(p), TreeEnds(p)
  PROVE  InPack(p)'
<1>a. /\ RunsType /\ PlaceOK(p)
      /\ stage[p] = "walk" /\ UNCHANGED vars
      /\ todo' = [todo EXCEPT ![p] = Front(@)]
      /\ \/ stage'[p] = "exit" /\ ended'[p] = "ok"
         \/ stage'[p] = "walk"
  BY TypesAre DEF TreeEnds, CloneEnd, Enter, RunsType
<1>b. at[p] = "exit" /\ todo[p] # << >>
  BY <1>a DEF PlaceOK
<1>c. UNCHANGED <<at, response, head_hash>>
  BY <1>a DEF vars, unpack
<1>e. SUFFICES ASSUME Good(p)
               PROVE  (Walks(p) => FramesSent(p) /\ ReadSent(p))'
                      /\ (stage[p] = "exit" => Caused(p))'
  BY <1>c DEF InPack, Good
<1>1. FramesSent(p)
  BY <1>a, <1>b, <1>e DEF InPack, Walks
<1>2. PICK s, t, n : s = todo[p] /\ t = todo'[p] /\ n = Len(s)
  OBVIOUS
<1>3. n \in Nat \ {0} /\ Len(t) = n - 1 /\ \A i \in 1 .. n - 1 : t[i] = s[i]
  BY <1>a, <1>b, <1>2, TopFrame, PopFrame
<1>4. FramesSent(p)'
  <2>1. ASSUME NEW i \in 1 .. Len(t) PROVE SentTree(p, t[i].tree)
    <3>1. i \in 1 .. n - 1 /\ i \in 1 .. n
      BY ONLY <1>3, <2>1
    <3>2. QED
      BY ONLY <1>1, <1>2, <1>3, <3>1 DEF FramesSent
  <2>2. QED
    BY ONLY <1>c, <1>2, <2>1 DEF FramesSent, SentTree, Sent
<1>5. QED
  BY <1>a, <1>4 DEF Walks, ReadSent, Caused

(* The steps of the call itself: an object of the pack is never missing. *)
LEMMA CallInPack ==
  ASSUME TypeOK, CloneTypeOK, SuccessMeansWholePack, NEW p \in Proc, InPack(p),
         StepOf(p) \/ (StoreFault(p) /\ UNCHANGED unpackVars), UNCHANGED run
  PROVE  InPack(p)'
<1>a. StoreTypeOK /\ PlaceOK(p) /\ UNCHANGED <<stage, todo>>
  BY TypesAre DEF TypeOK, run
<1>b. SUFFICES ASSUME Walks(p) \/ stage[p] = "exit"
               PROVE  InPack(p)'
  BY <1>a DEF InPack, Walks
<1>1. pc[p] # "idle" \/ at[p] \notin {"idle", "exit"}
  BY <1>a, StepOfEffects, CallEffects
<1>2. at[p] = "exit" /\ out[p] = "ok" /\ stage[p] \in {"tree", "blob"}
  BY <1>a, <1>b, <1>1 DEF PlaceOK, Walks
<1>3. (StoreStep(p) \/ StoreFault(p)) /\ UNCHANGED <<at, response, head_hash>>
  BY <1>2 DEF StepOf, StreamEnds, OffsetDelta, RegularObject, ReferenceDelta, BaseRead,
     StoreParsed, ObjectStored, UnpackEnd, AtRecord, unpackVars, unpack
<1>4. SUFFICES ASSUME Good(p)
               PROVE  FramesSent(p)' /\ ReadSent(p)'
  BY <1>a, <1>2, <1>3 DEF InPack, Good
<1>5. FramesSent(p) /\ ReadSent(p)
  BY <1>2, <1>4 DEF InPack, Walks
<1>6. obj[p] \in exists
  BY <1>2, <1>4, <1>5, SentIsThere DEF ReadSent
<1>7. obj' = obj /\ Asks(p)'
  <2>1. pc[p] \in {"find", "read", "done"}
    BY ONLY <1>2, <1>5 DEF ReadSent, Asks
  <2>2. QED
    BY <1>a, <1>3, <1>6, <2>1, ReadAnswers, CallEffects DEF Asks
<1>8. QED
  BY ONLY <1>a, <1>3, <1>5, <1>7 DEF FramesSent, ReadSent, SentTree, Sent

LEMMA InPackOfActs ==
  ASSUME TypeOK, CloneTypeOK, SuccessMeansWholePack, SoundPackUnpacks, TornReadMeansRaceOrCrash,
         NEW p \in Proc, Fresh(p), Walk(p), InPack(p), ActsOf(p)
  PROVE  InPack(p)'
<1>a. RunsType /\ PlaceOK(p) /\ Standing(p)
  BY TypesAre DEF Walk
<1>1. CASE CloneStart(p) \/ FetchRefs(p) \/ FetchPack(p)
  <2>1. (UNCHANGED vars /\ at[p] = "idle") \/ stage'[p] = "unpack"
    BY <1>a, <1>1 DEF CloneStart, FetchRefs, FetchPack, PlaceOK, Enter, RunsType
  <2>2. UNCHANGED vars => UNCHANGED at
    BY DEF vars, unpack
  <2>3. QED
    BY <2>1, <2>2 DEF InPack, Walks
<1>2. CASE CloneLeaves(p) \/ KillClone(p)
  <2>1. stage'[p] = "idle"
    BY <1>a, <1>2 DEF CloneLeaves, KillClone, Forget, Enter, RunsType
  <2>2. QED
    BY <2>1 DEF InPack, Walks
<1>3. CASE (StepOf(p) \/ (StoreFault(p) /\ UNCHANGED unpackVars)) /\ UNCHANGED run
  BY <1>3, CallInPack
<1>4. CASE Unpacked(p)
  BY <1>4, UnpackedInPack
<1>5. CASE TreeRead(p) \/ BlobRead(p)
  BY <1>a, <1>5, TreeReadInPack, BlobReadInPack
<1>6. CASE RestoreDirectory(p) \/ RestoreFile(p)
  BY <1>6, VisitInPack
<1>7. CASE PieceWritten(p) \/ FileWritten(p) \/ FileRefused(p) \/ TreeEnds(p)
  BY <1>7, WriteInPack, TreeEndsInPack
<1>8. QED
  BY <1>1, <1>2, <1>3, <1>4, <1>5, <1>6, <1>7 DEF ActsOf, CloneStep

(* What is assumed of the state before a step was proved invariant before. *)
Background ==
  /\ TypeOK /\ CloneTypeOK /\ SuccessMeansWholePack /\ SoundPackUnpacks
  /\ TornReadMeansRaceOrCrash /\ DirsKept /\ AllWalk

LEMMA InPackStep == Background /\ AllInPack /\ [CloneNext]_cloneVars => AllInPack'
<1> SUFFICES ASSUME Background, AllInPack, [CloneNext]_cloneVars PROVE AllInPack'
  OBVIOUS
<1>a. /\ TypeOK /\ CloneTypeOK /\ SuccessMeansWholePack /\ SoundPackUnpacks
      /\ TornReadMeansRaceOrCrash /\ WritersHaveFiles /\ StoreTypeOK
      /\ \A q \in Proc : Fresh(q) /\ Walk(q) /\ InPack(q)
  BY DEF Background, DirsKept, AllWalk, AllInPack, TypeOK
<1>b. KindsKept
  BY <1>a, KindsStay
<1>1. ASSUME NEW p \in Proc, ActsOf(p), NEW q \in Proc PROVE InPack(q)'
  <2>1. CASE q = p
    BY <1>a, <1>1, <2>1, InPackOfActs
  <2>2. CASE q # p
    <3>1. UNCHANGED <<CloneOwn(q), OwnState(q)>>
      BY <1>a, <1>1, <2>2, OthersStay, RunsOfOthers DEF Own, CloneOwn, OtherRuns, OwnState
    <3>2. res'[q] = res[q]
      <4>1. UNCHANGED storeVars => res'[q] = res[q]
        BY DEF storeVars, call
      <4>2. QED
        BY <1>a, <1>1, <2>2, <4>1, CallsOfActs, OthersKeepAnswers
    <3>3. (q \in torn => q \in torn') /\ (q \in unsure => q \in unsure')
      BY <1>1, <2>2, DoubtsOfActs
    <3>4. QED
      BY <1>a, <1>b, <3>1, <3>2, <3>3, InPackUntouched
  <2>3. QED
    BY <2>1, <2>2
<1>2. CASE UNCHANGED <<vars, run, unsure>>
  <2>1. ASSUME NEW q \in Proc PROVE InPack(q)'
    <3>1. UNCHANGED <<CloneOwn(q), OwnState(q), res[q], torn, unsure>>
      BY <1>2 DEF vars, storeVars, call, unpack, run, CloneOwn, OwnState
    <3>2. QED
      BY <1>a, <1>b, <2>1, <3>1, InPackUntouched
  <2>2. QED
    BY <2>1 DEF AllInPack
<1>3. RemoteMoves \/ UNCHANGED cloneVars => UNCHANGED <<vars, run, unsure>>
  BY DEF RemoteMoves, cloneVars
<1>4. QED
  BY <1>1, <1>2, <1>3, NextIsActs DEF AllInPack

-----------------------------------------------------------------------------
(***************************************************************************)
(* A clone that was sent a complete pack fails only for a path that is     *)
(* taken, a refusal, or an object that had a writer at work or was damaged *)
(* when it was read, whatever earlier clones left in the destination.      *)
(***************************************************************************)
THEOREM CloneFailuresHaveCause == CloneSpec => []CloneFailsForCause
<1>1. CloneInit => AllInPack
  <2>1. CloneInit => \A p \in Proc : at[p] = "idle"
    BY DEF CloneInit, Init
  <2>2. QED
    BY <2>1 DEF AllInPack, InPack
<1>2. AllInPack => CloneFailsForCause
  BY DEF AllInPack, InPack, Good, Caused, CloneFailsForCause
<1>3. CloneSpec => []TornReadMeansRaceOrCrash
  BY CloneUnpacks, UnpackUsesStore, StoreTornReadsHaveCause, PTL
<1>4. CloneSpec => [](DirsKept /\ AllWalk)
  BY CheckoutInvHolds, PTL DEF CheckoutInv
<1>5. CloneSpec => []Background
  BY <1>3, <1>4, CloneTypeCorrect, CloneUnpacksWhole, CloneUnpacksSound, PTL DEF Background
<1>6. QED
  BY <1>1, <1>2, <1>5, InPackStep, PTL DEF CloneSpec
===============================================================================

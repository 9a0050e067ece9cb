----------------------------- MODULE UnpackProofs -----------------------------
(***************************************************************************)
(* Proofs about Unpack, for every pack, every number of runs and every     *)
(* bound: its runs use the store as ObjectStore allows, success means that *)
(* the whole pack is in the store, and a sound pack unpacks.               *)
(***************************************************************************)
EXTENDS Unpack, ObjectStoreProofs

-----------------------------------------------------------------------------
(* The record at hand, and the object it stands for. *)
LEMMA RecordAtHand ==
  ASSUME UnpackTypeOK, NEW p \in Proc, at[p] # "idle",
         index[p] < Len(response[p].records)
  PROVE  /\ NextRecord(p) \in Record
         /\ Legible(NextRecord(p)) => Rebuilt(NextRecord(p)) \in Object
<1>1. response[p] \in Response /\ index[p] \in Nat
  BY DEF UnpackTypeOK, RunTypeOK
<1>2. response[p].records \in Seq(Record)
  BY <1>1, UnpackAssumption
<1>3. index[p] + 1 \in 1 .. Len(response[p].records)
  BY <1>1, <1>2
<1>4. \A i \in 1 .. Len(response[p].records) :
        Legible(response[p].records[i]) => Rebuilt(response[p].records[i]) \in Object
  BY ONLY <1>1, UnpackAssumption DEF UnpackAssumption
<1>5. response[p].records[index[p] + 1] \in Record
  BY ONLY <1>2, <1>3
<1>6. QED
  BY ONLY <1>3, <1>4, <1>5 DEF NextRecord

LEMMA BaseOfDelta ==
  ASSUME NEW r \in Record, r.type = 7, r.base # None
  PROVE  r.base \in Object
BY DEF Record

(* Every step of a run is a step of the store or leaves it alone. *)
LEMMA UnpackStepsStore == TypeOK /\ [Next]_vars => [StoreNext]_storeVars
<1> SUFFICES ASSUME TypeOK, [Next]_vars PROVE [StoreNext]_storeVars
  OBVIOUS
<1>1. ASSUME NEW p \in Proc, StoreParsed(p) PROVE StoreNext
  <2>1. parsed[p] \in Object
    BY <1>1, RecordAtHand DEF StoreParsed, TypeOK, UnpackTypeOK, RunTypeOK
  <2>2. QED
    BY <1>1, <2>1 DEF StoreParsed, StoreNext
<1>2. ASSUME NEW p \in Proc, ReferenceDelta(p) PROVE [StoreNext]_storeVars
  <2>1. NextRecord(p) \in Record /\ NextRecord(p).type = 7
    BY <1>2, RecordAtHand DEF ReferenceDelta, AtRecord, TypeOK
  <2>2. QED
    BY <1>2, <2>1, BaseOfDelta DEF ReferenceDelta, StoreNext
<1>3. ASSUME NEW p \in Proc, BaseRead(p) \/ ObjectStored(p) PROVE StoreNext
  BY <1>3 DEF BaseRead, ObjectStored, StoreNext
<1>4. ASSUME NEW p \in Proc, StoreStep(p) \/ StoreFault(p) PROVE StoreNext
  BY <1>4 DEF StoreNext
<1>5. ASSUME NEW p \in Proc, Leave(p) \/ KillUnpack(p) PROVE [StoreNext]_storeVars
  BY <1>5 DEF Leave, KillUnpack, StoreNext
<1>6. ASSUME NEW p \in Proc, NEW r, NEW h, UnpackAndStore(p, r, h)
      PROVE  UNCHANGED storeVars
  BY <1>6 DEF UnpackAndStore
<1>7. ASSUME NEW p \in Proc,
             StreamEnds(p) \/ OffsetDelta(p) \/ RegularObject(p) \/ UnpackEnd(p)
      PROVE  UNCHANGED storeVars
  BY <1>7 DEF StreamEnds, OffsetDelta, RegularObject, UnpackEnd
<1>8. CASE UNCHANGED vars
  BY <1>8 DEF vars
<1>9. ASSUME NEW p \in Proc, Elsewhere(p) PROVE StoreNext
  BY <1>9 DEF Elsewhere, StoreNext
<1>10. QED
  BY <1>1, <1>2, <1>3, <1>4, <1>5, <1>6, <1>7, <1>8, <1>9 DEF Next, StepOf

-----------------------------------------------------------------------------
(***************************************************************************)
(* The type invariant.  It ties together what a run is at, the record it   *)
(* is at and the call it makes to the store.                               *)
(***************************************************************************)
LEMMA UnpackTypeInit == Init => TypeOK
<1> SUFFICES ASSUME Init PROVE TypeOK
  OBVIOUS
<1>1. StoreTypeOK
  BY TypeInit DEF Init
<1>2. UnpackTypeOK
  BY UnpackAssumption DEF Init, StoreInit, UnpackTypeOK, RunTypeOK, At, Status
<1>3. QED
  BY <1>1, <1>2 DEF TypeOK

(* A run is not touched by the steps of the others. *)
OwnState(p) == <<at[p], response[p], head_hash[p], index[p], parsed[p], pc[p], obj[p]>>

LEMMA RunUntouched ==
  ASSUME NEW p \in Proc, RunTypeOK(p), UNCHANGED OwnState(p)
  PROVE  RunTypeOK(p)'
BY DEF RunTypeOK, OwnState, More, NextRecord

(* GoTo and Exit keep the types, and leave the other runs where they are. *)
LEMMA GoToType ==
  ASSUME at \in [Proc -> At], NEW p \in Proc, NEW s \in At, GoTo(p, s)
  PROVE  /\ at' \in [Proc -> At] /\ at'[p] = s
         /\ \A q \in Proc \ {p} : at'[q] = at[q]
BY DEF GoTo

LEMMA ExitType ==
  ASSUME at \in [Proc -> At], out \in [Proc -> Status],
         NEW p \in Proc, NEW s \in Status, Exit(p, s)
  PROVE  /\ at' \in [Proc -> At] /\ at'[p] = "exit"
         /\ \A q \in Proc \ {p} : at'[q] = at[q]
         /\ out' \in [Proc -> Status]
BY DEF Exit, GoTo, At

LEMMA ElsewhereEffects ==
  ASSUME StoreTypeOK, NEW p \in Proc, Elsewhere(p)
  PROVE  /\ at[p] \in {"idle", "exit"}
         /\ \A q \in Proc \ {p} : pc'[q] = pc[q] /\ obj'[q] = obj[q]
BY CallEffects DEF Elsewhere

LEMMA UnpackTypeStep == TypeOK /\ [Next]_vars => TypeOK'
<1> SUFFICES ASSUME TypeOK, [Next]_vars PROVE TypeOK'
  OBVIOUS
<1>a. StoreTypeOK /\ UnpackTypeOK
  BY DEF TypeOK
<1>b. StoreTypeOK'
  BY UnpackStepsStore, TypeStep DEF TypeOK
<1>c. \A q \in Proc : RunTypeOK(q)
  BY <1>a DEF UnpackTypeOK
<1>d. SUFFICES UnpackTypeOK'
  BY <1>b DEF TypeOK
<1> DEFINE Types == /\ at \in [Proc -> At]
                    /\ response \in [Proc -> Response \cup {None}]
                    /\ head_hash \in [Proc -> HeadHash \cup {None}]
                    /\ index \in [Proc -> Nat]
                    /\ parsed \in [Proc -> Object \cup {None}]
                    /\ head_body \in [Proc -> Body]
                    /\ out \in [Proc -> Status]
                    /\ starts \in 0 .. MaxStarts
                    /\ torn \subseteq Proc
<1>e. Types
  BY <1>a DEF UnpackTypeOK
(* What is to be shown of a step of p. *)
<1>f. ASSUME NEW p \in Proc, Types', RunTypeOK(p)',
             \A q \in Proc \ {p} : UNCHANGED OwnState(q)
      PROVE  UnpackTypeOK'
  <2>1. \A q \in Proc : RunTypeOK(q)'
    BY <1>c, <1>f, RunUntouched
  <2>2. QED
    BY <1>f, <2>1 DEF UnpackTypeOK
<1>1. ASSUME NEW p \in Proc, NEW r \in Response, NEW h \in HeadHash, UnpackAndStore(p, r, h)
      PROVE  UnpackTypeOK'
  <2>1. /\ at' \in [Proc -> At] /\ out' \in [Proc -> Status]
        /\ at'[p] \in {"object", "exit"}
        /\ \A q \in Proc \ {p} : at'[q] = at[q]
    <3>1. CASE Exit(p, Rejected(r))
      <4>1. Rejected(r) \in Status
        BY DEF Rejected, Status
      <4>2. QED
        BY <1>e, <3>1, <4>1, ExitType
    <3>2. CASE GoTo(p, "object") /\ UNCHANGED out
      BY <1>e, <3>2, GoToType DEF At
    <3>3. QED
      BY <1>1, <3>1, <3>2 DEF UnpackAndStore
  <2>2. /\ response' = [response EXCEPT ![p] = r] /\ head_hash' = [head_hash EXCEPT ![p] = h]
        /\ UNCHANGED <<pc, obj, index, parsed, head_body, torn>>
        /\ starts' = starts + 1 /\ starts < MaxStarts /\ at[p] = "idle" /\ pc[p] = "idle"
    BY <1>1 DEF UnpackAndStore, storeVars, call
  <2>3. RunTypeOK(p)'
    <3>1. pc[p] = "idle" /\ index[p] = 0
      BY <1>c, <2>2 DEF RunTypeOK
    <3>2. Len(r.records) \in Nat
      BY UnpackAssumption
    <3>3. QED
      BY <1>e, <2>1, <2>2, <3>1, <3>2 DEF RunTypeOK
  <2>4. Types'
    BY <1>e, <2>1, <2>2, UnpackAssumption
  <2>5. QED
    BY <1>e, <1>f, <2>1, <2>2, <2>3, <2>4 DEF OwnState
(* The steps that only look at the record at hand. *)
<1>2. ASSUME NEW p \in Proc, StreamEnds(p) \/ OffsetDelta(p) \/ UnpackEnd(p)
      PROVE  UnpackTypeOK'
  <2>1. PICK s \in Status : Exit(p, s)
    <3>1. CASE StreamEnds(p)
      <4>1. response[p] \in Response
        BY <1>c, <3>1 DEF StreamEnds, RunTypeOK
      <4>2. PICK e \in EndError[response[p].end] : Exit(p, e)
        BY <3>1 DEF StreamEnds
      <4>3. e \in Status
        BY <4>1, <4>2, UnpackAssumption DEF EndError, Status
      <4>4. QED
        BY <4>2, <4>3
    <3>2. CASE OffsetDelta(p)
      BY <3>2 DEF OffsetDelta, Status
    <3>3. CASE UnpackEnd(p)
      BY <3>3 DEF UnpackEnd, Status
    <3>4. QED
      BY <1>2, <3>1, <3>2, <3>3
  <2>2. /\ at[p] = "object"
        /\ UNCHANGED <<pc, obj, response, head_hash, index, parsed, head_body, starts, torn>>
    BY <1>2 DEF StreamEnds, OffsetDelta, UnpackEnd, AtRecord, storeVars, call
  <2>3. /\ at' \in [Proc -> At] /\ at'[p] = "exit" /\ out' \in [Proc -> Status]
        /\ \A q \in Proc \ {p} : at'[q] = at[q]
    BY <1>e, <2>1, ExitType
  <2>4. RunTypeOK(p)'
    BY <1>c, <2>2, <2>3 DEF RunTypeOK
  <2>5. QED
    BY <1>e, <1>f, <2>2, <2>3, <2>4 DEF OwnState
<1>3. ASSUME NEW p \in Proc, RegularObject(p) PROVE UnpackTypeOK'
  <2>1. /\ AtRecord(p) /\ at[p] = "object"
        /\ UNCHANGED <<pc, obj, response, head_hash, index, head_body, starts, torn>>
    BY <1>3 DEF RegularObject, AtRecord, storeVars, call
  <2>2. CASE Exit(p, "compression_error") /\ UNCHANGED parsed
    <3>1. /\ at' \in [Proc -> At] /\ at'[p] = "exit" /\ out' \in [Proc -> Status]
          /\ \A q \in Proc \ {p} : at'[q] = at[q]
      BY <1>e, <2>2, ExitType DEF Status
    <3>2. RunTypeOK(p)'
      BY <1>c, <2>1, <2>2, <3>1 DEF RunTypeOK
    <3>3. QED
      BY <1>e, <1>f, <2>1, <2>2, <3>1, <3>2 DEF OwnState
  <2>3. CASE /\ Legible(NextRecord(p)) /\ parsed' = [parsed EXCEPT ![p] = Rebuilt(NextRecord(p))]
             /\ GoTo(p, "parsed") /\ UNCHANGED out
    <3>1. /\ at' \in [Proc -> At] /\ at'[p] = "parsed"
          /\ \A q \in Proc \ {p} : at'[q] = at[q]
      BY <1>e, <2>3, GoToType DEF At
    <3>2. Rebuilt(NextRecord(p)) \in Object
      BY <1>a, <2>1, <2>3, RecordAtHand DEF AtRecord
    <3>3. RunTypeOK(p)'
      BY <1>c, <1>e, <2>1, <2>3, <3>1 DEF RunTypeOK, AtRecord, More, NextRecord
    <3>4. QED
      BY <1>e, <1>f, <2>1, <2>3, <3>1, <3>2, <3>3 DEF OwnState
  <2>4. QED
    BY <1>3, <2>2, <2>3 DEF RegularObject
<1>4. ASSUME NEW p \in Proc, ReferenceDelta(p) PROVE UnpackTypeOK'
  <2>1. /\ AtRecord(p) /\ at[p] = "object" /\ NextRecord(p).type = 7
        /\ UNCHANGED <<response, head_hash, index, parsed, head_body, starts, torn>>
    BY <1>4 DEF ReferenceDelta, AtRecord
  <2>2. CASE Exit(p, "pack_delta_invalid") /\ UNCHANGED storeVars
    <3>1. /\ at' \in [Proc -> At] /\ at'[p] = "exit" /\ out' \in [Proc -> Status]
          /\ \A q \in Proc \ {p} : at'[q] = at[q]
      BY <1>e, <2>2, ExitType DEF Status
    <3>2. RunTypeOK(p)'
      BY <1>c, <2>1, <2>2, <3>1 DEF RunTypeOK, storeVars, call
    <3>3. QED
      BY <1>e, <1>f, <2>1, <2>2, <3>1, <3>2 DEF OwnState, storeVars, call
  <2>3. CASE GoTo(p, "base") /\ CallRead(p, NextRecord(p).base) /\ UNCHANGED out
    <3>1. /\ at' \in [Proc -> At] /\ at'[p] = "base"
          /\ \A q \in Proc \ {p} : at'[q] = at[q]
      BY <1>e, <2>3, GoToType DEF At
    <3>2. /\ pc'[p] # "idle" /\ obj'[p] = NextRecord(p).base
          /\ \A q \in Proc \ {p} : pc'[q] = pc[q] /\ obj'[q] = obj[q]
      BY <1>a, <2>3, CallEffects
    <3>3. RunTypeOK(p)'
      BY <1>c, <2>1, <3>1, <3>2 DEF RunTypeOK, AtRecord, More, NextRecord
    <3>4. QED
      BY <1>e, <1>f, <2>1, <2>3, <3>1, <3>2, <3>3 DEF OwnState
  <2>4. QED
    BY <1>4, <2>2, <2>3 DEF ReferenceDelta
<1>5. ASSUME NEW p \in Proc, BaseRead(p) PROVE UnpackTypeOK'
  <2>1. /\ at[p] = "base" /\ Return(p)
        /\ UNCHANGED <<response, head_hash, index, head_body, starts>>
        /\ torn' \subseteq Proc
    BY <1>5, <1>e DEF BaseRead
  <2>2. /\ pc'[p] = "idle"
        /\ \A q \in Proc \ {p} : pc'[q] = pc[q] /\ obj'[q] = obj[q]
    BY <1>a, <2>1, CallEffects
  <2>3. ASSUME NEW e \in Status, Exit(p, e), UNCHANGED parsed PROVE UnpackTypeOK'
    <3>1. /\ at' \in [Proc -> At] /\ at'[p] = "exit" /\ out' \in [Proc -> Status]
          /\ \A q \in Proc \ {p} : at'[q] = at[q]
      BY <1>e, <2>3, ExitType
    <3>2. RunTypeOK(p)'
      BY <1>c, <2>1, <2>2, <3>1 DEF RunTypeOK
    <3>3. QED
      BY <1>e, <1>f, <2>1, <2>2, <2>3, <3>1, <3>2 DEF OwnState
  <2>4. CASE /\ Legible(NextRecord(p)) /\ parsed' = [parsed EXCEPT ![p] = Rebuilt(NextRecord(p))]
             /\ GoTo(p, "parsed") /\ UNCHANGED out
    <3>1. /\ at' \in [Proc -> At] /\ at'[p] = "parsed"
          /\ \A q \in Proc \ {p} : at'[q] = at[q]
      BY <1>e, <2>4, GoToType DEF At
    <3>2. Rebuilt(NextRecord(p)) \in Object
      BY <1>a, <1>c, <2>1, <2>4, RecordAtHand DEF RunTypeOK
    <3>3. RunTypeOK(p)'
      BY <1>c, <1>e, <2>1, <2>2, <2>4, <3>1 DEF RunTypeOK, More, NextRecord
    <3>4. QED
      BY <1>e, <1>f, <2>1, <2>2, <2>4, <3>1, <3>2, <3>3 DEF OwnState
  <2>5. res[p] \in Status /\ "compression_error" \in Status /\ "pack_delta_invalid" \in Status
    BY <1>a DEF StoreTypeOK, Result, Status
  <2>6. QED
    BY <1>5, <2>3, <2>4, <2>5 DEF BaseRead
<1>6. ASSUME NEW p \in Proc, StoreParsed(p) PROVE UnpackTypeOK'
  <2>1. /\ at[p] = "parsed" /\ GoTo(p, "store") /\ CallStore(p, parsed[p])
        /\ UNCHANGED <<response, head_hash, index, parsed, head_body, out, starts, torn>>
    BY <1>6 DEF StoreParsed
  <2>2. /\ at' \in [Proc -> At] /\ at'[p] = "store"
        /\ \A q \in Proc \ {p} : at'[q] = at[q]
    BY <1>e, <2>1, GoToType DEF At
  <2>3. /\ pc'[p] # "idle" /\ obj'[p] = parsed[p]
        /\ \A q \in Proc \ {p} : pc'[q] = pc[q] /\ obj'[q] = obj[q]
    BY <1>a, <2>1, CallEffects
  <2>4. RunTypeOK(p)'
    BY <1>c, <2>1, <2>2, <2>3 DEF RunTypeOK, More, NextRecord
  <2>5. QED
    BY <1>e, <1>f, <2>1, <2>2, <2>3, <2>4 DEF OwnState
<1>7. ASSUME NEW p \in Proc, ObjectStored(p) PROVE UnpackTypeOK'
  <2>1. /\ at[p] = "store" /\ Return(p)
        /\ UNCHANGED <<response, head_hash, parsed, starts, torn>>
    BY <1>7 DEF ObjectStored
  <2>2. /\ pc'[p] = "idle"
        /\ \A q \in Proc \ {p} : pc'[q] = pc[q] /\ obj'[q] = obj[q]
    BY <1>a, <2>1, CallEffects
  <2>3. CASE Exit(p, res[p]) /\ UNCHANGED <<index, head_body>>
    <3>1. res[p] \in Status
      BY <1>a DEF StoreTypeOK, Result, Status
    <3>2. /\ at' \in [Proc -> At] /\ at'[p] = "exit" /\ out' \in [Proc -> Status]
          /\ \A q \in Proc \ {p} : at'[q] = at[q]
      BY <1>e, <2>3, <3>1, ExitType
    <3>3. RunTypeOK(p)'
      BY <1>c, <2>1, <2>2, <2>3, <3>2 DEF RunTypeOK
    <3>4. QED
      BY <1>e, <1>f, <2>1, <2>2, <2>3, <3>2, <3>3 DEF OwnState
  <2>4. CASE /\ GoTo(p, "object") /\ UNCHANGED out
             /\ index' = [index EXCEPT ![p] = @ + 1]
             /\ head_body' = [head_body EXCEPT ![p] =
                                IF obj[p] = head_hash[p] THEN obj[p].body ELSE @]
    <3>1. /\ at' \in [Proc -> At] /\ at'[p] = "object"
          /\ \A q \in Proc \ {p} : at'[q] = at[q]
      BY <1>e, <2>4, GoToType DEF At
    <3>2. obj[p] \in Object
      BY <1>a, <1>c, <2>1, RecordAtHand DEF RunTypeOK
    <3>3. index[p] + 1 \in Nat /\ index' \in [Proc -> Nat]
      BY <1>e, <2>4
    <3>4. head_body' \in [Proc -> Body]
      BY <1>e, <2>4, <3>2, UnpackAssumption
    <3>5. index[p] + 1 <= Len(response[p].records)
      <4>1. response[p] \in Response /\ index[p] < Len(response[p].records)
        BY <1>c, <2>1 DEF RunTypeOK
      <4>2. Len(response[p].records) \in Nat
        BY <4>1, UnpackAssumption
      <4>3. QED
        BY <1>e, <4>1, <4>2
    <3>6. RunTypeOK(p)'
      BY <1>c, <1>e, <2>1, <2>2, <2>4, <3>1, <3>5 DEF RunTypeOK
    <3>7. QED
      BY <1>e, <1>f, <2>1, <2>2, <2>4, <3>1, <3>3, <3>4, <3>6 DEF OwnState
  <2>5. QED
    BY <1>7, <2>3, <2>4 DEF ObjectStored
<1>8. ASSUME NEW p \in Proc, Leave(p) \/ KillUnpack(p) PROVE UnpackTypeOK'
  <2>1. /\ Reset(p)
        /\ pc'[p] = "idle"
        /\ \A q \in Proc \ {p} : pc'[q] = pc[q] /\ obj'[q] = obj[q]
    <3>1. CASE UNCHANGED storeVars /\ pc[p] = "idle"
      BY <1>8, <3>1 DEF Leave, KillUnpack, storeVars, call
    <3>2. CASE Kill(p)
      BY <1>8, <3>2, <1>a, CallEffects DEF Leave, KillUnpack
    <3>3. QED
      BY <1>8, <1>c, <3>1, <3>2 DEF Leave, KillUnpack, RunTypeOK
  <2>2. /\ at' \in [Proc -> At] /\ at'[p] = "idle"
        /\ \A q \in Proc \ {p} : at'[q] = at[q]
    BY <1>e, <2>1, GoToType DEF Reset, At
  <2>3. Types'
    BY <1>e, <2>1, <2>2, UnpackAssumption DEF Reset, Status
  <2>4. RunTypeOK(p)'
    BY <1>e, <2>1, <2>2 DEF Reset, RunTypeOK
  <2>5. \A q \in Proc \ {p} : UNCHANGED OwnState(q)
    BY <1>e, <2>1, <2>2 DEF Reset, OwnState
  <2>6. QED
    BY <1>f, <2>3, <2>4, <2>5
<1>9. ASSUME NEW p \in Proc, StoreStep(p) \/ StoreFault(p), UNCHANGED <<unpack, starts, torn>>
      PROVE  UnpackTypeOK'
  <2>1. /\ pc[p] # "idle" /\ pc'[p] # "idle" /\ obj' = obj
        /\ \A q \in Proc \ {p} : pc'[q] = pc[q]
    BY <1>a, <1>9, CallEffects
  <2>2. RunTypeOK(p)'
    BY <1>c, <1>9, <2>1 DEF unpack, RunTypeOK, More, NextRecord
  <2>3. QED
    BY <1>e, <1>f, <1>9, <2>1, <2>2 DEF unpack, OwnState
<1>10. CASE UNCHANGED vars
  <2>1. \A q \in Proc : UNCHANGED OwnState(q)
    BY <1>10 DEF vars, storeVars, call, unpack, OwnState
  <2>2. \A q \in Proc : RunTypeOK(q)'
    BY <1>c, <2>1, RunUntouched
  <2>3. QED
    BY <1>10, <1>e, <2>2 DEF vars, unpack, UnpackTypeOK
<1>11. ASSUME NEW p \in Proc, Elsewhere(p) PROVE UnpackTypeOK'
  <2>1. at[p] \in {"idle", "exit"} /\ \A q \in Proc \ {p} : pc'[q] = pc[q] /\ obj'[q] = obj[q]
    BY <1>11, ElsewhereEffects, <1>a
  <2>2. RunTypeOK(p)'
    BY <1>c, <1>11, <2>1 DEF Elsewhere, unpack, RunTypeOK
  <2>3. QED
    BY <1>e, <1>f, <1>11, <2>1, <2>2 DEF Elsewhere, unpack, OwnState
<1>12. QED
  BY <1>1, <1>2, <1>3, <1>4, <1>5, <1>6, <1>7, <1>8, <1>9, <1>10, <1>11
  DEF Next, StepOf

(* Whatever is unpacked, killed or refused, the types hold. *)
THEOREM UnpackTypeCorrect == Spec => []TypeOK
BY UnpackTypeInit, UnpackTypeStep, PTL DEF Spec

(***************************************************************************)
(* The runs that unpack are clients of the store: whatever they do is one  *)
(* of its behaviours, so every theorem of ObjectStoreProofs holds of them. *)
(***************************************************************************)
THEOREM UnpackUsesStore == Spec => StoreSpec
<1>1. Init => StoreInit
  BY DEF Init
<1>2. QED
  BY <1>1, UnpackStepsStore, UnpackTypeCorrect, PTL DEF Spec, StoreSpec

-----------------------------------------------------------------------------
(***************************************************************************)
(* SuccessMeansWholePack.  The inductive invariant says at every record    *)
(* what success says at the end: what came so far is in the store, the     *)
(* head's body is remembered if and only if the head came, and no more     *)
(* was unpacked than the count says.                                       *)
(***************************************************************************)
RunProgress(p) ==
  /\ at[p] = "idle" => head_body[p] = EmptyBody
  /\ at[p] # "idle" =>
       /\ index[p] <= Len(response[p].records)
       /\ index[p] = 0 \/ index[p] <= ObjectCount(response[p])
       /\ Delivered(response[p], index[p]) \subseteq exists
       /\ head_body[p] = IF head_hash[p] \in Delivered(response[p], index[p])
                         THEN head_hash[p].body ELSE EmptyBody
  /\ at[p] = "exit" /\ out[p] = "ok" => ~More(p) /\ head_body[p] # EmptyBody

Progress == \A p \in Proc : RunProgress(p)

LEMMA DeliveredGrows ==
  ASSUME NEW r, NEW n \in Nat
  PROVE  /\ Delivered(r, 0) = {}
         /\ Delivered(r, n + 1) = Delivered(r, n) \cup {Rebuilt(r.records[n + 1])}
<1>1. Delivered(r, 0) = {}
  BY DEF Delivered
<1>2. 1 .. n + 1 = (1 .. n) \cup {n + 1}
  OBVIOUS
<1>3. QED
  BY <1>1, <1>2, Zenon DEF Delivered

LEMMA CountIsInt ==
  ASSUME NEW r \in Response
  PROVE  /\ ObjectCount(r) \in Int /\ r.count \in Nat /\ Len(r.records) \in Nat
         /\ r.count <= MaxInt => ObjectCount(r) = r.count
         /\ r.count > MaxInt => ObjectCount(r) < 0
BY UnpackAssumption DEF ObjectCount

(* The steps of the others leave a run's progress alone. *)
LEMMA ProgressUntouched ==
  ASSUME NEW p \in Proc, RunProgress(p), UNCHANGED OwnState(p),
         head_body'[p] = head_body[p], out'[p] = out[p], exists \subseteq exists'
  PROVE  RunProgress(p)'
<1>1. Delivered(response[p], index[p])' = Delivered(response[p], index[p])
  BY DEF Delivered, OwnState
<1>2. QED
  BY <1>1 DEF RunProgress, OwnState, More

LEMMA ProgressInit == Init => Progress
BY DEF Init, StoreInit, Progress, RunProgress

LEMMA ProgressStep ==
  TypeOK /\ OkMeansStored /\ Progress /\ [Next]_vars => Progress'
<1> SUFFICES ASSUME TypeOK, OkMeansStored, Progress, [Next]_vars PROVE Progress'
  OBVIOUS
<1>a. /\ StoreTypeOK /\ UnpackTypeOK
      /\ \A q \in Proc : RunTypeOK(q) /\ RunProgress(q)
  BY DEF TypeOK, UnpackTypeOK, Progress
<1>b. exists \subseteq exists'
  BY <1>a, UnpackStepsStore, StoreOnlyGrows
<1>1. ASSUME NEW p \in Proc, NEW r \in Response, NEW h \in HeadHash, UnpackAndStore(p, r, h)
      PROVE  Progress'
  <2>1. /\ index[p] = 0 /\ head_body[p] = EmptyBody
        /\ response'[p] = r /\ index' = index /\ head_body' = head_body
    BY <1>1, <1>a DEF UnpackAndStore, UnpackTypeOK, RunTypeOK, RunProgress
  <2>2. at'[p] \in {"object", "exit"} /\ (at'[p] = "exit" => out'[p] # "ok")
    BY <1>1, <1>a DEF UnpackAndStore, UnpackTypeOK, GoTo, Exit, Rejected
  <2>3. Delivered(response[p], index[p])' = {}
    BY <2>1, DeliveredGrows
  <2>4. RunProgress(p)'
    BY <1>b, <2>1, <2>2, <2>3, CountIsInt DEF RunProgress
  <2>5. ASSUME NEW q \in Proc \ {p} PROVE RunProgress(q)'
    BY <1>1, <1>a, <1>b, <2>5, ProgressUntouched
    DEF UnpackAndStore, UnpackTypeOK, GoTo, Exit, OwnState, storeVars, call
  <2>6. QED
    BY <2>4, <2>5 DEF Progress
(* The steps of p that leave it at the same place of the pack. *)
<1>2. ASSUME NEW p \in Proc, at[p] # "idle", at'[p] # "idle",
             UNCHANGED <<response, head_hash, index, head_body>>,
             at'[p] = "exit" /\ out'[p] = "ok" => ~More(p) /\ head_body[p] # EmptyBody,
             \A q \in Proc \ {p} : UNCHANGED <<OwnState(q), out[q]>>
      PROVE  Progress'
  <2>1. Delivered(response[p], index[p])' = Delivered(response[p], index[p])
    BY <1>2 DEF Delivered
  <2>2. RunProgress(p)'
    BY <1>2, <1>a, <1>b, <2>1 DEF RunProgress, More
  <2>3. ASSUME NEW q \in Proc \ {p} PROVE RunProgress(q)'
    BY <1>2, <1>a, <1>b, ProgressUntouched
  <2>4. QED
    BY <2>2, <2>3 DEF Progress
<1>3. ASSUME NEW p \in Proc, StreamEnds(p) \/ OffsetDelta(p) PROVE Progress'
  <2>1. PICK e : Exit(p, e) /\ e # "ok"
    <3>1. CASE StreamEnds(p)
      <4>1. response[p].end \in DOMAIN EndError
        BY <1>a, <3>1, UnpackAssumption DEF StreamEnds, RunTypeOK
      <4>2. PICK e \in EndError[response[p].end] : Exit(p, e)
        BY <3>1 DEF StreamEnds
      <4>3. e # "ok"
        BY <4>1, <4>2 DEF EndError
      <4>4. QED
        BY <4>2, <4>3
    <3>2. CASE OffsetDelta(p)
      BY <3>2 DEF OffsetDelta
    <3>3. QED
      BY <1>3, <3>1, <3>2
  <2>2. /\ at[p] = "object"
        /\ UNCHANGED <<pc, obj, response, head_hash, index, parsed, head_body>>
    BY <1>3 DEF StreamEnds, OffsetDelta, AtRecord, storeVars, call
  <2>3. QED
    BY <1>2, <1>a, <2>1, <2>2 DEF Exit, GoTo, OwnState, UnpackTypeOK
<1>4. ASSUME NEW p \in Proc, UnpackEnd(p) PROVE Progress'
  <2>1. /\ at[p] = "object" /\ ~More(p)
        /\ Exit(p, IF head_body[p] = EmptyBody THEN "pack_head_not_found" ELSE "ok")
        /\ UNCHANGED <<pc, obj, response, head_hash, index, parsed, head_body>>
    BY <1>4 DEF UnpackEnd, storeVars, call
  <2>2. QED
    BY <1>2, <1>a, <2>1 DEF Exit, GoTo, OwnState, UnpackTypeOK
<1>5. ASSUME NEW p \in Proc, RegularObject(p) PROVE Progress'
  <2>1. /\ at[p] = "object"
        /\ UNCHANGED <<pc, obj, response, head_hash, index, head_body>>
        /\ \A q \in Proc \ {p} : parsed'[q] = parsed[q]
        /\ \/ Exit(p, "compression_error")
           \/ GoTo(p, "parsed") /\ UNCHANGED out
    BY <1>5, <1>a DEF RegularObject, AtRecord, storeVars, call, UnpackTypeOK
  <2>2. QED
    BY <1>2, <1>a, <2>1 DEF Exit, GoTo, OwnState, UnpackTypeOK
<1>6. ASSUME NEW p \in Proc, ReferenceDelta(p) PROVE Progress'
  <2>1. /\ at[p] = "object"
        /\ UNCHANGED <<response, head_hash, index, parsed, head_body>>
        /\ \/ Exit(p, "pack_delta_invalid")
           \/ GoTo(p, "base") /\ UNCHANGED out
        /\ UNCHANGED storeVars \/ CallRead(p, NextRecord(p).base)
    BY <1>6 DEF ReferenceDelta, AtRecord
  <2>2. \A q \in Proc \ {p} : pc'[q] = pc[q] /\ obj'[q] = obj[q]
    BY <1>a, <2>1, CallEffects DEF storeVars, call
  <2>3. QED
    BY <1>2, <1>a, <2>1, <2>2 DEF Exit, GoTo, OwnState, UnpackTypeOK
<1>7. ASSUME NEW p \in Proc, BaseRead(p) PROVE Progress'
  <2>1. /\ at[p] = "base" /\ Return(p)
        /\ UNCHANGED <<response, head_hash, index, head_body>>
        /\ \A q \in Proc \ {p} : parsed'[q] = parsed[q]
        /\ \/ \E e : e # "ok" /\ Exit(p, e)
           \/ GoTo(p, "parsed") /\ UNCHANGED out
    BY <1>7, <1>a DEF BaseRead, UnpackTypeOK
  <2>2. \A q \in Proc \ {p} : pc'[q] = pc[q] /\ obj'[q] = obj[q]
    BY <1>a, <2>1, CallEffects
  <2>3. QED
    BY <1>2, <1>a, <2>1, <2>2 DEF Exit, GoTo, OwnState, UnpackTypeOK
<1>8. ASSUME NEW p \in Proc, StoreParsed(p) PROVE Progress'
  <2>1. /\ at[p] = "parsed" /\ CallStore(p, parsed[p]) /\ GoTo(p, "store")
        /\ UNCHANGED <<response, head_hash, index, parsed, head_body, out>>
    BY <1>8 DEF StoreParsed
  <2>2. \A q \in Proc \ {p} : pc'[q] = pc[q] /\ obj'[q] = obj[q]
    BY <1>a, <2>1, CallEffects
  <2>3. QED
    BY <1>2, <1>a, <2>1, <2>2 DEF GoTo, OwnState, UnpackTypeOK
(* The one step that goes on to the next record. *)
<1>9. ASSUME NEW p \in Proc, ObjectStored(p) PROVE Progress'
  <2>1. /\ at[p] = "store" /\ Return(p) /\ pc[p] = "done"
        /\ UNCHANGED <<response, head_hash, parsed>>
    BY <1>9 DEF ObjectStored, Return
  <2>2. \A q \in Proc \ {p} : pc'[q] = pc[q] /\ obj'[q] = obj[q]
    BY <1>a, <2>1, CallEffects
  <2>3. CASE res[p] # "ok" /\ Exit(p, res[p]) /\ UNCHANGED <<index, head_body>>
    BY <1>2, <1>a, <2>1, <2>2, <2>3 DEF Exit, GoTo, OwnState, UnpackTypeOK
  <2>4. CASE /\ res[p] = "ok" /\ GoTo(p, "object") /\ UNCHANGED out
             /\ index' = [index EXCEPT ![p] = @ + 1]
             /\ head_body' = [head_body EXCEPT ![p] =
                                IF obj[p] = head_hash[p] THEN obj[p].body ELSE @]
    <3> DEFINE r == response[p]
               n == index[p]
    <3>1. /\ at'[p] = "object" /\ index'[p] = n + 1 /\ n \in Nat
          /\ \A q \in Proc \ {p} : /\ at'[q] = at[q] /\ index'[q] = index[q]
                                   /\ head_body'[q] = head_body[q]
      BY <1>a, <2>4 DEF GoTo, UnpackTypeOK
    <3>2. /\ r \in Response /\ n < ObjectCount(r) /\ n < Len(r.records)
          /\ obj[p] = Rebuilt(r.records[n + 1])
      BY <1>a, <2>1 DEF RunTypeOK, More, NextRecord
    <3>3. n + 1 <= ObjectCount(r) /\ n + 1 <= Len(r.records)
      BY <3>1, <3>2, CountIsInt
    <3>4. /\ Delivered(r, n + 1) = Delivered(r, n) \cup {obj[p]}
          /\ Delivered(response[p], index[p])' = Delivered(r, n + 1)
      BY <2>1, <3>1, <3>2, DeliveredGrows DEF Delivered
    <3>5. obj[p] \in exists
      BY <2>1, <2>4 DEF OkMeansStored
    <3>6. head_body'[p] = IF head_hash[p] \in Delivered(r, n + 1)
                          THEN head_hash[p].body ELSE EmptyBody
      BY <1>a, <2>1, <2>4, <3>4 DEF RunProgress, UnpackTypeOK
    <3>7. RunProgress(p)'
      BY <1>a, <1>b, <2>1, <3>1, <3>3, <3>4, <3>5, <3>6 DEF RunProgress
    <3>8. ASSUME NEW q \in Proc \ {p} PROVE RunProgress(q)'
      BY <1>a, <1>b, <2>1, <2>2, <2>4, <3>1, <3>8, ProgressUntouched DEF OwnState
    <3>9. QED
      BY <3>7, <3>8 DEF Progress
  <2>5. QED
    BY <1>9, <2>3, <2>4 DEF ObjectStored
<1>10. ASSUME NEW p \in Proc, Leave(p) \/ KillUnpack(p) PROVE Progress'
  <2>1. /\ Reset(p)
        /\ \A q \in Proc \ {p} : pc'[q] = pc[q] /\ obj'[q] = obj[q]
    BY <1>10, <1>a, CallEffects DEF Leave, KillUnpack, storeVars, call
  <2>2. RunProgress(p)'
    BY <1>a, <2>1 DEF Reset, GoTo, UnpackTypeOK, RunProgress
  <2>3. ASSUME NEW q \in Proc \ {p} PROVE RunProgress(q)'
    BY <1>a, <1>b, <2>1, <2>3, ProgressUntouched DEF Reset, GoTo, UnpackTypeOK, OwnState
  <2>4. QED
    BY <2>2, <2>3 DEF Progress
<1>11. ASSUME NEW p \in Proc, StoreStep(p) \/ StoreFault(p), UNCHANGED <<unpack, starts, torn>>
      PROVE  Progress'
  <2>1. \A q \in Proc \ {p} : pc'[q] = pc[q] /\ obj'[q] = obj[q]
    BY <1>a, <1>11, CallEffects
  <2>2. CASE at[p] # "idle"
    BY <1>2, <1>a, <1>11, <2>1, <2>2 DEF unpack, OwnState, RunProgress
  <2>3. CASE at[p] = "idle"
    <3>1. RunProgress(p)'
      BY <1>a, <1>11, <2>3 DEF unpack, RunProgress
    <3>2. ASSUME NEW q \in Proc \ {p} PROVE RunProgress(q)'
      BY <1>a, <1>b, <1>11, <2>1, <3>2, ProgressUntouched DEF unpack, OwnState
    <3>3. QED
      BY <3>1, <3>2 DEF Progress
  <2>4. QED
    BY <2>2, <2>3
<1>12. CASE UNCHANGED vars
  BY <1>12, <1>a, <1>b, ProgressUntouched DEF vars, unpack, storeVars, call, OwnState, Progress
<1>13. ASSUME NEW p \in Proc, Elsewhere(p) PROVE Progress'
  <2>1. /\ UNCHANGED <<at, response, head_hash, index, parsed, head_body, out>>
        /\ at[p] \in {"idle", "exit"}
        /\ \A q \in Proc \ {p} : pc'[q] = pc[q] /\ obj'[q] = obj[q]
    BY <1>13, ElsewhereEffects, <1>a DEF Elsewhere, unpack
  <2>2. CASE at[p] = "exit"
    BY <1>2, <1>a, <2>1, <2>2 DEF OwnState, RunProgress
  <2>3. CASE at[p] = "idle"
    <3>1. RunProgress(p)'
      BY <1>a, <2>1, <2>3 DEF RunProgress
    <3>2. ASSUME NEW q \in Proc \ {p} PROVE RunProgress(q)'
      BY <1>a, <1>b, <2>1, <3>2, ProgressUntouched DEF OwnState
    <3>3. QED
      BY <3>1, <3>2 DEF Progress
  <2>4. QED
    BY <2>1, <2>2, <2>3
<1>14. QED
  BY <1>1, <1>3, <1>4, <1>5, <1>6, <1>7, <1>8, <1>9, <1>10, <1>11, <1>12, <1>13
  DEF Next, StepOf

(* What a run has done when it reports success. *)
LEMMA ProgressMeansWhole == TypeOK /\ Progress => SuccessMeansWholePack
<1> SUFFICES ASSUME TypeOK, Progress, NEW p \in Proc, at[p] = "exit", out[p] = "ok"
             PROVE  LET r == response[p] IN
                    /\ r.count \in 1 .. Len(r.records)
                    /\ Delivered(r, r.count) \subseteq exists
                    /\ head_hash[p] \in Delivered(r, r.count)
                    /\ head_body[p] = head_hash[p].body
  BY DEF SuccessMeansWholePack
<1> DEFINE r == response[p]
           n == index[p]
<1>1. /\ r \in Response /\ n \in Nat
      /\ RunProgress(p) /\ ~(n < ObjectCount(r)) /\ head_body[p] # EmptyBody
  BY DEF TypeOK, UnpackTypeOK, RunTypeOK, Progress, RunProgress, More
<1>2. head_hash[p] \in Delivered(r, n) /\ head_body[p] = head_hash[p].body
  BY <1>1 DEF RunProgress
<1>3. n # 0
  BY <1>2, DeliveredGrows
<1>4. n <= ObjectCount(r) /\ n <= Len(r.records)
  BY <1>1, <1>3 DEF RunProgress
<1>5. r.count = n
  BY <1>1, <1>3, <1>4, CountIsInt, UnpackAssumption
<1>6. n \in 1 .. Len(r.records)
  BY <1>1, <1>3, <1>4, CountIsInt
<1>7. QED
  BY <1>1, <1>2, <1>5, <1>6 DEF RunProgress

(* The types, what calls answer, and how far each run is. *)
UnpackInv == TypeOK /\ OpenFilesExist /\ OkMeansStored /\ Progress

LEMMA UnpackInvInit == Init => UnpackInv
<1> SUFFICES ASSUME Init PROVE UnpackInv
  OBVIOUS
<1>1. OkMeansStored
  BY DEF Init, StoreInit, OkMeansStored
<1>2. QED
  BY <1>1, UnpackTypeInit, OpenFilesInit, ProgressInit DEF UnpackInv, Init

LEMMA UnpackInvStep == UnpackInv /\ [Next]_vars => UnpackInv'
BY UnpackTypeStep, UnpackStepsStore, OpenFilesStep, OkMeansStoredStep, ProgressStep
DEF UnpackInv, TypeOK

(* The whole pack is stored and the head is the one asked for. *)
THEOREM UnpackSuccessIsWhole == Spec => []SuccessMeansWholePack
<1>1. UnpackInv => SuccessMeansWholePack
  BY ProgressMeansWhole DEF UnpackInv
<1>2. QED
  BY <1>1, UnpackInvInit, UnpackInvStep, PTL DEF Spec

-----------------------------------------------------------------------------
(***************************************************************************)
(* SoundPackUnpacks.  While a run works on a sound pack, its store calls   *)
(* can only end well, be refused by the operating system, or, when a base  *)
(* is read, find it torn: the base came before in the pack, so Progress    *)
(* says that it is in the store.                                           *)
(***************************************************************************)
RunSound(p) ==
  Sound(response[p], head_hash[p]) =>
    /\ at[p] = "base" =>
         /\ pc[p] \in {"find", "read", "done"}
         /\ pc[p] = "done" => \/ res[p] \in {"ok"} \cup Torn
                              \/ CanFail /\ res[p] = "io_error"
    /\ at[p] = "store" =>
         /\ pc[p] \in {"check", "open", "write", "done"}
         /\ pc[p] = "done" => \/ res[p] = "ok"
                              \/ CanFail /\ res[p] = "io_error"
    /\ at[p] = "exit" => \/ out[p] = "ok"
                         \/ CanFail /\ out[p] = "io_error"
                         \/ p \in torn /\ out[p] \in Torn

AllSound == \A p \in Proc : at[p] # "idle" => RunSound(p)

LEMMA ReadAnswers ==
  ASSUME StoreTypeOK, NEW p \in Proc, StoreStep(p) \/ StoreFault(p),
         pc[p] \in {"find", "read", "done"}, obj[p] \in exists
  PROVE  /\ pc'[p] \in {"find", "read", "done"}
         /\ pc'[p] = "done" => \/ res'[p] \in {"ok"} \cup Torn
                               \/ CanFail /\ res'[p] = "io_error"
<1> USE DEF StoreTypeOK, Finish, Goto
<1>1. obj[p] \in Object /\ obj[p] # BadHash
  BY StoreAssumption
<1>2. CASE StoreFound(p) \/ StoreMissing(p) \/ StoreOpen(p) \/ StoreWrite(p) \/ StoreClose(p)
  BY <1>2 DEF StoreFound, StoreMissing, StoreOpen, StoreWrite, StoreClose
<1>3. CASE ReadRejected(p) \/ ReadMissing(p) \/ WriteRefused(p)
  BY <1>1, <1>3 DEF ReadRejected, ReadMissing, WriteRefused
<1>4. CASE ReadOpen(p) \/ ReadPiece(p) \/ CallRefused(p)
  BY <1>4 DEF ReadOpen, ReadPiece, CallRefused
<1>5. CASE ReadEnd(p)
  <2>1. ExtractBody(ZlibDecompressString(p)) \in {"ok"} \cup Torn
    BY DEF ExtractBody, ZlibDecompressString, Torn
  <2>2. QED
    BY <1>5, <2>1 DEF ReadEnd
<1>6. QED
  BY <1>2, <1>3, <1>4, <1>5 DEF StoreStep, StoreFault

LEMMA StoreAnswers ==
  ASSUME StoreTypeOK, NEW p \in Proc, StoreStep(p) \/ StoreFault(p),
         pc[p] \in {"check", "open", "write", "done"}
  PROVE  /\ pc'[p] \in {"check", "open", "write", "done"}
         /\ pc'[p] = "done" => \/ res'[p] = "ok"
                               \/ CanFail /\ res'[p] = "io_error"
<1> USE DEF StoreTypeOK, Finish, Goto
<1>1. CASE StoreFound(p) \/ StoreMissing(p) \/ StoreOpen(p) \/ StoreWrite(p) \/ StoreClose(p)
  BY <1>1 DEF StoreFound, StoreMissing, StoreOpen, StoreWrite, StoreClose
<1>2. CASE ReadRejected(p) \/ ReadMissing(p) \/ ReadOpen(p) \/ ReadPiece(p) \/ ReadEnd(p)
  BY <1>2 DEF ReadRejected, ReadMissing, ReadOpen, ReadPiece, ReadEnd
<1>3. CASE WriteRefused(p) \/ CallRefused(p)
  BY <1>3 DEF WriteRefused, CallRefused
<1>4. QED
  BY <1>1, <1>2, <1>3 DEF StoreStep, StoreFault

(* A call answers its own run only. *)
LEMMA OthersKeepAnswers ==
  ASSUME StoreTypeOK, NEW p \in Proc,
         \/ \E o : CallStore(p, o) \/ CallRead(p, o)
         \/ Return(p) \/ Kill(p) \/ StoreStep(p) \/ StoreFault(p)
  PROVE  \A q \in Proc \ {p} : pc'[q] = pc[q] /\ obj'[q] = obj[q] /\ res'[q] = res[q]
<1> USE DEF StoreTypeOK, Finish, Goto
<1>1. \A q \in Proc \ {p} : pc'[q] = pc[q] /\ obj'[q] = obj[q]
  BY CallEffects
<1>2. CASE \E o : CallStore(p, o) \/ CallRead(p, o)
  BY <1>1, <1>2 DEF CallStore, CallRead
<1>3. CASE Return(p) \/ Kill(p)
  BY <1>1, <1>3 DEF Return, Kill, Hang
<1>4. CASE StoreFound(p) \/ StoreMissing(p) \/ StoreOpen(p) \/ StoreWrite(p) \/ StoreClose(p)
  BY <1>1, <1>4 DEF StoreFound, StoreMissing, StoreOpen, StoreWrite, StoreClose
<1>5. CASE ReadRejected(p) \/ ReadMissing(p) \/ ReadOpen(p) \/ ReadPiece(p) \/ ReadEnd(p)
  BY <1>1, <1>5 DEF ReadRejected, ReadMissing, ReadOpen, ReadPiece, ReadEnd
<1>6. CASE WriteRefused(p) \/ CallRefused(p)
  BY <1>1, <1>6 DEF WriteRefused, CallRefused
<1>7. QED
  BY <1>2, <1>3, <1>4, <1>5, <1>6 DEF StoreStep, StoreFault

(* What a sound pack is, one record at a time. *)
LEMMA SoundRecords ==
  ASSUME NEW r \in Response, NEW h, Sound(r, h)
  PROVE  /\ r.signature /\ r.header /\ ObjectCount(r) = Len(r.records)
         /\ \A i \in 1 .. Len(r.records) : Legible(r.records[i])
         /\ h \in Delivered(r, Len(r.records)) /\ h.body # EmptyBody
         /\ \A i \in 1 .. Len(r.records) :
              r.records[i].type = 7 =>
                /\ r.records[i].base \in Delivered(r, i - 1)
                /\ r.records[i].base \in Object
<1>1. /\ r.signature /\ r.header /\ r.count = Len(r.records) /\ Len(r.records) <= MaxInt
      /\ \A i \in 1 .. Len(r.records) :
         /\ Legible(r.records[i])
         /\ r.records[i].type = 7 => r.records[i].base \in Delivered(r, i - 1)
      /\ h \in Delivered(r, Len(r.records)) /\ h.body # EmptyBody
  BY DEF Sound
<1>2. ObjectCount(r) = Len(r.records)
  BY <1>1, CountIsInt
<1>3. ASSUME NEW i \in 1 .. Len(r.records), r.records[i].base \in Delivered(r, i - 1)
      PROVE  r.records[i].base \in Object
  <2>1. PICK j \in 1 .. i - 1 : r.records[i].base = Rebuilt(r.records[j])
    BY <1>3 DEF Delivered
  <2>2. j \in 1 .. Len(r.records)
    BY CountIsInt
  <2>3. \A k \in 1 .. Len(r.records) : Legible(r.records[k]) => Rebuilt(r.records[k]) \in Object
    BY UnpackAssumption
  <2>4. QED
    BY <1>1, <2>1, <2>2, <2>3
<1>4. \A i \in 1 .. Len(r.records) :
        r.records[i].type = 7 => /\ r.records[i].base \in Delivered(r, i - 1)
                                 /\ r.records[i].base \in Object
  BY <1>1, <1>3
<1>5. QED
  BY <1>1, <1>2, <1>4

LEMMA SoundUntouched ==
  ASSUME NEW p \in Proc, RunSound(p), UNCHANGED <<OwnState(p), res[p], out[p]>>,
         p \in torn => p \in torn'
  PROVE  RunSound(p)'
BY DEF RunSound, OwnState

LEMMA SoundStep ==
  UnpackInv /\ TornReadMeansRaceOrCrash /\ AllSound /\ [Next]_vars => AllSound'
<1> SUFFICES ASSUME UnpackInv, TornReadMeansRaceOrCrash, AllSound, [Next]_vars PROVE AllSound'
  OBVIOUS
<1>a. /\ StoreTypeOK /\ UnpackTypeOK
      /\ \A q \in Proc : RunTypeOK(q) /\ RunProgress(q)
  BY DEF UnpackInv, TypeOK, UnpackTypeOK, Progress
<1>b. \A q \in Proc : at[q] # "idle" => RunSound(q)
  BY DEF AllSound
(* What is to be shown of a step of p: it ends well, or goes on well. *)
<1>c. ASSUME NEW p \in Proc,
             \A q \in Proc \ {p} : /\ UNCHANGED <<OwnState(q), res[q], out[q]>>
                                   /\ q \in torn => q \in torn',
             at'[p] # "idle" => RunSound(p)'
      PROVE  AllSound'
  <2>1. ASSUME NEW q \in Proc \ {p}, at'[q] # "idle" PROVE RunSound(q)'
    BY <1>b, <1>c, <2>1, SoundUntouched DEF OwnState
  <2>2. QED
    BY <1>c, <2>1 DEF AllSound
(* The record at hand is sound. *)
<1>d. ASSUME NEW p \in Proc, Sound(response[p], head_hash[p]), at[p] \notin {"idle", "exit"}
      PROVE  /\ More(p) <=> index[p] < Len(response[p].records)
             /\ More(p) => /\ Legible(NextRecord(p))
                           /\ NextRecord(p).type = 7 => NextRecord(p).base \in exists \cap Object
             /\ ~More(p) => head_body[p] # EmptyBody
  <2> DEFINE r == response[p]
             n == index[p]
  <2>1. /\ r \in Response /\ n \in Nat /\ n <= Len(r.records) /\ Len(r.records) \in Nat
        /\ Delivered(r, n) \subseteq exists
    BY <1>a, <1>d, CountIsInt DEF UnpackTypeOK, RunTypeOK, RunProgress
  <2>2. More(p) <=> n < Len(r.records)
    BY <1>d, <2>1, SoundRecords DEF More
  <2>3. ASSUME More(p)
        PROVE  /\ Legible(NextRecord(p))
               /\ NextRecord(p).type = 7 => NextRecord(p).base \in exists \cap Object
    <3>1. n + 1 \in 1 .. Len(r.records) /\ (n + 1) - 1 = n
      BY <2>1, <2>2, <2>3
    <3>2. QED
      BY <1>d, <2>1, <3>1, SoundRecords DEF NextRecord
  <2>4. ASSUME ~More(p) PROVE head_body[p] # EmptyBody
    <3>1. n = Len(r.records)
      BY <2>1, <2>2, <2>4
    <3>2. QED
      BY <1>a, <1>d, <2>1, <3>1, SoundRecords DEF RunProgress
  <2>5. QED
    BY <2>2, <2>3, <2>4
(* Steps after which p waits for no answer and has not ended. *)
<1>e. ASSUME NEW p \in Proc, at'[p] \notin {"base", "store", "exit"} PROVE RunSound(p)'
  BY <1>e DEF RunSound
<1>1. ASSUME NEW p \in Proc, NEW r \in Response, NEW h \in HeadHash, UnpackAndStore(p, r, h)
      PROVE  AllSound'
  <2>1. /\ response'[p] = r /\ head_hash'[p] = h
        /\ UNCHANGED <<pc, obj, res, index, parsed, torn>>
        /\ \A q \in Proc \ {p} : UNCHANGED <<OwnState(q), res[q], out[q]>>
    BY <1>1, <1>a
    DEF UnpackAndStore, UnpackTypeOK, GoTo, Exit, OwnState, storeVars, call
  <2>2. CASE Rejected(r) = "none" /\ GoTo(p, "object")
    BY <1>a, <1>c, <1>e, <2>1, <2>2 DEF GoTo, UnpackTypeOK
  <2>3. CASE Rejected(r) # "none" /\ Exit(p, Rejected(r))
    <3>1. ~Sound(r, h)
      BY <2>3, SoundRecords DEF Rejected
    <3>2. QED
      BY <1>c, <2>1, <3>1 DEF RunSound
  <2>4. QED
    BY <1>1, <2>2, <2>3 DEF UnpackAndStore
<1>2. ASSUME NEW p \in Proc, StreamEnds(p) \/ OffsetDelta(p) PROVE AllSound'
  <2>1. /\ at[p] = "object" /\ More(p)
        /\ UNCHANGED <<pc, obj, res, response, head_hash, index, parsed, torn>>
        /\ \E e : Exit(p, e)
    BY <1>2 DEF StreamEnds, OffsetDelta, AtRecord, storeVars, call
  <2>2. \A q \in Proc \ {p} : UNCHANGED <<OwnState(q), res[q], out[q]>>
    BY <1>a, <2>1 DEF UnpackTypeOK, GoTo, Exit, OwnState
  <2>3. ~Sound(response[p], head_hash[p])
    <3>1. CASE StreamEnds(p)
      <4>1. /\ response[p] \in Response /\ index[p] \in Nat
            /\ index[p] >= Len(response[p].records)
        BY <1>a, <3>1 DEF StreamEnds, UnpackTypeOK, RunTypeOK
      <4>2. QED
        BY <1>d, <2>1, <4>1, CountIsInt
    <3>2. CASE OffsetDelta(p)
      BY <1>d, <2>1, <3>2 DEF OffsetDelta, Legible
    <3>3. QED
      BY <1>2, <3>1, <3>2
  <2>4. QED
    BY <1>c, <2>1, <2>2, <2>3 DEF RunSound
<1>3. ASSUME NEW p \in Proc, UnpackEnd(p) PROVE AllSound'
  <2>1. /\ at[p] = "object" /\ ~More(p)
        /\ Exit(p, IF head_body[p] = EmptyBody THEN "pack_head_not_found" ELSE "ok")
        /\ UNCHANGED <<pc, obj, res, response, head_hash, index, parsed, torn>>
    BY <1>3 DEF UnpackEnd, storeVars, call
  <2>2. \A q \in Proc \ {p} : UNCHANGED <<OwnState(q), res[q], out[q]>>
    BY <1>a, <2>1 DEF UnpackTypeOK, GoTo, Exit, OwnState
  <2>3. Sound(response[p], head_hash[p]) => out'[p] = "ok"
    BY <1>a, <1>d, <2>1 DEF UnpackTypeOK, Exit
  <2>4. at'[p] = "exit"
    BY <1>a, <2>1 DEF UnpackTypeOK, Exit, GoTo
  <2>5. QED
    BY <1>c, <2>1, <2>2, <2>3, <2>4 DEF RunSound
<1>4. ASSUME NEW p \in Proc, RegularObject(p) PROVE AllSound'
  <2>1. /\ at[p] = "object" /\ More(p)
        /\ UNCHANGED <<pc, obj, res, response, head_hash, index, torn>>
        /\ \A q \in Proc \ {p} : parsed'[q] = parsed[q]
        /\ \/ ~Legible(NextRecord(p)) /\ Exit(p, "compression_error")
           \/ GoTo(p, "parsed") /\ UNCHANGED out
    BY <1>4, <1>a DEF RegularObject, AtRecord, storeVars, call, UnpackTypeOK
  <2>2. \A q \in Proc \ {p} : UNCHANGED <<OwnState(q), res[q], out[q]>>
    BY <1>a, <2>1 DEF UnpackTypeOK, GoTo, Exit, OwnState
  <2>3. CASE ~Legible(NextRecord(p))
    BY <1>c, <1>d, <2>1, <2>2, <2>3 DEF RunSound
  <2>4. CASE GoTo(p, "parsed")
    BY <1>a, <1>c, <1>e, <2>1, <2>2, <2>4 DEF GoTo, UnpackTypeOK
  <2>5. QED
    BY <2>1, <2>3, <2>4
<1>5. ASSUME NEW p \in Proc, ReferenceDelta(p) PROVE AllSound'
  <2>1. /\ at[p] = "object" /\ More(p) /\ NextRecord(p).type = 7
        /\ UNCHANGED <<response, head_hash, index, parsed, torn>>
    BY <1>5 DEF ReferenceDelta, AtRecord
  <2>2. CASE NextRecord(p).base = None /\ Exit(p, "pack_delta_invalid") /\ UNCHANGED storeVars
    <3>1. ~Sound(response[p], head_hash[p])
      BY <1>d, <2>1, <2>2, StoreAssumption
    <3>2. QED
      BY <1>a, <1>c, <2>1, <2>2, <3>1
      DEF RunSound, UnpackTypeOK, GoTo, Exit, OwnState, storeVars, call
  <2>3. CASE GoTo(p, "base") /\ CallRead(p, NextRecord(p).base) /\ UNCHANGED out
    <3>1. \A q \in Proc \ {p} : UNCHANGED <<OwnState(q), res[q], out[q]>>
      BY <1>a, <2>1, <2>3, OthersKeepAnswers DEF UnpackTypeOK, GoTo, OwnState
    <3>2. at'[p] = "base" /\ pc'[p] = "find"
      BY <1>a, <2>3 DEF GoTo, UnpackTypeOK, CallRead, Goto, StoreTypeOK
    <3>3. QED
      BY <1>c, <2>1, <3>1, <3>2 DEF RunSound
  <2>4. QED
    BY <1>5, <2>2, <2>3 DEF ReferenceDelta
<1>6. ASSUME NEW p \in Proc, BaseRead(p) PROVE AllSound'
  <2>1. /\ at[p] = "base" /\ Return(p) /\ pc[p] = "done"
        /\ UNCHANGED <<response, head_hash, index>>
        /\ \A q \in Proc \ {p} : parsed'[q] = parsed[q]
        /\ torn \subseteq torn' /\ (p \in raced \/ obj[p] \in damaged => p \in torn')
    BY <1>6, <1>a DEF BaseRead, Return, UnpackTypeOK
  <2>2. /\ \/ res[p] # "ok" /\ Exit(p, res[p])
           \/ res[p] = "ok" /\ ~Legible(NextRecord(p)) /\ \E e : Exit(p, e)
           \/ GoTo(p, "parsed") /\ UNCHANGED out
    BY <1>6 DEF BaseRead
  <2>3. \A q \in Proc \ {p} : UNCHANGED <<OwnState(q), res[q], out[q]>>
    BY <1>a, <2>1, <2>2, OthersKeepAnswers DEF UnpackTypeOK, GoTo, Exit, OwnState
  <2>4. CASE res[p] # "ok" /\ Exit(p, res[p])
    <3>1. at'[p] = "exit" /\ out'[p] = res[p]
      BY <1>a, <2>4 DEF UnpackTypeOK, GoTo, Exit
    <3>2. Sound(response[p], head_hash[p]) => \/ res[p] \in Torn
                                              \/ CanFail /\ res[p] = "io_error"
      BY <1>b, <2>1, <2>4 DEF RunSound
    <3>3. res[p] \in Torn => p \in torn'
      BY <2>1 DEF TornReadMeansRaceOrCrash
    <3>4. QED
      BY <1>c, <2>1, <2>3, <3>1, <3>2, <3>3 DEF RunSound
  <2>5. CASE ~Legible(NextRecord(p)) /\ \E e : Exit(p, e)
    <3>1. More(p)
      BY <1>a, <2>1 DEF RunTypeOK
    <3>2. QED
      BY <1>c, <1>d, <2>1, <2>3, <2>5, <3>1 DEF RunSound
  <2>6. CASE GoTo(p, "parsed")
    BY <1>a, <1>c, <1>e, <2>1, <2>3, <2>6 DEF GoTo, UnpackTypeOK
  <2>7. QED
    BY <2>2, <2>4, <2>5, <2>6
<1>7. ASSUME NEW p \in Proc, StoreParsed(p) PROVE AllSound'
  <2>1. /\ GoTo(p, "store") /\ CallStore(p, parsed[p])
        /\ UNCHANGED <<response, head_hash, index, parsed, out, torn>>
    BY <1>7 DEF StoreParsed
  <2>2. \A q \in Proc \ {p} : UNCHANGED <<OwnState(q), res[q], out[q]>>
    BY <1>a, <2>1, OthersKeepAnswers DEF UnpackTypeOK, GoTo, OwnState
  <2>3. at'[p] = "store" /\ pc'[p] = "check"
    BY <1>a, <2>1 DEF GoTo, UnpackTypeOK, CallStore, Goto, StoreTypeOK
  <2>4. QED
    BY <1>c, <2>1, <2>2, <2>3 DEF RunSound
<1>8. ASSUME NEW p \in Proc, ObjectStored(p) PROVE AllSound'
  <2>1. /\ at[p] = "store" /\ Return(p) /\ pc[p] = "done"
        /\ UNCHANGED <<response, head_hash, parsed, torn>>
        /\ \A q \in Proc \ {p} : index'[q] = index[q]
    BY <1>8, <1>a DEF ObjectStored, Return, UnpackTypeOK
  <2>2. \/ res[p] # "ok" /\ Exit(p, res[p])
        \/ GoTo(p, "object") /\ UNCHANGED out
    BY <1>8 DEF ObjectStored
  <2>3. \A q \in Proc \ {p} : UNCHANGED <<OwnState(q), res[q], out[q]>>
    BY <1>a, <2>1, <2>2, OthersKeepAnswers DEF UnpackTypeOK, GoTo, Exit, OwnState
  <2>4. CASE res[p] # "ok" /\ Exit(p, res[p])
    <3>1. at'[p] = "exit" /\ out'[p] = res[p]
      BY <1>a, <2>4 DEF UnpackTypeOK, GoTo, Exit
    <3>2. Sound(response[p], head_hash[p]) => CanFail /\ res[p] = "io_error"
      BY <1>b, <2>1, <2>4 DEF RunSound
    <3>3. QED
      BY <1>c, <2>1, <2>3, <3>1, <3>2 DEF RunSound
  <2>5. CASE GoTo(p, "object")
    BY <1>a, <1>c, <1>e, <2>1, <2>3, <2>5 DEF GoTo, UnpackTypeOK
  <2>6. QED
    BY <2>2, <2>4, <2>5
<1>9. ASSUME NEW p \in Proc, Leave(p) \/ KillUnpack(p) PROVE AllSound'
  <2>1. /\ Reset(p)
        /\ \A q \in Proc \ {p} : pc'[q] = pc[q] /\ obj'[q] = obj[q] /\ res'[q] = res[q]
    BY <1>9, <1>a, OthersKeepAnswers DEF Leave, KillUnpack, storeVars, call
  <2>2. /\ at'[p] = "idle"
        /\ \A q \in Proc \ {p} : /\ UNCHANGED <<OwnState(q), res[q], out[q]>>
                                 /\ q \in torn => q \in torn'
    BY <1>a, <2>1 DEF Reset, GoTo, UnpackTypeOK, OwnState
  <2>3. QED
    BY <1>c, <2>2
<1>10. ASSUME NEW p \in Proc, StoreStep(p) \/ StoreFault(p), UNCHANGED <<unpack, starts, torn>>
       PROVE  AllSound'
  <2>1. \A q \in Proc \ {p} : UNCHANGED <<OwnState(q), res[q], out[q]>>
    BY <1>a, <1>10, OthersKeepAnswers DEF unpack, OwnState
  <2>2. at[p] \in {"idle", "base", "store", "exit"}
    <3>1. pc[p] # "idle"
      BY <1>a, <1>10, CallEffects
    <3>2. QED
      BY <1>a, <3>1 DEF RunTypeOK, UnpackTypeOK, At
  <2>3. ASSUME at'[p] # "idle" PROVE RunSound(p)'
    <3>1. SUFFICES ASSUME Sound(response[p], head_hash[p]) PROVE RunSound(p)'
      BY <1>10 DEF unpack, RunSound
    <3>5. CASE at[p] = "exit"
      BY <1>b, <1>10, <3>1, <3>5 DEF unpack, RunSound
    <3>2. CASE at[p] = "base"
      <4>1. obj[p] \in exists
        BY <1>a, <1>d, <3>1, <3>2 DEF RunTypeOK
      <4>2. pc[p] \in {"find", "read", "done"}
        BY <1>b, <3>1, <3>2 DEF RunSound
      <4>3. QED
        BY <1>a, <1>10, <3>2, <4>1, <4>2, ReadAnswers DEF unpack, RunSound
    <3>3. CASE at[p] = "store"
      <4>1. pc[p] \in {"check", "open", "write", "done"}
        BY <1>b, <3>1, <3>3 DEF RunSound
      <4>2. QED
        BY <1>a, <1>10, <3>3, <4>1, StoreAnswers DEF unpack, RunSound
    <3>6. QED
      BY <1>10, <2>2, <2>3, <3>2, <3>3, <3>5 DEF unpack
  <2>4. QED
    BY <1>c, <1>10, <2>1, <2>3
<1>11. CASE UNCHANGED vars
  BY <1>11, <1>b, SoundUntouched DEF vars, unpack, storeVars, call, OwnState, AllSound
<1>12. ASSUME NEW p \in Proc, Elsewhere(p) PROVE AllSound'
  <2>1. /\ UNCHANGED <<at, response, head_hash, index, parsed, out, torn>>
        /\ at[p] \in {"idle", "exit"}
    BY <1>12 DEF Elsewhere, unpack
  <2>2. \A q \in Proc \ {p} : UNCHANGED <<OwnState(q), res[q], out[q]>>
    BY <1>12, <1>a, <2>1, OthersKeepAnswers DEF Elsewhere, OwnState
  <2>3. at'[p] # "idle" => RunSound(p)'
    BY <1>b, <2>1 DEF RunSound
  <2>4. QED
    BY <1>c, <2>1, <2>2, <2>3
<1>13. QED
  BY <1>1, <1>2, <1>3, <1>4, <1>5, <1>6, <1>7, <1>8, <1>9, <1>10, <1>11, <1>12
  DEF Next, StepOf

(***************************************************************************)
(* Whatever other runs do and earlier attempts left behind, a sound pack   *)
(* fails only for a refusal or a torn base.                                *)
(***************************************************************************)
THEOREM SoundPacksUnpack == Spec => []SoundPackUnpacks
<1>1. Init => AllSound
  BY DEF Init, AllSound
<1>2. AllSound => SoundPackUnpacks
  BY DEF AllSound, RunSound, SoundPackUnpacks
<1>3. Spec => []TornReadMeansRaceOrCrash
  BY UnpackUsesStore, StoreTornReadsHaveCause, PTL
<1>4. QED
  BY <1>1, <1>2, <1>3, UnpackInvInit, UnpackInvStep, SoundStep, PTL DEF Spec
=============================================================================

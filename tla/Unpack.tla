-------------------------------- MODULE Unpack --------------------------------
(***************************************************************************)
(* GitPackProcessor::UnpackAndStore (git_pack.cpp): the objects of a pack  *)
(* that was fetched are rebuilt one after another and stored one after     *)
(* another, in the order of the pack; the base of a reference delta is     *)
(* read back from the store.  Several runs may unpack into one repository, *)
(* and a run that died may be followed by another attempt.                 *)
(*                                                                         *)
(* A pack is the sequence of its records; a body is an opaque value, and   *)
(* an object, which stands for its hash, is its type and its body.  A      *)
(* delta is the function from the bodies it applies to to what it makes of *)
(* them; how its bytes say so is the subject of module Delta.              *)
(***************************************************************************)
EXTENDS ObjectStore, Integers, Sequences

CONSTANTS
  Body,       \* bodies of objects
  EmptyBody,  \* the one of no bytes
  Deltas,     \* what deltas make of the bodies they apply to
  Garbage,    \* bytes that do not inflate
  Response,   \* what the remote may answer to the upload-pack request
  HeadHash,   \* the hashes that may be asked for
  MaxInt,     \* the greatest value of an int
  MaxStarts   \* bound: how many runs are started

BuildRawObject(type, body) == [type |-> type, body |-> body]

TypeName(t) ==
  CASE t = 1 -> "commit" [] t = 2 -> "tree" [] t = 4 -> "tag" [] OTHER -> "blob"

(* The result of a delta for a base, if the delta applies to it. *)
Applies(d, b)    == d # Garbage /\ b \in DOMAIN d
ApplyDelta(d, b) == d[b]

(***************************************************************************)
(* A record of a pack.  base is None when the stream ends inside the hash  *)
(* of a delta's base, and in a record that is no reference delta.          *)
(***************************************************************************)
Record == [type : (0 .. 7) \ {7}, base : {None}, data : Body \cup {Garbage}]
          \cup [type : {7}, base : Object \cup {None}, data : Deltas \cup {Garbage}]

(***************************************************************************)
(* What follows the records: nothing, the first bytes of a length, or the  *)
(* checksum of the pack, which the code takes for a record if the count    *)
(* says that there is one more: it then fails in one way or another.       *)
(***************************************************************************)
EndError ==
  [cut     |-> {"pack_stream_truncated"},
   length  |-> {"pack_object_length_invalid"},
   trailer |-> {"compression_error", "pack_delta_invalid", "pack_delta_unsupported",
                "pack_object_length_invalid"}]

(* The object a record stands for. *)
Rebuilt(r) ==
  IF r.type = 7 THEN BuildRawObject(r.base.type, ApplyDelta(r.data, r.base.body))
  ELSE BuildRawObject(TypeName(r.type), r.data)

Legible(r) ==
  \/ r.type \notin {6, 7} /\ r.data # Garbage
  \/ r.type = 7 /\ r.base # None /\ Applies(r.data, r.base.body)

ASSUME UnpackAssumption ==
  /\ \A o \in Object : o.body \in Body
  /\ \A d \in Deltas : d \in [DOMAIN d -> Body] /\ DOMAIN d \subseteq Body
  /\ EmptyBody \in Body /\ Garbage \notin Body \cup Deltas
  /\ MaxInt \in Nat /\ MaxStarts \in Nat
  /\ HeadHash \subseteq Object
  /\ \A r \in Response :
       /\ r.signature \in BOOLEAN /\ r.header \in BOOLEAN
       /\ r.count \in 0 .. 2 * MaxInt + 1
       /\ r.end \in DOMAIN EndError
       /\ r.records \in Seq(Record)
       /\ \A i \in 1 .. Len(r.records) :
            Legible(r.records[i]) => Rebuilt(r.records[i]) \in Object

VARIABLES
  at,         \* where the run stands
  response,   \* the answer it unpacks
  head_hash,  \* the object it looks for
  index,      \* how many objects it has stored
  parsed,     \* the object rebuilt last
  head_body,  \* head_commit_body: EmptyBody until the head came by
  out,        \* how the run ended
  starts,     \* how many runs were started
  (* History variable *)
  torn        \* runs that read a base which had a writer at work or damaged

unpack == <<at, response, head_hash, index, parsed, head_body, out>>
vars   == <<storeVars, unpack, starts, torn>>

At == {"idle", "object", "base", "parsed", "store", "exit"}

Status == {"none", "ok", "io_error", "object_not_found", "compression_error",
           "object_format_invalid", "object_hash_invalid",
           "pack_signature_missing", "pack_header_invalid", "pack_stream_truncated",
           "pack_object_length_invalid", "pack_delta_invalid",
           "pack_delta_unsupported", "pack_head_not_found"}

(* ParseObjectCount: four bytes shifted into an int. *)
ObjectCount(r) == IF r.count <= MaxInt THEN r.count ELSE r.count - 2 * (MaxInt + 1)

(* Mutated form of More: the loop stops before the last object. *)
MoreButOne(p) == index[p] + 1 < ObjectCount(response[p])

More(p)     == index[p] < ObjectCount(response[p])
AtRecord(p) == at[p] = "object" /\ More(p) /\ index[p] < Len(response[p].records)

NextRecord(p) == response[p].records[index[p] + 1]

(* What a run is at, the record it is at and its store call agree. *)
RunTypeOK(p) ==
  /\ at[p] \in {"object", "parsed"} => pc[p] = "idle"
  /\ at[p] \in {"base", "store"} => pc[p] # "idle"
  /\ at[p] = "idle" => index[p] = 0
  /\ at[p] # "idle" => response[p] \in Response /\ head_hash[p] \in HeadHash
  /\ at[p] \notin {"idle", "exit"} => index[p] <= Len(response[p].records)
  /\ at[p] \in {"base", "parsed", "store"} =>
       More(p) /\ index[p] < Len(response[p].records)
  /\ at[p] = "base" => NextRecord(p).type = 7 /\ NextRecord(p).base = obj[p]
  /\ at[p] = "parsed" => parsed[p] = Rebuilt(NextRecord(p)) /\ Legible(NextRecord(p))
  /\ at[p] = "store" => obj[p] = Rebuilt(NextRecord(p)) /\ Legible(NextRecord(p))

UnpackTypeOK ==
  /\ at \in [Proc -> At]
  /\ response \in [Proc -> Response \cup {None}]
  /\ head_hash \in [Proc -> HeadHash \cup {None}]
  /\ index \in [Proc -> Nat]
  /\ parsed \in [Proc -> Object \cup {None}]
  /\ head_body \in [Proc -> Body]
  /\ out \in [Proc -> Status]
  /\ starts \in 0 .. MaxStarts
  /\ torn \subseteq Proc
  /\ \A p \in Proc : RunTypeOK(p)

TypeOK == StoreTypeOK /\ UnpackTypeOK

Init ==
  /\ StoreInit
  /\ at = [p \in Proc |-> "idle"]
  /\ response  = [p \in Proc |-> None]
  /\ head_hash = [p \in Proc |-> None]
  /\ index  = [p \in Proc |-> 0]
  /\ parsed = [p \in Proc |-> None]
  /\ head_body = [p \in Proc |-> EmptyBody]
  /\ out = [p \in Proc |-> "none"]
  /\ starts = 0 /\ torn = {}

GoTo(p, step) == at' = [at EXCEPT ![p] = step]
Exit(p, s)    == GoTo(p, "exit") /\ out' = [out EXCEPT ![p] = s]

-----------------------------------------------------------------------------
(* The call: the signature is looked for and the header is read. *)
Rejected(r) ==
  IF ~r.signature THEN "pack_signature_missing"
  ELSE IF ~r.header THEN "pack_header_invalid" ELSE "none"

UnpackAndStore(p, r, h) ==
  /\ at[p] = "idle" /\ pc[p] = "idle" /\ starts < MaxStarts
  /\ response'  = [response EXCEPT ![p] = r]
  /\ head_hash' = [head_hash EXCEPT ![p] = h]
  /\ starts' = starts + 1
  /\ \/ Rejected(r) # "none" /\ Exit(p, Rejected(r))
     \/ Rejected(r) = "none" /\ GoTo(p, "object") /\ UNCHANGED out
  /\ UNCHANGED <<storeVars, index, parsed, head_body, torn>>

-----------------------------------------------------------------------------
(* One round of the loop.                                                  *)

(* ExtractObjectType and ReadPackObjectSize past the last record. *)
StreamEnds(p) ==
  /\ at[p] = "object" /\ More(p) /\ index[p] >= Len(response[p].records)
  /\ \E e \in EndError[response[p].end] : Exit(p, e)
  /\ UNCHANGED <<storeVars, response, head_hash, index, parsed, head_body, starts, torn>>

OffsetDelta(p) ==
  /\ AtRecord(p) /\ NextRecord(p).type = 6
  /\ Exit(p, "pack_delta_unsupported")
  /\ UNCHANGED <<storeVars, response, head_hash, index, parsed, head_body, starts, torn>>

(* ProcessRegularObject *)
RegularObject(p) ==
  /\ AtRecord(p) /\ NextRecord(p).type \notin {6, 7}
  /\ \/ /\ ~Legible(NextRecord(p))
        /\ Exit(p, "compression_error")
        /\ UNCHANGED parsed
     \/ /\ Legible(NextRecord(p))
        /\ parsed' = [parsed EXCEPT ![p] = Rebuilt(NextRecord(p))]
        /\ GoTo(p, "parsed")
        /\ UNCHANGED out
  /\ UNCHANGED <<storeVars, response, head_hash, index, head_body, starts, torn>>

(* ProcessReferenceDelta, up to the reading of the base ... *)
ReferenceDelta(p) ==
  /\ AtRecord(p) /\ NextRecord(p).type = 7
  /\ \/ /\ NextRecord(p).base = None
        /\ Exit(p, "pack_delta_invalid")
        /\ UNCHANGED storeVars
     \/ /\ NextRecord(p).base # None
        /\ GoTo(p, "base")
        /\ CallRead(p, NextRecord(p).base)
        /\ UNCHANGED out
  /\ UNCHANGED <<response, head_hash, index, parsed, head_body, starts, torn>>

(* Mutated form of BaseRead: the base is stored in place of what the delta makes of it. *)
BaseReadVerbatim(p) ==
  /\ at[p] = "base" /\ res[p] = "ok"
  /\ Return(p)
  /\ parsed' = [parsed EXCEPT ![p] = obj[p]]
  /\ GoTo(p, "parsed")
  /\ UNCHANGED <<response, head_hash, index, head_body, out, starts, torn>>

(* ... and from there: inflate and apply the delta. *)
BaseRead(p) ==
  /\ at[p] = "base"
  /\ Return(p)
  /\ \/ /\ res[p] # "ok"
        /\ Exit(p, res[p])
        /\ UNCHANGED parsed
     \/ /\ res[p] = "ok" /\ ~Legible(NextRecord(p))
        /\ Exit(p, IF NextRecord(p).data = Garbage THEN "compression_error"
                   ELSE "pack_delta_invalid")
        /\ UNCHANGED parsed
     \/ /\ res[p] = "ok" /\ Legible(NextRecord(p))
        /\ parsed' = [parsed EXCEPT ![p] = Rebuilt(NextRecord(p))]
        /\ GoTo(p, "parsed")
        /\ UNCHANGED out
  /\ torn' = IF p \in raced \/ obj[p] \in damaged THEN torn \cup {p} ELSE torn
  /\ UNCHANGED <<response, head_hash, index, head_body, starts>>

StoreParsed(p) ==
  /\ at[p] = "parsed"
  /\ GoTo(p, "store")
  /\ CallStore(p, parsed[p])
  /\ UNCHANGED <<response, head_hash, index, parsed, head_body, out, starts, torn>>

(* Mutated forms of ObjectStored: the head is forgotten when the next    *)
(* object comes; the position in the pack does not advance.              *)
ObjectStoredForgetful(p) ==
  /\ at[p] = "store" /\ res[p] = "ok"
  /\ Return(p)
  /\ GoTo(p, "object")
  /\ index' = [index EXCEPT ![p] = @ + 1]
  /\ head_body' = [head_body EXCEPT ![p] =
                     IF obj[p] = head_hash[p] THEN obj[p].body ELSE EmptyBody]
  /\ UNCHANGED <<response, head_hash, parsed, out, starts, torn>>

ObjectStoredAgain(p) ==
  /\ at[p] = "store" /\ res[p] = "ok"
  /\ Return(p)
  /\ GoTo(p, "object")
  /\ UNCHANGED <<response, head_hash, index, parsed, head_body, out, starts, torn>>

ObjectStored(p) ==
  /\ at[p] = "store"
  /\ Return(p)
  /\ \/ /\ res[p] # "ok"
        /\ Exit(p, res[p])
        /\ UNCHANGED <<index, head_body>>
     \/ /\ res[p] = "ok"
        /\ GoTo(p, "object")
        /\ index' = [index EXCEPT ![p] = @ + 1]
        /\ head_body' = [head_body EXCEPT ![p] =
                           IF obj[p] = head_hash[p] THEN obj[p].body ELSE @]
        /\ UNCHANGED out
  /\ UNCHANGED <<response, head_hash, parsed, starts, torn>>

(* The loop is over; an empty body is taken for no head. *)
UnpackEnd(p) ==
  /\ at[p] = "object" /\ ~More(p)
  /\ Exit(p, IF head_body[p] = EmptyBody THEN "pack_head_not_found" ELSE "ok")
  /\ UNCHANGED <<storeVars, response, head_hash, index, parsed, head_body, starts, torn>>

-----------------------------------------------------------------------------
(* The process ends, of itself or not. *)
Reset(p) ==
  /\ GoTo(p, "idle")
  /\ response'  = [response EXCEPT ![p] = None]
  /\ head_hash' = [head_hash EXCEPT ![p] = None]
  /\ index'  = [index EXCEPT ![p] = 0]
  /\ parsed' = [parsed EXCEPT ![p] = None]
  /\ head_body' = [head_body EXCEPT ![p] = EmptyBody]
  /\ out' = [out EXCEPT ![p] = "none"]
  /\ torn' = torn \ {p}
  /\ UNCHANGED starts

Leave(p) == at[p] = "exit" /\ pc[p] = "idle" /\ Reset(p) /\ UNCHANGED storeVars

KillUnpack(p) ==
  /\ CanKill /\ at[p] # "idle"
  /\ IF pc[p] = "idle" THEN UNCHANGED storeVars ELSE Kill(p)
  /\ Reset(p)

StepOf(p) ==
  \/ StreamEnds(p) \/ OffsetDelta(p) \/ RegularObject(p) \/ ReferenceDelta(p)
  \/ BaseRead(p) \/ StoreParsed(p) \/ ObjectStored(p) \/ UnpackEnd(p)
  \/ StoreStep(p) /\ UNCHANGED <<unpack, starts, torn>>

(* Other users of the store, and the command that unpacks once it has its answer. *)
Elsewhere(p) ==
  /\ \/ /\ at[p] \in {"idle", "exit"}
        /\ \/ \E o \in Object : CallStore(p, o)
           \/ \E h \in Object \cup {BadHash} : CallRead(p, h)
           \/ Return(p)
     \/ at[p] = "idle" /\ Kill(p)
  /\ UNCHANGED <<unpack, starts, torn>>

Next ==
  \E p \in Proc :
    \/ \E r \in Response, h \in HeadHash : UnpackAndStore(p, r, h)
    \/ StepOf(p) \/ Leave(p) \/ KillUnpack(p)
    \/ StoreFault(p) /\ UNCHANGED <<unpack, starts, torn>>
    \/ Elsewhere(p)

Spec == Init /\ [][Next]_vars

-----------------------------------------------------------------------------
(* The objects the first n records stand for. *)
Delivered(r, n) == {Rebuilt(r.records[i]) : i \in 1 .. n}

(***************************************************************************)
(* Success means all of the pack: a run that reports success has had every *)
(* object the header promised put into the store, read as the unsigned     *)
(* number git writes, and the body it returns is that of the head it was   *)
(* asked for.  It takes the count, the loop, the order of the store calls  *)
(* and the head comparison of UnpackAndStore together.                     *)
(***************************************************************************)
SuccessMeansWholePack ==
  \A p \in Proc :
    at[p] = "exit" /\ out[p] = "ok" =>
      LET r == response[p] IN
      /\ r.count \in 1 .. Len(r.records)
      /\ Delivered(r, r.count) \subseteq exists
      /\ head_hash[p] \in Delivered(r, r.count)
      /\ head_body[p] = head_hash[p].body

(***************************************************************************)
(* A sound pack, one that keeps its promises and has the base of every     *)
(* delta before it, unpacks: whatever other runs or earlier attempts left  *)
(* in the store, a run fails on it only if the operating system refused    *)
(* it something, or a base it read back was being written by another run   *)
(* or had been damaged.  So an attempt that died does not spoil the next   *)
(* one by what it left whole, and the order of stores in UnpackAndStore is *)
(* enough for ProcessReferenceDelta to find its bases.                     *)
(***************************************************************************)
Sound(r, h) ==
  LET n == Len(r.records) IN
  /\ r.signature /\ r.header /\ r.count = n /\ n <= MaxInt
  /\ \A i \in 1 .. n :
       /\ Legible(r.records[i])
       /\ r.records[i].type = 7 => r.records[i].base \in Delivered(r, i - 1)
  /\ h \in Delivered(r, n) /\ h.body # EmptyBody

SoundPackUnpacks ==
  \A p \in Proc :
    at[p] = "exit" /\ Sound(response[p], head_hash[p]) =>
      \/ out[p] = "ok"
      \/ CanFail /\ out[p] = "io_error"
      \/ p \in torn /\ out[p] \in Torn
=============================================================================

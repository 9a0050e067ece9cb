----------------------------- MODULE ObjectStore -----------------------------
(***************************************************************************)
(* The loose-object store of git_object_store.cpp on top of git_fs.cpp:    *)
(* one file per object under .git/objects, written and read by several     *)
(* runs of the program at once, with no lock, no temporary file and no     *)
(* rename.  Every action is one interaction of one run with the file       *)
(* system: between any two of them another run may step, and the run       *)
(* itself may be killed.                                                   *)
(*                                                                         *)
(* An object stands for its hash (SHA-1 is taken to be injective), so the  *)
(* path of an object is the object.  The zlib stream of an object reaches  *)
(* its file in pieces: two runs that write the same object write the same  *)
(* pieces at the same offsets, and a file with a piece missing does not    *)
(* inflate.                                                                *)
(***************************************************************************)
EXTENDS Naturals

CONSTANTS
  Proc,      \* runs of the program
  Object,    \* the objects (each is its own hash)
  Buffered,  \* objects whose compressed form fits the ofstream's buffer
  NPieces,   \* how many write calls an unbuffered object takes
  BadHash,   \* a hash argument that is not 40 hexadecimal digits
  None,      \* no object: the run is between two calls
  CanKill,   \* may a run die between two steps?
  CanFail    \* may the operating system refuse a call?

ASSUME StoreAssumption ==
  /\ Buffered \subseteq Object
  /\ NPieces \in Nat \ {0}
  /\ BadHash \notin Object
  /\ None \notin Object \cup {BadHash}
  /\ CanKill \in BOOLEAN
  /\ CanFail \in BOOLEAN

VARIABLES
  exists,   \* objects that have a file
  data,     \* data[o]: the pieces the file of o holds
  pc,       \* where the run stands in its call to the store
  obj,      \* the object of that call
  pos,      \* the next piece to write or to read
  got,      \* the pieces read so far
  res,      \* the result of the call
  (* History variables *)
  acked,    \* objects some store call reported stored
  damaged,  \* objects one of whose writers died or failed half way
  raced     \* readers during whose read the file had a live writer

disk    == <<exists, data>>
call    == <<pc, obj, pos, got, res>>
history == <<acked, damaged, raced>>
storeVars == <<disk, call, history>>

(***************************************************************************)
(* "check", "open", "write" are the steps of StoreRawObject, "find" and    *)
(* "read" those of ReadRawObject, "done" is a call that has returned.      *)
(***************************************************************************)
Step   == {"idle", "check", "open", "write", "find", "read", "done"}
Result == {"none", "ok", "io_error", "object_not_found", "compression_error",
           "object_format_invalid", "object_hash_invalid"}

LastPiece(o) == IF o \in Buffered THEN 1 ELSE NPieces
Pieces(o)    == 1 .. LastPiece(o)
Whole(o)     == o \in exists /\ data[o] = Pieces(o)
Writing(p, o) == pc[p] = "write" /\ obj[p] = o

StoreTypeOK ==
  /\ exists \subseteq Object
  /\ data \in [Object -> SUBSET (1 .. NPieces)]
  /\ \A o \in Object : data[o] \subseteq Pieces(o)
  /\ pc \in [Proc -> Step]
  /\ obj \in [Proc -> Object \cup {BadHash, None}]
  /\ pos \in [Proc -> 1 .. NPieces + 1]
  /\ got \in [Proc -> SUBSET (1 .. NPieces)]
  /\ res \in [Proc -> Result]
  /\ acked \subseteq Object
  /\ damaged \subseteq Object
  /\ raced \subseteq Proc
  /\ \A p \in Proc :
       /\ pc[p] \in {"check", "open", "write", "read"} => obj[p] \in Object
       /\ pc[p] = "find" => obj[p] \in Object \cup {BadHash}
       /\ pc[p] \in {"idle", "check", "open", "find"} => pos[p] = 1 /\ got[p] = {}
       /\ pc[p] \in {"write", "read"} => pos[p] <= LastPiece(obj[p]) + 1

StoreInit ==
  /\ exists = {}
  /\ data = [o \in Object |-> {}]
  /\ pc   = [p \in Proc |-> "idle"]
  /\ obj  = [p \in Proc |-> None]
  /\ pos  = [p \in Proc |-> 1]
  /\ got  = [p \in Proc |-> {}]
  /\ res  = [p \in Proc |-> "none"]
  /\ acked = {} /\ damaged = {} /\ raced = {}

Goto(p, step)  == pc' = [pc EXCEPT ![p] = step]
Finish(p, r)   == Goto(p, "done") /\ res' = [res EXCEPT ![p] = r]
Hang(p)        == /\ Goto(p, "idle")
                  /\ obj' = [obj EXCEPT ![p] = None]
                  /\ pos' = [pos EXCEPT ![p] = 1]
                  /\ got' = [got EXCEPT ![p] = {}]
                  /\ res' = [res EXCEPT ![p] = "none"]
                  /\ raced' = raced \ {p}

-----------------------------------------------------------------------------
(* Mutated forms of actions below: each is a bug a property must reveal.   *)

(* The existence check is left out: every store writes the file again. *)
StoreMissingUnchecked(p) ==
  /\ pc[p] = "check"
  /\ Goto(p, "open")
  /\ UNCHANGED <<disk, obj, pos, got, res, history>>

(* Success is reported without looking for the file. *)
StoreFoundUnchecked(p) ==
  /\ pc[p] = "check"
  /\ Finish(p, "ok")
  /\ acked' = acked \cup {obj[p]}
  /\ UNCHANGED <<disk, obj, pos, got, damaged, raced>>

(* A short write is taken for a complete one. *)
StoreCloseShort(p) ==
  /\ pc[p] = "write"
  /\ Finish(p, "ok")
  /\ acked' = acked \cup {obj[p]}
  /\ UNCHANGED <<disk, obj, pos, got, damaged, raced>>

(* The write loop runs past the end of the object. *)
StoreWritePast(p) ==
  /\ pc[p] = "write" /\ pos[p] <= NPieces
  /\ data' = [data EXCEPT ![obj[p]] = @ \cup {pos[p]}]
  /\ pos' = [pos EXCEPT ![p] = @ + 1]
  /\ UNCHANGED <<exists, pc, obj, got, res, history>>

(* The read loop stops one piece early. *)
AtEOFEarly(p) == \A k \in data[obj[p]] : k <= pos[p]

-----------------------------------------------------------------------------
(* Calls and returns: what a command of the program does with the store.   *)

CallStore(p, o) ==
  /\ pc[p] = "idle"
  /\ Goto(p, "check")
  /\ obj' = [obj EXCEPT ![p] = o]
  /\ UNCHANGED <<disk, pos, got, res, history>>

CallRead(p, h) ==
  /\ pc[p] = "idle"
  /\ Goto(p, "find")
  /\ obj' = [obj EXCEPT ![p] = h]
  /\ UNCHANGED <<disk, pos, got, res, history>>

Return(p) ==
  /\ pc[p] = "done"
  /\ Hang(p)
  /\ UNCHANGED <<disk, acked, damaged>>

-----------------------------------------------------------------------------
(* StoreRawObject, with WriteBinaryFile in line.                           *)

(* An object that has a file is taken to be stored, whatever the file holds. *)
StoreFound(p) ==
  /\ pc[p] = "check" /\ obj[p] \in exists
  /\ Finish(p, "ok")
  /\ acked' = acked \cup {obj[p]}
  /\ UNCHANGED <<disk, obj, pos, got, damaged, raced>>

StoreMissing(p) ==
  /\ pc[p] = "check" /\ obj[p] \notin exists
  /\ Goto(p, "open")
  /\ UNCHANGED <<disk, obj, pos, got, res, history>>

(* create_directories, then an ofstream that creates or TRUNCATES the file. *)
StoreOpen(p) ==
  /\ pc[p] = "open"
  /\ exists' = exists \cup {obj[p]}
  /\ data' = [data EXCEPT ![obj[p]] = {}]
  /\ Goto(p, "write")
  /\ raced' = raced \cup {q \in Proc : pc[q] = "read" /\ obj[q] = obj[p]}
  /\ UNCHANGED <<obj, pos, got, res, acked, damaged>>

StoreWrite(p) ==
  /\ pc[p] = "write" /\ pos[p] \in Pieces(obj[p])
  /\ data' = [data EXCEPT ![obj[p]] = @ \cup {pos[p]}]
  /\ pos' = [pos EXCEPT ![p] = @ + 1]
  /\ UNCHANGED <<exists, pc, obj, got, res, history>>

StoreClose(p) ==
  /\ pc[p] = "write" /\ pos[p] \notin Pieces(obj[p])
  /\ Finish(p, "ok")
  /\ acked' = acked \cup {obj[p]}
  /\ UNCHANGED <<disk, obj, pos, got, damaged, raced>>

(***************************************************************************)
(* The device refuses a write.  output.write of unbuffered data reports    *)
(* it and the call fails; buffered data is only flushed by the ofstream's  *)
(* destructor, after good() was tested, so the failure is swallowed.       *)
(***************************************************************************)
WriteRefused(p) ==
  /\ CanFail
  /\ pc[p] = "write" /\ pos[p] \in Pieces(obj[p])
  /\ damaged' = damaged \cup {obj[p]}
  /\ \/ /\ obj[p] \in Buffered
        /\ Finish(p, "ok")
        /\ acked' = acked \cup {obj[p]}
     \/ /\ obj[p] \notin Buffered
        /\ Finish(p, "io_error")
        /\ UNCHANGED acked
  /\ UNCHANGED <<disk, obj, pos, got, raced>>

-----------------------------------------------------------------------------
(* ReadRawObject and the ExtractBody that every reader applies to it.      *)

ReadRejected(p) ==
  /\ pc[p] = "find" /\ obj[p] = BadHash
  /\ Finish(p, "object_hash_invalid")
  /\ UNCHANGED <<disk, obj, pos, got, history>>

ReadMissing(p) ==
  /\ pc[p] = "find" /\ obj[p] \in Object \ exists
  /\ Finish(p, "object_not_found")
  /\ UNCHANGED <<disk, obj, pos, got, history>>

ReadOpen(p) ==
  /\ pc[p] = "find" /\ obj[p] \in exists
  /\ Goto(p, "read")
  /\ raced' = IF \E q \in Proc : Writing(q, obj[p]) THEN raced \cup {p} ELSE raced
  /\ UNCHANGED <<disk, obj, pos, got, res, acked, damaged>>

(* Past the last piece the file holds; a piece it misses before reads as zeros. *)
AtEOF(p) == \A k \in data[obj[p]] : k < pos[p]

ReadPiece(p) ==
  /\ pc[p] = "read" /\ ~AtEOF(p)
  /\ got' = [got EXCEPT ![p] = @ \cup (data[obj[p]] \cap {pos[p]})]
  /\ pos' = [pos EXCEPT ![p] = @ + 1]
  /\ UNCHANGED <<disk, pc, obj, res, history>>

(***************************************************************************)
(* What inflate makes of the bytes read: no bytes at all are returned as   *)
(* an empty string and no error, anything but the whole stream is refused. *)
(***************************************************************************)
ZlibDecompressString(p) ==
  IF pos[p] = 1 THEN "empty"
  ELSE IF got[p] = Pieces(obj[p]) THEN "raw" ELSE "compression_error"

ExtractBody(raw) ==
  CASE raw = "raw"   -> "ok"
    [] raw = "empty" -> "object_format_invalid"   \* no NUL in it
    [] OTHER         -> raw

ReadEnd(p) ==
  /\ pc[p] = "read" /\ AtEOF(p)
  /\ Finish(p, ExtractBody(ZlibDecompressString(p)))
  /\ UNCHANGED <<disk, obj, pos, got, history>>

-----------------------------------------------------------------------------
(* exists(), create_directories or open refused: nothing is written. *)
CallRefused(p) ==
  /\ CanFail
  /\ pc[p] \in {"check", "open", "find"} /\ obj[p] # BadHash
  /\ Finish(p, "io_error")
  /\ UNCHANGED <<disk, obj, pos, got, history>>

(* The run dies; what it wrote stays. *)
Kill(p) ==
  /\ CanKill
  /\ pc[p] # "idle"
  /\ damaged' = IF pc[p] = "write" /\ pos[p] \in Pieces(obj[p])
                THEN damaged \cup {obj[p]} ELSE damaged
  /\ Hang(p)
  /\ UNCHANGED <<disk, acked>>

(* The steps a run takes by itself once the call is made. *)
StoreStep(p) ==
  \/ StoreFound(p) \/ StoreMissing(p) \/ StoreOpen(p)
  \/ StoreWrite(p) \/ StoreClose(p)
  \/ ReadRejected(p) \/ ReadMissing(p) \/ ReadOpen(p)
  \/ ReadPiece(p) \/ ReadEnd(p)

StoreFault(p) == WriteRefused(p) \/ CallRefused(p)

(* Any client: any call at any time. *)
StoreNext ==
  \E p \in Proc :
    \/ \E o \in Object : CallStore(p, o)
    \/ \E h \in Object \cup {BadHash} : CallRead(p, h)
    \/ Return(p)
    \/ StoreStep(p)
    \/ StoreFault(p)
    \/ Kill(p)

StoreSpec == StoreInit /\ [][StoreNext]_storeVars

-----------------------------------------------------------------------------
(***************************************************************************)
(* No torn file without a cause: when an object none of whose writers died *)
(* or failed has a file with pieces missing, some single run is still      *)
(* writing it and will write every piece that is missing.  It is about     *)
(* WriteBinaryFile truncating under the feet of other writers: several     *)
(* runs that all found the object missing open the file one after another. *)
(***************************************************************************)
MissingPiecesAreOwed ==
  \A o \in exists \ damaged :
    \/ Whole(o)
    \/ \E p \in Proc : /\ Writing(p, o)
                       /\ Pieces(o) \ data[o] \subseteq pos[p] .. LastPiece(o)

(***************************************************************************)
(* A reader is told that an object is corrupt (ReadRawObject cannot        *)
(* inflate it, or ExtractBody finds no body) only when a writer of the     *)
(* object was at work during the read, or one died or failed before.       *)
(***************************************************************************)
Torn == {"compression_error", "object_format_invalid"}

TornReadMeansRaceOrCrash ==
  \A p \in Proc : pc[p] = "done" /\ res[p] \in Torn
                    => p \in raced \/ obj[p] \in damaged

(***************************************************************************)
(* Damage is final: once a file lacks a piece and no run is past its       *)
(* existence check for it, no later StoreRawObject repairs it, because     *)
(* every one of them takes the file for the object.                        *)
(***************************************************************************)
Abandoned(o) ==
  /\ o \in exists /\ ~Whole(o)
  /\ \A p \in Proc : obj[p] = o => pc[p] \notin {"open", "write"}

TornStaysTorn == [][\A o \in Object : Abandoned(o) => Abandoned(o)']_storeVars

(***************************************************************************)
(* While no run dies and no call is refused, an object that one run was    *)
(* told is stored is, from some moment on, whole for good: the runs that   *)
(* still truncate its file are those that checked before it existed, and   *)
(* each of them writes all of it again.  (acked only grows.)               *)
(***************************************************************************)
AckedBecomesDurable == <>[](\A o \in acked : Whole(o))

(***************************************************************************)
(* "-w: Write object to database" (git_cli_application.cpp): once a store  *)
(* call has reported success and no run is writing the object any more,    *)
(* the database holds the object.                                          *)
(***************************************************************************)
WriteObjectToDatabase ==
  \A o \in acked : Whole(o) \/ \E p \in Proc : obj[p] = o /\ pc[p] \in {"open", "write"}

-----------------------------------------------------------------------------
(* What a client sees of the step its call is at. *)
Phase(step) ==
  IF step \in {"check", "open", "write"} THEN "put"
  ELSE IF step \in {"find", "read"} THEN "get"
  ELSE IF step = "done" THEN "answered" ELSE "idle"

(***************************************************************************)
(* What the store promises its clients, whatever dies or fails.            *)
(***************************************************************************)
Contract == INSTANCE ObjectDatabase WITH
  db      <- exists,
  phase   <- [p \in Proc |-> Phase(pc[p])],
  item    <- obj,
  answer  <- res,
  suspect <- damaged,
  overlap <- raced

ImplementsContract == Contract!Spec
=============================================================================

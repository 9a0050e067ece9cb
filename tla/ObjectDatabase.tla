---------------------------- MODULE ObjectDatabase ----------------------------
(***************************************************************************)
(* What the object store promises: a set of objects that only grows, in    *)
(* which a put that is answered "ok" has put its object, and a get that is *)
(* answered finds its object if and only if the object is in the set.      *)
(* A get may be answered that the object is corrupt, but only when a put   *)
(* of it was in flight during the get, or an earlier put of it was cut     *)
(* short and made the object suspect.                                      *)
(***************************************************************************)
CONSTANTS Proc, Object, BadHash, None

VARIABLES
  db,       \* the objects in the database
  phase,    \* "idle", "put", "get" or "answered"
  item,     \* the object put or got
  answer,   \* the answer given
  suspect,  \* objects a put of which was cut short
  overlap   \* gets during which a put of the same object was in flight

vars == <<db, phase, item, answer, suspect, overlap>>

Init ==
  /\ db = {}
  /\ phase  = [p \in Proc |-> "idle"]
  /\ item   = [p \in Proc |-> None]
  /\ answer = [p \in Proc |-> "none"]
  /\ suspect = {} /\ overlap = {}

InFlight(o) == \E p \in Proc : phase[p] = "put" /\ item[p] = o

Request(p, op, o) ==
  /\ phase[p] = "idle"
  /\ phase' = [phase EXCEPT ![p] = op]
  /\ item' = [item EXCEPT ![p] = o]
  /\ UNCHANGED <<db, answer, suspect, overlap>>

(* The object of a put becomes visible; gets of it under way may see it torn. *)
Publish(p) ==
  /\ phase[p] = "put"
  /\ db' = db \cup {item[p]}
  /\ overlap' \in {overlap \cup Q :
                     Q \in SUBSET {q \in Proc : phase[q] = "get" /\ item[q] = item[p]}}
  /\ UNCHANGED <<phase, item, answer, suspect>>

Overlap(p) ==
  /\ phase[p] = "get" /\ InFlight(item[p])
  /\ overlap' = overlap \cup {p}
  /\ UNCHANGED <<db, phase, item, answer, suspect>>

AnswerOf(p) ==
  IF phase[p] = "put"
  THEN {"io_error"} \cup (IF item[p] \in db THEN {"ok"} ELSE {})
  ELSE {"io_error"}
       \cup (IF item[p] = BadHash THEN {"object_hash_invalid"} ELSE {})
       \cup (IF item[p] \in Object \ db THEN {"object_not_found"} ELSE {})
       \cup (IF item[p] \in db THEN {"ok"} ELSE {})
       \cup (IF item[p] \in db /\ (p \in overlap \/ item[p] \in suspect)
             THEN {"compression_error", "object_format_invalid"} ELSE {})

(* A put may be cut short and still be answered. *)
CutShort(p) ==
  suspect' \in {suspect} \cup (IF phase[p] = "put" THEN {suspect \cup {item[p]}} ELSE {})

Answer(p) ==
  /\ phase[p] \in {"put", "get"}
  /\ \E a \in AnswerOf(p) : answer' = [answer EXCEPT ![p] = a]
  /\ phase' = [phase EXCEPT ![p] = "answered"]
  /\ CutShort(p)
  /\ UNCHANGED <<db, item, overlap>>

(* The run takes the answer, or dies without one. *)
Leave(p) ==
  /\ phase[p] # "idle"
  /\ phase' = [phase EXCEPT ![p] = "idle"]
  /\ item' = [item EXCEPT ![p] = None]
  /\ answer' = [answer EXCEPT ![p] = "none"]
  /\ overlap' = overlap \ {p}
  /\ CutShort(p)
  /\ UNCHANGED db

Next ==
  \E p \in Proc :
    \/ \E o \in Object : Request(p, "put", o)
    \/ \E o \in Object \cup {BadHash} : Request(p, "get", o)
    \/ Publish(p) \/ Overlap(p) \/ Answer(p) \/ Leave(p)

Spec == Init /\ [][Next]_vars
=============================================================================

------------------------------ MODULE TreeFormat ------------------------------
(***************************************************************************)
(* How a tree becomes bytes and bytes become a tree: the last loop of      *)
(* WriteTreeRecursive (git_repository.cpp) puts the entries of a tree      *)
(* together, ParseTreeEntries (git_object_format.cpp) takes them apart.    *)
(* The bytes of a hash may be any, those that separate the parts of an     *)
(* entry among them.                                                       *)
(***************************************************************************)
EXTENDS Integers, SequencesExt

CONSTANTS
  Space, Nul,  \* the bytes that end a mode and a name
  HashLength,  \* how many bytes a hash has: 20
  List,        \* the lists of entries that may be written
  Raw,         \* other strings that may be read
  Unwritten    \* what such a string stands for

Octet == 0 .. 255

-----------------------------------------------------------------------------
(* Hashes: characters outside, bytes within a tree (utils.cpp). *)
HexValue(ch) ==
  CASE ch \in 48 .. 57  -> ch - 48
    [] ch \in 97 .. 102 -> ch - 87
    [] ch \in 65 .. 70  -> ch - 55
    [] OTHER            -> -1

HexDigit(n) == IF n < 10 THEN 48 + n ELSE 87 + n

HashToHex(bytes) ==
  [k \in 1 .. 2 * Len(bytes) |->
     HexDigit(IF k % 2 = 1 THEN bytes[(k + 1) \div 2] \div 16 ELSE bytes[k \div 2] % 16)]

IsHex(hex) == Len(hex) % 2 = 0 /\ \A k \in 1 .. Len(hex) : HexValue(hex[k]) >= 0

HexToBytes(hex) ==
  [i \in 1 .. Len(hex) \div 2 |-> 16 * HexValue(hex[2 * i - 1]) + HexValue(hex[2 * i])]

(* A hash as HashToHex writes it: of its length, the letters in lower case. *)
WellFormed(hex) ==
  IsHex(hex) /\ Len(hex) = 2 * HashLength /\ HashToHex(HexToBytes(hex)) = hex

-----------------------------------------------------------------------------
WriteEntry(e) == e.mode \o <<Space>> \o e.name \o <<Nul>> \o HexToBytes(e.hash_hex)
WriteEntries(l) == FlattenSeq([i \in 1 .. Len(l) |-> WriteEntry(l[i])])

ASSUME TreeFormatAssumption ==
  /\ Space \in Octet /\ Nul \in Octet \ {Space}
  /\ HashLength \in Nat
  /\ Raw \subseteq Seq(Octet)
  /\ \A l \in List : l \in Seq([mode : Seq(Octet \ {Space}), name : Seq(Octet \ {Nul}),
                                hash_hex : Seq(Octet)])
  /\ \A l \in List : \A i \in 1 .. Len(l) : WellFormed(l[i].hash_hex)
  /\ Unwritten \notin List

VARIABLES
  body,     \* the string read
  cursor,   \* how many of its bytes were read
  entries,  \* the entries read
  outcome,  \* "reading", "ok" or "tree_format_invalid"
  meant     \* the entries that were written (history variable)

treeVars == <<body, cursor, entries, outcome, meant>>

Entry == [mode : Seq(Octet), name : Seq(Octet), hash_hex : Seq(Octet)]

TreeTypeOK ==
  /\ body \in Seq(Octet)
  /\ cursor \in 0 .. Len(body)
  /\ entries \in Seq(Entry)
  /\ outcome \in {"reading", "ok", "tree_format_invalid"}
  /\ meant \in List \cup {Unwritten}
  /\ \A i \in 1 .. Len(entries) : Len(entries[i].hash_hex) = 2 * HashLength
  /\ outcome = "ok" => cursor = Len(body)

TreeInit ==
  /\ \/ meant = Unwritten /\ body \in Raw
     \/ meant \in List /\ body = WriteEntries(meant)
  /\ cursor = 0 /\ entries = << >> /\ outcome = "reading"

(* find() from index i on: where it stops, and when it finds nothing. *)
Finds(byte, i, k) == /\ k \in i .. Len(body) /\ body[k] = byte
                     /\ \A j \in i .. k - 1 : body[j] # byte
Lacks(byte, i)    == \A k \in i .. Len(body) : body[k] # byte

AtEntry == outcome = "reading" /\ cursor < Len(body)

MissingModeSeparator ==
  /\ AtEntry /\ Lacks(Space, cursor + 1)
  /\ outcome' = "tree_format_invalid"
  /\ UNCHANGED <<body, cursor, entries, meant>>

MissingNameTerminator ==
  /\ AtEntry
  /\ \E s \in 1 .. Len(body) : Finds(Space, cursor + 1, s) /\ Lacks(Nul, s + 1)
  /\ outcome' = "tree_format_invalid"
  /\ UNCHANGED <<body, cursor, entries, meant>>

TruncatedHash ==
  /\ AtEntry
  /\ \E s, n \in 1 .. Len(body) :
       /\ Finds(Space, cursor + 1, s) /\ Finds(Nul, s + 1, n)
       /\ n + HashLength > Len(body)
  /\ outcome' = "tree_format_invalid"
  /\ UNCHANGED <<body, cursor, entries, meant>>

(* Mutated forms of EntryRead: a hash ends where the next Nul is; the last *)
(* byte of a hash is read again.                                           *)
EntryReadBySeparators ==
  /\ AtEntry
  /\ \E s, n, z \in 1 .. Len(body) :
       /\ Finds(Space, cursor + 1, s) /\ Finds(Nul, s + 1, n) /\ Finds(Nul, n + 1, z)
       /\ entries' = Append(entries,
            [mode |-> SubSeq(body, cursor + 1, s - 1), name |-> SubSeq(body, s + 1, n - 1),
             hash_hex |-> HashToHex(SubSeq(body, n + 1, z - 1))])
       /\ cursor' = z
  /\ UNCHANGED <<body, outcome, meant>>

EntryReadShort ==
  /\ AtEntry
  /\ \E s, n \in 1 .. Len(body) :
       /\ Finds(Space, cursor + 1, s) /\ Finds(Nul, s + 1, n)
       /\ n + HashLength <= Len(body)
       /\ entries' = Append(entries,
            [mode |-> SubSeq(body, cursor + 1, s - 1), name |-> SubSeq(body, s + 1, n - 1),
             hash_hex |-> HashToHex(SubSeq(body, n + 1, n + HashLength))])
       /\ cursor' = n + HashLength - 1
  /\ UNCHANGED <<body, outcome, meant>>

EntryRead ==
  /\ AtEntry
  /\ \E s, n \in 1 .. Len(body) :
       /\ Finds(Space, cursor + 1, s) /\ Finds(Nul, s + 1, n)
       /\ n + HashLength <= Len(body)
       /\ entries' = Append(entries,
            [mode |-> SubSeq(body, cursor + 1, s - 1), name |-> SubSeq(body, s + 1, n - 1),
             hash_hex |-> HashToHex(SubSeq(body, n + 1, n + HashLength))])
       /\ cursor' = n + HashLength
  /\ UNCHANGED <<body, outcome, meant>>

TreeRead ==
  /\ outcome = "reading" /\ cursor >= Len(body)
  /\ outcome' = "ok"
  /\ UNCHANGED <<body, cursor, entries, meant>>

TreeNext ==
  MissingModeSeparator \/ MissingNameTerminator \/ TruncatedHash \/ EntryRead \/ TreeRead

TreeSpec == TreeInit /\ [][TreeNext]_treeVars

-----------------------------------------------------------------------------
(***************************************************************************)
(* A tree that was written is read back entry by entry, whatever bytes its *)
(* hashes have, and of any string, what was read so far is exactly what    *)
(* the entries would be written as: no byte is skipped, shared by two      *)
(* entries or made up, and a string that is refused was never written.     *)
(***************************************************************************)
TreesAreRead ==
  /\ outcome # "reading" /\ meant # Unwritten => outcome = "ok" /\ entries = meant
  /\ WriteEntries(entries) = SubSeq(body, 1, cursor)
=============================================================================

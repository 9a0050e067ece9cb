------------------------------- MODULE RefSelect -------------------------------
(***************************************************************************)
(* Which branch a clone takes (git_remote_client.cpp, SelectHeadHash): the *)
(* listing of info/refs is searched for the preferred names as text, so a  *)
(* branch is found by the START of its name.                               *)
(*                                                                         *)
(* A listing is the sequence of its lines; a name is the sequence of its   *)
(* parts, cut so that "refs/heads/", the preferred names and what follows  *)
(* them in a longer name are parts of their own.  A name that does not     *)
(* follow a hash, as in the capabilities of the first line, is passed over *)
(* by the search and is no line of the listing.                            *)
(***************************************************************************)
EXTENDS SequencesExt

Heads  == <<"refs/heads/">>
Master == Heads \o <<"master">>
Main   == Heads \o <<"main">>

(* The first line that a search for ref stops at. *)
FoundAt(listing, ref, i) ==
  /\ IsPrefix(ref, listing[i].name)
  /\ \A j \in 1 .. i - 1 : ~IsPrefix(ref, listing[j].name)

Found(listing, ref) == {i \in 1 .. Len(listing) : FoundAt(listing, ref, i)}

FindRefHash(listing, ref) == {listing[i].hash : i \in Found(listing, ref)}

(* Mutated form of SelectHeadHash: any branch will do. *)
SelectAnyHash(listing) == FindRefHash(listing, Heads)

(* The hash selected, or nothing. *)
SelectHeadHash(listing) ==
  IF FindRefHash(listing, Master) # {} THEN FindRefHash(listing, Master)
  ELSE IF FindRefHash(listing, Main) # {} THEN FindRefHash(listing, Main)
  ELSE FindRefHash(listing, Heads)

-----------------------------------------------------------------------------
(* git lists every ref once, and sorts them by name. *)
Sorted(listing) ==
  \A i, j \in 1 .. Len(listing) :
    /\ listing[i].name = listing[j].name => i = j
    /\ IsStrictPrefix(listing[i].name, listing[j].name) => i < j

HashesOf(listing, name) ==
  {listing[i].hash : i \in {j \in 1 .. Len(listing) : listing[j].name = name}}

Branches(listing) == {i \in 1 .. Len(listing) : IsPrefix(Heads, listing[i].name)}

(***************************************************************************)
(* What the search by text makes of a sorted listing: master where there   *)
(* is one, whatever branches have longer names; main where no branch's     *)
(* name begins like master; some branch in any other case, and none only   *)
(* if there is none.                                                       *)
(***************************************************************************)
PreferredHead(listing) ==
  LET master == HashesOf(listing, Master)
      main   == HashesOf(listing, Main)
      mimics == {i \in Branches(listing) : IsPrefix(Master, listing[i].name)}
  IN
  /\ master # {} => SelectHeadHash(listing) = master
  /\ mimics = {} /\ main # {} => SelectHeadHash(listing) = main
  /\ SelectHeadHash(listing) \subseteq {listing[i].hash : i \in Branches(listing)}
  /\ SelectHeadHash(listing) = {} <=> Branches(listing) = {}
=============================================================================

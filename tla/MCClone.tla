-------------------------------- MODULE MCClone --------------------------------
(* Small instances of Clone: commits of a remote.  The tree of the first   *)
(* has a file and a directory with a file of the same name; in the tree of *)
(* the second the file has another content and the directory is a file.    *)
(* The others name no tree, a blob for a tree, and a tree with an entry    *)
(* that names a commit of another repository.                              *)
EXTENDS Clone

CONSTANTS p1, p2, first, second, bare, odd, linked, tree, sub, flat, links, old, new, empty

MCBody == {first, second, bare, odd, linked, tree, sub, flat, links, old, new, empty}

MCFirst  == BuildRawObject("commit", first)
MCSecond == BuildRawObject("commit", second)
MCTree   == BuildRawObject("tree", tree)
MCSub    == BuildRawObject("tree", sub)
MCFlat   == BuildRawObject("tree", flat)
MCOld    == BuildRawObject("blob", old)
MCNew    == BuildRawObject("blob", new)
MCEmpty  == BuildRawObject("blob", empty)
MCBare   == BuildRawObject("commit", bare)
MCOdd    == BuildRawObject("commit", odd)
MCLinked == BuildRawObject("commit", linked)
MCLinks  == BuildRawObject("tree", links)
MCTag    == BuildRawObject("tag", old)
MCBlank  == BuildRawObject("blob", empty)
MCObject == {MCFirst, MCSecond, MCBare, MCOdd, MCLinked, MCTree, MCSub, MCFlat, MCLinks,
             MCOld, MCNew, MCTag, MCBlank, BuildRawObject("tag", new)}

MCEntry(m, n, o) == [mode |-> m, name |-> n, hash |-> o]
MCParse == [b \in MCBody |->
  CASE b = tree -> <<MCEntry("100644", "f", MCOld), MCEntry("40000", "g", MCSub)>>
    [] b = sub  -> <<MCEntry("100755", "f", MCNew)>>
    [] b = flat -> <<MCEntry("100644", "f", MCNew), MCEntry("100644", "g", MCOld)>>
    [] b = links -> <<MCEntry("160000", "m", MCFirst)>>
    [] b = empty -> << >>
    [] OTHER    -> Malformed]
MCExtract == [b \in MCBody |->
  CASE b = first -> MCTree [] b = second -> MCFlat [] b = odd -> MCOld
    [] b = linked -> MCLinks [] OTHER -> None]

Line(name, o) == [name |-> name, hash |-> o]
MCListing == <<Line(Main, MCFirst)>>
MCMoved   == <<Line(Main, MCSecond)>>
MCListings == {MCListing, MCMoved}

Regular(t, o)  == [type |-> t, base |-> None, data |-> o.body]
RefDelta(b, o) == [type |-> 7, base |-> b, data |-> b.body :> o.body]
MCDeltas       == {old :> new, new :> old}
Pack(rs) == [signature |-> TRUE, header |-> TRUE, count |-> Len(rs),
             records |-> rs, end |-> "trailer"]
MCDenied == [Pack(<< >>) EXCEPT !.signature = FALSE]

MCFirstPack  == Pack(<<Regular(1, MCFirst), Regular(2, MCTree), Regular(2, MCSub),
                       Regular(3, MCOld), RefDelta(MCOld, MCNew)>>)
MCSecondPack == Pack(<<Regular(1, MCSecond), Regular(2, MCFlat),
                       Regular(3, MCNew), RefDelta(MCNew, MCOld)>>)
MCHeads     == {MCFirst, MCSecond}
MCResponses == {MCFirstPack, MCSecondPack, MCDenied}
MCPacks     == (MCFirst :> {MCFirstPack}) @@ (MCSecond :> {MCSecondPack})

-----------------------------------------------------------------------------
(* Every shape of answer, listing and destination. *)
Claims(n, e, rs) == [Pack(rs) EXCEPT !.count = n, !.end = e]
FirstRecord == Regular(1, MCFirst)
OldRecord   == Regular(3, MCOld)
Bytes(t, d) == [type |-> t, base |-> None, data |-> d]
Delta(b, d) == [type |-> 7, base |-> b, data |-> d]

MCFirstShapes == {MCFirstPack, MCDenied,
  [Pack(<<>>) EXCEPT !.header = FALSE],
  Pack(<<>>),
  Pack(Tail(MCFirstPack.records)),
  Pack(Front(MCFirstPack.records)),
  Pack(<<FirstRecord, Bytes(6, old)>>),
  Pack(<<FirstRecord, Bytes(2, Garbage)>>),
  Pack(<<FirstRecord, Delta(None, Garbage)>>),
  Pack(<<OldRecord, Delta(MCOld, Garbage), FirstRecord>>),
  Pack(<<OldRecord, Delta(MCOld, new :> old), FirstRecord>>),
  Pack(<<FirstRecord, RefDelta(MCOld, MCNew), OldRecord>>),
  Pack(<<FirstRecord, Bytes(4, old), Delta(MCTag, old :> new), Bytes(0, empty)>>),
  Claims(1, "trailer", MCFirstPack.records),
  Claims(2, "trailer", <<FirstRecord>>),
  Claims(2, "cut", <<FirstRecord>>),
  Claims(2, "length", <<FirstRecord>>),
  Claims(2 * MaxInt + 1, "cut", <<FirstRecord>>)}

MCShapes == [h \in {MCFirst, MCBare, MCOdd, MCLinked} |->
  CASE h = MCFirst  -> MCFirstShapes
    [] h = MCBare   -> {Pack(<<Regular(1, MCBare)>>)}
    [] h = MCOdd    -> {Pack(<<Regular(1, MCOdd), OldRecord>>)}
    [] h = MCLinked -> {Pack(<<Regular(1, MCLinked), Regular(2, MCLinks)>>)}]
MCManyHeads  == DOMAIN MCShapes
MCManyResponses == UNION {MCShapes[h] : h \in MCManyHeads} \cup {MCDenied}

(* The refs a remote lists are some of these, in this order. *)
MCRefs == <<Line(<<"HEAD">>, MCOdd), Line(Heads \o <<"feature">>, MCFirst),
            Line(Main, MCBare), Line(Main \o <<"-old">>, MCFirst),
            Line(Master, MCLinked), Line(Master \o <<"-old">>, MCOdd),
            Line(<<"refs/tags/", "master">>, MCBare)>>
MCManyListings == {SelectSeq(MCRefs, LAMBDA l : l \in S) :
                     S \in SUBSET {MCRefs[i] : i \in 1 .. Len(MCRefs)}}

MCNothing == {<< >>}
MCPlaces  ==
  MCNothing \cup {Root :> Image(old), (Root :> Directory) @@ (<<"g">> :> Image(old)),
                (Root :> Directory) @@ (<<"f">> :> Directory),
                (Root :> Directory) @@ (<<"f">> :> << >>) @@ (<<"g">> :> Directory)}
MCSymmetry == Permutations({p1, p2})
=============================================================================

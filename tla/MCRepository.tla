----------------------------- MODULE MCRepository -----------------------------
(* Small instances of Repository: a file and a directory with a file in it. *)
EXTENDS Repository, TLC

CONSTANTS p1, p2, root, sub, git, f, g, a, b

MCParent == (sub :> root) @@ (git :> root) @@ (f :> root) @@ (g :> sub)

(* One file of one piece; two contents of different lengths with nothing in common. *)
MCOne == {<<a>>}
MCTwo == {<<a>>, <<b, b>>}

MCBlobs == {Blob(s) : s \in Reads(Content)}

(* Every tree that the directories can hold. *)
FileEntries(n) == {{}} \cup {{TreeEntry("100644", n, o)} : o \in MCBlobs}
MCSubTrees  == {Tree(e) : e \in FileEntries(g)}
DirEntries  == {{}} \cup {{TreeEntry("40000", sub, t)} : t \in MCSubTrees}
MCRootTrees == {Tree(x \cup y) : x \in FileEntries(f), y \in DirEntries}

(* Commits of the empty tree, with and without a parent; one of a blob. *)
MCFirst   == Commit(Tree({}), None)
MCCommits == {MCFirst, Commit(Tree({}), MCFirst), Commit(Blob(<<a>>), None)}

MCObject == MCBlobs \cup MCSubTrees \cup MCRootTrees
MCObjectAndCommits == MCObject \cup MCCommits

MCNone == {}
MCCommitArgs == {<<BadHash, None>>, <<Tree({}), None>>, <<Tree({}), MCFirst>>,
                 <<Tree({}), BadHash>>}
MCReadArgs   == {BadHash, Blob(<<a>>), Tree({})}
MCAnyCommit  == MCCommitArgs \cup {<<Blob(<<a>>), None>>}

MCSymmetry == Permutations({p1, p2})
=============================================================================

----------------------------- MODULE MCPublish -----------------------------
(***************************************************************************)
(* Instances of Publish for TLC.                                           *)
(***************************************************************************)
EXTENDS Publish, TLC

CONSTANTS ann, bob, cat, g1, p1, j1, j2, j3, j4

MCUsers == {ann, bob, cat}
MCAuthor == {ann}
MCTags == {g1}
MCParents == {p1}
MCNone == {}
MCClashing == {ann}
MCTwoJobs == {j1, j2}
MCFourJobs == {j1, j2, j3, j4}

At(name) == <<"mention", name>>
Hash(name) == <<"tag", name>>
Plain == <<"plain", None>>

Fits(words) == [words |-> words, fits |-> TRUE]
Rejected(words) == [words |-> words, fits |-> FALSE]
Empty == Rejected(<<>>)

MCPlain == {Fits(<<Plain>>)}
MCEmpty == {Fits(<<Plain>>), Empty}

\* Two mentions of one user with a tag; an unknown name with tags, too long.
MCTexts ==
  {Fits(<<At(bob), Hash(g1), At(bob)>>), Rejected(<<At(None), Hash(g1), Hash(g1)>>)}
MCMention == {Fits(<<At(bob)>>)}

Symmetric == Permutations(Jobs)
=============================================================================

--------------------------- MODULE MCWorkspaceBundles ---------------------------
(* Instances of WorkspaceBundles for TLC.                                  *)
EXTENDS WorkspaceBundles, TLC

CONSTANTS x, y      \* two contents of one length

MCContents == {x, y}
MCLength(content) == IF content \in MCContents THEN 1 ELSE 0

One == 1 :> x
Two == One @@ 2 :> y
MCInitialIndexes == {Two}

Given(index, contents, layout, intact) ==
    [there |-> TRUE, layout |-> layout, intact |-> intact, index |-> index,
     resources |-> contents, settled |-> FALSE]

(* No file, a sound one, one whose index lies, a torn one.            *)
MCGivenBundles ==
    {NoFile, Given(One, One, TRUE, TRUE), Given(Two, One, TRUE, TRUE),
     Given(One, One, TRUE, FALSE)}

Symmetric == Permutations(Callers) \cup Permutations(Jobs)
=============================================================================

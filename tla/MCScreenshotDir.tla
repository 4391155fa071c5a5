-------------------------- MODULE MCScreenshotDir ---------------------------
(***************************************************************************)
(* Instances of ScreenshotDir for TLC.  A name that ends in "P" stands for *)
(* one that ends in ".png": a path that a save_as may name, and also one   *)
(* that may be a directory on the way of another.                          *)
(***************************************************************************)
EXTENDS ScreenshotDir, TLC

CONSTANTS c1, c2

Deep == {<<"aP">>, <<"d", "aP">>, <<"d", "aP", "bP">>}
DeepPaths == {<<>>, <<"aP">>, <<"d">>, <<"d", "aP">>, <<"d", "aP", "bP">>}

\* Every call may save to every path.
AskAny == [c \in Calls |-> Deep]

\* No two calls save to the same path, but they share a directory, and the
\* second needs one where the first has a file.
AskOwn == c1 :> {<<"d", "aP">>, <<"aP">>} @@ c2 :> {<<"d", "aP", "bP">>}

\* All calls save to the same path.
AskOne == [c \in Calls |-> {<<"aP">>}]

\* The image a call writes may be shorter than the file it replaces.
Sizes == [c \in Calls |-> IF c = c1 THEN 1 ELSE 3]
=============================================================================

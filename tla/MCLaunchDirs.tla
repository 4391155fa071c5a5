---------------------------- MODULE MCLaunchDirs ----------------------------
(***************************************************************************)
(* Instances of LaunchDirs for TLC.  Process ids are numbers, as the       *)
(* directory names are made of them.  One server has two managers.         *)
(***************************************************************************)
EXTENDS LaunchDirs, TLC

CONSTANTS s1, s2, m1, m2, m3

Homes == m1 :> s1 @@ m2 :> s1 @@ m3 :> s2
=============================================================================

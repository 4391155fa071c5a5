-------------------------- MODULE MCBrowserManager --------------------------
(***************************************************************************)
(* Instances of BrowserManager for TLC.  Slots are model values; they are  *)
(* interchangeable, so the safety runs use their permutations as symmetry. *)
(***************************************************************************)
EXTENDS BrowserManager, TLC

SlotSymmetry == Permutations(Slots)
=============================================================================

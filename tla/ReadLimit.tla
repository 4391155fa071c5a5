------------------------------ MODULE ReadLimit -----------------------------
(***************************************************************************)
(* How much of a page web_read returns: the number that is read from the   *)
(* max_chars argument (get_u64 of src/service.rs) and the cut (truncate of *)
(* src/operations/browser.rs).                                             *)
(*                                                                         *)
(* An argument is [kind, twice]: a JSON integer, a JSON number with a      *)
(* fraction or exponent ("float"), the text of a number, or "other" (none, *)
(* or not a number at all), and twice its value.  A page is the sequence   *)
(* of the lengths in bytes of its characters.                              *)
(***************************************************************************)
EXTENDS Integers, SequencesExt

CONSTANT DefaultMaxChars    \* DEFAULT_MAX_CHARS

ASSUME DefaultMaxCharsAssumption == DefaultMaxChars \in Nat \ {0}

NotGiven == -1

\* A number below 0 is 0, and a fraction is cut off; a text must be the text of
\* a natural number.
GetU64(arg) ==
  IF arg.kind \in {"integer", "float"} THEN
    IF arg.twice > 0 THEN arg.twice \div 2 ELSE 0
  ELSE IF arg.kind = "text" /\ arg.twice >= 0 /\ arg.twice % 2 = 0 THEN
    arg.twice \div 2
  ELSE NotGiven

MaxChars(arg) == IF GetU64(arg) = NotGiven THEN DefaultMaxChars ELSE GetU64(arg)

\* The byte index at which the first n characters end.
Bytes(page, n) == FoldSeq(+, 0, SubSeq(page, 1, n))

\* What is left of a page, in bytes, and whether that is less than all.  (The
\* first form counts bytes for characters.)
TruncateBytes(page, max) ==
  LET all == Bytes(page, Len(page)) IN
  IF max = 0 \/ max >= all THEN [bytes |-> all, truncated |-> FALSE]
  ELSE [bytes |-> max, truncated |-> TRUE]
Truncate(page, max) ==
  IF max = 0 \/ max >= Len(page)
    THEN [bytes |-> Bytes(page, Len(page)), truncated |-> FALSE]
  ELSE [bytes |-> Bytes(page, max), truncated |-> TRUE]
=============================================================================

------------------------------ MODULE SavePath ------------------------------
(***************************************************************************)
(* What a save_as text names (relative_within_root and strip_root of       *)
(* src/screenshot.rs), before anything on the disk below the screenshot    *)
(* directory is looked at.                                                 *)
(*                                                                         *)
(* A text is the sequence of its segments between slashes, so it starts    *)
(* with an empty segment if it is absolute and ends with one if it ends in *)
(* a slash.  A path is [abs, parts], its parts a sequence of names.  The   *)
(* names below stand for a segment of blanks only and for any that holds a *)
(* NUL; blanks around a name are left out.                                 *)
(***************************************************************************)
EXTENDS SequencesExt

CONSTANTS
  Segments,             \* what may stand between two slashes
  MaxPathComponents,    \* the same, 8 in the code
  PngNames              \* the names with the extension "png", in any case

NoPart == ""
Blank == " "
Nul == "NUL"

\* The segments that do not count, and that are names.
Skipped == {NoPart, "."}
Parts == Segments \ Skipped
Names == Parts \ {"..", Nul}

ASSUME SegmentsAssumption ==
  /\ {NoPart, Blank, Nul} \subseteq Segments
  /\ PngNames \subseteq Names \ {Blank}
  /\ MaxPathComponents \in Nat

\* Nothing: no path, no directory.  (No path that is accepted is empty.)
None == <<>>

\* str::trim, at both ends of the text.
Trim(text) ==
  [i \in 1..Len(text) |->
     IF i \in {1, Len(text)} /\ text[i] = Blank THEN NoPart ELSE text[i]]

IsAbsolute(text) == Len(text) > 1 /\ text[1] = NoPart

\* Path::components, without the root: "//" and "/./" do not count.
Kept(text) ==
  LET kept[i \in 0..Len(text)] ==
        IF i = 0 THEN <<>>
        ELSE IF text[i] \in Skipped THEN kept[i - 1]
        ELSE Append(kept[i - 1], text[i])
  IN kept
Components(text) == Kept(text)[Len(text)]

\* Where the file system goes from a directory along some parts, none of them a
\* link: ".." goes up, and stays at the top.
Walk(from, parts) ==
  LET at[i \in 0..Len(parts)] ==
        IF i = 0 THEN from
        ELSE IF parts[i] \in Skipped THEN at[i - 1]
        ELSE IF parts[i] = ".." THEN Front(at[i - 1])
        ELSE Append(at[i - 1], parts[i])
  IN at
Walked(from, parts) == Walk(from, parts)[Len(parts)]

\* Path::strip_prefix.
Below(parts, dir) == SubSeq(parts, Len(dir) + 1, Len(parts))

\* An absolute text counts from the root as configured or, if it is there, as
\* resolved (real is None if it is not).  (The first form knows the root only
\* as configured.)
CandidateAsConfigured(text, root, real) ==
  LET parts == Components(text) IN
  IF ~IsAbsolute(text) THEN parts
  ELSE IF root.abs /\ IsPrefix(root.parts, parts) THEN Below(parts, root.parts)
  ELSE None

Candidate(text, root, real) ==
  LET parts == Components(text) IN
  IF ~IsAbsolute(text) THEN parts
  ELSE IF root.abs /\ IsPrefix(root.parts, parts) THEN Below(parts, root.parts)
  ELSE IF real # None /\ IsPrefix(real, parts) THEN Below(parts, real)
  ELSE None

\* The text is to end in the name it names, not in a slash or a dot, and to
\* climb nowhere.  (The first form lets it climb.)
AcceptableUnclimbed(text, parts) ==
  /\ parts # None
  /\ ~Contains(text, Nul)
  /\ Last(parts) = Last(text)
  /\ Len(parts) <= MaxPathComponents
  /\ Last(parts) \in PngNames
Acceptable(text, parts) ==
  /\ parts # None
  /\ ~Contains(text, Nul)
  /\ ~Contains(parts, "..")
  /\ Last(parts) = Last(text)
  /\ Len(parts) <= MaxPathComponents
  /\ Last(parts) \in PngNames

\* The path inside the root, or None if the text is refused.
RelativeWithinRoot(saveAs, root, real) ==
  LET text == Trim(saveAs)
      parts == Candidate(text, root, real)
  IN IF Acceptable(text, parts) THEN parts ELSE None
=============================================================================

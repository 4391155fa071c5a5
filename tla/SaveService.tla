----------------------------- MODULE SaveService ----------------------------
(***************************************************************************)
(* What the screenshot directory promises about the files at the paths     *)
(* that calls save to, no two calls to the same one, with the walk, the    *)
(* checks and the directories on the way hidden: a call that declines has  *)
(* changed no file; one that begins to write cuts its own file and no      *)
(* other, never one that is not the directory's alone; and one that says   *)
(* "saved" has left its whole image there, unless the file was removed     *)
(* meanwhile.  ScreenshotDir implements it (property SavesAsPromised       *)
(* there).                                                                 *)
(***************************************************************************)
CONSTANTS
  Calls,    \* the calls that may be saving at the same time
  Paths,    \* the paths of the directory
  Asks      \* the paths each call may save to

VARIABLES
  phase,      \* what each call is doing
  asked,      \* the path it saves to
  content,    \* the file at each path
  said        \* what each call returns

vars == <<phase, asked, content, said>>

\* No file; one from before; part of an image; the image of the one call that
\* saves there; a link or a file with another name elsewhere.
Contents == {"none", "old", "part", "image", "foreign"}

Init ==
  /\ phase = [c \in Calls |-> "idle"]
  /\ asked \in [Calls -> Paths]
  /\ content \in [Paths -> Contents \ {"part", "image"}]
  /\ said = [c \in Calls |-> "none"]

Enter(c, p) == phase' = [phase EXCEPT ![c] = p]
Say(c, r) == said' = [said EXCEPT ![c] = r]

Ask(c) ==
  /\ phase[c] = "idle"
  /\ Enter(c, "asking")
  /\ \E p \in Asks[c] : asked' = [asked EXCEPT ![c] = p]
  /\ Say(c, "none")
  /\ UNCHANGED content

\* Not for this path, or not now.
Decline(c) ==
  /\ phase[c] = "asking"
  /\ Enter(c, "idle")
  /\ \E r \in {"refused", "obstructed", "denied"} : Say(c, r)
  /\ UNCHANGED <<asked, content>>

\* The call begins to write.
Cut(c) ==
  /\ phase[c] = "asking"
  /\ content[asked[c]] # "foreign"
  /\ Enter(c, "writing")
  /\ content' = [content EXCEPT ![asked[c]] = "part"]
  /\ UNCHANGED <<asked, said>>

Finish(c) ==
  /\ phase[c] = "writing"
  /\ Enter(c, "idle")
  /\ Say(c, "saved")
  /\ content' = [content EXCEPT ![asked[c]] = IF @ = "none" THEN @ ELSE "image"]
  /\ UNCHANGED asked

\* The write stops part way.
Break(c) ==
  /\ phase[c] = "writing"
  /\ Enter(c, "idle")
  /\ Say(c, "denied")
  /\ UNCHANGED <<asked, content>>

\* Something else removes a file of the directory.
Remove(p) ==
  /\ content[p] # "foreign"
  /\ content' = [content EXCEPT ![p] = "none"]
  /\ UNCHANGED <<phase, asked, said>>

\* The server ends, and files stay as they are.
Crash ==
  /\ phase' = [c \in Calls |-> "idle"]
  /\ said' = [c \in Calls |-> "none"]
  /\ UNCHANGED <<asked, content>>

CallStep(c) == Ask(c) \/ Decline(c) \/ Cut(c) \/ Finish(c) \/ Break(c)

Next == Crash \/ (\E p \in Paths : Remove(p)) \/ \E c \in Calls : CallStep(c)

Spec == Init /\ [][Next]_vars
=============================================================================

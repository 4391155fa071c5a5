---------------------------- MODULE ScreenshotDir ---------------------------
(***************************************************************************)
(* save_png of src/screenshot.rs: the files that concurrent web_screenshot *)
(* calls with "save_as" write into the one screenshot directory.           *)
(*                                                                         *)
(* A path is the sequence of its names below the directory; <<>> is the    *)
(* directory itself.  A call creates and resolves the directories of its   *)
(* path one at a time, checks the target, opens (and so truncates) it and  *)
(* writes the image.  Each step is one group of system calls that read or  *)
(* change one entry; other calls, on other threads of the runtime, may run *)
(* in between.  Every call that can fail, fails: because of what is at a   *)
(* name of the path ("obstructed"), or because the system will not do it:  *)
(* permissions, a full disk, a name too long, no descriptor ("denied").    *)
(*                                                                         *)
(* The tree a server starts on is any tree: links out of the directory and *)
(* files with a second name elsewhere may be there already, or a file in   *)
(* the place of the directory.  While it runs, something else that tidies  *)
(* a cache directory may remove files and empty directories, but nobody    *)
(* plants links: what another process of the same user does between a      *)
(* check and the write is a stated non-goal.                               *)
(*                                                                         *)
(* An image is Size[c] blocks, each marked with the call that wrote it.    *)
(***************************************************************************)
EXTENDS Naturals, Sequences, FiniteSets

CONSTANTS
  Calls,      \* the calls that may be saving at the same time
  Paths,      \* the paths of the model, closed under taking the parent
  Asks,       \* the paths each call may give as its save_as
  Size,       \* the number of blocks of the image of each call
  MaxFaults   \* bound on removals, denials, failed writes and crashes

ASSUME PathsAssumption ==
  /\ Paths \subseteq Seq(STRING)
  /\ <<>> \in Paths
  /\ \A p \in Paths : \A n \in 0..Len(p) : SubSeq(p, 1, n) \in Paths
ASSUME CallsAssumption == IsFiniteSet(Calls) /\ "old" \notin Calls
ASSUME AsksAssumption == Asks \in [Calls -> SUBSET (Paths \ {<<>>})]
ASSUME SizeAssumption == Size \in [Calls -> Nat \ {0}]
ASSUME MaxFaultsAssumption == MaxFaults \in Nat

VARIABLES
  node,       \* what is at each path
  data,       \* the blocks of the file at each path
  escaped,    \* something outside the directory was written or created
  pc,         \* where each call is
  target,     \* the path each call saves to
  depth,      \* how many directories of its path the call has walked
  made,       \* the directories the call has created
  fd,         \* the file a call has open: "live", "lost" when removed since
  result,     \* what each call returns
  faults      \* how often each kind of fault has happened

fsVars == <<node, data, escaped>>
vars == <<fsVars, pc, target, depth, made, fd, result, faults>>

\* "hard" is a regular file with another name, outside the directory.
Kinds == {"none", "dir", "file", "hard", "link"}
Locations ==
  {"idle", "root", "resolve", "walk", "mkdir", "target", "open", "write"}
Results == {"none", "saved", "refused", "obstructed", "denied"}
FaultKinds == {"removal", "denied", "write", "crash"}

\* An image is all its own; so is what an earlier server has left.
Old == <<"old", "old">>
Image(c) == [i \in 1..Size[c] |-> c]

Parents(p) == {SubSeq(p, 1, n) : n \in 0..(Len(p) - 1)}

\* The directory a call is in, and the one it looks at next.
ThisDir(c) == SubSeq(target[c], 1, depth[c])
NextDir(c) == SubSeq(target[c], 1, depth[c] + 1)

\* The directory it is about to create.
Wanted(c) == IF pc[c] = "root" THEN <<>> ELSE NextDir(c)

\* What the file system may hold when the server starts.
Trees ==
  {t \in [Paths -> Kinds] :
     /\ t[<<>>] \in {"none", "dir", "file"}
     /\ \A p \in Paths \ {<<>>} :
          t[p] # "none" => t[SubSeq(p, 1, Len(p) - 1)] = "dir"}

Init ==
  /\ node \in Trees
  /\ data = [p \in Paths |-> IF node[p] \in {"file", "hard"} THEN Old ELSE <<>>]
  /\ escaped = FALSE
  /\ pc = [c \in Calls |-> "idle"]
  /\ target = [c \in Calls |-> <<>>]
  /\ depth = [c \in Calls |-> 0]
  /\ made = [c \in Calls |-> {}]
  /\ fd = [c \in Calls |-> "none"]
  /\ result = [c \in Calls |-> "none"]
  /\ faults = [k \in FaultKinds |-> 0]

-----------------------------------------------------------------------------
(* Helpers *)

Goto(c, l) == pc' = [pc EXCEPT ![c] = l]

Return(c, r) ==
  /\ Goto(c, "idle")
  /\ result' = [result EXCEPT ![c] = r]
  /\ fd' = [fd EXCEPT ![c] = "none"]

\* A path is inside the directory unless a link is on the way to it.
Contained(p) == \A q \in Parents(p) \cup {p} : node[q] # "link"

\* What create_dir_all needs: only directories, or links to one, on the way
\* and there.  The first form is create_dir, which must be the one to create.
Vacant(p) == node[p] = "none" /\ \A q \in Parents(p) : node[q] \in {"dir", "link"}
CanMakeDirs(p) ==
  \A q \in Parents(p) \cup {p} : node[q] \in {"none", "dir", "link"}

\* Creates p and every missing directory above it.
MakeDirs(c, p) ==
  LET new == {q \in Parents(p) \cup {p} : node[q] = "none"} IN
  /\ node' = [q \in Paths |-> IF q \in new THEN "dir" ELSE node[q]]
  /\ made' = [made EXCEPT ![c] = @ \cup new]
  /\ escaped' = (escaped \/ (new # {} /\ ~Contained(p)))

\* A save may go to p: nothing is there, or a file that has only this name.
\* Without the link count; and with a missing file taken for a link.
NoLinkCount(p) == node[p] \notin {"link", "dir"}
OnlyReplaces(p) == node[p] = "file"
Writable(p) == node[p] \notin {"link", "dir", "hard"}

\* The content of a file once fs::write has opened it: cut to nothing, or, in
\* the first form, opened without being cut.
OpenedUncut(a) == a
Opened(a) == <<>>

\* b written over the file content a from its start; what is longer stays.
\* Without write_all, which writes again what a short write has left off.
ShortWrite(a, b) ==
  LET n == IF Len(b) > 0 THEN Len(b) - 1 ELSE 0
  IN SubSeq(b, 1, n) \o SubSeq(a, n + 1, Len(a))
Overwrite(a, b) ==
  IF Len(b) >= Len(a) THEN b ELSE b \o SubSeq(a, Len(b) + 1, Len(a))

Fault(k) ==
  /\ faults["removal"] + faults["denied"] + faults["write"] + faults["crash"]
       < MaxFaults
  /\ faults' = [faults EXCEPT ![k] = @ + 1]

-----------------------------------------------------------------------------
(* One call of save_png *)

\* A page is captured and its save_as, which the path rules accept, is p.
Begin(c) ==
  /\ pc[c] = "idle"
  /\ \E p \in Asks[c] : target' = [target EXCEPT ![c] = p]
  /\ Goto(c, "root")
  /\ depth' = [depth EXCEPT ![c] = 0]
  /\ made' = [made EXCEPT ![c] = {}]
  /\ result' = [result EXCEPT ![c] = "none"]
  /\ UNCHANGED <<fsVars, fd, faults>>

\* resolved_root creates the screenshot directory if it is missing.
MakeRoot(c) ==
  /\ pc[c] = "root"
  /\ CanMakeDirs(<<>>)
  /\ MakeDirs(c, <<>>)
  /\ Goto(c, "resolve")
  /\ UNCHANGED <<data, target, depth, fd, result, faults>>

\* The directory just created, the root or one below it, is there still, and its
\* resolved path is inside the root.  (It always is: CheckDir has refused the
\* links, and none appear.)
Found(p) == node[p] # "none" /\ \A q \in Parents(p) : node[q] \in {"dir", "link"}
Resolve(c) ==
  /\ pc[c] = "resolve"
  /\ Found(ThisDir(c))
  /\ IF Contained(ThisDir(c))
     THEN /\ Goto(c, IF depth[c] < Len(target[c]) - 1 THEN "walk" ELSE "target")
          /\ UNCHANGED <<result, fd>>
     ELSE Return(c, "refused")
  /\ UNCHANGED <<fsVars, target, depth, made, faults>>

\* It is gone by now.
ResolveFails(c) ==
  /\ pc[c] = "resolve"
  /\ ~Found(ThisDir(c))
  /\ Return(c, "obstructed")
  /\ UNCHANGED <<fsVars, target, depth, made, faults>>

\* A symbolic link on the way is refused, wherever it leads.
CheckDir(c) ==
  /\ pc[c] = "walk"
  /\ \/ /\ node[NextDir(c)] = "link"
        /\ Return(c, "refused")
     \/ /\ node[NextDir(c)] # "link"
        /\ Goto(c, "mkdir")
        /\ UNCHANGED <<result, fd>>
  /\ UNCHANGED <<fsVars, target, depth, made, faults>>

\* The next directory is created, with its parents if they are gone.
MakeDir(c) ==
  /\ pc[c] = "mkdir"
  /\ CanMakeDirs(NextDir(c))
  /\ MakeDirs(c, NextDir(c))
  /\ depth' = [depth EXCEPT ![c] = @ + 1]
  /\ Goto(c, "resolve")
  /\ UNCHANGED <<data, target, fd, result, faults>>

\* A file is in the way of a directory, or of the root.
MakeDirFails(c) ==
  /\ pc[c] \in {"root", "mkdir"}
  /\ ~CanMakeDirs(Wanted(c))
  /\ Return(c, "obstructed")
  /\ UNCHANGED <<fsVars, target, depth, made, faults>>

\* The system will not create it, or not all of what is missing above it.
MakeDirDenied(c) ==
  /\ pc[c] \in {"root", "mkdir"}
  /\ Fault("denied")
  /\ \/ UNCHANGED <<fsVars, made>>
     \/ /\ CanMakeDirs(Wanted(c))
        /\ \E p \in Parents(Wanted(c)) : MakeDirs(c, p)
        /\ UNCHANGED data
  /\ Return(c, "denied")
  /\ UNCHANGED <<target, depth>>

\* The target is not a symbolic link, not a directory, not a file with
\* another name.
CheckTarget(c) ==
  /\ pc[c] = "target"
  /\ \/ /\ Writable(target[c])
        /\ Goto(c, "open")
        /\ UNCHANGED <<result, fd>>
     \/ /\ ~Writable(target[c])
        /\ Return(c, "refused")
  /\ UNCHANGED <<fsVars, target, depth, made, faults>>

\* fs::write opens the target: it is created, or cut to nothing.
Open(c) ==
  /\ pc[c] = "open"
  /\ \A q \in Parents(target[c]) : node[q] \in {"dir", "link"}
  /\ node[target[c]] # "dir"
  /\ escaped' = (escaped \/ ~Contained(target[c]) \/ node[target[c]] = "hard")
  /\ node' = [node EXCEPT ![target[c]] = IF @ = "none" THEN "file" ELSE @]
  /\ data' = [data EXCEPT ![target[c]] = Opened(@)]
  /\ fd' = [fd EXCEPT ![c] = "live"]
  /\ Goto(c, "write")
  /\ UNCHANGED <<target, depth, made, result, faults>>

\* Its directory is gone by now, or a directory has taken its name.
OpenFails(c) ==
  /\ pc[c] = "open"
  /\ \/ \E q \in Parents(target[c]) : node[q] \notin {"dir", "link"}
     \/ node[target[c]] = "dir"
  /\ Return(c, "obstructed")
  /\ UNCHANGED <<fsVars, target, depth, made, faults>>

\* The system will not resolve a path, or not open a file, which stays as it is.
AccessDenied(c) ==
  /\ pc[c] \in {"resolve", "open"}
  /\ Fault("denied")
  /\ Return(c, "denied")
  /\ UNCHANGED <<fsVars, target, depth, made>>

\* The bytes reach the open file, from its first byte on, and the call
\* replies with the path and the size of the image.
Write(c) ==
  /\ pc[c] = "write"
  /\ data' = IF fd[c] = "live"
             THEN [data EXCEPT ![target[c]] = Overwrite(@, Image(c))]
             ELSE data
  /\ Return(c, "saved")
  /\ UNCHANGED <<node, escaped, target, depth, made, faults>>

\* The write stops part way (a full disk): the call fails, the part stays.
WriteFails(c) ==
  /\ pc[c] = "write"
  /\ Fault("write")
  /\ \E n \in 0..(Size[c] - 1) :
       data' = IF fd[c] = "live"
               THEN [data EXCEPT ![target[c]] =
                       Overwrite(@, SubSeq(Image(c), 1, n))]
               ELSE data
  /\ Return(c, "denied")
  /\ UNCHANGED <<node, escaped, target, depth, made>>

-----------------------------------------------------------------------------
(* What happens around the calls *)

\* Something tidies the directory: a file or an empty directory goes away.  A
\* call that has the file open writes to a file that has no name any more.
Removal ==
  \E p \in Paths :
    /\ node[p] \in {"file", "dir"}
    /\ \A q \in Paths : p \in Parents(q) => node[q] = "none"
    /\ Fault("removal")
    /\ node' = [node EXCEPT ![p] = "none"]
    /\ data' = [data EXCEPT ![p] = <<>>]
    /\ fd' = [c \in Calls |->
                IF fd[c] = "live" /\ target[c] = p THEN "lost" ELSE fd[c]]
    /\ UNCHANGED <<escaped, pc, target, depth, made, result>>

\* The server dies and is started again: its calls are forgotten, what they
\* did to the file system is not.
Crash ==
  /\ \E c \in Calls : pc[c] # "idle"
  /\ Fault("crash")
  /\ pc' = [c \in Calls |-> "idle"]
  /\ fd' = [c \in Calls |-> "none"]
  /\ result' = [c \in Calls |-> "none"]
  /\ made' = [c \in Calls |-> {}]
  /\ UNCHANGED <<fsVars, target, depth>>

CallStep(c) ==
  \/ Begin(c)
  \/ MakeRoot(c) \/ Resolve(c) \/ ResolveFails(c)
  \/ CheckDir(c) \/ MakeDir(c) \/ MakeDirFails(c) \/ MakeDirDenied(c)
  \/ CheckTarget(c)
  \/ Open(c) \/ OpenFails(c) \/ AccessDenied(c)
  \/ Write(c) \/ WriteFails(c)

Next == (\E c \in Calls : CallStep(c)) \/ Removal \/ Crash

Spec == Init /\ [][Next]_vars

-----------------------------------------------------------------------------
(* What must hold *)

\* Every variable has its type.
TypeOK ==
  /\ node \in [Paths -> Kinds]
  /\ data \in [Paths -> Seq(Calls \cup {"old"})]
  /\ escaped \in BOOLEAN
  /\ pc \in [Calls -> Locations]
  /\ target \in [Calls -> Paths]
  /\ depth \in [Calls -> Nat]
  /\ made \in [Calls -> SUBSET Paths]
  /\ fd \in [Calls -> {"none", "live", "lost"}]
  /\ result \in [Calls -> Results]
  /\ faults \in [FaultKinds -> Nat]

\* "No link out - symbolic or hard": whatever tree the server starts on and
\* whatever other saves create between a check and the write, nothing outside
\* the directory is created, cut or written.
NothingEscapes == ~escaped

Quiet(k) == faults[k] = 0

\* What is on the way to the file of a call.
OnTheWay(c, kinds) == \E q \in Parents(target[c]) : node[q] \in kinds

\* A save is refused, or obstructed, only by something on its path that no save
\* may pass; any other error is one the system has made.  Calls that create the
\* same directories at the same time, or the same file, never make each other
\* fail.
CauseOf(c) ==
  /\ result[c] = "refused" =>
       node[target[c]] \in {"link", "dir", "hard"} \/ OnTheWay(c, {"link"})
  /\ result[c] = "obstructed" =>
       node[target[c]] = "dir" \/ OnTheWay(c, {"file", "hard"})
  /\ result[c] = "denied" => ~Quiet("denied") \/ ~Quiet("write")
FailureHasCause == Quiet("removal") => \A c \in Calls : CauseOf(c)

\* The target is checked after the directories on the way to it were created,
\* but a check that comes so late can only refuse what another save has put
\* there: a refusal leaves no empty directory behind.
MadeInUse(c) ==
  result[c] = "refused" =>
    \A q \in made[c] : \E p \in Paths : q \in Parents(p) /\ node[p] # "none"
RefusalLeavesNoEmptyDir == Quiet("removal") => \A c \in Calls : MadeInUse(c)

\* A file that nobody is writing holds one image, whole.
Settled(p) == node[p] = "file" /\ \A c \in Calls : fd[c] = "live" => target[c] # p
Whole(p) == data[p] = Old \/ \E c \in Calls : data[p] = Image(c)

\* Saves to the same path may run together: the shorter image, written last,
\* keeps the tail of the longer.  But the file begins with one image as a whole,
\* whoever opened it, wrote it or looked at it in between.
BeginsWith(p, c) ==
  Len(data[p]) >= Size[c] /\ SubSeq(data[p], 1, Size[c]) = Image(c)
HeadWhole(p) == data[p] = Old \/ \E c \in Calls : BeginsWith(p, c)
SavedHeadWhole ==
  Quiet("write") /\ Quiet("crash") =>
    \A p \in Paths : Settled(p) => HeadWhole(p)

\* The reply's path and size are true of the file when no other call saves to
\* that path: it holds the image of this call, neither cut nor with a tail of
\* the file it replaced, unless something has removed it.
SavedFileWhole ==
  \A c \in Calls : result[c] = "saved" =>
    \/ node[target[c]] = "file" /\ data[target[c]] = Image(c)
    \/ node[target[c]] # "file" /\ ~Quiet("removal")

\* Files that hold part of an image are no more than the writes that failed
\* or were cut off by a crash, when the calls have targets of their own.
Broken == {p \in Paths : Settled(p) /\ ~Whole(p)}
BrokenFilesAccounted ==
  Cardinality(Broken) <= faults["write"] + faults["crash"] * Cardinality(Calls)

-----------------------------------------------------------------------------
(* The inductive invariant behind NothingEscapes *)

\* How far along its path a call is at each place in the code.
DepthInv ==
  \A c \in Calls :
    /\ pc[c] # "idle" => target[c] # <<>>
    /\ pc[c] = "root" => depth[c] = 0
    /\ pc[c] = "resolve" => depth[c] <= Len(target[c]) - 1
    /\ pc[c] \in {"walk", "mkdir"} => depth[c] < Len(target[c]) - 1
    /\ pc[c] \in {"target", "open"} => depth[c] = Len(target[c]) - 1

\* No link is among the directories a call has walked, nor at what it has
\* checked and is about to create or open: links do not appear.
WalkedBy(c) ==
  /\ pc[c] \in {"resolve", "walk", "mkdir", "target", "open"} =>
       \A n \in 0..depth[c] : node[SubSeq(target[c], 1, n)] # "link"
  /\ pc[c] = "mkdir" => node[NextDir(c)] # "link"
  /\ pc[c] = "open" => node[target[c]] \notin {"link", "hard"}
WalkedInv == node[<<>>] \in {"none", "dir", "file"} /\ \A c \in Calls : WalkedBy(c)

IInv == TypeOK /\ DepthInv /\ WalkedInv /\ NothingEscapes

-----------------------------------------------------------------------------
(* The inductive invariants behind the causes of failures and the content of *)
(* saved files                                                              *)

\* While nothing is removed, what a call has walked are directories, and what it
\* has created is among them; it has nothing to say before it returns.
WayBy(c) ==
  /\ pc[c] # "idle" => result[c] = "none"
  /\ pc[c] = "root" => made[c] = {}
  /\ pc[c] \in {"resolve", "walk", "mkdir", "target", "open"} =>
       /\ \A n \in 0..depth[c] : node[SubSeq(target[c], 1, n)] = "dir"
       /\ made[c] \subseteq {SubSeq(target[c], 1, n) : n \in 0..depth[c]}
CauseInv ==
  Quiet("removal") => \A c \in Calls : WayBy(c) /\ CauseOf(c) /\ MadeInUse(c)

\* No two calls save to the same path.
OwnTargets == \A c, d \in Calls : c # d => Asks[c] \cap Asks[d] = {}

\* With a target of its own, a call finds the file as it has left it, or gone.
SavedBy(c) ==
  /\ pc[c] # "idle" \/ result[c] # "none" => target[c] \in Asks[c]
  /\ pc[c] # "idle" => result[c] = "none"
  /\ pc[c] # "write" => fd[c] = "none"
  /\ fd[c] = "live" => node[target[c]] = "file" /\ data[target[c]] = <<>>
  /\ fd[c] = "lost" => node[target[c]] # "file" /\ ~Quiet("removal")
  /\ pc[c] = "write" => fd[c] # "none"
  /\ result[c] = "saved" =>
       \/ node[target[c]] = "file" /\ data[target[c]] = Image(c)
       \/ node[target[c]] # "file" /\ ~Quiet("removal")
SavedInv == \A c \in Calls : SavedBy(c)

-----------------------------------------------------------------------------
(* The promise of SaveService, which this module implements when no two calls *)
(* save to the same path                                                     *)

\* The file at a path, as far as a reader is concerned.
Content(p) ==
  IF node[p] \in {"none", "dir"} THEN "none"
  ELSE IF node[p] \in {"link", "hard"} THEN "foreign"
  ELSE IF data[p] = Old THEN "old"
  ELSE IF \E c \in Calls : p \in Asks[c] /\ data[p] = Image(c) THEN "image"
  ELSE "part"

\* Where a call is, seen from outside.
Phase(l) ==
  IF l = "idle" THEN "idle" ELSE IF l = "write" THEN "writing" ELSE "asking"

Promise == INSTANCE SaveService WITH
  phase <- [c \in Calls |-> Phase(pc[c])],
  asked <- target,
  content <- [p \in Paths |-> Content(p)],
  said <- result

\* Whatever the calls create and check at the same time, whatever is removed and
\* whenever the server dies, a reader of the files sees no more than the promise:
\* a call changes its own file only, only when it does not decline, and what it
\* reports as saved is there whole.
SavesAsPromised == Promise!Spec

\* With any targets: a file is being written, or begins with a whole image.
HeadBy(p) ==
  node[p] = "file" =>
    HeadWhole(p) \/ \E c \in Calls : fd[c] = "live" /\ target[c] = p
HeadInv ==
  /\ \A c \in Calls : fd[c] # "none" => pc[c] = "write"
  /\ Quiet("write") /\ Quiet("crash") => \A p \in Paths : HeadBy(p)

\* A call is writing to nothing that is not the directory's alone.
PlainInv ==
  \A c \in Calls : pc[c] = "write" => node[target[c]] \notin {"link", "hard"}

-----------------------------------------------------------------------------
(* What a comment says and the code does not do when saves run together *)

\* screenshot.rs:105: "An existing file is replaced": with no crash and no
\* failed write, a file nobody is writing holds the image of one save.
ReplacedByOneImage ==
  Quiet("write") /\ Quiet("crash") => \A p \in Paths : Settled(p) => Whole(p)
=============================================================================

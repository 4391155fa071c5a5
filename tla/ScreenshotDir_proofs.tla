------------------------ MODULE ScreenshotDir_proofs ------------------------
(***************************************************************************)
(* No save reaches outside the directory, for every tree of paths, every   *)
(* number of concurrent calls and every image.                             *)
(***************************************************************************)
EXTENDS ScreenshotDir, SequenceTheorems, TLAPS

(* A prefix of a prefix of a path is a prefix of the path. *)
LEMMA PrefixOfPrefix ==
  ASSUME NEW S, NEW p \in Seq(S), NEW n \in 0..Len(p), NEW k \in 0..n
  PROVE  /\ SubSeq(p, 1, n) \in Seq(S)
         /\ Len(SubSeq(p, 1, n)) = n
         /\ SubSeq(SubSeq(p, 1, n), 1, k) = SubSeq(p, 1, k)
  OBVIOUS

(* The empty prefix of a path is the directory itself, the longest the path. *)
LEMMA PrefixEnds ==
  ASSUME NEW S, NEW p \in Seq(S)
  PROVE  SubSeq(p, 1, 0) = <<>> /\ SubSeq(p, 1, Len(p)) = p
  OBVIOUS

(* Overwriting a sequence by another yields a sequence. *)
LEMMA OverwriteType ==
  ASSUME NEW S, NEW a \in Seq(S), NEW b \in Seq(S)
  PROVE  Overwrite(a, b) \in Seq(S)
  BY DEF Overwrite

(* What is written of an image is a sequence of blocks. *)
LEMMA ImageType ==
  ASSUME NEW c \in Calls, NEW n \in 0..(Size[c] - 1)
  PROVE  /\ Image(c) \in Seq(Calls \cup {"old"})
         /\ SubSeq(Image(c), 1, n) \in Seq(Calls \cup {"old"})
<1>1. Size[c] \in Nat
  BY SizeAssumption
<1>2. Image(c) \in Seq(Calls \cup {"old"}) /\ Len(Image(c)) = Size[c]
  BY <1>1 DEF Image
<1> QED
  BY <1>1, <1>2

(* A call that is under way has a path, and every prefix of it is a path. *)
LEMMA TargetFacts ==
  ASSUME TypeOK, NEW c \in Calls
  PROVE  /\ target[c] \in Seq(STRING) /\ Len(target[c]) \in Nat
         /\ target[c] # <<>> => Len(target[c]) > 0
         /\ \A n \in 0..Len(target[c]) : SubSeq(target[c], 1, n) \in Paths
         /\ depth[c] \in Nat
  BY PathsAssumption DEF TypeOK

(* The directories create_dir_all is about to create are not below a link. *)
LEMMA NextDirContained ==
  ASSUME TypeOK, DepthInv, WalkedInv, NEW c \in Calls, pc[c] = "mkdir"
  PROVE  /\ NextDir(c) \in Paths
         /\ Contained(NextDir(c))
         /\ Parents(NextDir(c)) = {SubSeq(target[c], 1, n) : n \in 0..depth[c]}
<1> DEFINE t == target[c]
           k == depth[c] + 1
<1>1. t \in Seq(STRING) /\ k \in 0..Len(t) /\ depth[c] \in Nat
  BY TargetFacts DEF DepthInv
<1>2. NextDir(c) = SubSeq(t, 1, k) /\ NextDir(c) \in Paths /\ Len(NextDir(c)) = k
  BY <1>1, TargetFacts, PrefixOfPrefix DEF NextDir
<1>3. \A n \in 0..depth[c] : SubSeq(NextDir(c), 1, n) = SubSeq(t, 1, n)
  BY <1>1, <1>2, PrefixOfPrefix
<1>4. Parents(NextDir(c)) = {SubSeq(t, 1, n) : n \in 0..depth[c]}
  BY <1>1, <1>2, <1>3 DEF Parents
<1>5. Contained(NextDir(c))
  BY <1>2, <1>4 DEF Contained, WalkedInv, WalkedBy
<1> QED
  BY <1>2, <1>4, <1>5

(* What is above a path that no link is on the way to is so as well. *)
LEMMA ParentContained ==
  ASSUME NEW p \in Paths, Contained(p), NEW q \in Parents(p)
  PROVE  q \in Paths /\ Contained(q)
<1>1. p \in Seq(STRING) /\ Len(p) \in Nat
  BY PathsAssumption
<1>2. PICK n \in 0..(Len(p) - 1) : q = SubSeq(p, 1, n)
  BY DEF Parents
<1>3. n \in 0..Len(p)
  BY <1>1, <1>2
<1>4. Len(q) = n /\ \A k \in 0..n : SubSeq(q, 1, k) = SubSeq(p, 1, k)
  BY <1>1, <1>2, <1>3, PrefixOfPrefix
<1>5. \A k \in 0..(n - 1) : k \in 0..n /\ k \in 0..(Len(p) - 1)
  BY <1>1, <1>2
<1>6. Parents(q) \cup {q} \subseteq Parents(p)
  BY <1>2, <1>4, <1>5 DEF Parents
<1> QED
  BY <1>2, <1>3, <1>6, PathsAssumption DEF Contained

(* Nor is the file a call is about to open below a link, or a link. *)
LEMMA TargetContained ==
  ASSUME TypeOK, DepthInv, WalkedInv, NEW c \in Calls, pc[c] = "open"
  PROVE  Contained(target[c]) /\ node[target[c]] # "hard"
  BY TargetFacts DEF DepthInv, WalkedInv, WalkedBy, Contained, Parents

(* create_dir_all turns missing entries into directories and nothing else, and
   below no link if there is none on the way. *)
LEMMA MakeDirsFacts ==
  ASSUME TypeOK, NEW c \in Calls, NEW p \in Paths, MakeDirs(c, p)
  PROVE  /\ node' \in [Paths -> Kinds]
         /\ \A q \in Paths : node'[q] # node[q] => node'[q] = "dir"
         /\ made' \in [Calls -> SUBSET Paths]
         /\ escaped' \in BOOLEAN
         /\ Contained(p) => escaped' = escaped
<1>1. Parents(p) \cup {p} \subseteq Paths
  <2>1. p \in Seq(STRING)
    BY PathsAssumption
  <2>2. \A n \in 0..(Len(p) - 1) : n \in 0..Len(p)
    BY <2>1
  <2> QED
    BY <2>2, PathsAssumption DEF Parents
<1> QED
  BY <1>1 DEF MakeDirs, TypeOK, Kinds

(* What a call has walked and checked stays so while others create things:
   nothing turns into a link, or into a file with a second name. *)
LEMMA WalkedStays ==
  ASSUME TypeOK, DepthInv, WalkedInv, NEW c \in Calls,
         pc'[c] = pc[c], depth'[c] = depth[c], target'[c] = target[c],
         \A q \in Paths : node'[q] # node[q] => node'[q] \in {"none", "dir", "file"}
  PROVE  WalkedBy(c)'
<1> SUFFICES ASSUME pc[c] \in {"resolve", "walk", "mkdir", "target", "open"}
             PROVE  WalkedBy(c)'
  BY DEF WalkedBy
<1>1. depth[c] \in 0..(Len(target[c]) - 1) /\ Len(target[c]) \in Nat
  BY TargetFacts DEF DepthInv
<1>2. \A n \in 0..depth[c] : SubSeq(target[c], 1, n) \in Paths
  BY <1>1, TargetFacts
<1>3. pc[c] = "mkdir" => NextDir(c) \in Paths
  BY NextDirContained
<1>4. NextDir(c)' = NextDir(c)
  BY DEF NextDir
<1> QED
  BY <1>2, <1>3, <1>4 DEF WalkedInv, WalkedBy, TypeOK

(* A call that writes leaves the content of every file a sequence of blocks. *)
LEMMA DataType ==
  ASSUME TypeOK, NEW c \in Calls, NEW b \in Seq(Calls \cup {"old"}),
         data' = IF fd[c] = "live"
                 THEN [data EXCEPT ![target[c]] = Overwrite(@, b)]
                 ELSE data
  PROVE  data' \in [Paths -> Seq(Calls \cup {"old"})]
<1>1. target[c] \in Paths /\ data[target[c]] \in Seq(Calls \cup {"old"})
  BY DEF TypeOK
<1>2. Overwrite(data[target[c]], b) \in Seq(Calls \cup {"old"})
  BY <1>1, OverwriteType
<1> QED
  BY <1>1, <1>2 DEF TypeOK

(* The server starts with calls idle and nothing done. *)
LEMMA InitIInv == Init => IInv
<1> SUFFICES ASSUME Init PROVE IInv
  OBVIOUS
<1>1. node \in [Paths -> Kinds]
  BY DEF Init, Trees
<1>2. data \in [Paths -> Seq(Calls \cup {"old"})]
  <2>1. Old \in Seq(Calls \cup {"old"}) /\ <<>> \in Seq(Calls \cup {"old"})
    BY DEF Old
  <2> QED
    BY <2>1 DEF Init
<1>3. TypeOK
  BY <1>1, <1>2, PathsAssumption DEF Init, TypeOK, Locations, Results,
     FaultKinds
<1> QED
  BY <1>3 DEF Init, IInv, DepthInv, WalkedInv, WalkedBy, NothingEscapes, Trees

(* Every step keeps the invariant: one step per action, and under it one for
   each conjunct. *)
LEMMA StepIInv == IInv /\ [Next]_vars => IInv'
<1> SUFFICES ASSUME IInv, [Next]_vars PROVE IInv'
  OBVIOUS
<1>1. ASSUME NEW c \in Calls, Begin(c) PROVE IInv'
  <2>1. TypeOK'
    BY <1>1, AsksAssumption DEF IInv, TypeOK, Locations, Results, FaultKinds,
       Begin, Goto, fsVars
  <2>2. DepthInv'
    <3>1. target'[c] # <<>> /\ pc'[c] = "root" /\ depth'[c] = 0
      BY <1>1, AsksAssumption DEF Begin, Goto, IInv, TypeOK
    <3>2. \A d \in Calls \ {c} :
            pc'[d] = pc[d] /\ target'[d] = target[d] /\ depth'[d] = depth[d]
      BY <1>1 DEF Begin, Goto, IInv, TypeOK
    <3> QED
      BY <3>1, <3>2 DEF IInv, DepthInv
  <2>3. WalkedInv'
    BY <1>1, AsksAssumption, TargetFacts, PrefixEnds DEF IInv, WalkedInv,
       WalkedBy, DepthInv, TypeOK, Begin, Goto, fsVars, NextDir
  <2>4. NothingEscapes'
    BY <1>1, AsksAssumption DEF IInv, NothingEscapes, Begin, Goto, fsVars
  <2> QED
    BY <2>1, <2>2, <2>3, <2>4 DEF IInv
<1>2. ASSUME NEW c \in Calls, MakeRoot(c) PROVE IInv'
  <2>0. <<>> \in Paths /\ TypeOK /\ MakeDirs(c, <<>>) /\ Contained(<<>>)
    <3>1. Parents(<<>>) = {}
      BY DEF Parents
    <3> QED
      BY <1>2, <3>1, PathsAssumption DEF IInv, WalkedInv, MakeRoot, Contained
  <2>1. TypeOK'
    BY <1>2, <2>0, MakeDirsFacts DEF IInv, TypeOK, Locations, MakeRoot, Goto
  <2>2. /\ pc'[c] = "resolve" /\ depth'[c] = 0 /\ target' = target
        /\ target[c] # <<>>
        /\ \A d \in Calls \ {c} : pc'[d] = pc[d] /\ depth'[d] = depth[d]
    BY <1>2 DEF MakeRoot, Goto, IInv, TypeOK, DepthInv
  <2>3. DepthInv'
    <3>1. 0 <= Len(target[c]) - 1
      BY <2>0, <2>2, TargetFacts
    <3> QED
      BY <2>2, <3>1 DEF IInv, DepthInv
  <2>4. WalkedInv'
    <3>1. \A q \in Paths : node'[q] # node[q] => node'[q] = "dir"
      BY <1>2, <2>0, MakeDirsFacts DEF MakeRoot, IInv
    <3>2. node'[<<>>] \in {"none", "dir", "file"}
      BY <2>0, <3>1 DEF IInv, WalkedInv
    <3>3. SubSeq(target[c], 1, 0) = <<>>
      BY TargetFacts, PrefixEnds DEF IInv
    <3>4. WalkedBy(c)'
      <4>1. \A n \in 0..depth'[c] : n = 0
        BY <2>2
      <4>2. \A n \in 0..depth'[c] : SubSeq(target'[c], 1, n) = <<>>
        BY <2>2, <3>3, <4>1
      <4> QED
        BY <2>2, <3>2, <4>2 DEF WalkedBy
    <3>5. ASSUME NEW d \in Calls \ {c} PROVE WalkedBy(d)'
      BY <2>2, <3>1, WalkedStays DEF IInv
    <3> QED
      BY <3>2, <3>4, <3>5 DEF WalkedInv
  <2>5. NothingEscapes'
    BY <1>2, <2>0, MakeDirsFacts DEF IInv, NothingEscapes, MakeRoot
  <2> QED
    BY <2>1, <2>3, <2>4, <2>5 DEF IInv
<1>3. ASSUME NEW c \in Calls, CheckDir(c) PROVE IInv'
  <2>1. TypeOK'
    BY <1>3 DEF IInv, TypeOK, Locations, Results, FaultKinds, CheckDir, Return,
       Goto, fsVars
  <2>2. DepthInv'
    BY <1>3, TargetFacts DEF IInv, DepthInv, TypeOK, CheckDir, Return, Goto,
       fsVars
  <2>3. WalkedInv'
    BY <1>3, TargetFacts, PrefixEnds DEF IInv, WalkedInv, WalkedBy, DepthInv,
       TypeOK, CheckDir, Return, Goto, fsVars, NextDir
  <2>4. NothingEscapes'
    BY <1>3 DEF IInv, NothingEscapes, CheckDir, Return, Goto, fsVars
  <2> QED
    BY <2>1, <2>2, <2>3, <2>4 DEF IInv
<1>4. ASSUME NEW c \in Calls, MakeDir(c) PROVE IInv'
  <2>0. /\ NextDir(c) \in Paths /\ MakeDirs(c, NextDir(c)) /\ Contained(NextDir(c))
        /\ TypeOK /\ depth[c] \in Nat /\ depth[c] + 1 \in Nat
    BY <1>4, NextDirContained, TargetFacts DEF IInv, MakeDir
  <2>1. TypeOK'
    <3>1. /\ node' \in [Paths -> Kinds]
          /\ made' \in [Calls -> SUBSET Paths]
          /\ escaped' \in BOOLEAN
      BY <2>0, MakeDirsFacts
    <3> QED
      BY <1>4, <2>0, <3>1 DEF TypeOK, Locations, MakeDir, Goto
  <2>2. /\ pc'[c] = "resolve" /\ depth'[c] = depth[c] + 1 /\ target' = target
        /\ \A d \in Calls \ {c} : pc'[d] = pc[d] /\ depth'[d] = depth[d]
    BY <1>4, <2>0 DEF MakeDir, Goto, TypeOK
  <2>3. DepthInv'
    <3>1. depth[c] + 1 <= Len(target[c]) - 1 /\ target[c] # <<>>
      BY <1>4, <2>0, TargetFacts DEF IInv, DepthInv, MakeDir
    <3> QED
      BY <2>2, <3>1 DEF IInv, DepthInv
  <2>4. WalkedInv'
    <3>1. \A q \in Paths : node'[q] # node[q] => node'[q] = "dir"
      BY <2>0, MakeDirsFacts
    <3>2. node'[<<>>] \in {"none", "dir", "file"}
      BY <3>1, PathsAssumption DEF IInv, WalkedInv
    <3>4. \A n \in 0..(depth[c] + 1) : node[SubSeq(target[c], 1, n)] # "link"
      BY <1>4, <2>0 DEF IInv, WalkedInv, WalkedBy, MakeDir, NextDir
    <3>5. \A n \in 0..(depth[c] + 1) : SubSeq(target[c], 1, n) \in Paths
      BY <1>4, <2>0, TargetFacts DEF IInv, DepthInv, MakeDir
    <3>6. WalkedBy(c)'
      BY <2>2, <3>1, <3>4, <3>5 DEF WalkedBy
    <3>7. ASSUME NEW d \in Calls \ {c} PROVE WalkedBy(d)'
      BY <2>2, <3>1, WalkedStays DEF IInv
    <3> QED
      BY <3>2, <3>6, <3>7 DEF WalkedInv
  <2>5. NothingEscapes'
    BY <1>4, <2>0, MakeDirsFacts DEF IInv, NothingEscapes, MakeDir
  <2> QED
    BY <2>1, <2>3, <2>4, <2>5 DEF IInv
<1>5. ASSUME NEW c \in Calls, MakeDirFails(c) PROVE IInv'
  <2>1. TypeOK'
    BY <1>5 DEF IInv, TypeOK, Locations, Results, FaultKinds, MakeDirFails,
       Return, Goto, fsVars
  <2>2. DepthInv'
    BY <1>5, TargetFacts DEF IInv, DepthInv, TypeOK, MakeDirFails, Return, Goto,
       fsVars
  <2>3. WalkedInv'
    BY <1>5, TargetFacts, PrefixEnds DEF IInv, WalkedInv, WalkedBy, DepthInv,
       TypeOK, MakeDirFails, Return, Goto, fsVars, NextDir
  <2>4. NothingEscapes'
    BY <1>5 DEF IInv, NothingEscapes, MakeDirFails, Return, Goto, fsVars
  <2> QED
    BY <2>1, <2>2, <2>3, <2>4 DEF IInv
<1>6. ASSUME NEW c \in Calls, CheckTarget(c) PROVE IInv'
  <2>1. TypeOK'
    BY <1>6 DEF IInv, TypeOK, Locations, Results, FaultKinds, CheckTarget,
       Return, Writable, Goto, fsVars
  <2>2. DepthInv'
    BY <1>6, TargetFacts DEF IInv, DepthInv, TypeOK, CheckTarget, Return,
       Writable, Goto, fsVars
  <2>3. WalkedInv'
    BY <1>6, TargetFacts, PrefixEnds DEF IInv, WalkedInv, WalkedBy, DepthInv,
       TypeOK, CheckTarget, Return, Writable, Goto, fsVars, NextDir
  <2>4. NothingEscapes'
    BY <1>6 DEF IInv, NothingEscapes, CheckTarget, Return, Writable, Goto,
       fsVars
  <2> QED
    BY <2>1, <2>2, <2>3, <2>4 DEF IInv
<1>7. ASSUME NEW c \in Calls, Open(c) PROVE IInv'
  <2>1. TypeOK'
    <3>1. target[c] \in Paths /\ <<>> \in Seq(Calls \cup {"old"})
      BY DEF IInv, TypeOK
    <3>2. node' \in [Paths -> Kinds] /\ data' \in [Paths -> Seq(Calls \cup {"old"})]
      BY <1>7, <3>1 DEF Open, Opened, IInv, TypeOK, Kinds
    <3> QED
      BY <1>7, <3>2 DEF Open, Goto, IInv, TypeOK, Locations
  <2>2. DepthInv'
    BY <1>7, TargetContained, TargetFacts DEF IInv, DepthInv, TypeOK, Open,
       Goto, fsVars
  <2>3. WalkedInv'
    BY <1>7, TargetContained, TargetFacts, PrefixEnds DEF IInv, WalkedInv,
       WalkedBy, DepthInv, TypeOK, Open, Goto, fsVars, NextDir
  <2>4. NothingEscapes'
    BY <1>7, TargetContained DEF IInv, NothingEscapes, Open, Goto, fsVars
  <2> QED
    BY <2>1, <2>2, <2>3, <2>4 DEF IInv
<1>8. ASSUME NEW c \in Calls, OpenFails(c) PROVE IInv'
  <2>1. TypeOK'
    BY <1>8 DEF IInv, TypeOK, Locations, Results, FaultKinds, OpenFails, Return,
       Goto, fsVars
  <2>2. DepthInv'
    BY <1>8, TargetFacts DEF IInv, DepthInv, TypeOK, OpenFails, Return, Goto,
       fsVars
  <2>3. WalkedInv'
    BY <1>8, TargetFacts, PrefixEnds DEF IInv, WalkedInv, WalkedBy, DepthInv,
       TypeOK, OpenFails, Return, Goto, fsVars, NextDir
  <2>4. NothingEscapes'
    BY <1>8 DEF IInv, NothingEscapes, OpenFails, Return, Goto, fsVars
  <2> QED
    BY <2>1, <2>2, <2>3, <2>4 DEF IInv
<1>9. ASSUME NEW c \in Calls, Write(c) PROVE IInv'
  <2>1. TypeOK'
    <3>1. data' \in [Paths -> Seq(Calls \cup {"old"})]
      <4>1. 0 \in 0..(Size[c] - 1)
        BY SizeAssumption
      <4> QED
        BY <1>9, <4>1, ImageType, DataType DEF Write, IInv
    <3> QED
      BY <1>9, <3>1 DEF Write, Return, Goto, IInv, TypeOK, Locations, Results
  <2>2. DepthInv'
    BY <1>9, TargetFacts DEF IInv, DepthInv, TypeOK, Write, Return, Goto, fsVars
  <2>3. WalkedInv'
    BY <1>9, TargetFacts, PrefixEnds DEF IInv, WalkedInv, WalkedBy, DepthInv,
       TypeOK, Write, Return, Goto, fsVars, NextDir
  <2>4. NothingEscapes'
    BY <1>9 DEF IInv, NothingEscapes, Write, Return, Goto, fsVars
  <2> QED
    BY <2>1, <2>2, <2>3, <2>4 DEF IInv
<1>10. ASSUME NEW c \in Calls, WriteFails(c) PROVE IInv'
  <2>1. TypeOK'
    <3>1. data' \in [Paths -> Seq(Calls \cup {"old"})]
      BY <1>10, ImageType, DataType DEF WriteFails, IInv
    <3> QED
      BY <1>10, <3>1 DEF WriteFails, Fault, Return, Goto, IInv, TypeOK,
         Locations,
         Results, FaultKinds
  <2>2. DepthInv'
    BY <1>10, TargetFacts DEF IInv, DepthInv, TypeOK, WriteFails, Return, Fault,
       Goto, fsVars
  <2>3. WalkedInv'
    BY <1>10, TargetFacts, PrefixEnds DEF IInv, WalkedInv, WalkedBy, DepthInv,
       TypeOK, WriteFails, Return, Fault, Goto, fsVars, NextDir
  <2>4. NothingEscapes'
    BY <1>10 DEF IInv, NothingEscapes, WriteFails, Return, Fault, Goto, fsVars
  <2> QED
    BY <2>1, <2>2, <2>3, <2>4 DEF IInv
<1>11. ASSUME Removal PROVE IInv'
  <2>1. TypeOK'
    <3>1. <<>> \in Seq(Calls \cup {"old"})
      OBVIOUS
    <3>2. faults' \in [FaultKinds -> Nat]
      BY <1>11 DEF Removal, Fault, IInv, TypeOK, FaultKinds
    <3>3. node' \in [Paths -> Kinds] /\ data' \in [Paths -> Seq(Calls \cup {"old"})]
      BY <1>11, <3>1 DEF Removal, IInv, TypeOK, Kinds
    <3>4. fd' \in [Calls -> {"none", "live", "lost"}]
      BY <1>11 DEF Removal, IInv, TypeOK
    <3> QED
      BY <1>11, <3>2, <3>3, <3>4 DEF Removal, IInv, TypeOK
  <2>2. DepthInv'
    BY <1>11, TargetFacts DEF IInv, DepthInv, TypeOK, Removal, Fault, fsVars
  <2>3. WalkedInv'
    BY <1>11, TargetFacts, PrefixEnds DEF IInv, WalkedInv, WalkedBy, DepthInv,
       TypeOK, Removal, Fault, fsVars, NextDir
  <2>4. NothingEscapes'
    BY <1>11 DEF IInv, NothingEscapes, Removal, Fault, fsVars
  <2> QED
    BY <2>1, <2>2, <2>3, <2>4 DEF IInv
<1>12. ASSUME Crash PROVE IInv'
  <2>1. TypeOK'
    BY <1>12 DEF IInv, TypeOK, Locations, Results, FaultKinds, Crash, Fault,
       fsVars
  <2>2. DepthInv'
    BY <1>12, TargetFacts DEF IInv, DepthInv, TypeOK, Crash, Fault, fsVars
  <2>3. WalkedInv'
    BY <1>12, TargetFacts, PrefixEnds DEF IInv, WalkedInv, WalkedBy, DepthInv,
       TypeOK, Crash, Fault, fsVars, NextDir
  <2>4. NothingEscapes'
    BY <1>12 DEF IInv, NothingEscapes, Crash, Fault, fsVars
  <2> QED
    BY <2>1, <2>2, <2>3, <2>4 DEF IInv
<1>13. ASSUME NEW c \in Calls, Resolve(c) PROVE IInv'
  <2>0. /\ TypeOK /\ pc[c] = "resolve" /\ target' = target /\ depth' = depth
        /\ node' = node /\ escaped' = escaped
        /\ \A d \in Calls \ {c} : pc'[d] = pc[d]
        /\ pc'[c] = "idle" \/ pc'[c] = IF depth[c] < Len(target[c]) - 1
                                      THEN "walk" ELSE "target"
    BY <1>13 DEF IInv, TypeOK, Resolve, Return, Goto, fsVars
  <2>1. TypeOK'
    BY <1>13 DEF IInv, TypeOK, Locations, Results, Resolve, Return, Goto, fsVars
  <2>2. DepthInv'
    <3>1. /\ depth[c] <= Len(target[c]) - 1 /\ target[c] # <<>>
          /\ depth[c] \in Nat /\ Len(target[c]) \in Nat
      BY <2>0, TargetFacts DEF IInv, DepthInv
    <3>2. depth[c] < Len(target[c]) - 1 \/ depth[c] = Len(target[c]) - 1
      BY <3>1
    <3>3. \/ pc'[c] = "idle"
          \/ pc'[c] = "walk" /\ depth[c] < Len(target[c]) - 1
          \/ pc'[c] = "target" /\ depth[c] = Len(target[c]) - 1
      BY <2>0, <3>2
    <3> QED
      BY <2>0, <3>1, <3>3 DEF IInv, DepthInv
  <2>3. WalkedInv'
    <3>1. pc'[c] \in {"idle", "walk", "target"}
      BY <2>0
    <3>2. \A d \in Calls : NextDir(d)' = NextDir(d)
      BY <2>0 DEF NextDir
    <3> QED
      BY <2>0, <3>1, <3>2 DEF IInv, WalkedInv, WalkedBy
  <2>4. NothingEscapes'
    BY <2>0 DEF IInv, NothingEscapes
  <2> QED
    BY <2>1, <2>2, <2>3, <2>4 DEF IInv
<1>14. ASSUME NEW c \in Calls, ResolveFails(c) PROVE IInv'
  <2>1. TypeOK'
    BY <1>14 DEF IInv, TypeOK, Locations, Results, FaultKinds, ResolveFails, Return,
       Goto, fsVars
  <2>2. DepthInv'
    BY <1>14, TargetFacts DEF IInv, DepthInv, TypeOK, ResolveFails, Return, Goto,
       fsVars
  <2>3. WalkedInv'
    BY <1>14, TargetFacts, PrefixEnds DEF IInv, WalkedInv, WalkedBy, DepthInv,
       TypeOK, ResolveFails, Return, Goto, fsVars, NextDir
  <2>4. NothingEscapes'
    BY <1>14 DEF IInv, NothingEscapes, ResolveFails, Return, Goto, fsVars
  <2> QED
    BY <2>1, <2>2, <2>3, <2>4 DEF IInv
<1>15. ASSUME NEW c \in Calls, AccessDenied(c) PROVE IInv'
  <2>1. TypeOK'
    BY <1>15 DEF IInv, TypeOK, Locations, Results, FaultKinds, AccessDenied, Return,
       Goto, fsVars, Fault
  <2>2. DepthInv'
    BY <1>15, TargetFacts DEF IInv, DepthInv, TypeOK, AccessDenied, Return, Goto,
       fsVars, Fault
  <2>3. WalkedInv'
    BY <1>15, TargetFacts, PrefixEnds DEF IInv, WalkedInv, WalkedBy, DepthInv,
       TypeOK, AccessDenied, Return, Goto, fsVars, NextDir, Fault
  <2>4. NothingEscapes'
    BY <1>15 DEF IInv, NothingEscapes, AccessDenied, Return, Goto, fsVars, Fault
  <2> QED
    BY <2>1, <2>2, <2>3, <2>4 DEF IInv
<1>16. ASSUME NEW c \in Calls, MakeDirDenied(c) PROVE IInv'
  <2>0. /\ TypeOK /\ pc'[c] = "idle" /\ target' = target /\ depth' = depth
        /\ target[c] # <<>>
        /\ \A d \in Calls \ {c} : pc'[d] = pc[d]
    BY <1>16 DEF IInv, TypeOK, DepthInv, MakeDirDenied, Return, Goto
  <2>1. \/ UNCHANGED <<fsVars, made>>
        \/ \E p \in Paths : Contained(p) /\ MakeDirs(c, p) /\ UNCHANGED data
    <3>1. Wanted(c) \in Paths /\ (Wanted(c) = <<>> \/ Contained(Wanted(c)))
      BY <1>16, <2>0, NextDirContained, PathsAssumption
         DEF MakeDirDenied, Wanted, IInv
    <3>2. Parents(<<>>) = {}
      BY DEF Parents
    <3>3. \A p \in Parents(Wanted(c)) : p \in Paths /\ Contained(p)
      BY <3>1, <3>2, ParentContained
    <3> QED
      BY <1>16, <3>3 DEF MakeDirDenied
  <2>2. /\ node' \in [Paths -> Kinds] /\ made' \in [Calls -> SUBSET Paths]
        /\ \A q \in Paths : node'[q] # node[q] => node'[q] = "dir"
        /\ escaped' = escaped /\ data' = data
    BY <2>0, <2>1, MakeDirsFacts DEF fsVars, TypeOK
  <2>3. TypeOK'
    <3>1. faults' \in [FaultKinds -> Nat]
      BY <1>16, <2>0 DEF MakeDirDenied, Fault, TypeOK, FaultKinds
    <3>2. /\ pc' \in [Calls -> Locations] /\ result' \in [Calls -> Results]
          /\ fd' \in [Calls -> {"none", "live", "lost"}]
      BY <1>16, <2>0 DEF MakeDirDenied, Return, Goto, TypeOK, Locations, Results
    <3> QED
      BY <2>0, <2>2, <3>1, <3>2 DEF TypeOK
  <2>4. DepthInv'
    BY <2>0 DEF IInv, DepthInv
  <2>5. WalkedInv'
    <3>1. node'[<<>>] \in {"none", "dir", "file"}
      BY <2>2, PathsAssumption DEF IInv, WalkedInv
    <3>2. WalkedBy(c)'
      BY <2>0 DEF WalkedBy
    <3>3. ASSUME NEW d \in Calls \ {c} PROVE WalkedBy(d)'
      BY <2>0, <2>2, WalkedStays DEF IInv
    <3> QED
      BY <3>1, <3>2, <3>3 DEF WalkedInv
  <2>6. NothingEscapes'
    BY <2>2 DEF IInv, NothingEscapes
  <2> QED
    BY <2>3, <2>4, <2>5, <2>6 DEF IInv
<1>17. CASE UNCHANGED vars
  BY <1>17 DEF vars, fsVars, IInv, TypeOK, DepthInv, WalkedInv, WalkedBy,
     NothingEscapes, NextDir
<1> QED
  BY <1>1, <1>2, <1>3, <1>4, <1>5, <1>6, <1>7, <1>8, <1>9, <1>10, <1>11, <1>12,
     <1>13, <1>14, <1>15, <1>16, <1>17 DEF Next, CallStep

(* No interleaving of saves, removals, failures and crashes leaves the
   invariant. *)
THEOREM Invariant == Spec => []IInv
  BY InitIInv, StepIInv, PTL DEF Spec

(* Type correctness. *)
THEOREM TypeCorrect == Spec => []TypeOK
<1>1. IInv => TypeOK
  BY DEF IInv
<1> QED
  BY <1>1, Invariant, PTL

(* "No link out - symbolic or hard": no save writes or creates anything outside
   the directory, whatever links it finds inside. *)
THEOREM SavesStayInside == Spec => []NothingEscapes
<1>1. IInv => NothingEscapes
  BY DEF IInv
<1> QED
  BY <1>1, Invariant, PTL
=============================================================================

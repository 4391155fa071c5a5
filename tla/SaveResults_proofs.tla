------------------------- MODULE SaveResults_proofs -------------------------
(***************************************************************************)
(* What the results of saves say is true: a failure has its cause, a       *)
(* refusal leaves no empty directory behind, and a saved file is whole,    *)
(* for every tree of paths, every number of concurrent calls and every     *)
(* image.                                                                  *)
(***************************************************************************)
EXTENDS ScreenshotDir_proofs, FiniteSetTheorems

(* Every ancestor of a path is a path. *)
LEMMA ParentsArePaths ==
  ASSUME NEW p \in Paths
  PROVE  Parents(p) \subseteq Paths
<1>1. p \in Seq(STRING)
  BY PathsAssumption
<1>2. \A n \in 0..(Len(p) - 1) : n \in 0..Len(p)
  BY <1>1
<1> QED
  BY <1>2, PathsAssumption DEF Parents

(* A fault is counted, and no other is. *)
LEMMA FaultFacts ==
  ASSUME TypeOK, NEW k \in FaultKinds, Fault(k)
  PROVE  /\ ~Quiet(k)'
         /\ \A j \in FaultKinds \ {k} : faults'[j] = faults[j]
<1>1. faults' = [faults EXCEPT ![k] = @ + 1] /\ faults[k] \in Nat
  BY DEF Fault, TypeOK
<1> QED
  BY <1>1 DEF Quiet, TypeOK

(* A call that the system denies something ends; it may have created a directory
   above the one it wanted, but it has touched no file. *)
LEMMA Denial ==
  ASSUME IInv, NEW c \in Calls, MakeDirDenied(c) \/ AccessDenied(c)
  PROVE  /\ pc[c] \notin {"idle", "write"} /\ Goto(c, "idle")
         /\ result' = [result EXCEPT ![c] = "denied"]
         /\ fd' = [fd EXCEPT ![c] = "none"]
         /\ UNCHANGED <<data, target, depth>>
         /\ \A d \in Calls \ {c} : made'[d] = made[d]
         /\ \A q \in Paths : node'[q] = node[q] \/ (node[q] = "none" /\ node'[q] = "dir")
         /\ Fault("denied")
<1>1. TypeOK
  BY DEF IInv
<1>2. CASE AccessDenied(c)
  BY <1>2 DEF AccessDenied, Return, fsVars
<1>3. CASE MakeDirDenied(c)
  <2>1. UNCHANGED <<fsVars, made>> \/ \E p : MakeDirs(c, p) /\ UNCHANGED data
    BY <1>3 DEF MakeDirDenied
  <2>2. /\ \A d \in Calls \ {c} : made'[d] = made[d]
        /\ \A q \in Paths : node'[q] = node[q] \/ (node[q] = "none" /\ node'[q] = "dir")
        /\ data' = data
    BY <1>1, <2>1 DEF MakeDirs, fsVars, TypeOK
  <2> QED
    BY <1>3, <2>2 DEF MakeDirDenied, Return
<1> QED
  BY <1>2, <1>3

(* While nothing is removed, what is there stays what it is. *)
LEMMA NothingGoes ==
  ASSUME IInv, [Next]_vars, Quiet("removal")'
  PROVE  /\ Quiet("removal")
         /\ \A q \in Paths : node[q] # "none" => node'[q] = node[q]
         /\ ~Quiet("write") => ~Quiet("write")'
         /\ ~Quiet("denied") => ~Quiet("denied")'
<1>0. TypeOK
  BY DEF IInv
<1>1. ASSUME NEW c \in Calls, MakeRoot(c) \/ MakeDir(c)
      PROVE  /\ faults' = faults
             /\ \A q \in Paths : node[q] # "none" => node'[q] = node[q]
  BY <1>1 DEF MakeRoot, MakeDir, MakeDirs
<1>2. ASSUME NEW c \in Calls, Open(c)
      PROVE  /\ faults' = faults
             /\ \A q \in Paths : node[q] # "none" => node'[q] = node[q]
  BY <1>0, <1>2 DEF Open, TypeOK
<1>3. ASSUME NEW c \in Calls,
             \/ Begin(c) \/ Resolve(c) \/ ResolveFails(c) \/ CheckDir(c)
             \/ MakeDirFails(c) \/ CheckTarget(c) \/ OpenFails(c) \/ Write(c)
      PROVE  faults' = faults /\ node' = node
  BY <1>3 DEF Begin, Resolve, ResolveFails, CheckDir, MakeDirFails, CheckTarget,
     OpenFails, Write, fsVars
<1>4. ASSUME NEW c \in Calls, WriteFails(c)
      PROVE  node' = node /\ Fault("write")
  BY <1>4 DEF WriteFails
<1>5. ASSUME NEW c \in Calls, MakeDirDenied(c) \/ AccessDenied(c)
      PROVE  /\ Fault("denied")
             /\ \A q \in Paths : node[q] # "none" => node'[q] = node[q]
  BY <1>5, Denial
<1>6. ASSUME Removal PROVE Fault("removal")
  BY <1>6 DEF Removal
<1>7. ASSUME Crash PROVE node' = node /\ Fault("crash")
  BY <1>7 DEF Crash, fsVars
<1>8. CASE UNCHANGED vars
  BY <1>8 DEF vars, fsVars, Quiet
<1>9. /\ Fault("removal") => FALSE
      /\ \A k \in {"write", "denied", "crash"} : Fault(k) =>
           /\ Quiet("removal")
           /\ ~Quiet("write") => ~Quiet("write")'
           /\ ~Quiet("denied") => ~Quiet("denied")'
  BY <1>0, FaultFacts DEF FaultKinds, Quiet
<1>10. faults' = faults =>
         /\ Quiet("removal")
         /\ ~Quiet("write") => ~Quiet("write")'
         /\ ~Quiet("denied") => ~Quiet("denied")'
  BY DEF Quiet
<1> QED
  BY <1>1, <1>2, <1>3, <1>4, <1>5, <1>6, <1>7, <1>8, <1>9, <1>10
     DEF Next, CallStep

(* What a call knows of its way stays true while others create things, and so
   does the cause of its failure. *)
LEMMA OthersStay ==
  ASSUME TypeOK, DepthInv, NEW c \in Calls, WayBy(c), CauseOf(c), MadeInUse(c),
         \A q \in Paths : node[q] # "none" => node'[q] = node[q],
         ~Quiet("write") => ~Quiet("write")',
         ~Quiet("denied") => ~Quiet("denied")',
         pc'[c] = pc[c], depth'[c] = depth[c], target'[c] = target[c],
         made'[c] = made[c], result'[c] = result[c]
  PROVE  WayBy(c)' /\ CauseOf(c)' /\ MadeInUse(c)'
<1>1. target[c] \in Paths
  BY DEF TypeOK
<1>2. WayBy(c)'
  <2>1. ASSUME pc[c] \in {"resolve", "walk", "mkdir", "target", "open"}
        PROVE  \A n \in 0..depth[c] : SubSeq(target[c], 1, n) \in Paths
    <3>1. depth[c] \in 0..Len(target[c]) /\ Len(target[c]) \in Nat
      BY <2>1, TargetFacts DEF DepthInv
    <3> QED
      BY <3>1, TargetFacts
  <2> QED
    BY <2>1 DEF WayBy
<1>3. CauseOf(c)'
  BY <1>1, ParentsArePaths DEF CauseOf, OnTheWay
<1>4. MadeInUse(c)'
  BY DEF MadeInUse
<1> QED
  BY <1>2, <1>3, <1>4

(* The root is the one ancestor of the first directory on every way. *)
LEMMA RootFacts ==
  ASSUME TypeOK, NEW c \in Calls
  PROVE  /\ SubSeq(target[c], 1, 0) = <<>>
         /\ Parents(<<>>) = {}
         /\ \A n \in 0..0 : n = 0
  BY TargetFacts DEF Parents

(* The directory a call resolves, and those above it, are those it has walked. *)
LEMMA ThisDirFacts ==
  ASSUME TypeOK, DepthInv, NEW c \in Calls, pc[c] = "resolve"
  PROVE  /\ ThisDir(c) \in Paths
         /\ Parents(ThisDir(c)) \cup {ThisDir(c)}
              \subseteq {SubSeq(target[c], 1, n) : n \in 0..depth[c]}
<1> DEFINE t == target[c]
<1>1. t \in Seq(STRING) /\ depth[c] \in Nat /\ depth[c] \in 0..Len(t)
  BY TargetFacts DEF DepthInv
<1>2. /\ Len(ThisDir(c)) = depth[c]
      /\ \A n \in 0..depth[c] : SubSeq(ThisDir(c), 1, n) = SubSeq(t, 1, n)
  BY <1>1, PrefixOfPrefix DEF ThisDir
<1>3. \A n \in 0..(depth[c] - 1) : n \in 0..depth[c]
  BY <1>1
<1>4. ThisDir(c) \in Paths
  BY <1>1, TargetFacts DEF ThisDir
<1>5. ThisDir(c) \in {SubSeq(t, 1, n) : n \in 0..depth[c]}
  BY <1>1 DEF ThisDir
<1> QED
  BY <1>2, <1>3, <1>4, <1>5 DEF Parents

(* What a step does to the calls that do not take it. *)
LEMMA OthersUntouched ==
  ASSUME IInv, NEW c \in Calls, CallStep(c), NEW d \in Calls \ {c}
  PROVE  /\ pc'[d] = pc[d] /\ depth'[d] = depth[d] /\ target'[d] = target[d]
         /\ made'[d] = made[d] /\ result'[d] = result[d] /\ fd'[d] = fd[d]
<1>1. TypeOK
  BY DEF IInv
<1>2. CASE Begin(c) \/ CheckDir(c) \/ MakeDirFails(c)
  BY <1>1, <1>2 DEF TypeOK, Begin, CheckDir, MakeDirFails, Return, Goto
<1>3. CASE CheckTarget(c) \/ Open(c) \/ OpenFails(c)
  BY <1>1, <1>3 DEF TypeOK, CheckTarget, Open, OpenFails, Return, Goto
<1>4. CASE Write(c) \/ WriteFails(c)
  BY <1>1, <1>4 DEF TypeOK, Write, WriteFails, Return, Goto
<1>5. CASE MakeRoot(c) \/ MakeDir(c)
  BY <1>1, <1>5 DEF TypeOK, MakeRoot, MakeDir, MakeDirs, Goto
<1>6. CASE Resolve(c) \/ ResolveFails(c)
  BY <1>1, <1>6 DEF TypeOK, Resolve, ResolveFails, Return, Goto
<1>7. CASE MakeDirDenied(c) \/ AccessDenied(c)
  BY <1>1, <1>7, Denial DEF TypeOK, Goto
<1> QED
  BY <1>2, <1>3, <1>4, <1>5, <1>6, <1>7 DEF CallStep

(* The call that takes a step: a refusal or an error of its file system has its
   cause on the way, and what it has created is on the way too. *)
LEMMA OwnStep ==
  ASSUME IInv, NEW c \in Calls, CallStep(c), WayBy(c), CauseOf(c), MadeInUse(c)
  PROVE  WayBy(c)' /\ CauseOf(c)' /\ MadeInUse(c)'
<1> DEFINE t == target[c]
           Way(k) == {SubSeq(t, 1, n) : n \in 0..k}
<1>0. /\ TypeOK /\ DepthInv /\ WalkedInv
      /\ t \in Paths /\ t \in Seq(STRING) /\ Len(t) \in Nat /\ depth[c] \in Nat
  BY TargetFacts DEF IInv, TypeOK
<1>1. CASE Begin(c)
  BY <1>0, <1>1 DEF Begin, Goto, TypeOK, WayBy, CauseOf, MadeInUse
<1>2. CASE MakeRoot(c)
  <2>1. /\ pc'[c] = "resolve" /\ depth'[c] = 0 /\ target' = target
        /\ result' = result /\ pc[c] = "root"
    BY <1>0, <1>2 DEF MakeRoot, Goto, TypeOK, DepthInv
  <2>2. node'[<<>>] = "dir" /\ made'[c] \subseteq {<<>>}
    <3>1. node[<<>>] \in {"none", "dir"}
      BY <1>0, <1>2 DEF MakeRoot, CanMakeDirs, WalkedInv
    <3> QED
      BY <1>0, <1>2, <2>1, <3>1, RootFacts, PathsAssumption
         DEF MakeRoot, MakeDirs, WayBy, TypeOK
  <2>3. \A n \in 0..depth'[c] : n = 0
    BY <2>1
  <2>4. \A n \in 0..depth'[c] : SubSeq(target'[c], 1, n) = <<>>
    BY <1>0, <2>1, <2>3, RootFacts
  <2>5. 0 \in 0..depth'[c]
    BY <2>1
  <2>6. <<>> \in {SubSeq(target'[c], 1, n) : n \in 0..depth'[c]}
    BY <2>4, <2>5
  <2>7. result'[c] = "none"
    BY <2>1 DEF WayBy
  <2> QED
    BY <2>1, <2>2, <2>4, <2>6, <2>7 DEF WayBy, CauseOf, MadeInUse
<1>3. CASE CheckDir(c)
  <2>1. /\ pc[c] = "walk" /\ target' = target /\ node' = node /\ made' = made
        /\ depth' = depth /\ result[c] = "none"
    BY <1>3 DEF CheckDir, fsVars, WayBy
  <2>2. CASE node[NextDir(c)] # "link"
    BY <1>0, <1>3, <2>1, <2>2 DEF CheckDir, Goto, TypeOK, WayBy, CauseOf, MadeInUse
  <2>3. CASE node[NextDir(c)] = "link"
    <3>1. result'[c] = "refused" /\ pc'[c] = "idle"
      BY <1>0, <1>3, <2>3 DEF CheckDir, Return, Goto, TypeOK
    <3>2. depth[c] + 1 \in 0..Len(t) /\ depth[c] + 1 \in 0..(Len(t) - 1)
      BY <1>0, <2>1 DEF DepthInv
    <3>3. NextDir(c) \in Parents(t) /\ NextDir(c) \in Paths
      BY <1>0, <3>2, PathsAssumption DEF NextDir, Parents
    <3>4. Way(depth[c]) \subseteq Parents(NextDir(c))
      <4>1. /\ NextDir(c) = SubSeq(t, 1, depth[c] + 1)
            /\ Len(NextDir(c)) = depth[c] + 1
            /\ \A n \in 0..depth[c] : SubSeq(NextDir(c), 1, n) = SubSeq(t, 1, n)
        BY <1>0, <3>2, PrefixOfPrefix DEF NextDir
      <4> QED
        BY <1>0, <4>1 DEF Parents
    <3>5. made[c] \subseteq Way(depth[c])
      BY <2>1 DEF WayBy
    <3> QED
      BY <2>1, <2>3, <3>1, <3>3, <3>4, <3>5 DEF WayBy, CauseOf, MadeInUse, OnTheWay
  <2> QED
    BY <2>2, <2>3
<1>4. CASE MakeDir(c)
  <2>1. /\ pc[c] = "mkdir" /\ NextDir(c) \in Paths /\ Contained(NextDir(c))
        /\ Parents(NextDir(c)) = Way(depth[c])
    BY <1>0, <1>4, NextDirContained DEF MakeDir
  <2>2. /\ pc'[c] = "resolve" /\ depth'[c] = depth[c] + 1
        /\ target' = target /\ result' = result
    BY <1>0, <1>4, <2>1 DEF MakeDir, Goto, TypeOK
  <2>3. NextDir(c) = SubSeq(t, 1, depth[c] + 1)
    BY DEF NextDir
  <2>4. \A n \in 0..(depth[c] + 1) : n \in 0..depth[c] \/ n = depth[c] + 1
    BY <1>0
  <2>5. 0..depth[c] \subseteq 0..(depth[c] + 1) /\ depth[c] + 1 \in 0..(depth[c] + 1)
    BY <1>0
  <2>6. Way(depth[c]) \cup {NextDir(c)} = Way(depth[c] + 1)
    BY <2>3, <2>4, <2>5
  <2>7. Way(depth[c]) \subseteq Paths
    BY <2>1, ParentsArePaths
  <2>8. \A q \in Way(depth[c] + 1) : node'[q] = "dir"
    <3>1. node[NextDir(c)] \in {"none", "dir"}
      BY <1>4, <2>1 DEF MakeDir, CanMakeDirs, Contained
    <3>2. \A q \in Way(depth[c]) : node[q] = "dir"
      BY <2>1 DEF WayBy
    <3> QED
      BY <1>4, <2>1, <2>6, <2>7, <3>1, <3>2 DEF MakeDir, MakeDirs
  <2>9. made'[c] \subseteq Way(depth[c] + 1)
    BY <1>0, <1>4, <2>1, <2>6 DEF MakeDir, MakeDirs, WayBy, TypeOK
  <2>10. result'[c] = "none"
    BY <2>1, <2>2 DEF WayBy
  <2> QED
    BY <2>2, <2>8, <2>9, <2>10 DEF WayBy, CauseOf, MadeInUse
<1>5. CASE MakeDirFails(c)
  <2>1. /\ pc[c] \in {"root", "mkdir"} /\ pc'[c] = "idle"
        /\ result'[c] = "obstructed" /\ target' = target /\ node' = node
    BY <1>0, <1>5 DEF MakeDirFails, Return, Goto, TypeOK, fsVars
  <2>2. PICK q \in Parents(Wanted(c)) \cup {Wanted(c)} :
          node[q] \notin {"none", "dir", "link"}
    BY <1>5 DEF MakeDirFails, CanMakeDirs
  <2>3. q \in Parents(t)
    <3>1. CASE pc[c] = "root"
      <4>1. q = <<>> /\ 0 \in 0..(Len(t) - 1)
        BY <1>0, <2>2, <3>1, RootFacts, TargetFacts DEF Wanted, DepthInv
      <4> QED
        BY <1>0, <4>1, RootFacts DEF Parents
    <3>2. CASE pc[c] = "mkdir"
      <4>1. Parents(Wanted(c)) = Way(depth[c]) /\ Wanted(c) = NextDir(c)
        BY <1>0, <3>2, NextDirContained DEF Wanted
      <4>2. depth[c] + 1 \in 0..(Len(t) - 1) /\ 0..depth[c] \subseteq 0..(Len(t) - 1)
        BY <1>0, <3>2 DEF DepthInv
      <4> QED
        BY <2>2, <4>1, <4>2 DEF Parents, NextDir
    <3> QED
      BY <2>1, <3>1, <3>2
  <2>4. node[q] \in {"file", "hard"}
    BY <1>0, <2>2, <2>3, ParentsArePaths DEF TypeOK, Kinds
  <2> QED
    BY <2>1, <2>3, <2>4 DEF WayBy, CauseOf, MadeInUse, OnTheWay
<1>6. CASE CheckTarget(c)
  <2>1. /\ pc[c] = "target" /\ target' = target /\ node' = node /\ made' = made
        /\ depth' = depth /\ result[c] = "none"
    BY <1>6 DEF CheckTarget, fsVars, WayBy
  <2>2. CASE Writable(t)
    BY <1>0, <1>6, <2>1, <2>2 DEF CheckTarget, Goto, TypeOK, WayBy, CauseOf, MadeInUse
  <2>3. CASE ~Writable(t)
    <3>1. result'[c] = "refused" /\ pc'[c] = "idle"
      BY <1>0, <1>6, <2>3 DEF CheckTarget, Return, Goto, TypeOK
    <3>2. depth[c] = Len(t) - 1
      BY <1>0, <2>1 DEF DepthInv
    <3>3. made[c] \subseteq Parents(t)
      BY <2>1, <3>2 DEF WayBy, Parents
    <3>4. node[t] \in {"link", "dir", "hard"}
      BY <2>3 DEF Writable
    <3>5. WayBy(c)'
      BY <3>1 DEF WayBy
    <3>6. CauseOf(c)'
      BY <2>1, <3>1, <3>4 DEF CauseOf
    <3>7. MadeInUse(c)'
      BY <1>0, <2>1, <3>3, <3>4 DEF MadeInUse
    <3> QED
      BY <3>5, <3>6, <3>7
  <2> QED
    BY <2>2, <2>3
<1>7. CASE Open(c)
  BY <1>0, <1>7 DEF Open, Goto, TypeOK, WayBy, CauseOf, MadeInUse
<1>8. CASE OpenFails(c)
  <2>1. /\ pc[c] = "open" /\ result'[c] = "obstructed" /\ pc'[c] = "idle"
        /\ target' = target /\ node' = node
    BY <1>0, <1>8 DEF OpenFails, Return, Goto, TypeOK, fsVars
  <2>2. depth[c] = Len(t) - 1
    BY <1>0, <2>1 DEF DepthInv
  <2>3. \A q \in Parents(t) : node[q] = "dir"
    BY <2>1, <2>2 DEF WayBy, Parents
  <2>4. node[t] = "dir"
    BY <1>8, <2>3 DEF OpenFails
  <2>5. WayBy(c)' /\ MadeInUse(c)'
    BY <2>1 DEF WayBy, MadeInUse
  <2>6. CauseOf(c)'
    BY <2>1, <2>4 DEF CauseOf
  <2> QED
    BY <2>5, <2>6
<1>9. CASE Write(c)
  BY <1>0, <1>9 DEF Write, Return, Goto, TypeOK, WayBy, CauseOf, MadeInUse
<1>10. CASE WriteFails(c)
  <2>1. result'[c] = "denied" /\ pc'[c] = "idle"
    BY <1>0, <1>10 DEF WriteFails, Return, Goto, TypeOK
  <2>2. ~Quiet("write")'
    BY <1>0, <1>10, FaultFacts DEF WriteFails, FaultKinds
  <2> QED
    BY <2>1, <2>2 DEF WayBy, CauseOf, MadeInUse
<1>11. CASE Resolve(c) \/ ResolveFails(c)
  <2>1. /\ pc[c] = "resolve" /\ target' = target /\ node' = node
        /\ made' = made /\ depth' = depth /\ result[c] = "none"
    BY <1>11 DEF Resolve, ResolveFails, fsVars, WayBy
  <2>2. \A q \in Parents(ThisDir(c)) \cup {ThisDir(c)} : node[q] = "dir"
    BY <1>0, <2>1, ThisDirFacts DEF WayBy
  <2>3. Found(ThisDir(c)) /\ Contained(ThisDir(c))
    BY <2>2 DEF Found, Contained
  <2>4. pc'[c] \in {"walk", "target"} /\ result' = result
    BY <1>0, <1>11, <2>3 DEF Resolve, ResolveFails, Goto, TypeOK
  <2> QED
    BY <2>1, <2>4 DEF WayBy, CauseOf, MadeInUse
<1>12. CASE MakeDirDenied(c) \/ AccessDenied(c)
  <2>1. result'[c] = "denied" /\ pc'[c] = "idle"
    BY <1>0, <1>12, Denial DEF Goto, TypeOK
  <2>2. ~Quiet("denied")'
    BY <1>0, <1>12, Denial, FaultFacts DEF FaultKinds
  <2> QED
    BY <2>1, <2>2 DEF WayBy, CauseOf, MadeInUse
<1> QED
  BY <1>1, <1>2, <1>3, <1>4, <1>5, <1>6, <1>7, <1>8, <1>9, <1>10, <1>11, <1>12
     DEF CallStep

(* Every step keeps the causes. *)
LEMMA StepCauseInv == IInv /\ CauseInv /\ [Next]_vars => CauseInv'
<1> SUFFICES ASSUME IInv, CauseInv, [Next]_vars, Quiet("removal")',
                    NEW d \in Calls
             PROVE  WayBy(d)' /\ CauseOf(d)' /\ MadeInUse(d)'
  BY DEF CauseInv
<1>1. /\ TypeOK /\ DepthInv
      /\ Quiet("removal")
      /\ \A q \in Paths : node[q] # "none" => node'[q] = node[q]
      /\ ~Quiet("write") => ~Quiet("write")'
      /\ ~Quiet("denied") => ~Quiet("denied")'
  BY NothingGoes DEF IInv
<1>2. WayBy(d) /\ CauseOf(d) /\ MadeInUse(d)
  BY <1>1 DEF CauseInv
<1>3. ASSUME NEW c \in Calls, CallStep(c)
      PROVE  WayBy(d)' /\ CauseOf(d)' /\ MadeInUse(d)'
  <2>1. CASE d = c
    BY <1>2, <1>3, <2>1, OwnStep
  <2>2. CASE d # c
    <3>1. /\ pc'[d] = pc[d] /\ depth'[d] = depth[d] /\ target'[d] = target[d]
          /\ made'[d] = made[d] /\ result'[d] = result[d]
      BY <1>3, <2>2, OthersUntouched
    <3> QED
      BY <1>1, <1>2, <3>1, OthersStay
  <2> QED
    BY <2>1, <2>2
<1>4. ASSUME Removal PROVE FALSE
  BY <1>1, <1>4, FaultFacts DEF Removal, FaultKinds
<1>5. CASE Crash
  BY <1>5 DEF Crash, WayBy, CauseOf, MadeInUse
<1>6. CASE UNCHANGED vars
  BY <1>1, <1>2, <1>6, OthersStay DEF vars
<1> QED
  BY <1>3, <1>4, <1>5, <1>6 DEF Next

(* A save is refused or obstructed by what is on its path, and denied by the
   system alone: it never fails because others save at the same time. *)
THEOREM FailuresHaveCause == Spec => []FailureHasCause
<1>1. Init => CauseInv
  BY DEF Init, CauseInv, WayBy, CauseOf, MadeInUse
<1>2. CauseInv => FailureHasCause
  BY DEF CauseInv, FailureHasCause
<1> QED
  BY <1>1, <1>2, StepCauseInv, Invariant, PTL DEF Spec

(* A refusal leaves no directory of its own making empty. *)
THEOREM RefusalsLeaveNoEmptyDir == Spec => []RefusalLeavesNoEmptyDir
<1>1. Init => CauseInv
  BY DEF Init, CauseInv, WayBy, CauseOf, MadeInUse
<1>2. CauseInv => RefusalLeavesNoEmptyDir
  BY DEF CauseInv, RefusalLeavesNoEmptyDir
<1> QED
  BY <1>1, <1>2, StepCauseInv, Invariant, PTL DEF Spec

(***************************************************************************)
(* Saved files                                                             *)
(***************************************************************************)

(* An image written over a file that was cut to nothing is the file. *)
LEMMA WrittenWhole == ASSUME NEW c \in Calls PROVE Overwrite(<<>>, Image(c)) = Image(c)
<1>1. Len(Image(c)) \in Nat /\ Len(<<>>) = 0
  BY SizeAssumption DEF Image
<1> QED
  BY <1>1 DEF Overwrite

(* The call that takes a step: it opens a file of its own, and what it has
   saved is its image. *)
LEMMA OwnSave ==
  ASSUME IInv, NEW c \in Calls, CallStep(c), SavedBy(c)
  PROVE  SavedBy(c)'
<1>0. TypeOK /\ WalkedInv /\ target[c] \in Paths
  BY DEF IInv, TypeOK
<1>1. CASE Begin(c)
  BY <1>0, <1>1 DEF Begin, Goto, TypeOK, SavedBy
<1>2. CASE MakeRoot(c) \/ MakeDir(c)
  <2>1. /\ target' = target /\ fd[c] = "none" /\ fd'[c] = "none"
        /\ pc[c] # "idle" /\ pc'[c] # "write" /\ result'[c] # "saved"
        /\ pc'[c] = "idle" \/ result'[c] = "none"
    BY <1>0, <1>2 DEF MakeRoot, MakeDir, Goto, TypeOK, SavedBy
  <2> QED
    BY <2>1 DEF SavedBy
<1>3. CASE \/ Resolve(c) \/ ResolveFails(c) \/ CheckDir(c) \/ MakeDirFails(c)
           \/ CheckTarget(c) \/ OpenFails(c) \/ MakeDirDenied(c) \/ AccessDenied(c)
  <2>1. pc[c] \notin {"idle", "write"} /\ target' = target
    BY <1>3, Denial DEF Resolve, ResolveFails, CheckDir, MakeDirFails,
       CheckTarget, OpenFails
  <2>2. fd' = fd \/ fd' = [fd EXCEPT ![c] = "none"]
    BY <1>3, Denial DEF Resolve, ResolveFails, CheckDir, MakeDirFails,
       CheckTarget, OpenFails, Return
  <2>3. \/ /\ result' = result
           /\ pc'[c] # "write"
        \/ pc'[c] = "idle" /\ result'[c] \in {"refused", "obstructed", "denied"}
    BY <1>0, <1>3, Denial DEF Resolve, ResolveFails, CheckDir, MakeDirFails,
       CheckTarget, OpenFails, Return, Goto, TypeOK
  <2> QED
    BY <1>0, <2>1, <2>2, <2>3 DEF SavedBy, TypeOK
<1>4. CASE Open(c)
  <2>1. node[target[c]] \in {"none", "file"}
    BY <1>0, <1>4 DEF Open, WalkedInv, WalkedBy, TypeOK, Kinds
  <2>2. /\ target' = target /\ pc[c] = "open" /\ pc'[c] = "write"
        /\ fd'[c] = "live" /\ result'[c] = result[c]
    BY <1>0, <1>4 DEF Open, Goto, TypeOK
  <2>3. node'[target[c]] = "file" /\ data'[target[c]] = <<>>
    BY <1>0, <1>4, <2>1 DEF Open, Opened, TypeOK
  <2> QED
    BY <2>2, <2>3 DEF SavedBy
<1>5. CASE Write(c)
  <2>1. /\ target' = target /\ node' = node /\ faults' = faults /\ pc[c] = "write"
        /\ pc'[c] = "idle" /\ fd'[c] = "none" /\ result'[c] = "saved"
    BY <1>0, <1>5 DEF Write, Return, Goto, TypeOK
  <2>2. CASE fd[c] = "live"
    <3>1. data'[target[c]] = Image(c) /\ node[target[c]] = "file"
      BY <1>0, <1>5, <2>2, WrittenWhole DEF Write, SavedBy, TypeOK
    <3> QED
      BY <2>1, <3>1 DEF SavedBy
  <2>3. CASE fd[c] = "lost"
    BY <2>1, <2>3 DEF SavedBy, Quiet
  <2> QED
    BY <1>0, <2>1, <2>2, <2>3 DEF SavedBy, TypeOK
<1>6. CASE WriteFails(c)
  <2>1. /\ target' = target /\ pc[c] = "write"
        /\ pc'[c] = "idle" /\ fd'[c] = "none" /\ result'[c] = "denied"
    BY <1>0, <1>6 DEF WriteFails, Return, Goto, TypeOK
  <2> QED
    BY <2>1 DEF SavedBy
<1> QED
  BY <1>1, <1>2, <1>3, <1>4, <1>5, <1>6 DEF CallStep

(* A file at the target of a call stays as it is in the steps of a call that
   saves elsewhere, and no file appears there. *)
LEMMA TargetUntouched ==
  ASSUME IInv, NEW c \in Calls, CallStep(c), NEW p \in Paths,
         pc[c] # "idle" => target[c] # p
  PROVE  /\ node[p] = "file" => node'[p] = "file" /\ data'[p] = data[p]
         /\ node[p] # "file" => node'[p] # "file"
         /\ ~Quiet("removal") => ~Quiet("removal")'
<1>0. TypeOK
  BY DEF IInv
<1>1. CASE \/ Begin(c) \/ Resolve(c) \/ ResolveFails(c) \/ CheckDir(c)
           \/ MakeDirFails(c) \/ CheckTarget(c) \/ OpenFails(c)
  BY <1>1 DEF Begin, Resolve, ResolveFails, CheckDir, MakeDirFails, CheckTarget,
     OpenFails, fsVars, Quiet
<1>2. CASE MakeRoot(c) \/ MakeDir(c)
  BY <1>2 DEF MakeRoot, MakeDir, MakeDirs, Quiet
<1>3. CASE Open(c)
  <2>1. /\ target[c] # p /\ faults' = faults
        /\ node' = [node EXCEPT ![target[c]] = IF @ = "none" THEN "file" ELSE @]
        /\ data' = [data EXCEPT ![target[c]] = Opened(@)]
    BY <1>3 DEF Open
  <2> QED
    BY <1>0, <2>1 DEF TypeOK, Quiet
<1>4. CASE Write(c)
  <2>1. /\ target[c] # p /\ faults' = faults /\ node' = node
        /\ data' = [data EXCEPT ![target[c]] = Overwrite(@, Image(c))] \/ data' = data
    BY <1>4 DEF Write
  <2> QED
    BY <1>0, <2>1 DEF TypeOK, Quiet
<1>5. CASE WriteFails(c)
  <2>1. PICK n \in 0..(Size[c] - 1) :
          data' = IF fd[c] = "live"
                  THEN [data EXCEPT ![target[c]] =
                          Overwrite(@, SubSeq(Image(c), 1, n))]
                  ELSE data
    BY <1>5 DEF WriteFails
  <2>2. target[c] # p /\ node' = node /\ faults' = [faults EXCEPT !["write"] = @ + 1]
    BY <1>5 DEF WriteFails, Fault
  <2>3. data'[p] = data[p]
    BY <1>0, <2>1, <2>2 DEF TypeOK
  <2>4. faults'["removal"] = faults["removal"]
    BY <1>0, <2>2 DEF TypeOK, FaultKinds
  <2> QED
    BY <2>2, <2>3, <2>4 DEF Quiet
<1>6. CASE MakeDirDenied(c) \/ AccessDenied(c)
  <2>1. /\ data' = data
        /\ node'[p] = node[p] \/ (node[p] = "none" /\ node'[p] = "dir")
        /\ faults'["removal"] = faults["removal"]
    BY <1>0, <1>6, Denial, FaultFacts DEF FaultKinds
  <2> QED
    BY <2>1 DEF Quiet
<1> QED
  BY <1>1, <1>2, <1>3, <1>4, <1>5, <1>6 DEF CallStep

(* A removal takes a file away, also from the call that has it open. *)
LEMMA RemovalSave ==
  ASSUME IInv, Removal, NEW c \in Calls, SavedBy(c)
  PROVE  SavedBy(c)'
<1>0. TypeOK /\ target[c] \in Paths
  BY DEF IInv, TypeOK
<1>1. PICK p \in Paths :
        /\ node' = [node EXCEPT ![p] = "none"]
        /\ data' = [data EXCEPT ![p] = <<>>]
        /\ fd' = [d \in Calls |->
                    IF fd[d] = "live" /\ target[d] = p THEN "lost" ELSE fd[d]]
  BY DEF Removal
<1>2. UNCHANGED <<pc, target, result>>
  BY DEF Removal
<1>3. ~Quiet("removal")'
  <2>1. faults' = [faults EXCEPT !["removal"] = @ + 1]
    BY DEF Removal, Fault
  <2>2. faults["removal"] \in Nat /\ faults \in [FaultKinds -> Nat]
    BY <1>0 DEF TypeOK, FaultKinds
  <2> QED
    BY <2>1, <2>2 DEF Quiet, FaultKinds
<1>4. CASE target[c] = p
  BY <1>0, <1>1, <1>2, <1>3, <1>4 DEF SavedBy, TypeOK
<1>5. CASE target[c] # p
  BY <1>0, <1>1, <1>2, <1>3, <1>5 DEF SavedBy, TypeOK
<1> QED
  BY <1>4, <1>5

(* Every step keeps what the calls have saved. *)
LEMMA StepSavedInv ==
  ASSUME OwnTargets PROVE IInv /\ SavedInv /\ [Next]_vars => SavedInv'
<1> SUFFICES ASSUME IInv, SavedInv, [Next]_vars, NEW d \in Calls
             PROVE  SavedBy(d)'
  BY DEF SavedInv
<1>0. TypeOK /\ SavedBy(d) /\ target[d] \in Paths
  BY DEF IInv, SavedInv, TypeOK
<1>1. ASSUME NEW c \in Calls, CallStep(c)
      PROVE  SavedBy(d)'
  <2>1. CASE d = c
    BY <1>0, <1>1, <2>1, OwnSave
  <2>2. CASE d # c
    <3>1. /\ pc'[d] = pc[d] /\ target'[d] = target[d]
          /\ result'[d] = result[d] /\ fd'[d] = fd[d]
      BY <1>1, <2>2, OthersUntouched
    <3>2. CASE pc[d] = "idle" /\ result[d] = "none"
      BY <1>0, <3>1, <3>2 DEF SavedBy
    <3>3. CASE pc[d] # "idle" \/ result[d] # "none"
      <4>1. pc[c] # "idle" => target[c] # target[d]
        BY <1>0, <2>2, <3>3 DEF OwnTargets, SavedInv, SavedBy
      <4>2. /\ node[target[d]] = "file" =>
                 node'[target[d]] = "file" /\ data'[target[d]] = data[target[d]]
            /\ node[target[d]] # "file" => node'[target[d]] # "file"
            /\ ~Quiet("removal") => ~Quiet("removal")'
        BY <1>0, <1>1, <4>1, TargetUntouched
      <4> QED
        BY <1>0, <3>1, <4>2 DEF SavedBy
    <3> QED
      BY <3>2, <3>3
  <2> QED
    BY <2>1, <2>2
<1>2. CASE Removal
  BY <1>0, <1>2, RemovalSave
<1>3. CASE Crash
  BY <1>3 DEF Crash, SavedBy
<1>4. CASE UNCHANGED vars
  BY <1>0, <1>4 DEF vars, fsVars, SavedBy, Quiet
<1> QED
  BY <1>1, <1>2, <1>3, <1>4 DEF Next

(* When no two calls save to the same path, the path and the size of a reply
   are true of the file, whatever the calls do together, as long as nothing has
   removed it. *)
THEOREM SavedFilesWhole == ASSUME OwnTargets PROVE Spec => []SavedFileWhole
<1>1. Init => SavedInv
  BY DEF Init, SavedInv, SavedBy
<1>2. SavedInv => SavedFileWhole
  BY DEF SavedInv, SavedBy, SavedFileWhole
<1> QED
  BY <1>1, <1>2, StepSavedInv, Invariant, PTL DEF Spec

(* With targets that calls may share, a settled file begins with an image.  An
   image that is written over anything is its beginning. *)
LEMMA WrittenFirst ==
  ASSUME NEW c \in Calls, NEW S, NEW a \in Seq(S)
  PROVE  /\ Len(Overwrite(a, Image(c))) >= Size[c]
         /\ SubSeq(Overwrite(a, Image(c)), 1, Size[c]) = Image(c)
<1> DEFINE b == Image(c)
           T == S \cup {c}
<1>1. Size[c] \in Nat
  BY SizeAssumption
<1>2. b \in Seq(T) /\ Len(b) = Size[c] /\ a \in Seq(T)
  BY <1>1 DEF Image
<1> HIDE DEF b
<1>3. CASE Len(b) >= Len(a)
  BY <1>1, <1>2, <1>3 DEF Overwrite, b
<1>4. CASE Len(b) < Len(a)
  <2> DEFINE tail == SubSeq(a, Len(b) + 1, Len(a))
  <2>1. tail \in Seq(T) /\ Len(tail) \in Nat
    BY <1>2
  <2>2. Overwrite(a, b) = b \o tail
    <3>1. ~(Len(b) >= Len(a))
      BY <1>1, <1>2, <1>4
    <3> QED
      BY <3>1, Zenon DEF Overwrite
  <2> HIDE DEF tail
  <2>3. SubSeq(b \o tail, 1, Len(b)) = b /\ Len(b \o tail) >= Len(b)
    BY <1>2, <2>1
  <2> QED
    BY <1>2, <2>2, <2>3 DEF b
<1> QED
  BY <1>2, <1>3, <1>4

(* A file keeps its beginning, or the call that is writing it, when neither
   changes. *)
LEMMA HeadKept ==
  ASSUME TypeOK, NEW p \in Paths, HeadBy(p),
         node'[p] = "file" => node[p] = "file" /\ data'[p] = data[p],
         \A d \in Calls : fd[d] = "live" /\ target[d] = p
                            => fd'[d] = "live" /\ target'[d] = p
  PROVE  HeadBy(p)'
  BY DEF HeadBy, HeadWhole, BeginsWith, Image

(* Every step keeps the beginnings: one step per group of actions that treat the
   files alike. *)
LEMMA StepHeadInv == IInv /\ HeadInv /\ [Next]_vars => HeadInv'
<1> SUFFICES ASSUME IInv, HeadInv, [Next]_vars PROVE HeadInv'
  OBVIOUS
<1>0. TypeOK
  BY DEF IInv
<1> DEFINE Calm == Quiet("write") /\ Quiet("crash")
           Kept == Calm' => Calm /\ \A p \in Paths : HeadBy(p)'
           Closed == \A c \in Calls : fd'[c] # "none" => pc'[c] = "write"
<1>1. ASSUME NEW c \in Calls, Begin(c) PROVE Kept /\ Closed
  <2>1. /\ UNCHANGED <<node, data, fd, faults>> /\ fd[c] = "none" /\ pc'[c] = "root"
        /\ \A d \in Calls \ {c} : target'[d] = target[d] /\ pc'[d] = pc[d]
    BY <1>0, <1>1 DEF Begin, Goto, fsVars, TypeOK, HeadInv
  <2> QED
    BY <1>0, <2>1, HeadKept DEF HeadInv, Quiet
<1>2. ASSUME NEW c \in Calls,
             \/ MakeRoot(c) \/ MakeDir(c)
             \/ Resolve(c) \/ ResolveFails(c) \/ CheckDir(c) \/ MakeDirFails(c)
             \/ CheckTarget(c) \/ OpenFails(c) \/ MakeDirDenied(c) \/ AccessDenied(c)
      PROVE Kept /\ Closed
  <2>1. /\ pc[c] # "write" /\ UNCHANGED <<data, target>>
        /\ fd' = fd \/ fd' = [fd EXCEPT ![c] = "none"]
    BY <1>2, Denial DEF MakeRoot, MakeDir, Resolve, ResolveFails, CheckDir,
       MakeDirFails, CheckTarget, OpenFails, Return, fsVars
  <2>2. fd' = fd /\ fd[c] = "none"
    BY <1>0, <2>1 DEF HeadInv, TypeOK
  <2>3. \A d \in Calls \ {c} : pc'[d] = pc[d]
    BY <1>2, OthersUntouched DEF CallStep
  <2>4. \A p \in Paths : node'[p] = node[p] \/ node'[p] = "dir"
    <3>1. CASE MakeRoot(c) \/ MakeDir(c)
      BY <3>1 DEF MakeRoot, MakeDir, MakeDirs
    <3>2. CASE MakeDirDenied(c) \/ AccessDenied(c)
      BY <3>2, Denial
    <3> QED
      BY <1>2, <3>1, <3>2 DEF Resolve, ResolveFails, CheckDir, MakeDirFails,
         CheckTarget, OpenFails, fsVars
  <2>5. faults'["write"] = faults["write"] /\ faults'["crash"] = faults["crash"]
    <3>1. CASE MakeDirDenied(c) \/ AccessDenied(c)
      BY <1>0, <3>1, Denial, FaultFacts DEF FaultKinds
    <3> QED
      BY <1>2, <3>1 DEF MakeRoot, MakeDir, Resolve, ResolveFails, CheckDir,
         MakeDirFails, CheckTarget, OpenFails
  <2> QED
    BY <1>0, <2>1, <2>2, <2>3, <2>4, <2>5, HeadKept DEF HeadInv, Quiet
<1>3. ASSUME NEW c \in Calls, Open(c) PROVE Kept /\ Closed
  <2>1. /\ UNCHANGED <<target, faults>> /\ fd' = [fd EXCEPT ![c] = "live"]
        /\ pc' = [pc EXCEPT ![c] = "write"]
        /\ \A p \in Paths \ {target[c]} : node'[p] = node[p] /\ data'[p] = data[p]
    BY <1>0, <1>3 DEF Open, Goto, TypeOK
  <2>2. fd'[c] = "live" /\ \A d \in Calls : fd[d] = "live" => fd'[d] = "live"
    BY <1>0, <2>1 DEF TypeOK
  <2>3. Calm => \A p \in Paths \ {target[c]} : HeadBy(p)'
    BY <1>0, <2>1, <2>2, HeadKept DEF HeadInv
  <2>4. HeadBy(target[c])'
    BY <2>1, <2>2 DEF HeadBy
  <2>5. Closed
    BY <1>0, <2>1 DEF HeadInv, TypeOK
  <2> QED
    BY <2>1, <2>3, <2>4, <2>5 DEF HeadBy, Quiet
<1>4. ASSUME NEW c \in Calls, Write(c) PROVE Kept /\ Closed
  <2>1. /\ UNCHANGED <<node, target, faults>> /\ fd' = [fd EXCEPT ![c] = "none"]
        /\ pc' = [pc EXCEPT ![c] = "idle"]
        /\ data' = IF fd[c] = "live"
                   THEN [data EXCEPT ![target[c]] = Overwrite(@, Image(c))]
                   ELSE data
    BY <1>0, <1>4 DEF Write, Return, Goto
  <2>2. Closed
    BY <1>0, <2>1 DEF HeadInv, TypeOK
  <2>3. ASSUME Calm, NEW p \in Paths PROVE HeadBy(p)'
    <3>0. HeadBy(p)
      BY <2>3 DEF HeadInv
    <3>1. CASE fd[c] = "live" /\ target[c] = p
      <4>1. /\ data[p] \in Seq(Calls \cup {"old"})
            /\ data'[p] = Overwrite(data[p], Image(c))
        BY <1>0, <2>1, <3>1 DEF TypeOK
      <4>2. Len(data'[p]) >= Size[c] /\ SubSeq(data'[p], 1, Size[c]) = Image(c)
        BY <4>1, WrittenFirst
      <4> QED
        BY <4>2 DEF HeadBy, HeadWhole, BeginsWith, Image
    <3>2. CASE ~(fd[c] = "live" /\ target[c] = p)
      <4>1. node'[p] = node[p] /\ data'[p] = data[p]
        BY <1>0, <2>1, <3>2 DEF TypeOK
      <4>2. \A d \in Calls : fd[d] = "live" /\ target[d] = p
                              => fd'[d] = "live" /\ target'[d] = p
        BY <1>0, <2>1, <3>2 DEF TypeOK
      <4> QED
        BY <1>0, <3>0, <4>1, <4>2, HeadKept
    <3> QED
      BY <3>1, <3>2
  <2> QED
    BY <2>1, <2>2, <2>3 DEF Quiet
<1>5. ASSUME NEW c \in Calls, WriteFails(c) PROVE Kept /\ Closed
  <2>1. ~Quiet("write")'
    BY <1>0, <1>5, FaultFacts DEF WriteFails, FaultKinds
  <2>2. fd' = [fd EXCEPT ![c] = "none"] /\ pc' = [pc EXCEPT ![c] = "idle"]
    BY <1>5 DEF WriteFails, Return, Goto
  <2> QED
    BY <1>0, <2>1, <2>2 DEF HeadInv, TypeOK
<1>6. CASE Removal
  <2>1. PICK p \in Paths :
          /\ node' = [node EXCEPT ![p] = "none"]
          /\ data' = [data EXCEPT ![p] = <<>>]
          /\ fd' = [d \in Calls |->
                      IF fd[d] = "live" /\ target[d] = p THEN "lost" ELSE fd[d]]
    BY <1>6 DEF Removal
  <2>2. UNCHANGED <<pc, target>> /\ Fault("removal")
    BY <1>6 DEF Removal
  <2>3. faults'["write"] = faults["write"] /\ faults'["crash"] = faults["crash"]
    BY <1>0, <2>2, FaultFacts DEF FaultKinds
  <2>4. HeadBy(p)'
    BY <1>0, <2>1 DEF HeadBy, TypeOK
  <2>5. Calm => \A q \in Paths \ {p} : HeadBy(q)'
    <3>1. \A q \in Paths \ {p} : node'[q] = node[q] /\ data'[q] = data[q]
      BY <1>0, <2>1 DEF TypeOK
    <3> QED
      BY <1>0, <2>1, <2>2, <3>1, HeadKept DEF HeadInv
  <2>6. Closed
    BY <1>0, <2>1, <2>2 DEF HeadInv, TypeOK
  <2> QED
    BY <2>3, <2>4, <2>5, <2>6 DEF Quiet, HeadInv
<1>7. CASE Crash
  <2>1. ~Quiet("crash")'
    BY <1>0, <1>7, FaultFacts DEF Crash, FaultKinds
  <2> QED
    BY <1>7, <2>1 DEF Crash, HeadInv
<1>8. CASE UNCHANGED vars
  BY <1>0, <1>8, HeadKept DEF vars, fsVars, HeadInv, Quiet
<1>9. (\E c \in Calls : CallStep(c)) => Kept /\ Closed
  BY <1>1, <1>2, <1>3, <1>4, <1>5 DEF CallStep
<1> QED
  BY <1>6, <1>7, <1>8, <1>9 DEF Next, HeadInv

(* However many saves to one path run together, a settled file begins with the
   whole image of one of them. *)
THEOREM SavedHeadsWhole == Spec => []SavedHeadWhole
<1>1. Init => HeadInv
  BY DEF Init, HeadInv, HeadBy, HeadWhole, Trees
<1>2. HeadInv => SavedHeadWhole
  BY DEF HeadInv, HeadBy, SavedHeadWhole, Settled
<1> QED
  BY <1>1, <1>2, StepHeadInv, Invariant, PTL DEF Spec

(***************************************************************************)
(* Broken files                                                            *)
(***************************************************************************)

(* Whether a file is broken is read off its entry, its content and who has it
   open. *)
LEMMA BrokenByEntry ==
  ASSUME NEW p \in Paths, p \in Broken', node'[p] = node[p], data'[p] = data[p],
         \A c \in Calls : fd[c] = "live" /\ target[c] = p
                            => fd'[c] = "live" /\ target'[c] = p
  PROVE  p \in Broken
BY DEF Broken, Settled, Whole

(* The steps of a call other than a failed write break no file: one that it
   opens is not settled, and one that it writes is whole.  A failed write breaks
   the file of that call. *)
LEMMA CallBreaks ==
  ASSUME IInv, SavedInv, NEW c \in Calls, CallStep(c)
  PROVE  \/ /\ Broken' \subseteq Broken
            /\ faults'["write"] = faults["write"]
            /\ faults'["crash"] = faults["crash"]
         \/ /\ Broken' \subseteq Broken \cup {target[c]}
            /\ faults' = [faults EXCEPT !["write"] = @ + 1]
<1>0. TypeOK /\ SavedBy(c)
  BY DEF IInv, SavedInv
<1>1. CASE Begin(c)
  <2>1. UNCHANGED <<node, data, fd, faults>> /\ fd[c] # "live"
    BY <1>0, <1>1 DEF Begin, fsVars, SavedBy
  <2>2. \A d \in Calls : fd[d] = "live" => target'[d] = target[d]
    BY <1>0, <1>1, <2>1 DEF Begin, TypeOK
  <2> QED
    BY <2>1, <2>2, BrokenByEntry DEF Broken
<1>2. CASE MakeRoot(c) \/ MakeDir(c)
  <2>1. /\ UNCHANGED <<data, target, faults>>
        /\ \A d \in Calls : fd[d] = "live" => fd'[d] = "live"
    BY <1>0, <1>2 DEF MakeRoot, MakeDir, Return, TypeOK, SavedBy
  <2>2. \A p \in Paths : node'[p] = "file" => node[p] = "file"
    BY <1>2 DEF MakeRoot, MakeDir, MakeDirs
  <2>3. \A p \in Broken' : node'[p] = "file" /\ p \in Paths
    BY DEF Broken, Settled
  <2> QED
    BY <2>1, <2>2, <2>3, BrokenByEntry
<1>3. CASE \/ Resolve(c) \/ ResolveFails(c) \/ CheckDir(c) \/ MakeDirFails(c)
           \/ CheckTarget(c) \/ OpenFails(c)
  <2>1. /\ UNCHANGED <<node, data, target, faults>>
        /\ \A d \in Calls : fd[d] = "live" => fd'[d] = "live"
    BY <1>0, <1>3 DEF Resolve, ResolveFails, CheckDir, MakeDirFails, CheckTarget,
       OpenFails, Return, fsVars, TypeOK, SavedBy
  <2> QED
    BY <2>1, BrokenByEntry DEF Broken
<1>4. CASE Open(c)
  <2>1. /\ UNCHANGED <<target, faults>>
        /\ fd' = [fd EXCEPT ![c] = "live"]
        /\ \A p \in Paths \ {target[c]} : node'[p] = node[p] /\ data'[p] = data[p]
    BY <1>0, <1>4 DEF Open, TypeOK
  <2>2. \A d \in Calls : fd[d] = "live" => fd'[d] = "live"
    BY <1>0, <2>1 DEF TypeOK
  <2>3. target[c] \notin Broken'
    BY <1>0, <2>1 DEF Broken, Settled, TypeOK
  <2>4. Broken' \subseteq Paths
    BY DEF Broken
  <2> QED
    BY <2>1, <2>2, <2>3, <2>4, BrokenByEntry
<1>5. CASE Write(c)
  <2>1. /\ UNCHANGED <<node, target, faults>> /\ pc[c] = "write"
        /\ fd' = [fd EXCEPT ![c] = "none"]
        /\ \A p \in Paths \ {target[c]} : data'[p] = data[p]
    BY <1>0, <1>5 DEF Write, Return, TypeOK
  <2>2. \A p \in Paths \ {target[c]} : p \in Broken' => p \in Broken
    BY <1>0, <2>1, BrokenByEntry DEF TypeOK
  <2>3. target[c] \notin Broken'
    <3>1. CASE fd[c] = "live"
      BY <1>0, <1>5, <3>1, WrittenWhole DEF Write, SavedBy, Broken, Whole, TypeOK
    <3>2. CASE fd[c] # "live"
      BY <1>0, <2>1, <3>2 DEF SavedBy, Broken, Settled, TypeOK
    <3> QED
      BY <3>1, <3>2
  <2>4. Broken' \subseteq Paths
    BY DEF Broken
  <2> QED
    BY <2>1, <2>2, <2>3, <2>4
<1>6. CASE WriteFails(c)
  <2>1. /\ UNCHANGED <<node, target>>
        /\ fd' = [fd EXCEPT ![c] = "none"]
        /\ faults' = [faults EXCEPT !["write"] = @ + 1]
        /\ \A p \in Paths \ {target[c]} : data'[p] = data[p]
    BY <1>0, <1>6 DEF WriteFails, Return, Fault, TypeOK
  <2>2. \A p \in Paths \ {target[c]} : p \in Broken' => p \in Broken
    BY <1>0, <2>1, BrokenByEntry DEF TypeOK
  <2>3. Broken' \subseteq Paths
    BY DEF Broken
  <2> QED
    BY <2>1, <2>2, <2>3
<1>7. CASE MakeDirDenied(c) \/ AccessDenied(c)
  <2>1. /\ UNCHANGED <<data, target>> /\ fd' = [fd EXCEPT ![c] = "none"]
        /\ pc[c] # "write"
        /\ \A q \in Paths : node'[q] = node[q] \/ node'[q] = "dir"
        /\ faults'["write"] = faults["write"] /\ faults'["crash"] = faults["crash"]
    BY <1>0, <1>7, Denial, FaultFacts DEF FaultKinds
  <2>2. \A d \in Calls : fd[d] = "live" => fd'[d] = "live"
    BY <1>0, <2>1 DEF TypeOK, SavedBy
  <2>3. \A p \in Broken' : node'[p] = "file" /\ p \in Paths
    BY DEF Broken, Settled
  <2>4. \A p \in Broken' : node'[p] = node[p]
    BY <2>1, <2>3
  <2> QED
    BY <2>1, <2>2, <2>3, <2>4, BrokenByEntry
<1> QED
  BY <1>1, <1>2, <1>3, <1>4, <1>5, <1>6, <1>7 DEF CallStep

(* A removal breaks no file: it takes one away. *)
LEMMA RemovalBreaksNone ==
  ASSUME IInv, Removal
  PROVE  /\ Broken' \subseteq Broken
         /\ faults'["write"] = faults["write"] /\ faults'["crash"] = faults["crash"]
<1>0. TypeOK
  BY DEF IInv
<1>1. PICK p \in Paths :
        /\ node' = [node EXCEPT ![p] = "none"]
        /\ data' = [data EXCEPT ![p] = <<>>]
        /\ fd' = [d \in Calls |->
                    IF fd[d] = "live" /\ target[d] = p THEN "lost" ELSE fd[d]]
  BY DEF Removal
<1>2. target' = target /\ faults' = [faults EXCEPT !["removal"] = @ + 1]
  BY DEF Removal, Fault
<1>3. p \notin Broken' /\ Broken' \subseteq Paths
  BY <1>0, <1>1 DEF Broken, Settled, TypeOK
<1>4. \A q \in Paths \ {p} : q \in Broken' => q \in Broken
  BY <1>0, <1>1, <1>2, BrokenByEntry DEF TypeOK
<1> QED
  BY <1>0, <1>2, <1>3, <1>4 DEF TypeOK, FaultKinds

(* A crash breaks the files the calls had open, one for a call. *)
LEMMA CrashBreaks ==
  ASSUME IInv, Crash
  PROVE  /\ Broken' \subseteq Broken \cup {target[c] : c \in Calls}
         /\ faults' = [faults EXCEPT !["crash"] = @ + 1]
<1>1. UNCHANGED <<node, data, target>>
  BY DEF Crash, fsVars
<1>2. \A p \in Paths : p \in Broken' => p \in Broken \/ \E c \in Calls : target[c] = p
  BY <1>1 DEF Broken, Settled, Whole
<1>3. Broken' \subseteq Paths
  BY DEF Broken
<1> QED
  BY <1>2, <1>3 DEF Crash, Fault

(* No more files than calls have a call that saves to them. *)
LEMMA TargetsAreFew ==
  /\ IsFiniteSet({target[c] : c \in Calls})
  /\ Cardinality({target[c] : c \in Calls}) <= Cardinality(Calls)
<1> DEFINE T == {target[c] : c \in Calls}
           f == [c \in Calls |-> target[c]]
<1>1. f \in Surjection(Calls, T)
  BY DEF Surjection
<1> QED
  BY <1>1, CallsAssumption, FS_Surjection

(* The union of two finite sets has at most as many elements as both have. *)
LEMMA UnionIsSmall ==
  ASSUME NEW S, NEW A, NEW B, IsFiniteSet(A), IsFiniteSet(B), S \subseteq A \cup B
  PROVE  /\ IsFiniteSet(S)
         /\ Cardinality(S) <= Cardinality(A) + Cardinality(B)
         /\ Cardinality(S) \in Nat
<1>1. /\ IsFiniteSet(A \cup B) /\ IsFiniteSet(A \cap B)
      /\ Cardinality(A \cup B)
            = Cardinality(A) + Cardinality(B) - Cardinality(A \cap B)
  BY FS_Union, FS_Intersection
<1>2. IsFiniteSet(S) /\ Cardinality(S) <= Cardinality(A \cup B)
  BY <1>1, FS_Subset
<1>3. /\ Cardinality(A) \in Nat /\ Cardinality(B) \in Nat
      /\ Cardinality(A \cap B) \in Nat /\ Cardinality(S) \in Nat
  BY <1>1, <1>2, FS_CardinalityType
<1> QED
  BY <1>1, <1>2, <1>3

(* There are finitely many broken files, and each is paid for by a fault. *)
BrokenInv == IsFiniteSet(Broken) /\ BrokenFilesAccounted

LEMMA StepBrokenInv == IInv /\ SavedInv /\ BrokenInv /\ [Next]_vars => BrokenInv'
<1> SUFFICES ASSUME IInv, SavedInv, BrokenInv, [Next]_vars PROVE BrokenInv'
  OBVIOUS
<1> DEFINE N == Cardinality(Calls)
<1>0. /\ faults["write"] \in Nat /\ faults["crash"] \in Nat /\ N \in Nat
      /\ faults \in [FaultKinds -> Nat] /\ Cardinality(Broken) \in Nat
  BY CallsAssumption, FS_CardinalityType DEF IInv, TypeOK, FaultKinds, BrokenInv
<1>1. ASSUME Broken' \subseteq Broken,
             faults'["write"] = faults["write"], faults'["crash"] = faults["crash"]
      PROVE  BrokenInv'
  <2>1. IsFiniteSet(Broken') /\ Cardinality(Broken') <= Cardinality(Broken)
    BY <1>1, FS_Subset DEF BrokenInv
  <2>2. Cardinality(Broken') \in Nat
    BY <2>1, FS_CardinalityType
  <2>3. faults["crash"] * N \in Nat
    BY <1>0
  <2> QED
    BY <1>0, <1>1, <2>1, <2>2, <2>3 DEF BrokenInv, BrokenFilesAccounted
<1>2. ASSUME NEW c \in Calls, CallStep(c)
      PROVE  BrokenInv'
  <2>1. CASE /\ Broken' \subseteq Broken
             /\ faults'["write"] = faults["write"]
             /\ faults'["crash"] = faults["crash"]
    BY <1>1, <2>1
  <2>2. CASE /\ Broken' \subseteq Broken \cup {target[c]}
             /\ faults' = [faults EXCEPT !["write"] = @ + 1]
    <3>1. IsFiniteSet({target[c]}) /\ Cardinality({target[c]}) = 1
      BY FS_Singleton
    <3>2. /\ IsFiniteSet(Broken') /\ Cardinality(Broken') \in Nat
          /\ Cardinality(Broken') <= Cardinality(Broken) + 1
      BY <2>2, <3>1, UnionIsSmall DEF BrokenInv
    <3>3. faults'["write"] = faults["write"] + 1 /\ faults'["crash"] = faults["crash"]
      BY <1>0, <2>2 DEF FaultKinds
    <3>4. faults["crash"] * N \in Nat
      BY <1>0
    <3> QED
      BY <1>0, <3>2, <3>3, <3>4 DEF BrokenInv, BrokenFilesAccounted
  <2> QED
    BY <1>2, <2>1, <2>2, CallBreaks
<1>3. CASE Removal
  BY <1>1, <1>3, RemovalBreaksNone
<1>4. CASE Crash
  <2>1. /\ IsFiniteSet(Broken') /\ Cardinality(Broken') \in Nat
        /\ Cardinality(Broken')
             <= Cardinality(Broken) + Cardinality({target[c] : c \in Calls})
    BY <1>4, CrashBreaks, TargetsAreFew, UnionIsSmall DEF BrokenInv
  <2>2. /\ Cardinality({target[c] : c \in Calls}) <= N
        /\ Cardinality({target[c] : c \in Calls}) \in Nat
    BY TargetsAreFew, FS_CardinalityType
  <2>3. faults'["write"] = faults["write"] /\ faults'["crash"] = faults["crash"] + 1
    BY <1>0, <1>4, CrashBreaks DEF FaultKinds
  <2>4. (faults["crash"] + 1) * N = faults["crash"] * N + N /\ faults["crash"] * N \in Nat
    BY <1>0
  <2> QED
    BY <1>0, <2>1, <2>2, <2>3, <2>4 DEF BrokenInv, BrokenFilesAccounted
<1>5. CASE UNCHANGED vars
  <2>1. Broken' = Broken /\ faults' = faults
    BY <1>5 DEF vars, fsVars, Broken, Settled, Whole
  <2> QED
    BY <1>1, <2>1
<1> QED
  BY <1>2, <1>3, <1>4, <1>5 DEF Next

(* When no two calls save to the same path, files that hold part of an image are
   no more than the writes that failed or were cut off by a crash. *)
THEOREM BrokenFilesAreFew == ASSUME OwnTargets PROVE Spec => []BrokenFilesAccounted
<1>1. Init => SavedInv
  BY DEF Init, SavedInv, SavedBy
<1>2. Init => BrokenInv
  <2> SUFFICES ASSUME Init PROVE BrokenInv
    OBVIOUS
  <2>1. Broken = {}
    BY DEF Init, Broken, Settled, Whole
  <2>2. Cardinality(Calls) \in Nat
    BY CallsAssumption, FS_CardinalityType
  <2>3. faults["write"] = 0 /\ faults["crash"] = 0
    BY DEF Init, FaultKinds
  <2> QED
    BY <2>1, <2>2, <2>3, FS_EmptySet DEF BrokenInv, BrokenFilesAccounted
<1>3. BrokenInv => BrokenFilesAccounted
  BY DEF BrokenInv
<1> QED
  BY <1>1, <1>2, <1>3, StepSavedInv, StepBrokenInv, Invariant, PTL DEF Spec

(***************************************************************************)
(* The promise of SaveService                                              *)
(***************************************************************************)

(* Nothing turns into a link, or into a file with a second name. *)
LEMMA NothingLinks ==
  ASSUME IInv, [Next]_vars
  PROVE  \A q \in Paths : node'[q] # node[q] => node'[q] \in {"none", "dir", "file"}
<1>0. TypeOK
  BY DEF IInv
<1>1. ASSUME NEW c \in Calls, CallStep(c)
      PROVE  \A q \in Paths : node'[q] # node[q] => node'[q] \in {"dir", "file"}
  <2>1. CASE MakeRoot(c) \/ MakeDir(c)
    BY <2>1 DEF MakeRoot, MakeDir, MakeDirs
  <2>2. CASE Open(c)
    BY <1>0, <2>2 DEF Open, TypeOK
  <2>3. CASE \/ Begin(c) \/ Resolve(c) \/ ResolveFails(c) \/ CheckDir(c)
             \/ MakeDirFails(c) \/ CheckTarget(c) \/ OpenFails(c)
             \/ Write(c) \/ WriteFails(c)
    BY <2>3 DEF Begin, Resolve, ResolveFails, CheckDir, MakeDirFails, CheckTarget,
       OpenFails, Write, WriteFails, fsVars
  <2>4. CASE MakeDirDenied(c) \/ AccessDenied(c)
    BY <2>4, Denial
  <2> QED
    BY <1>1, <2>1, <2>2, <2>3, <2>4 DEF CallStep
<1>2. CASE Removal
  BY <1>0, <1>2 DEF Removal, TypeOK
<1>3. CASE Crash \/ UNCHANGED vars
  BY <1>3 DEF Crash, vars, fsVars
<1> QED
  BY <1>1, <1>2, <1>3 DEF Next

(* What a call opens is a file of the directory's alone, and stays so. *)
LEMMA StepPlainInv == IInv /\ PlainInv /\ [Next]_vars => PlainInv'
<1> SUFFICES ASSUME IInv, PlainInv, [Next]_vars, NEW d \in Calls, pc'[d] = "write"
             PROVE  node'[target'[d]] \notin {"link", "hard"}
  BY DEF PlainInv
<1>0. TypeOK /\ WalkedInv /\ target[d] \in Paths
  BY DEF IInv, TypeOK
<1>1. CASE pc[d] = "write" /\ target'[d] = target[d]
  <2>1. node[target[d]] \notin {"link", "hard"}
    BY <1>1 DEF PlainInv
  <2> QED
    BY <1>0, <1>1, <2>1, NothingLinks
<1>2. ASSUME NEW c \in Calls, CallStep(c)
      PROVE  node'[target'[d]] \notin {"link", "hard"}
  <2>1. CASE d # c
    BY <1>1, <1>2, <2>1, OthersUntouched
  <2>2. CASE d = c /\ Open(d)
    <3>1. node[target[d]] \in {"none", "file"} /\ target' = target
      BY <1>0, <2>2 DEF Open, WalkedInv, WalkedBy, TypeOK, Kinds
    <3> QED
      BY <1>0, <2>2, <3>1 DEF Open, TypeOK
  <2>3. CASE d = c /\ ~Open(d)
    <3>1. pc'[d] # "write"
      <4>1. CASE MakeDirDenied(d) \/ AccessDenied(d)
        BY <1>0, <4>1, Denial DEF Goto, TypeOK
      <4>2. CASE MakeRoot(d) \/ Resolve(d) \/ ResolveFails(d) \/ CheckDir(d) \/ MakeDir(d)
        BY <1>0, <4>2 DEF MakeRoot, Resolve, ResolveFails, CheckDir, MakeDir,
           Return, Goto, TypeOK
      <4>3. CASE \/ Begin(d) \/ MakeDirFails(d) \/ CheckTarget(d) \/ OpenFails(d)
                 \/ Write(d) \/ WriteFails(d)
        BY <1>0, <4>3 DEF Begin, MakeDirFails, CheckTarget, OpenFails, Write,
           WriteFails, Return, Goto, TypeOK
      <4> QED
        BY <1>2, <2>3, <4>1, <4>2, <4>3 DEF CallStep
    <3> QED
      BY <3>1
  <2> QED
    BY <2>1, <2>2, <2>3
<1>3. CASE Removal \/ UNCHANGED vars
  BY <1>1, <1>3 DEF Removal, vars
<1>4. CASE Crash
  BY <1>4 DEF Crash
<1> QED
  BY <1>2, <1>3, <1>4 DEF Next

(* An image is not what was there before. *)
LEMMA ImageIsNew ==
  ASSUME NEW c \in Calls
  PROVE  Image(c) # Old /\ Image(c) # <<>> /\ Len(Image(c)) = Size[c]
<1>1. Size[c] \in Nat \ {0}
  BY SizeAssumption
<1>2. Len(Image(c)) = Size[c] /\ Image(c)[1] = c
  BY <1>1 DEF Image
<1>3. Old[1] = "old" /\ c # "old"
  BY CallsAssumption DEF Old
<1> QED
  BY <1>1, <1>2, <1>3

(* What is left of a write that stops part way is not an image, nor what was
   there before. *)
LEMMA PartIsPart ==
  ASSUME NEW c \in Calls, NEW n \in 0..(Size[c] - 1)
  PROVE  LET part == SubSeq(Image(c), 1, n) IN
         Overwrite(<<>>, part) = part /\ part # Old /\ part # Image(c)
<1> DEFINE part == SubSeq(Image(c), 1, n)
<1>1. Size[c] \in Nat \ {0} /\ n \in Nat /\ n < Size[c]
  BY SizeAssumption
<1>2. Image(c) \in Seq(Calls) /\ Len(Image(c)) = Size[c]
        /\ \A i \in 1..Size[c] : Image(c)[i] = c
  BY <1>1 DEF Image
<1>3. Len(part) = n /\ \A i \in 1..n : part[i] = c
  BY <1>1, <1>2
<1>4. part # Image(c)
  BY <1>1, <1>2, <1>3
<1>5. part # Old
  <2>1. Len(Old) = 2 /\ Old[1] = "old" /\ c # "old"
    BY CallsAssumption DEF Old
  <2>2. CASE n = 0
    BY <1>3, <2>1, <2>2
  <2>3. CASE n # 0
    <3>1. part[1] = c
      BY <1>1, <1>3, <2>3
    <3> QED
      BY <2>1, <3>1
  <2> QED
    BY <2>2, <2>3
<1>6. Overwrite(<<>>, part) = part
  BY <1>1, <1>3 DEF Overwrite
<1> QED
  BY <1>4, <1>5, <1>6

(* What a reader finds is the same while the node and the file are, and whether a
   directory is there or nothing. *)
LEMMA ContentKept ==
  ASSUME NEW p \in Paths, node[p] \in Kinds,
         node'[p] = node[p] \/ {node[p], node'[p]} \subseteq {"none", "dir"},
         node[p] = "file" => data'[p] = data[p]
  PROVE  Content(p)' = Content(p)
<1>1. CASE node[p] = "file"
  BY <1>1 DEF Content, Image
<1>2. CASE node[p] # "file"
  BY <1>2 DEF Content, Kinds
<1> QED
  BY <1>1, <1>2

(* A reader sees no more of the saves than SaveService promises, when no two
   calls save to the same path: every step is one of its steps, or none. *)
THEOREM ImplementsSaveService == ASSUME OwnTargets PROVE Spec => SavesAsPromised
<1> DEFINE Places == [c \in Calls |-> Phase(pc[c])]
           Files == [p \in Paths |-> Content(p)]
<1>1. Init => Promise!Init
  <2> SUFFICES ASSUME Init PROVE Promise!Init
    OBVIOUS
  <2>1. Places = [c \in Calls |-> "idle"]
    BY DEF Init, Phase
  <2>2. target \in [Calls -> Paths]
    BY PathsAssumption DEF Init
  <2>3. Files \in [Paths -> {"none", "old", "foreign"}]
    <3>1. ASSUME NEW p \in Paths PROVE Content(p) \in {"none", "old", "foreign"}
      BY DEF Init, Trees, Kinds, Content
    <3> QED
      BY <3>1
  <2> QED
    BY <2>1, <2>2, <2>3 DEF Init, Promise!Init, Promise!Contents
<1>2. IInv /\ SavedInv /\ PlainInv /\ [Next]_vars => [Promise!Next]_(Promise!vars)
  <2> SUFFICES ASSUME IInv, SavedInv, PlainInv, [Next]_vars
               PROVE  Promise!Next \/ UNCHANGED Promise!vars
    OBVIOUS
  <2>0. TypeOK
    BY DEF IInv
  <2>1. ASSUME NEW c \in Calls, NEW l \in Locations, Goto(c, l)
        PROVE  Places' = [Places EXCEPT ![c] = Phase(l)]
    BY <2>0, <2>1 DEF Goto, TypeOK
  <2>2. ASSUME node' = node, data' = data
        PROVE  Files' = Files
    BY <2>2 DEF Content, Image
  <2>3. ASSUME NEW c \in Calls, Begin(c) PROVE Promise!Ask(c)
    <3>1. Places[c] = "idle" /\ Places' = [Places EXCEPT ![c] = "asking"]
      BY <2>1, <2>3 DEF Begin, Phase, Locations
    <3>2. Files' = Files
      BY <2>2, <2>3 DEF Begin, fsVars
    <3> QED
      BY <2>3, <3>1, <3>2 DEF Begin, Promise!Ask, Promise!Enter, Promise!Say
  <2>4. ASSUME NEW c \in Calls, NEW p \in Paths, MakeDirs(c, p), data' = data
        PROVE  Files' = Files
    <3>1. ASSUME NEW q \in Paths PROVE Content(q)' = Content(q)
      <4>1. node[q] \in Kinds
        BY <2>0 DEF TypeOK
      <4>2. node'[q] = node[q] \/ {node[q], node'[q]} \subseteq {"none", "dir"}
        BY <2>4 DEF MakeDirs
      <4> QED
        BY <2>4, <4>1, <4>2, ContentKept
    <3> QED
      BY <3>1
  <2>5. ASSUME NEW c \in Calls,
               MakeRoot(c) \/ Resolve(c) \/ CheckDir(c) \/ MakeDir(c) \/ CheckTarget(c)
        PROVE  /\ Places[c] = "asking" /\ target' = target /\ Files' = Files
               /\ \/ /\ Places' = [Places EXCEPT ![c] = "asking"]
                     /\ result' = result
                  \/ /\ Places' = [Places EXCEPT ![c] = "idle"]
                     /\ result' = [result EXCEPT ![c] = "refused"]
    <3>1. Places[c] = "asking" /\ target' = target
      BY <2>5 DEF MakeRoot, Resolve, CheckDir, MakeDir, CheckTarget, Phase
    <3>2. Files' = Files
      <4>1. CASE MakeRoot(c)
        BY <2>4, <4>1, PathsAssumption DEF MakeRoot
      <4>2. CASE MakeDir(c)
        <5>1. NextDir(c) \in Paths
          BY <2>0, <4>2, NextDirContained DEF MakeDir, IInv
        <5> QED
          BY <2>4, <4>2, <5>1 DEF MakeDir
      <4>3. CASE Resolve(c) \/ CheckDir(c) \/ CheckTarget(c)
        BY <2>2, <4>3 DEF Resolve, CheckDir, CheckTarget, fsVars
      <4> QED
        BY <2>5, <4>1, <4>2, <4>3
    <3>3. \/ Goto(c, "walk") /\ result' = result
          \/ Goto(c, "mkdir") /\ result' = result
          \/ Goto(c, "resolve") /\ result' = result
          \/ Goto(c, "target") /\ result' = result
          \/ Goto(c, "open") /\ result' = result
          \/ Goto(c, "idle") /\ result' = [result EXCEPT ![c] = "refused"]
      BY <2>5 DEF MakeRoot, Resolve, CheckDir, MakeDir, CheckTarget, Return, Goto
    <3>4. /\ Phase("walk") = "asking" /\ Phase("mkdir") = "asking"
          /\ Phase("resolve") = "asking"
          /\ Phase("target") = "asking" /\ Phase("open") = "asking"
          /\ Phase("idle") = "idle"
          /\ {"resolve", "walk", "mkdir", "target", "open", "idle"} \subseteq Locations
      BY DEF Phase, Locations
    <3> HIDE DEF Places, Files
    <3> QED
      BY <2>1, <3>1, <3>2, <3>3, <3>4
  <2>6. ASSUME NEW c \in Calls,
               \/ ResolveFails(c) \/ MakeDirFails(c) \/ OpenFails(c)
               \/ MakeDirDenied(c) \/ AccessDenied(c)
        PROVE  Promise!Decline(c)
    <3>1. CASE ResolveFails(c) \/ MakeDirFails(c) \/ OpenFails(c)
      <4>1. Places[c] = "asking" /\ Places' = [Places EXCEPT ![c] = "idle"]
        BY <2>1, <3>1 DEF ResolveFails, MakeDirFails, OpenFails, Return, Phase,
           Locations
      <4>2. Files' = Files
        BY <2>2, <3>1 DEF ResolveFails, MakeDirFails, OpenFails, fsVars
      <4>3. target' = target /\ result' = [result EXCEPT ![c] = "obstructed"]
        BY <3>1 DEF ResolveFails, MakeDirFails, OpenFails, Return
      <4> QED
        BY <4>1, <4>2, <4>3 DEF Promise!Decline, Promise!Enter, Promise!Say
    <3>2. CASE MakeDirDenied(c) \/ AccessDenied(c)
      <4>1. Places[c] = "asking" /\ Places' = [Places EXCEPT ![c] = "idle"]
        BY <2>1, <3>2, Denial DEF Phase, Locations
      <4>2. Files' = Files
        <5>1. ASSUME NEW q \in Paths PROVE Content(q)' = Content(q)
          <6>1. node[q] \in Kinds /\ data' = data
            BY <2>0, <3>2, Denial DEF TypeOK
          <6>2. node'[q] = node[q] \/ {node[q], node'[q]} \subseteq {"none", "dir"}
            BY <3>2, Denial
          <6> QED
            BY <6>1, <6>2, ContentKept
        <5> QED
          BY <5>1
      <4>3. target' = target /\ result' = [result EXCEPT ![c] = "denied"]
        BY <3>2, Denial
      <4> QED
        BY <4>1, <4>2, <4>3 DEF Promise!Decline, Promise!Enter, Promise!Say
    <3> QED
      BY <2>6, <3>1, <3>2
  <2>7. ASSUME NEW c \in Calls, Open(c) PROVE Promise!Cut(c)
    <3>1. Places[c] = "asking" /\ Places' = [Places EXCEPT ![c] = "writing"]
      BY <2>1, <2>7 DEF Open, Phase, Locations
    <3>2. target[c] \in Paths /\ node[target[c]] \in {"none", "file"}
      BY <2>0, <2>7 DEF IInv, Open, WalkedInv, WalkedBy, TypeOK, Kinds
    <3>3. /\ node' = [node EXCEPT ![target[c]] = "file"]
          /\ data' = [data EXCEPT ![target[c]] = <<>>]
      BY <2>0, <2>7, <3>2 DEF Open, Opened, TypeOK
    <3>4. Files[target[c]] # "foreign"
      BY <3>2 DEF Content
    <3>5. Files' = [Files EXCEPT ![target[c]] = "part"]
      <4>1. ASSUME NEW p \in Paths, p # target[c] PROVE Content(p)' = Content(p)
        BY <2>0, <3>3, <4>1, ContentKept DEF TypeOK
      <4>2. Content(target[c])' = "part"
        <5>1. node'[target[c]] = "file" /\ data'[target[c]] = <<>> /\ target' = target
          BY <2>0, <2>7, <3>2, <3>3 DEF TypeOK, Open
        <5>2. \A d \in Calls : data'[target[c]] # Image(d)
          BY <5>1, ImageIsNew
        <5>3. data'[target[c]] # Old
          BY <5>1 DEF Old
        <5> QED
          BY <5>1, <5>2, <5>3 DEF Content, Image
      <4> QED
        BY <2>7, <3>2, <4>1, <4>2 DEF Open
    <3> QED
      BY <2>7, <3>1, <3>4, <3>5 DEF Open, Promise!Cut, Promise!Enter
  <2>8. ASSUME NEW c \in Calls, pc[c] = "write"
        PROVE  /\ target[c] \in Paths /\ target[c] \in Asks[c]
               /\ \/ /\ fd[c] = "live" /\ Files[target[c]] = "part"
                     /\ node[target[c]] = "file" /\ data[target[c]] = <<>>
                  \/ fd[c] = "lost" /\ Files[target[c]] = "none"
    <3>1. target[c] \in Paths /\ target[c] \in Asks[c] /\ fd[c] \in {"live", "lost"}
      BY <2>0, <2>8 DEF TypeOK, SavedInv, SavedBy
    <3>2. CASE fd[c] = "live"
      <4>1. node[target[c]] = "file" /\ data[target[c]] = <<>>
        BY <3>2 DEF SavedInv, SavedBy
      <4>2. \A d \in Calls : data[target[c]] # Image(d)
        BY <4>1, ImageIsNew
      <4>3. data[target[c]] # Old
        BY <4>1 DEF Old
      <4> QED
        BY <3>1, <3>2, <4>1, <4>2, <4>3 DEF Content
    <3>3. CASE fd[c] = "lost"
      <4>1. node[target[c]] \in {"none", "dir"}
        BY <2>0, <2>8, <3>1, <3>3 DEF TypeOK, Kinds, SavedInv, SavedBy, PlainInv
      <4> QED
        BY <3>1, <3>3, <4>1 DEF Content
    <3> QED
      BY <3>1, <3>2, <3>3
  <2>9. ASSUME NEW c \in Calls, pc[c] = "write", node' = node,
               NEW part, Overwrite(<<>>, part) = part,
               data' = IF fd[c] = "live"
                       THEN [data EXCEPT ![target[c]] = Overwrite(@, part)]
                       ELSE data
        PROVE  /\ \A p \in Paths \ {target[c]} : Content(p)' = Content(p)
               /\ fd[c] = "live" => data'[target[c]] = part
               /\ fd[c] = "lost" => Files' = Files
    <3>1. ASSUME NEW p \in Paths \ {target[c]} PROVE Content(p)' = Content(p)
      <4>1. data'[p] = data[p] /\ node[p] \in Kinds
        BY <2>0, <2>9 DEF TypeOK
      <4> QED
        BY <2>9, <4>1, ContentKept
    <3>2. fd[c] = "live" => data'[target[c]] = part
      <4> SUFFICES ASSUME fd[c] = "live" PROVE data'[target[c]] = part
        OBVIOUS
      <4>1. target[c] \in Paths /\ data[target[c]] = <<>>
        BY <2>8, <2>9
      <4>2. data'[target[c]] = Overwrite(data[target[c]], part)
        BY <2>0, <2>9, <4>1 DEF TypeOK
      <4> QED
        BY <2>9, <4>1, <4>2
    <3>3. fd[c] = "lost" => Files' = Files
      BY <2>2, <2>9
    <3> QED
      BY <3>1, <3>2, <3>3
  <2>10. ASSUME NEW c \in Calls, Write(c) PROVE Promise!Finish(c)
    <3>1. Places[c] = "writing" /\ Places' = [Places EXCEPT ![c] = "idle"]
      BY <2>1, <2>10 DEF Write, Return, Phase, Locations
    <3>2. pc[c] = "write" /\ target' = target /\ node' = node
            /\ result' = [result EXCEPT ![c] = "saved"]
      BY <2>10 DEF Write, Return
    <3>3. /\ \A p \in Paths \ {target[c]} : Content(p)' = Content(p)
          /\ fd[c] = "live" => data'[target[c]] = Image(c)
          /\ fd[c] = "lost" => Files' = Files
      BY <2>9, <2>10, <3>2, WrittenWhole DEF Write
    <3>4. target[c] \in Paths
      BY <2>8, <3>2
    <3>5. Files' = [Files EXCEPT ![target[c]] =
                      IF Files[target[c]] = "none" THEN "none" ELSE "image"]
      <4>1. CASE fd[c] = "live"
        <5>1. Files[target[c]] = "part" /\ node'[target[c]] = "file"
                /\ target[c] \in Asks[c]
          BY <2>8, <3>2, <4>1
        <5>2. Content(target[c])' = "image"
          <6>1. data'[target[c]] # Old
            BY <3>3, <4>1, ImageIsNew
          <6>2. data'[target[c]] = Image(c)'
            BY <3>3, <4>1 DEF Image
          <6> QED
            BY <3>2, <5>1, <6>1, <6>2 DEF Content
        <5> QED
          BY <3>2, <3>3, <3>4, <5>1, <5>2
      <4>2. CASE fd[c] = "lost"
        BY <2>8, <3>2, <3>3, <3>4, <4>2
      <4> QED
        BY <2>8, <3>2, <4>1, <4>2
    <3> HIDE DEF Files, Places
    <3> QED
      BY <3>1, <3>2, <3>5
         DEF Promise!Finish, Promise!Enter, Promise!Say, Places, Files
  <2>11. ASSUME NEW c \in Calls, WriteFails(c) PROVE Promise!Break(c)
    <3>1. Places[c] = "writing" /\ Places' = [Places EXCEPT ![c] = "idle"]
      BY <2>1, <2>11 DEF WriteFails, Return, Phase, Locations
    <3>2. pc[c] = "write" /\ target' = target /\ node' = node
            /\ result' = [result EXCEPT ![c] = "denied"]
      BY <2>11 DEF WriteFails, Return
    <3>3. PICK n \in 0..(Size[c] - 1) :
            data' = IF fd[c] = "live"
                    THEN [data EXCEPT ![target[c]] =
                            Overwrite(@, SubSeq(Image(c), 1, n))]
                    ELSE data
      BY <2>11 DEF WriteFails
    <3> DEFINE part == SubSeq(Image(c), 1, n)
    <3>4. Overwrite(<<>>, part) = part /\ part # Old /\ part # Image(c)
      BY PartIsPart
    <3> HIDE DEF part
    <3>5. /\ \A p \in Paths \ {target[c]} : Content(p)' = Content(p)
          /\ fd[c] = "live" => data'[target[c]] = part
          /\ fd[c] = "lost" => Files' = Files
      BY <2>9, <3>2, <3>3, <3>4 DEF part
    <3>6. Files' = Files
      <4>1. CASE fd[c] = "live"
        <5>1. Files[target[c]] = "part" /\ node'[target[c]] = "file"
                /\ target[c] \in Paths /\ target[c] \in Asks[c]
          BY <2>8, <3>2, <4>1
        <5>2. ASSUME NEW d \in Calls, target[c] \in Asks[d]
              PROVE  data'[target[c]] # Image(d)'
          <6>1. d = c
            BY <5>1, <5>2 DEF OwnTargets
          <6> QED
            BY <3>4, <3>5, <4>1, <6>1 DEF Image
        <5>3. Content(target[c])' = "part"
          BY <3>2, <3>4, <3>5, <4>1, <5>1, <5>2 DEF Content
        <5>4. Content(target[c]) = "part"
          BY <5>1
        <5>5. ASSUME NEW p \in Paths PROVE Content(p)' = Content(p)
          <6>1. CASE p = target[c]
            BY <3>2, <5>3, <5>4, <6>1 DEF Content
          <6>2. CASE p # target[c]
            BY <3>5, <6>2
          <6> QED
            BY <6>1, <6>2
        <5> QED
          BY <5>5
      <4>2. CASE fd[c] = "lost"
        BY <3>5, <4>2
      <4> QED
        BY <2>8, <3>2, <4>1, <4>2
    <3> HIDE DEF Files, Places
    <3> QED
      BY <3>1, <3>2, <3>6
         DEF Promise!Break, Promise!Enter, Promise!Say, Places, Files
  <2>12. ASSUME Removal PROVE \E p \in Paths : Promise!Remove(p)
    <3>1. PICK p \in Paths :
            /\ node[p] \in {"file", "dir"}
            /\ node' = [node EXCEPT ![p] = "none"]
            /\ data' = [data EXCEPT ![p] = <<>>]
            /\ UNCHANGED <<pc, target, result>>
      BY <2>12 DEF Removal
    <3>2. Files[p] # "foreign" /\ Content(p)' = "none"
      BY <2>0, <3>1 DEF Content, TypeOK
    <3>3. ASSUME NEW q \in Paths, q # p PROVE Content(q)' = Content(q)
      BY <2>0, <3>1, <3>3, ContentKept DEF TypeOK
    <3>4. Files' = [Files EXCEPT ![p] = "none"]
      BY <3>2, <3>3
    <3>5. Places' = Places
      BY <3>1
    <3> QED
      BY <3>1, <3>2, <3>4, <3>5 DEF Promise!Remove
  <2>13. ASSUME Crash PROVE Promise!Crash
    <3>1. Files' = Files
      BY <2>2, <2>13 DEF Crash, fsVars
    <3>2. Places' = [c \in Calls |-> "idle"]
      BY <2>13 DEF Crash, Phase
    <3> QED
      BY <2>13, <3>1, <3>2 DEF Crash, Promise!Crash
  <2>14. CASE UNCHANGED vars
    <3>1. Files' = Files
      BY <2>2, <2>14 DEF vars, fsVars
    <3> QED
      BY <2>14, <3>1 DEF vars, Promise!vars
  <2>15. ASSUME NEW c \in Calls, CallStep(c)
         PROVE  Promise!CallStep(c) \/ UNCHANGED Promise!vars
    <3>1. CASE MakeRoot(c) \/ Resolve(c) \/ CheckDir(c) \/ MakeDir(c) \/ CheckTarget(c)
      <4>1. CASE Places' = [Places EXCEPT ![c] = "asking"] /\ result' = result
        <5>1. Places' = Places
          BY <2>5, <3>1, <4>1
        <5>2. Files' = Files /\ target' = target
          BY <2>5, <3>1
        <5> QED
          BY <4>1, <5>1, <5>2 DEF Promise!vars
      <4>2. CASE /\ Places' = [Places EXCEPT ![c] = "idle"]
                 /\ result' = [result EXCEPT ![c] = "refused"]
        <5>1. Places[c] = "asking" /\ Files' = Files /\ target' = target
          BY <2>5, <3>1
        <5> HIDE DEF Places, Files
        <5>2. Promise!Decline(c)
          BY <4>2, <5>1 DEF Promise!Decline, Promise!Enter, Promise!Say, Places, Files
        <5> QED
          BY <5>2 DEF Promise!CallStep
      <4> QED
        BY <2>5, <3>1, <4>1, <4>2
    <3>2. CASE ~(MakeRoot(c) \/ Resolve(c) \/ CheckDir(c) \/ MakeDir(c) \/ CheckTarget(c))
      BY <2>3, <2>6, <2>7, <2>10, <2>11, <2>15, <3>2 DEF CallStep, Promise!CallStep
    <3> QED
      BY <3>1, <3>2
  <2> HIDE DEF Places, Files
  <2> QED
    BY <2>12, <2>13, <2>14, <2>15 DEF Next, Promise!Next
<1>3. Init => SavedInv /\ PlainInv
  BY DEF Init, SavedInv, SavedBy, PlainInv
<1>4. SavedInv /\ IInv /\ [Next]_vars => SavedInv'
  BY StepSavedInv
<1> QED
  BY <1>1, <1>2, <1>3, <1>4, StepPlainInv, Invariant, PTL
     DEF Spec, SavesAsPromised, Promise!Spec
=============================================================================

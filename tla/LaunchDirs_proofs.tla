-------------------------- MODULE LaunchDirs_proofs -------------------------
(***************************************************************************)
(* Profile directories are unique, and launches do not collide, on every   *)
(* machine that does not give a process id away twice.                     *)
(***************************************************************************)
EXTENDS LaunchDirs, TLAPS

(* A new server's id is one no directory was named after; the number a launch
   takes is one the counter had not passed: its directory is new. *)
LEMMA NewDir ==
  ASSUME IInv, NEW s \in Servers, Alive(s)
  PROVE  /\ DirName(pid[s], counter[s]) \notin taken
         /\ DirName(pid[s], counter[s]) \in Pids \X Nat
         /\ DirName(pid[s], counter[s]) # None
<1>1. pid[s] \in Pids /\ counter[s] \in Nat /\ pid[s] # 0
  BY DEF IInv, TypeOK, Alive
<1>2. ~(counter[s] < counter[s])
  BY <1>1
<1>3. DirName(pid[s], counter[s]) \notin taken
  BY <1>1, <1>2 DEF IInv, NumbersPassed, DirName
<1> QED
  BY <1>1, <1>3 DEF DirName, None

(* Nothing runs before the first server. *)
LEMMA InitIInv == Init => IInv
  BY NoPidAssumption DEF Init, IInv, TypeOK, IdsApart, NumbersPassed, DirsApart,
     NoCollision, Alive, None

(* Every step keeps the invariant. *)
LEMMA StepIInv == ~Recycled /\ IInv /\ [Next]_vars => IInv'
<1> SUFFICES ASSUME ~Recycled, IInv, [Next]_vars PROVE IInv'
  OBVIOUS
<1>1. ASSUME NEW s \in Servers, Start(s) PROVE IInv'
  <2>1. TypeOK'
    BY <1>1 DEF IInv, TypeOK, Start, Alive, None, InUse, Own, managerVars
  <2>2. IdsApart'
    BY <1>1 DEF IInv, IdsApart, TypeOK, Start, Alive, None, InUse, Own,
       managerVars
  <2>3. NumbersPassed'
    BY <1>1 DEF IInv, NumbersPassed, IdsApart, TypeOK, Start, Alive, None,
       InUse, Own, managerVars
  <2>4. DirsApart'
    BY <1>1 DEF IInv, DirsApart, TypeOK, Start, Alive, None, InUse, Own,
       managerVars
  <2>5. NoCollision'
    BY <1>1 DEF IInv, NoCollision, DirsApart, TypeOK, Start, Alive, None, InUse,
       Own, managerVars
  <2> QED
    BY <2>1, <2>2, <2>3, <2>4, <2>5 DEF IInv
<1>2. ASSUME NEW s \in Servers, Exit(s) PROVE IInv'
  <2>1. TypeOK'
    BY <1>2 DEF IInv, TypeOK, Exit, Alive, None, InUse, Own, managerVars
  <2>2. IdsApart'
    BY <1>2 DEF IInv, IdsApart, TypeOK, Exit, Alive, None, InUse, Own,
       managerVars
  <2>3. NumbersPassed'
    BY <1>2, NoPidAssumption DEF IInv, NumbersPassed, IdsApart, TypeOK, Exit,
       Alive, None, InUse, Own, managerVars
  <2>4. DirsApart'
    BY <1>2 DEF IInv, DirsApart, TypeOK, Exit, Alive, None, InUse, Own,
       managerVars
  <2>5. NoCollision'
    BY <1>2 DEF IInv, NoCollision, DirsApart, TypeOK, Exit, Alive, None, InUse,
       Own, managerVars
  <2> QED
    BY <2>1, <2>2, <2>3, <2>4, <2>5 DEF IInv
<1>3. ASSUME NEW m \in Managers, TakeNumber(m) PROVE IInv'
  <2> DEFINE s == Home[m]
             d == DirName(pid[s], counter[s])
  <2>1. s \in Servers /\ Alive(s)
    BY <1>3, HomeAssumption DEF TakeNumber
  <2>2. d \notin taken /\ d \in Pids \X Nat /\ d # None
    BY <2>1, NewDir
  <2>3. /\ dir' = [dir EXCEPT ![m] = d]
        /\ taken' = taken \cup {d}
        /\ counter' = [counter EXCEPT ![s] = @ + 1]
        /\ phase' = [phase EXCEPT ![m] = "launching"]
        /\ running' = running \ {dir[m]}
        /\ UNCHANGED <<pid, pids>>
    BY <1>3 DEF TakeNumber, Bumped
  <2>4. d[1] = pid[s] /\ d[2] = counter[s]
    BY DEF DirName
  <2> HIDE DEF d, s
  <2>5. TypeOK'
    BY <2>1, <2>2, <2>3 DEF IInv, TypeOK
  <2>6. IdsApart'
    BY <2>3 DEF IInv, IdsApart, Alive
  <2>7. NumbersPassed'
    <3> SUFFICES ASSUME NEW e \in taken'
                 PROVE  /\ e[1] \in pids
                        /\ \A t \in Servers : pid[t] = e[1] => e[2] < counter'[t]
      BY <2>3 DEF NumbersPassed
    <3>1. \A t \in Servers : counter[t] \in Nat /\ counter'[t] \in Nat
      BY <2>1, <2>3 DEF IInv, TypeOK
    <3>2. CASE e = d
      BY <2>1, <2>3, <2>4, <3>1, <3>2 DEF IInv, TypeOK, IdsApart, Alive
    <3>3. CASE e \in taken
      <4>1. e[2] \in Nat
        BY <3>3 DEF IInv, TypeOK
      <4> QED
        BY <2>1, <2>3, <3>1, <3>3, <4>1 DEF IInv, TypeOK, NumbersPassed
    <3> QED
      BY <2>3, <3>2, <3>3
  <2>8. DirsApart'
    BY <2>2, <2>3 DEF IInv, TypeOK, DirsApart
  <2>9. NoCollision'
    BY <2>2, <2>3 DEF IInv, TypeOK, DirsApart, NoCollision
  <2> QED
    BY <2>5, <2>6, <2>7, <2>8, <2>9 DEF IInv
<1>4. ASSUME NEW m \in Managers, ChromeStarts(m) PROVE IInv'
  <2>1. TypeOK'
    BY <1>4 DEF IInv, TypeOK, DirsApart, ChromeStarts, Alive, None, InUse, Own,
       managerVars
  <2>2. IdsApart'
    BY <1>4 DEF IInv, IdsApart, TypeOK, ChromeStarts, Alive, None, InUse, Own,
       managerVars
  <2>3. NumbersPassed'
    BY <1>4 DEF IInv, NumbersPassed, IdsApart, TypeOK, ChromeStarts, Alive,
       None, InUse, Own, managerVars
  <2>4. DirsApart'
    BY <1>4 DEF IInv, DirsApart, TypeOK, ChromeStarts, Alive, None, InUse, Own,
       managerVars
  <2>5. NoCollision'
    BY <1>4 DEF IInv, NoCollision, DirsApart, TypeOK, ChromeStarts, Alive, None,
       InUse, Own, managerVars
  <2> QED
    BY <2>1, <2>2, <2>3, <2>4, <2>5 DEF IInv
<1>5. ASSUME NEW m \in Managers, LaunchFails(m) PROVE IInv'
  <2>1. TypeOK'
    BY <1>5 DEF IInv, TypeOK, LaunchFails, Alive, None, InUse, Own, managerVars
  <2>2. IdsApart'
    BY <1>5 DEF IInv, IdsApart, TypeOK, LaunchFails, Alive, None, InUse, Own,
       managerVars
  <2>3. NumbersPassed'
    BY <1>5 DEF IInv, NumbersPassed, IdsApart, TypeOK, LaunchFails, Alive, None,
       InUse, Own, managerVars
  <2>4. DirsApart'
    BY <1>5 DEF IInv, DirsApart, TypeOK, LaunchFails, Alive, None, InUse, Own,
       managerVars
  <2>5. NoCollision'
    BY <1>5 DEF IInv, NoCollision, DirsApart, TypeOK, LaunchFails, Alive, None,
       InUse, Own, managerVars
  <2> QED
    BY <2>1, <2>2, <2>3, <2>4, <2>5 DEF IInv
<1>6. ASSUME ChromeEnds PROVE IInv'
  <2>1. TypeOK'
    BY <1>6 DEF IInv, TypeOK, ChromeEnds, Alive, None, InUse, Own, managerVars
  <2>2. IdsApart'
    BY <1>6 DEF IInv, IdsApart, TypeOK, ChromeEnds, Alive, None, InUse, Own,
       managerVars
  <2>3. NumbersPassed'
    BY <1>6 DEF IInv, NumbersPassed, IdsApart, TypeOK, ChromeEnds, Alive, None,
       InUse, Own, managerVars
  <2>4. DirsApart'
    BY <1>6 DEF IInv, DirsApart, TypeOK, ChromeEnds, Alive, None, InUse, Own,
       managerVars
  <2>5. NoCollision'
    BY <1>6 DEF IInv, NoCollision, DirsApart, TypeOK, ChromeEnds, Alive, None,
       InUse, Own, managerVars
  <2> QED
    BY <2>1, <2>2, <2>3, <2>4, <2>5 DEF IInv
<1>7. CASE UNCHANGED vars
  BY <1>7 DEF vars, managerVars, IInv, TypeOK, IdsApart, NumbersPassed,
     DirsApart,
     NoCollision, Alive
<1> QED
  BY <1>1, <1>2, <1>3, <1>4, <1>5, <1>6, <1>7 DEF Next, ManagerStep

(* The invariant, on a machine that does not recycle ids: the ids of the servers
   are apart, their counters have passed the numbers they have used, and so the
   directories of the launches are apart, whichever server makes them. *)
THEOREM Invariant ==
  ASSUME ~Recycled PROVE Spec => []IInv
<1>1. ~Recycled
  OBVIOUS
<1>2. IInv /\ [Next]_vars => IInv'
  BY <1>1, StepIInv
<1> QED
  BY <1>2, InitIInv, PTL DEF Spec

(* No launch is given a directory that an earlier launch had, whichever server
   made it and however many servers were killed and started since. *)
THEOREM DirsAreUnique ==
  ASSUME ~Recycled PROVE Spec => DirUnique
<1>1. IInv /\ [Next]_vars =>
        [\A m \in Managers :
           Given(m) => dir'[m] \notin taken]_vars
  <2> SUFFICES ASSUME IInv, Next, NEW m \in Managers, Given(m)
               PROVE  dir'[m] \notin taken
    BY DEF vars
  <2>1. dir \in [Managers -> (Pids \X Nat) \cup {None}]
    BY DEF IInv, TypeOK
  <2>2. ASSUME NEW n \in Managers, TakeNumber(n)
        PROVE  dir'[m] \notin taken
    BY <2>1, <2>2, NewDir, HomeAssumption DEF TakeNumber, Given
  <2>3. ASSUME NEW t \in Servers, Start(t) \/ Exit(t) PROVE FALSE
    BY <2>1, <2>3 DEF Start, Exit, Given, managerVars
  <2>4. ASSUME NEW n \in Managers,
               ChromeStarts(n) \/ LaunchFails(n)
        PROVE  FALSE
    BY <2>1, <2>4 DEF ChromeStarts, LaunchFails, Given
  <2>5. ASSUME ChromeEnds PROVE FALSE
    BY <2>5 DEF ChromeEnds, Given, managerVars
  <2> QED
    BY <2>2, <2>3, <2>4, <2>5 DEF Next, ManagerStep
<1> QED
  BY <1>1, Invariant, PTL DEF Spec, DirUnique

(* A browser being launched finds its directory free. *)
THEOREM LaunchesDoNotCollide ==
  ASSUME ~Recycled PROVE Spec => []NoCollision
<1>1. IInv => NoCollision
  BY DEF IInv
<1> QED
  BY <1>1, Invariant, PTL
=============================================================================

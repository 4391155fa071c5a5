----------------------------- MODULE LaunchDirs -----------------------------
(***************************************************************************)
(* The profile directories of Chrome: launch() of                          *)
(* src/operations/browser.rs names one after the process id and a counter  *)
(* that is static in the process, so that no two Chromes ever share one.   *)
(* Several servers run on a machine, each with several browser managers    *)
(* (in-process hosting builds a service per client); the managers of a     *)
(* server launch concurrently, each at most one at a time.                 *)
(*                                                                         *)
(* A server may exit or be killed at any time.  The operating system gives *)
(* its process id away again when Recycled, and never otherwise; a Chrome  *)
(* may outlive its server when Orphans.  The directories stay on the disk. *)
(***************************************************************************)
EXTENDS Naturals

CONSTANTS
  Servers,      \* places a server process can run in
  Managers,     \* the browser managers
  Home,         \* the place of the server each manager belongs to
  Pids,         \* the process ids of the machine
  Recycled,     \* may a process id be given to a later process?
  Orphans,      \* may a Chrome outlive the server that launched it?
  MaxLaunches   \* bound on the launches of one server process

ASSUME HomeAssumption == Home \in [Managers -> Servers]
ASSUME RecycledAssumption == Recycled \in BOOLEAN
ASSUME OrphansAssumption == Orphans \in BOOLEAN
ASSUME MaxLaunchesAssumption == MaxLaunches \in Nat
ASSUME NoPidAssumption == 0 \notin Pids

VARIABLES
  pid,        \* the process id of each server, 0 when it is not running
  pids,       \* process ids that were ever given out
  counter,    \* LAUNCH_SEQ of each server
  phase,      \* what each manager does: nothing, launch, hold a browser
  dir,        \* the directory of its browser, or None
  running,    \* the directories that a running Chrome uses
  taken       \* the directories that some launch was given

managerVars == <<phase, dir>>
vars == <<pid, pids, counter, managerVars, running, taken>>

None == <<0, 0>>

Alive(s) == pid[s] # 0
InUse == {pid[s] : s \in Servers}
Own(s) == {dir[m] : m \in {n \in Managers : Home[n] = s}}

Init ==
  /\ pid = [s \in Servers |-> 0]
  /\ pids = {}
  /\ counter = [s \in Servers |-> 0]
  /\ phase = [m \in Managers |-> "idle"]
  /\ dir = [m \in Managers |-> None]
  /\ running = {}
  /\ taken = {}

-----------------------------------------------------------------------------
\* The name of the directory: without the process id, and as it is.
NumberOnly(p, n) == <<1, n>>
DirName(p, n) == <<p, n>>

\* What a launch leaves in the counter: fetch_add adds one.
Unchanged(n) == n
Bumped(n) == n + 1

\* The system starts a server under a process id that is free.
Start(s) ==
  /\ ~Alive(s)
  /\ \E p \in Pids \ InUse :
       /\ Recycled \/ p \notin pids
       /\ pid' = [pid EXCEPT ![s] = p]
       /\ pids' = pids \cup {p}
  /\ counter' = [counter EXCEPT ![s] = 0]
  /\ UNCHANGED <<managerVars, running, taken>>

\* A manager that holds no browser, or gives up a dead one, takes a number and
\* names the directory after it.  Dropping the old browser ends its Chrome.
TakeNumber(m) ==
  /\ Alive(Home[m])
  /\ phase[m] # "launching"
  /\ counter[Home[m]] < MaxLaunches
  /\ LET d == DirName(pid[Home[m]], counter[Home[m]]) IN
       /\ dir' = [dir EXCEPT ![m] = d]
       /\ taken' = taken \cup {d}
  /\ counter' = [counter EXCEPT ![Home[m]] = Bumped(@)]
  /\ phase' = [phase EXCEPT ![m] = "launching"]
  /\ running' = running \ {dir[m]}
  /\ UNCHANGED <<pid, pids>>

\* Chrome starts on its directory.  Another one there holds its lock.
ChromeStarts(m) ==
  /\ phase[m] = "launching"
  /\ dir[m] \notin running
  /\ phase' = [phase EXCEPT ![m] = "holding"]
  /\ running' = running \cup {dir[m]}
  /\ UNCHANGED <<pid, pids, counter, dir, taken>>

\* It does not: the manager is left without a browser.
LaunchFails(m) ==
  /\ phase[m] = "launching"
  /\ phase' = [phase EXCEPT ![m] = "idle"]
  /\ dir' = [dir EXCEPT ![m] = None]
  /\ UNCHANGED <<pid, pids, counter, running, taken>>

\* The server ends.  Its Chromes end with it, or some of them do not.
Exit(s) ==
  /\ Alive(s)
  /\ pid' = [pid EXCEPT ![s] = 0]
  /\ phase' = [m \in Managers |-> IF Home[m] = s THEN "idle" ELSE phase[m]]
  /\ dir' = [m \in Managers |-> IF Home[m] = s THEN None ELSE dir[m]]
  /\ \E left \in SUBSET (running \cap Own(s)) :
       /\ Orphans \/ left = {}
       /\ running' = (running \ Own(s)) \cup left
  /\ UNCHANGED <<pids, counter, taken>>

\* A Chrome ends: a crash, a kill, or an orphan that is cleaned up.
ChromeEnds ==
  \E d \in running :
    /\ running' = running \ {d}
    /\ UNCHANGED <<pid, pids, counter, managerVars, taken>>

ManagerStep(m) ==
  TakeNumber(m) \/ ChromeStarts(m) \/ LaunchFails(m)

Next ==
  \/ \E s \in Servers : Start(s) \/ Exit(s)
  \/ \E m \in Managers : ManagerStep(m)
  \/ ChromeEnds

Spec == Init /\ [][Next]_vars
-----------------------------------------------------------------------------
(* What must hold *)

\* Every variable has its type.
TypeOK ==
  /\ pid \in [Servers -> Pids \cup {0}]
  /\ pids \subseteq Pids
  /\ counter \in [Servers -> Nat]
  /\ phase \in [Managers -> {"idle", "launching", "holding"}]
  /\ dir \in [Managers -> (Pids \X Nat) \cup {None}]
  /\ running \subseteq Pids \X Nat
  /\ taken \subseteq Pids \X Nat

\* "Unique profile dir per launch": no launch, of any manager of any server,
\* now or after a restart, is given a directory that a launch had before.
Given(m) == dir'[m] # dir[m] /\ dir'[m] # None
DirUnique ==
  [][\A m \in Managers : Given(m) => dir'[m] \notin taken]_vars

\* "Avoids the singleton-lock collision": a browser that is being launched
\* finds no other Chrome on its directory, nor another manager launching there.
NoCollision ==
  \A m, n \in Managers :
    phase[m] = "launching" =>
      /\ dir[m] \notin running
      /\ dir[m] = dir[n] => m = n

-----------------------------------------------------------------------------
(* The inductive invariant behind both, when ids are not recycled *)

\* Two servers that run have different ids.
IdsApart ==
  /\ \A s, t \in Servers : Alive(s) /\ pid[s] = pid[t] => s = t
  /\ \A s \in Servers : Alive(s) => pid[s] \in pids

\* A directory was taken under an id that was given out, and, while that id is
\* in use, under a number the counter has passed.
NumbersPassed ==
  \A d \in taken :
    /\ d[1] \in pids
    /\ \A s \in Servers : pid[s] = d[1] => d[2] < counter[s]

\* What runs, launches or is held was taken, and by one manager only.
DirsApart ==
  /\ running \subseteq taken
  /\ \A m \in Managers :
       /\ phase[m] # "idle" => dir[m] # None
       /\ dir[m] # None => dir[m] \in taken
  /\ \A m, n \in Managers :
       dir[m] = dir[n] /\ dir[m] # None => m = n

IInv == TypeOK /\ IdsApart /\ NumbersPassed /\ DirsApart /\ NoCollision
=============================================================================

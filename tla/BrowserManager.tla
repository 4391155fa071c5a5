--------------------------- MODULE BrowserManager ---------------------------
(***************************************************************************)
(* The browser manager of src/operations/browser.rs: one headless Chrome,  *)
(* launched on the first call, shared by every concurrent call, replaced   *)
(* when it is found dead.  A call takes the async mutex, makes sure a      *)
(* browser is there, opens a tab of its own, releases the mutex, works on  *)
(* the tab and closes it.                                                  *)
(*                                                                         *)
(* A slot is one place for a tool call in flight.  When the call returns   *)
(* the slot is idle and may carry another call, so the system never stops. *)
(* Launches are numbered from 1 (the code's counter returns n - 1 for      *)
(* launch n); 0 stands for "no browser" and "no page".                     *)
(*                                                                         *)
(* Chrome, its process and its DevTools connection are chromiumoxide's and *)
(* the operating system's: they are modelled from how browser.rs uses      *)
(* them.  Everything that goes wrong in them is counted in "faults" and    *)
(* bounded by MaxFaults, which is what keeps the model finite.             *)
(***************************************************************************)
EXTENDS Naturals, Sequences

CONSTANTS
  Slots,      \* the calls that may be in flight at the same time
  MaxFaults   \* bound on the faults of the environment in one behaviour

ASSUME MaxFaultsAssumption == MaxFaults \in Nat

VARIABLES
  pc,         \* where the call of each slot is
  queue,      \* the mutex: its holder, then its waiters in arrival order
  inner,      \* the launch held behind the mutex (inner: Option<Live>), or 0
  seq,        \* number of launches begun (LAUNCH_SEQ)
  up,         \* launches whose Chrome process runs
  pumping,    \* launches whose event-handler task has not finished
  page,       \* launch that the page handle of each slot belongs to, or 0
  open,       \* slots whose tab is open in a running Chrome
  stray,      \* tabs of the running Chrome that no call will close any more
  result,     \* what the call of each slot returns
  faults      \* how often each kind of fault has happened

browserVars == <<inner, seq, up, pumping>>
tabVars == <<page, open, stray>>
vars == <<pc, queue, browserVars, tabVars, result, faults>>

None == 0

Locations == {"idle", "queued", "launching", "opening", "working", "closing"}

\* The variants of WebMcpError a page operation can end with.
Failures == {"navigation", "browser", "timeout", "blocked", "invalid"}
Results == {"none", "ok"} \cup Failures

FaultKinds == {"death", "stream", "launch", "tab"}

Init ==
  /\ pc = [c \in Slots |-> "idle"]
  /\ queue = <<>>
  /\ inner = None
  /\ seq = 0
  /\ up = {}
  /\ pumping = {}
  /\ page = [c \in Slots |-> None]
  /\ open = {}
  /\ stray = 0
  /\ result = [c \in Slots |-> "none"]
  /\ faults = [k \in FaultKinds |-> 0]

-----------------------------------------------------------------------------
(* Helpers *)

Goto(c, l) == pc' = [pc EXCEPT ![c] = l]

\* The mutex is fair: the longest waiter gets it when it is released.  (The
\* first form is no mutex; KeepLocked below, a lock that is not released.)
AnyWaiterEnters(c) == c \in {queue[i] : i \in 1..Len(queue)}
HasLock(c) == queue # <<>> /\ Head(queue) = c

KeepLocked == UNCHANGED queue
Unlock == queue' = Tail(queue)

\* Chrome answers a command only while it runs and its events are pumped.
Answers(l) == l \in up \cap pumping

\* The test new_tab makes: nothing held, or its handler task is finished.
\* (Before it: a test that relaunches for every call, and one that looks only
\* for a browser, not at it.)
AlwaysDead == TRUE
NeverNoticed == inner = None
Dead == inner = None \/ inner \notin pumping

\* The Chrome processes ls stop running, and their tabs go with them.  The
\* second form is a manager that forgets the old browser without ending it.
LeaveRunning(ls) == UNCHANGED <<up, open, stray>>
StopChromes(ls) ==
  /\ up' = up \ ls
  /\ open' = {c \in open : page[c] \notin ls}
  /\ stray' = IF up \cap ls = {} THEN stray ELSE 0

\* The environment spends one of its faults.
Fault(k) ==
  /\ faults["death"] + faults["stream"] + faults["launch"] + faults["tab"]
       < MaxFaults
  /\ faults' = [faults EXCEPT ![k] = @ + 1]

-----------------------------------------------------------------------------
(* One call: read() or screenshot() *)

\* A call begins: new_tab asks for the mutex.
Request(c) ==
  /\ pc[c] = "idle"
  /\ Goto(c, "queued")
  /\ queue' = Append(queue, c)
  /\ result' = [result EXCEPT ![c] = "none"]
  /\ UNCHANGED <<browserVars, tabVars, faults>>

\* The holder finds a browser whose handler task is running, and uses it.
Reuse(c) ==
  /\ pc[c] = "queued"
  /\ HasLock(c)
  /\ ~Dead
  /\ Goto(c, "opening")
  /\ UNCHANGED <<queue, browserVars, tabVars, result, faults>>

\* The holder finds none, or a dead one: it takes it out, aborts its handler
\* and drops it, which kills the process if it still runs; then it numbers
\* the new launch and starts it, the mutex still held.
StartLaunch(c) ==
  /\ pc[c] = "queued"
  /\ HasLock(c)
  /\ Dead
  /\ Goto(c, "launching")
  /\ StopChromes({inner})
  /\ pumping' = pumping \ {inner}
  /\ inner' = None
  /\ seq' = seq + 1
  /\ UNCHANGED <<queue, page, result, faults>>

\* Chrome is up: its handler task is spawned and the browser is stored.
LaunchOk(c) ==
  /\ pc[c] = "launching"
  /\ Goto(c, "opening")
  /\ inner' = seq
  /\ up' = up \cup {seq}
  /\ pumping' = pumping \cup {seq}
  /\ UNCHANGED <<queue, seq, tabVars, result, faults>>

\* No usable executable ("navigation") or no connection ("browser"): the
\* error leaves new_tab, so the mutex is released with nothing stored.
LaunchFails(c) ==
  /\ pc[c] = "launching"
  /\ Fault("launch")
  /\ Goto(c, "idle")
  /\ Unlock
  /\ \E f \in {"navigation", "browser"} : result' = [result EXCEPT ![c] = f]
  /\ UNCHANGED <<browserVars, tabVars>>

\* new_page answers: the call has its tab and gives the mutex back.
OpenTab(c) ==
  /\ pc[c] = "opening"
  /\ Answers(inner)
  /\ Goto(c, "working")
  /\ Unlock
  /\ page' = [page EXCEPT ![c] = inner]
  /\ open' = open \cup {c}
  /\ UNCHANGED <<browserVars, stray, result, faults>>

\* new_page fails.  A running Chrome may have opened the tab all the same
\* (a lost answer): then nobody holds a handle to close it with.
OpenFails(c) ==
  /\ pc[c] = "opening"
  /\ \/ UNCHANGED <<stray, faults>>
     \/ inner \in up /\ Fault("tab") /\ stray' = stray + 1
  /\ Goto(c, "idle")
  /\ Unlock
  /\ result' = [result EXCEPT ![c] = "browser"]
  /\ UNCHANGED <<browserVars, page, open>>

\* read_on_page or screenshot_on_page succeeds.
WorkOk(c) ==
  /\ pc[c] = "working"
  /\ Answers(page[c])
  /\ Goto(c, "closing")
  /\ result' = [result EXCEPT ![c] = "ok"]
  /\ UNCHANGED <<queue, browserVars, tabVars, faults>>

\* A page operation that returns early, before the tab is closed.
WorkFailsUnclosed(c) ==
  /\ pc[c] = "working"
  /\ Goto(c, "idle")
  /\ \E f \in Failures : result' = [result EXCEPT ![c] = f]
  /\ stray' = IF c \in open THEN stray + 1 ELSE stray
  /\ open' = open \ {c}
  /\ page' = [page EXCEPT ![c] = None]
  /\ UNCHANGED <<queue, browserVars, faults>>

\* It fails: a CDP error, the navigation timeout, or the recheck of the final
\* URL, which may be refused, not http, or have a host that does not resolve.
\* The tab is closed on this path too.
WorkFails(c) ==
  /\ pc[c] = "working"
  /\ Goto(c, "closing")
  /\ \E f \in Failures : result' = [result EXCEPT ![c] = f]
  /\ UNCHANGED <<queue, browserVars, tabVars, faults>>

\* The page closes and the call returns.
CloseTab(c) ==
  /\ pc[c] = "closing"
  /\ Answers(page[c])
  /\ Goto(c, "idle")
  /\ page' = [page EXCEPT ![c] = None]
  /\ open' = open \ {c}
  /\ UNCHANGED <<queue, browserVars, stray, result, faults>>

\* Closing fails and the failure is ignored: the result stands, and a tab
\* that is still open stays open.
CloseFails(c) ==
  /\ pc[c] = "closing"
  /\ \/ ~Answers(page[c]) /\ UNCHANGED faults
     \/ Answers(page[c]) /\ Fault("tab")
  /\ Goto(c, "idle")
  /\ page' = [page EXCEPT ![c] = None]
  /\ open' = open \ {c}
  /\ stray' = IF c \in open THEN stray + 1 ELSE stray
  /\ UNCHANGED <<queue, browserVars, result>>

-----------------------------------------------------------------------------
(* Chrome and its event stream *)

\* A crash, the out-of-memory killer or a user ends a Chrome process.
ChromeDies ==
  \E l \in up :
    /\ Fault("death")
    /\ StopChromes({l})
    /\ UNCHANGED <<pc, queue, inner, seq, pumping, page, result>>

\* The handler task of a Chrome that is gone sees its stream end.  It may
\* take a while: until then the browser still looks alive.
StreamEnds ==
  \E l \in pumping \ up :
    /\ pumping' = pumping \ {l}
    /\ UNCHANGED <<pc, queue, inner, seq, up, tabVars, result, faults>>

\* The loop also stops at the first event that is an error, Chrome running.
StreamErrs ==
  \E l \in pumping \cap up :
    /\ Fault("stream")
    /\ pumping' = pumping \ {l}
    /\ UNCHANGED <<pc, queue, inner, seq, up, tabVars, result>>

-----------------------------------------------------------------------------
Ensure(c) == Reuse(c) \/ StartLaunch(c)
Launch(c) == LaunchOk(c) \/ LaunchFails(c)
Open(c) == OpenTab(c) \/ OpenFails(c)
Work(c) == WorkOk(c) \/ WorkFails(c)
Close(c) == CloseTab(c) \/ CloseFails(c)

CallStep(c) ==
  Request(c) \/ Ensure(c) \/ Launch(c) \/ Open(c) \/ Work(c) \/ Close(c)

Next ==
  \/ \E c \in Slots : CallStep(c)
  \/ ChromeDies
  \/ StreamEnds
  \/ StreamErrs

Spec == Init /\ [][Next]_vars

\* The runtime polls every task that is ready; chromiumoxide bounds a launch
\* and a command by timeouts of its own, so each ends in success or error.
\* Nothing is assumed of the work on a page.
TabFairness ==
  \A c \in Slots :
    WF_vars(Ensure(c)) /\ WF_vars(Launch(c)) /\ WF_vars(Open(c))

\* The work on a page, which may be any number of commands, ends too.
PageFairness == \A c \in Slots : WF_vars(Work(c)) /\ WF_vars(Close(c))

TabSpec == Spec /\ TabFairness

-----------------------------------------------------------------------------
(* What must hold *)

\* Every variable has its type; a call is in the mutex's queue at most once.
TypeOK ==
  /\ pc \in [Slots -> Locations]
  /\ queue \in Seq(Slots)
  /\ \A i, j \in 1..Len(queue) : queue[i] = queue[j] => i = j
  /\ inner \in Nat
  /\ seq \in Nat
  /\ up \subseteq Nat
  /\ pumping \subseteq Nat
  /\ page \in [Slots -> Nat]
  /\ open \subseteq Slots
  /\ stray \in Nat
  /\ result \in [Slots -> Results]
  /\ faults \in [FaultKinds -> Nat]

\* "A single Chrome instance": every Chrome process that runs is the one the
\* manager holds, whatever calls race for the first launch and however many
\* launches failed or browsers were dropped before.
OneBrowser == up \subseteq {inner}

\* Launching is expensive, so it happens once and then once per fault: calls
\* that find the browser dead together do not each launch one.
LaunchPerFault ==
  seq <= 1 + faults["death"] + faults["stream"] + faults["launch"]

\* While the held browser is pumped, the tabs left behind in it are no more
\* than the tab commands Chrome failed to answer: every path out of a page
\* operation, the failing ones too, closes the tab.
StrayTabsAccounted == inner \in pumping => stray <= faults["tab"]

\* A call never costs another one its tab: a tab in a browser that answers
\* goes away only when its own call closes it or the Chrome dies.
TabSpared(c) ==
  Answers(page[c]) /\ c \notin open' =>
    pc[c] = "closing" \/ faults'["death"] > faults["death"]
TabsSpared == [][\A c \in open : TabSpared(c)]_vars

\* "The browser lock is held only long enough to create the tab": a call that
\* asks for a tab gets one, or its error, even if the pages other calls work
\* on never finish.
QueuedGetsTab ==
  \A c \in Slots : pc[c] = "queued" ~> pc[c] \in {"working", "idle"}

\* "It is relaunched automatically if it dies": a browser whose handler has
\* finished is given up as soon as a call is waiting for a tab.
DeadBrowserReplaced ==
  \A l \in 1..(MaxFaults + 1) :
    (inner = l /\ l \notin pumping /\ \E c \in Slots : pc[c] = "queued")
      ~> inner # l

\* Every call returns, whatever fails on its way, if the pages come to an end.
EveryCallReturns ==
  PageFairness => \A c \in Slots : pc[c] = "queued" ~> pc[c] = "idle"

-----------------------------------------------------------------------------
(* The inductive invariant behind the safety properties *)

\* The mutex: whoever launches or opens a tab is at the head of the queue, and
\* nobody is in the queue who is not on the way to a tab.
MutexInv ==
  /\ \A c \in Slots : pc[c] \in {"launching", "opening"} => HasLock(c)
  /\ \A i \in 1..Len(queue) :
       pc[queue[i]] \in {"queued", "launching", "opening"}

\* What runs, and what is pumped, is the held browser; while one is being
\* launched nothing is held.
HeldInv ==
  /\ up \subseteq {inner} \ {None}
  /\ pumping \subseteq {inner} \ {None}
  /\ \A c \in Slots : pc[c] = "launching" => inner = None /\ seq > 0

\* Every launch but the current one has been paid for by a fault, and so has
\* the current one once it is not healthy any more.
Charged == faults["death"] + faults["stream"] + faults["launch"]
LaunchInv ==
  \/ seq <= Charged
  \/ /\ seq = Charged + 1
     /\ Answers(inner) \/ \E c \in Slots : pc[c] = "launching"

\* Tabs are open only in a running Chrome, and an open tab that a slot answers
\* for belongs to a call that has not closed it yet.
TabInv ==
  /\ \A c \in open : page[c] \in up /\ pc[c] \in {"working", "closing"}
  /\ up = {} => stray = 0

CoreInv ==
  TypeOK /\ MutexInv /\ HeldInv /\ LaunchInv /\ TabInv /\ StrayTabsAccounted

\* A page handle is of a launch
\* that has begun, and never of the one that is going on; so a call on a page
\* of a Chrome that runs still has its tab.
PageInv ==
  /\ inner <= seq
  /\ \A c \in Slots : page[c] <= seq
  /\ \A c, d \in Slots : pc[c] = "launching" => page[d] < seq
  /\ \A c \in Slots :
       pc[c] \in {"working", "closing"} /\ page[c] \in up => c \in open

IInv == CoreInv /\ PageInv

-----------------------------------------------------------------------------
(* The promise of TabService, which this module implements *)

\* Where a call is, seen from outside.
Phase ==
  [idle |-> "idle", queued |-> "asking", launching |-> "asking",
   opening |-> "asking", working |-> "using", closing |-> "leaving"]

Promise == INSTANCE TabService WITH
  phase <- [c \in Slots |-> Phase[pc[c]]],
  line <- queue,
  live <- {c \in open : Answers(page[c])},
  outages <- faults["death"] + faults["stream"],
  answer <- result

\* Whatever calls race, launches fail and browsers are replaced, the calls see
\* no more than the promise: tabs and errors in the order of asking, success
\* only on a tab that answers, no tab lost without a fault of Chrome.
TabsAsPromised == Promise!Spec

-----------------------------------------------------------------------------
(* What the comments of browser.rs say and the code does not do *)

\* browser.rs:12: "If Chrome dies (crash, OOM, external kill), the next
\* request transparently relaunches it": no call goes on with a dead Chrome.
DeadNotReused ==
  [][\A c \in Slots :
       pc[c] = "queued" /\ pc'[c] = "opening" => inner \in up]_vars
=============================================================================

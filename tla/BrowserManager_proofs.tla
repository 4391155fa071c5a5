------------------------ MODULE BrowserManager_proofs -----------------------
(***************************************************************************)
(* Proofs about BrowserManager, for every set of slots and every bound on  *)
(* the faults.                                                             *)
(***************************************************************************)
EXTENDS BrowserManager, TLAPS

\* What releasing the mutex leaves: the queue without its first element.
LEMMA TailFacts ==
  ASSUME NEW S, NEW q \in Seq(S), q # <<>>
  PROVE  /\ Tail(q) \in Seq(S)
         /\ Len(Tail(q)) = Len(q) - 1
         /\ \A i \in 1..Len(Tail(q)) : Tail(q)[i] = q[i + 1]
  OBVIOUS

\* What asking for it adds: one element at the end.
LEMMA AppendFacts ==
  ASSUME NEW S, NEW q \in Seq(S), NEW e \in S
  PROVE  /\ Append(q, e) \in Seq(S)
         /\ Len(Append(q, e)) = Len(q) + 1
         /\ \A i \in 1..Len(q) : Append(q, e)[i] = q[i]
         /\ Append(q, e)[Len(q) + 1] = e
  OBVIOUS

(* A call that is not on the way to a tab is not in the queue: asking for the
   mutex keeps the queue free of duplicates. *)
LEMMA RequestKeepsQueue ==
  ASSUME TypeOK, MutexInv, NEW c \in Slots, pc[c] = "idle",
         queue' = Append(queue, c)
  PROVE  /\ queue' \in Seq(Slots)
         /\ \A i, j \in 1..Len(queue') : queue'[i] = queue'[j] => i = j
<1>1. \A i \in 1..Len(queue) : queue[i] # c
  BY DEF MutexInv
<1>2. queue \in Seq(Slots) /\ Len(queue) \in Nat
  BY DEF TypeOK
<1>3. Len(queue') = Len(queue) + 1 /\ queue' \in Seq(Slots)
  BY <1>2, AppendFacts
<1>4. \A i \in 1..Len(queue') :
         queue'[i] = IF i = Len(queue) + 1 THEN c ELSE queue[i]
  BY <1>2, <1>3, AppendFacts
<1>5. ASSUME NEW i \in 1..Len(queue'), NEW j \in 1..Len(queue'),
             queue'[i] = queue'[j]
      PROVE  i = j
  BY <1>1, <1>2, <1>3, <1>4, <1>5 DEF TypeOK
<1> QED
  BY <1>3, <1>5

(* The holder leaves: the queue without it has no duplicates, and whoever is
   still in it is a waiter. *)
LEMMA UnlockKeepsMutex ==
  ASSUME TypeOK, MutexInv, NEW c \in Slots, HasLock(c), Unlock,
         NEW l \in {"idle", "working"}, Goto(c, l)
  PROVE  /\ queue' \in Seq(Slots)
         /\ \A i, j \in 1..Len(queue') : queue'[i] = queue'[j] => i = j
         /\ MutexInv'
<1>1. queue \in Seq(Slots) /\ queue # <<>> /\ c = queue[1]
  BY DEF TypeOK, HasLock
<1>2. /\ queue' \in Seq(Slots)
      /\ Len(queue) \in Nat /\ Len(queue) > 0 /\ Len(queue') = Len(queue) - 1
      /\ \A i \in 1..Len(queue') : queue'[i] = queue[i + 1]
  BY <1>1, TailFacts DEF Unlock
<1>3. \A i, j \in 1..Len(queue') : queue'[i] = queue'[j] => i = j
  <2> SUFFICES ASSUME NEW i \in 1..Len(queue'), NEW j \in 1..Len(queue'),
                      queue'[i] = queue'[j]
               PROVE  i = j
    OBVIOUS
  <2>1. queue[i + 1] = queue[j + 1] /\ i + 1 \in 1..Len(queue) /\ j + 1 \in 1..Len(queue)
    BY <1>2
  <2>2. i + 1 = j + 1
    BY <2>1 DEF TypeOK
  <2> QED
    BY <2>2, <1>2
<1>4. \A d \in Slots : pc'[d] = IF d = c THEN l ELSE pc[d]
  BY DEF TypeOK, Goto
<1>5. ASSUME NEW d \in Slots, pc'[d] \in {"launching", "opening"} PROVE FALSE
  <2>1. HasLock(d)
    BY <1>4, <1>5 DEF MutexInv
  <2> QED
    BY <2>1, <1>4, <1>5 DEF HasLock
<1>6. ASSUME NEW i \in 1..Len(queue')
      PROVE  pc'[queue'[i]] \in {"queued", "launching", "opening"}
  <2>1. i + 1 \in 1..Len(queue) /\ queue'[i] = queue[i + 1] /\ 1 \in 1..Len(queue)
    BY <1>2
  <2>2. queue[i + 1] \in Slots /\ queue[i + 1] # c
    BY <1>1, <2>1 DEF TypeOK
  <2> QED
    BY <1>4, <2>1, <2>2 DEF MutexInv
<1> QED
  BY <1>2, <1>3, <1>5, <1>6 DEF MutexInv

(* The invariant holds before the first call. *)
LEMMA InitCore == Init => CoreInv
  BY MaxFaultsAssumption DEF Init, CoreInv, TypeOK, MutexInv, HeldInv, LaunchInv,
     TabInv,
     StrayTabsAccounted, Charged, Locations, Results, FaultKinds, None

(* Every step keeps the invariant: one step per action, and under it one for
   each conjunct. *)
LEMMA StepCore == CoreInv /\ [Next]_vars => CoreInv'
<1> SUFFICES ASSUME CoreInv, [Next]_vars PROVE CoreInv'
  OBVIOUS
<1>1. ASSUME NEW c \in Slots, Request(c) PROVE CoreInv'
  <2>1. /\ queue' \in Seq(Slots)
        /\ \A i, j \in 1..Len(queue') : queue'[i] = queue'[j] => i = j
    BY <1>1, RequestKeepsQueue DEF CoreInv, Request
  <2>2. TypeOK'
    BY <1>1, <2>1 DEF CoreInv, TypeOK, Request, Goto, Results, Failures,
       Locations, tabVars, browserVars
  <2>3. MutexInv'
    BY <1>1, AppendFacts DEF CoreInv, MutexInv, TypeOK, Request, HasLock, Goto,
       FaultKinds, Results, Failures, Locations, tabVars, browserVars
  <2>4. HeldInv'
    BY <1>1 DEF CoreInv, HeldInv, TypeOK, Request, Goto, None, tabVars,
       browserVars
  <2>5. LaunchInv'
    BY <1>1 DEF CoreInv, LaunchInv, Charged, HeldInv, TypeOK, Request, Answers,
       Goto, FaultKinds, None, tabVars, browserVars
  <2>6. TabInv'
    BY <1>1 DEF CoreInv, TabInv, HeldInv, TypeOK, Request, Goto, None, tabVars,
       browserVars
  <2>7. StrayTabsAccounted'
    BY <1>1 DEF CoreInv, StrayTabsAccounted, Request, Goto, tabVars, browserVars
  <2>8. QED
    BY <2>1, <2>2, <2>3, <2>4, <2>5, <2>6, <2>7 DEF CoreInv
<1>2. ASSUME NEW c \in Slots, Reuse(c) PROVE CoreInv'
  <2>1. TypeOK'
    BY <1>2 DEF CoreInv, TypeOK, Reuse, Goto, Locations, None, tabVars,
       browserVars
  <2>2. MutexInv'
    BY <1>2 DEF CoreInv, MutexInv, TypeOK, Reuse, Dead, HasLock, Goto, None,
       tabVars, browserVars
  <2>3. HeldInv'
    BY <1>2 DEF CoreInv, HeldInv, TypeOK, Reuse, Dead, HasLock, Goto, None,
       tabVars, browserVars
  <2>4. LaunchInv'
    BY <1>2 DEF CoreInv, LaunchInv, Charged, HeldInv, TypeOK, Reuse, Dead,
       Answers, HasLock, Goto, FaultKinds, None, tabVars, browserVars
  <2>5. TabInv'
    BY <1>2 DEF CoreInv, TabInv, HeldInv, TypeOK, Reuse, Dead, HasLock, Goto,
       None, tabVars, browserVars
  <2>6. StrayTabsAccounted'
    BY <1>2 DEF CoreInv, StrayTabsAccounted, Reuse, Dead, HasLock, Goto, None,
       tabVars, browserVars
  <2>7. QED
    BY <2>1, <2>2, <2>3, <2>4, <2>5, <2>6 DEF CoreInv
<1>3. ASSUME NEW c \in Slots, StartLaunch(c) PROVE CoreInv'
  <2>1. TypeOK'
    BY <1>3 DEF CoreInv, TypeOK, StartLaunch, StopChromes, Goto, Locations, None
  <2>2. MutexInv'
    BY <1>3 DEF CoreInv, HeldInv, MutexInv, TypeOK, StartLaunch, StopChromes,
       Dead, HasLock, Goto, None
  <2>3. HeldInv'
    BY <1>3 DEF CoreInv, HeldInv, MutexInv, TypeOK, StartLaunch, StopChromes,
       Dead, HasLock, Goto, None
  <2>4. LaunchInv'
    <3>1. ~Answers(inner)
      BY <1>3 DEF CoreInv, HeldInv, StartLaunch, Dead, Answers
    <3>2. ASSUME NEW d \in Slots, pc[d] = "launching" PROVE FALSE
      BY <1>3, <3>2 DEF CoreInv, MutexInv, StartLaunch, HasLock
    <3>3. seq <= Charged
      BY <3>1, <3>2 DEF CoreInv, LaunchInv
    <3>4. pc'[c] = "launching" /\ seq' = seq + 1 /\ Charged' = Charged
      BY <1>3 DEF CoreInv, TypeOK, StartLaunch, Goto, Charged
    <3>5. seq \in Nat /\ Charged \in Nat
      BY DEF CoreInv, TypeOK, Charged, FaultKinds
    <3> QED
      BY <3>3, <3>4, <3>5 DEF LaunchInv
  <2>5. TabInv'
    BY <1>3 DEF CoreInv, TabInv, HeldInv, TypeOK, StartLaunch, StopChromes,
       Dead, HasLock, Goto, None
  <2>6. StrayTabsAccounted'
    BY <1>3 DEF CoreInv, TabInv, HeldInv, StrayTabsAccounted, TypeOK,
       StartLaunch, StopChromes, Dead, HasLock, Goto, FaultKinds, None
  <2>7. QED
    BY <2>1, <2>2, <2>3, <2>4, <2>5, <2>6 DEF CoreInv
<1>4. ASSUME NEW c \in Slots, LaunchOk(c) PROVE CoreInv'
  <2>1. TypeOK'
    BY <1>4 DEF CoreInv, TypeOK, LaunchOk, Goto, Locations, tabVars
  <2>2. MutexInv'
    BY <1>4 DEF CoreInv, MutexInv, TypeOK, LaunchOk, HasLock, Goto, tabVars
  <2>3. HeldInv'
    BY <1>4 DEF CoreInv, HeldInv, MutexInv, TypeOK, LaunchOk, HasLock, Goto,
       None, tabVars
  <2>4. LaunchInv'
    BY <1>4 DEF CoreInv, LaunchInv, Charged, HeldInv, MutexInv, TypeOK,
       LaunchOk, Answers, HasLock, Goto, FaultKinds, None, tabVars
  <2>5. TabInv'
    BY <1>4 DEF CoreInv, TabInv, HeldInv, TypeOK, LaunchOk, Goto, None, tabVars
  <2>6. StrayTabsAccounted'
    BY <1>4 DEF CoreInv, TabInv, HeldInv, MutexInv, StrayTabsAccounted, TypeOK,
       LaunchOk, HasLock, Goto, FaultKinds, None, tabVars
  <2>7. QED
    BY <2>1, <2>2, <2>3, <2>4, <2>5, <2>6 DEF CoreInv
<1>5. ASSUME NEW c \in Slots, LaunchFails(c) PROVE CoreInv'
  <2>1. TypeOK /\ MutexInv /\ HasLock(c) /\ Unlock /\ Goto(c, "idle")
    BY <1>5 DEF CoreInv, MutexInv, LaunchFails
  <2>2. /\ queue' \in Seq(Slots)
        /\ \A i, j \in 1..Len(queue') : queue'[i] = queue'[j] => i = j
        /\ MutexInv'
    BY <2>1, UnlockKeepsMutex
  <2>3. TypeOK'
    BY <1>5, <2>2 DEF CoreInv, TypeOK, LaunchFails, Fault, Unlock, Goto,
       FaultKinds, Results, Failures, Locations, tabVars, browserVars
  <2>4. HeldInv'
    BY <1>5 DEF CoreInv, HeldInv, TypeOK, LaunchFails, Unlock, Goto, None,
       tabVars, browserVars
  <2>5. LaunchInv'
    BY <1>5 DEF CoreInv, LaunchInv, Charged, HeldInv, MutexInv, TypeOK,
       LaunchFails, Fault, Answers, Unlock, HasLock, Goto, FaultKinds, None,
       tabVars, browserVars
  <2>6. TabInv'
    BY <1>5 DEF CoreInv, TabInv, HeldInv, TypeOK, LaunchFails, Unlock, Goto,
       None, tabVars, browserVars
  <2>7. StrayTabsAccounted'
    BY <1>5 DEF CoreInv, TabInv, HeldInv, StrayTabsAccounted, TypeOK,
       LaunchFails, Fault, Unlock, Goto, FaultKinds, None, tabVars,
       browserVars
  <2>8. QED
    BY <2>1, <2>2, <2>3, <2>4, <2>5, <2>6, <2>7 DEF CoreInv
<1>6. ASSUME NEW c \in Slots, OpenTab(c) PROVE CoreInv'
  <2>1. TypeOK /\ MutexInv /\ HasLock(c) /\ Unlock /\ Goto(c, "working")
    BY <1>6 DEF CoreInv, MutexInv, OpenTab
  <2>2. /\ queue' \in Seq(Slots)
        /\ \A i, j \in 1..Len(queue') : queue'[i] = queue'[j] => i = j
        /\ MutexInv'
    BY <2>1, UnlockKeepsMutex
  <2>3. TypeOK'
    BY <1>6, <2>2 DEF CoreInv, TypeOK, OpenTab, Unlock, Goto, Locations,
       browserVars
  <2>4. HeldInv'
    BY <1>6 DEF CoreInv, HeldInv, TypeOK, OpenTab, Answers, Unlock, Goto, None,
       browserVars
  <2>5. LaunchInv'
    BY <1>6 DEF CoreInv, LaunchInv, Charged, HeldInv, TypeOK, OpenTab, Answers,
       Unlock, Goto, FaultKinds, None, browserVars
  <2>6. TabInv'
    BY <1>6 DEF CoreInv, TabInv, HeldInv, TypeOK, OpenTab, Answers, Unlock,
       Goto, None, browserVars
  <2>7. StrayTabsAccounted'
    BY <1>6 DEF CoreInv, StrayTabsAccounted, OpenTab, Answers, Unlock, Goto,
       browserVars
  <2>8. QED
    BY <2>1, <2>2, <2>3, <2>4, <2>5, <2>6, <2>7 DEF CoreInv
<1>7. ASSUME NEW c \in Slots, OpenFails(c) PROVE CoreInv'
  <2>1. TypeOK /\ MutexInv /\ HasLock(c) /\ Unlock /\ Goto(c, "idle")
    BY <1>7 DEF CoreInv, MutexInv, OpenFails
  <2>2. /\ queue' \in Seq(Slots)
        /\ \A i, j \in 1..Len(queue') : queue'[i] = queue'[j] => i = j
        /\ MutexInv'
    BY <2>1, UnlockKeepsMutex
  <2>3. stray' \in Nat /\ faults' \in [FaultKinds -> Nat]
    BY <1>7 DEF CoreInv, TypeOK, OpenFails, Fault, FaultKinds
  <2>4. TypeOK'
    BY <1>7, <2>2, <2>3 DEF CoreInv, TypeOK, OpenFails, Fault, Unlock, Goto,
       FaultKinds, Results, Failures, Locations, browserVars
  <2>5. HeldInv'
    BY <1>7 DEF CoreInv, HeldInv, TypeOK, OpenFails, Unlock, Goto, None,
       browserVars
  <2>6. LaunchInv'
    BY <1>7 DEF CoreInv, LaunchInv, Charged, HeldInv, TypeOK, OpenFails, Fault,
       Answers, Unlock, Goto, FaultKinds, None, browserVars
  <2>7. TabInv'
    BY <1>7 DEF CoreInv, TabInv, HeldInv, TypeOK, OpenFails, Unlock, Goto, None,
       browserVars
  <2>8. StrayTabsAccounted'
    BY <1>7 DEF CoreInv, TabInv, HeldInv, StrayTabsAccounted, TypeOK, OpenFails,
       Fault, Unlock, Goto, FaultKinds, None, browserVars
  <2>9. QED
    BY <2>1, <2>2, <2>3, <2>4, <2>5, <2>6, <2>7, <2>8 DEF CoreInv
<1>8. ASSUME NEW c \in Slots, WorkOk(c) PROVE CoreInv'
  <2>1. TypeOK'
    BY <1>8 DEF CoreInv, TypeOK, WorkOk, Goto, Results, Failures, Locations,
       tabVars, browserVars
  <2>2. MutexInv'
    BY <1>8 DEF CoreInv, MutexInv, TypeOK, WorkOk, Answers, HasLock, Goto,
       tabVars, browserVars
  <2>3. HeldInv'
    BY <1>8 DEF CoreInv, HeldInv, TypeOK, WorkOk, Answers, Goto, None, tabVars,
       browserVars
  <2>4. LaunchInv'
    BY <1>8 DEF CoreInv, LaunchInv, Charged, HeldInv, TypeOK, WorkOk, Answers,
       Goto, FaultKinds, None, tabVars, browserVars
  <2>5. TabInv'
    BY <1>8 DEF CoreInv, TabInv, HeldInv, TypeOK, WorkOk, Answers, Goto, None,
       tabVars, browserVars
  <2>6. StrayTabsAccounted'
    BY <1>8 DEF CoreInv, StrayTabsAccounted, WorkOk, Answers, Goto, tabVars,
       browserVars
  <2>7. QED
    BY <2>1, <2>2, <2>3, <2>4, <2>5, <2>6 DEF CoreInv
<1>9. ASSUME NEW c \in Slots, WorkFails(c) PROVE CoreInv'
  <2>1. TypeOK'
    BY <1>9 DEF CoreInv, TypeOK, WorkFails, Goto, Results, Failures, Locations,
       tabVars, browserVars
  <2>2. MutexInv'
    BY <1>9 DEF CoreInv, MutexInv, TypeOK, WorkFails, HasLock, Goto, tabVars,
       browserVars
  <2>3. HeldInv'
    BY <1>9 DEF CoreInv, HeldInv, TypeOK, WorkFails, Goto, None, tabVars,
       browserVars
  <2>4. LaunchInv'
    BY <1>9 DEF CoreInv, LaunchInv, Charged, HeldInv, TypeOK, WorkFails,
       Answers, Goto, FaultKinds, None, tabVars, browserVars
  <2>5. TabInv'
    BY <1>9 DEF CoreInv, TabInv, HeldInv, TypeOK, WorkFails, Goto, None,
       tabVars, browserVars
  <2>6. StrayTabsAccounted'
    BY <1>9 DEF CoreInv, StrayTabsAccounted, WorkFails, Goto, Failures, tabVars,
       browserVars
  <2>7. QED
    BY <2>1, <2>2, <2>3, <2>4, <2>5, <2>6 DEF CoreInv
<1>10. ASSUME NEW c \in Slots, CloseTab(c) PROVE CoreInv'
  <2>1. TypeOK'
    BY <1>10 DEF CoreInv, TypeOK, CloseTab, Goto, Locations, None, browserVars
  <2>2. MutexInv'
    BY <1>10 DEF CoreInv, MutexInv, TypeOK, CloseTab, Answers, HasLock, Goto,
       None, browserVars
  <2>3. HeldInv'
    BY <1>10 DEF CoreInv, HeldInv, TypeOK, CloseTab, Answers, Goto, None,
       browserVars
  <2>4. LaunchInv'
    BY <1>10 DEF CoreInv, LaunchInv, Charged, HeldInv, TypeOK, CloseTab,
       Answers, Goto, FaultKinds, None, browserVars
  <2>5. TabInv'
    BY <1>10 DEF CoreInv, TabInv, HeldInv, TypeOK, CloseTab, Answers, Goto,
       None, browserVars
  <2>6. StrayTabsAccounted'
    BY <1>10 DEF CoreInv, StrayTabsAccounted, CloseTab, Answers, Goto, None,
       browserVars
  <2>7. QED
    BY <2>1, <2>2, <2>3, <2>4, <2>5, <2>6 DEF CoreInv
<1>11. ASSUME NEW c \in Slots, CloseFails(c) PROVE CoreInv'
  <2>1. TypeOK'
    BY <1>11 DEF CoreInv, TypeOK, CloseFails, Fault, Goto, FaultKinds, Results,
       Failures, Locations, None, browserVars
  <2>2. MutexInv'
    BY <1>11 DEF CoreInv, MutexInv, TypeOK, CloseFails, Answers, HasLock, Goto,
       None, browserVars
  <2>3. HeldInv'
    BY <1>11 DEF CoreInv, HeldInv, TypeOK, CloseFails, Answers, Goto, None,
       browserVars
  <2>4. LaunchInv'
    BY <1>11 DEF CoreInv, LaunchInv, Charged, HeldInv, TypeOK, CloseFails,
       Fault, Answers, Goto, FaultKinds, None, browserVars
  <2>5. TabInv'
    BY <1>11 DEF CoreInv, TabInv, HeldInv, TypeOK, CloseFails, Answers, Goto,
       None, browserVars
  <2>6. StrayTabsAccounted'
    BY <1>11 DEF CoreInv, TabInv, HeldInv, StrayTabsAccounted, TypeOK,
       CloseFails, Fault, Answers, Goto, FaultKinds, None, browserVars
  <2>7. QED
    BY <2>1, <2>2, <2>3, <2>4, <2>5, <2>6 DEF CoreInv
<1>12. ASSUME ChromeDies PROVE CoreInv'
  <2>1. TypeOK'
    BY <1>12 DEF CoreInv, TypeOK, ChromeDies, Fault, StopChromes, FaultKinds
  <2>2. HeldInv'
    BY <1>12 DEF CoreInv, HeldInv, TypeOK, ChromeDies, StopChromes, None
  <2>3. LaunchInv'
    BY <1>12 DEF CoreInv, LaunchInv, Charged, HeldInv, TypeOK, ChromeDies,
       Fault, StopChromes, Answers, FaultKinds, None
  <2>4. TabInv'
    BY <1>12 DEF CoreInv, TabInv, HeldInv, TypeOK, ChromeDies, StopChromes, None
  <2>5. StrayTabsAccounted'
    BY <1>12 DEF CoreInv, TabInv, HeldInv, StrayTabsAccounted, TypeOK,
       ChromeDies, Fault, StopChromes, FaultKinds, None
  <2>6. MutexInv'
    BY <1>12 DEF CoreInv, MutexInv, ChromeDies, Fault, StopChromes, HasLock
  <2>7. QED
    BY <2>1, <2>2, <2>3, <2>4, <2>5, <2>6 DEF CoreInv
<1>13. ASSUME StreamEnds PROVE CoreInv'
  <2>1. TypeOK'
    BY <1>13 DEF CoreInv, TypeOK, StreamEnds, tabVars
  <2>2. HeldInv'
    BY <1>13 DEF CoreInv, HeldInv, TypeOK, StreamEnds, None, tabVars
  <2>3. LaunchInv'
    BY <1>13 DEF CoreInv, LaunchInv, Charged, HeldInv, TypeOK, StreamEnds,
       Answers, FaultKinds, None, tabVars
  <2>4. StrayTabsAccounted'
    BY <1>13 DEF CoreInv, TabInv, HeldInv, StrayTabsAccounted, TypeOK,
       StreamEnds, FaultKinds, None, tabVars
  <2>5. MutexInv' /\ TabInv'
    BY <1>13 DEF CoreInv, TabInv, MutexInv, StreamEnds, HasLock, tabVars
  <2>6. QED
    BY <2>1, <2>2, <2>3, <2>4, <2>5 DEF CoreInv
<1>14. ASSUME StreamErrs PROVE CoreInv'
  <2>1. TypeOK'
    BY <1>14 DEF CoreInv, TypeOK, StreamErrs, Fault, FaultKinds, Results,
       Failures, tabVars
  <2>2. HeldInv'
    BY <1>14 DEF CoreInv, HeldInv, TypeOK, StreamErrs, None, tabVars
  <2>3. LaunchInv'
    BY <1>14 DEF CoreInv, LaunchInv, Charged, HeldInv, TypeOK, StreamErrs,
       Fault, Answers, FaultKinds, None, tabVars
  <2>4. StrayTabsAccounted'
    BY <1>14 DEF CoreInv, TabInv, HeldInv, StrayTabsAccounted, TypeOK,
       StreamErrs, Fault, FaultKinds, None, tabVars
  <2>5. MutexInv' /\ TabInv'
    BY <1>14 DEF CoreInv, TabInv, MutexInv, StreamErrs, Fault, HasLock, tabVars
  <2>6. QED
    BY <2>1, <2>2, <2>3, <2>4, <2>5 DEF CoreInv
<1>15. CASE UNCHANGED vars
  BY <1>15 DEF CoreInv, MutexInv, HeldInv, LaunchInv, TabInv,
     StrayTabsAccounted, TypeOK, Charged, HasLock, Answers, vars,
     browserVars, tabVars
<1>16. QED
  BY <1>1, <1>2, <1>3, <1>4, <1>5, <1>6, <1>7, <1>8, <1>9, <1>10, <1>11,
     <1>12, <1>13, <1>14, <1>15 DEF Next, CallStep, Ensure, Launch, Open,
     Work, Close

(* Page handles are of launches that have begun, and none is of the launch
   that is going on. *)
LEMMA InitIInv == Init => IInv
<1>1. Init => PageInv
  BY DEF Init, PageInv, None
<1> QED
  BY <1>1, InitCore DEF IInv

(* A relaunch takes a number that no page handle has, so no page of an earlier
   Chrome is ever taken for one of the new. *)
LEMMA StepIInv == IInv /\ [Next]_vars => IInv'
<1> SUFFICES ASSUME CoreInv, PageInv, [Next]_vars PROVE PageInv'
  BY StepCore DEF IInv
<1> USE DEF PageInv, CoreInv, TypeOK
<1>1. ASSUME NEW c \in Slots, Request(c) \/ Reuse(c) PROVE PageInv'
  BY <1>1 DEF Request, Reuse, Goto, browserVars, tabVars
<1>2. ASSUME NEW c \in Slots, StartLaunch(c) PROVE PageInv'
  <2>1. seq' = seq + 1 /\ page' = page /\ inner' = 0
    BY <1>2 DEF StartLaunch, StopChromes, None
  <2>2. \A d \in Slots : page'[d] < seq'
    BY <2>1
  <2>3. ASSUME NEW d \in Slots, pc'[d] \in {"working", "closing"}, page'[d] \in up'
        PROVE  d \in open'
    BY <1>2, <2>3 DEF StartLaunch, StopChromes, Goto
  <2> QED
    BY <2>1, <2>2, <2>3
<1>3. ASSUME NEW c \in Slots, LaunchOk(c) PROVE PageInv'
  <2>1. up = {} /\ \A d \in Slots : page[d] < seq
    BY <1>3 DEF LaunchOk, HeldInv
  <2>2. up' = {seq} /\ page' = page /\ seq' = seq /\ inner' = seq
    BY <1>3, <2>1 DEF LaunchOk, tabVars
  <2> QED
    BY <2>1, <2>2
<1>4. ASSUME NEW c \in Slots, LaunchFails(c) \/ OpenFails(c) PROVE PageInv'
  BY <1>4 DEF LaunchFails, OpenFails, Goto, browserVars, tabVars
<1>5. ASSUME NEW c \in Slots, OpenTab(c) PROVE PageInv'
  <2>1. \A d \in Slots : pc[d] # "launching"
    BY <1>5 DEF OpenTab, MutexInv, HasLock
  <2> QED
    BY <1>5, <2>1 DEF OpenTab, Goto, browserVars
<1>6. ASSUME NEW c \in Slots, Work(c) PROVE PageInv'
  BY <1>6 DEF Work, WorkOk, WorkFails, Goto, browserVars, tabVars
<1>7. ASSUME NEW c \in Slots, Close(c) PROVE PageInv'
  <2>1. /\ pc' = [pc EXCEPT ![c] = "idle"]
        /\ page' = [page EXCEPT ![c] = 0]
        /\ open' = open \ {c}
        /\ inner' = inner /\ seq' = seq /\ up' = up
    BY <1>7 DEF Close, CloseTab, CloseFails, Goto, None, browserVars
  <2>2. \A d \in Slots : page'[d] \in Nat /\ page'[d] <= page[d]
    BY <2>1
  <2>3. \A d, e \in Slots : pc'[d] = "launching" => page'[e] < seq'
    BY <2>1, <2>2
  <2>4. \A d \in Slots : page'[d] <= seq'
    BY <2>1, <2>2
  <2>5. ASSUME NEW d \in Slots, pc'[d] \in {"working", "closing"}, page'[d] \in up'
        PROVE  d \in open'
    <3>1. d # c
      BY <2>1, <2>5
    <3> QED
      BY <2>1, <2>5, <3>1
  <2> QED
    BY <2>1, <2>3, <2>4, <2>5
<1>8. ASSUME ChromeDies PROVE PageInv'
  BY <1>8 DEF ChromeDies, StopChromes
<1>9. CASE StreamEnds \/ StreamErrs
  BY <1>9 DEF StreamEnds, StreamErrs, tabVars
<1>10. CASE UNCHANGED vars
  BY <1>10 DEF vars, browserVars, tabVars
<1> QED
  BY <1>1, <1>2, <1>3, <1>4, <1>5, <1>6, <1>7, <1>8, <1>9, <1>10
     DEF Next, CallStep, Ensure, Launch, Open

(* No interleaving of calls, faults and relaunches leaves the invariant. *)
THEOREM Invariant == Spec => []IInv
  BY InitIInv, StepIInv, PTL DEF Spec

(* Type correctness, and no call is in the mutex's queue twice. *)
THEOREM TypeCorrect == Spec => []TypeOK
<1>1. IInv => TypeOK
  BY DEF IInv, CoreInv
<1> QED
  BY <1>1, Invariant, PTL

(* "A single Chrome instance": the only Chrome that runs is the held one, for
   any number of calls that race for a launch and any number of deaths. *)
THEOREM SingleBrowser == Spec => []OneBrowser
<1>1. IInv => OneBrowser
  BY DEF IInv, CoreInv, HeldInv, OneBrowser
<1> QED
  BY <1>1, Invariant, PTL

(* Chrome is launched once, and then at most once per fault: callers that find
   the browser dead at the same time do not each launch one. *)
THEOREM LaunchesAreFew == Spec => []LaunchPerFault
<1>1. IInv => LaunchPerFault
  BY DEF IInv, CoreInv, TypeOK, LaunchInv, Charged, LaunchPerFault, FaultKinds
<1> QED
  BY <1>1, Invariant, PTL

(* The held browser carries no more abandoned tabs than the tab commands that
   Chrome left unanswered: no error path of a page operation forgets its tab. *)
THEOREM NoTabForgotten == Spec => []StrayTabsAccounted
<1>1. IInv => StrayTabsAccounted
  BY DEF IInv, CoreInv
<1> QED
  BY <1>1, Invariant, PTL

(* The calls see no more than TabService promises: with the mutex, the launches
   and Chrome hidden, every step is one of its steps, or none. *)
THEOREM ImplementsTabService == Spec => TabsAsPromised
<1> DEFINE Live == {c \in open : Answers(page[c])}
           Places == [c \in Slots |-> Phase[pc[c]]]
<1>1. Init => Promise!Init
  BY DEF Init, Promise!Init, Phase, Answers, FaultKinds
<1>2. IInv /\ [Next]_vars => [Promise!Next]_(Promise!vars)
  <2> SUFFICES ASSUME IInv, [Next]_vars
               PROVE  Promise!Next \/ UNCHANGED Promise!vars
    OBVIOUS
  <2> USE DEF IInv, CoreInv, TypeOK
  <2>1. ASSUME NEW c \in Slots, NEW l \in Locations, Goto(c, l),
               NEW p, Phase[l] = p
        PROVE  Places' = [Places EXCEPT ![c] = p]
    BY <2>1 DEF Goto
  <2>p. /\ Phase["idle"] = "idle" /\ Phase["queued"] = "asking"
        /\ Phase["launching"] = "asking" /\ Phase["opening"] = "asking"
        /\ Phase["working"] = "using" /\ Phase["closing"] = "leaving"
    BY DEF Phase
  <2>2. ASSUME NEW c \in Slots, Request(c) PROVE Promise!Ask(c)
    <3>1. Places[c] = "idle" /\ Places' = [Places EXCEPT ![c] = "asking"]
      BY <2>1, <2>p, <2>2 DEF Request, Locations
    <3>2. Live' = Live
      BY <2>2 DEF Request, Answers, browserVars, tabVars
    <3> QED
      BY <2>2, <3>1, <3>2 DEF Request, Promise!Ask, Promise!Enter, Promise!Say
  <2>3. ASSUME NEW c \in Slots, Reuse(c) \/ StartLaunch(c) \/ LaunchOk(c)
        PROVE  UNCHANGED Promise!vars
    <3>1. Places' = Places
      <4>1. Phase[pc[c]] = "asking" /\ Places' = [Places EXCEPT ![c] = "asking"]
        BY <2>1, <2>p, <2>3 DEF Reuse, StartLaunch, LaunchOk, Locations
      <4> QED
        BY <4>1
    <3>2. Live' = Live
      <4>1. CASE Reuse(c)
        BY <4>1 DEF Reuse, Answers, browserVars, tabVars
      <4>2. CASE StartLaunch(c)
        BY <4>2 DEF StartLaunch, StopChromes, Dead, Answers, HeldInv, TabInv
      <4>3. CASE LaunchOk(c)
        BY <4>3 DEF LaunchOk, Answers, HeldInv, TabInv, tabVars
      <4> QED
        BY <2>3, <4>1, <4>2, <4>3
    <3> QED
      BY <2>3, <3>1, <3>2 DEF Reuse, StartLaunch, LaunchOk, Promise!vars,
         browserVars, tabVars
  <2>4. ASSUME NEW c \in Slots, LaunchFails(c) \/ OpenFails(c)
        PROVE  Promise!Deny(c)
    <3>1. Places[c] = "asking" /\ Places' = [Places EXCEPT ![c] = "idle"]
      BY <2>1, <2>p, <2>4 DEF LaunchFails, OpenFails, Locations
    <3>2. Live' = Live
      BY <2>4 DEF LaunchFails, OpenFails, Answers, browserVars, tabVars
    <3>3. HasLock(c) /\ queue' = Tail(queue)
      BY <2>4 DEF LaunchFails, OpenFails, MutexInv, Unlock
    <3>4. faults'["death"] = faults["death"] /\ faults'["stream"] = faults["stream"]
      BY <2>4 DEF LaunchFails, OpenFails, Fault, FaultKinds
    <3>5. \E f \in {"navigation", "browser"} : result' = [result EXCEPT ![c] = f]
      BY <2>4 DEF LaunchFails, OpenFails
    <3> QED
      BY <3>1, <3>2, <3>3, <3>4, <3>5
         DEF HasLock, Promise!Deny, Promise!First, Promise!Enter, Promise!Say
  <2>5. ASSUME NEW c \in Slots, OpenTab(c) PROVE Promise!Grant(c)
    <3>1. Places[c] = "asking" /\ Places' = [Places EXCEPT ![c] = "using"]
      BY <2>1, <2>p, <2>5 DEF OpenTab, Locations
    <3>2. Live' = Live \cup {c}
      BY <2>5 DEF OpenTab, Answers, TabInv, browserVars
    <3>3. HasLock(c) /\ queue' = Tail(queue)
      BY <2>5 DEF OpenTab, MutexInv, Unlock
    <3> QED
      BY <2>5, <3>1, <3>2, <3>3 DEF OpenTab, HasLock, Promise!Grant,
         Promise!First, Promise!Enter
  <2>6. ASSUME NEW c \in Slots, Work(c)
        PROVE  Promise!Succeed(c) \/ Promise!Fail(c)
    <3>1. Places[c] = "using" /\ Places' = [Places EXCEPT ![c] = "leaving"]
      BY <2>1, <2>p, <2>6 DEF Work, WorkOk, WorkFails, Locations
    <3>2. Live' = Live
      BY <2>6 DEF Work, WorkOk, WorkFails, Answers, browserVars, tabVars
    <3>3. CASE WorkOk(c)
      <4>1. c \in Live
        BY <3>3 DEF WorkOk, Answers, PageInv
      <4> QED
        BY <3>1, <3>2, <3>3, <4>1
           DEF WorkOk, Promise!Succeed, Promise!Enter, Promise!Say
    <3>4. CASE WorkFails(c)
      BY <3>1, <3>2, <3>4 DEF WorkFails, Failures, Promise!Fail,
         Promise!Failures, Promise!Enter, Promise!Say
    <3> QED
      BY <2>6, <3>3, <3>4 DEF Work
  <2>7. ASSUME NEW c \in Slots, Close(c) PROVE Promise!Leave(c)
    <3>1. Places[c] = "leaving" /\ Places' = [Places EXCEPT ![c] = "idle"]
      BY <2>1, <2>p, <2>7 DEF Close, CloseTab, CloseFails, Locations
    <3>2. Live' = Live \ {c}
      BY <2>7 DEF Close, CloseTab, CloseFails, Answers, browserVars
    <3>3. faults'["death"] = faults["death"] /\ faults'["stream"] = faults["stream"]
      BY <2>7 DEF Close, CloseTab, CloseFails, Fault, FaultKinds
    <3> QED
      BY <2>7, <3>1, <3>2, <3>3 DEF Close, CloseTab, CloseFails, Promise!Leave,
         Promise!Enter
  <2>8. ASSUME ChromeDies \/ StreamErrs PROVE Promise!Outage
    <3>1. Live' = {}
      BY <2>8 DEF ChromeDies, StreamErrs, StopChromes, Answers, HeldInv, tabVars
    <3>2. faults'["death"] + faults'["stream"]
            = faults["death"] + faults["stream"] + 1
      <4>1. CASE Fault("death")
        BY <4>1 DEF Fault, FaultKinds
      <4>2. CASE Fault("stream")
        BY <4>2 DEF Fault, FaultKinds
      <4> QED
        BY <2>8, <4>1, <4>2 DEF ChromeDies, StreamErrs
    <3> QED
      BY <2>8, <3>1, <3>2 DEF ChromeDies, StreamErrs, Promise!Outage
  <2>9. ASSUME StreamEnds PROVE UNCHANGED Promise!vars
    <3>1. Live' = Live
      BY <2>9 DEF StreamEnds, Answers, tabVars
    <3> QED
      BY <2>9, <3>1 DEF StreamEnds, Promise!vars
  <2>10. CASE UNCHANGED vars
    BY <2>10 DEF vars, browserVars, tabVars, Answers, Promise!vars
  <2> QED
    BY <2>2, <2>3, <2>4, <2>5, <2>6, <2>7, <2>8, <2>9, <2>10
       DEF Next, CallStep, Ensure, Launch, Open, Promise!Next, Promise!CallStep
<1> QED
  BY <1>1, <1>2, Invariant, PTL DEF Spec, TabsAsPromised, Promise!Spec

(* A relaunch, a failure or the end of one call takes no healthy tab away from
   another call. *)
THEOREM TabsAreSpared == Spec => TabsSpared
<1>1. IInv /\ [Next]_vars => [\A c \in open : TabSpared(c)]_vars
  <2> SUFFICES ASSUME IInv, Next, NEW c \in open, Answers(page[c]), c \notin open'
               PROVE  pc[c] = "closing" \/ faults'["death"] > faults["death"]
    BY DEF TabSpared
  <2>1. page[c] = inner /\ inner \in pumping /\ inner # None
    BY DEF IInv, CoreInv, HeldInv, TabInv, Answers
  <2>2. ASSUME NEW d \in Slots, CallStep(d) PROVE pc[c] = "closing"
    <3>1. CASE StartLaunch(d)
      BY <2>1, <3>1 DEF StartLaunch, Dead
    <3>2. CASE CloseTab(d) \/ CloseFails(d)
      BY <3>2 DEF CloseTab, CloseFails
    <3>3. CASE Request(d) \/ Reuse(d) \/ Launch(d) \/ Open(d) \/ Work(d)
      BY <3>3 DEF Request, Reuse, Launch, LaunchOk, LaunchFails, Open, OpenTab,
         OpenFails, Work, WorkOk, WorkFails, tabVars
    <3> QED
      BY <2>2, <3>1, <3>2, <3>3 DEF CallStep, Ensure, Close
  <2>3. ASSUME ChromeDies PROVE faults'["death"] > faults["death"]
    BY <2>3 DEF ChromeDies, Fault, IInv, CoreInv, TypeOK, FaultKinds
  <2>4. ASSUME StreamEnds \/ StreamErrs PROVE FALSE
    BY <2>4 DEF StreamEnds, StreamErrs, tabVars
  <2> QED
    BY <2>2, <2>3, <2>4 DEF Next
<1> QED
  BY <1>1, Invariant, PTL DEF Spec, TabsSpared
=============================================================================

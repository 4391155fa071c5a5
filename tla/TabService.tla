----------------------------- MODULE TabService -----------------------------
(***************************************************************************)
(* What the browser manager promises the calls of the tool service, with   *)
(* the mutex, the launches and Chrome itself hidden: calls that ask for a  *)
(* tab are answered one by one in the order they asked, by a tab or by an  *)
(* error; a tab works until its own call leaves it; only an outage of the  *)
(* browser takes tabs away, all of them at once, and there is no outage    *)
(* without a fault of Chrome.  BrowserManager implements it (property      *)
(* TabsAsPromised there).                                                  *)
(***************************************************************************)
EXTENDS Naturals, Sequences

CONSTANT Slots    \* the calls that may be in flight at the same time

VARIABLES
  phase,      \* what each call is doing
  line,       \* the calls that ask for a tab, in the order they asked
  live,       \* the calls whose tab answers
  outages,    \* how often the browser went away
  answer      \* what each call returns

vars == <<phase, line, live, outages, answer>>

Failures == {"navigation", "browser", "timeout", "blocked", "invalid"}

Init ==
  /\ phase = [c \in Slots |-> "idle"]
  /\ line = <<>>
  /\ live = {}
  /\ outages = 0
  /\ answer = [c \in Slots |-> "none"]

Enter(c, p) == phase' = [phase EXCEPT ![c] = p]
Say(c, r) == answer' = [answer EXCEPT ![c] = r]

Ask(c) ==
  /\ phase[c] = "idle"
  /\ Enter(c, "asking")
  /\ line' = Append(line, c)
  /\ Say(c, "none")
  /\ UNCHANGED <<live, outages>>

\* The first in the line is served.
First(c) == phase[c] = "asking" /\ line # <<>> /\ Head(line) = c

Grant(c) ==
  /\ First(c)
  /\ Enter(c, "using")
  /\ line' = Tail(line)
  /\ live' = live \cup {c}
  /\ UNCHANGED <<outages, answer>>

Deny(c) ==
  /\ First(c)
  /\ Enter(c, "idle")
  /\ line' = Tail(line)
  /\ \E f \in {"navigation", "browser"} : Say(c, f)
  /\ UNCHANGED <<live, outages>>

\* A call succeeds only on a tab that answers.
Succeed(c) ==
  /\ phase[c] = "using"
  /\ c \in live
  /\ Enter(c, "leaving")
  /\ Say(c, "ok")
  /\ UNCHANGED <<line, live, outages>>

Fail(c) ==
  /\ phase[c] = "using"
  /\ Enter(c, "leaving")
  /\ \E f \in Failures : Say(c, f)
  /\ UNCHANGED <<line, live, outages>>

\* The tab goes away, and what the call has to say stands.
Leave(c) ==
  /\ phase[c] = "leaving"
  /\ Enter(c, "idle")
  /\ live' = live \ {c}
  /\ UNCHANGED <<line, outages, answer>>

Outage ==
  /\ live' = {}
  /\ outages' = outages + 1
  /\ UNCHANGED <<phase, line, answer>>

CallStep(c) ==
  Ask(c) \/ Grant(c) \/ Deny(c) \/ Succeed(c) \/ Fail(c) \/ Leave(c)

Next == Outage \/ \E c \in Slots : CallStep(c)

Spec == Init /\ [][Next]_vars
=============================================================================

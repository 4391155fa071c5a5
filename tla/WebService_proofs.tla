-------------------------- MODULE WebService_proofs --------------------------
(***************************************************************************)
(* The safety properties of a tool call, for every set of URLs, requests   *)
(* and answers of the name service: IInv is inductive, and it holds the    *)
(* properties.  There is a lemma for each conjunct of IInv, with a step    *)
(* for each action of Next.                                                *)
(***************************************************************************)
EXTENDS WebService, UrlGuard_proofs

(* At the start all of it holds. *)
LEMMA InitIInv == Init => IInv
<1> SUFFICES ASSUME Init PROVE IInv
  OBVIOUS
<1> USE RequestsAssumption DEF Init, Nothing
<1>1. TypeOK
  <2>1. counted \in Seq(Upstream)
    OBVIOUS
  <2>2. seen \in [passed : SUBSET Urls, stale : SUBSET Urls, looked : BOOLEAN,
                 opened : BOOLEAN, fault : BOOLEAN, unnamed : BOOLEAN,
                 late : BOOLEAN]
    OBVIOUS
  <2> QED
    BY <2>1, <2>2 DEF TypeOK, Locations, Replies
<1>2. TabInv /\ ArgsInv /\ GuardInv /\ PartInv
  BY DEF TabInv, ArgsInv, GuardInv, PartInv, Commands, Parts, Reading
<1>3. HostInv /\ CauseInv
  BY DEF HostInv, CauseInv
<1>4. CountInv /\ PartsOfCheckedPages /\ FaultsCounted
  BY DEF CountInv, PartsOfCheckedPages, FaultsCounted, Upstream
<1> QED
  BY <1>1, <1>2, <1>3, <1>4 DEF IInv

-----------------------------------------------------------------------------
(* Types *)

Seen ==
  [passed : SUBSET Urls, stale : SUBSET Urls, looked : BOOLEAN,
   opened : BOOLEAN, fault : BOOLEAN, unnamed : BOOLEAN, late : BOOLEAN]

OutcomeTyped ==
  err \in Errors \cup {"none"} /\ reply \in Replies /\ counted \in Seq(Upstream)

LEMMA NotedTyped ==
  ASSUME NEW f \in {"looked", "opened", "fault", "unnamed"}, seen \in Seen, Note(f)
  PROVE  seen' \in Seen
  BY DEF Note, Seen

LEMMA CountedTyped ==
  ASSUME NEW r, Reply(r), counted \in Seq(Upstream)
  PROVE  counted' \in Seq(Upstream)
  BY DEF Reply

LEMMA FailTyped ==
  ASSUME TypeOK, NEW e \in Errors, Fail(e)
  PROVE  pc' \in Locations /\ OutcomeTyped'
  BY CountedTyped DEF Fail, Reply, TypeOK, Locations, Replies, Goto, OutcomeTyped

LEMMA PassTyped ==
  ASSUME TypeOK, subject \in Urls, Pass
  PROVE  pc' \in Locations /\ seen' \in Seen /\ UNCHANGED replyVars
  BY DEF Pass, Extract, Parts, Reading, Locations, Goto, TypeOK, Seen

LEMMA TurnTyped ==
  ASSUME TypeOK, Turn
  PROVE  pc' \in Locations /\ seen' \in Seen /\ OutcomeTyped'
<1>1. seen' \in Seen
  BY DEF Turn, TypeOK, Seen
<1>2. Fail("blocked") /\ "blocked" \in Errors
  BY DEF Turn, Errors
<1> QED
  BY <1>1, <1>2, FailTyped

(* Type correctness, from where the tab and the guard are. *)
LEMMA TypeOKStep == IInv /\ [Next]_vars => TypeOK'
<1> SUFFICES ASSUME IInv, [Next]_vars PROVE TypeOK'
  OBVIOUS
<1> USE RequestsAssumption, UrlsAssumption DEF IInv, Goto, Note, pageVars,
      replyVars, TypeOK, TabInv, GuardInv, Locations, Replies, Errors, Upstream,
      Commands, Parts, Reading
<1>1. CASE Call
  BY <1>1 DEF Call, Nothing
<1>2. CASE Refuse
  BY <1>2 DEF Refuse, Reply
<1>3. CASE Accept
  BY <1>3 DEF Accept, Unusable
<1>4. CASE Check
  <2>1. subject \in Urls
    BY <1>4 DEF Check, TabInv
  <2>2. seen' \in Seen
    BY <1>4, <2>1, NotedTyped, PassTyped DEF Check, TypeOK, Seen
  <2>3. pc' \in Locations /\ OutcomeTyped'
    BY <1>4, <2>1, FailTyped, PassTyped
    DEF Check, TypeOK, Locations, Errors, OutcomeTyped
  <2> QED
    BY <1>4, <2>1, <2>2, <2>3 DEF Check, TypeOK, Seen, OutcomeTyped
<1>5. CASE Lookup
  <2>1. subject \in Urls
    BY <1>5 DEF Lookup, TabInv
  <2>2. seen' \in Seen
    BY <1>5, <2>1, NotedTyped, PassTyped, TurnTyped DEF Lookup, TypeOK, Seen
  <2>3. pc' \in Locations /\ OutcomeTyped'
    BY <1>5, <2>1, FailTyped, PassTyped, TurnTyped
    DEF Lookup, TypeOK, Locations, Errors, OutcomeTyped
  <2> QED
    BY <1>5, <2>1, <2>2, <2>3 DEF Lookup, TypeOK, Seen, OutcomeTyped
<1>6. CASE OpenTab
  BY <1>6 DEF OpenTab
<1>7. CASE TabFails
  <2>1. seen' \in Seen
    BY <1>7, NotedTyped DEF TabFails, TypeOK, Seen
  <2>2. pc' \in Locations /\ OutcomeTyped'
    BY <1>7, FailTyped DEF TabFails, TypeOK, Errors
  <2> QED
    BY <1>7, <2>1, <2>2 DEF TabFails, TypeOK, Seen, OutcomeTyped
<1>8. CASE Load
  BY <1>8 DEF Load
<1>9. CASE Waited
  BY <1>9 DEF Waited
<1>10. CASE TimesOut
  BY <1>10 DEF TimesOut, Timed, Fail, Reply
<1>11. CASE Landed
  <2>1. subject' \in Urls \cup {"none"} /\ pc' \in Locations
    BY <1>11 DEF Landed, TabInv, TypeOK, Extract, Locations, Parts, Reading
  <2>2. seen' \in Seen
    BY <1>11, NotedTyped DEF Landed, TypeOK, Seen
  <2> QED
    BY <1>11, <2>1, <2>2 DEF Landed, TypeOK, Seen
<1>12. CASE ReadOnPage
  <2>1. request.url \in Urls
    BY <1>12 DEF ReadOnPage, ReadTitle, ReadContent, ReadUrl, ReadLinks, Read,
      GuardInv, TypeOK, Commands, Parts, Reading
  <2>2. seen' \in Seen
    BY <1>12, NotedTyped
    DEF ReadOnPage, ReadTitle, ReadContent, ReadUrl, ReadLinks, TypeOK, Seen
  <2>3. pc' \in Locations /\ part' \in [Parts -> Urls \cup {"none"}]
    BY <1>12, <2>1 DEF ReadOnPage, ReadTitle, ReadContent, ReadUrl, ReadLinks,
      Read, AfterUrl, TypeOK, Locations, Parts, Reading
  <2> QED
    BY <1>12, <2>2, <2>3 DEF ReadOnPage, ReadTitle, ReadContent, ReadUrl,
      ReadLinks, Read, TypeOK, Seen
<1>13. CASE Capture
  BY <1>13 DEF Capture, Read
<1>14. CASE CommandFails
  BY <1>14 DEF CommandFails, Fail, Reply
<1>15. CASE Close
  <2>1. counted' \in Seq(Upstream)
    BY <1>15, CountedTyped DEF Close, TypeOK
  <2>2. pc' \in Locations /\ reply' \in Replies
    BY <1>15 DEF Close, Reply, TypeOK, Locations, Replies, Errors
  <2>3. /\ UNCHANGED <<dns, conf, request, subject, part, err, seen>>
        /\ tab' = FALSE /\ doc' = "none"
    BY <1>15 DEF Close
  <2>4. /\ dns' \in [Names -> Answers] /\ conf' = conf /\ request' \in Requests
        /\ part' \in [Parts -> Urls \cup {"none"}]
    BY <2>3
  <2>5. /\ subject' \in Urls \cup {"none"} /\ doc' \in Urls \cup {"none"}
        /\ err' \in Errors \cup {"none"} /\ seen' = seen /\ tab' \in BOOLEAN
    BY <2>3
  <2> QED
    BY <2>1, <2>2, <2>4, <2>5
<1>16. CASE Save
  BY <1>16 DEF Save, Reply
<1>17. CASE PageMoves
  <2>1. seen' \in Seen
    BY <1>17 DEF PageMoves, TypeOK, Seen
  <2> QED
    BY <1>17, <2>1 DEF PageMoves, TypeOK, Seen
<1>18. CASE NameMoves
  <2>1. seen' \in Seen
    BY <1>18 DEF NameMoves, Names, TypeOK, Seen
  <2> QED
    BY <1>18, <2>1 DEF NameMoves, TypeOK, Seen
<1>19. CASE UNCHANGED vars
  BY <1>19 DEF vars
<1> QED
  BY <1>1, <1>2, <1>3, <1>4, <1>5, <1>6, <1>7, <1>8, <1>9, <1>10, <1>11,
    <1>12, <1>13, <1>14, <1>15, <1>16, <1>17, <1>18, <1>19 DEF Next, Navigate

-----------------------------------------------------------------------------
(* What a verdict of the guard and a change of the name service are noted as *)

Unnoted == <<seen.looked, seen.opened, seen.fault, seen.unnamed, seen.late>>

LEMMA PassNoted ==
  ASSUME TypeOK, Pass
  PROVE  /\ seen'.passed = seen.passed \cup {subject}
         /\ seen'.stale = seen.stale \ {subject}
         /\ UNCHANGED Unnoted
         /\ UNCHANGED replyVars
         /\ pc' = IF tab THEN Extract ELSE "tab"
  BY DEF Pass, TypeOK, Unnoted, Goto

LEMMA TurnNoted ==
  ASSUME TypeOK, Turn
  PROVE  /\ seen'.passed = seen.passed \ {subject}
         /\ seen'.stale = seen.stale \ {subject}
         /\ UNCHANGED Unnoted
         /\ Fail("blocked")
  BY DEF Turn, TypeOK, Unnoted

LEMMA MoveNoted ==
  ASSUME TypeOK, NameMoves
  PROVE  /\ seen'.passed = seen.passed /\ seen.stale \subseteq seen'.stale
         /\ UNCHANGED Unnoted
         /\ \A u : u \notin seen'.stale => (InternalHost(u)' <=> InternalHost(u))
<1>1. PICK n \in Names, a \in Answers :
        /\ dns' = [dns EXCEPT ![n] = a]
        /\ seen' = [seen EXCEPT !.stale = @ \cup {n}]
  BY DEF NameMoves
<1>2. /\ seen'.passed = seen.passed /\ seen'.stale = seen.stale \cup {n}
      /\ UNCHANGED Unnoted
  BY <1>1 DEF TypeOK, Unnoted
<1>3. \A u \in Names : u # n => dns'[u] = dns[u]
  BY <1>1 DEF TypeOK
<1>4. \A u : u # n => AddressesOf(u)' = AddressesOf(u)
  BY <1>3 DEF AddressesOf, Names
<1> QED
  BY <1>2, <1>4 DEF InternalHost

-----------------------------------------------------------------------------
(* The conjuncts *)

(* A verdict that lets the subject pass leaves the guard's part in order, and *)
(* so does one that ends the work on the page. *)
LEMMA PassGuard ==
  ASSUME IInv, pc \in {"check", "lookup"}, Pass,
         UNCHANGED <<dns, conf, request, subject, pageVars>>
  PROVE  GuardInv'
<1>1. /\ seen'.passed = seen.passed \cup {subject}
      /\ seen'.late = seen.late /\ seen'.unnamed = seen.unnamed
  BY PassNoted DEF IInv, Unnoted
<1>2. pc' = IF tab THEN Extract ELSE "tab"
  BY PassNoted DEF IInv
<1>3. request.url \in seen'.passed /\ (tab => seen'.late \/ doc \in seen'.passed)
  BY <1>1 DEF IInv, GuardInv
<1> QED
  BY <1>1, <1>2, <1>3 DEF GuardInv, pageVars, Extract, Commands, Parts, Reading

LEMMA FailGuard ==
  ASSUME IInv, NEW e, pc \in {"check", "lookup"}, Fail(e)
  PROVE  GuardInv'
  BY DEF IInv, Fail, Reply, Goto, GuardInv, Commands, Parts, Reading

(* A tab is open exactly where the code has one. *)
LEMMA TabInvStep == IInv /\ [Next]_vars => TabInv'
<1> SUFFICES ASSUME IInv, [Next]_vars PROVE TabInv'
  OBVIOUS
<1> USE RequestsAssumption, UrlsAssumption DEF IInv, Goto, Note, pageVars,
      replyVars, TypeOK, TabInv, Locations, Commands, Parts, Reading
<1>1. CASE Call
  BY <1>1 DEF Call, Nothing
<1>2. CASE Refuse
  BY <1>2 DEF Refuse, Reply
<1>3. CASE Accept
  BY <1>3 DEF Accept, Unusable
<1>4. CASE Check
  BY <1>4 DEF Check, Pass, Extract, Fail, Reply
<1>5. CASE Lookup
  BY <1>5 DEF Lookup, Pass, Turn, Extract, Fail, Reply
<1>6. CASE OpenTab
  BY <1>6 DEF OpenTab
<1>7. CASE TabFails
  BY <1>7 DEF TabFails, Fail, Reply
<1>8. CASE Load
  BY <1>8 DEF Load
<1>9. CASE Waited
  BY <1>9 DEF Waited
<1>10. CASE TimesOut
  BY <1>10 DEF TimesOut, Timed, Fail, Reply
<1>11. CASE Landed
  BY <1>11 DEF Landed, Extract
<1>12. CASE ReadOnPage
  BY <1>12 DEF ReadOnPage, ReadTitle, ReadContent, ReadUrl, ReadLinks, Read,
    AfterUrl
<1>13. CASE Capture
  BY <1>13 DEF Capture, Read
<1>14. CASE CommandFails
  BY <1>14 DEF CommandFails, Fail, Reply
<1>15. CASE Close
  BY <1>15 DEF Close, Reply
<1>16. CASE Save
  BY <1>16 DEF Save, Reply
<1>17. CASE PageMoves
  BY <1>17 DEF PageMoves
<1>18. CASE NameMoves
  BY <1>18 DEF NameMoves
<1>19. CASE UNCHANGED vars
  BY <1>19 DEF vars
<1> QED
  BY <1>1, <1>2, <1>3, <1>4, <1>5, <1>6, <1>7, <1>8, <1>9, <1>10, <1>11,
    <1>12, <1>13, <1>14, <1>15, <1>16, <1>17, <1>18, <1>19 DEF Next, Navigate

(* Unusable arguments get nowhere. *)
LEMMA ArgsInvStep == IInv /\ [Next]_vars => ArgsInv'
<1> SUFFICES ASSUME IInv, [Next]_vars PROVE ArgsInv'
  OBVIOUS
<1> USE RequestsAssumption, UrlsAssumption DEF IInv, Goto, Note, pageVars,
      replyVars, TypeOK, ArgsInv, Unusable, Commands, Parts, Reading
<1>1. CASE Call
  BY <1>1 DEF Call, Nothing
<1>2. CASE Refuse
  BY <1>2 DEF Refuse, Reply
<1>3. CASE Accept
  BY <1>3 DEF Accept, Unusable
<1>4. CASE Check
  BY <1>4 DEF Check, Pass, Extract, Fail, Reply
<1>5. CASE Lookup
  BY <1>5 DEF Lookup, Pass, Turn, Extract, Fail, Reply
<1>6. CASE OpenTab
  BY <1>6 DEF OpenTab
<1>7. CASE TabFails
  BY <1>7 DEF TabFails, Fail, Reply
<1>8. CASE Load
  BY <1>8 DEF Load
<1>9. CASE Waited
  BY <1>9 DEF Waited
<1>10. CASE TimesOut
  BY <1>10 DEF TimesOut, Timed, Fail, Reply
<1>11. CASE Landed
  BY <1>11 DEF Landed, Extract
<1>12. CASE ReadOnPage
  BY <1>12 DEF ReadOnPage, ReadTitle, ReadContent, ReadUrl, ReadLinks, Read,
    AfterUrl
<1>13. CASE Capture
  BY <1>13 DEF Capture, Read
<1>14. CASE CommandFails
  BY <1>14 DEF CommandFails, Fail, Reply
<1>15. CASE Close
  BY <1>15 DEF Close, Reply
<1>16. CASE Save
  BY <1>16 DEF Save, Reply
<1>17. CASE PageMoves
  BY <1>17 DEF PageMoves
<1>18. CASE NameMoves
  BY <1>18 DEF NameMoves
<1>19. CASE UNCHANGED vars
  BY <1>19 DEF vars
<1> QED
  BY <1>1, <1>2, <1>3, <1>4, <1>5, <1>6, <1>7, <1>8, <1>9, <1>10, <1>11,
    <1>12, <1>13, <1>14, <1>15, <1>16, <1>17, <1>18, <1>19 DEF Next, Navigate

(* What the guard has passed. *)
LEMMA GuardInvStep == IInv /\ [Next]_vars => GuardInv'
<1> SUFFICES ASSUME IInv, [Next]_vars PROVE GuardInv'
  OBVIOUS
<1> USE RequestsAssumption, UrlsAssumption DEF IInv, Goto, Note, pageVars,
      replyVars, TypeOK, TabInv, GuardInv, Locations, Commands, Parts, Reading
<1>1. CASE Call
  BY <1>1 DEF Call, Nothing
<1>2. CASE Refuse
  BY <1>2 DEF Refuse, Reply
<1>3. CASE Accept
  BY <1>3 DEF Accept, Unusable
<1>4. CASE Check
  <2>1. CASE Pass
    BY <1>4, <2>1, PassGuard DEF Check
  <2>2. CASE \E e : Fail(e)
    BY <1>4, <2>2, FailGuard DEF Check
  <2>3. CASE Goto("lookup") /\ Note("looked")
    BY <1>4, <2>3 DEF Check
  <2> QED
    BY <1>4, <2>1, <2>2, <2>3 DEF Check
<1>5. CASE Lookup
  <2>1. CASE Pass
    BY <1>5, <2>1, PassGuard DEF Lookup
  <2>2. CASE Fail("navigation")
    BY <1>5, <2>2, FailGuard DEF Lookup
  <2>3. CASE Turn
    BY <1>5, <2>3, FailGuard DEF Lookup, Turn
  <2> QED
    BY <1>5, <2>1, <2>2, <2>3 DEF Lookup
<1>6. CASE OpenTab
  BY <1>6 DEF OpenTab
<1>7. CASE TabFails
  BY <1>7 DEF TabFails, Fail, Reply
<1>8. CASE Load
  BY <1>8 DEF Load
<1>9. CASE Waited
  BY <1>9 DEF Waited
<1>10. CASE TimesOut
  BY <1>10 DEF TimesOut, Timed, Fail, Reply
<1>11. CASE Landed
  BY <1>11 DEF Landed, Extract
<1>12. CASE ReadOnPage
  BY <1>12 DEF ReadOnPage, ReadTitle, ReadContent, ReadUrl, ReadLinks, Read,
    AfterUrl
<1>13. CASE Capture
  BY <1>13 DEF Capture, Read
<1>14. CASE CommandFails
  BY <1>14 DEF CommandFails, Fail, Reply
<1>15. CASE Close
  BY <1>15 DEF Close, Reply
<1>16. CASE Save
  BY <1>16 DEF Save, Reply
<1>17. CASE PageMoves
  BY <1>17 DEF PageMoves
<1>18. CASE NameMoves
  BY <1>18 DEF NameMoves
<1>19. CASE UNCHANGED vars
  BY <1>19 DEF vars
<1> QED
  BY <1>1, <1>2, <1>3, <1>4, <1>5, <1>6, <1>7, <1>8, <1>9, <1>10, <1>11,
    <1>12, <1>13, <1>14, <1>15, <1>16, <1>17, <1>18, <1>19 DEF Next, Navigate

(* Which documents the parts are of. *)
LEMMA PartInvStep == IInv /\ [Next]_vars => PartInv'
<1> SUFFICES ASSUME IInv, [Next]_vars PROVE PartInv'
  OBVIOUS
<1> USE RequestsAssumption, UrlsAssumption DEF IInv, Goto, Note, pageVars,
      replyVars, TypeOK, TabInv, PartInv, Locations, Commands, Errors, Parts,
      Reading
<1>1. CASE Call
  BY <1>1 DEF Call, Nothing
<1>2. CASE Refuse
  BY <1>2 DEF Refuse, Reply
<1>3. CASE Accept
  BY <1>3 DEF Accept, Unusable
<1>4. CASE Check
  BY <1>4 DEF Check, Pass, Extract, Fail, Reply
<1>5. CASE Lookup
  BY <1>5 DEF Lookup, Pass, Turn, Extract, Fail, Reply
<1>6. CASE OpenTab
  BY <1>6 DEF OpenTab
<1>7. CASE TabFails
  BY <1>7 DEF TabFails, Fail, Reply
<1>8. CASE Load
  BY <1>8 DEF Load
<1>9. CASE Waited
  BY <1>9 DEF Waited
<1>10. CASE TimesOut
  BY <1>10 DEF TimesOut, Timed, Fail, Reply
<1>11. CASE Landed
  BY <1>11 DEF Landed, Extract
<1>12. CASE ReadOnPage
  BY <1>12 DEF ReadOnPage, ReadTitle, ReadContent, ReadUrl, ReadLinks, Read,
    AfterUrl
<1>13. CASE Capture
  BY <1>13 DEF Capture, Read
<1>14. CASE CommandFails
  BY <1>14 DEF CommandFails, Fail, Reply
<1>15. CASE Close
  BY <1>15 DEF Close, Reply
<1>16. CASE Save
  BY <1>16 DEF Save, Reply
<1>17. CASE PageMoves
  BY <1>17 DEF PageMoves
<1>18. CASE NameMoves
  BY <1>18 DEF NameMoves
<1>19. CASE UNCHANGED vars
  BY <1>19 DEF vars
<1> QED
  BY <1>1, <1>2, <1>3, <1>4, <1>5, <1>6, <1>7, <1>8, <1>9, <1>10, <1>11,
    <1>12, <1>13, <1>14, <1>15, <1>16, <1>17, <1>18, <1>19 DEF Next, Navigate

(* The counter is touched last. *)
LEMMA CountInvStep == IInv /\ [Next]_vars => CountInv'
<1> SUFFICES ASSUME IInv, [Next]_vars PROVE CountInv'
  OBVIOUS
<1> USE RequestsAssumption, UrlsAssumption DEF IInv, Goto, Note, pageVars,
      replyVars, TypeOK, TabInv, CountInv, Locations, Commands, Upstream, Errors,
      Parts, Reading
<1>1. CASE Call
  BY <1>1 DEF Call, Nothing
<1>2. CASE Refuse
  BY <1>2 DEF Refuse, Reply
<1>3. CASE Accept
  BY <1>3 DEF Accept, Unusable
<1>4. CASE Check
  BY <1>4, PassNoted DEF Check, Unnoted, Extract, Fail, Reply
<1>5. CASE Lookup
  BY <1>5, PassNoted, TurnNoted DEF Lookup, Unnoted, Extract, Fail, Reply
<1>6. CASE OpenTab
  BY <1>6 DEF OpenTab
<1>7. CASE TabFails
  BY <1>7 DEF TabFails, Fail, Reply
<1>8. CASE Load
  BY <1>8 DEF Load
<1>9. CASE Waited
  BY <1>9 DEF Waited
<1>10. CASE TimesOut
  BY <1>10 DEF TimesOut, Timed, Fail, Reply
<1>11. CASE Landed
  BY <1>11 DEF Landed, Extract
<1>12. CASE ReadOnPage
  BY <1>12 DEF ReadOnPage, ReadTitle, ReadContent, ReadUrl, ReadLinks, Read,
    AfterUrl
<1>13. CASE Capture
  BY <1>13 DEF Capture, Read
<1>14. CASE CommandFails
  BY <1>14 DEF CommandFails, Fail, Reply
<1>15. CASE Close
  BY <1>15 DEF Close, Reply
<1>16. CASE Save
  BY <1>16 DEF Save, Reply
<1>17. CASE PageMoves
  BY <1>17 DEF PageMoves
<1>18. CASE NameMoves
  BY <1>18 DEF NameMoves
<1>19. CASE UNCHANGED vars
  BY <1>19 DEF vars
<1> QED
  BY <1>1, <1>2, <1>3, <1>4, <1>5, <1>6, <1>7, <1>8, <1>9, <1>10, <1>11,
    <1>12, <1>13, <1>14, <1>15, <1>16, <1>17, <1>18, <1>19 DEF Next, Navigate

(* Which hosts are internal changes with the name service only. *)
LEMMA HostsStay ==
  ASSUME UNCHANGED dns
  PROVE  \A u : InternalHost(u)' <=> InternalHost(u)
  BY DEF InternalHost, AddressesOf, Names

(* The verdicts of the guard: what it passes is not internal, and what it *)
(* blocks is. *)
LEMMA SettledRight ==
  ASSUME TypeOK, subject \in Urls
  PROVE  /\ ~conf.allowPrivate /\ Settled(conf.allowPrivate, Site[subject]) = "ok"
              => ~InternalHost(subject)
         /\ Settled(conf.allowPrivate, Site[subject]) = "blocked"
              => InternalHost(subject)
<1> DEFINE host == Site[subject].host
<1>1. IpIsBlocked(host.ip) <=> Internal(host.ip)
  BY AddressesAssumption, MasksAreRanges
<1>2. host.kind # "name" => AddressesOf(subject) = {host.ip}
  BY DEF AddressesOf, Names
<1> QED
  BY <1>1, <1>2 DEF Settled, InternalHost

LEMMA AnsweredRight ==
  ASSUME TypeOK, subject \in Urls
  PROVE  /\ Answered(AnswerFor(subject)) = "ok" => ~InternalHost(subject)
         /\ Answered(AnswerFor(subject)) = "blocked" => InternalHost(subject)
<1>1. CASE subject \in Names
  <2>1. dns[subject].addrs \subseteq Address
    BY <1>1, AddressesAssumption DEF TypeOK
  <2>2. \A ip \in dns[subject].addrs : IpIsBlocked(ip) <=> Internal(ip)
    BY <2>1, MasksAreRanges
  <2>3. Site[subject].host.kind = "name"
    BY <1>1 DEF Names
  <2> QED
    BY <1>1, <2>2, <2>3 DEF Answered, AnswerFor, InternalHost, AddressesOf
<1>2. CASE subject \notin Names
  BY <1>2 DEF Answered, AnswerFor, Unresolved
<1> QED
  BY <1>1, <1>2

(* The guard passes no internal host. *)
LEMMA HostInvStep == IInv /\ [Next]_vars => HostInv'
<1> SUFFICES ASSUME IInv, [Next]_vars PROVE HostInv'
  OBVIOUS
<1> USE HostsStay DEF IInv, Goto, Note, TypeOK, TabInv, HostInv
<1>1. CASE Call
  BY <1>1 DEF Call, Nothing
<1>2. CASE Refuse
  BY <1>2 DEF Refuse, Reply
<1>3. CASE Accept
  BY <1>3 DEF Accept
<1>4. CASE Check
  BY <1>4, SettledRight, PassNoted DEF Check, Fail, Reply
<1>5. CASE Lookup
  BY <1>5, AnsweredRight, PassNoted, TurnNoted DEF Lookup, Fail, Reply
<1>6. CASE OpenTab
  BY <1>6 DEF OpenTab
<1>7. CASE TabFails
  BY <1>7 DEF TabFails, Fail, Reply
<1>8. CASE Load
  BY <1>8 DEF Load
<1>9. CASE Waited
  BY <1>9 DEF Waited
<1>10. CASE TimesOut
  BY <1>10 DEF TimesOut, Timed, Fail, Reply
<1>11. CASE Landed
  BY <1>11 DEF Landed
<1>12. CASE ReadOnPage
  BY <1>12 DEF ReadOnPage, ReadTitle, ReadContent, ReadUrl, ReadLinks, Read
<1>13. CASE Capture
  BY <1>13 DEF Capture, Read
<1>14. CASE CommandFails
  BY <1>14 DEF CommandFails, Fail, Reply
<1>15. CASE Close
  BY <1>15 DEF Close, Reply
<1>16. CASE Save
  BY <1>16 DEF Save, Reply
<1>17. CASE PageMoves
  BY <1>17 DEF PageMoves
<1>18. CASE NameMoves
  BY <1>18, MoveNoted DEF NameMoves
<1>19. CASE UNCHANGED vars
  BY <1>19 DEF vars
<1> QED
  BY <1>1, <1>2, <1>3, <1>4, <1>5, <1>6, <1>7, <1>8, <1>9, <1>10, <1>11,
    <1>12, <1>13, <1>14, <1>15, <1>16, <1>17, <1>18, <1>19 DEF Next, Navigate

(* The guard blocks no other host. *)
LEMMA CauseInvStep == IInv /\ [Next]_vars => CauseInv'
<1> SUFFICES ASSUME IInv, [Next]_vars PROVE CauseInv'
  OBVIOUS
<1> USE HostsStay DEF IInv, Goto, Note, pageVars, replyVars, TypeOK, TabInv,
      PartInv, CountInv, CauseInv, Commands, Parts, Reading
<1>1. CASE Call
  BY <1>1 DEF Call, Nothing
<1>2. CASE Refuse
  BY <1>2 DEF Refuse, Reply
<1>3. CASE Accept
  BY <1>3 DEF Accept
<1>4. CASE Check
  BY <1>4, SettledRight DEF Check, Pass, Fail, Reply
<1>5. CASE Lookup
  BY <1>5, AnsweredRight DEF Lookup, Pass, Turn, Fail, Reply
<1>6. CASE OpenTab
  BY <1>6 DEF OpenTab
<1>7. CASE TabFails
  BY <1>7 DEF TabFails, Fail, Reply
<1>8. CASE Load
  BY <1>8 DEF Load
<1>9. CASE Waited
  BY <1>9 DEF Waited
<1>10. CASE TimesOut
  BY <1>10 DEF TimesOut, Timed, Fail, Reply
<1>11. CASE Landed
  BY <1>11 DEF Landed
<1>12. CASE ReadOnPage
  BY <1>12 DEF ReadOnPage, ReadTitle, ReadContent, ReadUrl, ReadLinks, Read
<1>13. CASE Capture
  BY <1>13 DEF Capture, Read
<1>14. CASE CommandFails
  BY <1>14 DEF CommandFails, Fail, Reply
<1>15. CASE Close
  BY <1>15 DEF Close, Reply
<1>16. CASE Save
  BY <1>16 DEF Save, Reply
<1>17. CASE PageMoves
  BY <1>17 DEF PageMoves
<1>18. CASE NameMoves
  BY <1>18, MoveNoted DEF NameMoves
<1>19. CASE UNCHANGED vars
  BY <1>19 DEF vars
<1> QED
  BY <1>1, <1>2, <1>3, <1>4, <1>5, <1>6, <1>7, <1>8, <1>9, <1>10, <1>11,
    <1>12, <1>13, <1>14, <1>15, <1>16, <1>17, <1>18, <1>19 DEF Next, Navigate

(* A part is read where the guard has passed the document. *)
LEMMA PartsOfCheckedPagesStep == IInv /\ [Next]_vars => PartsOfCheckedPages'
<1> SUFFICES ASSUME IInv, [Next]_vars PROVE PartsOfCheckedPages'
  OBVIOUS
<1> USE RequestsAssumption, UrlsAssumption DEF IInv, Goto, Note, pageVars,
      replyVars, TypeOK, TabInv, GuardInv, PartInv, PartsOfCheckedPages,
      Locations, Commands, Parts, Reading
<1>1. CASE Call
  BY <1>1 DEF Call, Nothing
<1>2. CASE Refuse
  BY <1>2 DEF Refuse, Reply
<1>3. CASE Accept
  BY <1>3 DEF Accept, Unusable
<1>4. CASE Check
  BY <1>4 DEF Check, Pass, Extract, Fail, Reply
<1>5. CASE Lookup
  <2>1. pc = "lookup" /\ part' = part
    BY <1>5 DEF Lookup
  <2>2. \A p \in Parts : part[p] = "none"
    BY <2>1
  <2>3. \A p \in Parts : part'[p] = "none"
    BY <2>1, <2>2
  <2> QED
    BY <2>3
<1>6. CASE OpenTab
  BY <1>6 DEF OpenTab
<1>7. CASE TabFails
  BY <1>7 DEF TabFails, Fail, Reply
<1>8. CASE Load
  BY <1>8 DEF Load
<1>9. CASE Waited
  BY <1>9 DEF Waited
<1>10. CASE TimesOut
  BY <1>10 DEF TimesOut, Timed, Fail, Reply
<1>11. CASE Landed
  BY <1>11 DEF Landed, Extract
<1>12. CASE ReadOnPage
  BY <1>12 DEF ReadOnPage, ReadTitle, ReadContent, ReadUrl, ReadLinks, Read,
    AfterUrl
<1>13. CASE Capture
  BY <1>13 DEF Capture, Read
<1>14. CASE CommandFails
  BY <1>14 DEF CommandFails, Fail, Reply
<1>15. CASE Close
  BY <1>15 DEF Close, Reply
<1>16. CASE Save
  BY <1>16 DEF Save, Reply
<1>17. CASE PageMoves
  BY <1>17 DEF PageMoves
<1>18. CASE NameMoves
  BY <1>18 DEF NameMoves
<1>19. CASE UNCHANGED vars
  BY <1>19 DEF vars
<1> QED
  BY <1>1, <1>2, <1>3, <1>4, <1>5, <1>6, <1>7, <1>8, <1>9, <1>10, <1>11,
    <1>12, <1>13, <1>14, <1>15, <1>16, <1>17, <1>18, <1>19 DEF Next, Navigate

(* A call adds one to the counter when a fault has ended it. *)
LEMMA FaultsCountedStep == IInv /\ [Next]_vars => FaultsCounted'
<1> SUFFICES ASSUME IInv, [Next]_vars PROVE FaultsCounted'
  OBVIOUS
<1> USE RequestsAssumption, UrlsAssumption DEF IInv, Goto, Note, pageVars,
      replyVars, TypeOK, TabInv, CountInv, FaultsCounted, Locations, Upstream,
      Errors, Replies, Commands, Parts, Reading
<1>1. CASE Call
  BY <1>1 DEF Call, Nothing
<1>2. CASE Refuse
  BY <1>2 DEF Refuse, Reply
<1>3. CASE Accept
  BY <1>3 DEF Accept, Unusable
<1>4. CASE Check
  BY <1>4, PassNoted DEF Check, Unnoted, Extract, Fail, Reply
<1>5. CASE Lookup
  BY <1>5, PassNoted, TurnNoted DEF Lookup, Unnoted, Extract, Fail, Reply
<1>6. CASE OpenTab
  BY <1>6 DEF OpenTab
<1>7. CASE TabFails
  BY <1>7 DEF TabFails, Fail, Reply
<1>8. CASE Load
  BY <1>8 DEF Load
<1>9. CASE Waited
  BY <1>9 DEF Waited
<1>10. CASE TimesOut
  BY <1>10 DEF TimesOut, Timed, Fail, Reply
<1>11. CASE Landed
  BY <1>11 DEF Landed, Extract
<1>12. CASE ReadOnPage
  BY <1>12 DEF ReadOnPage, ReadTitle, ReadContent, ReadUrl, ReadLinks, Read,
    AfterUrl
<1>13. CASE Capture
  BY <1>13 DEF Capture, Read
<1>14. CASE CommandFails
  BY <1>14 DEF CommandFails, Fail, Reply
<1>15. CASE Close
  BY <1>15 DEF Close, Reply
<1>16. CASE Save
  BY <1>16 DEF Save, Reply
<1>17. CASE PageMoves
  BY <1>17 DEF PageMoves
<1>18. CASE NameMoves
  BY <1>18 DEF NameMoves
<1>19. CASE UNCHANGED vars
  BY <1>19 DEF vars
<1> QED
  BY <1>1, <1>2, <1>3, <1>4, <1>5, <1>6, <1>7, <1>8, <1>9, <1>10, <1>11,
    <1>12, <1>13, <1>14, <1>15, <1>16, <1>17, <1>18, <1>19 DEF Next, Navigate

-----------------------------------------------------------------------------
(* The theorems *)

LEMMA StepIInv == IInv /\ [Next]_vars => IInv'
  BY TypeOKStep, TabInvStep, ArgsInvStep, GuardInvStep, PartInvStep,
     CountInvStep, HostInvStep, CauseInvStep, PartsOfCheckedPagesStep,
     FaultsCountedStep
  DEF IInv

(* The inductive invariant of a tool call: types, where the tab is, what the *)
(* guard has passed, and that nothing is read before it has. *)
THEOREM Invariant == Spec => []IInv
  BY InitIInv, StepIInv, PTL DEF Spec

(* A save_as that its text or the configuration rules out costs no lookup *)
(* and no tab. *)
THEOREM BadPathsCostNothing == Spec => []BadPathCostsNothing
<1>1. IInv => BadPathCostsNothing
  BY RequestsAssumption
  DEF IInv, TypeOK, ArgsInv, BadPathCostsNothing, Unusable
<1> QED
  BY <1>1, Invariant, PTL

(* Where the page says where it is and stays there, nothing is read of a *)
(* document whose URL the guard has not passed. *)
THEOREM OnlyCheckedPages == Spec => []PartsOfCheckedPages
<1>1. IInv => PartsOfCheckedPages
  BY DEF IInv
<1> QED
  BY <1>1, Invariant, PTL

(* Nothing is read from an internal host unless private hosts are allowed, *)
(* but for a name whose answer has changed since its last lookup. *)
THEOREM OnlyPublicHosts == Spec => []PartsFromPublicHosts
<1>1. IInv => PartsFromPublicHosts
  BY DEF IInv, HostInv, PartsOfCheckedPages, PartsFromPublicHosts
<1> QED
  BY <1>1, Invariant, PTL

(* A call is answered "blocked" for an internal host only, by the answer of *)
(* its lookup. *)
THEOREM BlocksForCause == Spec => []BlockedHasCause
<1>1. IInv => BlockedHasCause
  BY DEF IInv, CauseInv, BlockedHasCause
<1> QED
  BY <1>1, Invariant, PTL

(* The failure counter counts each call that a fault has ended, once. *)
THEOREM CountsFaults == Spec => []FaultsCounted
<1>1. IInv => FaultsCounted
  BY DEF IInv
<1> QED
  BY <1>1, Invariant, PTL
=============================================================================

----------------------------- MODULE WebService -----------------------------
(***************************************************************************)
(* One call of the tool service (call_tool of src/service.rs), from its    *)
(* arguments to its reply, with the page it works on: the argument checks, *)
(* the URL guard, the tab, the commands of navigate, read_on_page and      *)
(* screenshot_on_page, the close, the save and the failure counter.  A     *)
(* step is what happens up to the next await.                              *)
(*                                                                         *)
(* The page is another actor: it is redirected while it loads and goes on  *)
(* by itself, between any two commands.  So is the name service, whose     *)
(* answers may change at any time, also between the lookup of a name and   *)
(* the connection Chrome makes to it.  Calls that run at the same time     *)
(* share only the browser (module BrowserManager) and the screenshot       *)
(* directory (module ScreenshotDir); a call meets them here as a tab or an *)
(* error, and as the result of save_png.  So one call, repeated, is        *)
(* enough.                                                                 *)
(*                                                                         *)
(* A document is known by its URL.  "none" is no document, and also the    *)
(* empty value a command may return instead of one.                        *)
(***************************************************************************)
EXTENDS UrlGuard

CONSTANTS
  Urls,       \* the URLs of the model, by name
  Site,       \* each of them as the url crate reads it
  Answers,    \* the answers the name service may have for a name
  Requests    \* the arguments of the calls

NoUrl == "no url"      \* missing, empty, or not a string

ASSUME UrlsAssumption == "none" \notin Urls /\ NoUrl \notin Urls
ASSUME AddressesAssumption ==
  /\ \A u \in Urls : Site[u].host.ip \in Address
  /\ \A a \in Answers : a.addrs \subseteq Address
  /\ Unresolved \in Answers
ASSUME RequestsAssumption ==
  Requests \subseteq [tool : {"web_read", "web_screenshot", "other"},
                      url : Urls \cup {NoUrl},
                      links : BOOLEAN,
                      save : {"none", "good", "bad"}]

VARIABLES
  dns,        \* what the name service says of each name
  conf,       \* allow_private_hosts, and whether there is a screenshot dir
  pc,         \* where the call is
  request,    \* its arguments
  subject,    \* the URL the guard is looking at
  tab,        \* whether the call has a tab
  doc,        \* the document its page shows
  part,       \* the documents the parts of the reply are of
  err,        \* the error that is carried past the close, or "none"
  reply,      \* what the call has returned
  counted,    \* what it has added to web.upstream_failures, in order
  seen        \* what has happened in this call, for the properties

vars == <<dns, conf, pc, request, subject, tab, doc, part, err, reply, counted, seen>>

Reading == {"title", "content", "url", "links"}
Parts == Reading \cup {"capture"}
Locations ==
  {"idle", "args", "check", "lookup", "tab", "goto", "wait", "landed"}
    \cup Parts \cup {"close", "save"}
Errors == {"invalid", "blocked", "navigation", "timeout", "browser", "io"}
Replies == {"none", "page", "image", "saved", "unknown"} \cup Errors

\* passed: the URLs the guard let pass when it last looked at them.  stale: the
\* names whose answer has changed since it did.  looked: a name was looked up.
\* opened: a tab was opened.  fault: something outside did not answer as it
\* should.  unnamed: Chrome did not say which URL a page has.  late: the page
\* went on after it had landed.
Nothing == [passed |-> {}, stale |-> {}, looked |-> FALSE, opened |-> FALSE,
            fault |-> FALSE, unnamed |-> FALSE, late |-> FALSE]

Names == {u \in Urls : Site[u].host.kind = "name"}

Init ==
  /\ dns \in [Names -> Answers]
  /\ conf \in [allowPrivate : BOOLEAN, hasDir : BOOLEAN]
  /\ pc = "idle"
  /\ request \in Requests
  /\ subject = "none"
  /\ tab = FALSE
  /\ doc = "none"
  /\ part = [p \in Parts |-> "none"]
  /\ err = "none"
  /\ reply = "none"
  /\ counted = <<>>
  /\ seen = Nothing

pageVars == <<tab, doc, part>>
replyVars == <<err, reply, counted>>

-----------------------------------------------------------------------------
(* Helpers *)

Goto(l) == pc' = l
Note(field) == seen' = [seen EXCEPT ![field] = TRUE]

\* upstream_failure_reason: faults, not declines.  (The first form counts a
\* refused URL as well.)
WithDeclines == {"navigation", "timeout", "browser", "blocked"}
Upstream == {"navigation", "timeout", "browser"}

Reply(r) ==
  /\ Goto("idle")
  /\ reply' = r
  /\ counted' = IF r \in Upstream THEN Append(counted, r) ELSE counted

\* The ? of the code: without a tab the call returns the error; with one it
\* closes the tab first.
Fail(e) ==
  \/ ~tab /\ Reply(e) /\ UNCHANGED err
  \/ tab /\ Goto("close") /\ err' = e /\ UNCHANGED <<reply, counted>>

\* What can be refused on the text of the arguments alone.  (The first form
\* leaves the path to save_png.)
UnusableUrl(r) == r.url = NoUrl
Unusable(r) ==
  \/ r.url = NoUrl
  \/ r.tool = "web_screenshot" /\ r.save = "bad"
  \/ r.tool = "web_screenshot" /\ r.save # "none" /\ ~conf.hasDir

\* Where navigate leaves off.
Extract == IF request.tool = "web_read" THEN "title" ELSE "capture"

\* The guard lets the subject pass, on what it knows now.
Pass ==
  /\ Goto(IF tab THEN Extract ELSE "tab")
  /\ seen' = [seen EXCEPT !.passed = @ \cup {subject}, !.stale = @ \ {subject}]
  /\ UNCHANGED replyVars

\* It turns the subject down after a lookup.
Turn ==
  /\ Fail("blocked")
  /\ seen' = [seen EXCEPT !.passed = @ \ {subject}, !.stale = @ \ {subject}]

\* Brackets are no name, and the name service does not know them.
AnswerFor(u) == IF u \in Names THEN dns[u] ELSE Unresolved

\* Where Chrome connects to for a document.
AddressesOf(u) == IF u \in Names THEN dns[u].addrs ELSE {Site[u].host.ip}
InternalHost(u) ==
  Site[u].host.kind = "local" \/ \E ip \in AddressesOf(u) : Internal(ip)

\* What tokio::time::timeout is put around, and what a CDP error can end.
\* (The first form is a timeout around goto alone.)
GotoOnly == {"goto"}
Timed == {"goto", "wait"}
Commands == {"goto", "wait", "landed"} \cup Parts

-----------------------------------------------------------------------------
(* Before there is a page *)

Call ==
  /\ pc = "idle"
  /\ Goto("args")
  /\ request' \in Requests
  /\ subject' = "none"
  /\ part' = [p \in Parts |-> "none"]
  /\ err' = "none"
  /\ reply' = "none"
  /\ counted' = <<>>
  /\ seen' = Nothing
  /\ UNCHANGED <<dns, conf, tab, doc>>

\* No such tool, or arguments that cannot be used.
Refuse ==
  /\ pc = "args"
  /\ \/ request.tool = "other" /\ Reply("unknown")
     \/ request.tool # "other" /\ Unusable(request) /\ Reply("invalid")
  /\ UNCHANGED <<dns, conf, request, subject, pageVars, err, seen>>

Accept ==
  /\ pc = "args"
  /\ request.tool # "other"
  /\ ~Unusable(request)
  /\ Goto("check")
  /\ subject' = request.url
  /\ UNCHANGED <<dns, conf, request, pageVars, replyVars, seen>>

\* UrlGuard::check, of the URL of the request or, with a tab, of the URL the
\* page has landed on.
Check ==
  /\ pc = "check"
  /\ LET v == Settled(conf.allowPrivate, Site[subject]) IN
       \/ v = "ok" /\ Pass
       \/ v = "lookup" /\ Goto("lookup") /\ Note("looked") /\ UNCHANGED replyVars
       \/ v \in {"invalid", "blocked"} /\ Fail(v) /\ UNCHANGED seen
  /\ UNCHANGED <<dns, conf, request, subject, pageVars>>

Lookup ==
  /\ pc = "lookup"
  /\ LET v == Answered(AnswerFor(subject)) IN
       \/ v = "ok" /\ Pass
       \/ v = "blocked" /\ Turn
       \/ v = "navigation" /\ Fail("navigation") /\ Note("fault")
  /\ UNCHANGED <<dns, conf, request, subject, pageVars>>

\* new_tab: a tab of its own, or the error of the launch or of the command.
OpenTab ==
  /\ pc = "tab"
  /\ Goto("goto")
  /\ tab' = TRUE
  /\ Note("opened")
  /\ UNCHANGED <<dns, conf, request, subject, doc, part, replyVars>>

TabFails ==
  /\ pc = "tab"
  /\ \E e \in {"navigation", "browser"} : Fail(e)
  /\ Note("fault")
  /\ UNCHANGED <<dns, conf, request, subject, pageVars>>

-----------------------------------------------------------------------------
(* navigate *)

\* A redirect may lead to any other http(s) URL.
Load ==
  /\ pc = "goto"
  /\ \E u \in Urls : ~Malformed(Site[u]) /\ doc' = u
  /\ Goto("wait")
  /\ UNCHANGED <<dns, conf, request, subject, tab, part, replyVars, seen>>

Waited ==
  /\ pc = "wait"
  /\ Goto("landed")
  /\ UNCHANGED <<dns, conf, request, subject, pageVars, replyVars, seen>>

TimesOut ==
  /\ pc \in Timed
  /\ Fail("timeout")
  /\ Note("fault")
  /\ UNCHANGED <<dns, conf, request, subject, pageVars>>

\* The URL of the page is checked if Chrome says what it is and it is not the
\* one that was checked before.  (The first form goes by the first check.)
LandedTrusting ==
  /\ pc = "landed"
  /\ Goto(Extract)
  /\ UNCHANGED <<dns, conf, request, subject, pageVars, replyVars, seen>>

Landed ==
  /\ pc = "landed"
  /\ \/ Goto(Extract) /\ Note("unnamed") /\ UNCHANGED subject
     \/ doc = request.url /\ Goto(Extract) /\ UNCHANGED <<subject, seen>>
     \/ doc # request.url /\ Goto("check") /\ subject' = doc /\ UNCHANGED seen
  /\ UNCHANGED <<dns, conf, request, pageVars, replyVars>>

-----------------------------------------------------------------------------
(* read_on_page and screenshot_on_page *)

Read(p, d, next) ==
  /\ pc = p
  /\ part' = [part EXCEPT ![p] = d]
  /\ Goto(next)
  /\ UNCHANGED <<dns, conf, request, subject, tab, doc, replyVars>>

\* A title or content that Chrome does not return is the empty string.
ReadTitle == \E d \in {doc, "none"} : Read("title", d, "content") /\ UNCHANGED seen
ReadContent == \E d \in {doc, "none"} : Read("content", d, "url") /\ UNCHANGED seen

\* The URL of the request stands in for one that Chrome does not say.
AfterUrl == IF request.links THEN "links" ELSE "close"
ReadUrl ==
  \/ Read("url", doc, AfterUrl) /\ UNCHANGED seen
  \/ Read("url", request.url, AfterUrl) /\ Note("unnamed")

ReadLinks == \E d \in {doc, "none"} : Read("links", d, "close") /\ UNCHANGED seen

Capture == Read("capture", doc, "close") /\ UNCHANGED seen

CommandFails ==
  /\ pc \in Commands
  /\ Fail("browser")
  /\ Note("fault")
  /\ UNCHANGED <<dns, conf, request, subject, pageVars>>

-----------------------------------------------------------------------------
(* The way out *)

\* The tab is closed, or not: the result is the same.
Close ==
  /\ pc = "close"
  /\ tab' = FALSE
  /\ doc' = "none"
  /\ \/ err # "none" /\ Reply(err)
     \/ err = "none" /\ request.tool = "web_read" /\ Reply("page")
     \/ err = "none" /\ request.tool # "web_read" /\ request.save = "none"
          /\ Reply("image")
     \/ err = "none" /\ request.tool # "web_read" /\ request.save # "none"
          /\ Goto("save") /\ UNCHANGED <<reply, counted>>
  /\ UNCHANGED <<dns, conf, request, subject, part, err, seen>>

\* save_png: what the file system says to the path only shows now.
Save ==
  /\ pc = "save"
  /\ \E r \in {"saved", "invalid", "io"} : Reply(r)
  /\ UNCHANGED <<dns, conf, request, subject, pageVars, err, seen>>

\* A script, a refresh or a click handler moves the page on, to any URL.
PageMoves ==
  /\ tab
  /\ pc # "goto"
  /\ \E u \in Urls : Site[u].parses /\ u # doc /\ doc' = u
  /\ seen' = [seen EXCEPT !.late = @ \/ pc \notin {"wait", "landed", "close"}]
  /\ UNCHANGED <<dns, conf, pc, request, subject, tab, part, replyVars>>

\* The name service changes an answer.
NameMoves ==
  /\ \E u \in Names, a \in Answers :
       /\ a # dns[u]
       /\ dns' = [dns EXCEPT ![u] = a]
       /\ seen' = [seen EXCEPT !.stale = @ \cup {u}]
  /\ UNCHANGED <<conf, pc, request, subject, pageVars, replyVars>>

-----------------------------------------------------------------------------
Navigate == Load \/ Waited \/ TimesOut \/ Landed
ReadOnPage == ReadTitle \/ ReadContent \/ ReadUrl \/ ReadLinks

Next ==
  \/ Call \/ Refuse \/ Accept \/ Check \/ Lookup \/ OpenTab \/ TabFails
  \/ Navigate \/ ReadOnPage \/ Capture \/ CommandFails
  \/ Close \/ Save
  \/ PageMoves \/ NameMoves

Spec == Init /\ [][Next]_vars

\* The timer fires.  Nothing is assumed of Chrome or of the page.
TimerSpec == Spec /\ WF_vars(TimesOut)

-----------------------------------------------------------------------------
(* What must hold *)

\* Every variable has its type.
TypeOK ==
  /\ dns \in [Names -> Answers]
  /\ conf \in [allowPrivate : BOOLEAN, hasDir : BOOLEAN]
  /\ pc \in Locations
  /\ request \in Requests
  /\ subject \in Urls \cup {"none"}
  /\ tab \in BOOLEAN
  /\ doc \in Urls \cup {"none"}
  /\ part \in [Parts -> Urls \cup {"none"}]
  /\ err \in Errors \cup {"none"}
  /\ reply \in Replies
  /\ counted \in Seq(Upstream)
  /\ seen \in [passed : SUBSET Urls, stale : SUBSET Urls, looked : BOOLEAN,
               opened : BOOLEAN, fault : BOOLEAN, unnamed : BOOLEAN,
               late : BOOLEAN]

\* README: "A path refused on its own text is refused before the page is
\* fetched, so it costs no lookup and no page load", and so is a path when
\* there is no directory to save in.
BadPathCostsNothing ==
  request.tool = "web_screenshot"
    /\ request.save \in (IF conf.hasDir THEN {"bad"} ELSE {"bad", "good"})
  => ~seen.looked /\ ~seen.opened

\* Nothing is read from a document whose URL the guard has not let pass, in
\* this call, be it the page the caller asked for or the one it was redirected
\* to: if Chrome says where the page is and the page then stays there.
PartsOfCheckedPages ==
  ~seen.unnamed /\ ~seen.late =>
    \A p \in Parts : part[p] \in seen.passed \cup {"none"}

\* Unless private hosts are allowed, nothing is read from an internal host, but
\* for one: a name whose answer has changed since the guard last looked it up in
\* this call (url_guard.rs:15 leaves that open).  A change before the lookup, of
\* the URL asked for or of the one the page landed on, lets nothing through.
PartsFromPublicHosts ==
  ~conf.allowPrivate /\ ~seen.unnamed /\ ~seen.late =>
    \A p \in Parts :
      part[p] \notin {"none"} \cup seen.stale => ~InternalHost(part[p])

\* A call is answered "blocked" only for an internal host: the one of its URL
\* or the one it was redirected to, by the answer its lookup has had.
BlockedHasCause ==
  reply = "blocked" /\ subject \notin seen.stale => InternalHost(subject)

\* A call in which something outside failed adds one to the failure counter,
\* and no other call adds anything: not the one that was refused, not the one
\* whose tab would not close or whose image would not save.
FaultsCounted ==
  pc = "idle" => Len(counted) = IF seen.fault THEN 1 ELSE 0

\* Loading a page is bounded in time, whatever the page does.
NavigationEnds == pc \in {"goto", "wait"} ~> pc \notin {"goto", "wait"}

-----------------------------------------------------------------------------
(* The inductive invariant behind the safety properties *)

\* Where in the code there is a tab, and a document in it.
TabInv ==
  /\ pc \in {"idle", "args", "tab", "save"} => ~tab
  /\ pc \in Commands \cup {"close"} => tab
  /\ pc \in {"wait", "landed"} \cup Parts => doc \in Urls
  /\ pc \in {"check", "lookup"} => subject \in Urls /\ (tab => doc \in Urls)

\* Arguments that cannot be used get nowhere.
ArgsInv ==
  request.tool = "other" \/ Unusable(request) =>
    pc \in {"idle", "args"} /\ ~seen.looked /\ ~seen.opened

\* What the guard has passed when a page is worked on.
GuardInv ==
  /\ pc \in {"tab"} \cup Commands => request.url \in seen.passed
  /\ pc \in {"check", "lookup"} /\ ~tab => subject = request.url
  /\ pc \in {"check", "lookup"} /\ tab =>
       /\ request.url \in seen.passed
       /\ seen.late \/ subject = doc
  /\ pc \in Parts /\ ~seen.late /\ ~seen.unnamed => doc \in seen.passed

\* Of which documents the parts read so far are.
PartInv ==
  /\ pc \in {"args", "check", "lookup", "tab", "goto", "wait", "landed"} =>
       \A p \in Parts : part[p] = "none"
  /\ pc # "idle" => reply = "none"

\* The counter is touched last; a fault is on its way to it as an error.
CountInv ==
  /\ pc \notin {"idle", "close"} => err = "none"
  /\ pc # "idle" =>
       /\ counted = <<>>
       /\ seen.fault <=> pc = "close" /\ err \in Upstream

\* Of the hosts whose answer is still the one the guard has seen, it has passed
\* none that is internal, and blocked no other.
HostInv ==
  ~conf.allowPrivate =>
    \A u \in seen.passed \ seen.stale : ~InternalHost(u)
CauseInv ==
  "blocked" \in {err, reply} =>
    subject \in Urls /\ (subject \notin seen.stale => InternalHost(subject))

IInv ==
  /\ TypeOK /\ TabInv /\ ArgsInv /\ GuardInv /\ PartInv /\ CountInv
  /\ HostInv /\ CauseInv
  /\ PartsOfCheckedPages /\ FaultsCounted

-----------------------------------------------------------------------------
(* What comments say and the code does not do *)

\* error.rs:42: "The caller supplied invalid parameters": a read with a URL
\* that is fit to be opened is not answered so.
InvalidIsTheCallers ==
  request.tool = "web_read" /\ reply = "invalid" =>
    request.url = NoUrl \/ Malformed(Site[request.url])

\* url_guard.rs:63: "Literal IP host: check directly, no DNS."
LiteralNotLookedUp ==
  pc = "lookup" => Site[subject].host.kind \notin {"v4", "v6"}
=============================================================================

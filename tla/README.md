# Verification of web-mcp

web-mcp is an MCP server with two tools, `web_read` and `web_screenshot`, that
it serves through one shared headless Chrome. This directory holds TLA+ models
of its parts, TLC configurations that check them on small instances,
and TLAPS proofs of their main safety properties for every instance.

Paths below are relative to the repository root (`src/...` is its source crate).
`PROJECT.json` lists the components, the runs, the mutants, the theorems, the
hazards and, per definition, the source lines it models; its paths have the
root directory's name, `src/`, in front.

## 1. Inventory

| Part | Source | State | Operations | Interacts with |
|---|---|---|---|---|
| Tool service | `src/service.rs` | none of its own; owns the next four | `call_tool` → `execute_read`, `execute_screenshot`; failure counter; reply shapes | called concurrently by mcp-core, calls guard, browser, screenshot directory in turn |
| URL guard | `src/url_guard.rs` | a flag | `check`: parse, scheme, literal address, `localhost`, DNS lookup, address ranges | called before a tab is opened and again by `navigate` on the final URL |
| Browser manager | `src/operations/browser.rs` | `inner: Mutex<Option<Live>>`, the Chrome process, its event-handler task | `new_tab` (relaunching), `launch`, `read`, `screenshot`, tab close | every call in flight shares it; Chrome and the event stream act on their own |
| Profile directories | `src/operations/browser.rs` | `LAUNCH_SEQ`, static per process; directories on disk | one name per `launch` | other managers of the process, other processes, earlier processes |
| Page operations | `src/operations/browser.rs` | one page per call | `navigate` (timeout, recheck), `read_on_page`, `screenshot_on_page`, `truncate` | the page changes by itself |
| Screenshot directory | `src/screenshot.rs` | the file tree below one directory | `check`, `save_png` (`resolve`, write), `png_dimensions` | concurrent saves, other servers with the same directory, whatever tidies a cache directory |
| Configuration | `src/config.rs` | the settings of a server, read once | `default_screenshot_dir` | the environment of the process |
| Child environment | `src/operations/browser.rs` | the environment of the process, which a host may change | `chrome_env`, `chrome_launch_args` | inherited by Chrome at each launch |
| Errors | `src/error.rs` | none | – | – |
| Entry points | `src/main.rs`, `src/lib.rs` | none | CLI, `build_service`, transports of mcp-core | – |

What makes each correct, and what is hard about it:

* **Browser manager.** One Chrome at a time; one launch for any number of calls
  that find none; a dead browser replaced; the lock held only for the tab; every
  tab closed on every path; no call disturbed by another. Hard: calls race for
  the lock while Chrome dies, its stream ends later than it dies or earlier
  (an error event), a launch fails, answers are lost.
* **Profile directories.** Never two Chromes on one profile. Hard: the name is
  made of a process id and a counter that both start again.
* **Screenshot directory.** Nothing outside is touched; a save that reports
  success left its image; a failure has a cause and leaves little behind. Hard:
  check and use are separate system calls, each of which may fail, and saves, a
  cache cleaner and a crash come in between.
* **Page operations.** The URL that was checked, the title, the content and the
  reported URL should be of one document; the time is bounded. Hard: the page
  navigates between the commands, and the timeout covers two of them.
* **URL guard.** Refuses exactly the hosts it names. Hard: bit masks, lookups
  with several answers, answers that change between the lookup here and Chrome's.
* **Configuration, child environment.** The default directory is the user's own;
  Chrome sees no value it is not meant to see, and those it needs as they are.
  Hard: variables that are empty, relative, not UTF-8, or set by the host while
  Chrome is being started.
* **Tool service.** Refusals come before any page is fetched; the counter counts
  outward faults only. Hard: the order of several checks and their error kinds.

## 2. Modules

| Module | Models | Role |
|---|---|---|
| `TabService` | what the browser manager promises its callers | abstract specification |
| `BrowserManager` | browser manager | the state machine, its properties, inductive invariant and refinement mapping to `TabService` |
| `MCBrowserManager` | | symmetry for TLC |
| `BrowserManager_proofs` | | TLAPS proofs |
| `LaunchDirs`, `MCLaunchDirs`, `LaunchDirs_proofs` | profile directories | as above |
| `SaveService` | what the screenshot directory promises about the files in it | abstract specification |
| `ScreenshotDir`, `MCScreenshotDir`, `ScreenshotDir_proofs`, `SaveResults_proofs` | screenshot directory | as above, with the refinement mapping to `SaveService`; the proofs about what the result of a save says, and of the refinement, are in `SaveResults_proofs` |
| `UrlGuard`, `UrlGuard_proofs` | URL guard | the decision as operators, the documented ranges, and the proof that they are the same |
| `WebService`, `MCWebService`, `WebService_proofs` | tool service, page operations, failure counter, name service | as above; extends `UrlGuard` |
| `SavePath`, `SavePath_proofs` | `relative_within_root`, `strip_root` | operators, and what they compute for every text |
| `Settings` | `screenshot_dir_under`, `chrome_env` | operators |
| `ReadLimit` | `get_u64`, `truncate` | operators |
| `Server`, `MCServer`, `Server_proofs` | a server from its start on, with its environment and the place of its directory | composes the last three |

A definition printed just before another with the same parameters, and used
nowhere (`AnyWaiterEnters` before `HasLock`, `OpenedUncut` before `Opened`), is
a form with a plausible bug. `PROJECT.json` names the property each one breaks
when it takes the place of the other.

### BrowserManager

A *slot* is a place for one call in flight. `pc` follows the call:

| `pc` | The call is |
|---|---|
| `idle` | not there; the slot may carry the next call |
| `queued` | at `self.inner.lock().await`, or past it and not yet decided |
| `launching` | inside `launch`, the mutex held |
| `opening` | at `new_page`, the mutex held |
| `working` | in `read_on_page` or `screenshot_on_page`, on its own tab |
| `closing` | at `page.close()` |

`queue` is tokio's fair mutex: the holder first, then the waiters. `inner` is
the launch behind it, by number. Chrome has two independent facts about it: its
process runs (`up`), and its event-handler task is not finished (`pumping`).
The code looks at the second only (`is_finished`), and the distance between the
two is where most of the interesting behaviour is: `ChromeDies` ends the
process, `StreamEnds` the task, some time later; `StreamErrs` ends the task of
a Chrome that runs. A command is answered only while both hold (`Answers`).
`StartLaunch` is the whole of "take the old one out, abort its handler, drop
it (which kills the process), number the new launch"; `LaunchOk` and
`LaunchFails` are the two ends of `launch().await?`. `open` is the set of slots
with a tab in a running Chrome, `stray` counts the tabs nobody will close.

Abstracted: what a page operation does (one step, every error kind); URLs and
contents; the arguments of Chrome. Not modelled: a call that is cancelled by
dropping its future (mcp-core's decision, not visible in this repository).

`TabService` hides all of this. A call asks, is served in the order of asking
with a tab or an error, uses its tab, and leaves; `live` is the set of calls
whose tab answers, and an `Outage` takes all of them away at once. The mapping
(`Promise`) takes `queue` for the line, the answering tabs for `live`, and the
deaths and stream errors for the outages: launches, the taking out of a dead
browser and stray tabs are stutters, and no outage happens without a fault.

### LaunchDirs

Servers start under a free process id, and their managers take a number
(`fetch_add`), start Chrome and drop it, concurrently. `Exit` is an exit or a
kill. `Recycled` says whether ids are given out again, `Orphans` whether a
Chrome may outlive its server. A Chrome starts only on a directory that no
other uses: the other holds its `SingletonLock`.

### ScreenshotDir

`node` is what is at each path of a small tree: nothing, a directory, a file, a
file with a second name outside (`hard`), a symbolic link that leads outside.
A call goes through `resolve` and `fs::write` in steps that are one group of
system calls each:

| `pc` | Code |
|---|---|
| `root` | `create_dir_all` of the root |
| `resolve` | `canonicalize` of the directory just created, the root or one below, and `starts_with` |
| `walk` | `is_symlink(&next)` |
| `mkdir` | `create_dir_all(&next)` |
| `target` | the three checks of the target |
| `open` | the open of `fs::write`, which creates or truncates |
| `write` | its write, and the reply |

Three groups are taken as one step: the checks of the target (nothing in the
model tells their order apart: all three refuse), `create_dir_all` of several
missing levels, and the write of one buffer. Initial trees are all trees of the
paths, with nothing, a directory or a file in the place of the root.

Each `?` has its failures, of two kinds. What is at a name of the path is the
reason in `MakeDirFails`, `ResolveFails` and `OpenFails` (result `obstructed`): a
file in the place of a directory, a directory that is gone again, a directory in
the place of the file. The system's own reasons (permissions, a full disk, no
descriptor, a name too long) are the fault `denied`, which may strike each call:
`MakeDirDenied`, which may have created some of the missing levels by then, and
`AccessDenied`, of `canonicalize` and of the open; and `WriteFails`, which leaves
part of the image. Both kinds are the code's IO error; `refused` is its
`InvalidParameters`. An `lstat` of one of the checks that fails reads as "not a
link" in the code; that it fails while the open of the same path then succeeds is
not modelled.

`Removal` is something that tidies a cache
directory (files and empty directories; a call with the file open goes on
writing to a file without a name); `Crash` ends the server and with it its
calls. No link appears while the server runs: `src/screenshot.rs:16-22` states
that as a non-goal, and the models take it as their assumption. `save_as` is a
path that `relative_within_root` accepts; the texts are in `SavePath`.

`SaveService` is the same as a reader of the files sees it, when no two calls
save to one path. A call asks, and either declines (refused, obstructed or
denied), with every file as it was, or begins to write, which cuts its own file
and no other, and none that is not the directory's alone; then it finishes with
its whole image there, or breaks. Files may be removed at any time and the
server may die. The mapping (`Promise`) takes everything before the open for
asking (`Phase`), and of a file only what it is to a reader (`Content`): none,
one from before, part of an image, the image of the call whose path it is, or
something that has a name outside. The walk, the checks and the directories they
create are stutters.

### UrlGuard and WebService

`UrlGuard` has `check` in two parts: `Settled`, what the URL alone decides, and
`Answered`, what the answer of the lookup decides; between them the code awaits.
Addresses are octets and segments, so that the masks of `ip_is_blocked` are
there as they are written. `Internal` says the same by ranges, as the comments
of `ip_is_blocked` and of the standard library name them.

`WebService` follows one call from its arguments to its reply; a step is what
happens up to the next await:

| `pc` | Code |
|---|---|
| `args` | `require_str`, and `screenshot_dir()?.check(path)?` for a screenshot |
| `check`, `lookup` | `UrlGuard::check`, of the caller's URL, or with a tab of the one the page landed on |
| `tab` | `new_tab` |
| `goto`, `wait`, `landed` | `navigate`: the two commands under the timeout, then `page.url()` |
| `title`, `content`, `url`, `links`, `capture` | the commands of `read_on_page` and `screenshot_on_page` |
| `close`, `save` | `page.close()`, then `save_png` |

`Fail` is the `?` operator: before there is a tab the call returns, afterwards
the error is carried past the close. `doc` is the document the page shows and
`part` the document each part of the reply was read from; `PageMoves` changes
the first between any two commands. `seen` records what happened in this call
(what the guard passed, whether a name was looked up, a tab opened, a fault met,
whether the page moved after it had landed); no guard of an action reads it.
Documents are known by their URLs. `dns` is what each name resolves to;
`NameMoves` changes it at any time, so that the lookup of `check`, the one after
the landing and the one Chrome makes for itself may all have different answers.
`seen.stale` has the names whose answer has changed since the guard last looked
them up in this call; a new lookup takes its name out again.

The calls of a server meet only in the browser and in the screenshot directory,
which have modules of their own with many calls; here they appear by their
results: a tab or one of the errors of `BrowserManager`, and `saved`, `invalid`
(`refused` there) or `io` (`obstructed`, `denied`) of `ScreenshotDir`. So one
call at a time is enough, and the counter is what this call has added to it. The
format and `full_page` arguments, which change no step, are not modelled;
`max_chars` is in `ReadLimit`.

### Server

`Server` is a server as far as it depends on what is around it. It is off, idle,
starting Chrome (`launching`) or in a screenshot (`fetching`):

| Action | Code |
|---|---|
| `Main`, `BuildService` | the two ways to a `WebService`: with the operator's choice, or inside a host with none |
| `ReadEnv`, `Spawn` | `chrome_env(std::env::vars_os())`, then `Browser::launch`, which inherits the environment of that moment |
| `Check` | `execute_screenshot` up to the fetch: `screenshot_dir()?.check(path)?` |
| `Save` | `save_png`: the text is read again, then the directory is created and the file saved, or the walk refuses or fails |
| `ReplyInline` | a screenshot without `save_as` |
| `Read` | the number of `max_chars` and the cut of the text |
| `HostSetsVars` | the host's environment changes; a server that is a process of its own changes nothing |
| `PlaceMoves` | the directory is removed, created, linked elsewhere, or its link broken |

The calls of `Server` do not overlap: what they share while they run is the
browser and the tree below the directory, which are in `BrowserManager` and
`ScreenshotDir`. What remains is what happens around one of them: between
`ReadEnv` and `Spawn`, between `Check` and `Save`, and between a reply and the
next call, which may pass the path of the reply back (`Callable`).

`SavePath` takes a text as the sequence of its segments between slashes, a path
as the sequence of its names with a flag for absolute ones; `str::trim` is at
the two ends of a text, and a blank segment stands for blanks. That
`ends_with(file_name)` compares characters and the model segments makes no
difference: a text that does not end in the whole segment ends in a slash or in
`/.`, and no file name does. The directory as configured may hold `..`, which the
file system resolves (`Location`) and a comparison of paths does not. If a link is
in its place, and the path below what the link leads to would pass the link again,
the walk of `resolve` refuses it (`ThroughLink`).
In `ReadLimit` a page is the sequence of the lengths of its characters in bytes,
and a number is twice its value, so that halves are there. `u64` to `usize` is
the identity on 64 bits. A request below 1 that is a number (`-1`, `0.5`) becomes
0, which means no limit: the docs do not say what it should mean, and `Cap`
takes it as the code does.

## 3. Runs

| Run | Bounds | Shows |
|---|---|---|
| `browser_safety` | 3 slots, 2 faults, symmetry | the invariant and the safety properties below |
| `browser_live` | 2 slots, 2 faults, fairness | liveness |
| `browser_reuse` | 2 slots, 1 fault | finding 1 |
| `dirs_fresh` | 2 servers, 3 managers, 3 ids, 2 launches each, orphans | directories are unique, launches do not collide |
| `dirs_unique` | the same, 2 ids, recycled | finding 2 |
| `saves_shared` | 2 calls, 5 paths, any target, 1 fault, all 67 trees | nothing outside is touched, failures have a cause, refusals leave no empty directory, files begin with a whole image |
| `saves_own` | 2 calls with targets of their own, 2 faults | saved files are whole, broken ones accounted for, and `SaveService` is implemented |
| `saves_mix` | 2 calls, one target | finding 3 |
| `service_calls` | 18 requests over 6 URLs, both settings of each flag, 3 lookup answers that change, fairness of the timer | the properties of `WebService` |
| `server` | 4 environments, 4 choices of the operator, 22 texts, at most 3 components, 11 numbers, 4 pages | the properties of `Server` |
| `service_invalid` | as `service_calls`, with an IPv6 literal, no fairness | finding 4 |
| `service_literal` | the same | finding 5 |

Properties of `BrowserManager`:

* `OneBrowser` – every Chrome that runs is the held one.
* `LaunchPerFault` – launches ≤ 1 + deaths + stream errors + failed launches.
* `StrayTabsAccounted` – tabs left in a pumped browser ≤ tab commands without
  an answer: no error path forgets its tab.
* `TabsSpared` – a tab in a browser that answers goes away only by its own call
  or by Chrome's death.
* `TabsAsPromised` – the manager implements `TabService`.
* `QueuedGetsTab`, `DeadBrowserReplaced` – under `TabFairness`, which assumes
  nothing of the work on pages.
* `EveryCallReturns` – if that work comes to an end as well.

Of `LaunchDirs`: `DirUnique` (an action property: a launch is never given a
directory that any launch had) and `NoCollision`.

Of `ScreenshotDir`: `NothingEscapes`; `FailureHasCause` (a save is refused or
obstructed only by something on its path that is still there, and any other error
is the system's: concurrent saves never make each other fail, except where one
needs a directory in the place of the other's file);
`RefusalLeavesNoEmptyDir`; `SavedHeadWhole` (saves to one path, in whatever order
they open and write, leave a file that begins with one whole image, as long as no
write fails and the server lives: what goes wrong, finding 3, is the tail only);
`SavedFileWhole` (for a target of its
own a reply is true of the file, after crashes and failed writes of the past
too); `BrokenFilesAccounted`; `SavesAsPromised` (`ScreenshotDir` implements
`SaveService`: what a declining call, a removal or a crash may not do to a file
is said there too).

Of `WebService`: `BadPathCostsNothing` (a `save_as` that its text or the
configuration rules out costs no lookup and no tab); `PartsOfCheckedPages`
(nothing is read from a document whose URL the guard has not passed), on the
condition that Chrome says where the page landed and the page then stays there:
without it that cannot hold, because each part is a command of its own;
`PartsFromPublicHosts` (under the same condition nothing is read of a host with
an internal address, as the ranges define it, but for a name whose answer has
changed since its last lookup in the call: pure rebinding, which
`url_guard.rs:15-19` leaves open, while a change before the first lookup or
before the one after the landing lets nothing through) and its converse
`BlockedHasCause`; `FaultsCounted` (one count for a call that a fault ended,
none for any other); `NavigationEnds` (leads-to: however the page behaves).

Of `Server`: `CheckAgreesWithSave` (what `check` makes of a text is what is saved,
and a text it lets pass is not refused after the fetch, unless the directory has
moved and only its resolved form explains the text); `ReplyReadsBack` (the path of
a reply, given back, names the same file while the directory resolves to where it
did); `NamesStayInside` (the file system, walking along what is left of a text,
goes down at each part and ends in a PNG name); `RefusalTouchesNothing`;
`DefaultIsPerUser`; `ChildSeesOnlyAllowed` and `AllowlistedReach` (no value but the
allowed ones reaches Chrome, and these as they are, except what a host changes
while Chrome is being started); `CapHonoured` (the longest beginning of the page
within the request, cut between characters, and marked if it is not all; a number
below 1 that is not 0 has no documented meaning, and `Caps` takes any cut for it).

**Why the bounds suffice.** Three slots are a holder, a waiter and a call on a
tab of the browser that is being replaced. Two faults are a fault and another
during the recovery from it; a fault bound keeps `seq` finite, as only faults
cause launches. Three managers are two in one process and one in another; three
ids allow a restart. The five paths are a file in the root, a file in a
directory, and a path on which a file of the second kind would have to be a
directory; images of one and three blocks over an old one of two give every
order of sizes. `WebService` needs no bound on counters: what it records is
reset by each call. Its URLs are one for each way the guard goes: a name,
`localhost`, a private and a public IPv4 literal, one that is not http, one that
does not parse, and for findings 4 and 5 an IPv6 literal, which goes the way of
a name that is not found; the answers of a lookup are an error (or no address,
which ends alike), public addresses on both sides of the ranges, and a public
one together with an internal one in IPv4-mapped form, in the upper half of
100.64.0.0/10, where a mask that is one bit short lets it pass. `Server` has no
counters either. Its environments have each variable set, unset, empty, relative
and not UTF-8, and differ in a value, in a name that is added and in one that is
removed; its texts are relative, absolute as configured, as resolved and as
neither, each with the forms that name no file or climb; its directories are
relative, hold a `..`, or may be a link to the directory above them; three
components are one below, at and above the bound; its pages are empty, shorter
than, as long as and longer than the numbers. The theorems of section 4 have no
bounds.

**Fairness.** `TabFairness` is weak fairness of every step of `new_tab`, per
slot: tokio polls a task that can go on, the mutex serves waiters in order (by
the model's queue), and chromiumoxide bounds a launch and a command by timeouts
of its own (external, from how the code relies on it), so both come to success
or error. `PageFairness` adds that the work on a page ends; it is the premise of
`EveryCallReturns` and not part of the specification, because the code's own
timeout covers only part of that work. Nothing is assumed of faults or of
`StreamEnds`, and `DeadBrowserReplaced` starts only when the stream has ended.
`NavigationEnds` is under weak fairness of the timer of `tokio::time::timeout`
alone: neither Chrome nor the page is assumed to answer.

**Findings**

1. `DeadNotReused`: `browser.rs:12` says the next request relaunches a dead
   Chrome. The code sees the death only when the event stream has ended; a
   request before that fails.
2. `DirUnique` with recycled ids: `browser.rs:31` says every launch has a unique
   directory. A server with the process id of an earlier one (a container gives
   the same id every time) starts again at number 0, on directories that nobody
   has removed.
3. `ReplacedByOneImage`: `screenshot.rs:105` says an existing file is replaced.
   Two saves to one name can leave the head of one image and the tail of the
   other, and both report success.
4. `InvalidIsTheCallers`: `error.rs:42` says of `InvalidParameters` that the
   caller supplied them. A page that a script has led to `about:blank` before
   `navigate` looks at its URL ends a call with valid arguments in this error,
   and as a "caller mistake" it is not counted.
5. `LiteralNotLookedUp`: `url_guard.rs:63` says a literal address is checked
   without DNS. The host of an IPv6 literal comes in brackets, is not recognised
   as an address, and is looked up as a name, which fails.

**What no property covers.** Four hazards are in the models without a property of
their own, because the code has nothing against them that could be stated and fail:

* The title, the content, the URL and the links of a reply are read by separate
  commands (`browser.rs:303-328`). A page that goes on in between is answered with
  parts of two documents; `PageMoves` does so, and the properties about parts have
  a page that stays as their condition.
* A name may change its addresses between its last lookup and Chrome's own
  (`url_guard.rs:15-19` says so). `PartsFromPublicHosts` leaves out these names, one
  by one, and no others.
* A host may set a variable between `chrome_env(std::env::vars_os())` and the start
  of Chrome; it reaches Chrome with its value, whatever `README.md:130-131` says of
  every other variable. `ChildSeesOnlyAllowed` says that this happens in a host
  only, and with these variables only.
* A `max_chars` below 1 that is not 0 (-1, 0.5) becomes 0, which means no limit.
  `docs/result_shapes.md:45` does not say what it asks for, and `CapHonoured` takes
  any cut there.

## 4. Proofs

All for every value of the constants, from the named assumptions of the modules
(sizes and bounds are natural numbers, paths are closed under taking parents).

* `BrowserManager_proofs`: `Spec => []IInv`, hence `TypeCorrect`,
  `SingleBrowser`, `LaunchesAreFew`, `NoTabForgotten`, the action property
  `TabsAreSpared`, and the refinement `ImplementsTabService`: initial states map
  to initial states, and each step to one of `TabService` or a stutter (one step
  of the proof per action; `PageInv` ties each call's place to its result). None
  of these is inductive alone. `LaunchPerFault` needs `LaunchInv`: launches
  exceed faults by one only while the newest browser is healthy or being
  launched, so that the next launch is paid for by what made it unhealthy; that
  needs `MutexInv` (only the queue's head is past the lock, and the queue has no
  duplicates) and `HeldInv` (what runs or is pumped is the held browser).
  `StrayTabsAccounted` needs `TabInv`: open tabs are in a running Chrome, so a
  relaunch resets the count.
* `LaunchDirs_proofs`: with `~Recycled`, `Invariant`, `DirsAreUnique` and
  `LaunchesDoNotCollide`. The invariant: ids in use differ, and a directory
  taken under an id in use has a number the counter has passed.
* `ScreenshotDir_proofs`: `TypeCorrect` and `SavesStayInside`. The invariant
  (`WalkedInv`): what a call has walked and checked holds no link, and stays so
  while others create things (`WalkedStays`), because nothing turns into a link.
  Prefixes of paths are handled by `PrefixOfPrefix`.
* `SaveResults_proofs`: that a save says the truth. `FailuresHaveCause` and
  `RefusalsLeaveNoEmptyDir` rest on `CauseInv`: while nothing is removed, what
  is there stays what it is (`NothingGoes`), so what a call has walked are
  directories, what it has created is among them, and the cause of a failure is
  still there later, whatever others do (`OthersStay`); an error without such a
  cause is one of the faults (`Denial`). `SavedHeadsWhole` rests on `HeadInv`: a
  file that does not begin with a whole image is open in a call that has yet to
  write, and a write puts its own image in front (`WrittenFirst`, `HeadKept`).
  `SavedFilesWhole` assumes that no two calls save to the same path
  (`OwnTargets`; without it finding 3 is the counterexample) and rests on
  `SavedInv`: between its open and its write a call's file is empty, and steps
  of the others do not touch it (`TargetUntouched`). It holds through crashes,
  failed writes and removals. `BrokenFilesAreFew` counts, under the same
  assumption: a step adds at most the file of the call whose write fails, a
  crash at most one file per call (`CallBreaks`, `CrashBreaks`), and no other
  step breaks any file (`RemovalBreaksNone`). It rests on `SavedInv` too: a file
  that a call has open is its own, so that closing it settles that file only.
  `ImplementsSaveService`, under the same assumption, has one step per action.
  That a file changes to a reader only by its own call comes from `ContentKept`;
  that the open never meets a file with a name outside, from `IInv` and
  `PlainInv`; that what a write leaves is its image, or is not, from `SavedInv`
  and `PartIsPart`. It also needs what no call writes to differ from what an
  earlier server left (`ImageIsNew`), which is how the model tells old files
  from new.
* `SavePath_proofs`: what the recursive functions of `SavePath` compute, for
  every text and path. The prover cannot use an induction theorem that takes an
  operator, so induction is stated of a *set* of numbers (`NatSetInduction`,
  from the least element of what is missing in it, `WFMin`; `UpToInduction`),
  and `RecursionExists` says that a recursion over `0..N` has a solution.
  `KeptEquation` and `WalkEquation` then give the functions their equations, and
  by induction: what is left of a text are segments of it, none skipped
  (`ComponentsType`); the text of a path is left with the path
  (`ComponentsOfPath`); a walk along names goes down at each (`WalkDown`) and
  one from a resolved directory ends in one (`WalkType`). `RelativeNames` and
  `ReadsBack` put them together for `RelativeWithinRoot`.
* `UrlGuard_proofs`: `MasksAreRanges`, for every address. Each mask is a
  division of a word into multiples of a power of two (`High`), and a lemma per
  mask says which interval of words it selects.
* `WebService_proofs`: `Invariant`, and from it `BadPathsCostNothing`,
  `OnlyCheckedPages`, `OnlyPublicHosts`, `BlocksForCause` and `CountsFaults`,
  for every set of URLs, requests and lookup answers. The invariant says where
  in the code there is a tab (`TabInv`), that `subject` is the page's URL while
  it is rechecked and that the page's document has been passed once parts are
  read (`GuardInv`), that nothing is read before that (`PartInv`), and that a
  fault is on its way to the counter as `err` (`CountInv`). There is a lemma per
  conjunct. `OnlyPublicHosts` and `BlocksForCause` rest on `MasksAreRanges` and
  on `HostInv` and `CauseInv`: what the guard has passed, or blocked, is public,
  or internal, unless the name has moved since it was looked up (`MoveNoted`); a
  second lookup of the name decides anew (`PassNoted`, `TurnNoted`).
* `Server_proofs`: `Invariant`, and from it `CheckHolds`, `OnlyAllowedSeen`,
  `DefaultsArePerUser`, the action property `AllowedReach`, and
  `RefusalsTouchNothing`, for every environment, allowlist, text and directory.
  `CheckInv` says that what `check` has found still holds or the directory has
  moved; it is kept because a text that the configured directory explains does
  not depend on the resolved one (`ResolvedOnlyMatters`). `LaunchInv` says that
  the overlay covers the whole environment but what is allowed, cannot be named,
  or has come since. `NamesGoDown` follows from `RelativeNames` and `WalkDown`.
  `RepliesReadBack` needs `ReplyInv`, which says where a file was saved: below
  the directory, or through a link in its place, but then not on a path that
  leads back into the directory. Its one hard case is a path that the configured
  directory explains although it was saved through a link, or the reverse; then
  the two have the same length. The proof showed that the model, which once let
  a save pass the link a second time (`ThroughLink`), was wrong there, and TLC
  gave the counterexample. `CapsAreHonoured` is a property of its own beside the
  invariant, and arithmetic about `\div`; how many bytes a beginning has
  (`Bytes`, a fold) is the same on both sides and not expanded.
  `PathsAssumption` says that directories have been read into parts (no empty
  part, no `.`, no NUL) and that the working directory and what a link leads to
  are resolved (no `..`).

Only model-checked: liveness (`QueuedGetsTab`, `DeadBrowserReplaced`,
`EveryCallReturns`, `NavigationEnds`), which is out of the prover's reach. Of
the theorems, those about `LaunchDirs` need `~Recycled`, and `SavedFilesWhole`,
`BrokenFilesAreFew` and `ImplementsSaveService` need `OwnTargets`; findings 2
and 3 are what happens without.

## 5. Plan

The `save` step of `WebService` as a call of `SaveService`, so that the two meet in
one module as `WebService` and `UrlGuard` do; and an abstract specification of what
a tool call promises its caller, which `WebService` implements.

**Not modelled.** `chrome_launch_args` (a concatenation) and the other settings
that are passed on unread; the reading of the command line (clap) and of a
URL's text (url); `png_dimensions`, which reads two numbers at fixed places and
changes nothing; the tool descriptions, `server_config` and the transports, which
are texts and calls into mcp-core; tracing and the wording of errors and metrics;
a call whose future is dropped, which is mcp-core's decision; mcp-core and
chromiumoxide themselves, whose promises appear as external actions.

------------------------------- MODULE Server -------------------------------
(***************************************************************************)
(* A server from its start on, as far as it depends on what is around it:  *)
(* the environment of its process, which a host that embeds it may change, *)
(* the place of the screenshot directory, which others may remove, create  *)
(* or link elsewhere, and the arguments of the calls.                      *)
(*                                                                         *)
(* It starts and settles on a screenshot directory; it launches Chrome in  *)
(* two steps, reading its environment in the first and handing it down in  *)
(* the second; it takes a screenshot in two steps, checking save_as in the *)
(* first and, when the page has been fetched, saving in the second; and it *)
(* returns the text of pages.  The calls do not meet here: they share the  *)
(* browser (module BrowserManager) and the tree below the directory        *)
(* (module ScreenshotDir).                                                 *)
(***************************************************************************)
EXTENDS SavePath, Settings, ReadLimit

CONSTANTS
  Environments,    \* the environments the process may have
  Given,           \* what the operator may give as the directory
  Texts,           \* the save_as arguments, Omitted one of them
  Cwd,             \* the parts of the working directory
  Elsewhere,       \* where a link in place of the directory leads
  RawName,         \* a part that is not valid UTF-8
  Replacement,     \* what it becomes in a reply
  MaxCharsArgs,    \* the max_chars arguments
  Pages            \* the pages that are read

ASSUME ServerAssumption ==
  /\ Environments # {} /\ NoDir \in Given
  /\ Elsewhere # None

\* Paths are read into their parts; the working directory and what a link leads
\* to are resolved, the directories of the environment and the operator are not.
ASSUME PathsAssumption ==
  /\ Cwd \in Seq(Names) /\ Elsewhere \in Seq(Names)
  /\ \A path \in Given : path.parts \in Seq(Parts \ {Nul})
  /\ \A e \in Environments : \A n \in DOMAIN e : e[n].parts \in Seq(Parts \ {Nul})
  /\ DirName \in Seq(Names) /\ <<".cache">> \in Seq(Names)
  /\ Replacement \in Segments
  /\ Texts \subseteq Seq(Segments)

ASSUME PagesAssumption ==
  /\ Pages \subseteq Seq(Nat)
  /\ \A arg \in MaxCharsArgs : arg.twice \in Int

VARIABLES
  env,       \* the environment of the process
  hosted,    \* the server is part of another program
  given,     \* what the operator has given
  home,      \* the environment the server was started in
  dir,       \* ScreenshotDir::root, or NoDir
  place,     \* what is at dir
  pc,        \* what the server is doing
  text,      \* the save_as of the call
  kept,      \* what check has made of it
  moved,     \* the place has changed between check and save
  over,      \* what is to be laid over the environment of Chrome
  fresh,     \* the variables the host has set or removed since
  child,     \* the environment Chrome has been started with
  answer     \* what the last call has returned

vars ==
  <<env, hosted, given, home, dir, place, pc, text, kept, moved, over, fresh, child,
    answer>>

\* "none": nothing at dir; "dir": a directory; "link": a symbolic link to a
\* directory; "dangling": one that leads nowhere.
Places == {"none", "dir", "link", "dangling"}

\* No save_as: the image comes back in the reply.
Omitted == None

\* refused: by check.  late: on the text, but after the page was fetched.
\* saved: relative is the path inside the directory, path the one in the reply.
\* inline: without a file.  failed: by the file system, or by a link on the way.
\* read: the text of page, cut by arg.
NoArg == [kind |-> "other", twice |-> 0]
Nothing ==
  [kind |-> "none", relative |-> None, path |-> None, arg |-> NoArg,
   page |-> <<>>, bytes |-> 0, truncated |-> FALSE]
NoEnv == [n \in {} |-> Empty]

fetching == <<text, kept>>
launching == <<over, fresh, child>>
settled == <<env, hosted, given, home, dir>>

Init ==
  /\ env \in Environments
  /\ hosted = FALSE /\ given = NoDir /\ home = NoEnv /\ dir = NoDir
  /\ place \in Places
  /\ pc = "off"
  /\ text = None /\ kept = None /\ moved = FALSE
  /\ over = NoEnv /\ fresh = {} /\ child = NoEnv
  /\ answer = Nothing

-----------------------------------------------------------------------------
(* Helpers *)

\* Where dir is, and fs::canonicalize of it.  None: there is nothing to resolve.
Location == Walked(IF dir.abs THEN <<>> ELSE Cwd, dir.parts)
Real(at) ==
  IF at = "dir" THEN Location
  ELSE IF at = "link" THEN Elsewhere
  ELSE None

\* create_dir_all makes a directory of nothing, and fails on a dangling link.
Made(at) == IF at = "none" THEN "dir" ELSE at

\* to_string_lossy, and the text a caller gives back.
Lossy(parts) == [i \in 1..Len(parts) |-> IF parts[i] = RawName THEN Replacement ELSE parts[i]]
TextOf(parts) == <<NoPart>> \o parts

\* (The first form leaves everything but the name to the save.)
CheckedName(saveAs) ==
  IF Last(Trim(saveAs)) \in PngNames THEN <<Last(Trim(saveAs))>> ELSE None
Checked(saveAs) == RelativeWithinRoot(saveAs, dir, Real(place))
HasDir == dir # NoDir

Return(a) == pc' = "idle" /\ answer' = a

\* What was known of earlier calls and of an earlier launch.
Forget == text' = None /\ kept' = None /\ moved' = FALSE
Unlaunched == over' = NoEnv /\ fresh' = {} /\ child' = NoEnv

-----------------------------------------------------------------------------
(* The server *)

\* WebService::with_config.
WithConfig(screenshotDir) ==
  /\ pc = "off"
  /\ dir' = screenshotDir
  /\ home' = env
  /\ pc' = "idle"
  /\ UNCHANGED <<env, place, fetching, moved, launching, answer>>

\* The binary, with what the operator gives on its command line.
Main ==
  /\ given' \in Given
  /\ WithConfig(ScreenshotDir(given', env))
  /\ hosted' = FALSE

\* A host that takes the defaults.
BuildService ==
  /\ given' = NoDir
  /\ WithConfig(ScreenshotDirUnder(env))
  /\ hosted' = TRUE

\* launch: chrome_env(std::env::vars_os()), then Browser::launch.
ReadEnv ==
  /\ pc = "idle"
  /\ pc' = "launching"
  /\ over' = ChromeEnv(env)
  /\ fresh' = {}
  /\ child' = NoEnv
  /\ answer' = Nothing
  /\ Forget
  /\ UNCHANGED <<settled, place>>

Spawn ==
  /\ pc = "launching"
  /\ child' = Laid(over, env)
  /\ pc' = "idle"
  /\ UNCHANGED <<settled, place, fetching, moved, over, fresh, answer>>

\* execute_screenshot up to the fetch.
Check(saveAs) ==
  /\ pc = "idle"
  /\ text' = saveAs
  /\ moved' = FALSE
  /\ \/ /\ saveAs = Omitted
        /\ kept' = None
        /\ pc' = "fetching" /\ answer' = Nothing
     \/ /\ saveAs # Omitted /\ HasDir /\ Checked(saveAs) # None
        /\ kept' = Checked(saveAs)
        /\ pc' = "fetching" /\ answer' = Nothing
     \/ /\ saveAs # Omitted
        /\ ~HasDir \/ Checked(saveAs) = None
        /\ kept' = None
        /\ Return([Nothing EXCEPT !.kind = "refused"])
  /\ Unlaunched
  /\ UNCHANGED <<settled, place>>

\* save_png: the text is read again.  The walk below the directory may refuse,
\* and each call of the file system may fail; if the directory is a link, the
\* walk refuses to go through that link again.  (The first form makes the
\* directory before it reads the text.)
ThroughLink(relative, at) == at = "link" /\ IsPrefix(Location, Elsewhere \o relative)
Saved(relative, at) ==
  [Nothing EXCEPT !.kind = "saved", !.relative = relative,
                  !.path = Lossy(Real(at) \o relative)]
FinishMaking(relative) ==
  /\ place' = Made(place)
  /\ \/ relative = None /\ Return([Nothing EXCEPT !.kind = "late"])
     \/ /\ relative # None /\ Real(place') # None /\ ~ThroughLink(relative, place')
        /\ Return(Saved(relative, place'))
Finish(relative) ==
  \/ /\ relative = None
     /\ Return([Nothing EXCEPT !.kind = "late"])
     /\ UNCHANGED place
  \/ /\ relative # None
     /\ place' = Made(place)
     /\ Real(place') # None /\ ~ThroughLink(relative, place')
     /\ Return(Saved(relative, place'))
  \/ /\ relative # None
     /\ place' \in {place, Made(place)}
     /\ Return([Nothing EXCEPT !.kind = "failed"])

Save ==
  /\ pc = "fetching" /\ text # Omitted
  /\ Finish(RelativeWithinRoot(text, dir, Real(place)))
  /\ UNCHANGED <<settled, fetching, moved, launching>>

\* image_reply.
ReplyInline ==
  /\ pc = "fetching" /\ text = Omitted
  /\ Return([Nothing EXCEPT !.kind = "inline"])
  /\ UNCHANGED <<settled, place, fetching, moved, launching>>

\* execute_read, as far as the text is concerned.
Read(arg, page) ==
  /\ pc = "idle"
  /\ LET cut == Truncate(page, MaxChars(arg)) IN
       Return([Nothing EXCEPT !.kind = "read", !.arg = arg, !.page = page,
                 !.bytes = cut.bytes, !.truncated = cut.truncated])
  /\ Forget
  /\ Unlaunched
  /\ UNCHANGED <<settled, place>>

Stop ==
  /\ pc = "idle"
  /\ pc' = "off"
  /\ hosted' = FALSE /\ given' = NoDir /\ home' = NoEnv /\ dir' = NoDir
  /\ Forget
  /\ Unlaunched
  /\ answer' = Nothing
  /\ UNCHANGED <<env, place>>

-----------------------------------------------------------------------------
(* What is around it *)

\* The variables that are not the same in two environments.
Differing(old, new) ==
  {n \in DOMAIN old \cup DOMAIN new :
     n \in DOMAIN old \cap DOMAIN new => old[n] # new[n]}

\* std::env::set_var and remove_var, in the host; nothing in the server calls
\* them.
HostSetsVars ==
  /\ pc = "off" \/ hosted
  /\ env' \in Environments \ {env}
  /\ fresh' = IF pc = "launching" THEN fresh \cup Differing(env, env') ELSE fresh
  /\ UNCHANGED <<hosted, given, home, dir, place, pc, fetching, moved, over, child, answer>>

PlaceMoves ==
  /\ place' \in Places \ {place}
  /\ moved' = (moved \/ pc = "fetching")
  /\ UNCHANGED <<settled, pc, fetching, launching, answer>>

-----------------------------------------------------------------------------
(* The specification *)

\* A caller may give back the path of an earlier reply.
Callable == Texts \cup (IF answer.kind = "saved" THEN {TextOf(answer.path)} ELSE {})

Next ==
  \/ Main \/ BuildService \/ ReadEnv \/ Spawn \/ Save \/ ReplyInline \/ Stop
  \/ \E saveAs \in Callable : Check(saveAs)
  \/ \E arg \in MaxCharsArgs, page \in Pages : Read(arg, page)
  \/ HostSetsVars \/ PlaceMoves

Spec == Init /\ [][Next]_vars

-----------------------------------------------------------------------------
(* Properties *)

\* Types, and where what is known of a call or a launch is there at all.
TypeOK ==
  /\ env \in Environments
  /\ hosted \in BOOLEAN
  /\ given \in Given
  /\ place \in Places
  /\ pc \in {"off", "idle", "launching", "fetching"}
  /\ pc = "off" =>
       ~hosted /\ given = NoDir /\ home = NoEnv /\ dir = NoDir /\ answer = Nothing
  /\ pc # "off" => home \in Environments
  /\ moved \in BOOLEAN
  /\ pc \in {"launching", "fetching"} => answer = Nothing
  /\ answer.kind \in
       {"none", "refused", "late", "saved", "inline", "failed", "read"}
  /\ answer.kind = "saved" => text # Omitted /\ answer.relative # None

\* The text is one that only the resolved directory can make sense of.
ByResolved(saveAs) ==
  LET parts == Components(Trim(saveAs)) IN
  /\ IsAbsolute(Trim(saveAs))
  /\ ~(dir.abs /\ IsPrefix(dir.parts, parts))

\* What check has made of a save_as is what is saved, and a save_as that check
\* has let pass is not refused for its text after the page was fetched, whatever
\* others do to the directory meanwhile: unless it is below the directory as
\* resolved only, and the directory has become another one or none (strip_root
\* asks the file system anew).
CheckAgreesWithSave ==
  /\ answer.kind = "late" => moved /\ ByResolved(text)
  /\ answer.kind = "saved" =>
       answer.relative = kept \/ (moved /\ ByResolved(text))

\* "A caller who reads a resolved path back from an earlier reply should be able
\* to pass it straight in again" (relative_within_root), and so name the same
\* file: as long as the directory still resolves to where it did, and the path is
\* UTF-8, so that the reply holds it as it is.
ReplyReadsBack ==
  (answer.kind = "saved" /\ Real(place) # None) =>
    LET path == Real(place) \o answer.relative IN
    answer.path = path =>
      RelativeWithinRoot(TextOf(answer.path), dir, Real(place)) = answer.relative

\* Whatever the save_as, the walk of a save along the path that is left of it
\* goes down at every part, so it ends below the directory, in a name that ends
\* in "png", after at most MaxPathComponents - 1 directories, and meets no name
\* that the file system cannot take.
NamesStayInside ==
  answer.kind = "saved" =>
    LET names == answer.relative IN
    /\ \A n \in 1..Len(names) :
         Walked(<<"root">>, SubSeq(names, 1, n)) = <<"root">> \o SubSeq(names, 1, n)
    /\ Len(names) \in 1..MaxPathComponents
    /\ Last(names) \in PngNames
    /\ ~Contains(names, Nul)

\* A call that is refused for its save_as, before or after the page is fetched,
\* leaves "no trace - not even the screenshot directory" (resolve), and neither
\* does one that asks for no file.
RefusalTouchesNothing ==
  [][(answer' # answer /\ answer'.kind \in {"refused", "late", "inline"})
       => place' = place]_vars

\* A directory that the operator has not named is below an absolute directory of
\* the user's: never below the working directory or another that was not named,
\* whatever the two variables hold (screenshot_dir_under).
DefaultIsPerUser ==
  (given = NoDir /\ dir # NoDir) =>
    \/ /\ "XDG_CACHE_HOME" \in DOMAIN home /\ home["XDG_CACHE_HOME"].abs
       /\ dir = Join(home["XDG_CACHE_HOME"], DirName)
    \/ /\ "HOME" \in DOMAIN home /\ home["HOME"].abs
       /\ dir = Join(home["HOME"], <<".cache">> \o DirName)

\* No value of the host's environment reaches Chrome but that of an allowed
\* variable, of one whose name is not UTF-8, and of one that the host has set
\* between the reading of the environment and the start of Chrome.  Nothing comes
\* in between in a server that is a process of its own.
ChildSeesOnlyAllowed ==
  /\ fresh # {} => hosted
  /\ \A n \in DOMAIN child :
       child[n] # Empty => n \in Allowlist \cup RawNames \cup fresh

\* What is allowed reaches Chrome as it is, and is there only if it is in the
\* environment, unless the host changes it while Chrome is being started.
AllowlistedReach ==
  [][(pc = "launching" /\ pc' = "idle") =>
       \A n \in Allowlist \ fresh :
         /\ n \in DOMAIN child' <=> n \in DOMAIN env
         /\ n \in DOMAIN env => child'[n] = env[n]]_vars

\* How many characters may come back, by docs/result_shapes.md: "capped at the
\* requested max_chars (default 50000; 0 = no limit)".  What a number below 1
\* that is not 0 asks for is not said: any number will do.
IsNumber(arg) ==
  arg.kind \in {"integer", "float"}
    \/ (arg.kind = "text" /\ arg.twice >= 0 /\ arg.twice % 2 = 0)
Caps(arg, page) ==
  IF ~IsNumber(arg) THEN {DefaultMaxChars}
  ELSE IF arg.twice >= 2 THEN {arg.twice \div 2}
  ELSE IF arg.twice = 0 THEN {Len(page)}
  ELSE 0..Len(page)

\* What is read of a page is the longest beginning of it that has no more
\* characters than asked for, no character is cut in two, and the reply says so
\* if it is not all.
CapHonoured ==
  answer.kind = "read" =>
    \E n \in 0..Len(answer.page), cap \in Caps(answer.arg, answer.page) :
      /\ n <= cap
      /\ answer.bytes = Bytes(answer.page, n)
      /\ answer.truncated <=> n < Len(answer.page)
      /\ answer.truncated => n = cap

-----------------------------------------------------------------------------
(* The inductive invariant *)

\* Settings are read once.
DirInv == pc # "off" => dir = ScreenshotDir(given, home)

\* What check has found still holds, or the directory it was found in has moved.
CheckInv ==
  (pc = "fetching" /\ text # Omitted) =>
    /\ kept # None
    /\ \/ kept = RelativeWithinRoot(text, dir, Real(place))
       \/ moved /\ ByResolved(text)

\* What is laid over an environment covers all of it but what may be seen and
\* what has come since, and keeps what is to be kept.
LaunchInv ==
  pc = "launching" =>
    /\ \A n \in DOMAIN over : over[n] # Empty => n \in Allowlist
    /\ \A n \in DOMAIN env \ DOMAIN over : n \in Allowlist \cup RawNames \cup fresh
    /\ \A n \in (Allowlist \cap DOMAIN over) \ fresh :
         n \in DOMAIN env /\ over[n] = env[n]

\* A save_as is a text, and the directory a path that has been read into parts.
PathInv ==
  /\ text \in Seq(Segments)
  /\ dir.parts \in Seq(Parts \ {Nul})

\* A file is saved below the directory or below what a link in its place led to,
\* but through that link no path leads back into the directory.
ReplyInv ==
  answer.kind = "saved" =>
    LET names == answer.relative IN
    /\ names \in Seq(Names)
    /\ Len(names) \in 1..MaxPathComponents
    /\ Last(names) \in PngNames
    /\ \/ answer.path = Lossy(Location \o names)
       \/ /\ answer.path = Lossy(Elsewhere \o names)
          /\ ~IsPrefix(Location, Elsewhere \o names)

\* What a server knows at each place: its settings, what check has found, what
\* the last reply says, and what a launch has yet to hand down.
IInv ==
  /\ TypeOK
  /\ DirInv
  /\ PathInv
  /\ ReplyInv
  /\ CheckInv
  /\ LaunchInv
  /\ CheckAgreesWithSave
  /\ ChildSeesOnlyAllowed
=============================================================================

--------------------------- MODULE Server_proofs ---------------------------
(***************************************************************************)
(* What check promises a save_as, where the default directory is, and what *)
(* Chrome sees of the environment: for every environment, text and place,  *)
(* and every allowlist.                                                    *)
(***************************************************************************)
EXTENDS Server, SavePath_proofs

(* The resolved directory matters to a text only if it is absolute and not below
   the directory as configured (strip_root). *)
LEMMA ResolvedOnlyMatters ==
  ASSUME NEW s, NEW r1, NEW r2, ~ByResolved(s)
  PROVE  RelativeWithinRoot(s, dir, r1) = RelativeWithinRoot(s, dir, r2)
<1>1. Candidate(Trim(s), dir, r1) = Candidate(Trim(s), dir, r2)
  BY DEF ByResolved, Candidate
<1> QED
  BY <1>1 DEF RelativeWithinRoot

(* A step that returns Nothing has nothing to agree with. *)
LEMMA NothingAgrees ==
  ASSUME answer' = Nothing
  PROVE  CheckAgreesWithSave'
BY DEF CheckAgreesWithSave, Nothing

(* What is not launched hides nothing. *)
LEMMA UnlaunchedSeesNothing ==
  ASSUME Unlaunched
  PROVE  ChildSeesOnlyAllowed'
BY DEF ChildSeesOnlyAllowed, Unlaunched, NoEnv

(* The overlay that is made of an environment (chrome_env). *)
LEMMA OverlayCovers ==
  ASSUME NEW e
  PROVE  LET laid == ChromeEnv(e) IN
         /\ DOMAIN laid \subseteq DOMAIN e
         /\ \A n \in DOMAIN laid : laid[n] # Empty => n \in Allowlist
         /\ \A n \in DOMAIN e \ DOMAIN laid : n \in Allowlist \cup RawNames
         /\ \A n \in Allowlist \cap DOMAIN laid : laid[n] = e[n]
BY DEF ChromeEnv

(* A server that has not started has no directory and no call. *)
LEMMA InitIInv == Init => IInv
<1> SUFFICES ASSUME Init PROVE IInv
  OBVIOUS
<1>1. TypeOK
  BY ServerAssumption DEF Init, TypeOK, Nothing
<1>2. DirInv /\ CheckInv /\ LaunchInv
  BY DEF Init, DirInv, CheckInv, LaunchInv
<1>3. CheckAgreesWithSave /\ ChildSeesOnlyAllowed
  BY DEF Init, CheckAgreesWithSave, ChildSeesOnlyAllowed, Nothing, NoEnv
<1>4. PathInv /\ ReplyInv
  BY DEF Init, PathInv, ReplyInv, Nothing, None, NoDir, Empty
<1> QED
  BY <1>1, <1>2, <1>3, <1>4 DEF IInv

(* Types: each answer is given where a call ends. *)
LEMMA StepTypeOK == TypeOK /\ [Next]_vars => TypeOK'
<1> SUFFICES ASSUME TypeOK, [Next]_vars PROVE TypeOK'
  OBVIOUS
<1> USE DEF TypeOK, settled, fetching, launching
<1>1. CASE Main \/ BuildService
  BY <1>1, ServerAssumption DEF Main, BuildService, WithConfig, Nothing
<1>2. CASE ReadEnv
  BY <1>2 DEF ReadEnv, Forget, Nothing
<1>3. CASE Spawn
  BY <1>3 DEF Spawn, Nothing
<1>4. CASE Save
  BY <1>4 DEF Save, Finish, Return, Saved, Nothing, Made, Places
<1>5. CASE ReplyInline
  BY <1>5 DEF ReplyInline, Return, Nothing
<1>6. CASE Stop
  BY <1>6, ServerAssumption DEF Stop, Forget, Nothing
<1>7. ASSUME NEW saveAs \in Callable, Check(saveAs) PROVE TypeOK'
  <2>1. /\ UNCHANGED <<env, hosted, given, home, dir, place>>
        /\ pc = "idle" /\ moved' = FALSE
    BY <1>7 DEF Check
  <2>2. \/ pc' = "fetching" /\ answer' = Nothing
        \/ pc' = "idle" /\ answer' = [Nothing EXCEPT !.kind = "refused"]
    BY <1>7 DEF Check, Return
  <2>3. answer'.kind \in {"none", "refused"}
    BY <2>2 DEF Nothing
  <2> QED
    BY <2>1, <2>2, <2>3
<1>8. ASSUME NEW arg \in MaxCharsArgs, NEW page \in Pages, Read(arg, page)
      PROVE  TypeOK'
  BY <1>8 DEF Read, Return, Forget, Nothing
<1>9. CASE HostSetsVars
  BY <1>9 DEF HostSetsVars
<1>10. CASE PlaceMoves
  BY <1>10 DEF PlaceMoves
<1>11. CASE UNCHANGED vars
  BY <1>11 DEF vars
<1> QED
  BY <1>1, <1>2, <1>3, <1>4, <1>5, <1>6, <1>7, <1>8, <1>9, <1>10, <1>11 DEF Next

(* Settings: only Start and Stop touch them. *)
LEMMA StepDirInv == DirInv /\ [Next]_vars => DirInv'
<1> SUFFICES ASSUME DirInv, [Next]_vars PROVE DirInv'
  OBVIOUS
<1> USE DEF DirInv, settled
<1>1. CASE Main \/ BuildService
  BY <1>1 DEF Main, BuildService, WithConfig, ScreenshotDir
<1>2. CASE Stop
  BY <1>2 DEF Stop
<1>3. CASE ReadEnv \/ Spawn \/ Save \/ ReplyInline
  BY <1>3 DEF ReadEnv, Spawn, Save, ReplyInline
<1>4. ASSUME NEW saveAs \in Callable, Check(saveAs) PROVE DirInv'
  BY <1>4 DEF Check
<1>5. ASSUME NEW arg \in MaxCharsArgs, NEW page \in Pages, Read(arg, page)
      PROVE  DirInv'
  BY <1>5 DEF Read
<1>6. CASE HostSetsVars \/ PlaceMoves \/ UNCHANGED vars
  BY <1>6 DEF HostSetsVars, PlaceMoves, vars
<1> QED
  BY <1>1, <1>2, <1>3, <1>4, <1>5, <1>6 DEF Next

(* What check has found is what the save finds, while the place is the same or
   the text does not depend on where it resolves to. *)
LEMMA StepCheckInv ==
  TypeOK /\ CheckInv /\ CheckAgreesWithSave /\ [Next]_vars
    => CheckInv' /\ CheckAgreesWithSave'
<1> SUFFICES ASSUME TypeOK, CheckInv, CheckAgreesWithSave, [Next]_vars
             PROVE  CheckInv' /\ CheckAgreesWithSave'
  OBVIOUS
<1>1. CASE Main \/ BuildService
  <2>1. pc = "off" /\ pc' = "idle" /\ UNCHANGED <<answer, text, kept, moved>>
    BY <1>1 DEF Main, BuildService, WithConfig, fetching
  <2>2. answer.kind \notin {"late", "saved"}
    BY <2>1 DEF TypeOK, Nothing
  <2> QED
    BY <2>1, <2>2 DEF CheckInv, CheckAgreesWithSave
<1>2. CASE ReadEnv
  BY <1>2, NothingAgrees DEF ReadEnv, CheckInv
<1>3. CASE Spawn
  BY <1>3, NothingAgrees DEF Spawn, CheckInv, TypeOK
<1>4. CASE Save
  <2>1. text # Omitted /\ pc = "fetching"
    BY <1>4 DEF Save
  <2>2. /\ kept # None
        /\ \/ kept = RelativeWithinRoot(text, dir, Real(place))
           \/ moved /\ ByResolved(text)
    BY <2>1 DEF CheckInv
  <2>3. pc' = "idle" /\ UNCHANGED <<text, kept, moved, dir>>
    BY <1>4 DEF Save, Finish, Return, settled, fetching
  <2>4. ByResolved(text)' <=> ByResolved(text)
    BY <2>3 DEF ByResolved
  <2>5. CASE answer'.kind = "late"
    <3>1. RelativeWithinRoot(text, dir, Real(place)) = None
      BY <1>4, <2>5 DEF Save, Finish, Return, Saved, Nothing
    <3>2. answer'.kind # "saved"
      BY <2>5
    <3> QED
      BY <2>2, <2>3, <2>4, <3>1, <3>2 DEF CheckInv, CheckAgreesWithSave
  <2>6. CASE answer'.kind = "saved"
    <3>1. answer'.relative = RelativeWithinRoot(text, dir, Real(place))
      BY <1>4, <2>6 DEF Save, Finish, Return, Saved, Nothing
    <3> QED
      BY <2>2, <2>3, <2>4, <2>6, <3>1 DEF CheckInv, CheckAgreesWithSave
  <2> QED
    BY <2>3, <2>5, <2>6 DEF CheckInv, CheckAgreesWithSave
<1>5. CASE ReplyInline
  BY <1>5 DEF ReplyInline, Return, Nothing, CheckInv, CheckAgreesWithSave
<1>6. CASE Stop
  BY <1>6, NothingAgrees DEF Stop, CheckInv
<1>7. ASSUME NEW saveAs \in Callable, Check(saveAs)
      PROVE  CheckInv' /\ CheckAgreesWithSave'
  <2>1. CASE saveAs = Omitted
    BY <1>7, <2>1, NothingAgrees DEF Check, CheckInv
  <2>2. CASE saveAs # Omitted /\ HasDir /\ Checked(saveAs) # None
    <3>1. /\ answer' = Nothing /\ kept' = Checked(saveAs) /\ text' = saveAs
          /\ dir' = dir /\ place' = place
      BY <1>7, <2>2 DEF Check, settled
    <3>2. kept' = RelativeWithinRoot(text, dir, Real(place))'
      BY <3>1 DEF Checked, Real, Location
    <3> QED
      BY <2>2, <3>1, <3>2, NothingAgrees DEF CheckInv
  <2>3. CASE saveAs # Omitted /\ (~HasDir \/ Checked(saveAs) = None)
    BY <1>7, <2>3 DEF Check, Return, Nothing, CheckInv, CheckAgreesWithSave
  <2> QED
    BY <2>1, <2>2, <2>3
<1>8. ASSUME NEW arg \in MaxCharsArgs, NEW page \in Pages, Read(arg, page)
      PROVE  CheckInv' /\ CheckAgreesWithSave'
  BY <1>8 DEF Read, Return, Nothing, CheckInv, CheckAgreesWithSave
<1>9. CASE HostSetsVars
  BY <1>9 DEF HostSetsVars, fetching, CheckInv, CheckAgreesWithSave, ByResolved,
     Real, Location
<1>10. CASE PlaceMoves
  <2>1. /\ UNCHANGED <<dir, pc, text, kept, answer>>
        /\ moved' = (moved \/ pc = "fetching")
    BY <1>10 DEF PlaceMoves, settled, fetching
  <2>2. ByResolved(text)' <=> ByResolved(text)
    BY <2>1 DEF ByResolved
  <2>3. CheckAgreesWithSave'
    BY <2>1, <2>2 DEF CheckAgreesWithSave
  <2>4. CASE ByResolved(text)
    BY <2>1, <2>2, <2>3, <2>4 DEF CheckInv
  <2>5. CASE ~ByResolved(text)
    <3>1. RelativeWithinRoot(text, dir, Real(place))
            = RelativeWithinRoot(text, dir, Real(place)')
      BY <2>5, ResolvedOnlyMatters
    <3> QED
      BY <2>1, <2>3, <2>5, <3>1 DEF CheckInv
  <2> QED
    BY <2>4, <2>5
<1>11. CASE UNCHANGED vars
  BY <1>11 DEF vars, CheckInv, CheckAgreesWithSave, ByResolved, Real,
     Location
<1> QED
  BY <1>1, <1>2, <1>3, <1>4, <1>5, <1>6, <1>7, <1>8, <1>9, <1>10, <1>11 DEF Next

(* What is handed down is what was read, but for what the host has changed. *)
LEMMA StepLaunchInv ==
  TypeOK /\ LaunchInv /\ ChildSeesOnlyAllowed /\ [Next]_vars
    => LaunchInv' /\ ChildSeesOnlyAllowed'
<1> SUFFICES ASSUME TypeOK, LaunchInv, ChildSeesOnlyAllowed, [Next]_vars
             PROVE  LaunchInv' /\ ChildSeesOnlyAllowed'
  OBVIOUS
<1>1. CASE ReadEnv
  <2>1. /\ pc' = "launching" /\ env' = env /\ over' = ChromeEnv(env)
        /\ child' = NoEnv /\ fresh' = {}
    BY <1>1 DEF ReadEnv, settled
  <2>2. LaunchInv'
    BY <2>1, OverlayCovers DEF LaunchInv
  <2> QED
    BY <2>1, <2>2 DEF ChildSeesOnlyAllowed, NoEnv
<1>2. CASE Spawn
  <2>1. /\ pc = "launching" /\ pc' = "idle"
        /\ child' = Laid(over, env) /\ UNCHANGED <<fresh, hosted>>
    BY <1>2 DEF Spawn, settled
  <2>2. ASSUME NEW n \in DOMAIN Laid(over, env), Laid(over, env)[n] # Empty
        PROVE  n \in Allowlist \cup RawNames \cup fresh
    BY <2>1, <2>2 DEF LaunchInv, Laid
  <2> QED
    BY <2>1, <2>2 DEF LaunchInv, ChildSeesOnlyAllowed
<1>3. CASE Main \/ BuildService
  BY <1>3 DEF Main, BuildService, WithConfig, launching, LaunchInv, TypeOK,
     ChildSeesOnlyAllowed
<1>4. CASE Save \/ ReplyInline
  BY <1>4 DEF Save, ReplyInline, Finish, Return, settled, launching, LaunchInv,
     ChildSeesOnlyAllowed
<1>5. CASE Stop
  BY <1>5, UnlaunchedSeesNothing DEF Stop, LaunchInv
<1>6. ASSUME NEW saveAs \in Callable, Check(saveAs)
      PROVE  LaunchInv' /\ ChildSeesOnlyAllowed'
  BY <1>6, UnlaunchedSeesNothing DEF Check, Return, LaunchInv
<1>7. ASSUME NEW arg \in MaxCharsArgs, NEW page \in Pages, Read(arg, page)
      PROVE  LaunchInv' /\ ChildSeesOnlyAllowed'
  BY <1>7, UnlaunchedSeesNothing DEF Read, Return, LaunchInv
<1>8. CASE HostSetsVars
  <2>1. /\ UNCHANGED <<hosted, pc, over, child>>
        /\ fresh \subseteq fresh'
        /\ pc = "launching" => hosted
        /\ pc # "launching" => fresh' = fresh
    BY <1>8 DEF HostSetsVars
  <2>2. ChildSeesOnlyAllowed'
    BY <2>1 DEF ChildSeesOnlyAllowed
  <2>3. CASE pc = "launching"
    <3>1. fresh' = fresh \cup Differing(env, env')
      BY <1>8, <2>3 DEF HostSetsVars
    <3>2. ASSUME NEW n, n \notin fresh'
          PROVE  /\ n \in DOMAIN env <=> n \in DOMAIN env'
                 /\ n \in DOMAIN env => env[n] = env'[n]
      BY <3>1, <3>2 DEF Differing
    <3>3. \A n \in DOMAIN env' \ DOMAIN over : n \in Allowlist \cup RawNames \cup fresh'
      BY <2>1, <2>3, <3>2 DEF LaunchInv
    <3>4. \A n \in (Allowlist \cap DOMAIN over) \ fresh' :
            n \in DOMAIN env' /\ over[n] = env'[n]
      BY <2>1, <2>3, <3>2 DEF LaunchInv
    <3> QED
      BY <2>1, <2>2, <2>3, <3>3, <3>4 DEF LaunchInv
  <2> QED
    BY <2>1, <2>2, <2>3 DEF LaunchInv
<1>9. CASE PlaceMoves \/ UNCHANGED vars
  BY <1>9 DEF PlaceMoves, vars, settled, launching, LaunchInv,
     ChildSeesOnlyAllowed
<1> QED
  BY <1>1, <1>2, <1>3, <1>4, <1>5, <1>6, <1>7, <1>8, <1>9 DEF Next

(* Paths: the directory comes from the operator or the environment, a save_as
   from the caller, who may give back the path of the last reply. *)
LEMMA ScreenshotDirPath ==
  ASSUME NEW g \in Given, NEW h \in Environments
  PROVE  ScreenshotDir(g, h).parts \in Seq(Parts \ {Nul})
<1>1. NoDir.parts \in Seq(Parts \ {Nul})
  BY DEF NoDir, Empty
<1>2. DirName \in Seq(Parts \ {Nul}) /\ <<".cache">> \o DirName \in Seq(Parts \ {Nul})
  <2>1. DirName \in Seq(Names) /\ <<".cache">> \in Seq(Names)
    BY PathsAssumption
  <2>2. DirName \in Seq(Parts \ {Nul}) /\ <<".cache">> \in Seq(Parts \ {Nul})
    BY <2>1 DEF Names
  <2> QED
    BY <2>2
<1>3. ASSUME NEW n, Usable(h, n), NEW rest \in Seq(Parts \ {Nul})
      PROVE  Join(h[n], rest).parts \in Seq(Parts \ {Nul})
  <2>1. h[n].parts \in Seq(Parts \ {Nul})
    BY <1>3, PathsAssumption DEF Usable
  <2>2. Join(h[n], rest).parts \in {h[n].parts \o rest, h[n].parts}
    BY DEF Join
  <2>3. h[n].parts \o rest \in Seq(Parts \ {Nul})
    BY <1>3, <2>1
  <2> QED
    BY <2>1, <2>2, <2>3
<1>4. CASE g # NoDir
  BY <1>4, PathsAssumption DEF ScreenshotDir
<1>5. CASE g = NoDir
  BY <1>1, <1>2, <1>3, <1>5 DEF ScreenshotDir, ScreenshotDirUnder
<1> QED
  BY <1>4, <1>5

(* Where the directory is. *)
LEMMA LocationType ==
  ASSUME PathInv
  PROVE  Location \in Seq(Names)
<1>1. (IF dir.abs THEN <<>> ELSE Cwd) \in Seq(Names)
  BY PathsAssumption
<1> QED
  BY <1>1, WalkType DEF Location, PathInv

(* Paths of one length with one end have beginnings of one length. *)
LEMMA SameLengths ==
  ASSUME NEW S, NEW a \in Seq(S), NEW b \in Seq(S), NEW c \in Seq(S),
         Len(a \o c) = Len(b \o c)
  PROVE  Len(a) = Len(b)
OBVIOUS

(* What a path becomes in a reply. *)
LEMMA LossyType ==
  ASSUME NEW path \in Seq(Names)
  PROVE  Lossy(path) \in Seq(Segments) /\ Len(Lossy(path)) = Len(path)
BY PathsAssumption DEF Lossy, Names, Parts

(* What is saved is a few names, below the directory as it was found. *)
LEMMA SavedInv ==
  ASSUME PathInv, NEW at, at # "none",
         NEW relative, relative = RelativeWithinRoot(text, dir, Real(place)),
         relative # None, Real(at) # None, ~ThroughLink(relative, at),
         UNCHANGED dir, answer' = Saved(relative, at)
  PROVE  ReplyInv'
<1>1. Location \in Seq(Names)
  BY LocationType
<1>2. Real(place) \in Seq(Segments) /\ dir.parts \in Seq(Segments)
  <2>1. /\ Location \in Seq(Segments) /\ Elsewhere \in Seq(Segments)
        /\ None \in Seq(Segments)
    BY <1>1, PathsAssumption DEF None, Names, Parts
  <2>2. dir.parts \in Seq(Segments)
    BY DEF PathInv, Parts
  <2> QED
    BY <2>1, <2>2 DEF Real
<1>3. /\ relative \in Seq(Names)
      /\ Len(relative) \in 1..MaxPathComponents
      /\ Last(relative) \in PngNames
  BY <1>2, RelativeNames DEF PathInv
<1>4. answer'.relative = relative /\ answer'.path = Lossy(Real(at) \o relative)
  BY DEF Saved, Nothing
<1>5. Location' = Location
  BY DEF Location
<1>6. \/ Real(at) = Location
      \/ Real(at) = Elsewhere /\ ~IsPrefix(Location, Elsewhere \o relative)
  BY DEF Real, ThroughLink
<1>7. \/ answer'.path = Lossy(Location' \o answer'.relative)
      \/ /\ answer'.path = Lossy(Elsewhere \o answer'.relative)
         /\ ~IsPrefix(Location', Elsewhere \o answer'.relative)
  BY <1>4, <1>5, <1>6
<1> QED
  BY <1>3, <1>4, <1>7 DEF ReplyInv, Lossy

(* Replies: only Save saves, and the next call forgets. *)
LEMMA StepReplyInv ==
  TypeOK /\ PathInv /\ ReplyInv /\ [Next]_vars => ReplyInv'
<1> SUFFICES ASSUME TypeOK, PathInv, ReplyInv, [Next]_vars PROVE ReplyInv'
  OBVIOUS
<1>1. CASE answer'.kind # "saved"
  BY <1>1 DEF ReplyInv
<1>2. CASE UNCHANGED <<answer, dir>>
  BY <1>2 DEF ReplyInv, Location, Lossy
<1>3. CASE Save
  <2>1. dir' = dir
    BY <1>3 DEF Save, settled
  <2>2. CASE \/ answer' = [Nothing EXCEPT !.kind = "late"]
             \/ answer' = [Nothing EXCEPT !.kind = "failed"]
    BY <1>1, <2>2 DEF Nothing
  <2>3. ASSUME NEW relative, relative = RelativeWithinRoot(text, dir, Real(place)),
               relative # None, Real(place') # None,
               ~ThroughLink(relative, place'), answer' = Saved(relative, place')
        PROVE  ReplyInv'
    <3>1. place' # "none"
      BY <2>3 DEF Real
    <3> HIDE DEF ReplyInv
    <3> QED
      BY <2>1, <2>3, <3>1, SavedInv
  <2> QED
    BY <1>3, <2>2, <2>3 DEF Save, Finish, Return
<1>4. CASE \/ Main \/ BuildService \/ ReadEnv \/ ReplyInline \/ Stop
  BY <1>1, <1>4 DEF Main, BuildService, WithConfig, ReadEnv, ReplyInline, Return,
     Stop, Nothing, TypeOK
<1>5. CASE Spawn \/ HostSetsVars \/ PlaceMoves \/ UNCHANGED vars
  BY <1>2, <1>5 DEF Spawn, HostSetsVars, PlaceMoves, settled, vars
<1>6. ASSUME NEW saveAs \in Callable, Check(saveAs) PROVE answer'.kind # "saved"
  BY <1>6 DEF Check, Return, Nothing
<1>7. ASSUME NEW arg \in MaxCharsArgs, NEW page \in Pages, Read(arg, page)
      PROVE  answer'.kind # "saved"
  BY <1>7 DEF Read, Return, Nothing
<1> QED
  BY <1>1, <1>3, <1>4, <1>5, <1>6, <1>7 DEF Next

(* Texts: of the caller, or of the last reply. *)
LEMMA StepText ==
  PathInv /\ ReplyInv /\ [Next]_vars => text' \in Seq(Segments)
<1> SUFFICES ASSUME PathInv, ReplyInv, [Next]_vars PROVE text' \in Seq(Segments)
  OBVIOUS
<1>1. None \in Seq(Segments)
  BY DEF None
<1>2. CASE text' \in {text, None}
  BY <1>1, <1>2 DEF PathInv
<1>3. ASSUME NEW saveAs \in Callable, Check(saveAs) PROVE text' \in Seq(Segments)
  <2>1. text' = saveAs
    BY <1>3 DEF Check
  <2>2. CASE saveAs \in Texts
    BY <2>1, <2>2, PathsAssumption
  <2>3. CASE answer.kind = "saved" /\ saveAs = TextOf(answer.path)
    <3>1. answer.relative \in Seq(Names) /\ Location \in Seq(Names)
      BY <2>3, LocationType DEF ReplyInv
    <3>2. /\ Location \o answer.relative \in Seq(Names)
          /\ Elsewhere \o answer.relative \in Seq(Names)
      BY <3>1, PathsAssumption
    <3>3. answer.path \in Seq(Segments)
      BY <2>3, <3>2, LossyType DEF ReplyInv
    <3>4. NoPart \in Segments
      BY SegmentsAssumption
    <3> QED
      BY <2>1, <2>3, <3>3, <3>4 DEF TextOf
  <2> QED
    BY <1>3, <2>2, <2>3 DEF Callable
<1>4. ASSUME NEW arg \in MaxCharsArgs, NEW page \in Pages, Read(arg, page)
      PROVE  text' \in {text, None}
  BY <1>4 DEF Read, Forget
<1>5. CASE \/ Main \/ BuildService \/ ReadEnv \/ Spawn \/ Save \/ ReplyInline \/ Stop
           \/ HostSetsVars \/ PlaceMoves \/ UNCHANGED vars
  BY <1>2, <1>5 DEF Main, BuildService, WithConfig, ReadEnv, Spawn, Save,
     ReplyInline, Stop, HostSetsVars, PlaceMoves, Forget, fetching, vars
<1> QED
  BY <1>2, <1>3, <1>4, <1>5 DEF Next

LEMMA StepPathInv ==
  TypeOK /\ DirInv /\ PathInv /\ ReplyInv /\ [Next]_vars => PathInv'
<1> SUFFICES ASSUME TypeOK, DirInv, PathInv, ReplyInv, [Next]_vars PROVE PathInv'
  OBVIOUS
<1>1. TypeOK' /\ DirInv'
  BY StepTypeOK, StepDirInv
<1>2. dir'.parts \in Seq(Parts \ {Nul})
  <2>1. CASE pc' = "off"
    <3>1. dir' = NoDir
      BY <1>1, <2>1 DEF TypeOK
    <3>2. NoDir.parts \in Seq(Parts \ {Nul})
      BY DEF NoDir, Empty
    <3> QED
      BY <3>1, <3>2
  <2>2. CASE pc' # "off"
    <3>1. /\ given' \in Given /\ home' \in Environments
          /\ dir' = ScreenshotDir(given', home')
      BY <1>1, <2>2 DEF TypeOK, DirInv
    <3> QED
      BY <3>1, ScreenshotDirPath
  <2> QED
    BY <2>1, <2>2
<1>3. text' \in Seq(Segments)
  BY StepText
<1> QED
  BY <1>2, <1>3 DEF PathInv

(* The cut of a page is the longest beginning within the cap. *)
LEMMA CutHonours ==
  ASSUME NEW arg \in MaxCharsArgs, NEW page \in Pages, Read(arg, page)
  PROVE  CapHonoured'
<1> DEFINE max == MaxChars(arg)
           n == IF max = 0 \/ max >= Len(page) THEN Len(page) ELSE max
           caps == Caps(arg, page)
<1>1. arg.twice \in Int /\ page \in Seq(Nat) /\ Len(page) \in Nat
  BY PagesAssumption
<1>2. max \in Nat /\ (max = 0 => Len(page) \in caps) /\ (max # 0 => max \in caps)
  BY <1>1, DefaultMaxCharsAssumption
  DEF MaxChars, GetU64, NotGiven, Caps, IsNumber
<1> HIDE DEF max, caps
<1>3. PICK cap \in caps : n \in 0..Len(page) /\ n <= cap
        /\ (n < Len(page) => n = cap)
  <2>1. CASE max = 0
    BY <1>1, <1>2, <2>1
  <2>2. CASE max # 0
    BY <1>1, <1>2, <2>2
  <2> QED
    BY <2>1, <2>2
<1>4. /\ answer'.page = page /\ answer'.arg = arg
      /\ answer'.bytes = Bytes(page, n)
      /\ answer'.truncated <=> n < Len(page)
  BY <1>1, <1>2 DEF Read, Return, Nothing, Truncate, max
<1> HIDE DEF n
<1> QED
  BY <1>3, <1>4 DEF CapHonoured, caps

LEMMA StepCapHonoured == TypeOK /\ CapHonoured /\ [Next]_vars => CapHonoured'
<1> SUFFICES ASSUME TypeOK, CapHonoured, [Next]_vars PROVE CapHonoured'
  OBVIOUS
<1>1. CASE answer' = answer
  BY <1>1 DEF CapHonoured
<1>2. CASE answer'.kind # "read"
  BY <1>2 DEF CapHonoured
<1>3. ASSUME NEW saveAs \in Callable, Check(saveAs) PROVE answer'.kind # "read"
  BY <1>3 DEF Check, Return, Nothing
<1>4. CASE \/ Main \/ BuildService \/ Spawn \/ HostSetsVars \/ PlaceMoves
           \/ UNCHANGED vars
  BY <1>1, <1>4 DEF Main, BuildService, WithConfig, Spawn, HostSetsVars, PlaceMoves,
     vars
<1>5. CASE ReadEnv \/ ReplyInline \/ Stop
  BY <1>2, <1>5 DEF ReadEnv, ReplyInline, Stop, Return, Nothing
<1>6. CASE Save
  <2>1. answer'.kind \in {"late", "saved", "failed"}
    BY <1>6 DEF Save, Finish, Saved, Return, Nothing
  <2> QED
    BY <1>2, <2>1
<1> QED
  BY <1>2, <1>3, <1>4, <1>5, <1>6, CutHonours DEF Next

(* The invariant: types, settings, what check has found, what the last reply says
   and what a launch is to hand down, at every step. *)
THEOREM Invariant == Spec => []IInv
<1>1. IInv /\ [Next]_vars => IInv'
  BY StepTypeOK, StepDirInv, StepPathInv, StepReplyInv, StepCheckInv, StepLaunchInv
  DEF IInv
<1> QED
  BY InitIInv, <1>1, PTL DEF Spec

(* A save_as that check lets pass means the same to the save, unless the
   directory moves and the text is below it as resolved only. *)
THEOREM CheckHolds == Spec => []CheckAgreesWithSave
<1>1. IInv => CheckAgreesWithSave
  BY DEF IInv
<1> QED
  BY Invariant, <1>1, PTL

(* Chrome sees the values of allowed variables, of those that cannot be named,
   and of those that came in while it was being started. *)
THEOREM OnlyAllowedSeen == Spec => []ChildSeesOnlyAllowed
<1>1. IInv => ChildSeesOnlyAllowed
  BY DEF IInv
<1> QED
  BY Invariant, <1>1, PTL

(* What is read of a page is its longest beginning within the cap that
   docs/result_shapes.md promises, and the reply says whether it is all. *)
THEOREM CapsAreHonoured == Spec => []CapHonoured
<1>1. Init => CapHonoured
  BY DEF Init, CapHonoured, Nothing
<1>2. IInv => TypeOK
  BY DEF IInv
<1> QED
  BY Invariant, <1>1, <1>2, StepCapHonoured, PTL DEF Spec

(* The names of a file that is saved go down from the directory, each to the next,
   to a PNG. *)
THEOREM NamesGoDown == Spec => []NamesStayInside
<1>1. IInv => NamesStayInside
  <2> SUFFICES ASSUME IInv, answer.kind = "saved" PROVE NamesStayInside
    BY DEF NamesStayInside
  <2> DEFINE names == answer.relative
             S == Names \cup {"root"}
  <2>1. names \in Seq(Names) /\ Len(names) \in 1..MaxPathComponents
          /\ Last(names) \in PngNames
    BY DEF IInv, ReplyInv
  <2>2. ~Contains(names, Nul)
    BY <2>1 DEF Contains, Names
  <2>3. ASSUME NEW n \in 1..Len(names)
        PROVE  Walked(<<"root">>, SubSeq(names, 1, n))
                 = <<"root">> \o SubSeq(names, 1, n)
    <3>1. SubSeq(names, 1, n) \in Seq(Names)
      BY <2>1, BeginningsGrow
    <3>2. SubSeq(names, 1, n) \in Seq(S) /\ <<"root">> \in Seq(S)
      BY <3>1
    <3>3. \A i \in 1..Len(SubSeq(names, 1, n)) :
            SubSeq(names, 1, n)[i] \notin Skipped \cup {".."}
      BY <3>1 DEF Names, Parts
    <3> HIDE DEF S
    <3> QED
      BY <3>2, <3>3, WalkDown
  <2> QED
    BY <2>1, <2>2, <2>3 DEF NamesStayInside
<1> QED
  BY Invariant, <1>1, PTL

(* The path of a reply can be given back, and names the same file. *)
THEOREM RepliesReadBack == Spec => []ReplyReadsBack
<1>1. IInv => ReplyReadsBack
  <2> DEFINE names == answer.relative
             real == Real(place)
  <2> SUFFICES ASSUME IInv, answer.kind = "saved", real # None,
                      answer.path = real \o names
               PROVE  RelativeWithinRoot(TextOf(real \o names), dir, real) = names
    BY DEF ReplyReadsBack
  <2>1. /\ names \in Seq(Names) /\ Len(names) \in 1..MaxPathComponents
        /\ Last(names) \in PngNames
        /\ dir.parts \in Seq(Parts \ {Nul}) /\ dir.parts \in Seq(Segments)
    BY DEF IInv, ReplyInv, PathInv, Parts
  <2>2. Location \in Seq(Names) /\ Elsewhere \in Seq(Names)
    BY LocationType, PathsAssumption DEF IInv
  <2>3. real \in {Location, Elsewhere}
    BY DEF Real
  <2>4. ASSUME dir.abs, IsPrefix(dir.parts, real \o names)
        PROVE  Len(dir.parts) = Len(real)
    <3>1. real \o names \in Seq(Names)
      BY <2>1, <2>2, <2>3
    <3>2. \A i \in 1..Len(dir.parts) : dir.parts[i] \in Names
      <4> DEFINE path == real \o names
      <4>1. path \in Seq(Names)
        BY <3>1
      <4>2. IsPrefix(dir.parts, path)
        BY <2>4
      <4> HIDE DEF path
      <4> QED
        BY <2>1, <4>1, <4>2 DEF IsPrefix
    <3>3. Location = dir.parts
      <4>1. \A i \in 1..Len(dir.parts) : dir.parts[i] \notin Skipped \cup {".."}
        BY <3>2 DEF Names, Parts
      <4>2. <<>> \in Seq(Segments) /\ dir.parts \in Seq(Segments)
        BY <2>1
      <4>3. Walked(<<>>, dir.parts) = <<>> \o dir.parts
        BY <4>1, <4>2, WalkDown
      <4> QED
        BY <2>4, <4>2, <4>3 DEF Location
    <3>4. CASE real = Location
      BY <3>3, <3>4
    <3>5. CASE real = Elsewhere
      <4>1. IsPrefix(Location, Elsewhere \o names)
        BY <2>4, <3>3, <3>5
      <4>2. answer.path = Lossy(Location \o names)
        BY <4>1 DEF IInv, ReplyInv
      <4>3. Location \o names \in Seq(Names) /\ Elsewhere \o names \in Seq(Names)
        BY <2>1, <2>2
      <4>4. Len(Location \o names) = Len(Elsewhere \o names)
        BY <3>5, <4>2, <4>3, LossyType
      <4>5. Location \in Seq(Names) /\ Elsewhere \in Seq(Names) /\ names \in Seq(Names)
        BY <2>1, <2>2
      <4> HIDE DEF names, real
      <4>6. Len(Location) = Len(Elsewhere)
        BY ONLY <4>4, <4>5, SameLengths
      <4> QED
        BY <3>3, <3>5, <4>6
    <3> QED
      BY <2>3, <3>4, <3>5
  <2>5. real \in Seq(Names) /\ dir.parts \in Seq(Segments)
    BY <2>1, <2>2, <2>3
  <2> HIDE DEF real, names
  <2>6. RelativeWithinRoot(<<NoPart>> \o (real \o names), dir, real) = names
    BY <2>1, <2>4, <2>5, ReadsBack
  <2> QED
    BY <2>6 DEF TextOf
<1> QED
  BY Invariant, <1>1, PTL

(* A directory nobody has named is below a base of the user's. *)
THEOREM DefaultsArePerUser == Spec => []DefaultIsPerUser
<1>1. IInv => DefaultIsPerUser
  <2> SUFFICES ASSUME IInv, given = NoDir, dir # NoDir PROVE DefaultIsPerUser
    BY DEF DefaultIsPerUser
  <2>1. pc # "off"
    BY DEF IInv, TypeOK
  <2>2. dir = ScreenshotDirUnder(home)
    BY <2>1 DEF IInv, DirInv, ScreenshotDir
  <2>3. Usable(home, "XDG_CACHE_HOME") \/ Usable(home, "HOME")
    BY <2>2 DEF ScreenshotDirUnder
  <2>4. CASE Usable(home, "XDG_CACHE_HOME")
    BY <2>2, <2>4 DEF ScreenshotDirUnder, Usable, DefaultIsPerUser
  <2>5. CASE ~Usable(home, "XDG_CACHE_HOME") /\ Usable(home, "HOME")
    BY <2>2, <2>5 DEF ScreenshotDirUnder, Usable, DefaultIsPerUser
  <2> QED
    BY <2>3, <2>4, <2>5
<1> QED
  BY Invariant, <1>1, PTL

(* What is allowed reaches Chrome as it is. *)
THEOREM AllowedReach == Spec => AllowlistedReach
<1>1. ASSUME IInv, [Next]_vars, pc = "launching", pc' = "idle"
      PROVE  child' = Laid(over, env)
  BY <1>1 DEF Next, vars, Main, BuildService, WithConfig, ReadEnv, Spawn, Save, ReplyInline, Stop, Check,
     Read, HostSetsVars, PlaceMoves
<1>2. ASSUME IInv, pc = "launching", NEW n \in Allowlist \ fresh
      PROVE  /\ n \in DOMAIN Laid(over, env) <=> n \in DOMAIN env
             /\ n \in DOMAIN env => Laid(over, env)[n] = env[n]
  BY <1>2 DEF IInv, LaunchInv, Laid
<1>3. IInv /\ [Next]_vars =>
        [(pc = "launching" /\ pc' = "idle") =>
           \A n \in Allowlist \ fresh :
             /\ n \in DOMAIN child' <=> n \in DOMAIN env
             /\ n \in DOMAIN env => child'[n] = env[n]]_vars
  BY <1>1, <1>2
<1> QED
  BY Invariant, <1>3, PTL DEF Spec, AllowlistedReach

(* A refusal leaves the place of the directory as it is. *)
THEOREM RefusalsTouchNothing == Spec => RefusalTouchesNothing
<1>1. ASSUME [Next]_vars, answer' # answer,
             answer'.kind \in {"refused", "late", "inline"}
      PROVE  place' = place
  <2>1. CASE Save
    BY <1>1, <2>1 DEF Save, Finish, Return, Saved, Nothing
  <2>2. CASE \/ Main \/ BuildService \/ ReadEnv \/ Spawn \/ ReplyInline
               \/ Stop
    BY <2>2 DEF Main, BuildService, WithConfig, ReadEnv, Spawn, ReplyInline, Stop
  <2>3. ASSUME NEW saveAs \in Callable, Check(saveAs) PROVE place' = place
    BY <2>3 DEF Check
  <2>4. ASSUME NEW arg \in MaxCharsArgs, NEW page \in Pages, Read(arg, page)
        PROVE  place' = place
    BY <2>4 DEF Read
  <2>5. CASE HostSetsVars \/ PlaceMoves \/ UNCHANGED vars
    BY <1>1, <2>5 DEF HostSetsVars, PlaceMoves, vars
  <2> QED
    BY <1>1, <2>1, <2>2, <2>3, <2>4, <2>5 DEF Next
<1>2. [Next]_vars =>
        [(answer' # answer /\ answer'.kind \in {"refused", "late", "inline"})
           => place' = place]_vars
  BY <1>1
<1> QED
  BY <1>2, PTL DEF Spec, RefusalTouchesNothing
=============================================================================

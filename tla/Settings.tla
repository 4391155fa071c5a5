------------------------------ MODULE Settings ------------------------------
(***************************************************************************)
(* What the environment of the server's process decides: its screenshot    *)
(* directory (src/config.rs, src/main.rs) and what Chrome gets to see of   *)
(* that environment (chrome_env of src/operations/browser.rs).             *)
(*                                                                         *)
(* An environment is a function from the names that are set to their       *)
(* values.  A value is [abs, parts, utf8]: a text, read as a path where    *)
(* the code does so, and whether it is valid UTF-8.                        *)
(***************************************************************************)
EXTENDS Sequences

CONSTANTS
  Allowlist,    \* CHROME_ENV_ALLOWLIST
  RawNames      \* the names of variables that are not valid UTF-8

Empty == [abs |-> FALSE, parts |-> <<>>, utf8 |-> TRUE]

-----------------------------------------------------------------------------
(* The screenshot directory *)

\* None: neither given nor to be had.
NoDir == Empty

DirName == <<"web-mcp", "screenshots">>
Join(path, parts) == [path EXCEPT !.parts = @ \o parts]

\* Only an absolute path will do.  (The first form takes any.)
IsSet(env, name) == name \in DOMAIN env
Usable(env, name) == name \in DOMAIN env /\ env[name].abs

ScreenshotDirUnder(env) ==
  IF Usable(env, "XDG_CACHE_HOME") THEN Join(env["XDG_CACHE_HOME"], DirName)
  ELSE IF Usable(env, "HOME") THEN Join(env["HOME"], <<".cache">> \o DirName)
  ELSE NoDir

\* What the operator gives comes first.
ScreenshotDir(given, env) ==
  IF given # NoDir THEN given ELSE ScreenshotDirUnder(env)

-----------------------------------------------------------------------------
(* The environment of Chrome *)

\* What is laid over the environment Chrome inherits: the listed variables as
\* they are, all others emptied.  What is not UTF-8 cannot be laid over.  (The
\* first form leaves out the others; the second empties what it cannot keep.)
ChromeEnvListed(env) ==
  [n \in {n \in DOMAIN env \cap Allowlist : env[n].utf8} |-> env[n]]
ChromeEnvLossy(env) ==
  [n \in DOMAIN env \ RawNames |->
     IF n \in Allowlist /\ env[n].utf8 THEN env[n] ELSE Empty]
ChromeEnv(env) ==
  [n \in {n \in DOMAIN env \ RawNames : n \in Allowlist => env[n].utf8} |->
     IF n \in Allowlist THEN env[n] ELSE Empty]

\* A process starts with what it inherits and what is laid over it.
Laid(over, env) ==
  [n \in DOMAIN over \cup DOMAIN env |->
     IF n \in DOMAIN over THEN over[n] ELSE env[n]]
=============================================================================

------------------------------ MODULE MCServer ------------------------------
(***************************************************************************)
(* A server with four environments to be started or changed to, four       *)
(* choices of the operator, a screenshot directory that comes and goes,    *)
(* and the texts, numbers and pages at the edges of the conversions.       *)
(***************************************************************************)
EXTENDS Server

Path(parts) == [abs |-> TRUE, parts |-> parts, utf8 |-> TRUE]
Relative(parts) == [abs |-> FALSE, parts |-> parts, utf8 |-> TRUE]

\* A user's; one with an empty and a relative base; one with a token, a name
\* that is not UTF-8 and a value that is not; one with next to nothing.
MCEnvironments ==
  {"HOME" :> Path(<<"home">>) @@ "TOKEN" :> Relative(<<"secret">>),
   "XDG_CACHE_HOME" :> Empty @@ "HOME" :> Relative(<<"home">>)
     @@ "DISPLAY" :> Relative(<<":0">>),
   "XDG_CACHE_HOME" :> Path(<<"cache">>) @@ "RAWNAME" :> Relative(<<"secret">>)
     @@ "HOME" :> [abs |-> TRUE, parts |-> <<"RAW">>, utf8 |-> FALSE]
     @@ "TOKEN" :> Relative(<<"other">>),
   "HOME" :> [abs |-> TRUE, parts |-> <<"RAW">>, utf8 |-> FALSE]
     @@ "DISPLAY" :> Relative(<<":0">>)}

\* The last may be a link to the directory above it.
MCGiven ==
  {NoDir, Path(<<"x", "..", "shots">>), Relative(<<"shots">>), Path(<<"mnt", "b", "b">>)}

\* Relative, absolute as configured and as resolved, climbing, deep, and what
\* names no file.
MCTexts ==
  {Omitted, <<"">>, <<" ">>, <<"a.png">>, <<" ", "b", "a.png">>, <<"b", "a.png", "">>,
   <<"b", "a.png", ".">>, <<"..", "a.png">>, <<"b", "..", "a.png">>,
   <<"b", ".", "", "a.png">>, <<"b", "b", "a.png">>, <<"b", "b", "b", "a.png">>,
   <<"b", "NUL", "a.png">>, <<"a.txt">>,
   <<"", "shots">>, <<"", "shots", "a.png">>, <<" ", "shots", "a.png">>,
   <<"", "x", "..", "shots", "a.png">>, <<"", "x", "..", "shots", "..", "a.png">>,
   <<"", "cwd", "shots", "b", "a.png">>,
   <<"", "mnt", "b", "a.png">>, <<"", "etc", "a.png">>}

MCSegments == STRING

MCCwd == <<"cwd">>
MCElsewhere == <<"mnt", "b">>

MCMaxCharsArgs ==
  {[kind |-> "integer", twice |-> t] : t \in {-2, 0, 2, 4}}
    \cup {[kind |-> "float", twice |-> t] : t \in {-1, 1, 5}}
    \cup {[kind |-> "text", twice |-> t] : t \in {-2, 3, 4}} \cup {NoArg}

\* Pages of characters of one to four bytes, below, at and above the caps.
MCPages == {<<>>, <<1, 3>>, <<2, 1, 4>>, <<3, 1, 2, 1>>}
=============================================================================

---------------------------- MODULE MCWebService ----------------------------
(***************************************************************************)
(* An instance of WebService for TLC: one URL for each way the guard goes. *)
(***************************************************************************)
EXTENDS WebService

V4(a, b, c, d) == [v |-> 4, parts |-> <<a, b, c, d>>]
Public == V4(93, 184, 216, 34)
Private == V4(10, 0, 0, 1)
V6(s1, s6, s7, s8) == [v |-> 6, parts |-> <<s1, 0, 0, 0, 0, s6, s7, s8>>]
Public6 == V6(Word(38, 6), 0, 0, 1)
\* ::ffff:100.127.0.1, at the end of its range.
MappedShared == V6(0, Word(255, 255), Word(100, 127), 1)
\* The neighbours of the ranges, which are public.
Outside ==
  {V4(172, 15, 0, 1), V4(172, 32, 0, 1), V4(100, 63, 0, 1), V4(100, 128, 0, 1),
   V6(Word(251, 255), 0, 0, 1), V6(Word(254, 0), 0, 0, 1),
   V6(Word(254, 192), 0, 0, 1)}

\* All of them, and those with which every request goes everywhere: an IPv6
\* literal is a name that is not found.
MCUrls == {"name", "local", "private", "public", "blank", "literal6", "garbage"}
CallUrls == MCUrls \ {"literal6"}
Http(kind, ip) ==
  [parses |-> TRUE, scheme |-> "http", host |-> [kind |-> kind, ip |-> ip]]
SiteOf(urls) ==
  [u \in urls |->
     CASE u = "name" -> Http("name", Public)
       [] u = "local" -> Http("local", Public)
       [] u = "public" -> Http("v4", Public)
       [] u = "private" -> Http("v4", Private)
       [] u = "literal6" -> Http("v6", Public6)
       [] u = "blank" -> [Http("none", Public) EXCEPT !.scheme = "about"]
       [] u = "garbage" -> [Http("none", Public) EXCEPT !.parses = FALSE]]
MCSite == SiteOf(MCUrls)
CallSite == SiteOf(CallUrls)

MCAnswers == {Unresolved} \cup [ok : {TRUE}, addrs : {Outside, {Public, MappedShared}}]

\* A read has no save_as, and a screenshot no links.  What comes after the last
\* command of all does not depend on how the URL was accepted, and until then a
\* screenshot goes the way of a read.
RequestsOf(urls) ==
  [tool : {"web_read"}, url : urls \cup {NoUrl}, links : {FALSE},
   save : {"none"}]
    \cup
  [tool : {"web_screenshot"}, url : urls \cup {NoUrl}, links : {FALSE},
   save : {"bad"}]
    \cup
  [tool : {"web_screenshot"}, url : {"name"}, links : {FALSE},
   save : {"none", "good"}]
    \cup
  {[tool |-> "web_read", url |-> "name", links |-> TRUE, save |-> "none"],
   [tool |-> "other", url |-> NoUrl, links |-> FALSE, save |-> "none"]}
MCRequests == RequestsOf(MCUrls)
CallRequests == RequestsOf(CallUrls)
=============================================================================

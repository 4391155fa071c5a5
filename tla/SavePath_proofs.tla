--------------------------- MODULE SavePath_proofs ---------------------------
(***************************************************************************)
(* What the recursive definitions of SavePath compute, for every text and  *)
(* every path: the parts that a text is left with, and where a walk along  *)
(* them ends.  Induction is over the numbers up to the length, stated of a *)
(* set of numbers.                                                         *)
(***************************************************************************)
EXTENDS SavePath, WellFoundedInduction, TLAPS

(***************************************************************************)
(* Induction and recursion                                                 *)
(***************************************************************************)

(* A set of numbers with 0 and each successor is all of them. *)
LEMMA NatSetInduction ==
  ASSUME NEW T \in SUBSET Nat, 0 \in T, \A n \in T : n + 1 \in T
  PROVE  T = Nat
<1> SUFFICES ASSUME Nat \ T # {} PROVE FALSE
  OBVIOUS
<1> DEFINE Less == {p \in Nat \X Nat : p[1] < p[2]}
<1>1. IsWellFoundedOn(Less, Nat)
  BY NatLessThanWellFounded DEF OpToRel
<1> HIDE DEF Less
<1>2. PICK x \in Nat \ T : \A y \in Nat \ T : <<y, x>> \notin Less
  <2>1. Nat \ T \subseteq Nat
    OBVIOUS
  <2> QED
    BY ONLY <1>1, <2>1, WFMin, Nat \ T # {}
<1>3. x - 1 \in Nat /\ x - 1 < x /\ (x - 1) + 1 = x
  OBVIOUS
<1>4. <<x - 1, x>> \in Less
  BY <1>3 DEF Less
<1> QED
  BY <1>2, <1>3, <1>4

(* The same up to a number. *)
LEMMA UpToInduction ==
  ASSUME NEW N \in Nat, NEW T, 0 \in T,
         \A n \in 0..(N - 1) : n \in T => n + 1 \in T
  PROVE  \A n \in 0..N : n \in T
<1> DEFINE U == {n \in Nat : n <= N => n \in T}
<1>1. 0 \in U /\ \A n \in U : n + 1 \in U
  OBVIOUS
<1>2. U = Nat
  <2> HIDE DEF U
  <2>1. U \in SUBSET Nat
    BY DEF U
  <2> QED
    BY <1>1, <2>1, NatSetInduction
<1> QED
  BY <1>2

(* A function on 0..N that is defined by its value at the number before. *)
Steps(S, N) == [(1..N) \X S -> S]
Recursion(f, S, x0, N, step) ==
  /\ f \in [0..N -> S]
  /\ f[0] = x0 /\ \A i \in 1..N : f[i] = step[<<i, f[i - 1]>>]

LEMMA RecursionExists ==
  ASSUME NEW S, NEW x0 \in S, NEW N \in Nat, NEW step \in Steps(S, N)
  PROVE  \E f : Recursion(f, S, x0, N, step)
<1> USE DEF Steps
<1> DEFINE Good(k, f) ==
             /\ f \in [0..k -> S]
             /\ f = [i \in 0..k |-> IF i = 0 THEN x0 ELSE step[<<i, f[i - 1]>>]]
           T == {k \in 0..N : \E f : Good(k, f)}
<1>1. 0 \in T
  <2> DEFINE f == [i \in 0..0 |-> x0]
  <2>1. Good(0, f)
    OBVIOUS
  <2> HIDE DEF f
  <2> QED
    BY <2>1
<1>2. ASSUME NEW k \in 0..(N - 1), k \in T PROVE k + 1 \in T
  <2>1. PICK f : Good(k, f)
    BY <1>2
  <2> DEFINE g == [i \in 0..(k + 1) |-> IF i <= k THEN f[i] ELSE step[<<k + 1, f[k]>>]]
  <2>2. f[k] \in S /\ k + 1 \in 1..N
    BY <2>1
  <2>3. step[<<k + 1, f[k]>>] \in S
    BY <2>2
  <2>4. g \in [0..(k + 1) -> S]
    BY <2>1, <2>3
  <2>5. ASSUME NEW i \in 0..(k + 1)
        PROVE  g[i] = IF i = 0 THEN x0 ELSE step[<<i, g[i - 1]>>]
    <3>1. CASE i = 0
      BY <2>1, <3>1
    <3>2. CASE i # 0
      <4>1. i - 1 \in 0..k /\ g[i - 1] = f[i - 1]
        BY <3>2
      <4>2. CASE i <= k
        <5>1. i \in 0..k /\ g[i] = f[i]
          BY <4>2
        <5>2. f[i] = step[<<i, f[i - 1]>>]
          BY <2>1, <3>2, <5>1
        <5> QED
          BY <3>2, <4>1, <5>1, <5>2
      <4>3. CASE i = k + 1
        <5>1. g[i] = step[<<k + 1, f[k]>>] /\ i - 1 = k
          BY <4>3
        <5>2. g[i - 1] = f[k]
          BY <4>1, <5>1
        <5> HIDE DEF g
        <5> QED
          BY <3>2, <4>3, <5>1, <5>2
      <4> QED
        BY <4>2, <4>3
    <3> QED
      BY <3>1, <3>2
  <2>6. Good(k + 1, g)
    BY <2>4, <2>5
  <2>7. k + 1 \in 0..N
    OBVIOUS
  <2> HIDE DEF g, Good
  <2> QED
    BY <2>6, <2>7
<1>3. N \in T
  <2> HIDE DEF T
  <2>1. \A k \in 0..N : k \in T
    BY <1>1, <1>2, UpToInduction
  <2> QED
    BY <2>1
<1>4. PICK f : Good(N, f)
  BY <1>3
<1>5. f[0] = x0 /\ \A i \in 1..N : f[i] = step[<<i, f[i - 1]>>]
  BY <1>4
<1> QED
  BY <1>4, <1>5 DEF Recursion

(***************************************************************************)
(* Sequences                                                               *)
(***************************************************************************)

(* A beginning of a sequence, and the one that is one longer. *)
LEMMA BeginningsGrow ==
  ASSUME NEW S, NEW s \in Seq(S), NEW i \in 1..Len(s)
  PROVE  /\ SubSeq(s, 1, i) = Append(SubSeq(s, 1, i - 1), s[i])
         /\ SubSeq(s, 1, i) \in Seq(S) /\ SubSeq(s, 1, i - 1) \in Seq(S)
OBVIOUS

(* All of a sequence, and none of it. *)
LEMMA BeginningEnds ==
  ASSUME NEW S, NEW s \in Seq(S)
  PROVE  SubSeq(s, 1, Len(s)) = s /\ SubSeq(s, 1, 0) = <<>>
OBVIOUS

(***************************************************************************)
(* Components                                                              *)
(***************************************************************************)

(* The function of Components satisfies its definition. *)
LEMMA KeptEquation ==
  ASSUME NEW text \in Seq(Segments)
  PROVE  Kept(text) =
           [i \in 0..Len(text) |->
              IF i = 0 THEN <<>>
              ELSE IF text[i] \in Skipped THEN Kept(text)[i - 1]
              ELSE Append(Kept(text)[i - 1], text[i])]
<1> DEFINE N == Len(text)
           Acc == Seq(Segments)
           nil == <<>>
           step == [p \in (1..N) \X Seq(Segments) |->
                      IF text[p[1]] \in Skipped THEN p[2]
                      ELSE Append(p[2], text[p[1]])]
           Rec(f) == [i \in 0..N |->
                        IF i = 0 THEN <<>>
                        ELSE IF text[i] \in Skipped THEN f[i - 1]
                        ELSE Append(f[i - 1], text[i])]
<1>1. N \in Nat
  OBVIOUS
<1>2. nil \in Acc /\ step \in Steps(Acc, N)
  BY DEF Steps
<1>3. PICK f : Recursion(f, Acc, nil, N, step)
  <2> HIDE DEF step, N, Rec, Acc, nil
  <2> QED
    BY <1>1, <1>2, RecursionExists
<1>4. ASSUME NEW i \in 0..N, i # 0
      PROVE  f[i] = IF text[i] \in Skipped THEN f[i - 1]
                    ELSE Append(f[i - 1], text[i])
  <2>1. i - 1 \in 0..N /\ i \in 1..N
    BY <1>1, <1>4
  <2>2. f[i - 1] \in Seq(Segments) /\ f[i] = step[<<i, f[i - 1]>>]
    BY <1>3, <2>1 DEF Recursion
  <2> QED
    BY <2>1, <2>2
<1>5. f = Rec(f)
  <2>1. \A i \in 0..N : f[i] = Rec(f)[i]
    BY <1>3, <1>4 DEF Recursion
  <2> QED
    BY <1>3, <2>1 DEF Recursion
<1>6. Kept(text) = CHOOSE g : g = Rec(g)
  BY DEF Kept
<1>7. \E g : g = Rec(g)
  BY <1>5
<1>8. Kept(text) = Rec(Kept(text))
  <2> HIDE DEF Rec
  <2> QED
    BY <1>6, <1>7
<1> QED
  BY <1>8

(* What is left of a text are segments of it, none of them skipped. *)
LEMMA ComponentsType ==
  ASSUME NEW text \in Seq(Segments)
  PROVE  Components(text) \in Seq({text[i] : i \in 1..Len(text)} \ Skipped)
<1> DEFINE N == Len(text)
           S == {text[i] : i \in 1..N} \ Skipped
           T == {i \in 0..N : Kept(text)[i] \in Seq(S)}
<1>0. N \in Nat
  OBVIOUS
<1>1. 0 \in T
  <2>1. 0 \in 0..N
    BY <1>0
  <2>2. Kept(text)[0] = <<>>
    BY <2>1, KeptEquation
  <2>3. <<>> \in Seq(S)
    OBVIOUS
  <2> QED
    BY <2>1, <2>2, <2>3
<1>2. ASSUME NEW i \in 0..(N - 1), i \in T PROVE i + 1 \in T
  <2>1. i + 1 \in 0..N /\ i + 1 \in 1..N /\ i + 1 # 0 /\ (i + 1) - 1 = i
    OBVIOUS
  <2>2. Kept(text)[i + 1] =
          IF text[i + 1] \in Skipped THEN Kept(text)[i]
          ELSE Append(Kept(text)[i], text[i + 1])
    BY <2>1, KeptEquation
  <2>3. Kept(text)[i] \in Seq(S)
    BY <1>2
  <2>4. text[i + 1] \notin Skipped => text[i + 1] \in S
    BY <2>1
  <2>5. Kept(text)[i + 1] \in Seq(S)
    <3> HIDE DEF S
    <3> QED
      BY <2>2, <2>3, <2>4
  <2> QED
    BY <2>1, <2>5
<1>3. \A i \in 0..N : i \in T
  <2> HIDE DEF T, N
  <2> QED
    BY <1>0, <1>1, <1>2, UpToInduction
<1>4. N \in T
  BY <1>0, <1>3
<1> QED
  BY <1>4 DEF Components

(* The text of a path is left with the path. *)
LEMMA ComponentsOfPath ==
  ASSUME NEW path \in Seq(Parts)
  PROVE  Components(<<NoPart>> \o path) = path
<1> DEFINE text == <<NoPart>> \o path
           N == Len(text)
           T == {i \in 0..Len(path) : Kept(text)[i + 1] = SubSeq(path, 1, i)}
<1>0. /\ text \in Seq(Segments) /\ N = Len(path) + 1 /\ Len(path) \in Nat
      /\ text[1] = NoPart /\ \A i \in 1..Len(path) : text[i + 1] = path[i]
      /\ \A i \in 1..Len(path) : path[i] \notin Skipped
  <2>1. path \in Seq(Segments) /\ \A i \in 1..Len(path) : path[i] \notin Skipped
    BY DEF Parts
  <2>2. <<NoPart>> \in Seq(Segments)
    BY SegmentsAssumption
  <2>3. text \in Seq(Segments) /\ N = Len(path) + 1 /\ Len(path) \in Nat
    BY <2>1, <2>2
  <2> QED
    BY <2>1, <2>2, <2>3
<1> HIDE DEF text
<1>1. 0 \in T
  <2>1. 1 \in 0..N /\ 0 \in 0..N
    BY <1>0
  <2>2. Kept(text)[0] = <<>>
    BY <1>0, <2>1, KeptEquation
  <2>5. Kept(text)[1] = Kept(text)[1 - 1]
    BY <1>0, <2>1, KeptEquation DEF Skipped
  <2>3. 0 + 1 = 1 /\ 1 - 1 = 0 /\ 0 \in 0..Len(path)
    BY <1>0
  <2>4. SubSeq(path, 1, 0) = <<>>
    OBVIOUS
  <2> QED
    BY <2>2, <2>3, <2>4, <2>5
<1>2. ASSUME NEW i \in 0..(Len(path) - 1), i \in T PROVE i + 1 \in T
  <2>1. /\ (i + 1) + 1 \in 0..N /\ (i + 1) + 1 # 0 /\ ((i + 1) + 1) - 1 = i + 1
        /\ i + 1 \in 1..Len(path) /\ (i + 1) - 1 = i
    BY <1>0
  <2>2. text[(i + 1) + 1] = path[i + 1] /\ path[i + 1] \notin Skipped
    BY <1>0, <2>1
  <2>3. Kept(text)[(i + 1) + 1] = Append(Kept(text)[i + 1], path[i + 1])
    BY <1>0, <2>1, <2>2, KeptEquation
  <2>4. Kept(text)[i + 1] = SubSeq(path, 1, i)
    BY <1>2
  <2>5. SubSeq(path, 1, i + 1) = Append(SubSeq(path, 1, i), path[i + 1])
    BY <2>1, BeginningsGrow
  <2> QED
    BY <2>1, <2>3, <2>4, <2>5
<1>3. \A i \in 0..Len(path) : i \in T
  <2> HIDE DEF T, N
  <2> QED
    BY <1>0, <1>1, <1>2, UpToInduction
<1>4. Kept(text)[N] = SubSeq(path, 1, Len(path))
  BY <1>0, <1>3
<1>5. SubSeq(path, 1, Len(path)) = path
  OBVIOUS
<1> QED
  BY <1>4, <1>5 DEF Components, text

(***************************************************************************)
(* Walked                                                                  *)
(***************************************************************************)

(* What a walk does at one part. *)
Onward(at, part) ==
  IF part \in Skipped THEN at
  ELSE IF part = ".." THEN Front(at)
  ELSE Append(at, part)

LEMMA OnwardType ==
  ASSUME NEW S, NEW at \in Seq(S), NEW part \in S
  PROVE  Onward(at, part) \in Seq(S)
<1>1. Front(at) \in Seq(S)
  BY DEF Front
<1> QED
  BY <1>1 DEF Onward

(* The function of Walked satisfies its definition. *)
LEMMA WalkEquation ==
  ASSUME NEW S, NEW from \in Seq(S), NEW parts \in Seq(S)
  PROVE  Walk(from, parts) =
           [i \in 0..Len(parts) |->
              IF i = 0 THEN from ELSE Onward(Walk(from, parts)[i - 1], parts[i])]
<1> DEFINE N == Len(parts)
           Acc == Seq(S)
           step == [p \in (1..N) \X Seq(S) |-> Onward(p[2], parts[p[1]])]
           Rec(f) == [i \in 0..N |->
                        IF i = 0 THEN from ELSE Onward(f[i - 1], parts[i])]
<1>1. N \in Nat
  OBVIOUS
<1>2. from \in Acc /\ step \in Steps(Acc, N)
  <2>1. ASSUME NEW p \in (1..N) \X Seq(S)
        PROVE  Onward(p[2], parts[p[1]]) \in Seq(S)
    <3>1. p[2] \in Seq(S) /\ parts[p[1]] \in S
      OBVIOUS
    <3> QED
      BY <3>1, OnwardType
  <2> QED
    BY <2>1 DEF Steps
<1>3. PICK f : Recursion(f, Acc, from, N, step)
  <2> HIDE DEF step, N, Rec, Acc
  <2> QED
    BY <1>1, <1>2, RecursionExists
<1>4. ASSUME NEW i \in 0..N, i # 0
      PROVE  f[i] = Onward(f[i - 1], parts[i])
  <2>1. i - 1 \in 0..N /\ i \in 1..N
    BY <1>1, <1>4
  <2>2. f[i - 1] \in Seq(S) /\ f[i] = step[<<i, f[i - 1]>>]
    BY <1>3, <2>1 DEF Recursion
  <2> QED
    BY <2>1, <2>2
<1>5. f = Rec(f)
  <2>1. \A i \in 0..N : f[i] = Rec(f)[i]
    BY <1>3, <1>4 DEF Recursion
  <2> QED
    BY <1>3, <2>1 DEF Recursion
<1>6. Walk(from, parts) = CHOOSE g : g = Rec(g)
  BY DEF Walk, Onward
<1>7. \E g : g = Rec(g)
  BY <1>5
<1>8. Walk(from, parts) = Rec(Walk(from, parts))
  <2> HIDE DEF Rec
  <2> QED
    BY <1>6, <1>7
<1> QED
  BY <1>8

(* A walk ends in a sequence of what it started from and has met. *)
LEMMA WalkType ==
  ASSUME NEW from \in Seq(Names), NEW parts \in Seq(Parts \ {Nul})
  PROVE  Walked(from, parts) \in Seq(Names)
<1> DEFINE N == Len(parts)
           T == {i \in 0..N : Walk(from, parts)[i] \in Seq(Names)}
<1>0. N \in Nat /\ from \in Seq(Parts) /\ parts \in Seq(Parts)
  BY DEF Names
<1>1. 0 \in T
  BY <1>0, WalkEquation
<1>2. ASSUME NEW i \in 0..(N - 1), i \in T PROVE i + 1 \in T
  <2>1. i + 1 \in 0..N /\ i + 1 \in 1..N /\ i + 1 # 0 /\ (i + 1) - 1 = i
    BY <1>0
  <2>2. Walk(from, parts)[i + 1] = Onward(Walk(from, parts)[i], parts[i + 1])
    BY <1>0, <2>1, WalkEquation
  <2>3. Walk(from, parts)[i] \in Seq(Names)
    BY <1>2
  <2>4. parts[i + 1] \in Parts \ {Nul}
    BY <2>1
  <2>5. CASE parts[i + 1] \in Names
    BY <2>1, <2>2, <2>3, <2>5, OnwardType
  <2>6. CASE parts[i + 1] = ".." /\ parts[i + 1] \notin Skipped
    <3>1. Walk(from, parts)[i + 1] = Front(Walk(from, parts)[i])
      BY <2>2, <2>6 DEF Onward
    <3>2. Front(Walk(from, parts)[i]) \in Seq(Names)
      BY <2>3 DEF Front
    <3> QED
      BY <2>1, <3>1, <3>2
  <2> QED
    BY <2>4, <2>5, <2>6 DEF Names, Parts
<1>3. \A i \in 0..N : i \in T
  <2> HIDE DEF T, N
  <2> QED
    BY <1>0, <1>1, <1>2, UpToInduction
<1>4. N \in T
  BY <1>0, <1>3
<1> QED
  BY <1>4 DEF Walked

(* A walk along names goes down at each. *)
LEMMA WalkDown ==
  ASSUME NEW S, NEW from \in Seq(S), NEW parts \in Seq(S),
         \A i \in 1..Len(parts) : parts[i] \notin Skipped \cup {".."}
  PROVE  Walked(from, parts) = from \o parts
<1> DEFINE N == Len(parts)
           T == {i \in 0..N : Walk(from, parts)[i] = from \o SubSeq(parts, 1, i)}
<1>0. N \in Nat
  OBVIOUS
<1>1. 0 \in T
  <2>1. Walk(from, parts)[0] = from
    BY <1>0, WalkEquation
  <2>2. from \o SubSeq(parts, 1, 0) = from
    OBVIOUS
  <2> QED
    BY <1>0, <2>1, <2>2
<1>2. ASSUME NEW i \in 0..(N - 1), i \in T PROVE i + 1 \in T
  <2>1. i + 1 \in 0..N /\ i + 1 \in 1..N /\ i + 1 # 0 /\ (i + 1) - 1 = i
    BY <1>0
  <2>2. Walk(from, parts)[i + 1] = Onward(Walk(from, parts)[i], parts[i + 1])
    BY <2>1, WalkEquation
  <2>3. Walk(from, parts)[i + 1] = Append(from \o SubSeq(parts, 1, i), parts[i + 1])
    BY <1>2, <2>1, <2>2 DEF Onward
  <2>4. SubSeq(parts, 1, i + 1) = Append(SubSeq(parts, 1, i), parts[i + 1])
    BY <2>1, BeginningsGrow
  <2>5. Append(from \o SubSeq(parts, 1, i), parts[i + 1])
          = from \o Append(SubSeq(parts, 1, i), parts[i + 1])
    <3>1. SubSeq(parts, 1, i) \in Seq(S) /\ parts[i + 1] \in S
      BY <2>1, BeginningsGrow
    <3> QED
      BY <3>1
  <2> QED
    BY <2>1, <2>3, <2>4, <2>5
<1>3. \A i \in 0..N : i \in T
  <2> HIDE DEF T, N
  <2> QED
    BY <1>0, <1>1, <1>2, UpToInduction
<1>4. Walk(from, parts)[N] = from \o SubSeq(parts, 1, N)
  BY <1>0, <1>3
<1>5. SubSeq(parts, 1, N) = parts
  OBVIOUS
<1> QED
  BY <1>4, <1>5 DEF Walked

(***************************************************************************)
(* RelativeWithinRoot                                                      *)
(***************************************************************************)

(* What is left below a prefix. *)
LEMMA BelowType ==
  ASSUME NEW S, NEW parts \in Seq(S), NEW top \in Seq(S), IsPrefix(top, parts)
  PROVE  Below(parts, top) \in Seq(S)
BY DEF Below, IsPrefix

(* A path below a directory is that directory and what is left. *)
LEMMA BelowJoins ==
  ASSUME NEW S, NEW top \in Seq(S), NEW rest \in Seq(S)
  PROVE  IsPrefix(top, top \o rest) /\ Below(top \o rest, top) = rest
BY DEF Below, IsPrefix

(* What a save_as is taken for is made of what it consists of. *)
LEMMA CandidateType ==
  ASSUME NEW text \in Seq(Segments), NEW root, NEW real,
         root.parts \in Seq(Segments), real \in Seq(Segments)
  PROVE  Candidate(text, root, real)
           \in Seq({text[i] : i \in 1..Len(text)} \ Skipped)
<1> DEFINE R == {text[i] : i \in 1..Len(text)} \ Skipped
<1>1. Components(text) \in Seq(R)
  BY ComponentsType
<1>2. ASSUME NEW top \in Seq(Segments), IsPrefix(top, Components(text))
      PROVE  Below(Components(text), top) \in Seq(R)
  <2> HIDE DEF R
  <2> QED
    BY <1>1, <1>2 DEF Below, IsPrefix
<1>3. None \in Seq(R)
  BY DEF None
<1> HIDE DEF R
<1>4. Candidate(text, root, real) \in Seq(R)
  BY <1>1, <1>2, <1>3 DEF Candidate
<1> QED
  BY <1>4 DEF R

(* Whatever the save_as, what it names is a few names, the last of which ends in
   "png". *)
LEMMA RelativeNames ==
  ASSUME NEW saveAs \in Seq(Segments), NEW root, NEW real,
         root.parts \in Seq(Segments), real \in Seq(Segments),
         RelativeWithinRoot(saveAs, root, real) # None
  PROVE  LET names == RelativeWithinRoot(saveAs, root, real) IN
         /\ names \in Seq(Names)
         /\ Len(names) \in 1..MaxPathComponents
         /\ Last(names) \in PngNames
<1> DEFINE text == Trim(saveAs)
           parts == Candidate(text, root, real)
           R == {text[i] : i \in 1..Len(text)} \ Skipped
<1>1. text \in Seq(Segments)
  BY SegmentsAssumption DEF Trim
<1>2. parts \in Seq(R)
  <2> HIDE DEF text
  <2> QED
    BY <1>1, CandidateType
<1>3. Acceptable(text, parts) /\ RelativeWithinRoot(saveAs, root, real) = parts
  BY DEF RelativeWithinRoot
<1>4. R \subseteq Parts /\ Nul \notin R
  <2> HIDE DEF text
  <2> QED
    BY <1>1, <1>3 DEF Acceptable, Contains, Parts
<1> HIDE DEF text, parts, R
<1>5. \A i \in 1..Len(parts) : parts[i] \in Names
  BY <1>2, <1>3, <1>4 DEF Acceptable, Contains, Names
<1>6. parts \in Seq(Names)
  BY <1>2, <1>5
<1>7. Len(parts) \in 1..MaxPathComponents
  BY <1>2, <1>3, SegmentsAssumption DEF Acceptable, None
<1> QED
  BY <1>3, <1>6, <1>7 DEF Acceptable

(* The path of a reply is the save_as of the same file, if the directory as
   configured is no longer and no shorter than it is as resolved wherever the
   path could be below either. *)
LEMMA ReadsBack ==
  ASSUME NEW root, root.parts \in Seq(Segments),
         NEW real \in Seq(Names), real # None,
         NEW names \in Seq(Names), Len(names) \in 1..MaxPathComponents,
         Last(names) \in PngNames,
         (root.abs /\ IsPrefix(root.parts, real \o names))
           => Len(root.parts) = Len(real)
  PROVE  RelativeWithinRoot(<<NoPart>> \o (real \o names), root, real) = names
<1> DEFINE path == real \o names
           text == <<NoPart>> \o path
<1>1. /\ path \in Seq(Names) /\ path \in Seq(Parts)
      /\ Len(path) = Len(real) + Len(names) /\ Len(path) \in Nat \ {0}
      /\ Last(path) = Last(names)
  BY SegmentsAssumption DEF Names, Last
<1> HIDE DEF path
<1>2. /\ text \in Seq(Segments) /\ Len(text) = Len(path) + 1
      /\ text[1] = NoPart /\ \A i \in 1..Len(path) : text[i + 1] = path[i]
  <2>1. <<NoPart>> \in Seq(Segments) /\ path \in Seq(Segments)
    BY <1>1, SegmentsAssumption DEF Parts
  <2>2. \A i \in 1..Len(path) : text[i + 1] = path[i]
    BY <2>1
  <2> QED
    BY <2>1, <2>2
<1>3. Components(text) = path
  BY <1>1, ComponentsOfPath
<1> HIDE DEF text
<1>4. Last(text) = Last(names)
  BY <1>1, <1>2 DEF Last
<1>5. Trim(text) = text
  <2>1. text[Len(text)] # Blank
    BY <1>4, SegmentsAssumption DEF Last
  <2>2. \A i \in 1..Len(text) : Trim(text)[i] = text[i]
    BY <1>2, <2>1 DEF Trim
  <2> QED
    BY <1>2, <2>2 DEF Trim
<1>6. IsAbsolute(text)
  BY <1>1, <1>2 DEF IsAbsolute
<1>7. IsPrefix(real, path) /\ Below(path, real) = names
  BY BelowJoins DEF path
<1>8. Candidate(text, root, real) = names
  <2>1. CASE root.abs /\ IsPrefix(root.parts, path)
    <3>1. Len(root.parts) = Len(real)
      BY <2>1 DEF path
    <3>2. Below(path, root.parts) = names
      BY <1>7, <3>1 DEF Below
    <3> QED
      BY <1>3, <1>6, <2>1, <3>2 DEF Candidate
  <2>2. CASE ~(root.abs /\ IsPrefix(root.parts, path))
    BY <1>3, <1>6, <1>7, <2>2 DEF Candidate
  <2> QED
    BY <2>1, <2>2
<1>9. ~Contains(text, Nul)
  <2> SUFFICES ASSUME NEW i \in 1..Len(text), text[i] = Nul PROVE FALSE
    BY DEF Contains
  <2>1. CASE i = 1
    <3>1. NoPart # Nul
      BY DEF NoPart, Nul
    <3> QED
      BY <1>2, <2>1, <3>1
  <2>2. CASE i # 1
    <3>1. i - 1 \in 1..Len(path) /\ text[(i - 1) + 1] = path[i - 1] /\ (i - 1) + 1 = i
      BY <1>1, <1>2, <2>2
    <3>2. path[i - 1] \in Names
      BY <1>1, <3>1
    <3> QED
      BY <3>1, <3>2 DEF Names
  <2> QED
    BY <2>1, <2>2
<1>10. ~Contains(names, "..") /\ names # None
  BY DEF Contains, Names, None
<1>11. Acceptable(text, names)
  BY <1>4, <1>9, <1>10 DEF Acceptable
<1>12. RelativeWithinRoot(text, root, real) = names
  BY <1>5, <1>8, <1>11 DEF RelativeWithinRoot
<1> QED
  BY <1>12 DEF text, path
=============================================================================

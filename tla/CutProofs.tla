------------------------------- MODULE CutProofs -------------------------------
(***************************************************************************)
(* What Reply satisfies of its text, for every text, token and length of   *)
(* chunk: the types of the worker's locals, and that what is spoken is cut *)
(* from the text alone.                                                    *)
(*                                                                         *)
(* Cuts is a recursive function, and what it computes for every buffer is  *)
(* an induction on what is left of the buffer.  It is made here by the     *)
(* least counterexample, which a set of naturals has by WFMin.             *)
(***************************************************************************)
EXTENDS ReplyProofs, WellFoundedInduction

---------------------------------------------------------------------------
(* Least and greatest numbers. *)

\* A nonempty set of naturals has a least one: the intervals from 0 to those of
\* its members that are at most n are finite sets, and inclusion is well
\* founded on them.
LEMMA LeastNumber ==
    ASSUME NEW T \in SUBSET Nat, T # {}
    PROVE  \E n \in T : \A m \in T : n <= m
<1>1. PICK n \in T : TRUE
  OBVIOUS
<1> DEFINE S == 0 .. n
           F == {0 .. m : m \in {k \in T : k <= n}}
<1>2. IsFiniteSet(S)
  BY <1>1, FS_Interval
<1>3. IsWellFoundedOn(StrictSubsetOrdering(S), FiniteSubsetsOf(S))
  BY FS_StrictSubsetOrderingWellFounded
<1>4. FiniteSubsetsOf(S) = SUBSET S
  BY <1>2, FS_FiniteSubsetsOfFinite
<1>5. F \subseteq FiniteSubsetsOf(S)
  <2>1. \A m \in T : m <= n => 0 .. m \subseteq 0 .. n
    BY <1>1, SMT
  <2> QED BY <2>1, <1>4
<1>6. F # {}
  BY <1>1, SMT
<1> HIDE DEF F
<1>7. PICK x \in F : \A y \in F : ~(<<y, x>> \in StrictSubsetOrdering(S))
  BY <1>3, <1>5, <1>6, WFMin
<1>8. PICK m \in T : m <= n /\ x = 0 .. m
  BY DEF F
<1>9. ASSUME NEW k \in T PROVE m <= k
  <2> SUFFICES ASSUME k < m PROVE FALSE
    BY <1>8, SMT
  <2>1. 0 .. k \in F
    BY <1>8, <1>1, SMT DEF F
  <2>2. 0 .. k \subseteq 0 .. m /\ m \in 0 .. m /\ m \notin 0 .. k
    BY SMT
  <2>3. 0 .. k \in SUBSET S /\ 0 .. m \in SUBSET S
    BY <1>8, <1>1, SMT
  <2> HIDE DEF S
  <2>4. 0 .. k # 0 .. m
    BY <2>2
  <2>5. <<0 .. k, 0 .. m>> \in StrictSubsetOrdering(S)
    BY <2>2, <2>3, <2>4, Zenon DEF StrictSubsetOrdering
  <2> QED BY <2>1, <2>5, <1>7, <1>8
<1> QED BY <1>8, <1>9

LEMMA GreatestNumber ==
    ASSUME NEW n \in Nat, NEW T \in SUBSET (0 .. n), T # {}
    PROVE  \E m \in T : \A k \in T : k <= m
<1> DEFINE U == {k \in 0 .. n : n - k \in T}
<1>1. U \in SUBSET Nat /\ U # {}
  <2>1. PICK m \in T : TRUE
    OBVIOUS
  <2>2. m \in 0 .. n
    BY <2>1
  <2>3. n - m \in 0 .. n /\ n - (n - m) = m
    BY <2>2, SMT
  <2>4. n - m \in U
    BY <2>1, <2>3
  <2> QED BY <2>4, SMT
<1>2. PICK u \in U : \A k \in U : u <= k
  BY <1>1, LeastNumber, Zenon
<1>3. ASSUME NEW k \in T PROVE k <= n - u
  <2>1. k \in 0 .. n
    OBVIOUS
  <2>2. n - k \in 0 .. n /\ n - (n - k) = k
    BY <2>1, SMT
  <2>3. n - k \in U
    BY <2>2
  <2>4. u \in 0 .. n /\ u <= n - k
    BY <1>2, <2>3
  <2> QED BY <2>1, <2>4, SMT
<1> QED BY <1>2, <1>3

---------------------------------------------------------------------------
(* The cuts of a buffer. *)

\* The next cut is the first ending past the least chunk, or 0 for none.
LEMMA NextCutIs ==
    ASSUME NEW q \in Seq(Char), NEW s \in 0 .. Len(q)
    PROVE  IF EndingsAfter(q, s) = {} THEN NextCut(q, s) = 0
           ELSE /\ NextCut(q, s) \in EndingsAfter(q, s)
                /\ NextCut(q, s) \in s + 1 .. Len(q)
                /\ \A i \in EndingsAfter(q, s) : NextCut(q, s) <= i
<1> DEFINE E == EndingsAfter(q, s)
<1>1. Len(q) \in Nat /\ MinChunkLength \in Nat
  BY LenProperties, ReplyAssumption
<1>2. E \subseteq s + 1 .. Len(q) /\ E \in SUBSET Nat
  BY <1>1, SMT DEF EndingsAfter
<1>3. CASE E = {}
  BY <1>3 DEF NextCut
<1>4. CASE E # {}
  <2>1. \E i \in E : \A j \in E : i <= j
    BY <1>2, <1>4, LeastNumber, Zenon
  <2>2. NextCut(q, s) = CHOOSE i \in E : \A j \in E : i <= j
    BY <1>4 DEF NextCut
  <2>3. NextCut(q, s) \in E /\ \A j \in E : NextCut(q, s) <= j
    BY <2>1, <2>2
  <2> QED BY <2>3, <1>2, <1>4
<1> QED BY <1>3, <1>4

\* One turn of the loop of _extract_sentences, with the rest of its cuts in g.
Turn(q, g, s) ==
    IF NextCut(q, s) = 0 THEN <<s>> ELSE <<s>> \o g[NextCut(q, s)]

\* Its recursion equation has a solution, from every place on.
LEMMA CutsFromExists ==
    ASSUME NEW q \in Seq(Char), NEW n \in 0 .. Len(q)
    PROVE  \E g : g = [s \in Len(q) - n .. Len(q) |-> Turn(q, g, s)]
<1> DEFINE N == Len(q)
           Solved(k) == \E g : g = [s \in N - k .. N |-> Turn(q, g, s)]
           Bad == {k \in 0 .. N : ~ Solved(k)}
<1>1. N \in Nat
  BY LenProperties
<1> SUFFICES ASSUME Bad # {} PROVE FALSE
  OBVIOUS
<1> HIDE DEF Solved
<1>2. Bad \in SUBSET Nat
  BY <1>1, SMT
<1>3. PICK k \in Bad : \A j \in Bad : k <= j
  BY <1>2, LeastNumber, Zenon
<1>4. k \in 0 .. N /\ ~ Solved(k)
  OBVIOUS
<1>5. CASE k = 0
  <2> DEFINE g == [s \in N - k .. N |-> <<s>>]
  <2>1. \A s \in N - k .. N : NextCut(q, s) = 0
    <3> SUFFICES ASSUME NEW s \in N - k .. N PROVE NextCut(q, s) = 0
      OBVIOUS
    <3>1. s = N /\ s \in 0 .. N
      BY <1>1, <1>5, SMT
    <3>2. ~ \E x : x \in s + 1 .. N
      BY <3>1, <1>1, SMT
    <3> QED BY <3>1, <3>2, NextCutIs
  <2>2. \A s \in N - k .. N : Turn(q, g, s) = <<s>>
    BY <2>1 DEF Turn
  <2>3. g = [s \in N - k .. N |-> Turn(q, g, s)]
    BY <2>2
  <2> QED BY <2>3, <1>4 DEF Solved
<1>6. CASE k # 0
  <2>1. k - 1 \in 0 .. N /\ ~(k <= k - 1)
    BY <1>1, <1>4, <1>6, SMT
  <2>2. Solved(k - 1)
    BY <2>1, <1>3
  <2>3. PICK g : g = [s \in N - (k - 1) .. N |-> Turn(q, g, s)]
    BY <2>2 DEF Solved
  <2> DEFINE h == [s \in N - k .. N |-> IF s = N - k THEN Turn(q, g, s) ELSE g[s]]
  <2>4. ASSUME NEW s \in N - k .. N PROVE Turn(q, h, s) = Turn(q, g, s)
    <3>1. s \in 0 .. N
      BY <1>1, <1>4, SMT
    <3>2. CASE NextCut(q, s) = 0
      BY <3>2 DEF Turn
    <3>3. CASE NextCut(q, s) # 0
      <4>1. NextCut(q, s) \in s + 1 .. N
        BY <3>1, <3>3, NextCutIs
      <4>2. NextCut(q, s) \in N - k .. N /\ NextCut(q, s) # N - k
        BY <4>1, <1>1, <1>4, SMT
      <4>3. h[NextCut(q, s)] = g[NextCut(q, s)]
        BY <4>2
      <4> HIDE DEF h
      <4> QED BY <4>3 DEF Turn
    <3> QED BY <3>2, <3>3
  <2>5. ASSUME NEW s \in N - k .. N PROVE h[s] = Turn(q, h, s)
    <3>1. CASE s = N - k
      <4>1. h[s] = Turn(q, g, s)
        BY <3>1
      <4> QED BY <4>1, <2>4
    <3>2. CASE s # N - k
      <4>1. s \in N - (k - 1) .. N
        BY <3>2, <1>1, <1>4, SMT
      <4>2. g[s] = Turn(q, g, s)
        BY <2>3, <4>1
      <4>3. h[s] = g[s]
        BY <3>2
      <4> QED BY <4>2, <4>3, <2>4
    <3> QED BY <3>1, <3>2
  <2>6. h = [s \in N - k .. N |-> h[s]]
    OBVIOUS
  <2> HIDE DEF h
  <2>7. [s \in N - k .. N |-> h[s]] = [s \in N - k .. N |-> Turn(q, h, s)]
    BY <2>5
  <2>8. h = [s \in N - k .. N |-> Turn(q, h, s)]
    BY <2>6, <2>7
  <2> QED BY <2>8, <1>4 DEF Solved
<1> QED BY <1>5, <1>6

\* So the recursive function is defined, and Cuts is its value at 0.
LEMMA CutsSolved ==
    ASSUME NEW q \in Seq(Char)
    PROVE  \E g : /\ g = [s \in 0 .. Len(q) |-> Turn(q, g, s)]
                  /\ Cuts(q) = g[0]
<1> DEFINE N == Len(q)
           f == CHOOSE g : g = [s \in 0 .. N |-> IF NextCut(q, s) = 0 THEN <<s>>
                                    ELSE <<s>> \o g[NextCut(q, s)]]
<1>1. N \in Nat /\ N \in 0 .. N /\ N - N = 0
  BY LenProperties, SMT
<1>2. \E g : g = [s \in N - N .. N |-> Turn(q, g, s)]
  BY <1>1, CutsFromExists
<1>3. \E g : g = [s \in 0 .. N |-> Turn(q, g, s)]
  BY <1>1, <1>2
<1>4. \E g : g = [s \in 0 .. N |-> IF NextCut(q, s) = 0 THEN <<s>>
                                   ELSE <<s>> \o g[NextCut(q, s)]]
  BY <1>3 DEF Turn
<1>5. f = [s \in 0 .. N |-> IF NextCut(q, s) = 0 THEN <<s>>
                            ELSE <<s>> \o f[NextCut(q, s)]]
  BY <1>4, Zenon
<1>6. Cuts(q) = f[0]
  BY DEF Cuts
<1> QED BY <1>5, <1>6 DEF Turn

\* A sequence of cuts of q from s on: each is the next one after the one before,
\* and after the last there is no ending left.
CutsFrom(c, q, s) ==
    /\ c \in Seq(0 .. Len(q)) /\ Len(c) \in Nat \ {0} /\ c[1] = s
    /\ \A k \in 1 .. Len(c) - 1 :
          /\ c[k + 1] \in EndingsAfter(q, c[k])
          /\ \A i \in EndingsAfter(q, c[k]) : c[k + 1] <= i
    /\ EndingsAfter(q, c[Len(c)]) = {}

LEMMA CutsAre ==
    ASSUME NEW q \in Seq(Char)
    PROVE  CutsFrom(Cuts(q), q, 0)
<1>1. PICK g : g = [s \in 0 .. Len(q) |-> Turn(q, g, s)] /\ Cuts(q) = g[0]
  BY CutsSolved
<1> DEFINE N == Len(q)
           Right(k) == CutsFrom(g[N - k], q, N - k)
           Bad == {k \in 0 .. N : ~ Right(k)}
<1>2. N \in Nat
  BY LenProperties
<1>3. ASSUME Bad # {} PROVE FALSE
  <2> HIDE DEF Right
  <2>1. Bad \in SUBSET Nat
    BY <1>2, SMT
  <2>2. PICK k \in Bad : \A j \in Bad : k <= j
    BY <2>1, <1>3, LeastNumber, Zenon
  <2>3. k \in 0 .. N /\ ~ Right(k)
    OBVIOUS
  <2> DEFINE s == N - k
  <2>4. s \in 0 .. N
    BY <2>3, <1>2, SMT
  <2>5. g[s] = Turn(q, g, s)
    BY <1>1, <2>4
  <2> DEFINE next == NextCut(q, s)
  <2>6. CASE EndingsAfter(q, s) = {}
    <3>1. g[s] = <<s>>
      BY <2>5, <2>6, <2>4, NextCutIs DEF Turn
    <3> HIDE DEF s
    <3>2. <<s>> \in Seq(0 .. N) /\ Len(<<s>>) = 1 /\ <<s>>[1] = s
      BY <2>4
    <3>3. \A i \in 1 .. 1 - 1 : FALSE
      BY SMT
    <3>4. CutsFrom(g[s], q, s)
      BY <3>1, <3>2, <3>3, <2>6 DEF CutsFrom
    <3> QED BY <3>4, <2>3 DEF s, Right
  <2>7. CASE EndingsAfter(q, s) # {}
    <3>1. /\ next \in EndingsAfter(q, s) /\ next \in s + 1 .. N
          /\ \A i \in EndingsAfter(q, s) : next <= i
      BY <2>7, <2>4, NextCutIs
    <3>2. next # 0
      BY <3>1, <2>4, <1>2, SMT
    <3>3. g[s] = <<s>> \o g[next]
      BY <2>5, <3>2 DEF Turn
    <3>4. N - next \in 0 .. N /\ ~(k <= N - next) /\ N - (N - next) = next
      BY <3>1, <2>3, <2>4, <1>2, SMT
    <3>5. Right(N - next)
      BY <3>4, <2>2
    <3> HIDE DEF next
    <3>6. CutsFrom(g[next], q, next)
      BY <3>4, <3>5 DEF Right
    <3> HIDE DEF s
    <3> DEFINE c == g[next]
               d == <<s>> \o c
    <3>7. /\ c \in Seq(0 .. N) /\ Len(c) \in Nat \ {0} /\ c[1] = next
          /\ \A i \in 1 .. Len(c) - 1 :
                /\ c[i + 1] \in EndingsAfter(q, c[i])
                /\ \A j \in EndingsAfter(q, c[i]) : c[i + 1] <= j
          /\ EndingsAfter(q, c[Len(c)]) = {}
      BY <3>6 DEF CutsFrom
    <3> HIDE DEF c
    <3>8. <<s>> \in Seq(0 .. N) /\ Len(<<s>>) = 1 /\ <<s>>[1] = s
      BY <2>4
    <3>9. d \in Seq(0 .. N) /\ Len(d) = Len(c) + 1 /\ d[1] = s
          /\ \A i \in 1 .. Len(c) : d[i + 1] = c[i]
      <4>1. /\ d \in Seq(0 .. N) /\ Len(d) = 1 + Len(c)
            /\ \A i \in 1 .. 1 + Len(c) :
                  d[i] = IF i <= 1 THEN <<s>>[i] ELSE c[i - 1]
        BY <3>7, <3>8, ConcatProperties
      <4> HIDE DEF d
      <4>2. Len(c) \in Nat
        BY <3>7
      <4>3. d[1] = s
        <5>1. 1 \in 1 .. 1 + Len(c) /\ 1 <= 1
          BY <4>2, SMT
        <5> QED BY <5>1, <4>1, <3>8
      <4>4. ASSUME NEW i \in 1 .. Len(c) PROVE d[i + 1] = c[i]
        <5>1. i + 1 \in 1 .. 1 + Len(c) /\ ~(i + 1 <= 1) /\ (i + 1) - 1 = i
          BY <4>2, SMT
        <5> QED BY <5>1, <4>1
      <4> QED BY <4>1, <4>2, <4>3, <4>4, SMT
    <3> HIDE DEF d
    <3>10. ASSUME NEW i \in 1 .. Len(d) - 1
           PROVE  /\ d[i + 1] \in EndingsAfter(q, d[i])
                  /\ \A j \in EndingsAfter(q, d[i]) : d[i + 1] <= j
      <4>1. CASE i = 1
        <5>1. d[i + 1] = next /\ d[i] = s
          BY <4>1, <3>7, <3>9, SMT
        <5> QED BY <5>1, <3>1 DEF next
      <4>2. CASE i # 1
        <5>1. i - 1 \in 1 .. Len(c) - 1 /\ i - 1 \in 1 .. Len(c)
              /\ i \in 1 .. Len(c) /\ (i - 1) + 1 = i
          BY <4>2, <3>9, <3>7, SMT
        <5>2. d[i + 1] = c[i] /\ d[i] = c[i - 1]
          BY <5>1, <3>9
        <5>3. c[i] \in EndingsAfter(q, c[i - 1])
              /\ \A j \in EndingsAfter(q, c[i - 1]) : c[i] <= j
          BY <5>1, <3>7
        <5> QED BY <5>2, <5>3
      <4> QED BY <4>1, <4>2
    <3>11. d[Len(d)] = c[Len(c)]
      BY <3>7, <3>9, SMT
    <3>12. CutsFrom(d, q, s)
      BY <3>7, <3>9, <3>10, <3>11, SMT DEF CutsFrom
    <3>13. g[s] = d
      BY <3>3 DEF c, d
    <3> QED BY <3>12, <3>13, <2>3 DEF s, Right
  <2> QED BY <2>6, <2>7
<1>4. N \in 0 .. N /\ N - N = 0
  BY <1>2, SMT
<1>5. Right(N)
  <2> HIDE DEF Right
  <2> QED BY <1>3, <1>4
<1> QED BY <1>1, <1>4, <1>5

---------------------------------------------------------------------------
(* Pieces of the text. *)

\* q holds the characters of t that follow its first `from`.
Piece(q, t, from) ==
    /\ q \in Seq(Char) /\ from \in Nat /\ from + Len(q) <= Len(t)
    /\ \A i \in 1 .. Len(q) : q[i] = [kind |-> t[from + i], at |-> from + i]

LEMMA PieceChars ==
    ASSUME NEW t, NEW from, NEW q, Piece(q, t, from)
    PROVE  /\ q \in Seq(Char) /\ Len(q) \in Nat
           /\ from \in Nat /\ from + Len(q) <= Len(t)
           /\ \A i \in 1 .. Len(q) : q[i].kind = t[from + i] /\ q[i].at = from + i
<1>1. /\ q \in Seq(Char) /\ from \in Nat /\ from + Len(q) <= Len(t)
      /\ \A i \in 1 .. Len(q) : q[i] = [kind |-> t[from + i], at |-> from + i]
  BY DEF Piece
<1>2. ASSUME NEW i \in 1 .. Len(q)
      PROVE  q[i].kind = t[from + i] /\ q[i].at = from + i
  <2>1. q[i] = [kind |-> t[from + i], at |-> from + i]
    BY <1>1
  <2> QED BY ONLY <2>1
<1> QED BY <1>1, <1>2, LenProperties

LEMMA PieceCut ==
    ASSUME NEW t \in Seq(Kinds), NEW from, NEW q, Piece(q, t, from),
           NEW a \in 0 .. Len(q), NEW b \in a .. Len(q)
    PROVE  /\ Piece(SubSeq(q, a + 1, b), t, from + a)
           /\ Len(SubSeq(q, a + 1, b)) = b - a
<1> DEFINE s == SubSeq(q, a + 1, b)
<1>1. /\ q \in Seq(Char) /\ from \in Nat /\ from + Len(q) <= Len(t)
      /\ \A i \in 1 .. Len(q) : q[i] = [kind |-> t[from + i], at |-> from + i]
  BY DEF Piece
<1>2. Len(q) \in Nat /\ Len(t) \in Nat /\ a \in Nat /\ b \in Nat /\ a <= b /\ b <= Len(q)
  BY <1>1, LenProperties, SMT
<1>3. \A i \in a + 1 .. b : q[i] \in Char
  <2>1. \A i \in a + 1 .. b : i \in 1 .. Len(q)
    BY <1>2, SMT
  <2> QED BY <2>1, <1>1, ElementOfSeq
<1>4. a + 1 \in Int /\ b \in Int
  BY <1>2
<1>5. /\ s \in Seq(Char)
      /\ Len(s) = IF a + 1 <= b THEN b - (a + 1) + 1 ELSE 0
      /\ \A i \in 1 .. b - (a + 1) + 1 : s[i] = q[(a + 1) + i - 1]
  BY <1>3, <1>4, SubSeqProperties
<1> HIDE DEF s
<1>6. Len(s) = b - a
  <2>1. Len(s) = IF a + 1 <= b THEN b - (a + 1) + 1 ELSE 0
    BY <1>5
  <2> QED BY <2>1, <1>2, SMT
<1>7. ASSUME NEW i \in 1 .. Len(s)
      PROVE  s[i] = [kind |-> t[(from + a) + i], at |-> (from + a) + i]
  <2>1. /\ i \in 1 .. b - (a + 1) + 1 /\ (a + 1) + i - 1 = a + i
        /\ a + i \in 1 .. Len(q) /\ from + (a + i) = (from + a) + i
    BY <1>1, <1>2, <1>6, SMT
  <2>2. s[i] = q[a + i]
    BY <1>5, <2>1
  <2> QED BY <2>1, <2>2, <1>1
<1>8. from + a \in Nat /\ (from + a) + Len(s) <= Len(t)
  BY <1>1, <1>2, <1>6, SMT
<1> QED BY <1>5, <1>6, <1>7, <1>8 DEF Piece, s

WordsUpTo(t, from, to) == {i \in from + 1 .. to : t[i] # "blank"}

\* strip() of a piece goes from its first word character to its last.
LEMMA PieceWords ==
    ASSUME NEW t \in Seq(Kinds), NEW from, NEW q, Piece(q, t, from),
           NEW W, W = WordsUpTo(t, from, from + Len(q))
    PROVE  /\ W = {} => Strip(q) = <<>>
           /\ W # {} => \E i, j \in W :
                 /\ \A l \in W : i <= l /\ l <= j
                 /\ AsSentence(q) = [first |-> i, last |-> j]
                 /\ Len(Strip(q)) = j - i + 1
<1> DEFINE inside == {i \in 1 .. Len(q) : q[i].kind # "blank"}
           least == CHOOSE i \in inside : \A j \in inside : i <= j
           greatest == CHOOSE i \in inside : \A j \in inside : j <= i
<1>1. /\ q \in Seq(Char) /\ from \in Nat /\ from + Len(q) <= Len(t)
      /\ \A i \in 1 .. Len(q) : q[i].kind = t[from + i] /\ q[i].at = from + i
  BY PieceChars
<1>2. Len(q) \in Nat /\ W = {i \in from + 1 .. from + Len(q) : t[i] # "blank"}
  BY <1>1, LenProperties DEF WordsUpTo
<1>3. Strip(q) = IF inside = {} THEN <<>> ELSE SubSeq(q, least, greatest)
  BY DEF Strip
<1>4. ASSUME NEW i \in inside PROVE from + i \in W
  <2>1. from + i \in from + 1 .. from + Len(q)
    BY <1>1, <1>2, SMT
  <2>2. q[i].kind = t[from + i]
    BY <1>1
  <2> QED BY <2>1, <2>2, <1>2
<1>5. ASSUME NEW l \in W
      PROVE  l - from \in inside /\ from + (l - from) = l /\ l \in Nat
  <2>1. l \in from + 1 .. from + Len(q) /\ t[l] # "blank"
    BY <1>2
  <2>2. l - from \in 1 .. Len(q) /\ from + (l - from) = l /\ l \in Nat
    BY <2>1, <1>1, <1>2, SMT
  <2>3. q[l - from].kind = t[l]
    BY <2>2, <1>1
  <2> QED BY <2>1, <2>2, <2>3
<1>6. CASE inside = {}
  BY <1>3, <1>5, <1>6
<1>7. CASE inside # {}
  <2>1. inside \in SUBSET Nat /\ inside \in SUBSET (0 .. Len(q))
    BY <1>2, SMT
  <2>2. \E i \in inside : \A j \in inside : i <= j
    BY <2>1, <1>7, LeastNumber, Zenon
  <2>3. \E i \in inside : \A j \in inside : j <= i
    BY <2>1, <1>2, <1>7, GreatestNumber, Zenon
  <2>4. least \in inside /\ \A j \in inside : least <= j
    BY <2>2
  <2>5. greatest \in inside /\ \A j \in inside : j <= greatest
    BY <2>3
  <2> HIDE DEF least, greatest
  <2>6. least \in 1 .. Len(q) /\ greatest \in 1 .. Len(q) /\ least <= greatest
    BY <2>4, <2>5
  <2> DEFINE s == SubSeq(q, least, greatest)
  <2>7. /\ s \in Seq(Char)
        /\ Len(s) = IF least <= greatest THEN greatest - least + 1 ELSE 0
        /\ \A i \in 1 .. greatest - least + 1 : s[i] = q[least + i - 1]
    <3>1. \A i \in least .. greatest : q[i] \in Char
      <4>1. \A i \in least .. greatest : i \in 1 .. Len(q)
        BY <2>6, <1>2, SMT
      <4> QED BY <4>1, <1>1, ElementOfSeq
    <3>2. least \in Int /\ greatest \in Int
      BY <2>6, SMT
    <3> QED BY <3>1, <3>2, SubSeqProperties
  <2> HIDE DEF s
  <2>8. Len(s) = greatest - least + 1 /\ Len(s) \in 1 .. greatest - least + 1
        /\ 1 \in 1 .. greatest - least + 1
        /\ least + 1 - 1 = least /\ least + Len(s) - 1 = greatest
    BY <2>6, <2>7, SMT
  <2>9. s[1] = q[least] /\ s[Len(s)] = q[greatest]
    BY <2>7, <2>8
  <2>10. q[least].at = from + least /\ q[greatest].at = from + greatest
    BY <2>6, <1>1
  <2>11. Strip(q) = s
    BY <1>3, <1>7 DEF s
  <2>12. AsSentence(q) = [first |-> from + least, last |-> from + greatest]
    BY <2>9, <2>10, <2>11 DEF AsSentence
  <2>13. ASSUME NEW l \in W PROVE from + least <= l /\ l <= from + greatest
    <3>1. l - from \in inside /\ l \in Nat
      BY <1>5
    <3>2. least <= l - from /\ l - from <= greatest
      BY <3>1, <2>4, <2>5
    <3>3. least \in Nat /\ greatest \in Nat /\ from \in Nat
      BY <2>6, <1>1, <1>2, SMT
    <3> QED BY ONLY <3>1, <3>2, <3>3, SMT
  <2>14. from + least \in W /\ from + greatest \in W
    BY <1>4, <2>4, <2>5
  <2>15. Len(Strip(q)) = (from + greatest) - (from + least) + 1
    BY <2>11, <2>8, <2>6, <1>1, SMT
  <2> QED BY <2>12, <2>13, <2>14, <2>15
<1> QED BY <1>6, <1>7

\* The endings of a piece are the text's.
LEMMA PieceEndings ==
    ASSUME NEW t \in Seq(Kinds), NEW from, NEW q, Piece(q, t, from),
           NEW s \in 0 .. Len(q), NEW i \in Nat
    PROVE  i \in EndingsAfter(q, s) <=>
              /\ from + i \in (from + s) + MinChunkLength + 1 .. from + Len(q)
              /\ t[from + i] = "ending"
<1>1. /\ q \in Seq(Char) /\ from \in Nat /\ from + Len(q) <= Len(t)
      /\ \A j \in 1 .. Len(q) : q[j].kind = t[from + j] /\ q[j].at = from + j
  BY PieceChars
<1>2. Len(q) \in Nat /\ MinChunkLength \in Nat
  BY <1>1, LenProperties, ReplyAssumption
<1>3. i \in s + MinChunkLength + 1 .. Len(q) =>
         i \in 1 .. Len(q) /\ q[i].kind = t[from + i]
  <2>1. i \in s + MinChunkLength + 1 .. Len(q) => i \in 1 .. Len(q)
    BY <1>2, SMT
  <2> QED BY <2>1, <1>1
<1>4. i \in s + MinChunkLength + 1 .. Len(q) <=>
         from + i \in (from + s) + MinChunkLength + 1 .. from + Len(q)
  BY <1>1, <1>2, SMT
<1> QED BY <1>3, <1>4 DEF EndingsAfter

---------------------------------------------------------------------------
(* Sentences of a text. *)

\* CutByTextAlone's operators for any text t and sentences c.
Words(t, from) == {i \in from + 1 .. Len(t) : t[i] # "blank"}
Endings(t, from) ==
    {i \in from + MinChunkLength + 1 .. Len(t) : t[i] = "ending"}
Extent(t, S) ==
    IF S = {} THEN 0
    ELSE 1 + CHOOSE d \in 0 .. Len(t) :
                 \E i, j \in S : d = j - i /\ \A l \in S : i <= l /\ l <= j
Before(c, k) == IF k = 1 THEN 0 ELSE c[k - 1].last
End(c) == Before(c, Len(c) + 1)

\* A sentence that an ending closed, and one that the stream's end did.
Whole(c, t, k) ==
    /\ IsLeast(c[k].first, Words(t, Before(c, k)))
    /\ IsLeast(c[k].last, Endings(t, Before(c, k)))
Rest(c, t, k) ==
    /\ Endings(t, Before(c, k)) = {}
    /\ IsLeast(c[k].first, Words(t, Before(c, k)))
    /\ c[k].last - c[k].first + 1 = Extent(t, Words(t, Before(c, k)))
CutUp(c, t, more) ==
    \A k \in 1 .. Len(c) : Whole(c, t, k) \/ (k = Len(c) /\ ~more /\ Rest(c, t, k))

LEMMA BeforeType ==
    ASSUME NEW c \in Seq(Sentence), NEW k \in 1 .. Len(c) + 1
    PROVE  Before(c, k) \in Nat
<1>1. Len(c) \in Nat
  BY LenProperties
<1>2. CASE k = 1
  BY <1>2 DEF Before
<1>3. CASE k # 1
  <2>1. k - 1 \in 1 .. Len(c)
    BY <1>1, <1>3, SMT
  <2>2. c[k - 1] \in Sentence
    BY <2>1, ElementOfSeq
  <2> QED BY <1>3, <2>2 DEF Before, Sentence
<1> QED BY <1>2, <1>3

\* Sentences said later move none of those before.
LEMMA BeforeStays ==
    ASSUME NEW c \in Seq(Sentence), NEW x \in Seq(Sentence)
    PROVE  /\ c \o x \in Seq(Sentence) /\ Len(c \o x) = Len(c) + Len(x)
           /\ \A k \in 1 .. Len(c) : (c \o x)[k] = c[k]
           /\ \A k \in 1 .. Len(c) + 1 : Before(c \o x, k) = Before(c, k)
           /\ \A m \in 1 .. Len(x) : (c \o x)[Len(c) + m] = x[m]
           /\ \A m \in 1 .. Len(x) : Before(c \o x, Len(c) + m + 1) = x[m].last
<1> DEFINE d == c \o x
<1>1. Len(c) \in Nat /\ Len(x) \in Nat
  BY LenProperties
<1>2. /\ d \in Seq(Sentence) /\ Len(d) = Len(c) + Len(x)
      /\ \A i \in 1 .. Len(c) + Len(x) :
            d[i] = IF i <= Len(c) THEN c[i] ELSE x[i - Len(c)]
  BY ConcatProperties
<1> HIDE DEF d
<1>3. ASSUME NEW k \in 1 .. Len(c) PROVE d[k] = c[k]
  <2>1. k \in 1 .. Len(c) + Len(x) /\ k <= Len(c)
    BY <1>1, SMT
  <2> QED BY <2>1, <1>2
<1>4. ASSUME NEW k \in 1 .. Len(c) + 1 PROVE Before(d, k) = Before(c, k)
  <2>1. CASE k = 1
    BY <2>1 DEF Before
  <2>2. CASE k # 1
    <3>1. k - 1 \in 1 .. Len(c)
      BY <2>2, <1>1, SMT
    <3> QED BY <3>1, <2>2, <1>3 DEF Before
  <2> QED BY <2>1, <2>2
<1>5. ASSUME NEW m \in 1 .. Len(x) PROVE d[Len(c) + m] = x[m]
  <2>1. Len(c) + m \in 1 .. Len(c) + Len(x) /\ ~(Len(c) + m <= Len(c))
        /\ (Len(c) + m) - Len(c) = m
    BY <1>1, SMT
  <2> QED BY <2>1, <1>2
<1>6. ASSUME NEW m \in 1 .. Len(x) PROVE Before(d, Len(c) + m + 1) = x[m].last
  <2>1. Len(c) + m + 1 # 1 /\ (Len(c) + m + 1) - 1 = Len(c) + m
    BY <1>1, SMT
  <2> QED BY <2>1, <1>5 DEF Before
<1> QED BY <1>2, <1>3, <1>4, <1>5, <1>6 DEF d

\* A sentence cut by an ending stays what it is while the text grows.
LEMMA WholeStays ==
    ASSUME NEW t \in Seq(Kinds), NEW u \in Seq(Kinds), Len(t) <= Len(u),
           \A i \in 1 .. Len(t) : u[i] = t[i],
           NEW from \in Nat, NEW S, NEW n, IsLeast(n, S),
           NEW R, \/ S = Words(t, from) /\ R = Words(u, from)
                  \/ S = Endings(t, from) /\ R = Endings(u, from)
    PROVE  IsLeast(n, R)
<1>1. Len(t) \in Nat /\ Len(u) \in Nat /\ MinChunkLength \in Nat
  BY LenProperties, ReplyAssumption
<1>2. n \in S /\ \A j \in S : n <= j
  BY DEF IsLeast
<1>3. CASE S = Words(t, from) /\ R = Words(u, from)
  <2>1. n \in from + 1 .. Len(t) /\ t[n] # "blank"
    BY <1>2, <1>3 DEF Words
  <2>2. n \in 1 .. Len(t) /\ n \in from + 1 .. Len(u)
    BY <2>1, <1>1, SMT
  <2>3. n \in R
    BY <2>1, <2>2, <1>3 DEF Words
  <2>4. ASSUME NEW j \in R PROVE n <= j
    <3>1. j \in from + 1 .. Len(u) /\ u[j] # "blank"
      BY <1>3 DEF Words
    <3>2. CASE j <= Len(t)
      <4>1. j \in 1 .. Len(t) /\ j \in from + 1 .. Len(t)
        BY <3>1, <3>2, <1>1, SMT
      <4>2. j \in S
        BY <4>1, <3>1, <1>3 DEF Words
      <4> QED BY <4>2, <1>2
    <3>3. CASE ~(j <= Len(t))
      BY <3>1, <3>3, <2>1, <1>1, SMT
    <3> QED BY <3>2, <3>3
  <2> QED BY <2>3, <2>4 DEF IsLeast
<1>4. CASE S = Endings(t, from) /\ R = Endings(u, from)
  <2>1. n \in from + MinChunkLength + 1 .. Len(t) /\ t[n] = "ending"
    BY <1>2, <1>4 DEF Endings
  <2>2. n \in 1 .. Len(t) /\ n \in from + MinChunkLength + 1 .. Len(u)
    BY <2>1, <1>1, SMT
  <2>3. n \in R
    BY <2>1, <2>2, <1>4 DEF Endings
  <2>4. ASSUME NEW j \in R PROVE n <= j
    <3>1. j \in from + MinChunkLength + 1 .. Len(u) /\ u[j] = "ending"
      BY <1>4 DEF Endings
    <3>2. CASE j <= Len(t)
      <4>1. j \in 1 .. Len(t) /\ j \in from + MinChunkLength + 1 .. Len(t)
        BY <3>1, <3>2, <1>1, SMT
      <4>2. j \in S
        BY <4>1, <3>1, <1>4 DEF Endings
      <4> QED BY <4>2, <1>2
    <3>3. CASE ~(j <= Len(t))
      BY <3>1, <3>3, <2>1, <1>1, SMT
    <3> QED BY <3>2, <3>3
  <2> QED BY <2>3, <2>4 DEF IsLeast
<1> QED BY <1>3, <1>4

\* The extent of places is from the first to the last of them.
LEMMA ExtentIs ==
    ASSUME NEW t \in Seq(Kinds), NEW S \in SUBSET (1 .. Len(t)),
           NEW i \in S, NEW j \in S, \A l \in S : i <= l /\ l <= j
    PROVE  Extent(t, S) = j - i + 1
<1> DEFINE Is(d) == \E a, b \in S : d = b - a /\ \A l \in S : a <= l /\ l <= b
<1>1. Len(t) \in Nat /\ i \in 1 .. Len(t) /\ j \in 1 .. Len(t) /\ i <= j
  BY LenProperties
<1>2. j - i \in 0 .. Len(t) /\ Is(j - i)
  BY <1>1, SMT
<1>3. ASSUME NEW d, Is(d) PROVE d = j - i
  <2>1. PICK a \in S, b \in S : d = b - a /\ \A l \in S : a <= l /\ l <= b
    BY <1>3
  <2>2. a <= i /\ i <= a /\ b <= j /\ j <= b /\ a \in 1 .. Len(t) /\ b \in 1 .. Len(t)
    BY <2>1
  <2>3. a = i /\ b = j
    BY <2>2, <1>1, SMT
  <2> QED BY <2>1, <2>3
<1> HIDE DEF Is
<1>4. (CHOOSE d \in 0 .. Len(t) : Is(d)) = j - i
  BY <1>2, <1>3
<1> DEFINE extent == CHOOSE d \in 0 .. Len(t) : Is(d)
<1>5. Extent(t, S) = 1 + extent
  BY DEF Extent, Is
<1> HIDE DEF extent
<1>6. extent = j - i
  BY <1>4 DEF extent
<1> QED BY <1>1, <1>5, <1>6, SMT

---------------------------------------------------------------------------
(* What _extract_sentences and the stream's end make of the buffer. *)

\* The sentences x cut at the places e out of the end q of a text u, whose first
\* `from` characters were cut before, are whole, and what remains of q, r, is the
\* end of u again.
CutOut(u, from, q, x, r, e) ==
    /\ x \in Seq(Sentence) /\ Len(x) = Len(e) - 1 /\ Len(e) \in Nat \ {0}
    /\ e[1] = 0 /\ \A m \in 1 .. Len(e) : e[m] \in 0 .. Len(q)
    /\ \A m \in 1 .. Len(x) :
          /\ IsLeast(x[m].first, Words(u, from + e[m]))
          /\ IsLeast(x[m].last, Endings(u, from + e[m]))
          /\ x[m].last = from + e[m + 1]
    /\ Piece(r, u, from + e[Len(e)]) /\ (from + e[Len(e)]) + Len(r) = Len(u)
    /\ Endings(u, from + e[Len(e)]) = {}

LEMMA ExtractedAre ==
    ASSUME NEW u \in Seq(Kinds), NEW from, NEW q, Piece(q, u, from),
           from + Len(q) = Len(u)
    PROVE  CutOut(u, from, q, Extracted(q), Remaining(q), Cuts(q))
<1> DEFINE x == Extracted(q)
           r == Remaining(q)
           e == Cuts(q)
<1> HIDE DEF x, r, e
<1>1. q \in Seq(Char) /\ Len(q) \in Nat /\ from \in Nat
  BY PieceChars
<1>2. CutsFrom(e, q, 0)
  BY <1>1, CutsAre DEF e
<1>3. /\ e \in Seq(0 .. Len(q)) /\ Len(e) \in Nat \ {0} /\ e[1] = 0
      /\ \A k \in 1 .. Len(e) - 1 :
            /\ e[k + 1] \in EndingsAfter(q, e[k])
            /\ \A i \in EndingsAfter(q, e[k]) : e[k + 1] <= i
      /\ EndingsAfter(q, e[Len(e)]) = {}
  BY <1>2 DEF CutsFrom
<1>4. \A m \in 1 .. Len(e) : e[m] \in 0 .. Len(q)
  BY <1>3, ElementOfSeq
<1>5. MinChunkLength \in Nat /\ Len(u) \in Nat
  BY ReplyAssumption, LenProperties
<1>6. \A s \in 0 .. Len(q), i \in Nat :
         i \in EndingsAfter(q, s) <=> from + i \in Endings(u, from + s)
  <2> SUFFICES ASSUME NEW s \in 0 .. Len(q), NEW i \in Nat
               PROVE  i \in EndingsAfter(q, s) <=> from + i \in Endings(u, from + s)
    OBVIOUS
  <2> QED BY PieceEndings DEF Endings
<1>7. \A s \in 0 .. Len(q) : \A j \in Endings(u, from + s) :
         j - from \in Nat /\ from + (j - from) = j
  <2> SUFFICES ASSUME NEW s \in 0 .. Len(q), NEW j \in Endings(u, from + s)
               PROVE  j - from \in Nat /\ from + (j - from) = j
    OBVIOUS
  <2>1. j \in (from + s) + MinChunkLength + 1 .. Len(u)
    BY DEF Endings
  <2> QED BY <2>1, <1>1, <1>5, SMT
<1>8. x = [k \in 1 .. Len(e) - 1 |->
              AsSentence(SubSeq(q, e[k] + 1, e[k + 1]))]
  BY DEF Extracted, x, e
<1>9. ASSUME NEW m \in 1 .. Len(e) - 1,
             NEW z, z = AsSentence(SubSeq(q, e[m] + 1, e[m + 1]))
      PROVE  /\ z \in Sentence
             /\ IsLeast(z.first, Words(u, from + e[m]))
             /\ IsLeast(z.last, Endings(u, from + e[m]))
             /\ z.last = from + e[m + 1]
  <2> DEFINE a == e[m]
             b == e[m + 1]
             w == SubSeq(q, a + 1, b)
             base == from + a
             W == WordsUpTo(u, base, base + Len(w))
  <2>1. m \in 1 .. Len(e) /\ m + 1 \in 1 .. Len(e)
    BY <1>3, SMT
  <2>2. a \in 0 .. Len(q) /\ b \in 0 .. Len(q)
    BY <2>1, <1>4
  <2>3. b \in EndingsAfter(q, a) /\ \A i \in EndingsAfter(q, a) : b <= i
    BY <1>3
  <2> HIDE DEF a, b
  <2>4. from + b \in Endings(u, base)
    BY <2>2, <2>3, <1>6, SMT
  <2>5. from + b \in base + MinChunkLength + 1 .. Len(u) /\ u[from + b] = "ending"
    BY <2>4 DEF Endings
  <2>6. b \in a .. Len(q) /\ a \in Nat /\ b \in Nat /\ base \in Nat /\ a < b
    BY <2>2, <2>5, <1>1, <1>5, SMT
  <2>7. Piece(w, u, base) /\ Len(w) = b - a
    BY <2>2, <2>6, PieceCut
  <2> HIDE DEF w
  <2>8. base + Len(w) = from + b
    BY <2>6, <2>7, <1>1, SMT
  <2>9. from + b \in W
    <3>1. from + b \in base + 1 .. base + Len(w)
      BY <2>6, <2>8, <1>1, SMT
    <3> QED BY <3>1, <2>5 DEF WordsUpTo
  <2>10. PICK i \in W, j \in W :
             /\ \A l \in W : i <= l /\ l <= j
             /\ AsSentence(w) = [first |-> i, last |-> j]
    <3>1. W = WordsUpTo(u, base, base + Len(w)) /\ W # {}
      BY <2>9
    <3> HIDE DEF W, base
    <3> QED BY <2>7, <3>1, PieceWords
  <2>11. i \in base + 1 .. base + Len(w) /\ j \in base + 1 .. base + Len(w)
         /\ u[i] # "blank"
    BY DEF WordsUpTo
  <2>12. j = from + b
    BY <2>8, <2>9, <2>10, <2>11, <2>6, <1>1, SMT
  <2>13. z = [first |-> i, last |-> j]
    BY <1>9, <2>10 DEF w, a, b
  <2>14. z \in Sentence
    <3>1. i \in Nat \ {0} /\ j \in Nat \ {0}
      BY <2>11, <2>8, <2>6, <1>1, SMT
    <3> QED BY <3>1, <2>13 DEF Sentence
  <2>15. IsLeast(i, Words(u, base))
    <3>1. from + b <= Len(u) /\ i \in base + 1 .. Len(u) /\ u[i] # "blank"
      BY <2>5, <2>8, <2>11, <2>6, <1>1, <1>5, SMT
    <3>2. ASSUME NEW l \in Words(u, base) PROVE i <= l
      <4>1. l \in base + 1 .. Len(u) /\ u[l] # "blank"
        BY DEF Words
      <4>2. CASE l <= base + Len(w)
        <5>1. l \in base + 1 .. base + Len(w)
          BY <4>1, <4>2, <2>8, <2>6, <1>1, SMT
        <5> QED BY <5>1, <4>1, <2>10 DEF WordsUpTo
      <4>3. CASE ~(l <= base + Len(w))
        BY <4>1, <4>3, <2>11, <2>8, <2>6, <1>1, SMT
      <4> QED BY <4>2, <4>3
    <3> QED BY <3>1, <3>2 DEF IsLeast, Words
  <2>16. IsLeast(j, Endings(u, base))
    <3>1. ASSUME NEW l \in Endings(u, base) PROVE j <= l
      <4>1. l - from \in Nat /\ from + (l - from) = l
        BY <2>2, <1>7
      <4>2. l - from \in EndingsAfter(q, a)
        BY <4>1, <2>2, <1>6
      <4>3. b <= l - from
        BY <4>2, <2>3
      <4> QED BY <4>1, <4>3, <2>12, <2>6, <1>1, SMT
    <3> QED BY <3>1, <2>4, <2>12 DEF IsLeast
  <2> QED BY <2>12, <2>13, <2>14, <2>15, <2>16 DEF a, b
<1>10. Len(e) - 1 \in Nat
  BY <1>3, SMT
<1>11. x \in Seq(Sentence) /\ Len(x) = Len(e) - 1
       /\ \A m \in 1 .. Len(e) - 1 : x[m] = AsSentence(SubSeq(q, e[m] + 1, e[m + 1]))
  <2>1. \A m \in 1 .. Len(e) - 1 :
            AsSentence(SubSeq(q, e[m] + 1, e[m + 1])) \in Sentence
    BY <1>9
  <2>2. x \in [1 .. Len(e) - 1 -> Sentence]
    BY <2>1, <1>8
  <2>3. x \in Seq(Sentence)
    BY <2>2, <1>10, SeqDef
  <2>4. DOMAIN x = 1 .. Len(e) - 1 /\ DOMAIN x = 1 .. Len(x) /\ Len(x) \in Nat
    BY <2>2, <2>3, LenProperties
  <2>5. Len(x) = Len(e) - 1
    BY <2>4, <1>10, SMT
  <2> QED BY <2>3, <2>5, <1>8
<1>12. \A m \in 1 .. Len(x) :
          /\ IsLeast(x[m].first, Words(u, from + e[m]))
          /\ IsLeast(x[m].last, Endings(u, from + e[m]))
          /\ x[m].last = from + e[m + 1]
  BY <1>9, <1>11
<1> DEFINE g == e[Len(e)]
<1>13. g \in 0 .. Len(q) /\ Len(q) \in g .. Len(q)
  BY <1>1, <1>3, <1>4, SMT
<1>14. r = SubSeq(q, g + 1, Len(q))
  BY DEF Remaining, r, e
<1>15. Piece(r, u, from + g) /\ Len(r) = Len(q) - g
  BY <1>13, <1>14, PieceCut
<1>16. Endings(u, from + g) = {}
  <2>1. EndingsAfter(q, g) = {}
    BY <1>3
  <2> HIDE DEF g
  <2>2. \A j \in Endings(u, from + g) : FALSE
    BY <2>1, <1>6, <1>7, <1>13
  <2> QED BY <2>2
<1> HIDE DEF g
<1>17. (from + g) + Len(r) = Len(u)
  BY <1>1, <1>13, <1>15, SMT
<1>18. CutOut(u, from, q, x, r, e)
  BY <1>3, <1>4, <1>11, <1>12, <1>15, <1>16, <1>17 DEF g, CutOut
<1> QED BY <1>18 DEF x, r, e

\* A token lengthens text and buffer alike.
Grown(b, t, kinds) ==
    b \o [k \in 1 .. Len(kinds) |-> [kind |-> kinds[k], at |-> Len(t) + k]]
LEMMA GrownPiece ==
    ASSUME NEW t \in Seq(Kinds), NEW from, NEW b, Piece(b, t, from),
           from + Len(b) = Len(t),
           NEW n \in Nat, NEW kinds \in [1 .. n -> Kinds],
           NEW q, q = Grown(b, t, kinds)
    PROVE  /\ t \o kinds \in Seq(Kinds) /\ Len(t \o kinds) = Len(t) + n
           /\ Len(kinds) = n
           /\ \A i \in 1 .. Len(t) : (t \o kinds)[i] = t[i]
           /\ Piece(q, t \o kinds, from) /\ from + Len(q) = Len(t \o kinds)
<1> DEFINE u == t \o kinds
           y == [k \in 1 .. Len(kinds) |-> [kind |-> kinds[k], at |-> Len(t) + k]]
<1>1. /\ b \in Seq(Char) /\ from \in Nat /\ from + Len(b) <= Len(t)
      /\ \A i \in 1 .. Len(b) : b[i] = [kind |-> t[from + i], at |-> from + i]
  BY DEF Piece
<1>2. Len(b) \in Nat /\ Len(t) \in Nat /\ from \in Nat /\ from + Len(b) = Len(t)
  BY <1>1, LenProperties
<1>3. kinds \in Seq(Kinds) /\ Len(kinds) = n
  <2>1. kinds \in Seq(Kinds)
    BY SeqDef
  <2>2. DOMAIN kinds = 1 .. n /\ DOMAIN kinds = 1 .. Len(kinds) /\ Len(kinds) \in Nat
    BY <2>1, LenProperties
  <2> QED BY <2>1, <2>2, SMT
<1>4. /\ u \in Seq(Kinds) /\ Len(u) = Len(t) + n
      /\ \A i \in 1 .. Len(t) + n : u[i] = IF i <= Len(t) THEN t[i] ELSE kinds[i - Len(t)]
  BY <1>3, ConcatProperties
<1>5. y \in Seq(Char) /\ Len(y) = n
      /\ \A k \in 1 .. n : y[k] = [kind |-> kinds[k], at |-> Len(t) + k]
  <2>1. \A k \in 1 .. n : [kind |-> kinds[k], at |-> Len(t) + k] \in Char
    <3> SUFFICES ASSUME NEW k \in 1 .. n
                 PROVE  [kind |-> kinds[k], at |-> Len(t) + k] \in Char
      OBVIOUS
    <3>1. kinds[k] \in Kinds /\ Len(t) + k \in Nat \ {0}
      BY <1>2, SMT
    <3> QED BY <3>1 DEF Char
  <2>2. y \in [1 .. n -> Char]
    BY <2>1, <1>3
  <2>3. y \in Seq(Char)
    BY <2>2, SeqDef
  <2>4. DOMAIN y = 1 .. n /\ DOMAIN y = 1 .. Len(y) /\ Len(y) \in Nat
    BY <2>2, <2>3, LenProperties
  <2>5. Len(y) = n
    BY <2>4, SMT
  <2> QED BY <2>3, <2>5, <1>3
<1> HIDE DEF u, y
<1>6. q = b \o y
  BY DEF y, Grown
<1>7. /\ q \in Seq(Char) /\ Len(q) = Len(b) + n
      /\ \A i \in 1 .. Len(b) + n : q[i] = IF i <= Len(b) THEN b[i] ELSE y[i - Len(b)]
  BY <1>1, <1>5, <1>6, ConcatProperties
<1>8. ASSUME NEW i \in 1 .. Len(t) PROVE u[i] = t[i]
  <2>1. i \in 1 .. Len(t) + n /\ i <= Len(t)
    BY <1>2, SMT
  <2> QED BY <2>1, <1>4
<1>9. ASSUME NEW i \in 1 .. Len(q) PROVE q[i] = [kind |-> u[from + i], at |-> from + i]
  <2>1. CASE i <= Len(b)
    <3>1. i \in 1 .. Len(b) /\ i \in 1 .. Len(b) + n /\ from + i \in 1 .. Len(t)
      BY <2>1, <1>1, <1>2, <1>7, SMT
    <3> QED BY <3>1, <2>1, <1>1, <1>7, <1>8
  <2>2. CASE ~(i <= Len(b))
    <3>1. /\ i \in 1 .. Len(b) + n /\ i - Len(b) \in 1 .. n
          /\ from + i \in 1 .. Len(t) + n /\ ~(from + i <= Len(t))
          /\ (from + i) - Len(t) = i - Len(b) /\ Len(t) + (i - Len(b)) = from + i
      <4>1. i \in 1 .. Len(b) + n
        BY <1>7
      <4> QED BY ONLY <4>1, <2>2, <1>2, n \in Nat, SMT
    <3>2. q[i] = y[i - Len(b)]
      BY <3>1, <2>2, <1>7
    <3>3. y[i - Len(b)] = [kind |-> kinds[i - Len(b)], at |-> Len(t) + (i - Len(b))]
      BY <3>1, <1>5
    <3>4. u[from + i] = kinds[i - Len(b)]
      BY <3>1, <1>4
    <3> QED BY <3>1, <3>2, <3>3, <3>4
  <2> QED BY <2>1, <2>2
<1>10. from + Len(q) = Len(u)
  <2>1. Len(q) = Len(b) + n /\ Len(u) = Len(t) + n
    BY <1>4, <1>7
  <2> QED BY ONLY <2>1, <1>2, n \in Nat, SMT
<1>11. Piece(q, u, from)
  BY <1>1, <1>7, <1>9, <1>10, <1>2, SMT DEF Piece
<1> QED BY <1>3, <1>4, <1>8, <1>10, <1>11 DEF u

\* What a token adds to the sentences are whole ones, and it changes none.
LEMMA TokenCuts ==
    ASSUME NEW t \in Seq(Kinds), NEW u \in Seq(Kinds), Len(t) <= Len(u),
           \A i \in 1 .. Len(t) : u[i] = t[i],
           NEW c \in Seq(Sentence), CutUp(c, t, TRUE),
           NEW q, Piece(q, u, End(c)), End(c) + Len(q) = Len(u),
           NEW x, x = Extracted(q), NEW r, r = Remaining(q)
    PROVE  /\ x \in Seq(Sentence) /\ CutUp(c \o x, u, TRUE)
           /\ Piece(r, u, End(c \o x)) /\ End(c \o x) + Len(r) = Len(u)
           /\ Endings(u, End(c \o x)) = {}
<1> DEFINE e == Cuts(q)
           d == c \o x
           from == End(c)
<1>1. /\ x \in Seq(Sentence) /\ Len(x) = Len(e) - 1 /\ Len(e) \in Nat \ {0}
      /\ e[1] = 0 /\ \A m \in 1 .. Len(e) : e[m] \in 0 .. Len(q)
      /\ \A m \in 1 .. Len(x) :
            /\ IsLeast(x[m].first, Words(u, from + e[m]))
            /\ IsLeast(x[m].last, Endings(u, from + e[m]))
            /\ x[m].last = from + e[m + 1]
      /\ Piece(r, u, from + e[Len(e)]) /\ (from + e[Len(e)]) + Len(r) = Len(u)
      /\ Endings(u, from + e[Len(e)]) = {}
  <2>1. CutOut(u, from, q, x, r, e)
    BY ExtractedAre
  <2> QED BY <2>1 DEF CutOut
<1>2. Len(c) \in Nat /\ Len(x) \in Nat /\ from \in Nat
  <2>1. Len(c) \in Nat
    BY LenProperties
  <2>2. Len(c) + 1 \in 1 .. Len(c) + 1
    BY <2>1, SMT
  <2> QED BY <1>1, <2>1, <2>2, LenProperties, BeforeType DEF End
<1> HIDE DEF e
<1>3. /\ d \in Seq(Sentence) /\ Len(d) = Len(c) + Len(x)
      /\ \A k \in 1 .. Len(c) : d[k] = c[k]
      /\ \A k \in 1 .. Len(c) + 1 : Before(d, k) = Before(c, k)
      /\ \A m \in 1 .. Len(x) : d[Len(c) + m] = x[m]
      /\ \A m \in 1 .. Len(x) : Before(d, Len(c) + m + 1) = x[m].last
  BY <1>1, BeforeStays
<1> HIDE DEF d
<1>4. ASSUME NEW m \in 1 .. Len(e) PROVE Before(d, Len(c) + m) = from + e[m]
  <2>1. CASE m = 1
    <3>1. Len(c) + 1 \in 1 .. Len(c) + 1
      BY <1>2, SMT
    <3>2. Before(d, Len(c) + 1) = from
      BY <3>1, <1>3 DEF End
    <3>3. from + 0 = from
      BY <1>2, SMT
    <3> HIDE DEF from
    <3> QED BY <3>2, <3>3, <2>1, <1>1
  <2>2. CASE m # 1
    <3>1. m - 1 \in 1 .. Len(x) /\ Len(c) + (m - 1) + 1 = Len(c) + m /\ (m - 1) + 1 = m
      BY <2>2, <1>1, <1>2, SMT
    <3>2. Before(d, Len(c) + (m - 1) + 1) = x[m - 1].last
      BY <3>1, <1>3
    <3>3. x[m - 1].last = from + e[(m - 1) + 1]
      BY <3>1, <1>1
    <3> QED BY <3>1, <3>2, <3>3
  <2> QED BY <2>1, <2>2
<1>5. ASSUME NEW k \in 1 .. Len(d) PROVE Whole(d, u, k)
  <2>1. CASE k <= Len(c)
    <3>1. k \in 1 .. Len(c) /\ k \in 1 .. Len(c) + 1
      BY <2>1, <1>2, <1>3, SMT
    <3>2. Whole(c, t, k)
      BY <3>1 DEF CutUp
    <3>3. d[k] = c[k] /\ Before(d, k) = Before(c, k) /\ Before(c, k) \in Nat
      BY <3>1, <1>3, BeforeType
    <3>4. IsLeast(c[k].first, Words(t, Before(c, k)))
          /\ IsLeast(c[k].last, Endings(t, Before(c, k)))
      BY <3>2 DEF Whole
    <3> DEFINE start == Before(c, k)
    <3>5. start \in Nat
      BY <3>3
    <3>6. IsLeast(c[k].first, Words(u, start)) /\ IsLeast(c[k].last, Endings(u, start))
      <4>1. IsLeast(c[k].first, Words(t, start)) /\ IsLeast(c[k].last, Endings(t, start))
        BY <3>4
      <4> HIDE DEF start
      <4>2. IsLeast(c[k].first, Words(u, start))
        BY <3>5, <4>1, WholeStays
      <4>3. IsLeast(c[k].last, Endings(u, start))
        BY <3>5, <4>1, WholeStays
      <4> QED BY <4>2, <4>3
    <3> QED BY <3>3, <3>6 DEF Whole
  <2>2. CASE ~(k <= Len(c))
    <3> DEFINE m == k - Len(c)
    <3>1. m \in 1 .. Len(x) /\ m \in 1 .. Len(e) /\ Len(c) + m = k
      <4>1. Len(x) = Len(e) - 1 /\ Len(e) \in Nat
        BY <1>1
      <4>2. k \in 1 .. Len(c) + Len(x)
        BY <1>3
      <4> QED BY ONLY <4>1, <4>2, <2>2, <1>2, SMT
    <3> HIDE DEF m
    <3>2. d[k] = x[m] /\ Before(d, k) = from + e[m]
      BY <3>1, <1>3, <1>4
    <3> QED BY <3>1, <3>2, <1>1 DEF Whole
  <2> QED BY <2>1, <2>2
<1>6. End(d) = from + e[Len(e)]
  <2>1. Len(e) \in 1 .. Len(e) /\ Len(c) + Len(e) = Len(d) + 1
    BY <1>1, <1>2, <1>3, SMT
  <2> QED BY <2>1, <1>4 DEF End
<1> QED BY <1>1, <1>5, <1>6 DEF CutUp, d

\* The stream's end says the rest of the text, or leaves what is too short.
LEMMA FlushCuts ==
    ASSUME NEW t \in Seq(Kinds), NEW c \in Seq(Sentence), CutUp(c, t, TRUE),
           NEW b, Piece(b, t, End(c)), End(c) + Len(b) = Len(t),
           Endings(t, End(c)) = {},
           NEW x, x = Flushed(b), NEW d, d = c \o x
    PROVE  /\ x \in Seq(Sentence) /\ CutUp(d, t, FALSE) /\ Endings(t, End(d)) = {}
           /\ \/ Extent(t, Words(t, End(d))) < MinChunkLength
              \/ Extent(t, Words(t, End(d))) = 0
<1> DEFINE from == End(c)
           W == Words(t, from)
<1>1. Len(c) \in Nat /\ Len(t) \in Nat /\ from \in Nat /\ MinChunkLength \in Nat
  <2>1. Len(c) \in Nat /\ Len(c) + 1 \in 1 .. Len(c) + 1
    BY LenProperties, SMT
  <2> QED BY <2>1, BeforeType, LenProperties, ReplyAssumption DEF End
<1>2. /\ W = {} => Strip(b) = <<>>
      /\ W # {} => \E i, j \in W :
            /\ \A l \in W : i <= l /\ l <= j
            /\ AsSentence(b) = [first |-> i, last |-> j]
            /\ Len(Strip(b)) = j - i + 1
  <2>1. W = WordsUpTo(t, from, from + Len(b)) /\ Piece(b, t, from)
    BY DEF Words, WordsUpTo
  <2> HIDE DEF W, from
  <2> QED BY <2>1, PieceWords
<1>3. CutUp(c, t, FALSE)
  BY DEF CutUp
<1>4. ASSUME x = <<>> PROVE d = c
  BY <1>4, ConcatEmptySeq
<1>5. CASE W = {}
  <2>1. x = <<>>
    BY <1>2, <1>5, EmptySeq DEF Flushed
  <2>2. Extent(t, W) = 0
    BY <1>5 DEF Extent
  <2> QED BY <2>1, <2>2, <1>3, <1>4, EmptySeq
<1>6. CASE W # {}
  <2>1. PICK i \in W, j \in W :
            /\ \A l \in W : i <= l /\ l <= j
            /\ AsSentence(b) = [first |-> i, last |-> j]
            /\ Len(Strip(b)) = j - i + 1
    BY <1>2, <1>6
  <2>2. W \in SUBSET (1 .. Len(t)) /\ W \in SUBSET (from + 1 .. Len(t))
    BY <1>1, SMT DEF Words
  <2>3. Extent(t, W) = j - i + 1
    <3>1. \A l \in W : i <= l /\ l <= j
      BY <2>1
    <3> HIDE DEF W
    <3> QED BY ONLY <2>2, <3>1, t \in Seq(Kinds), ExtentIs
  <2>4. i \in Nat \ {0} /\ j \in Nat \ {0} /\ i <= j /\ from < j /\ j <= Len(t)
    BY <2>1, <2>2, <1>1, SMT
  <2>5. CASE ~(Len(Strip(b)) >= MinChunkLength)
    <3>1. x = <<>>
      BY <2>5 DEF Flushed
    <3>2. Extent(t, W) < MinChunkLength
      BY <2>1, <2>3, <2>4, <2>5, <1>1, SMT
    <3> QED BY <3>1, <3>2, <1>3, <1>4, EmptySeq
  <2>6. CASE Len(Strip(b)) >= MinChunkLength
    <3> DEFINE z == [first |-> i, last |-> j]
    <3>1. Len(Strip(b)) > 0
      BY <2>1, <2>4, SMT
    <3>2. x = <<z>>
      BY <3>1, <2>1, <2>6 DEF Flushed
    <3>3. z \in Sentence /\ z.first = i /\ z.last = j
      BY <2>4 DEF Sentence
    <3> HIDE DEF z
    <3>4. x \in Seq(Sentence) /\ Len(x) = 1 /\ x[1] = z
      BY <3>2, <3>3
    <3>5. /\ Len(d) = Len(c) + Len(x)
          /\ \A k \in 1 .. Len(c) : d[k] = c[k]
          /\ \A k \in 1 .. Len(c) + 1 : Before(d, k) = Before(c, k)
          /\ \A m \in 1 .. Len(x) : d[Len(c) + m] = x[m]
          /\ \A m \in 1 .. Len(x) : Before(d, Len(c) + m + 1) = x[m].last
      <4> DEFINE y == c \o x
      <4>1. /\ Len(y) = Len(c) + Len(x)
            /\ \A k \in 1 .. Len(c) : y[k] = c[k]
            /\ \A k \in 1 .. Len(c) + 1 : Before(y, k) = Before(c, k)
            /\ \A m \in 1 .. Len(x) : y[Len(c) + m] = x[m]
            /\ \A m \in 1 .. Len(x) : Before(y, Len(c) + m + 1) = x[m].last
        BY <3>4, BeforeStays
      <4>2. d = y
        OBVIOUS
      <4> HIDE DEF y
      <4> QED BY <4>1, <4>2
    <3>6. Len(d) = Len(c) + 1 /\ 1 \in 1 .. Len(x) /\ Len(c) + 1 \in 1 .. Len(c) + 1
      BY <3>4, <3>5, <1>1, SMT
    <3>7. d[Len(d)] = z /\ End(d) = j /\ Before(d, Len(d)) = from
      <4>1. d[Len(c) + 1] = x[1] /\ Before(d, Len(c) + 1 + 1) = x[1].last
        BY <3>5, <3>6
      <4>2. Before(d, Len(c) + 1) = Before(c, Len(c) + 1)
        BY <3>5, <3>6
      <4> QED BY <4>1, <4>2, <3>3, <3>4, <3>6 DEF End
    <3>8. Endings(t, j) = {}
      <4>1. ASSUME NEW l \in Endings(t, j) PROVE FALSE
        <5>1. l \in j + MinChunkLength + 1 .. Len(t) /\ t[l] = "ending"
          BY DEF Endings
        <5>2. l \in from + MinChunkLength + 1 .. Len(t)
          BY <5>1, <2>4, <1>1, SMT
        <5>3. l \in Endings(t, from)
          BY <5>1, <5>2 DEF Endings
        <5> QED BY <5>3
      <4> QED BY <4>1
    <3>9. Words(t, j) = {}
      <4>1. ASSUME NEW l \in Words(t, j) PROVE FALSE
        <5>1. l \in j + 1 .. Len(t) /\ t[l] # "blank"
          BY DEF Words
        <5>2. l \in from + 1 .. Len(t) /\ ~(l <= j)
          BY <5>1, <2>4, <1>1, SMT
        <5>3. l \in W
          BY <5>1, <5>2 DEF Words
        <5> QED BY <5>2, <5>3, <2>1
      <4> QED BY <4>1
    <3>10. Extent(t, Words(t, j)) = 0
      BY <3>9 DEF Extent
    <3>11. Rest(d, t, Len(d))
      <4>1. IsLeast(i, W)
        BY <2>1 DEF IsLeast
      <4> QED BY <4>1, <2>3, <3>3, <3>7 DEF Rest
    <3>12. ASSUME NEW k \in 1 .. Len(d)
           PROVE  Whole(d, t, k) \/ (k = Len(d) /\ Rest(d, t, k))
      <4>1. CASE k = Len(d)
        BY <4>1, <3>11
      <4>2. CASE k # Len(d)
        <5>1. k \in 1 .. Len(c) /\ k \in 1 .. Len(c) + 1
          BY <4>2, <3>6, <1>1, SMT
        <5>2. d[k] = c[k] /\ Before(d, k) = Before(c, k)
          BY <5>1, <3>5
        <5>3. Whole(c, t, k)
          BY <5>1 DEF CutUp
        <5> QED BY <5>2, <5>3 DEF Whole
      <4> QED BY <4>1, <4>2
    <3>13. CutUp(d, t, FALSE)
      BY <3>12 DEF CutUp
    <3> QED BY <3>4, <3>7, <3>8, <3>10, <3>13
  <2> QED BY <2>5, <2>6
<1> QED BY <1>5, <1>6

---------------------------------------------------------------------------
(* The reply in progress. *)

Wordless ==
    /\ text = <<>> /\ buffer = <<>> /\ parts = <<>> /\ pending = <<>>
    /\ streaming = FALSE /\ failed = FALSE

\* What the property says, and that the generator's buffer is the text from the
\* last cut on, with no ending left at which it could be cut.
TextTypes ==
    /\ text \in Seq(Kinds) /\ buffer \in Seq(Char)
    /\ streaming \in BOOLEAN /\ failed \in BOOLEAN
    /\ parts \in Seq(Sentence \cup {ErrorReply})
    /\ pending \in Seq(Sentence \cup {ErrorReply})
Sentences ==
    /\ failed => ~streaming /\ Said # <<>> /\ Said[Len(Said)] = ErrorReply
    /\ Cut \in Seq(Sentence)
    /\ CutUp(Cut, text, streaming)
    /\ ~failed => Endings(text, End(Cut)) = {}
    /\ ~failed /\ ~streaming =>
          \/ Extent(text, Words(text, End(Cut))) < MinChunkLength
          \/ Extent(text, Words(text, End(Cut))) = 0
    /\ streaming => Piece(buffer, text, End(Cut)) /\ End(Cut) + Len(buffer) = Len(text)
TextInv ==
    /\ TextTypes /\ Sentences
    /\ worker \in {"get", "stt"} => Wordless

LEMMA EmptyText ==
    /\ <<>> \o <<>> = <<>> /\ SubSeq(<<>>, 1, Len(<<>>)) = <<>>
    /\ \A S : <<>> \in Seq(S)
    /\ \A more : CutUp(<<>>, <<>>, more)
    /\ End(<<>>) = 0 /\ Endings(<<>>, 0) = {} /\ Words(<<>>, 0) = {}
    /\ Extent(<<>>, {}) = 0 /\ Piece(<<>>, <<>>, 0) /\ 0 + Len(<<>>) = Len(<<>>)
<1>1. \A S : <<>> \in Seq(S) /\ Len(<<>>) = 0
  BY EmptySeq
<1>2. <<>> \o <<>> = <<>> /\ SubSeq(<<>>, 1, Len(<<>>)) = <<>>
  BY <1>1, ConcatEmptySeq, SubSeqEmpty, SMT
<1>3. ~ \E i : i \in 1 .. 0
  BY SMT
<1>4. MinChunkLength \in Nat
  BY ReplyAssumption
<1>5. (~ \E i : i \in 0 + MinChunkLength + 1 .. 0) /\ (~ \E i : i \in 0 + 1 .. 0)
  BY <1>4, SMT
<1>6. Endings(<<>>, 0) = {} /\ Words(<<>>, 0) = {}
  BY <1>1, <1>5 DEF Endings, Words
<1>7. \A more : CutUp(<<>>, <<>>, more)
  BY <1>1, <1>3 DEF CutUp
<1>8. End(<<>>) = 0
  <2>1. Len(<<>>) + 1 = 1
    BY <1>1, SMT
  <2> QED BY <2>1 DEF End, Before
<1>9. Piece(<<>>, <<>>, 0) /\ 0 + Len(<<>>) = Len(<<>>)
  BY <1>1, <1>3, SMT DEF Piece
<1>10. Extent(<<>>, {}) = 0
  BY DEF Extent
<1> QED BY <1>1, <1>2, <1>6, <1>7, <1>8, <1>9, <1>10

\* Of the sentences said and yet to say, none is lost when one is taken up.
LEMMA OneIsSaid ==
    ASSUME NEW S, NEW p \in Seq(S), NEW q \in Seq(S), q # <<>>
    PROVE  /\ Append(p, Head(q)) \o Tail(q) = p \o q
           /\ Append(p, Head(q)) \in Seq(S) /\ Tail(q) \in Seq(S)
<1>1. Head(q) \in S /\ Tail(q) \in Seq(S)
  BY HeadTailProperties
<1>2. Append(p, Head(q)) = p \o <<Head(q)>> /\ Append(p, Head(q)) \in Seq(S)
  BY <1>1, AppendIsConcat, AppendProperties
<1>3. <<Head(q)>> \in Seq(S)
  BY <1>1
<1>4. (p \o <<Head(q)>>) \o Tail(q) = p \o (<<Head(q)>> \o Tail(q))
  BY <1>1, <1>3, ConcatAssociative
<1>5. Len(q) \in Nat \ {0}
  BY EmptySeq
<1>6. <<Head(q)>> \o Tail(q) = q
  <2>1. 1 \in 1 .. Len(q) /\ Len(q) \in 1 .. Len(q) /\ 1 + 1 = 2
    BY <1>5, SMT
  <2>2. SubSeq(q, 1, Len(q)) = <<q[1]>> \o SubSeq(q, 1 + 1, Len(q))
    BY <2>1, SubSeqRecursiveFirst
  <2>3. SubSeq(q, 1, Len(q)) = q /\ Tail(q) = SubSeq(q, 2, Len(q))
    BY SubSeqFull, TailIsSubSeq
  <2>4. Head(q) = q[1]
    BY HeadTailProperties
  <2> QED BY <2>1, <2>2, <2>3, <2>4
<1> QED BY <1>1, <1>2, <1>4, <1>6

LEMMA WithoutLast ==
    ASSUME NEW S, NEW p \in Seq(S), NEW z,
           NEW q, q = p \o <<z>>
    PROVE  /\ q # <<>> /\ q[Len(q)] = z /\ SubSeq(q, 1, Len(q) - 1) = p
<1> DEFINE T == S \cup {z}
<1>1. p \in Seq(T) /\ <<z>> \in Seq(T) /\ Len(<<z>>) = 1 /\ <<z>>[1] = z
  BY SeqMonotonic
<1>2. Len(p) \in Nat
  BY LenProperties
<1>3. /\ q \in Seq(T) /\ Len(q) = Len(p) + 1
      /\ \A i \in 1 .. Len(p) + 1 : q[i] = IF i <= Len(p) THEN p[i] ELSE <<z>>[i - Len(p)]
  BY <1>1, ConcatProperties
<1>4. q[Len(q)] = z
  <2>1. Len(p) + 1 \in 1 .. Len(p) + 1 /\ ~(Len(p) + 1 <= Len(p)) /\ (Len(p) + 1) - Len(p) = 1
    BY <1>2, SMT
  <2> QED BY <2>1, <1>1, <1>3
<1>5. q # <<>>
  BY <1>2, <1>3, EmptySeq, SMT
<1> DEFINE r == SubSeq(q, 1, Len(q) - 1)
<1>6. Len(q) - 1 = Len(p) /\ \A i \in 1 .. Len(p) : q[i] = p[i] /\ q[i] \in T
  <2>1. Len(q) - 1 = Len(p)
    BY <1>2, <1>3, SMT
  <2>2. ASSUME NEW i \in 1 .. Len(p) PROVE q[i] = p[i] /\ q[i] \in T
    <3>1. i \in 1 .. Len(p) + 1 /\ i <= Len(p)
      BY <1>2, SMT
    <3> QED BY <3>1, <1>1, <1>3, ElementOfSeq
  <2> QED BY <2>1, <2>2
<1>7. /\ r \in Seq(T) /\ Len(r) = (IF 1 <= Len(p) THEN Len(p) - 1 + 1 ELSE 0)
      /\ \A i \in 1 .. Len(p) - 1 + 1 : r[i] = q[1 + i - 1]
  <2>1. 1 \in Int /\ Len(p) \in Int
    BY <1>2
  <2> QED BY <2>1, <1>6, SubSeqProperties
<1> HIDE DEF r
<1>8. Len(r) = Len(p)
  BY <1>2, <1>7, SMT
<1>9. ASSUME NEW i \in 1 .. Len(r) PROVE r[i] = p[i]
  <2>1. i \in 1 .. Len(p) /\ i \in 1 .. Len(p) - 1 + 1 /\ 1 + i - 1 = i
    BY <1>2, <1>8, SMT
  <2> QED BY <2>1, <1>6, <1>7
<1>10. r = p
  BY <1>1, <1>7, <1>8, <1>9, SeqEqual
<1> QED BY <1>4, <1>5, <1>10 DEF r

LEMMA TextInit == Init => TextInv
<1> SUFFICES ASSUME Init PROVE TextInv
  OBVIOUS
<1>1. Wordless
  BY DEF Init, Wordless
<1>2. Cut = <<>>
  BY <1>1, EmptyText DEF Wordless, Cut, Said
<1>3. TextTypes
  BY <1>1, EmptyText DEF Wordless, TextTypes
<1>4. Sentences
  BY <1>1, <1>2, EmptyText DEF Wordless, Sentences
<1> QED BY <1>1, <1>3, <1>4 DEF TextInv

\* Where nothing is said, or where an utterance has ended.
LEMMA WordlessNext ==
    ASSUME Wordless' PROVE TextInv'
<1>1. Cut' = <<>>
  BY EmptyText DEF Wordless, Cut, Said
<1>2. TextTypes'
  BY EmptyText DEF Wordless, TextTypes
<1>3. Sentences'
  BY <1>1, EmptyText DEF Wordless, Sentences
<1> QED BY <1>2, <1>3 DEF TextInv

LEMMA SameText ==
    ASSUME TextInv, UNCHANGED <<text, buffer, streaming, failed, parts, pending>>,
           worker' \in {"get", "stt"} => worker \in {"get", "stt"}
    PROVE  TextInv'
<1>1. Cut' = Cut /\ Said' = Said
  BY DEF Cut, Said
<1>2. TextTypes'
  BY DEF TextInv, TextTypes
<1>3. Sentences'
  BY <1>1 DEF TextInv, Sentences
<1>4. worker' \in {"get", "stt"} => Wordless'
  BY DEF TextInv, Wordless
<1> QED BY <1>2, <1>3, <1>4 DEF TextInv

\* While the stream is on and nothing is to be yielded, all that was said are
\* sentences of the text.
LEMMA SaidWhileStreaming ==
    ASSUME TextInv, streaming = TRUE, pending = <<>>
    PROVE  /\ failed = FALSE /\ parts \in Seq(Sentence) /\ CutUp(parts, text, TRUE)
           /\ Endings(text, End(parts)) = {}
           /\ Piece(buffer, text, End(parts)) /\ End(parts) + Len(buffer) = Len(text)
<1>1. TextTypes /\ Sentences /\ failed = FALSE
  BY DEF TextInv, Sentences, TextTypes
<1>2. Said = parts
  BY <1>1, ConcatEmptySeq DEF Said, TextTypes
<1>3. Cut = parts
  BY <1>1, <1>2, SubSeqFull DEF Cut, TextTypes
<1> QED BY <1>1, <1>3 DEF Sentences

LEMMA TextToken ==
    ASSUME TextInv, NEW n \in 1 .. MaxToken, NEW kinds \in [1 .. n -> Kinds],
           Token(kinds)
    PROVE  TextInv'
<1> DEFINE q == Grown(buffer, text, kinds)
           x == Extracted(q)
           r == Remaining(q)
<1>1. /\ worker = "llm" /\ pending = <<>> /\ streaming = TRUE
      /\ text' = text \o kinds /\ pending' = x /\ buffer' = r
      /\ UNCHANGED <<worker, streaming, failed, parts>>
  BY DEF Token, Resumed, TextInv, TextTypes, Grown
<1>2. /\ failed = FALSE /\ parts \in Seq(Sentence) /\ CutUp(parts, text, TRUE)
      /\ Piece(buffer, text, End(parts)) /\ End(parts) + Len(buffer) = Len(text)
  BY <1>1, SaidWhileStreaming
<1>3. text \in Seq(Kinds) /\ n \in Nat
  BY ReplyAssumption, SMT DEF TextInv, TextTypes
<1> HIDE DEF x, r
<1>4. /\ text' \in Seq(Kinds) /\ Len(text') = Len(text) + n
      /\ \A i \in 1 .. Len(text) : text'[i] = text[i]
      /\ Piece(q, text', End(parts)) /\ End(parts) + Len(q) = Len(text')
  <2> DEFINE from == End(parts)
             u == text \o kinds
  <2>1. Piece(buffer, text, from) /\ from + Len(buffer) = Len(text)
        /\ q = Grown(buffer, text, kinds)
    BY <1>2
  <2> HIDE DEF q, from
  <2>2. /\ u \in Seq(Kinds) /\ Len(u) = Len(text) + n
        /\ \A i \in 1 .. Len(text) : u[i] = text[i]
        /\ Piece(q, u, from) /\ from + Len(q) = Len(u)
    BY ONLY <2>1, <1>3, kinds \in [1 .. n -> Kinds], GrownPiece
  <2> HIDE DEF u
  <2>3. text' = u
    BY <1>1 DEF u
  <2> QED BY <2>2, <2>3 DEF from
<1>5. Len(text) <= Len(text')
  BY <1>3, <1>4, LenProperties, SMT
<1> HIDE DEF q
<1>6. /\ x \in Seq(Sentence) /\ CutUp(parts \o x, text', TRUE)
      /\ Piece(r, text', End(parts \o x)) /\ End(parts \o x) + Len(r) = Len(text')
      /\ Endings(text', End(parts \o x)) = {}
  BY <1>2, <1>3, <1>4, <1>5, TokenCuts DEF x, r
<1>7. parts \o x \in Seq(Sentence)
  BY <1>2, <1>6, ConcatProperties
<1>8. Cut' = parts \o x
  BY <1>1, <1>2, <1>7, SubSeqFull DEF Cut, Said
<1>9. Sentences'
  BY <1>1, <1>2, <1>6, <1>7, <1>8 DEF Sentences
<1>10. TextTypes'
  <2>1. x \in Seq(Sentence \cup {ErrorReply})
    BY <1>6, SeqMonotonic
  <2>2. r \in Seq(Char)
    BY <1>6 DEF Piece
  <2> QED BY <2>1, <2>2, <1>1, <1>4 DEF TextInv, TextTypes
<1> QED BY <1>1, <1>9, <1>10 DEF TextInv

LEMMA TextStreamEnds ==
    ASSUME TextInv, StreamEnds PROVE TextInv'
<1> DEFINE x == Flushed(buffer)
           d == parts \o x
<1>1. /\ worker = "llm" /\ pending = <<>> /\ streaming = TRUE
      /\ streaming' = FALSE /\ pending' = x
      /\ UNCHANGED <<worker, buffer, text, failed, parts>>
  BY DEF StreamEnds, Resumed, TextInv, TextTypes
<1>2. /\ failed = FALSE /\ parts \in Seq(Sentence) /\ CutUp(parts, text, TRUE)
      /\ Endings(text, End(parts)) = {}
      /\ Piece(buffer, text, End(parts)) /\ End(parts) + Len(buffer) = Len(text)
  BY <1>1, SaidWhileStreaming
<1>3. text \in Seq(Kinds)
  BY DEF TextInv, TextTypes
<1>4. /\ x \in Seq(Sentence) /\ CutUp(d, text, FALSE) /\ Endings(text, End(d)) = {}
      /\ \/ Extent(text, Words(text, End(d))) < MinChunkLength
         \/ Extent(text, Words(text, End(d))) = 0
  BY <1>2, <1>3, FlushCuts
<1> HIDE DEF x
<1>5. d \in Seq(Sentence)
  BY <1>2, <1>4, ConcatProperties
<1>6. Cut' = d
  BY <1>1, <1>2, <1>5, SubSeqFull DEF Cut, Said
<1> HIDE DEF d
<1>7. Sentences'
  BY <1>1, <1>2, <1>4, <1>5, <1>6 DEF Sentences
<1>8. TextTypes'
  <2>1. x \in Seq(Sentence \cup {ErrorReply})
    BY <1>4, SeqMonotonic
  <2> QED BY <2>1, <1>1 DEF TextInv, TextTypes
<1> QED BY <1>1, <1>7, <1>8 DEF TextInv

LEMMA TextStreamFails ==
    ASSUME TextInv, StreamFails PROVE TextInv'
<1>1. /\ worker = "llm" /\ pending = <<>> /\ streaming = TRUE
      /\ streaming' = FALSE /\ failed' = TRUE /\ pending' = <<ErrorReply>>
      /\ UNCHANGED <<worker, buffer, text, parts>>
  BY DEF StreamFails, Resumed, TextInv, TextTypes
<1>2. parts \in Seq(Sentence) /\ CutUp(parts, text, TRUE)
  BY <1>1, SaidWhileStreaming
<1>3. Said' = parts \o <<ErrorReply>>
  BY <1>1 DEF Said
<1>4. Said' # <<>> /\ Said'[Len(Said')] = ErrorReply
      /\ SubSeq(Said', 1, Len(Said') - 1) = parts
  BY <1>2, <1>3, WithoutLast
<1>5. Cut' = parts
  BY <1>1, <1>4 DEF Cut
<1>6. CutUp(parts, text, FALSE)
  BY <1>2 DEF CutUp
<1>7. Sentences'
  BY <1>1, <1>2, <1>4, <1>5, <1>6 DEF Sentences
<1>8. TextTypes'
  <2>1. <<ErrorReply>> \in Seq(Sentence \cup {ErrorReply})
    OBVIOUS
  <2> QED BY <2>1, <1>1 DEF TextInv, TextTypes
<1> QED BY <1>1, <1>7, <1>8 DEF TextInv

LEMMA TextSynthesize ==
    ASSUME TextInv, NEW w, Synthesize(w) PROVE TextInv'
<1>1. /\ worker = "llm" /\ pending # <<>>
      /\ parts' = Append(parts, Head(pending)) /\ pending' = Tail(pending)
      /\ worker' = "tts" /\ UNCHANGED <<buffer, streaming, text, failed>>
  BY DEF Synthesize, Yielded
<1>2. Said' = Said /\ TextTypes'
  <2>1. /\ parts' \o pending' = parts \o pending
        /\ parts' \in Seq(Sentence \cup {ErrorReply})
        /\ pending' \in Seq(Sentence \cup {ErrorReply})
    <3>1. /\ parts \in Seq(Sentence \cup {ErrorReply})
          /\ pending \in Seq(Sentence \cup {ErrorReply})
      BY DEF TextInv, TextTypes
    <3> QED BY <3>1, <1>1, OneIsSaid
  <2> QED BY <2>1, <1>1 DEF Said, TextInv, TextTypes
<1>3. Cut' = Cut
  BY <1>1, <1>2 DEF Cut
<1>4. Sentences'
  BY <1>1, <1>2, <1>3 DEF TextInv, Sentences
<1> QED BY <1>1, <1>2, <1>4 DEF TextInv

LEMMA TextStep == TextInv /\ [Next]_vars => TextInv'
<1> SUFFICES ASSUME TextInv, [Next]_vars PROVE TextInv'
  OBVIOUS
<1>1. ASSUME NEW record, Ends(record) PROVE TextInv'
  <2>1. Wordless'
    BY <1>1 DEF Ends, Wordless
  <2> QED BY <2>1, WordlessNext
<1>2. CASE Cancel
  BY <1>2, SameText DEF Cancel, llmVars
<1>3. CASE TakeUp
  BY <1>3, SameText DEF TakeUp, llmVars
<1>4. CASE MakeTempFile
  BY <1>4, SameText DEF MakeTempFile, llmVars
<1>5. CASE Transcribed
  <2>1. /\ worker' = "llm" /\ streaming' = TRUE
        /\ UNCHANGED <<text, buffer, parts, pending, failed>>
    BY <1>5 DEF Transcribed
  <2>2. Wordless
    BY <1>5 DEF Transcribed, TextInv
  <2>3. Cut' = <<>>
    BY <2>1, <2>2, EmptyText DEF Wordless, Cut, Said
  <2>4. Sentences'
    BY <2>1, <2>2, <2>3, EmptyText DEF Wordless, Sentences
  <2>5. TextTypes'
    BY <2>1 DEF TextInv, TextTypes
  <2> QED BY <2>1, <2>4, <2>5 DEF TextInv
<1>6. CASE NothingTranscribed
  BY <1>6, <1>1 DEF NothingTranscribed
<1>7. CASE TranscriptionRaises
  BY <1>7, <1>1 DEF TranscriptionRaises
<1>8. CASE \E n \in 1 .. MaxToken : \E kinds \in [1 .. n -> Kinds] : Token(kinds)
  BY <1>8, TextToken
<1>9. CASE StreamEnds
  BY <1>9, TextStreamEnds
<1>10. CASE StreamFails
  BY <1>10, TextStreamFails
<1>11. CASE StreamRaises
  BY <1>11, <1>1 DEF StreamRaises
<1>12. CASE \E w \in Synthesized : Synthesize(w)
  BY <1>12, TextSynthesize
<1>13. CASE CancelSeen
  BY <1>13, <1>1 DEF CancelSeen
<1>14. CASE NoBytes
  BY <1>14, SameText DEF NoBytes, llmVars
<1>15. CASE Unconvertible
  BY <1>15, <1>1 DEF Unconvertible
<1>16. CASE Converted
  <2>1. worker' \in {"llm", "put"}
    BY <1>16 DEF Converted
  <2> QED BY <2>1, <1>16, SameText DEF Converted, llmVars
<1>17. CASE PutSlice
  <2>1. worker' \in {"llm", "put"}
    BY <1>17 DEF PutSlice
  <2> QED BY <2>1, <1>17, SameText DEF PutSlice, llmVars
<1>18. CASE Complete
  BY <1>18, <1>1 DEF Complete
<1>19. CASE UNCHANGED vars
  BY <1>19, SameText DEF vars, llmVars
<1> QED BY <1>2, <1>3, <1>4, <1>5, <1>6, <1>7, <1>8, <1>9, <1>10, <1>11, <1>12,
           <1>13, <1>14, <1>15, <1>16, <1>17, <1>18, <1>19
        DEF Next, STT, LLM, TTS

\* What is said of a reply is cut from its text alone, whatever tokens the text
\* came in and wherever the worker is: CutByTextAlone.
THEOREM SentencesFromText == Spec => []CutByTextAlone
<1>1. TextInv => CutByTextAlone
  <2> SUFFICES ASSUME TextInv PROVE CutByTextAlone
    OBVIOUS
  <2>1. Sentences
    BY DEF TextInv
  <2>2. \A k : From(k) = Before(Cut, k)
    BY DEF From, Before
  <2>3. \A f : WordsPast(f) = Words(text, f) /\ EndingsPast(f) = Endings(text, f)
    BY DEF WordsPast, Words, EndingsPast, Endings
  <2>4. \A S : Span(S) = Extent(text, S)
    BY DEF Span, Extent
  <2>5. ASSUME NEW k \in 1 .. Len(Cut)
        PROVE  /\ IsLeast(Cut[k].first, WordsPast(From(k)))
               /\ IF k = Len(Cut) /\ ~streaming /\ EndingsPast(From(k)) = {}
                  THEN Cut[k].last - Cut[k].first + 1 = Span(WordsPast(From(k)))
                  ELSE IsLeast(Cut[k].last, EndingsPast(From(k)))
    <3>1. CASE Whole(Cut, text, k)
      <4>1. IsLeast(Cut[k].first, WordsPast(From(k)))
            /\ IsLeast(Cut[k].last, EndingsPast(From(k)))
        BY <3>1, <2>2, <2>3 DEF Whole
      <4>2. EndingsPast(From(k)) # {}
        BY <4>1 DEF IsLeast
      <4> QED BY <4>1, <4>2
    <3>2. CASE k = Len(Cut) /\ ~streaming /\ Rest(Cut, text, k)
      BY <3>2, <2>2, <2>3, <2>4 DEF Rest
    <3> QED BY <3>1, <3>2, <2>1 DEF Sentences, CutUp
  <2>6. ~failed => EndingsPast(From(Len(Cut) + 1)) = {}
    BY <2>1, <2>2, <2>3 DEF Sentences, End
  <2>7. ~failed /\ ~streaming =>
           \/ Span(WordsPast(From(Len(Cut) + 1))) < MinChunkLength
           \/ Span(WordsPast(From(Len(Cut) + 1))) = 0
    BY <2>1, <2>2, <2>3, <2>4 DEF Sentences, End
  <2> QED BY <2>1, <2>5, <2>6, <2>7 DEF CutByTextAlone, Sentences
<1> QED BY <1>1, TextInit, TextStep, PTL DEF Spec

---------------------------------------------------------------------------
(* The types. *)

\* The worker's part of TypeOK, with the bounds it comes from: an utterance is
\* in hand, a sentence counts at most once, and one in hand is in assistant_parts.
WorkTypes ==
    /\ task \in 0 .. MaxUtterances
    /\ tempFiles \subseteq Utterances /\ unremoved \subseteq Utterances
    /\ conversationHistory \in Seq(Entry) /\ answered \in Seq(Utterances)
    /\ outboundQueue \in Seq([utt : Utterances, sentence : 1 .. MaxSentences,
                              chunk : 1 .. MaxChunks])
    /\ bench \in Bench /\ benchLog \in Seq([utt : Utterances, bench : Bench])
    /\ afterCancel \subseteq Utterances \X (1 .. MaxSentences)
InProgress ==
    /\ worker # "get" => task \in Utterances
    /\ Len(parts) \in 0 .. MaxSentences
    /\ worker \in {"tts", "put"} => Len(parts) \in 1 .. MaxSentences
    /\ bench.sentences <= Len(parts)
    /\ worker = "tts" => bench.sentences < Len(parts)
WorkInv == WorkTypes /\ InProgress

LEMMA WorkInit == Init => WorkInv
<1> SUFFICES ASSUME Init PROVE WorkInv
  OBVIOUS
<1>1. Len(<<>>) = 0 /\ \A S : <<>> \in Seq(S)
  BY EmptySeq
<1>2. 0 \in 0 .. MaxUtterances /\ 0 \in 0 .. MaxSentences
  BY ReplyAssumption, SMT
<1>3. NewBench \in Bench /\ NewBench.sentences = 0
  BY <1>2 DEF NewBench, Bench
<1>4. WorkTypes
  BY <1>1, <1>2, <1>3 DEF Init, WorkTypes
<1>5. InProgress
  BY <1>1, <1>2, <1>3 DEF Init, InProgress
<1> QED BY <1>4, <1>5 DEF WorkInv

LEMMA TrimmedType ==
    ASSUME NEW h \in Seq(Entry) PROVE Trimmed(h) \in Seq(Entry)
<1> DEFINE a == IF Len(h) > HistoryMax THEN Len(h) - HistoryMax + 1 ELSE 1
<1>1. Len(h) \in Nat /\ HistoryMax \in Nat
  BY LenProperties, ReplyAssumption
<1>2. a \in Int /\ a >= 1 /\ Len(h) \in Int
  BY <1>1, SMT
<1> HIDE DEF a
<1>3. \A i \in a .. Len(h) : h[i] \in Entry
  <2>1. \A i \in a .. Len(h) : i \in 1 .. Len(h)
    BY <1>1, <1>2, SMT
  <2> QED BY <2>1, ElementOfSeq
<1>4. SubSeq(h, a, Len(h)) \in Seq(Entry)
  BY <1>2, <1>3, SubSeqProperties
<1> QED BY <1>4 DEF Trimmed, a

\* Whichever way an utterance ends: one line, and nothing is left in hand.
LEMMA WorkEnds ==
    ASSUME WorkInv, worker # "get", NEW record \in Bench, Ends(record), task' = task,
           tempFiles' \subseteq Utterances, unremoved' \subseteq Utterances,
           conversationHistory' \in Seq(Entry), answered' \in Seq(Utterances),
           UNCHANGED <<outboundQueue, afterCancel>>
    PROVE  WorkInv'
<1>1. Len(<<>>) = 0 /\ 0 \in 0 .. MaxSentences
  BY EmptySeq, ReplyAssumption, SMT
<1>2. NewBench \in Bench /\ NewBench.sentences = 0
  BY <1>1 DEF NewBench, Bench
<1>3. benchLog' = Append(benchLog, [utt |-> task, bench |-> record])
      /\ bench' = NewBench /\ parts' = <<>> /\ worker' = "get"
  BY DEF Ends
<1>4. benchLog' \in Seq([utt : Utterances, bench : Bench])
  <2>1. [utt |-> task, bench |-> record] \in [utt : Utterances, bench : Bench]
    BY DEF WorkInv, InProgress
  <2> QED BY <2>1, <1>3, AppendProperties DEF WorkInv, WorkTypes
<1>5. WorkTypes'
  BY <1>2, <1>3, <1>4 DEF WorkInv, WorkTypes
<1>6. InProgress'
  BY <1>1, <1>2, <1>3 DEF InProgress
<1> QED BY <1>5, <1>6 DEF WorkInv

LEMMA BenchFields ==
    ASSUME NEW b \in Bench
    PROVE  /\ [b EXCEPT !.stt = TRUE] \in Bench
           /\ [b EXCEPT !.firstSentence = TRUE] \in Bench
           /\ [b EXCEPT !.firstAudio = TRUE] \in Bench
           /\ [b EXCEPT !.completed = TRUE] \in Bench
           /\ [b EXCEPT !.stt = TRUE].sentences = b.sentences
           /\ [b EXCEPT !.firstSentence = TRUE].sentences = b.sentences
           /\ [b EXCEPT !.firstAudio = TRUE].sentences = b.sentences
           /\ b.sentences \in 0 .. MaxSentences
BY DEF Bench

\* The steps that leave the worker's record and sentences alone.
LEMMA WorkStands ==
    ASSUME WorkInv,
           UNCHANGED <<task, parts, bench, conversationHistory, answered,
                       outboundQueue, benchLog, afterCancel>>,
           tempFiles' \subseteq Utterances, unremoved' \subseteq Utterances,
           worker' = worker \/ (worker = "tts" /\ worker' = "llm")
    PROVE  WorkInv'
<1>1. WorkTypes'
  BY DEF WorkInv, WorkTypes
<1>2. Len(parts) \in Nat /\ bench.sentences \in Int
  <2>1. bench \in Bench /\ Len(parts) \in 0 .. MaxSentences /\ MaxSentences \in Nat
    BY ReplyAssumption DEF WorkInv, WorkTypes, InProgress
  <2>2. bench.sentences \in 0 .. MaxSentences
    BY <2>1, BenchFields
  <2> QED BY <2>1, <2>2, SMT
<1>3. InProgress'
  BY <1>2, SMT DEF WorkInv, InProgress
<1> QED BY <1>1, <1>3 DEF WorkInv

LEMMA WorkStep == Shape /\ TextInv /\ WorkInv /\ [Next]_vars => WorkInv'
<1> SUFFICES ASSUME Shape, TextInv, WorkInv, [Next]_vars PROVE WorkInv'
  OBVIOUS
<1> USE DEF llmVars, ttsVars, sessionVars, fileVars
<1>1. /\ WorkTypes /\ InProgress /\ bench \in Bench
      /\ tempFiles \subseteq Utterances /\ unremoved \subseteq Utterances
      /\ conversationHistory \in Seq(Entry) /\ answered \in Seq(Utterances)
  BY DEF WorkInv, WorkTypes
<1>2. Len(parts) \in Nat /\ bench.sentences \in 0 .. MaxSentences
      /\ MaxSentences \in Nat /\ MaxChunks \in Nat
  <2>1. bench.sentences \in 0 .. MaxSentences
    BY <1>1, BenchFields
  <2>2. Len(parts) \in 0 .. MaxSentences /\ MaxSentences \in Nat /\ MaxChunks \in Nat
    BY <1>1, ReplyAssumption DEF InProgress
  <2> QED BY <2>1, <2>2, SMT
<1>3. worker # "get" => task \in Utterances
  BY <1>1 DEF InProgress
<1>4. CASE Cancel
  BY <1>4, <1>1, WorkStands DEF Cancel
<1>5. CASE TakeUp
  <2>1. task' \in Utterances /\ task' \in 0 .. MaxUtterances
    <3>1. task' \in Utterances
      BY <1>5, HeadTailProperties DEF TakeUp, Shape
    <3> QED BY <3>1, ReplyAssumption, SMT DEF Utterances
  <2>2. /\ bench' = NewBench /\ worker' = "stt"
        /\ UNCHANGED <<tempFiles, unremoved, parts, conversationHistory, answered,
                       outboundQueue, benchLog, afterCancel>>
    BY <1>5 DEF TakeUp
  <2>3. NewBench \in Bench /\ NewBench.sentences = 0
    BY <1>2, SMT DEF NewBench, Bench
  <2>4. WorkTypes'
    BY <2>1, <2>2, <2>3, <1>1 DEF WorkTypes
  <2>5. InProgress'
    BY <2>1, <2>2, <2>3, <1>1, <1>2, SMT DEF InProgress
  <2> QED BY <2>4, <2>5 DEF WorkInv
<1>6. CASE MakeTempFile
  <2>1. tempFiles' = tempFiles \cup {task} /\ task \in Utterances
    BY <1>6, <1>3 DEF MakeTempFile
  <2> QED BY <2>1, <1>6, <1>1, WorkStands DEF MakeTempFile
<1>7. ASSUME Unlink
      PROVE  tempFiles' \subseteq Utterances /\ unremoved' \subseteq Utterances
  BY <1>7, <1>1 DEF Unlink
<1>8. CASE Transcribed
  <2>1. /\ bench' = [bench EXCEPT !.stt = TRUE] /\ worker' = "llm" /\ worker = "stt"
        /\ UNCHANGED <<task, parts, conversationHistory, answered, outboundQueue,
                       benchLog, afterCancel>>
        /\ tempFiles' \subseteq Utterances /\ unremoved' \subseteq Utterances
    BY <1>7, <1>8 DEF Transcribed
  <2>2. bench' \in Bench /\ bench'.sentences = bench.sentences
    BY <2>1, <1>1, BenchFields
  <2>3. WorkTypes'
    BY <2>1, <2>2, <1>1 DEF WorkTypes
  <2>4. InProgress'
    BY <2>1, <2>2, <1>1 DEF InProgress
  <2> QED BY <2>3, <2>4 DEF WorkInv
<1>9. CASE NothingTranscribed
  <2>1. Ends([bench EXCEPT !.stt = TRUE]) /\ [bench EXCEPT !.stt = TRUE] \in Bench
    BY <1>1, <1>9, BenchFields DEF NothingTranscribed
  <2> QED BY <2>1, <1>7, <1>9, <1>1, WorkEnds DEF NothingTranscribed
<1>10. CASE TranscriptionRaises
  BY <1>7, <1>10, <1>1, WorkEnds DEF TranscriptionRaises
<1>11. CASE \E n \in 1 .. MaxToken : \E kinds \in [1 .. n -> Kinds] : Token(kinds)
  BY <1>11, <1>1, WorkStands DEF Token
<1>12. CASE StreamEnds \/ StreamFails
  BY <1>12, <1>1, WorkStands DEF StreamEnds, StreamFails
<1>13. CASE StreamRaises
  BY <1>13, <1>1, WorkEnds DEF StreamRaises, Resumed
<1>14. CASE \E w \in Synthesized : Synthesize(w)
  <2>1. /\ worker = "llm" /\ worker' = "tts" /\ Len(parts) < MaxSentences
        /\ parts' = Append(parts, Head(pending))
        /\ bench' = [bench EXCEPT !.firstSentence = TRUE]
        /\ UNCHANGED <<task, tempFiles, unremoved, conversationHistory, answered,
                       outboundQueue, benchLog, afterCancel>>
    BY <1>14 DEF Synthesize, Yielded
  <2>2. bench' \in Bench /\ bench'.sentences = bench.sentences
    BY <2>1, <1>1, BenchFields
  <2>3. Len(parts') = Len(parts) + 1
    BY <2>1, PartsGrow DEF Shape
  <2>4. WorkTypes'
    BY <2>1, <2>2, <1>1 DEF WorkTypes
  <2>5. InProgress'
    BY <2>1, <2>2, <2>3, <1>1, <1>2, SMT DEF InProgress
  <2> QED BY <2>4, <2>5 DEF WorkInv
<1>15. CASE CancelSeen
  <2>1. /\ Ends([bench EXCEPT !.firstSentence = TRUE])
        /\ [bench EXCEPT !.firstSentence = TRUE] \in Bench
    BY <1>1, <1>15, BenchFields DEF CancelSeen
  <2> QED BY <2>1, <1>15, <1>1, WorkEnds DEF CancelSeen
<1>16. CASE NoBytes
  BY <1>16, <1>1, WorkStands DEF NoBytes
<1>17. CASE Unconvertible
  BY <1>17, <1>1, WorkEnds DEF Unconvertible
<1>18. CASE Converted
  <2>1. /\ worker = "tts" /\ worker' \in {"llm", "put"}
        /\ bench' = [bench EXCEPT !.sentences = @ + 1]
        /\ UNCHANGED <<task, tempFiles, unremoved, parts, conversationHistory,
                       answered, outboundQueue, benchLog, afterCancel>>
    BY <1>18 DEF Converted
  <2>2. bench.sentences < Len(parts) /\ Len(parts) \in 1 .. MaxSentences
    BY <2>1, <1>1 DEF InProgress
  <2>3. bench.sentences + 1 \in 0 .. MaxSentences /\ bench.sentences + 1 <= Len(parts)
    BY <2>2, <1>2, SMT
  <2>4. bench' \in Bench /\ bench'.sentences = bench.sentences + 1
    BY <2>1, <2>3, <1>1 DEF Bench
  <2>5. WorkTypes'
    BY <2>1, <2>4, <1>1 DEF WorkTypes
  <2>6. InProgress'
    BY <2>1, <2>2, <2>3, <2>4, <1>1 DEF InProgress
  <2> QED BY <2>5, <2>6 DEF WorkInv
<1>19. CASE PutSlice
  <2> DEFINE reply == [utt |-> task, sentence |-> Len(parts), chunk |-> chunk + 1]
  <2>1. /\ worker = "put" /\ worker' \in {"llm", "put"}
        /\ outboundQueue' = Append(outboundQueue, reply)
        /\ bench' = [bench EXCEPT !.firstAudio = TRUE]
        /\ afterCancel' \subseteq afterCancel \cup {<<task, Len(parts)>>}
        /\ UNCHANGED <<task, tempFiles, unremoved, parts, conversationHistory,
                       answered, benchLog>>
    BY <1>19 DEF PutSlice
  <2>2. task \in Utterances /\ Len(parts) \in 1 .. MaxSentences
    BY <2>1, <1>1 DEF InProgress
  <2>3. chunk + 1 \in 1 .. MaxChunks
    <3>1. wav \in Wavs \cup {NoWav, Raises} /\ wav.width = 2 /\ chunk \in Nat
          /\ chunk < Slices(wav)
      BY <2>1 DEF Shape
    <3>2. Slices(wav) \in 0 .. MaxChunks
      BY <3>1, WavsAreWhole
    <3> QED BY <3>1, <3>2, <1>2, SMT
  <2>4. reply \in [utt : Utterances, sentence : 1 .. MaxSentences, chunk : 1 .. MaxChunks]
    BY <2>2, <2>3
  <2> HIDE DEF reply
  <2>5. outboundQueue' \in Seq([utt : Utterances, sentence : 1 .. MaxSentences,
                                chunk : 1 .. MaxChunks])
    BY <2>1, <2>4, <1>1, AppendProperties DEF WorkTypes
  <2>6. bench' \in Bench /\ bench'.sentences = bench.sentences
    BY <2>1, <1>1, BenchFields
  <2>7. afterCancel' \subseteq Utterances \X (1 .. MaxSentences)
    BY <2>1, <2>2, <1>1 DEF WorkTypes
  <2>8. WorkTypes'
    BY <2>1, <2>5, <2>6, <2>7, <1>1 DEF WorkTypes
  <2>9. InProgress'
    BY <2>1, <2>2, <2>6, <1>1 DEF InProgress
  <2> QED BY <2>8, <2>9 DEF WorkInv
<1>20. CASE Complete
  <2>1. /\ worker # "get" /\ Ends([bench EXCEPT !.completed = TRUE])
        /\ UNCHANGED <<task, tempFiles, unremoved, outboundQueue, afterCancel>>
    BY <1>20 DEF Complete
  <2>2. conversationHistory' \in Seq(Entry) /\ answered' \in Seq(Utterances)
    <3>1. CASE parts = <<>>
      BY <3>1, <1>20, <1>1 DEF Complete
    <3>2. CASE parts # <<>>
      <4> DEFINE pair == <<[role |-> "user", utt |-> task],
                           [role |-> "assistant", utt |-> task]>>
      <4>1. task \in Utterances /\ task \in Nat
        BY <2>1, <1>3, ReplyAssumption, SMT DEF Utterances
      <4>2. [role |-> "user", utt |-> task] \in Entry
            /\ [role |-> "assistant", utt |-> task] \in Entry
        BY <4>1 DEF Entry
      <4>3. pair \in Seq(Entry)
        BY <4>2
      <4>4. conversationHistory' = Trimmed(conversationHistory \o pair)
            /\ answered' = Append(answered, task)
        BY <3>2, <1>20 DEF Complete
      <4> HIDE DEF pair
      <4>5. conversationHistory \o pair \in Seq(Entry)
        BY <4>3, <1>1, ConcatProperties
      <4> QED BY <4>1, <4>4, <4>5, <1>1, TrimmedType, AppendProperties
    <3> QED BY <3>1, <3>2
  <2>3. [bench EXCEPT !.completed = TRUE] \in Bench
    BY <1>1, BenchFields
  <2> QED BY <2>1, <2>2, <2>3, <1>1, WorkEnds
<1>21. CASE UNCHANGED vars
  BY <1>21, <1>1, WorkStands DEF vars
<1> QED BY <1>4, <1>5, <1>6, <1>8, <1>9, <1>10, <1>11, <1>12, <1>13, <1>14, <1>15,
           <1>16, <1>17, <1>18, <1>19, <1>20, <1>21
        DEF Next, STT, LLM, TTS

\* The types of the worker's locals, the generator's and the session's fields:
\* every sentence spoken has its two places, every chunk and line its numbers.
THEOREM ReplyTypes == Spec => []TypeOK
<1>1. Shape /\ TextInv /\ WorkInv => TypeOK
  <2> SUFFICES ASSUME Shape, TextInv, WorkInv PROVE TypeOK
    OBVIOUS
  <2>1. chunk \in 0 .. MaxChunks
    <3>1. CASE worker = "put"
      <4>1. wav \in Wavs \cup {NoWav, Raises} /\ wav.width = 2 /\ chunk \in Nat
            /\ chunk < Slices(wav)
        BY <3>1 DEF Shape
      <4>2. Slices(wav) \in 0 .. MaxChunks
        BY <4>1, WavsAreWhole
      <4> QED BY <4>1, <4>2, ReplyAssumption, SMT
    <3>2. CASE worker # "put"
      BY <3>2, ReplyAssumption, SMT DEF Shape
    <3> QED BY <3>1, <3>2
  <2>2. worker = "put" => chunk < Slices(wav)
    BY DEF Shape
  <2> QED BY <2>1, <2>2 DEF Shape, TextInv, TextTypes, WorkInv, WorkTypes, TypeOK
<1>2. Shape /\ TextInv /\ WorkInv /\ [Next]_vars => Shape' /\ TextInv' /\ WorkInv'
  BY ShapeStep, TextStep, WorkStep
<1>3. Init => Shape /\ TextInv /\ WorkInv
  BY ShapeInit, TextInit, WorkInit
<1> QED BY <1>1, <1>2, <1>3, PTL DEF Spec
================================================================================

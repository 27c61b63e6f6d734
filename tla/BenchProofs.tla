------------------------------ MODULE BenchProofs ------------------------------
(***************************************************************************)
(* What BenchRun satisfies for every mode, every number of repeats, runs,  *)
(* passes and turns, and whatever logs an earlier run of the benchmark has *)
(* left.                                                                   *)
(***************************************************************************)
EXTENDS BenchRun, SequenceTheorems, TLAPS

---------------------------------------------------------------------------
(* The program: which operations follow which. *)

Names == {"build", "sampler.start", "sampler.stop", "stack.start", "stack.stop",
          "run_call"}
Ops == [name : Names, tag : Tags \cup {<<>>}, turns : Nat]

\* Where p's k-th operation may stand: a call after the start of its services
\* or another call on them, a start where nothing runs, a build where nothing
\* runs either, and a sampler that is started is stopped.
AfterStop(p, k) == k > 1 /\ p[k - 1].name \in {"stack.stop", "sampler.start"}
Placed(p, k) ==
    /\ p[k].name = "run_call" =>
          k > 1 /\ p[k - 1].name \in {"stack.start", "run_call"}
    /\ p[k].name = "stack.start" => AfterStop(p, k) /\ p[k].tag \in Tags
    /\ p[k].name = "sampler.start" =>
          /\ k > 1 /\ p[k - 1].name = "build"
          /\ \E m \in k + 1 .. Len(p) : p[m].name = "sampler.stop"
    /\ p[k].name = "build" =>
          \/ k = 1 \/ p[k - 1].name = "stack.stop"
          \/ p[k - 1].name = "sampler.stop" /\ AfterStop(p, k - 1)
EndsDown(p) ==
    p # <<>> =>
        \/ p[Len(p)].name = "stack.stop"
        \/ p[Len(p)].name = "sampler.stop" /\ AfterStop(p, Len(p))
Shaped(p) ==
    /\ p \in Seq(Ops)
    /\ \A k \in 1 .. Len(p) : Placed(p, k)

LEMMA Blocks ==
    ASSUME NEW n \in Nat, NEW len \in Nat \ {0}, NEW k \in 1 .. n * len
    PROVE  \E b \in 1 .. n, j \in 1 .. len :
              /\ (k - 1) \div len + 1 = b /\ 1 + ((k - 1) % len) = j
              /\ k = (b - 1) * len + j
<1> DEFINE q == (k - 1) \div len
           r == (k - 1) % len
<1>1. n * len \in Int /\ k \in Int /\ k - 1 \in Nat
  BY SMT
<1>2. q \in Int /\ r \in 0 .. len - 1 /\ k - 1 = len * q + r
  BY <1>1, SMT
<1>3. q >= 0
  BY <1>1, SMT
<1>4. q < n
  <2>1. SUFFICES ASSUME q >= n PROVE FALSE
    BY <1>2, SMT
  <2> HIDE DEF q
  <2>2. PICK c \in Nat : q = n + c
    BY <2>1, <1>2, q = n + (q - n), SMT
  <2>3. len * q = n * len + len * c /\ len * c \in Nat
    BY <2>2, SMT
  <2>4. k <= n * len
    BY <1>1
  <2>5. len * q \in Int
    BY <1>2, SMT
  <2> QED BY <2>3, <2>4, <2>5, <1>1, <1>2, SMT
<1> HIDE DEF q, r
<1>5. q + 1 \in 1 .. n /\ r + 1 \in 1 .. len /\ (q + 1 - 1) * len = len * q
  BY <1>2, <1>3, <1>4, SMT
<1>6. k = (q + 1 - 1) * len + (r + 1)
  BY <1>1, <1>2, <1>5, SMT
<1> QED BY <1>5, <1>6 DEF q, r

LEMMA BlockOf ==
    ASSUME NEW n \in Nat, NEW len \in Nat \ {0}, NEW b \in 1 .. n, NEW j \in 1 .. len
    PROVE  LET k == (b - 1) * len + j
           IN  /\ k \in 1 .. n * len
               /\ (k - 1) \div len + 1 = b /\ 1 + ((k - 1) % len) = j
<1> DEFINE k == (b - 1) * len + j
<1>1. (b - 1) * len \in Nat /\ (b - 1) * len + len <= n * len /\ n * len \in Nat
  <2>1. PICK c \in Nat : n = b + c
    BY n = b + (n - b), n - b \in Nat, SMT
  <2>2. n * len = (b - 1) * len + len + c * len /\ c * len \in Nat
    BY <2>1, SMT
  <2> QED BY <2>2, SMT
<1>2. k \in 1 .. n * len
  BY <1>1, SMT
<1>3. (k - 1) \div len = b - 1 /\ (k - 1) % len = j - 1
  BY <1>1, SMT
<1> QED BY <1>2, <1>3, SMT

LEMMA BlockBefore ==
    ASSUME NEW n \in Nat, NEW len \in Nat \ {0}, NEW b \in 1 .. n,
           NEW j \in 1 .. len, (b - 1) * len + j > 1
    PROVE  IF j > 1 THEN (b - 1) * len + j - 1 = (b - 1) * len + (j - 1)
           ELSE b > 1 /\ (b - 1) * len + j - 1 = (b - 1 - 1) * len + len
<1>1. (b - 1) * len \in Int /\ (b - 1 - 1) * len + len = (b - 1) * len
  BY SMT
<1>2. b = 1 => (b - 1) * len = 0
  BY SMT
<1> QED BY <1>1, <1>2, SMT

LEMMA OpTypes ==
    /\ \A name \in Names : Op(name) \in Ops /\ Op(name).name = name
    /\ \A kind \in {"cold", "warm"}, i \in Nat \ {0} :
          /\ Start(kind, i) \in Ops /\ Start(kind, i).name = "stack.start"
          /\ Start(kind, i).tag \in Tags
    /\ \A turns \in Nat : RunCall(turns) \in Ops /\ RunCall(turns).name = "run_call"
BY SMT DEF Op, Start, RunCall, Ops, Names, Tags

ColdBody == Repeated(ColdRepeat, ColdRepeats, 4)
LEMMA ColdBlocks ==
    /\ ColdBody \in Seq(Ops) /\ Len(ColdBody) = ColdRepeats * 4
    /\ \A b \in 1 .. ColdRepeats, j \in 1 .. 4 :
          ColdBody[(b - 1) * 4 + j] = ColdRepeat(b)[j]
<1>1. \A b \in Nat \ {0}, j \in 1 .. 4 : ColdRepeat(b)[j] \in Ops
  BY OpTypes, RunAssumption, SMT DEF ColdRepeat, Names
<1>2. ColdBody = [k \in 1 .. ColdRepeats * 4 |->
                    ColdRepeat((k - 1) \div 4 + 1)[1 + ((k - 1) % 4)]]
  BY DEF ColdBody, Repeated
<1>3. ColdRepeats * 4 \in Nat /\ ColdRepeats \in Nat
  BY RunAssumption, SMT
<1>4. ASSUME NEW k \in 1 .. ColdRepeats * 4 PROVE ColdBody[k] \in Ops
  <2>1. PICK b \in 1 .. ColdRepeats, j \in 1 .. 4 :
            (k - 1) \div 4 + 1 = b /\ 1 + ((k - 1) % 4) = j
    BY <1>3, Blocks
  <2>2. ColdBody[k] = ColdRepeat(b)[j]
    BY <2>1, <1>2
  <2> QED BY <2>2, <1>1, <1>3, SMT
<1>5. ColdBody \in [1 .. ColdRepeats * 4 -> Ops]
  BY <1>2, <1>4
<1>6. ASSUME NEW b \in 1 .. ColdRepeats, NEW j \in 1 .. 4
      PROVE  ColdBody[(b - 1) * 4 + j] = ColdRepeat(b)[j]
  <2> DEFINE k == (b - 1) * 4 + j
  <2>1. k \in 1 .. ColdRepeats * 4 /\ (k - 1) \div 4 + 1 = b /\ 1 + ((k - 1) % 4) = j
    BY <1>3, BlockOf
  <2> QED BY <2>1, <1>2
<1> QED BY <1>3, <1>5, <1>6, SeqDef, SMT

LEMMA ColdRunShape ==
    Shaped(ColdRun) /\ EndsDown(ColdRun)
<1> DEFINE head == <<Op("build"), Op("sampler.start")>>
           last == <<Op("sampler.stop")>>
           R == ColdRepeats
           C == ColdRun
<1>1. R \in Nat /\ R * 4 \in Nat
  BY RunAssumption, SMT
<1>2. /\ head \in Seq(Ops) /\ Len(head) = 2
      /\ head[1].name = "build" /\ head[2].name = "sampler.start"
      /\ last \in Seq(Ops) /\ Len(last) = 1 /\ last[1].name = "sampler.stop"
  BY OpTypes, SMT DEF Names
<1>3. C = (head \o ColdBody) \o last
  BY DEF ColdRun, ColdBody
<1> HIDE DEF head, last
<1>4. /\ head \o ColdBody \in Seq(Ops) /\ Len(head \o ColdBody) = 2 + R * 4
      /\ \A i \in 1 .. 2 + R * 4 :
            (head \o ColdBody)[i] = IF i <= 2 THEN head[i] ELSE ColdBody[i - 2]
  <2>1. ColdBody \in Seq(Ops) /\ Len(ColdBody) = R * 4
    BY ColdBlocks
  <2>2. /\ head \o ColdBody \in Seq(Ops)
        /\ Len(head \o ColdBody) = Len(head) + Len(ColdBody)
        /\ \A i \in 1 .. Len(head) + Len(ColdBody) :
              (head \o ColdBody)[i] =
                  IF i <= Len(head) THEN head[i] ELSE ColdBody[i - Len(head)]
    BY <1>2, <2>1, ConcatProperties
  <2> QED BY <1>2, <2>1, <2>2
<1>5. /\ C \in Seq(Ops) /\ Len(C) = 3 + R * 4
      /\ \A i \in 1 .. 3 + R * 4 :
            C[i] = IF i <= 2 + R * 4 THEN (head \o ColdBody)[i]
                   ELSE last[i - (2 + R * 4)]
  <2> DEFINE q == head \o ColdBody
  <2> HIDE DEF q
  <2>1. q \in Seq(Ops) /\ Len(q) = 2 + R * 4
    BY <1>4 DEF q
  <2>2. /\ q \o last \in Seq(Ops) /\ Len(q \o last) = Len(q) + Len(last)
        /\ \A i \in 1 .. Len(q) + Len(last) :
              (q \o last)[i] = IF i <= Len(q) THEN q[i] ELSE last[i - Len(q)]
    BY <1>2, <2>1, ConcatProperties
  <2>3. C = q \o last /\ 2 + R * 4 + 1 = 3 + R * 4
    BY <1>1, <1>3, SMT DEF q
  <2> HIDE DEF C
  <2> QED BY <1>2, <2>1, <2>2, <2>3 DEF q
<1>6. /\ C[1].name = "build" /\ C[2].name = "sampler.start"
      /\ C[3 + R * 4].name = "sampler.stop"
      /\ \A i \in 1 .. R * 4 : C[i + 2] = ColdBody[i]
  <2> DEFINE q == head \o ColdBody
             n == R * 4
  <2> HIDE DEF q, n, R, C
  <2>1. n \in Nat /\ Len(C) = 3 + n
    BY <1>1, <1>5 DEF n
  <2>2. /\ \A i \in 1 .. 2 + n : q[i] = IF i <= 2 THEN head[i] ELSE ColdBody[i - 2]
        /\ \A i \in 1 .. 3 + n : C[i] = IF i <= 2 + n THEN q[i] ELSE last[i - (2 + n)]
    BY <1>4, <1>5 DEF q, n
  <2>3. C[1] = head[1] /\ C[2] = head[2]
    BY <2>1, <2>2, SMT
  <2>4. C[3 + n] = last[1]
    BY <2>1, <2>2, SMT
  <2>5. \A i \in 1 .. n : C[i + 2] = ColdBody[i]
    BY <2>1, <2>2, SMT
  <2> QED BY <1>2, <2>3, <2>4, <2>5 DEF n
<1>7. ASSUME NEW i \in 1 .. R * 4
      PROVE  LET k == i + 2
             IN  \/ C[k].name = "stack.stop"
                 \/ /\ C[k].name = "stack.start" /\ C[k].tag \in Tags
                    /\ C[k - 1].name = "stack.stop"
                 \/ C[k].name = "run_call" /\ C[k - 1].name = "stack.start"
  <2>1. PICK b \in 1 .. R, j \in 1 .. 4 : i = (b - 1) * 4 + j
    <3> HIDE DEF R
    <3>1. \E b \in 1 .. R, j \in 1 .. 4 :
              /\ (i - 1) \div 4 + 1 = b /\ 1 + ((i - 1) % 4) = j
              /\ i = (b - 1) * 4 + j
      BY <1>1, 4 \in Nat \ {0}, Blocks
    <3> QED BY <3>1
  <2>2. C[i + 2] = ColdRepeat(b)[j]
    BY <1>6, <2>1, ColdBlocks
  <2>3. ASSUME j > 1
        PROVE  C[i + 1] = ColdRepeat(b)[j - 1]
    <3>1. i - 1 \in 1 .. R * 4 /\ i - 1 = (b - 1) * 4 + (j - 1) /\ j - 1 \in 1 .. 4
          /\ (i - 1) + 2 = i + 1
      BY <2>1, <2>3, <1>1, SMT
    <3> QED BY <3>1, <1>6, ColdBlocks
  <2>4. b \in Nat \ {0}
    BY <1>1, SMT
  <2>5. /\ ColdRepeat(b)[1].name = "stack.stop"
        /\ ColdRepeat(b)[2].name = "stack.start" /\ ColdRepeat(b)[2].tag \in Tags
        /\ ColdRepeat(b)[3].name = "run_call"
        /\ ColdRepeat(b)[4].name = "stack.stop"
    BY <2>4, OpTypes, RunAssumption, SMT DEF ColdRepeat, Names
  <2>6. j = 1 \/ j = 2 \/ j = 3 \/ j = 4
    BY SMT
  <2>7. i + 2 - 1 = i + 1 /\ 2 - 1 = 1 /\ 3 - 1 = 2 /\ 2 > 1 /\ 3 > 1
    BY SMT
  <2>8. CASE j = 1 \/ j = 4
    BY <2>2, <2>5, <2>8
  <2>9. CASE j = 2
    BY <2>2, <2>3, <2>5, <2>7, <2>9
  <2>10. CASE j = 3
    BY <2>2, <2>3, <2>5, <2>7, <2>10
  <2> QED BY <2>6, <2>8, <2>9, <2>10
<1>8. IF R = 0 THEN C[2 + R * 4].name = "sampler.start"
      ELSE C[2 + R * 4].name = "stack.stop"
  <2>1. CASE R = 0
    BY <2>1, <1>6, SMT
  <2>2. CASE R # 0
    <3>1. R \in 1 .. R /\ 4 \in 1 .. 4 /\ (R - 1) * 4 + 4 = R * 4
          /\ R * 4 \in 1 .. R * 4 /\ R * 4 + 2 = 2 + R * 4
      BY <2>2, <1>1, SMT
    <3>2. C[2 + R * 4] = ColdRepeat(R)[4]
      BY <3>1, <1>6, ColdBlocks
    <3>3. ColdRepeat(R)[4].name = "stack.stop"
      BY OpTypes, SMT DEF ColdRepeat, Names
    <3> QED BY <3>2, <3>3, <2>2
  <2> QED BY <2>1, <2>2
<1> HIDE DEF C
<1>9. ASSUME NEW k \in 1 .. Len(C) PROVE Placed(C, k)
  <2>1. CASE k = 1
    BY <2>1, <1>6 DEF Placed
  <2>2. CASE k = 2
    <3>1. 3 + R * 4 \in 2 + 1 .. Len(C)
      BY <1>5, <1>1, SMT
    <3> QED BY <3>1, <2>2, <1>6, SMT DEF Placed
  <2>3. CASE k = 3 + R * 4
    BY <2>3, <1>6 DEF Placed
  <2>4. CASE k \in 3 .. 2 + R * 4
    <3>1. k - 2 \in 1 .. R * 4 /\ (k - 2) + 2 = k /\ k > 1
      BY <2>4, <1>1, SMT
    <3>2. \/ C[k].name = "stack.stop"
          \/ /\ C[k].name = "stack.start" /\ C[k].tag \in Tags
             /\ C[k - 1].name = "stack.stop"
          \/ C[k].name = "run_call" /\ C[k - 1].name = "stack.start"
      BY <3>1, <1>7, SMT
    <3> QED BY <3>1, <3>2 DEF Placed, AfterStop
  <2> QED BY <2>1, <2>2, <2>3, <2>4, <1>1, <1>5, SMT
<1>10. EndsDown(C)
  <2>1. Len(C) > 1 /\ Len(C) - 1 = 2 + R * 4 /\ C[Len(C)].name = "sampler.stop"
    BY <1>1, <1>5, <1>6, SMT
  <2> QED BY <2>1, <1>8 DEF EndsDown, AfterStop
<1> QED BY <1>5, <1>9, <1>10 DEF Shaped, C

Warm == Passes + 6
PassBody == Repeated(Pass, Passes, 1)
LEMMA PassBlocks ==
    /\ PassBody \in Seq(Ops) /\ Len(PassBody) = Passes
    /\ \A k \in 1 .. Passes : PassBody[k].name = "run_call"
<1>1. Passes \in Nat /\ Passes * 1 = Passes
  BY RunAssumption, SMT
<1>2. PassBody = [k \in 1 .. Passes |->
                     Pass((k - 1) \div 1 + 1)[1 + ((k - 1) % 1)]]
  BY <1>1 DEF PassBody, Repeated
<1>3. ASSUME NEW k \in 1 .. Passes
      PROVE  PassBody[k] \in Ops /\ PassBody[k].name = "run_call"
  <2>1. 1 + ((k - 1) % 1) = 1
    BY <1>1, SMT
  <2>2. PassBody[k] = RunCall(PassTurns)
    BY <1>2, <2>1 DEF Pass
  <2> QED BY <2>2, OpTypes, RunAssumption
<1>4. PassBody \in [1 .. Passes -> Ops]
  BY <1>2, <1>3
<1> QED BY <1>1, <1>3, <1>4, SeqDef, SMT

\* The operations of one warm run.
LEMMA WarmRunNames ==
    ASSUME NEW i \in Nat \ {0}
    PROVE  LET w == WarmRun(i)
           IN  /\ w \in Seq(Ops) /\ Len(w) = Warm
               /\ w[1].name = "build" /\ w[2].name = "sampler.start"
               /\ w[3].name = "stack.start" /\ w[3].tag \in Tags
               /\ \A j \in 4 .. Passes + 4 : w[j].name = "run_call"
               /\ w[Passes + 5].name = "sampler.stop"
               /\ w[Warm].name = "stack.stop"
<1> DEFINE head == <<Op("build"), Op("sampler.start"), Start("warm", i),
                     RunCall(WarmupTurns)>>
           last == <<Op("sampler.stop"), Op("stack.stop")>>
           q == head \o PassBody
           w == WarmRun(i)
           n == Passes
<1>1. /\ head \in Seq(Ops) /\ Len(head) = 4
      /\ head[1].name = "build" /\ head[2].name = "sampler.start"
      /\ head[3].name = "stack.start" /\ head[3].tag \in Tags
      /\ head[4].name = "run_call"
  <2>1. Op("build") \in Ops /\ Op("sampler.start") \in Ops /\ Op("build").name = "build"
        /\ Op("sampler.start").name = "sampler.start"
    BY OpTypes DEF Names
  <2>2. /\ Start("warm", i) \in Ops /\ Start("warm", i).name = "stack.start"
        /\ Start("warm", i).tag \in Tags
    BY OpTypes
  <2>3. RunCall(WarmupTurns) \in Ops /\ RunCall(WarmupTurns).name = "run_call"
    BY OpTypes, RunAssumption
  <2> QED BY <2>1, <2>2, <2>3, SMT
<1>2. /\ last \in Seq(Ops) /\ Len(last) = 2
      /\ last[1].name = "sampler.stop" /\ last[2].name = "stack.stop"
  BY OpTypes, SMT DEF Names
<1>3. w = q \o last
  BY DEF WarmRun, PassBody
<1> HIDE DEF head, last
<1>4. /\ q \in Seq(Ops) /\ Len(q) = Len(head) + Len(PassBody)
      /\ \A k \in 1 .. Len(head) + Len(PassBody) :
            q[k] = IF k <= Len(head) THEN head[k] ELSE PassBody[k - Len(head)]
  <2>1. head \in Seq(Ops) /\ PassBody \in Seq(Ops)
    BY <1>1, PassBlocks
  <2> QED BY ONLY <2>1, ConcatProperties
<1> HIDE DEF q
<1>5. /\ q \o last \in Seq(Ops) /\ Len(q \o last) = Len(q) + Len(last)
      /\ \A k \in 1 .. Len(q) + Len(last) :
            (q \o last)[k] = IF k <= Len(q) THEN q[k] ELSE last[k - Len(q)]
  <2>1. q \in Seq(Ops) /\ last \in Seq(Ops)
    BY <1>2, <1>4
  <2> QED BY <2>1, ConcatProperties
<1> HIDE DEF w, n
<1>6. /\ n \in Nat /\ Len(q) = 4 + n /\ Len(w) = 6 + n /\ w \in Seq(Ops)
      /\ \A k \in 1 .. 4 + n : q[k] = IF k <= 4 THEN head[k] ELSE PassBody[k - 4]
      /\ \A k \in 1 .. 6 + n : w[k] = IF k <= 4 + n THEN q[k] ELSE last[k - (4 + n)]
  <2>1. n \in Nat /\ Len(PassBody) = n
    BY PassBlocks, RunAssumption DEF n
  <2>2. Len(q) = 4 + n
    BY <1>1, <1>4, <2>1
  <2>3. Len(w) = 6 + n
    BY <1>2, <1>3, <1>5, <2>1, <2>2, SMT
  <2>4. \A k \in 1 .. 4 + n : q[k] = IF k <= 4 THEN head[k] ELSE PassBody[k - 4]
    BY <1>1, <1>4, <2>1
  <2>5. \A k \in 1 .. 4 + n + 2 : w[k] = IF k <= 4 + n THEN q[k] ELSE last[k - (4 + n)]
    BY <1>2, <1>3, <1>5, <2>2
  <2>6. 4 + n + 2 = 6 + n
    BY <2>1, SMT
  <2> QED BY <1>3, <1>5, <2>1, <2>2, <2>3, <2>4, <2>5, <2>6
<1>7. w[1] = head[1] /\ w[2] = head[2] /\ w[3] = head[3]
  BY <1>6, SMT
<1>8. ASSUME NEW j \in 4 .. n + 4 PROVE w[j].name = "run_call"
  <2>1. CASE j = 4
    <3>1. w[4] = head[4]
      BY <1>6, SMT
    <3> QED BY <2>1, <3>1, <1>1
  <2>2. CASE j > 4
    <3>1. w[j] = PassBody[j - 4] /\ j - 4 \in 1 .. n
      BY <1>6, <2>2, SMT
    <3> QED BY <3>1, PassBlocks DEF n
  <2> QED BY <2>1, <2>2, <1>6, SMT
<1>9. w[n + 5] = last[1] /\ w[n + 6] = last[2]
  BY <1>6, SMT
<1>10. Len(w) = n + 6
  BY <1>6, SMT
<1> QED BY <1>1, <1>2, <1>6, <1>7, <1>8, <1>9, <1>10 DEF n, w, Warm

WarmBody == Repeated(WarmRun, WarmRuns, Warm)
LEMMA WarmBlocks ==
    /\ WarmBody \in Seq(Ops) /\ Len(WarmBody) = WarmRuns * Warm
    /\ \A b \in 1 .. WarmRuns, j \in 1 .. Warm :
          WarmBody[(b - 1) * Warm + j] = WarmRun(b)[j]
<1>1. WarmRuns \in Nat /\ Warm \in Nat \ {0} /\ WarmRuns * Warm \in Nat
  BY RunAssumption, SMT DEF Warm
<1>2. WarmBody = [k \in 1 .. WarmRuns * Warm |->
                    WarmRun((k - 1) \div Warm + 1)[1 + ((k - 1) % Warm)]]
  BY DEF WarmBody, Repeated
<1>3. \A b \in Nat \ {0}, j \in 1 .. Warm : WarmRun(b)[j] \in Ops
  BY WarmRunNames, ElementOfSeq
<1>4. ASSUME NEW k \in 1 .. WarmRuns * Warm PROVE WarmBody[k] \in Ops
  <2>1. PICK b \in 1 .. WarmRuns, j \in 1 .. Warm :
            /\ (k - 1) \div Warm + 1 = b /\ 1 + ((k - 1) % Warm) = j
            /\ k = (b - 1) * Warm + j
    BY <1>1, Blocks
  <2>2. WarmBody[k] = WarmRun(b)[j]
    BY <2>1, <1>2
  <2> QED BY <2>2, <1>1, <1>3, SMT
<1>5. WarmBody \in [1 .. WarmRuns * Warm -> Ops]
  BY <1>2, <1>4
<1>6. ASSUME NEW b \in 1 .. WarmRuns, NEW j \in 1 .. Warm
      PROVE  WarmBody[(b - 1) * Warm + j] = WarmRun(b)[j]
  <2> DEFINE k == (b - 1) * Warm + j
  <2>1. k \in 1 .. WarmRuns * Warm /\ (k - 1) \div Warm + 1 = b
        /\ 1 + ((k - 1) % Warm) = j
    BY <1>1, BlockOf
  <2> QED BY <2>1, <1>2
<1> QED BY <1>1, <1>5, <1>6, SeqDef, SMT

LEMMA WarmBodyShape ==
    Shaped(WarmBody) /\ EndsDown(WarmBody)
<1> DEFINE W == WarmBody
           N == WarmRuns * Warm
<1>1. /\ WarmRuns \in Nat /\ Warm \in Nat \ {0} /\ N \in Nat
      /\ Passes \in Nat /\ Warm = Passes + 6
  BY RunAssumption, SMT DEF Warm
<1>2. W \in Seq(Ops) /\ Len(W) = N
  BY WarmBlocks
<1> HIDE DEF W
<1>3. ASSUME NEW k \in 1 .. N PROVE Placed(W, k)
  <2>1. PICK b \in 1 .. WarmRuns, j \in 1 .. Warm :
            /\ (k - 1) \div Warm + 1 = b /\ 1 + ((k - 1) % Warm) = j
            /\ k = (b - 1) * Warm + j
    <3>1. WarmRuns \in Nat /\ Warm \in Nat \ {0} /\ k \in 1 .. WarmRuns * Warm
      BY <1>1, <1>3
    <3> QED BY ONLY <3>1, Blocks
  <2> DEFINE w == WarmRun(b)
  <2>2. W[k] = w[j]
    BY <2>1, WarmBlocks DEF W
  <2>3. b \in Nat \ {0}
    BY <1>1, SMT
  <2>4. /\ w[1].name = "build" /\ w[2].name = "sampler.start"
        /\ w[3].name = "stack.start" /\ w[3].tag \in Tags
        /\ \A m \in 4 .. Passes + 4 : w[m].name = "run_call"
        /\ w[Passes + 5].name = "sampler.stop"
        /\ w[Warm].name = "stack.stop"
    BY <2>3, WarmRunNames
  <2>5. ASSUME j > 1 PROVE W[k - 1] = w[j - 1] /\ k > 1
    <3>1. (b - 1) * Warm \in Nat
      BY <1>1, <2>3, SMT
    <3>2. k > 1 /\ k - 1 = (b - 1) * Warm + (j - 1) /\ j - 1 \in 1 .. Warm
      BY <2>1, <2>5, <3>1, <1>1, SMT
    <3>3. W[(b - 1) * Warm + (j - 1)] = w[j - 1]
      BY <3>2, WarmBlocks DEF W
    <3> QED BY <3>2, <3>3
  <2> HIDE DEF w
  <2>6. CASE j = 1
    <3>1. CASE k = 1
      BY <2>2, <2>4, <2>6, <3>1 DEF Placed
    <3>2. CASE k # 1
      <4>1. b > 1 /\ k - 1 = (b - 1 - 1) * Warm + Warm
        BY <1>1, <2>1, <2>6, <3>2, BlockBefore
      <4>2. b - 1 \in 1 .. WarmRuns /\ Warm \in 1 .. Warm /\ b - 1 \in Nat \ {0}
        BY <1>1, <4>1, SMT
      <4>3. W[k - 1] = WarmRun(b - 1)[Warm]
        BY <4>1, <4>2, WarmBlocks DEF W
      <4>4. W[k - 1].name = "stack.stop"
        BY <4>2, <4>3, WarmRunNames
      <4> QED BY <2>2, <2>4, <2>6, <4>4 DEF Placed
    <3> QED BY <3>1, <3>2
  <2>7. CASE j = 2
    <3>1. W[k].name = "sampler.start" /\ k > 1 /\ W[k - 1].name = "build"
      BY <2>2, <2>4, <2>5, <2>7, 2 > 1, 2 - 1 = 1
    <3>2. \E m \in k + 1 .. Len(W) : W[m].name = "sampler.stop"
      <4> DEFINE m == (b - 1) * Warm + (Passes + 5)
      <4>1. Passes + 5 \in 1 .. Warm /\ (b - 1) * Warm \in Nat
        BY <1>1, <2>3, SMT
      <4>2. m \in 1 .. N
        BY <1>1, <4>1, BlockOf
      <4>3. W[m] = WarmRun(b)[Passes + 5]
        BY <4>1, WarmBlocks DEF W
      <4>4. m >= k + 1
        BY <2>1, <2>7, <4>1, <1>1, SMT
      <4>5. W[m].name = "sampler.stop"
        BY <4>3, <2>4 DEF w
      <4> HIDE DEF m
      <4>6. k \in Int /\ N \in Int
        BY <1>1, SMT
      <4>7. m \in k + 1 .. Len(W)
        BY <1>2, <4>2, <4>4, <4>6, SMT
      <4> QED BY <4>5, <4>7
    <3> QED BY <3>1, <3>2 DEF Placed
  <2>8. CASE j = 3
    <3>1. /\ W[k].name = "stack.start" /\ W[k].tag \in Tags /\ k > 1
          /\ W[k - 1].name = "sampler.start"
      BY <2>2, <2>4, <2>5, <2>8, 3 > 1, 3 - 1 = 2
    <3> QED BY <3>1 DEF Placed, AfterStop
  <2>9. CASE j \in 4 .. Passes + 4
    <3>1. W[k].name = "run_call"
      BY <2>2, <2>4, <2>9
    <3>2. j > 1 /\ (j - 1 = 3 \/ j - 1 \in 4 .. Passes + 4)
      BY <1>1, <2>9, SMT
    <3>3. k > 1 /\ W[k - 1].name \in {"stack.start", "run_call"}
      BY <2>4, <2>5, <3>2
    <3> QED BY <3>1, <3>3 DEF Placed
  <2>10. CASE j = Passes + 5 \/ j = Warm
    BY <2>2, <2>4, <2>10 DEF Placed
  <2> QED BY <2>6, <2>7, <2>8, <2>9, <2>10, <1>1, SMT
<1>4. EndsDown(W)
  <2>1. CASE WarmRuns = 0
    <3>1. Len(W) = 0
      BY <2>1, <1>1, <1>2, SMT
    <3> QED BY <3>1, <1>2, EmptySeq DEF EndsDown
  <2>2. CASE WarmRuns # 0
    <3>1. WarmRuns \in 1 .. WarmRuns /\ Warm \in 1 .. Warm /\ WarmRuns \in Nat \ {0}
          /\ (WarmRuns - 1) * Warm + Warm = N
      BY <1>1, <2>2, SMT
    <3>2. W[N] = WarmRun(WarmRuns)[Warm]
      BY <3>1, WarmBlocks DEF W
    <3>3. W[N].name = "stack.stop"
      BY <3>1, <3>2, WarmRunNames
    <3> QED BY <1>2, <3>3 DEF EndsDown
  <2> QED BY <2>1, <2>2
<1> QED BY <1>2, <1>3, <1>4 DEF Shaped, W

LEMMA ConcatShaped ==
    ASSUME NEW p, NEW q, Shaped(p), EndsDown(p), Shaped(q), EndsDown(q)
    PROVE  Shaped(p \o q) /\ EndsDown(p \o q)
<1> DEFINE r == p \o q
<1>1. p \in Seq(Ops) /\ q \in Seq(Ops) /\ Len(p) \in Nat /\ Len(q) \in Nat
  BY LenProperties DEF Shaped
<1>2. /\ r \in Seq(Ops) /\ Len(r) = Len(p) + Len(q)
      /\ \A i \in 1 .. Len(p) + Len(q) :
            r[i] = IF i <= Len(p) THEN p[i] ELSE q[i - Len(p)]
  BY <1>1, ConcatProperties
<1> HIDE DEF r
<1>3. ASSUME NEW i \in 1 .. Len(p) PROVE r[i] = p[i]
  <2>1. i \in 1 .. Len(p) + Len(q) /\ i <= Len(p)
    BY <1>1, SMT
  <2> QED BY <1>2, <2>1
<1>4. ASSUME NEW i \in 1 .. Len(q) PROVE r[i + Len(p)] = q[i]
  <2>1. /\ i + Len(p) \in 1 .. Len(p) + Len(q) /\ ~(i + Len(p) <= Len(p))
        /\ i + Len(p) - Len(p) = i
    BY <1>1, SMT
  <2> QED BY <1>2, <2>1
<1>5. ASSUME NEW k \in 1 .. Len(p) PROVE Placed(r, k)
  <2>1. Placed(p, k) /\ r[k] = p[k]
    BY <1>3 DEF Shaped
  <2>2. k > 1 => r[k - 1] = p[k - 1]
    BY <1>1, <1>3, SMT
  <2>3. AfterStop(p, k) => AfterStop(r, k)
    BY <2>2 DEF AfterStop
  <2>4. k > 1 /\ AfterStop(p, k - 1) => AfterStop(r, k - 1)
    BY <1>1, <1>3, SMT DEF AfterStop
  <2>5. \A m \in k + 1 .. Len(p) : m \in k + 1 .. Len(r) /\ r[m] = p[m]
    BY <1>1, <1>2, <1>3, SMT
  <2>6. k = 1 \/ k > 1
    BY <1>1, SMT
  <2> QED BY <2>1, <2>2, <2>3, <2>4, <2>5, <2>6 DEF Placed
<1>6. ASSUME NEW i \in 1 .. Len(q) PROVE Placed(r, i + Len(p))
  <2> DEFINE k == i + Len(p)
  <2>1. Placed(q, i) /\ r[k] = q[i]
    BY <1>4 DEF Shaped
  <2>2. i > 1 => r[k - 1] = q[i - 1] /\ k > 1
    <3>1. ASSUME i > 1 PROVE i - 1 \in 1 .. Len(q) /\ (i - 1) + Len(p) = k - 1 /\ k > 1
      BY <1>1, <3>1, SMT
    <3> QED BY <3>1, <1>4
  <2>3. AfterStop(q, i) => AfterStop(r, k)
    BY <2>2 DEF AfterStop
  <2>4. i > 1 /\ AfterStop(q, i - 1) => AfterStop(r, k - 1)
    <3>1. ASSUME i - 1 > 1
          PROVE  i - 1 - 1 \in 1 .. Len(q) /\ (i - 1 - 1) + Len(p) = k - 1 - 1
                 /\ k - 1 > 1
      BY <1>1, <3>1, SMT
    <3> QED BY <3>1, <1>4 DEF AfterStop
  <2>5. \A m \in i + 1 .. Len(q) :
            m + Len(p) \in k + 1 .. Len(r) /\ r[m + Len(p)] = q[m]
    BY <1>1, <1>2, <1>4, SMT
  <2>6. i = 1 =>
            \/ k = 1 \/ r[k - 1].name = "stack.stop"
            \/ r[k - 1].name = "sampler.stop" /\ AfterStop(r, k - 1)
    <3>1. SUFFICES ASSUME i = 1, Len(p) # 0
                   PROVE  \/ r[k - 1].name = "stack.stop"
                          \/ r[k - 1].name = "sampler.stop" /\ AfterStop(r, k - 1)
      BY <1>1, SMT
    <3>2. k - 1 = Len(p) /\ Len(p) \in 1 .. Len(p) /\ p # <<>>
      BY <1>1, <3>1, SMT
    <3>3. r[Len(p)] = p[Len(p)]
      BY <1>3, <3>2
    <3>4. Len(p) > 1 => r[Len(p) - 1] = p[Len(p) - 1]
      BY <1>1, <1>3, SMT
    <3> QED BY <3>2, <3>3, <3>4 DEF EndsDown, AfterStop
  <2>7. i = 1 \/ i > 1
    BY <1>1, SMT
  <2> HIDE DEF k
  <2>8. q[i].name = "sampler.start" => \E m \in k + 1 .. Len(r) : r[m].name = "sampler.stop"
    BY <2>1, <2>5 DEF Placed
  <2> QED BY <2>1, <2>2, <2>3, <2>4, <2>6, <2>7, <2>8 DEF Placed, k
<1>7. ASSUME NEW k \in 1 .. Len(r) PROVE Placed(r, k)
  <2>1. CASE k <= Len(p)
    <3>1. k \in 1 .. Len(p)
      BY <1>1, <1>2, <2>1, SMT
    <3> QED BY <3>1, <1>5
  <2>2. CASE k > Len(p)
    <3>1. k - Len(p) \in 1 .. Len(q) /\ (k - Len(p)) + Len(p) = k
      BY <1>1, <1>2, <2>2, SMT
    <3>2. Placed(r, (k - Len(p)) + Len(p))
      BY <3>1, <1>6
    <3> QED BY <3>1, <3>2
  <2> QED BY <1>1, <1>2, <2>1, <2>2, SMT
<1>8. EndsDown(r)
  <2>1. CASE Len(q) = 0
    <3>1. Len(r) = Len(p) /\ (r # <<>> => p # <<>>)
      BY <1>1, <1>2, <2>1, SMT
    <3>2. Len(p) > 0 => r[Len(p)] = p[Len(p)]
      BY <1>1, <1>3, SMT
    <3>3. Len(p) > 1 => r[Len(p) - 1] = p[Len(p) - 1]
      BY <1>1, <1>3, SMT
    <3>4. p # <<>> => Len(p) > 0
      BY <1>1, EmptySeq, SMT
    <3> QED BY <3>1, <3>2, <3>3, <3>4 DEF EndsDown, AfterStop
  <2>2. CASE Len(q) # 0
    <3>1. Len(q) \in 1 .. Len(q) /\ Len(r) = Len(q) + Len(p) /\ q # <<>>
      BY <1>1, <1>2, <2>2, SMT
    <3>2. r[Len(r)] = q[Len(q)]
      BY <3>1, <1>4
    <3>3. Len(q) > 1 => r[Len(r) - 1] = q[Len(q) - 1] /\ Len(r) > 1
      <4>1. ASSUME Len(q) > 1
            PROVE  Len(q) - 1 \in 1 .. Len(q) /\ (Len(q) - 1) + Len(p) = Len(r) - 1
                   /\ Len(r) > 1
        BY <1>1, <3>1, <4>1, SMT
      <4> QED BY <4>1, <1>4
    <3> QED BY <3>1, <3>2, <3>3 DEF EndsDown, AfterStop
  <2> QED BY <2>1, <2>2
<1> QED BY <1>2, <1>7, <1>8 DEF Shaped, r

LEMMA ProgramShape == Shaped(Program) /\ Len(Program) \in Nat
<1> DEFINE c == IF Mode \in {"cold", "all"} THEN ColdRun ELSE <<>>
           w == IF Mode \in {"warm", "all"} THEN WarmBody ELSE <<>>
<1>1. Shaped(<<>>) /\ EndsDown(<<>>)
  BY SMT DEF Shaped, EndsDown
<1>2. Shaped(c) /\ EndsDown(c)
  BY <1>1, ColdRunShape
<1>3. Shaped(w) /\ EndsDown(w)
  BY <1>1, WarmBodyShape
<1>4. Program = c \o w
  BY DEF Program, WarmBody, Warm
<1> HIDE DEF c, w
<1>5. Shaped(Program)
  BY <1>2, <1>3, <1>4, ConcatShaped
<1> QED BY <1>5, LenProperties DEF Shaped

---------------------------------------------------------------------------
(* Sequences. *)

LEMMA HeadAndTail ==
    ASSUME NEW S, NEW q \in Seq(S), q # <<>>
    PROVE  /\ Len(q) \in Nat \ {0} /\ Head(q) \in S /\ Tail(q) \in Seq(S)
           /\ Head(q) = q[1] /\ Len(Tail(q)) = Len(q) - 1
           /\ \A i \in 1 .. Len(q) - 1 : Tail(q)[i] = q[i + 1]
BY HeadTailProperties, EmptySeq, SMT

LEMMA WithoutProperties ==
    ASSUME NEW S, NEW q \in Seq(S), NEW k \in 1 .. Len(q)
    PROVE  /\ Without(q, k) \in Seq(S) /\ Len(Without(q, k)) = Len(q) - 1
           /\ \A i \in 1 .. Len(q) - 1 :
                 Without(q, k)[i] = IF i < k THEN q[i] ELSE q[i + 1]
<1> DEFINE a == SubSeq(q, 1, k - 1)
           b == SubSeq(q, k + 1, Len(q))
<1>1. Len(q) \in Nat /\ \A i \in 1 .. Len(q) : q[i] \in S
  BY LenProperties, ElementOfSeq
<1>2. \A i \in 1 .. k - 1 : q[i] \in S
  BY <1>1, SMT
<1>3. \A i \in k + 1 .. Len(q) : q[i] \in S
  BY <1>1, SMT
<1>4. k - 1 \in Int /\ k + 1 \in Int /\ Len(q) \in Int /\ 1 \in Int
  BY <1>1, SMT
<1>5. /\ a \in Seq(S) /\ Len(a) = IF 1 <= k - 1 THEN k - 1 - 1 + 1 ELSE 0
      /\ \A i \in 1 .. k - 1 - 1 + 1 : a[i] = q[1 + i - 1]
  BY <1>2, <1>4, SubSeqProperties
<1>6. /\ b \in Seq(S) /\ Len(b) = IF k + 1 <= Len(q) THEN Len(q) - (k + 1) + 1 ELSE 0
      /\ \A i \in 1 .. Len(q) - (k + 1) + 1 : b[i] = q[k + 1 + i - 1]
  BY <1>3, <1>4, SubSeqProperties
<1> HIDE DEF a, b
<1>7. Len(a) = k - 1 /\ \A i \in 1 .. k - 1 : a[i] = q[i]
  BY <1>1, <1>5, SMT
<1>8. Len(b) = Len(q) - k /\ \A i \in 1 .. Len(q) - k : b[i] = q[k + i]
  BY <1>1, <1>6, SMT
<1>9. /\ a \o b \in Seq(S) /\ Len(a \o b) = Len(a) + Len(b)
      /\ \A i \in 1 .. Len(a) + Len(b) :
            (a \o b)[i] = IF i <= Len(a) THEN a[i] ELSE b[i - Len(a)]
  BY <1>5, <1>6, ConcatProperties
<1>10. Without(q, k) = a \o b
  BY DEF Without, a, b
<1> HIDE DEF Without
<1>11. Len(a) + Len(b) = Len(q) - 1
  BY <1>1, <1>7, <1>8, SMT
<1>12. ASSUME NEW i \in 1 .. Len(q) - 1
       PROVE  (a \o b)[i] = IF i < k THEN q[i] ELSE q[i + 1]
  <2>1. CASE i < k
    BY <1>1, <1>7, <1>9, <1>11, <2>1, SMT
  <2>2. CASE i >= k
    <3>1. (a \o b)[i] = b[i - (k - 1)] /\ i - (k - 1) \in 1 .. Len(q) - k
      BY <1>1, <1>7, <1>9, <1>11, <2>2, SMT
    <3>2. k + (i - (k - 1)) = i + 1
      BY <1>1, SMT
    <3>3. b[i - (k - 1)] = q[i + 1]
      BY <1>8, <3>1, <3>2
    <3> QED BY <3>1, <3>3, <2>2, <1>1, SMT
  <2>3. i < k \/ i >= k
    BY <1>1, SMT
  <2> QED BY <2>1, <2>2, <2>3
<1> QED BY <1>9, <1>10, <1>11, <1>12

---------------------------------------------------------------------------
(* Types. *)

Quiet == {"idle", "turn", "drain", "close"}

\* run_turn's locals are fresh outside of it, a call with too many failures
\* closes, and a call is under way only where the program has come to one.
Fresh ==
    /\ phase \in Quiet =>
          /\ parts = 0 /\ audioOf = <<>> /\ benchEvents = <<>>
          /\ status = "no_response" /\ ~late
    /\ phase \notin {"idle", "close"} => failures < MaxConsecutiveFailures
    /\ phase # "idle" => At("run_call")
TypeInv == TypeOK /\ Fresh

\* Between the steps of main the services, the threads and time move, and
\* main's own steps within a call move nothing of the program or the stack.
CallStep ==
    TurnStep \/ Deadline \/ AudioRead \/ LineRead \/ LineMissed \/ EngineStep

Others == Listeners \/ Services
Survivors == SurvivorListens \/ SurvivorEnds

LEMMA CallStepFrame ==
    CallStep => UNCHANGED runVars /\ (phase' # "idle" => phase # "idle")
<1> SUFFICES ASSUME CallStep
             PROVE  UNCHANGED runVars /\ (phase' # "idle" => phase # "idle")
  OBVIOUS
<1>1. CASE TurnStep
  BY <1>1, SMT DEF TurnStep, RunTurn, DrainBench, DrainRx, SpeechEnds, AwaitAudio,
       AwaitBench, CompleteAudio, CompleteBench, PauseEnds, LastTurnDone
<1>2. CASE Deadline
  BY <1>2 DEF Deadline, DeadlinePasses
<1>3. CASE AudioRead
  BY <1>3 DEF AudioRead, Read, clientVars
<1>4. CASE LineRead \/ LineMissed
  BY <1>4 DEF LineRead, LineMissed, HandleLine, clientVars
<1>5. CASE EngineStep
  <2>1. UNCHANGED runVars
    BY <1>5 DEF EngineStep, runVars
  <2>2. Engine
    BY <1>5 DEF EngineStep
  <2>3. UNCHANGED clientVars
    BY <2>2 DEF Engine, Speak, Boundary, FirstToken, PutChunk, LogsBench
  <2> QED BY <2>1, <2>3 DEF clientVars
<1> QED BY <1>1, <1>2, <1>3, <1>4, <1>5 DEF CallStep

\* A process that runs may survive, and listens then if it did.
LEMMA StopSurvivors ==
    ASSUME Stop
    PROVE  \A p \in forgotten' : p \in forgotten \/ \E kind \in Kinds :
               p = <<kind, Own(kind) = "listening">> /\ Own(kind) # "none"
<1>1. PICK survivors \in SUBSET Running : forgotten' = forgotten \cup survivors
  BY DEF Stop
<1>2. \A p \in Running : \E kind \in Kinds :
          p = <<kind, Own(kind) = "listening">> /\ Own(kind) # "none"
  BY DEF Running
<1> QED BY <1>1, <1>2

\* What a survivor does is seen of a call only in what an engine has in work.
LEMMA SurvivorsFrame ==
    ASSUME Survivors
    PROVE  /\ UNCHANGED <<clientVars, rx, benchQ, ttftPending, wire, turnGhosts>>
           /\ UNCHANGED <<pc, step, engine, gateway, tail, logs, sampling, raised>>
           /\ \/ UNCHANGED <<open, replies, log>>
              \/ /\ <<"engine", TRUE>> \in forgotten
                 /\ open' = 0 /\ replies' = <<>> /\ log' = <<>>
<1>1. CASE SurvivorListens
  BY <1>1 DEF SurvivorListens, turnVars, serverVars
<1>2. CASE SurvivorEnds
  BY <1>2 DEF SurvivorEnds
<1> QED BY <1>1, <1>2 DEF Survivors

\* A survivor that comes to listen is of a kind nobody listened for, and one that
\* ends adds nothing.
LEMMA WhoSurvives ==
    ASSUME Survivors
    PROVE  \/ forgotten' \subseteq forgotten
           \/ \E kind \in Kinds :
                 /\ <<kind, FALSE>> \in forgotten /\ Own(kind) # "listening"
                 /\ forgotten' \subseteq forgotten \cup {<<kind, TRUE>>}
<1>1. CASE SurvivorListens
  BY <1>1 DEF SurvivorListens, PortOpen
<1>2. CASE SurvivorEnds
  BY <1>2 DEF SurvivorEnds
<1> QED BY <1>1, <1>2 DEF Survivors

LEMMA InitTypes == Init => TypeInv
<1> SUFFICES ASSUME Init PROVE TypeInv
  OBVIOUS
<1>1. Ended \in Nat /\ 1 \in 1 .. Ended
  BY ProgramShape, SMT DEF Ended
<1>2. TypeOK
  <2>1. tail \in [tag : Tags \cup {<<>>}, file : {"none", "old", "new"}]
    BY DEF Init, NoTail
  <2>2. /\ audioOf \in Seq(Turns) /\ rx \in Seq(Turns) /\ wire \in Seq(Turns)
        /\ benchEvents \in Seq(BenchLine) /\ benchQ \in Seq(BenchLine)
        /\ log \in Seq(LogLine) /\ replies \in Seq(Answer)
    BY EmptySeq DEF Init, TurnInit
  <2>3. /\ phase \in Phases /\ call \in Nat /\ lastTurn \in Nat /\ turn \in 0 .. lastTurn
        /\ failures \in 0 .. MaxConsecutiveFailures
        /\ status \in {"ok", "no_response", "no_audio", "no_completion"}
        /\ ttftPending \in Turns /\ open \in Turns
        /\ parts \in Nat /\ splits \in 0 .. MaxSplits
    BY TurnAssumption, SMT DEF Init, TurnInit, Phases, Turns
  <2>4. /\ late \in BOOLEAN /\ stale \in BOOLEAN
        /\ overtaken \in BOOLEAN /\ disturbed \in BOOLEAN
    BY DEF Init, TurnInit
  <2> QED BY <1>1, <2>1, <2>2, <2>3, <2>4, RunAssumption DEF Init, TypeOK, TurnTypes, StackTypes
<1>3. Fresh
  BY TurnAssumption, SMT DEF Init, TurnInit, Fresh
<1> QED BY <1>2, <1>3 DEF TypeInv

LEMMA EngineTypes == TurnTypes /\ Engine => TurnTypes'
<1> SUFFICES ASSUME TurnTypes, Engine PROVE TurnTypes'
  OBVIOUS
<1> USE DEF TurnTypes
<1>1. ASSUME Speak PROVE TurnTypes'
  <2>1. UNCHANGED <<clientVars, rx, benchQ, ttftPending, replies, wire, log, overtaken,
                    disturbed>> /\ open' = turn /\ parts' = parts + 1
        /\ splits' = splits + parts /\ splits + parts <= MaxSplits
    BY <1>1 DEF Speak
  <2>2. open' \in 0 .. turn /\ parts' \in Nat /\ splits' \in 0 .. MaxSplits
    BY <2>1, TurnAssumption, SMT
  <2> QED BY <2>1, <2>2 DEF clientVars, Turns, BenchLine, LogLine, Answer
<1>2. ASSUME Boundary PROVE TurnTypes'
  <2>1. [turn |-> open, call |-> call, token |-> FALSE, put |-> 0] \in Answer
    BY TurnAssumption, SMT DEF Answer
  <2>2. replies' \in Seq(Answer) /\ open' \in Turns
    BY <1>2, <2>1, AppendProperties, SMT DEF Boundary, Turns
  <2>3. UNCHANGED <<clientVars, rx, benchQ, ttftPending, wire, log, turnGhosts>>
    BY <1>2 DEF Boundary
  <2> QED BY <2>2, <2>3 DEF clientVars, turnGhosts, Turns, BenchLine, LogLine, Answer
<1>3. ASSUME NEW k \in 1 .. Len(replies), FirstToken(k) PROVE TurnTypes'
  <2>1. replies[k] \in Answer
    BY ElementOfSeq
  <2>2. [replies[k] EXCEPT !.token = TRUE] \in Answer
    BY <2>1 DEF Answer
  <2>3. replies' \in Seq(Answer)
    BY <1>3, <2>2, ExceptSeq DEF FirstToken
  <2>4. [kind |-> "TTFT", turn |-> replies[k].turn, audio |-> FALSE] \in LogLine
    BY <2>1 DEF Answer, LogLine
  <2>5. log' \in Seq(LogLine)
    BY <1>3, <2>4, AppendProperties DEF FirstToken
  <2>6. UNCHANGED <<clientVars, rx, benchQ, ttftPending, open, wire, turnGhosts>>
    BY <1>3 DEF FirstToken
  <2> QED BY <2>3, <2>5, <2>6 DEF clientVars, turnGhosts, Turns, BenchLine, LogLine, Answer
<1>4. ASSUME NEW k \in 1 .. Len(replies), PutChunk(k) PROVE TurnTypes'
  <2>1. replies[k] \in Answer
    BY ElementOfSeq
  <2>2. replies[k].put + 1 \in 0 .. MaxReply /\ replies[k].turn \in Turns
    <3>1. replies[k].put < MaxReply \/ replies[k].put < 1 \/ replies[k].put = 0
      BY <1>4 DEF PutChunk, MoreChunks
    <3>2. replies[k].put \in 0 .. MaxReply /\ replies[k].turn \in Turns
      BY <2>1 DEF Answer
    <3>3. MaxReply \in Nat \ {0}
      BY TurnAssumption
    <3> HIDE DEF TurnTypes
    <3> QED BY <3>1, <3>2, <3>3, SMT
  <2>3. [replies[k] EXCEPT !.put = replies[k].put + 1] \in Answer
    BY <2>1, <2>2 DEF Answer
  <2>4. replies' \in Seq(Answer)
    BY <1>4, <2>3, ExceptSeq DEF PutChunk
  <2>5. wire' \in Seq(Turns)
    <3>1. wire' = wire \/ wire' = Append(wire, replies[k].turn)
      BY <1>4 DEF PutChunk
    <3>2. wire \in Seq(Turns) /\ replies[k].turn \in Turns
      BY <2>2
    <3>3. Append(wire, replies[k].turn) \in Seq(Turns)
      BY <3>2, AppendProperties
    <3> QED BY <3>1, <3>2, <3>3
  <2>6. UNCHANGED <<clientVars, rx, benchQ, ttftPending, open, log, turnGhosts>>
    BY <1>4 DEF PutChunk
  <2> QED BY <2>4, <2>5, <2>6 DEF clientVars, turnGhosts, Turns, BenchLine, LogLine, Answer
<1>5. ASSUME NEW k \in 1 .. Len(replies), LogsBench(k) PROVE TurnTypes'
  <2>1. replies[k] \in Answer
    BY ElementOfSeq
  <2>2. replies' \in Seq(Answer)
    BY <1>5, WithoutProperties DEF LogsBench
  <2>3. [kind |-> "BENCH", turn |-> replies[k].turn, audio |-> replies[k].put > 0]
            \in LogLine
    BY <2>1 DEF Answer, LogLine
  <2>4. log' \in Seq(LogLine)
    BY <1>5, <2>3, AppendProperties DEF LogsBench
  <2>5. UNCHANGED <<clientVars, rx, benchQ, ttftPending, open, wire, turnGhosts>>
    BY <1>5 DEF LogsBench
  <2> QED BY <2>2, <2>4, <2>5 DEF clientVars, turnGhosts, Turns, BenchLine, LogLine, Answer
<1> QED BY <1>1, <1>2, <1>3, <1>4, <1>5 DEF Engine

LEMMA ListenerTypes ==
    TurnTypes /\ (AudioRead \/ LineRead \/ LineMissed) => TurnTypes'
<1> SUFFICES ASSUME TurnTypes PROVE AudioRead \/ LineRead \/ LineMissed => TurnTypes'
  OBVIOUS
<1> USE DEF TurnTypes
<1>1. ASSUME AudioRead PROVE TurnTypes'
  <2>1. Read
    BY <1>1 DEF AudioRead
  <2>2. Head(wire) \in Turns /\ wire' \in Seq(Turns)
    BY <2>1, HeadAndTail DEF Read
  <2>3. rx' \in Seq(Turns)
    BY <2>1, <2>2, AppendProperties DEF Read
  <2>4. UNCHANGED <<clientVars, benchQ, ttftPending, serverVars, log, turnGhosts>>
    BY <2>1 DEF Read
  <2> QED BY <2>2, <2>3, <2>4
          DEF clientVars, serverVars, turnGhosts, Turns, BenchLine, LogLine, Answer
<1>2. ASSUME LineRead PROVE TurnTypes'
  <2>1. HandleLine
    BY <1>2 DEF LineRead
  <2>2. Head(log) \in LogLine /\ log' \in Seq(LogLine)
    BY <2>1, HeadAndTail DEF HandleLine
  <2>3. [turn |-> Head(log).turn, audio |-> Head(log).audio, ttft |-> ttftPending]
            \in BenchLine
    BY <2>2 DEF LogLine, BenchLine
  <2>4. 0 \in Turns
    BY SMT DEF Turns
  <2>5. benchQ' \in Seq(BenchLine) /\ ttftPending' \in Turns
    <3>1. CASE Head(log).kind = "TTFT"
      BY <3>1, <2>1, <2>2 DEF HandleLine, LogLine
    <3>2. CASE Head(log).kind # "TTFT"
      <4> DEFINE line == [turn |-> Head(log).turn, audio |-> Head(log).audio,
                          ttft |-> ttftPending]
      <4>1. benchQ' = Append(benchQ, line) /\ ttftPending' = 0
        BY <3>2, <2>1 DEF HandleLine
      <4> HIDE DEF line
      <4>2. line \in BenchLine /\ benchQ \in Seq(BenchLine)
        BY <2>3 DEF line
      <4> QED BY <4>1, <4>2, <2>4, AppendProperties
    <3> QED BY <3>1, <3>2
  <2>6. UNCHANGED <<clientVars, rx, serverVars, wire, turnGhosts>>
    BY <2>1 DEF HandleLine
  <2> QED BY <2>2, <2>5, <2>6
          DEF clientVars, serverVars, turnGhosts, Turns, BenchLine, LogLine, Answer
<1>3. ASSUME LineMissed PROVE TurnTypes'
  <2>1. log' \in Seq(LogLine)
    BY <1>3, HeadAndTail DEF LineMissed
  <2>2. UNCHANGED <<clientVars, rx, benchQ, ttftPending, serverVars, wire, turnGhosts>>
    BY <1>3 DEF LineMissed
  <2> QED BY <2>1, <2>2
          DEF clientVars, serverVars, turnGhosts, Turns, BenchLine, LogLine, Answer
<1> QED BY <1>1, <1>2, <1>3

LEMMA TakeBenchTypes ==
    ASSUME TurnTypes, TakeBench
    PROVE  /\ benchEvents' \in Seq(BenchLine) /\ benchEvents' # <<>>
           /\ benchQ' \in Seq(BenchLine) /\ overtaken' \in BOOLEAN
           /\ Head(benchQ) \in BenchLine
<1>1. Head(benchQ) \in BenchLine /\ benchQ' \in Seq(BenchLine)
  BY HeadAndTail DEF TurnTypes, TakeBench
<1>2. benchEvents \in Seq(BenchLine) /\ Head(benchQ) \in BenchLine
  BY <1>1 DEF TurnTypes
<1>3. benchEvents' = Append(benchEvents, Head(benchQ))
  BY DEF TakeBench
<1>4. benchEvents' \in Seq(BenchLine) /\ benchEvents' # <<>>
  BY <1>2, <1>3, AppendProperties
<1>5. overtaken' \in BOOLEAN
  BY DEF TakeBench
<1> QED BY <1>1, <1>4, <1>5

LEMMA TurnStepTypes == TurnTypes /\ Fresh /\ TurnStep => TurnTypes'
<1> SUFFICES ASSUME TurnTypes, Fresh, RunTurn PROVE TurnTypes'
  BY DEF TurnStep
<1> USE DEF TurnTypes
<1>1. ASSUME DrainBench PROVE TurnTypes'
  <2>1. /\ turn' = turn + 1 /\ turn < lastTurn /\ phase' = "drain"
        /\ stale' = (benchQ # <<>>) /\ benchQ' = <<>>
        /\ UNCHANGED <<call, lastTurn, failures, late, status, audioOf, benchEvents,
                       rx, ttftPending, serverVars, wire, log, turnGhosts>>
    BY <1>1 DEF DrainBench
  <2>2. Turns \subseteq Turns' /\ turn' \in 0 .. lastTurn
    BY <2>1, SMT DEF Turns
  <2>3. /\ BenchLine \subseteq BenchLine' /\ LogLine \subseteq LogLine'
        /\ Answer \subseteq Answer'
    BY <2>2 DEF BenchLine, LogLine, Answer
  <2> HIDE DEF Turns, BenchLine, LogLine, Answer
  <2>4. audioOf \in Seq(Turns') /\ rx \in Seq(Turns') /\ wire \in Seq(Turns')
    BY <2>2, SeqMonotonic
  <2>5. benchEvents \in Seq(BenchLine')
    BY <2>3, SeqMonotonic
  <2>6. log \in Seq(LogLine')
    BY <2>3, SeqMonotonic
  <2>7. replies \in Seq(Answer')
    BY <2>3, SeqMonotonic
  <2>8. benchQ' \in Seq(BenchLine') /\ stale' \in BOOLEAN /\ phase' \in Phases
    BY <2>1, EmptySeq DEF Phases
  <2> QED BY <2>1, <2>2, <2>4, <2>5, <2>6, <2>7, <2>8 DEF serverVars, turnGhosts
<1>2. ASSUME DrainRx PROVE TurnTypes'
  <2>1. rx' \in Seq(Turns) /\ phase' \in Phases
    BY <1>2, EmptySeq DEF DrainRx, Phases
  <2> QED BY <1>2, <2>1 DEF DrainRx, serverVars, turnGhosts, Turns, BenchLine, LogLine,
          Answer
<1>3. ASSUME SpeechEnds \/ LastTurnDone PROVE TurnTypes'
  <2>1. phase' \in Phases
    BY <1>3 DEF SpeechEnds, LastTurnDone, Phases
  <2> QED BY <1>3, <2>1 DEF SpeechEnds, LastTurnDone, serverVars, turnGhosts, Turns,
          BenchLine, LogLine, Answer
<1>4. ASSUME AwaitAudio PROVE TurnTypes'
  <2>1. rx # <<>> => Head(rx) \in Turns /\ Tail(rx) \in Seq(Turns)
    BY HeadAndTail
  <2>2. rx # <<>> => <<Head(rx)>> \in Seq(Turns)
    BY <2>1, SMT
  <2>3. /\ phase' \in Phases /\ audioOf' \in Seq(Turns) /\ rx' \in Seq(Turns)
        /\ status' \in {"ok", "no_response", "no_audio", "no_completion"}
        /\ late' \in BOOLEAN
    BY <1>4, <2>1, <2>2 DEF AwaitAudio, Phases
  <2> QED BY <1>4, <2>3 DEF AwaitAudio, serverVars, turnGhosts, Turns, BenchLine, LogLine,
          Answer
<1>5. ASSUME AwaitBench PROVE TurnTypes'
  <2>1. /\ benchEvents' \in Seq(BenchLine) /\ benchQ' \in Seq(BenchLine)
        /\ overtaken' \in BOOLEAN
    BY <1>5, TakeBenchTypes DEF AwaitBench
  <2>2. /\ phase' \in Phases
        /\ status' \in {"ok", "no_response", "no_audio", "no_completion"}
    BY <1>5 DEF AwaitBench, Phases
  <2> QED BY <1>5, <2>1, <2>2 DEF AwaitBench, serverVars, Turns, BenchLine, LogLine,
          Answer
<1>6. ASSUME CompleteAudio PROVE TurnTypes'
  <2>1. rx # <<>> => /\ Head(rx) \in Turns /\ Tail(rx) \in Seq(Turns)
                     /\ Append(audioOf, Head(rx)) \in Seq(Turns)
    BY HeadAndTail, AppendProperties
  <2>2. /\ audioOf' \in Seq(Turns) /\ rx' \in Seq(Turns) /\ phase' \in Phases
        /\ status' \in {"ok", "no_response", "no_audio", "no_completion"}
    BY <1>6, <2>1 DEF CompleteAudio, Phases
  <2> QED BY <1>6, <2>2 DEF CompleteAudio, serverVars, turnGhosts, Turns, BenchLine,
          LogLine, Answer
<1>7. ASSUME CompleteBench PROVE TurnTypes'
  <2>1. /\ benchEvents' \in Seq(BenchLine) /\ benchQ' \in Seq(BenchLine)
        /\ overtaken' \in BOOLEAN
    BY <1>7, TakeBenchTypes DEF CompleteBench
  <2>2. phase' \in Phases
    BY <1>7 DEF CompleteBench, Phases
  <2> QED BY <1>7, <2>1, <2>2 DEF CompleteBench, serverVars, Turns, BenchLine, LogLine,
          Answer
<1>8. ASSUME PauseEnds PROVE TurnTypes'
  <2>1. failures < MaxConsecutiveFailures
    BY <1>8 DEF Fresh, PauseEnds
  <2>2. failures' = 0 \/ failures' = failures + 1
    BY <1>8 DEF PauseEnds
  <2>3. failures' \in 0 .. MaxConsecutiveFailures
    BY <2>1, <2>2, TurnAssumption, SMT
  <2>4. /\ phase' \in Phases /\ disturbed' \in BOOLEAN /\ late' \in BOOLEAN
        /\ stale' \in BOOLEAN /\ overtaken' \in BOOLEAN /\ status' = "no_response"
        /\ audioOf' = <<>> /\ benchEvents' = <<>> /\ parts' = 0
        /\ UNCHANGED <<call, turn, lastTurn, rx, benchQ, ttftPending, serverVars,
                       wire, log, splits>>
    BY <1>8 DEF PauseEnds, TurnForgotten, Phases
  <2> QED BY <2>3, <2>4, EmptySeq DEF serverVars, Turns, BenchLine, LogLine, Answer
<1> QED BY <1>1, <1>2, <1>3, <1>4, <1>5, <1>6, <1>7, <1>8 DEF RunTurn

\* The operations that the program consists of.
LEMMA AtOps ==
    ASSUME pc \in 1 .. Ended
    PROVE  /\ \A name \in Names : At(name) =>
                  /\ pc \in 1 .. Len(Program) /\ Program[pc] \in Ops
                  /\ Program[pc].name = name /\ Placed(Program, pc)
                  /\ pc + 1 \in 1 .. Ended /\ pc + 1 # Ended
           /\ Len(Program) + 1 \in 1 .. Ended /\ Ended \in 1 .. Ended
           /\ Len(Program) + 1 # Ended
<1>1. Len(Program) \in Nat /\ Ended = Len(Program) + 2
  BY ProgramShape DEF Ended
<1>2. ASSUME NEW name \in Names, At(name)
      PROVE  /\ pc \in 1 .. Len(Program) /\ Program[pc] \in Ops
             /\ Program[pc].name = name /\ Placed(Program, pc)
             /\ pc + 1 \in 1 .. Ended /\ pc + 1 # Ended
  <2>1. pc <= Len(Program) /\ Program[pc].name = name
    BY <1>2 DEF At
  <2>2. pc \in 1 .. Len(Program) /\ pc + 1 \in 1 .. Ended /\ pc + 1 # Ended
    BY <1>1, <2>1, SMT
  <2> QED BY <2>1, <2>2, ProgramShape, ElementOfSeq DEF Shaped
<1> QED BY <1>1, <1>2, SMT

\* Services are stopped, and the program ends, between calls only.
LEMMA StopsBetweenCalls ==
    ASSUME Fresh, \/ \E name \in Names \ {"run_call"} : At(name)
                  \/ pc = Len(Program) + 1
    PROVE  phase = "idle" /\ ~At("run_call")
<1>1. ~At("run_call")
  BY ProgramShape, SMT DEF At
<1> QED BY <1>1 DEF Fresh

LEMMA StopTypes ==
    ASSUME TurnTypes, Fresh, phase = "idle", Stop
    PROVE  TurnTypes'
<1> USE DEF TurnTypes
<1>1. audioOf = <<>> /\ benchEvents = <<>> /\ parts = 0
  BY DEF Fresh, Quiet
<1>2. /\ rx' = <<>> /\ benchQ' = <<>> /\ ttftPending' = 0
      /\ open' = 0 /\ replies' = <<>> /\ wire' = <<>> /\ log' = <<>>
      /\ call' = 0 /\ turn' = 0 /\ lastTurn' = 0 /\ failures' = 0
      /\ splits' = 0 /\ disturbed' = FALSE
      /\ UNCHANGED <<phase, late, stale, status, audioOf, benchEvents, parts,
                     overtaken>>
  BY DEF Stop
<1>3. audioOf' = <<>> /\ benchEvents' = <<>>
  BY <1>1, <1>2
<1>4. /\ audioOf' \in Seq(Turns') /\ rx' \in Seq(Turns') /\ wire' \in Seq(Turns')
      /\ benchEvents' \in Seq(BenchLine') /\ benchQ' \in Seq(BenchLine')
      /\ log' \in Seq(LogLine') /\ replies' \in Seq(Answer')
  BY <1>2, <1>3, EmptySeq
<1>5. /\ turn' \in 0 .. lastTurn' /\ ttftPending' \in Turns' /\ open' \in Turns'
      /\ splits' \in 0 .. MaxSplits /\ failures' \in 0 .. MaxConsecutiveFailures
      /\ call' \in Nat /\ lastTurn' \in Nat
  BY <1>2, TurnAssumption, SMT DEF Turns
<1>6. disturbed' \in BOOLEAN
  BY <1>2
<1> QED BY <1>2, <1>4, <1>5, <1>6

LEMMA CallTypes ==
    ASSUME TypeInv, CallOpens \/ CallCloses \/ Deadline
    PROVE  TurnTypes'
<1> USE DEF TypeInv, TypeOK, TurnTypes
<1>1. CASE CallOpens
  <2>1. Program[pc].turns \in Nat
    BY <1>1, AtOps DEF CallOpens, Names, Ops, StackTypes
  <2>2. /\ phase' = "turn" /\ call' = call + 1 /\ lastTurn' = turn + Program[pc].turns
        /\ failures' = 0
        /\ UNCHANGED <<turn, late, stale, status, audioOf, benchEvents, rx, benchQ,
                       ttftPending, serverVars, wire, log, turnGhosts>>
    BY <1>1 DEF CallOpens, CallBegins
  <2>3. call' \in Nat /\ lastTurn' \in Nat /\ turn' \in 0 .. lastTurn'
        /\ failures' \in 0 .. MaxConsecutiveFailures /\ phase' \in Phases
    <3>1. /\ call' = call + 1 /\ lastTurn' = turn + Program[pc].turns
          /\ failures' = 0 /\ turn' = turn /\ phase' = "turn"
      BY <2>2
    <3>2. call \in Nat /\ turn \in Nat
      BY SMT
    <3>3. MaxConsecutiveFailures \in Nat
      BY TurnAssumption
    <3> HIDE DEF TypeInv, TypeOK, TurnTypes
    <3>4. phase' \in Phases
      BY <3>1 DEF Phases
    <3> QED BY <3>1, <3>2, <3>3, <3>4, <2>1, SMT
  <2> QED BY <2>2, <2>3 DEF serverVars, turnGhosts, Turns, BenchLine, LogLine, Answer
<1>2. CASE CallCloses
  <2>1. /\ phase' = "idle" /\ open' = 0 /\ wire' = <<>> /\ rx' = <<>>
        /\ UNCHANGED <<call, turn, lastTurn, failures, late, stale, status, audioOf,
                       benchEvents, benchQ, ttftPending, replies, log, turnGhosts>>
    BY <1>2 DEF CallCloses, Close
  <2>2. open' \in Turns /\ phase' \in Phases
    BY <2>1, SMT DEF Turns, Phases
  <2> QED BY <2>1, <2>2, EmptySeq DEF turnGhosts, Turns, BenchLine, LogLine, Answer
<1>3. CASE Deadline
  BY <1>3 DEF Deadline, DeadlinePasses, serverVars, turnGhosts, Turns, BenchLine, LogLine,
       Answer
<1> QED BY <1>1, <1>2, <1>3

LEMMA StackStepTypes ==
    ASSUME TypeInv, Main \/ Others \/ Deadline
    PROVE  StackTypes'
<1> USE DEF TypeInv, TypeOK, StackTypes
<1>1. \A name \in Names : At(name) => pc + 1 \in 1 .. Ended
  BY AtOps
<1>2. Len(Program) + 1 \in 1 .. Ended /\ Ended \in 1 .. Ended
  BY AtOps
<1>3. \A name \in Names : At(name) /\ Done => pc' \in 1 .. Ended /\ raised' \in BOOLEAN
  BY <1>1 DEF Done
<1>4. Raise => pc' \in 1 .. Ended /\ raised' \in BOOLEAN
  BY <1>2 DEF Raise
<1>5. CASE Build
  BY <1>3, <1>4, <1>5 DEF Build, Names, stackVars
<1>6. CASE SamplerStart \/ SamplerStop
  BY <1>3, <1>4, <1>6 DEF SamplerStart, SamplerStop, Names, stackVars
<1>7. CASE CheckPorts
  BY <1>4, <1>7 DEF CheckPorts, StartFails, stackVars
<1>8. CASE StartTail
  <2>1. Tag \in Tags
    BY <1>8, AtOps DEF StartTail, Starting, Names, Placed, Tag
  <2>2. tail' \in [tag : Tags \cup {<<>>}, file : {"none", "old", "new"}]
    BY <1>8, <2>1 DEF StartTail
  <2> QED BY <1>8, <2>2 DEF StartTail
<1>9. CASE SpawnEngine
  <2>1. Tag \in Tags
    BY <1>9, AtOps DEF SpawnEngine, Starting, Names, Placed, Tag
  <2>2. logs' \subseteq Tags
    BY <1>9, <2>1 DEF SpawnEngine
  <2> QED BY <1>4, <1>9, <2>2 DEF SpawnEngine, StartFails
<1>10. CASE WaitForEngine
  BY <1>4, <1>10 DEF WaitForEngine, StartFails, stackVars
<1>11. CASE SpawnGateway
  BY <1>4, <1>11 DEF SpawnGateway, StartFails
<1>12. CASE WaitForGateway
  BY <1>3, <1>4, <1>12 DEF WaitForGateway, StartFails, Starting, Names, stackVars
<1>13. ASSUME Stop
       PROVE  /\ engine' = "none" /\ gateway' = "none" /\ tail' = NoTail
              /\ forgotten' \subseteq Kinds \X BOOLEAN
  <2>1. engine' = "none" /\ gateway' = "none" /\ tail' = NoTail
    BY <1>13 DEF Stop
  <2>2. ASSUME NEW p \in forgotten' PROVE p \in Kinds \X BOOLEAN
    <3>1. CASE p \in forgotten
      BY <3>1
    <3>2. CASE p \notin forgotten
      <4>1. PICK kind \in Kinds : p = <<kind, Own(kind) = "listening">>
        BY <1>13, <2>2, <3>2, StopSurvivors
      <4> DEFINE listens == Own(kind) = "listening"
      <4>2. listens \in BOOLEAN
        OBVIOUS
      <4>3. p = <<kind, listens>>
        BY <4>1
      <4> HIDE DEF listens
      <4> QED BY <4>2, <4>3
    <3> QED BY <3>1, <3>2
  <2> QED BY <2>1, <2>2
<1>14. NoTail \in [tag : Tags \cup {<<>>}, file : {"none", "old", "new"}]
  BY DEF NoTail
<1>15. CASE StackStop
  BY <1>3, <1>13, <1>14, <1>15 DEF StackStop, Names
<1>16. CASE Finally
  BY <1>2, <1>13, <1>14, <1>16 DEF Finally
<1>17. CASE CallOpens \/ CallStep
  BY <1>17, CallStepFrame DEF CallOpens, runVars, stackVars
<1>18. CASE CallCloses
  BY <1>3, <1>18 DEF CallCloses, Names, stackVars
<1>19. CASE OpenLog
  BY <1>19 DEF OpenLog
<1>20. CASE EngineListens \/ GatewayListens
  BY <1>20 DEF EngineListens, GatewayListens
<1>21. CASE Survivors
  <2>1. forgotten' \subseteq Kinds \X BOOLEAN
    <3>1. \A kind \in Kinds : <<kind, TRUE>> \in Kinds \X BOOLEAN
      OBVIOUS
    <3>2. \A p \in forgotten : p \in Kinds \X BOOLEAN
      OBVIOUS
    <3>3. ASSUME NEW p \in forgotten' PROVE p \in Kinds \X BOOLEAN
      <4>1. \/ p \in forgotten
            \/ \E kind \in Kinds : p = <<kind, TRUE>>
        BY <1>21, <3>3, WhoSurvives
      <4> HIDE DEF TypeInv, TypeOK, StackTypes
      <4> QED BY <3>1, <3>2, <4>1
    <3> QED BY <3>3
  <2> QED BY <1>21, <2>1, SurvivorsFrame
<1> QED BY <1>5, <1>6, <1>7, <1>8, <1>9, <1>10, <1>11, <1>12, <1>15, <1>16, <1>17, <1>18,
           <1>19, <1>20, <1>21 DEF Main, Others, Listeners, Services, Survivors, CallStep

LEMMA FreshStep ==
    ASSUME TypeInv, Main \/ Others \/ Deadline
    PROVE  Fresh'
<1> USE DEF TypeInv
<1>1. ASSUME UNCHANGED <<phase, parts, audioOf, benchEvents, status, late, failures>>,
             phase = "idle" \/ At("run_call")'
      PROVE  Fresh'
  BY <1>1 DEF Fresh
<1>2. ASSUME UNCHANGED turnVars
      PROVE  UNCHANGED <<phase, parts, audioOf, benchEvents, status, late, failures>>
  BY <1>2 DEF turnVars, clientVars, turnGhosts
<1>3. CASE Build \/ SamplerStart \/ SamplerStop
  <2>1. phase = "idle"
    BY <1>3, StopsBetweenCalls DEF Build, SamplerStart, SamplerStop, Names
  <2> QED BY <1>1, <1>2, <1>3, <2>1 DEF Build, SamplerStart, SamplerStop
<1>4. CASE CheckPorts \/ StartTail \/ SpawnEngine \/ WaitForEngine \/ SpawnGateway
           \/ WaitForGateway
  <2>1. At("stack.start")
    BY <1>4 DEF CheckPorts, StartTail, SpawnEngine, WaitForEngine, SpawnGateway,
         WaitForGateway, Starting
  <2>2. phase = "idle"
    BY <2>1, StopsBetweenCalls DEF Names
  <2>3. UNCHANGED turnVars
    BY <1>4 DEF CheckPorts, StartTail, SpawnEngine, WaitForEngine, SpawnGateway,
         WaitForGateway
  <2> QED BY <1>1, <1>2, <2>2, <2>3
<1>5. CASE StackStop \/ Finally
  <2>1. phase = "idle" /\ Stop
    BY <1>5, StopsBetweenCalls DEF StackStop, Finally, Names
  <2>2. phase' = "idle" /\ UNCHANGED <<parts, audioOf, benchEvents, status, late>>
    BY <2>1 DEF Stop
  <2> QED BY <2>1, <2>2 DEF Fresh, Quiet
<1>6. CASE OpenLog \/ EngineListens \/ GatewayListens
  <2>1. UNCHANGED turnVars /\ UNCHANGED pc
    BY <1>6 DEF OpenLog, EngineListens, GatewayListens
  <2> QED BY <1>1, <1>2, <2>1 DEF Fresh, At
<1>7. CASE CallOpens
  <2>1. /\ phase = "idle" /\ phase' = "turn" /\ failures' = 0 /\ At("run_call")
        /\ UNCHANGED <<pc, parts, audioOf, benchEvents, status, late>>
    BY <1>7 DEF CallOpens, CallBegins, turnGhosts, runVars
  <2> QED BY <2>1, TurnAssumption, SMT DEF Fresh, Quiet, At
<1>8. CASE CallCloses
  <2>1. /\ phase = "close" /\ phase' = "idle"
        /\ UNCHANGED <<parts, audioOf, benchEvents, status, late>>
    BY <1>8 DEF CallCloses, Close, turnGhosts
  <2> QED BY <2>1 DEF Fresh, Quiet
<1>9. ASSUME CallStep, phase # "idle" PROVE At("run_call")'
  BY <1>9, CallStepFrame DEF Fresh, At, runVars
<1>10. CASE AudioRead \/ LineRead \/ LineMissed
  <2>1. UNCHANGED clientVars /\ UNCHANGED turnGhosts
    BY <1>10 DEF AudioRead, Read, LineRead, HandleLine, LineMissed
  <2> QED BY <1>1, <1>9, <1>10, <2>1 DEF CallStep, clientVars, turnGhosts
<1>11. CASE EngineStep
  <2>1. UNCHANGED clientVars /\ (parts' = parts \/ phase = "speak")
    BY <1>11 DEF EngineStep, Engine, Speak, Boundary, FirstToken, PutChunk, LogsBench,
         turnGhosts
  <2> QED BY <1>9, <1>11, <2>1 DEF CallStep, clientVars, Fresh, Quiet
<1>12. CASE Deadline
  <2>1. /\ phase \in {"await", "awaitBench", "complete", "completeBench"}
        /\ phase' = phase /\ failures' = failures
    BY <1>12 DEF Deadline, DeadlinePasses
  <2> QED BY <1>9, <1>12, <2>1 DEF CallStep, Fresh, Quiet
<1>13. CASE TurnStep
  <2>1. phase # "idle" /\ RunTurn
    BY <1>13, SMT DEF TurnStep, RunTurn, DrainBench, DrainRx, SpeechEnds, AwaitAudio,
         AwaitBench, CompleteAudio, CompleteBench, PauseEnds, LastTurnDone
  <2>2. At("run_call")'
    BY <1>9, <1>13, <2>1 DEF CallStep
  <2>3. CASE DrainBench \/ DrainRx \/ SpeechEnds \/ LastTurnDone
    <3>1. UNCHANGED <<failures, late, status, audioOf, benchEvents, parts>>
          /\ phase \in {"turn", "drain", "speak"}
      BY <2>3 DEF DrainBench, DrainRx, SpeechEnds, LastTurnDone, turnGhosts
    <3>2. phase' \in Quiet => phase \in Quiet
      BY <2>3, SMT DEF DrainBench, DrainRx, SpeechEnds, LastTurnDone, Quiet
    <3> QED BY <2>2, <3>1, <3>2 DEF Fresh
  <2>4. CASE AwaitAudio \/ AwaitBench \/ CompleteAudio \/ CompleteBench
    <3>1. /\ phase \in {"await", "awaitBench", "complete", "completeBench"}
          /\ phase' \in {"await", "awaitBench", "complete", "completeBench", "pause"}
          /\ failures' = failures
      BY <2>4, SMT DEF AwaitAudio, AwaitBench, CompleteAudio, CompleteBench
    <3> QED BY <2>2, <3>1 DEF Fresh, Quiet
  <2>5. CASE PauseEnds
    <3>1. /\ phase' = IF failures' >= MaxConsecutiveFailures THEN "close" ELSE "turn"
          /\ failures' = 0 \/ failures' = failures + 1
          /\ parts' = 0 /\ audioOf' = <<>> /\ benchEvents' = <<>>
          /\ status' = "no_response" /\ ~late'
      BY <2>5 DEF PauseEnds, TurnForgotten
    <3>2. phase' \notin {"idle", "close"} => failures' < MaxConsecutiveFailures
      BY <3>1, TurnAssumption, SMT DEF TypeOK, TurnTypes
    <3> QED BY <2>2, <3>1, <3>2 DEF Fresh
  <2> QED BY <2>1, <2>3, <2>4, <2>5 DEF RunTurn
<1>14. CASE Survivors
  <2>1. UNCHANGED clientVars /\ UNCHANGED turnGhosts /\ UNCHANGED pc
    BY <1>14, SurvivorsFrame
  <2> QED BY <1>1, <2>1 DEF clientVars, turnGhosts, Fresh, At
<1> QED BY <1>3, <1>4, <1>5, <1>6, <1>7, <1>8, <1>10, <1>11, <1>12, <1>13, <1>14
        DEF Main, Others, Listeners, Services, Survivors

LEMMA TypeStep == TypeInv /\ [Next]_vars => TypeInv'
<1> SUFFICES ASSUME TypeInv, [Next]_vars PROVE TypeInv'
  OBVIOUS
<1>1. CASE Next
  <2> USE DEF TypeInv
  <2>1. Main \/ Others \/ Deadline
    BY <1>1 DEF Next, Others
  <2>2. StackTypes' /\ Fresh'
    BY <2>1, StackStepTypes, FreshStep
  <2>3. CASE StackStop \/ Finally
    <3>1. phase = "idle" /\ Stop
      BY <2>3, StopsBetweenCalls DEF StackStop, Finally, Names
    <3> QED BY <3>1, <2>2, StopTypes DEF TypeOK
  <2>4. CASE CallOpens \/ CallCloses \/ Deadline
    BY <2>2, <2>4, CallTypes DEF TypeOK
  <2>5. CASE TurnStep \/ AudioRead \/ LineRead \/ LineMissed \/ EngineStep
    BY <2>2, <2>5, TurnStepTypes, ListenerTypes, EngineTypes DEF TypeOK, EngineStep
  <2>6. CASE \/ Build \/ SamplerStart \/ SamplerStop \/ CheckPorts \/ StartTail
             \/ SpawnEngine \/ WaitForEngine \/ SpawnGateway \/ WaitForGateway
             \/ OpenLog \/ EngineListens \/ GatewayListens
    <3>1. UNCHANGED turnVars
      BY <2>6 DEF Build, SamplerStart, SamplerStop, CheckPorts, StartTail, SpawnEngine,
           WaitForEngine, SpawnGateway, WaitForGateway, OpenLog, EngineListens,
           GatewayListens
    <3> QED BY <2>2, <3>1 DEF TypeOK, TurnTypes, turnVars, clientVars, serverVars,
            turnGhosts, Turns, BenchLine, LogLine, Answer
  <2>7. CASE Survivors
    <3>1. 0 \in Turns
      BY SMT DEF TypeOK, TurnTypes, Turns
    <3>2. open \in Turns /\ replies \in Seq(Answer) /\ log \in Seq(LogLine)
      BY DEF TypeOK, TurnTypes
    <3>3. open' \in Turns /\ replies' \in Seq(Answer) /\ log' \in Seq(LogLine)
      BY <2>7, <3>1, <3>2, SurvivorsFrame, EmptySeq
    <3>4. UNCHANGED <<clientVars, rx, benchQ, ttftPending, wire, turnGhosts>>
      BY <2>7, SurvivorsFrame
    <3> QED BY <2>2, <3>3, <3>4 DEF TypeOK, TurnTypes, clientVars, turnGhosts, Turns,
            BenchLine, LogLine, Answer
  <2> QED BY <2>1, <2>3, <2>4, <2>5, <2>6, <2>7
          DEF Main, Others, Listeners, Services, Survivors
<1>2. CASE UNCHANGED vars
  <2>1. TurnTypes'
    BY <1>2 DEF TypeInv, TypeOK, TurnTypes, vars, turnVars, clientVars, serverVars,
         turnGhosts, Turns, BenchLine, LogLine, Answer
  <2>2. StackTypes'
    BY <1>2 DEF TypeInv, TypeOK, StackTypes, vars, runVars, stackVars
  <2>3. UNCHANGED <<phase, failures, late, status, audioOf, benchEvents, parts, pc>>
    BY <1>2 DEF vars, turnVars, clientVars, turnGhosts, runVars
  <2>4. At("run_call")' = At("run_call")
    BY <2>3 DEF At
  <2>5. Fresh'
    BY <2>3, <2>4 DEF TypeInv, Fresh
  <2> QED BY <2>1, <2>2, <2>5 DEF TypeInv, TypeOK
<1> QED BY <1>1, <1>2

\* The driver's locals, its queues and the stack's handles keep their types, and
\* nothing it reads is of a turn that has yet to begin.
THEOREM BenchTypes == Spec => []TypeOK
<1>1. TypeInv => TypeOK
  BY DEF TypeInv
<1> QED BY InitTypes, TypeStep, <1>1, PTL DEF Spec

---------------------------------------------------------------------------
(* Calls run on the services started for them. *)

IsDown == engine = "none" /\ gateway = "none" /\ tail = NoTail

\* Where the program may start services or end, nothing runs.
DownAt(k) ==
    \/ Program[k].name \in {"build", "sampler.start"}
    \/ Program[k].name = "sampler.stop" /\ AfterStop(Program, k)
    \/ Program[k].name = "stack.start" /\ step \in {"ports", "tail"}
DownBetween == pc <= Len(Program) /\ DownAt(pc) => IsDown
DownAtEnd == pc = Ended => IsDown

\* The steps of Stack.start establish one after the other what a call relies on.
EngineUp == engine = "listening" \/ tail.file = "old"
NoGateway == forgotten \subseteq {"engine"} \X BOOLEAN
StartsInOrder ==
    /\ step # "ports" => At("stack.start") /\ NoGateway
    /\ step \in {"gateway", "listen"} => EngineUp
UpForCalls ==
    At("run_call") => EngineUp /\ gateway = "listening" /\ NoGateway

\* A stack is stopped before its last start is done only at the end, so until
\* then a gateway that survives is one that listens, and CheckPorts finds it.
GatewayWaits == gateway = "starting" /\ pc <= Len(Program) => step = "listen"
GatewaysListen == pc # Ended => <<"gateway", FALSE>> \notin forgotten
OnePort == \A kind \in Kinds : Own(kind) = "listening" => <<kind, TRUE>> \notin forgotten
PortInv == GatewayWaits /\ GatewaysListen /\ OnePort

\* Unless an operation raises, the program comes to stop the sampler.
SamplerOwed ==
    sampling /\ ~raised =>
        \E m \in 1 .. Len(Program) : m >= pc /\ Program[m].name = "sampler.stop"
StackInv ==
    TypeInv /\ DownBetween /\ DownAtEnd /\ StartsInOrder /\ UpForCalls /\ SamplerOwed
        /\ PortInv

LEMMA InitStack == Init => StackInv
<1> SUFFICES ASSUME Init PROVE StackInv
  OBVIOUS
<1>1. TypeInv /\ pc = 1 /\ IsDown /\ step = "ports" /\ ~sampling
  BY InitTypes DEF Init, IsDown
<1>2. ~At("run_call")
  BY <1>1, AtOps DEF TypeInv, TypeOK, StackTypes, Names, Placed
<1>3. PortInv
  BY DEF Init, PortInv, GatewayWaits, GatewaysListen, OnePort, Own
<1> QED BY <1>1, <1>2, <1>3 DEF StackInv, DownBetween, DownAtEnd, StartsInOrder, UpForCalls,
        SamplerOwed

\* What a step of one operation to the next keeps of the stack's invariant.
LEMMA NextOperation ==
    ASSUME StackInv, Done, UNCHANGED stackVars,
           \E name \in Names \ {"stack.stop"} : At(name)
    PROVE  /\ pc \in 1 .. Len(Program) /\ pc' = pc + 1 /\ pc' # Ended
           /\ Program[pc].name \in Names \ {"stack.stop"} /\ Placed(Program, pc)
           /\ pc' <= Len(Program) => pc' \in 1 .. Len(Program) /\ Placed(Program, pc')
<1>1. PICK name \in Names \ {"stack.stop"} : At(name)
  OBVIOUS
<1>2. /\ pc \in 1 .. Len(Program) /\ Program[pc].name = name /\ Placed(Program, pc)
      /\ pc + 1 # Ended
  BY <1>1, AtOps DEF StackInv, TypeInv, TypeOK, StackTypes
<1>3. pc' = pc + 1
  BY DEF Done
<1>4. pc' <= Len(Program) => pc' \in 1 .. Len(Program)
  BY <1>2, <1>3, ProgramShape, SMT
<1> QED BY <1>2, <1>3, <1>4, ProgramShape DEF Shaped

LEMMA PortStep ==
    ASSUME StackInv, Main \/ Others \/ Deadline
    PROVE  PortInv'
<1>1. Len(Program) \in Nat /\ Ended = Len(Program) + 2 /\ pc \in 1 .. Ended
  BY ProgramShape DEF Ended, StackInv, TypeInv, TypeOK, StackTypes
<1>2. gateway = "starting" /\ pc <= Len(Program) => step = "listen" /\ At("stack.start")
  BY DEF StackInv, PortInv, GatewayWaits, StartsInOrder
<1>3. \A name : At(name) => pc <= Len(Program) /\ pc # Ended
  BY <1>1, SMT DEF At
<1>4. Raise => ~(pc' <= Len(Program))
  BY <1>1, SMT DEF Raise
<1>5. ASSUME UNCHANGED <<engine, gateway, forgotten>>, pc # Ended \/ pc' = pc
      PROVE  GatewaysListen' /\ OnePort'
  BY <1>5 DEF StackInv, PortInv, GatewaysListen, OnePort, Own
<1>6. CASE Build \/ SamplerStart \/ SamplerStop \/ CallCloses
  <2>1. /\ UNCHANGED <<engine, gateway, forgotten>>
        /\ \E name \in Names \ {"stack.start"} : At(name)
    BY <1>6 DEF Build, SamplerStart, SamplerStop, CallCloses, stackVars, Names
  <2>2. ~At("stack.start") /\ pc <= Len(Program) /\ pc # Ended
    BY <2>1, <1>3 DEF At
  <2> QED BY <1>2, <1>5, <2>1, <2>2 DEF PortInv, GatewayWaits
<1>7. CASE CheckPorts \/ StartTail \/ WaitForEngine
  <2>1. /\ UNCHANGED <<engine, gateway, forgotten>>
        /\ Starting("ports") \/ Starting("tail") \/ Starting("wait")
    BY <1>7 DEF CheckPorts, StartTail, WaitForEngine, stackVars
  <2>2. step # "listen" /\ pc <= Len(Program) /\ pc # Ended
    BY <2>1, <1>3 DEF Starting
  <2> QED BY <1>2, <1>5, <2>1, <2>2 DEF PortInv, GatewayWaits
<1>8. CASE WaitForGateway
  <2>1. UNCHANGED <<engine, gateway, forgotten>> /\ Starting("listen")
    BY <1>8 DEF WaitForGateway, stackVars
  <2>2. pc # Ended /\ <<"gateway", TRUE>> \notin forgotten
    BY <2>1, <1>3 DEF StackInv, StartsInOrder, NoGateway, Starting
  <2>3. gateway' = "starting" => ~(pc' <= Len(Program))
    BY <1>4, <1>8, <2>1, <2>2 DEF WaitForGateway, PortOpen, Own, StartFails
  <2> QED BY <1>5, <2>1, <2>2, <2>3 DEF PortInv, GatewayWaits
<1>9. CASE SpawnEngine
  <2>1. /\ Starting("spawn") /\ UNCHANGED <<gateway, forgotten>>
        /\ engine' \in {"starting", engine}
    BY <1>9 DEF SpawnEngine, StartFails
  <2>2. step # "listen" /\ pc <= Len(Program) /\ pc # Ended
    BY <2>1, <1>3 DEF Starting
  <2> QED BY <1>2, <2>1, <2>2
          DEF StackInv, PortInv, GatewayWaits, GatewaysListen, OnePort, Own
<1>10. CASE SpawnGateway
  <2>1. /\ Starting("gateway") /\ UNCHANGED <<engine, forgotten>>
        /\ \/ gateway' = "starting" /\ step' = "listen"
           \/ gateway' = gateway
    BY <1>10 DEF SpawnGateway, StartFails
  <2>2. step # "listen" /\ pc <= Len(Program) /\ pc # Ended
    BY <2>1, <1>3 DEF Starting
  <2> QED BY <1>2, <2>1, <2>2
          DEF StackInv, PortInv, GatewayWaits, GatewaysListen, OnePort, Own
<1>11. CASE StackStop \/ Finally
  <2>1. Stop /\ engine' = "none" /\ gateway' = "none"
    BY <1>11 DEF StackStop, Finally, Stop
  <2>2. GatewayWaits' /\ OnePort'
    BY <2>1 DEF GatewayWaits, OnePort, Own
  <2>3. GatewaysListen'
    <3>1. SUFFICES ASSUME pc' # Ended PROVE <<"gateway", FALSE>> \notin forgotten'
      BY DEF GatewaysListen
    <3>2. At("stack.stop") /\ pc <= Len(Program) /\ pc # Ended
      BY <1>3, <1>11, <3>1 DEF StackStop, Finally
    <3>3. gateway # "starting"
      BY <1>2, <3>2 DEF At
    <3>4. gateway \in {"none", "listening"}
      BY <3>3 DEF StackInv, TypeInv, TypeOK, StackTypes
    <3>5. <<"gateway", FALSE>> \notin forgotten
      BY <3>2 DEF StackInv, PortInv, GatewaysListen
    <3>6. ASSUME NEW kind \in Kinds, Own(kind) # "none",
                 <<"gateway", FALSE>> = <<kind, Own(kind) = "listening">>
          PROVE  FALSE
      BY <3>4, <3>6 DEF Own
    <3> QED BY <2>1, <3>5, <3>6, StopSurvivors
  <2> QED BY <2>2, <2>3 DEF PortInv
<1>12. CASE OpenLog \/ CallOpens \/ CallStep
  <2>1. UNCHANGED <<pc, step, engine, gateway, forgotten>>
    BY <1>12, CallStepFrame DEF OpenLog, CallOpens, runVars, stackVars
  <2> QED BY <1>5, <2>1 DEF StackInv, PortInv, GatewayWaits
<1>13. CASE EngineListens \/ GatewayListens
  <2>1. UNCHANGED <<pc, step, forgotten>> /\ (gateway' = "starting" => gateway = "starting")
    BY <1>13 DEF EngineListens, GatewayListens
  <2>2. OnePort'
    <3>1. SUFFICES ASSUME NEW kind \in Kinds, (Own(kind) = "listening")'
                   PROVE  <<kind, TRUE>> \notin forgotten
      BY <2>1 DEF OnePort
    <3>2. CASE Own(kind) = "listening"
      BY <3>2 DEF StackInv, PortInv, OnePort
    <3>3. CASE Own(kind) # "listening"
      <4>1. \/ kind = "engine" /\ EngineListens
            \/ kind = "gateway" /\ GatewayListens
        <5>1. CASE EngineListens
          BY <5>1, <3>1, <3>3 DEF EngineListens, Own, Kinds
        <5>2. CASE GatewayListens
          BY <5>2, <3>1, <3>3 DEF GatewayListens, Own, Kinds
        <5> QED BY <1>13, <5>1, <5>2
      <4> QED BY <4>1 DEF EngineListens, GatewayListens, PortOpen
    <3> QED BY <3>2, <3>3
  <2> QED BY <2>1, <2>2 DEF StackInv, PortInv, GatewayWaits, GatewaysListen
<1>14. CASE Survivors
  <2>1. UNCHANGED <<pc, step, engine, gateway>>
    BY <1>14, SurvivorsFrame
  <2>2. GatewaysListen' /\ OnePort'
    BY <1>14, <2>1, WhoSurvives DEF StackInv, PortInv, GatewaysListen, OnePort, Own
  <2> QED BY <2>1, <2>2 DEF StackInv, PortInv, GatewayWaits
<1> QED BY <1>6, <1>7, <1>8, <1>9, <1>10, <1>11, <1>12, <1>13, <1>14
        DEF Main, Others, Listeners, Services, Survivors, CallStep

LEMMA StackStep == StackInv /\ [Next]_vars => StackInv'
<1> SUFFICES ASSUME StackInv, [Next]_vars PROVE StackInv'
  OBVIOUS
<1>1. TypeInv' /\ PortInv'
  <2>1. CASE Next
    BY <2>1, TypeStep, PortStep DEF StackInv, Next, Others
  <2>2. CASE UNCHANGED vars
    BY <2>2, TypeStep DEF StackInv, PortInv, GatewayWaits, GatewaysListen, OnePort, Own,
         vars, runVars, stackVars
  <2> QED BY <2>1, <2>2
<1>2. Len(Program) \in Nat /\ Ended = Len(Program) + 2 /\ pc \in 1 .. Ended
  BY ProgramShape DEF Ended, StackInv, TypeInv, TypeOK, StackTypes
<1>3. ASSUME UNCHANGED runVars PROVE StackInv'
  BY <1>1, <1>3 DEF StackInv, runVars, stackVars, DownBetween, DownAt, DownAtEnd, IsDown,
     StartsInOrder, NoGateway, EngineUp, UpForCalls, SamplerOwed, At
<1>4. ASSUME Raise, UNCHANGED sampling, step' = "ports"
      PROVE  StackInv'
  <2>1. pc' = Len(Program) + 1 /\ raised'
    BY <1>4 DEF Raise
  <2>2. ~(pc' <= Len(Program)) /\ pc' # Ended
    BY <2>1, <1>2, SMT
  <2> QED BY <1>1, <1>4, <2>1, <2>2 DEF StackInv, DownBetween, DownAtEnd, StartsInOrder,
          UpForCalls, SamplerOwed, At
<1>5. ASSUME step # "ports", ~At("stack.start") PROVE FALSE
  BY <1>5 DEF StackInv, StartsInOrder
<1>6. ASSUME NEW name \in Names \ {"stack.start"}, At(name) PROVE step = "ports"
  <2>1. ~At("stack.start")
    BY <1>6 DEF At
  <2> QED BY <1>5, <2>1
<1>7. CASE Build
  <2>1. UNCHANGED <<stackVars, step, sampling>> /\ At("build") /\ step = "ports"
    BY <1>6, <1>7 DEF Build, Names
  <2>2. CASE Raise
    BY <1>4, <2>1, <2>2
  <2>3. CASE Done
    <3>1. /\ pc \in 1 .. Len(Program) /\ pc' = pc + 1 /\ pc' # Ended
          /\ pc' <= Len(Program) => pc' \in 1 .. Len(Program) /\ Placed(Program, pc')
      BY <2>1, <2>3, NextOperation DEF Names
    <3>2. Program[pc].name = "build" /\ IsDown
      BY <2>1 DEF At, StackInv, DownBetween, DownAt
    <3>3. ~At("run_call")'
      BY <3>1, <3>2 DEF At, Placed
    <3>4. SamplerOwed'
      BY <2>1, <2>3, <3>1, <3>2, <1>2, SMT DEF StackInv, SamplerOwed, Done
    <3> QED BY <1>1, <2>1, <3>1, <3>2, <3>3, <3>4
            DEF StackInv, DownBetween, DownAtEnd, StartsInOrder, UpForCalls, IsDown,
                stackVars
  <2> QED BY <1>7, <2>2, <2>3 DEF Build
<1>8. CASE SamplerStart
  <2>1. UNCHANGED <<stackVars, step>> /\ At("sampler.start") /\ step = "ports"
    BY <1>6, <1>8 DEF SamplerStart, Names
  <2>2. CASE Raise /\ UNCHANGED sampling
    BY <1>4, <2>1, <2>2
  <2>3. CASE Done /\ sampling' = TRUE
    <3>1. /\ pc \in 1 .. Len(Program) /\ pc' = pc + 1 /\ pc' # Ended
          /\ Placed(Program, pc)
          /\ pc' <= Len(Program) => pc' \in 1 .. Len(Program) /\ Placed(Program, pc')
      BY <2>1, <2>3, NextOperation DEF Names
    <3>2. Program[pc].name = "sampler.start" /\ IsDown
      BY <2>1 DEF At, StackInv, DownBetween, DownAt
    <3>3. ~At("run_call")'
      BY <3>1, <3>2 DEF At, Placed
    <3>4. \E m \in pc + 1 .. Len(Program) : Program[m].name = "sampler.stop"
      BY <3>1, <3>2 DEF Placed
    <3>5. SamplerOwed'
      BY <3>1, <3>4, <1>2, SMT DEF SamplerOwed
    <3> QED BY <1>1, <2>1, <3>1, <3>2, <3>3, <3>5
            DEF StackInv, DownBetween, DownAtEnd, StartsInOrder, UpForCalls, IsDown,
                stackVars
  <2> QED BY <1>8, <2>2, <2>3 DEF SamplerStart
<1>9. CASE SamplerStop
  <2>1. /\ UNCHANGED <<stackVars, step>> /\ At("sampler.stop") /\ step = "ports"
        /\ Done /\ ~sampling'
    BY <1>6, <1>9 DEF SamplerStop, Names
  <2>2. /\ pc \in 1 .. Len(Program) /\ pc' = pc + 1 /\ pc' # Ended
        /\ pc' <= Len(Program) => pc' \in 1 .. Len(Program) /\ Placed(Program, pc')
    BY <2>1, NextOperation DEF Names
  <2>3. Program[pc].name = "sampler.stop" /\ pc' - 1 = pc
    BY <2>1, <2>2, SMT DEF At
  <2>4. ~At("run_call")'
    BY <2>2, <2>3 DEF At, Placed
  <2>5. DownBetween'
    <3>1. SUFFICES ASSUME pc' <= Len(Program), DownAt(pc)' PROVE IsDown'
      BY DEF DownBetween
    <3>2. Program[pc'].name = "build" /\ AfterStop(Program, pc)
      BY <2>2, <2>3, <3>1, SMT DEF DownAt, Placed, AfterStop
    <3>3. IsDown
      BY <2>2, <2>3, <3>2 DEF StackInv, DownBetween, DownAt
    <3> QED BY <2>1, <3>3 DEF IsDown, stackVars
  <2> QED BY <1>1, <2>1, <2>2, <2>4, <2>5
          DEF StackInv, DownAtEnd, StartsInOrder, UpForCalls, SamplerOwed
<1>10. CASE CallOpens \/ CallStep
  BY <1>3, <1>10, CallStepFrame DEF CallOpens
<1>11. CASE CallCloses
  <2>1. /\ UNCHANGED <<stackVars, step, sampling>> /\ At("run_call") /\ step = "ports"
        /\ Done
    BY <1>6, <1>11 DEF CallCloses, Names
  <2>2. /\ pc \in 1 .. Len(Program) /\ pc' = pc + 1 /\ pc' # Ended
        /\ pc' <= Len(Program) => pc' \in 1 .. Len(Program) /\ Placed(Program, pc')
    BY <2>1, NextOperation DEF Names
  <2>3. Program[pc].name = "run_call" /\ pc' - 1 = pc
    BY <2>1, <2>2, SMT DEF At
  <2>4. DownBetween'
    BY <2>2, <2>3, SMT DEF DownBetween, DownAt, Placed, AfterStop
  <2>5. SamplerOwed'
    BY <2>1, <2>2, <2>3, <1>2, SMT DEF StackInv, SamplerOwed, Done
  <2> QED BY <1>1, <2>1, <2>2, <2>4, <2>5
          DEF StackInv, DownAtEnd, StartsInOrder, NoGateway, UpForCalls, EngineUp,
              stackVars
<1>12. CASE StackStop
  <2>1. /\ At("stack.stop") /\ Done /\ IsDown' /\ UNCHANGED <<step, sampling>>
        /\ step = "ports"
    BY <1>6, <1>12 DEF StackStop, Stop, IsDown, Names
  <2>2. /\ pc \in 1 .. Len(Program) /\ pc' = pc + 1 /\ Program[pc].name = "stack.stop"
        /\ pc' - 1 = pc
    BY <2>1, <1>2, SMT DEF At, Done
  <2>3. ~At("run_call")'
    <3>1. SUFFICES ASSUME pc' <= Len(Program) PROVE Program[pc'].name # "run_call"
      BY DEF At
    <3>2. pc' \in 1 .. Len(Program)
      BY <2>2, <3>1, <1>2, SMT
    <3>3. Placed(Program, pc')
      BY <3>2, ProgramShape DEF Shaped
    <3> QED BY <2>2, <3>3 DEF Placed
  <2>4. SamplerOwed'
    BY <2>1, <2>2, <1>2, SMT DEF StackInv, SamplerOwed, Done
  <2> QED BY <1>1, <2>1, <2>3, <2>4
          DEF StackInv, DownBetween, DownAtEnd, StartsInOrder, UpForCalls
<1>13. CASE Finally
  <2>1. pc = Len(Program) + 1 /\ pc' = Ended /\ IsDown' /\ UNCHANGED <<step, sampling, raised>>
    BY <1>13 DEF Finally, Stop, IsDown
  <2>2. ~(pc <= Len(Program)) /\ ~(pc' <= Len(Program))
    BY <2>1, <1>2, SMT
  <2>3. step = "ports"
    BY <1>5, <2>2 DEF At
  <2>4. ~(sampling /\ ~raised)
    BY <2>1, <1>2, SMT DEF StackInv, SamplerOwed
  <2> QED BY <1>1, <2>1, <2>2, <2>3, <2>4
          DEF StackInv, DownBetween, DownAtEnd, StartsInOrder, UpForCalls, SamplerOwed, At
\* The steps of Stack.start.
<1>14. ASSUME At("stack.start"), UNCHANGED <<pc, sampling, raised>>
       PROVE  At("stack.start")' /\ ~At("run_call")' /\ SamplerOwed' /\ DownAtEnd'
  <2>1. At("stack.start")' /\ ~At("run_call")'
    BY <1>14 DEF At
  <2>2. SamplerOwed'
    BY <1>14 DEF StackInv, SamplerOwed
  <2>3. pc' # Ended
    BY <1>14, <1>2, SMT DEF At
  <2> QED BY <2>1, <2>2, <2>3 DEF DownAtEnd
<1>15. At("stack.start") => Program[pc].name = "stack.start" /\ pc <= Len(Program)
  BY DEF At
<1>16. CASE CheckPorts
  <2>1. Starting("ports") /\ UNCHANGED <<stackVars, sampling>>
    BY <1>16 DEF CheckPorts
  <2>2. CASE /\ \A kind \in Kinds : ~PortOpen(kind)
             /\ step' = "tail" /\ UNCHANGED <<pc, raised>>
    <3>1. IsDown /\ pc # Ended
      BY <1>2, <1>15, <2>1, SMT DEF StackInv, DownBetween, DownAt, Starting
    <3>2. <<"gateway", TRUE>> \notin forgotten /\ <<"gateway", FALSE>> \notin forgotten
      BY <2>2, <3>1 DEF Kinds, PortOpen, StackInv, PortInv, GatewaysListen
    <3>3. NoGateway
      <4>1. SUFFICES ASSUME NEW p \in forgotten PROVE p \in {"engine"} \X BOOLEAN
        BY DEF NoGateway
      <4>2. PICK kind \in Kinds, listens \in BOOLEAN : p = <<kind, listens>>
        BY <4>1 DEF StackInv, TypeInv, TypeOK, StackTypes
      <4> QED BY <3>2, <4>1, <4>2 DEF Kinds
    <3>4. IsDown' /\ NoGateway'
      BY <2>1, <3>1, <3>3 DEF IsDown, NoGateway, stackVars
    <3> QED BY <1>1, <1>14, <2>1, <2>2, <3>4
            DEF StackInv, DownBetween, StartsInOrder, UpForCalls, Starting
  <2>3. CASE StartFails
    BY <1>4, <2>1, <2>3 DEF StartFails
  <2> QED BY <1>16, <2>2, <2>3 DEF CheckPorts
<1>17. ASSUME At("stack.start")', step' \notin {"ports", "tail"}
       PROVE  DownBetween'
  BY <1>17 DEF DownBetween, DownAt, At
<1>18. CASE StartTail
  <2>1. /\ Starting("tail") /\ step' = "spawn"
        /\ UNCHANGED <<pc, forgotten, sampling, raised>>
    BY <1>18 DEF StartTail
  <2>2. NoGateway'
    BY <2>1 DEF StackInv, StartsInOrder, NoGateway, Starting
  <2> QED BY <1>1, <1>14, <1>17, <2>1, <2>2 DEF StackInv, StartsInOrder, UpForCalls, Starting
<1>19. CASE SpawnEngine
  <2>1. Starting("spawn") /\ UNCHANGED <<forgotten, sampling>>
    BY <1>19 DEF SpawnEngine
  <2>2. CASE step' = "wait" /\ UNCHANGED <<pc, raised>>
    <3>1. NoGateway'
      BY <2>1 DEF StackInv, StartsInOrder, NoGateway, Starting
    <3> QED BY <1>1, <1>14, <1>17, <2>1, <2>2, <3>1
            DEF StackInv, StartsInOrder, UpForCalls, Starting
  <2>3. CASE StartFails
    BY <1>4, <2>1, <2>3 DEF StartFails
  <2> QED BY <1>19, <2>2, <2>3 DEF SpawnEngine
<1>20. CASE WaitForEngine
  <2>1. Starting("wait") /\ UNCHANGED <<stackVars, sampling>>
    BY <1>20 DEF WaitForEngine
  <2>2. CASE MarkerSeen /\ step' = "gateway" /\ UNCHANGED <<pc, raised>>
    <3>1. NoGateway' /\ EngineUp'
      BY <2>1, <2>2 DEF StackInv, StartsInOrder, NoGateway, Starting, MarkerSeen, EngineUp,
           stackVars
    <3> QED BY <1>1, <1>14, <1>17, <2>1, <2>2, <3>1
            DEF StackInv, StartsInOrder, UpForCalls, Starting
  <2>3. CASE StartFails
    BY <1>4, <2>1, <2>3 DEF StartFails
  <2> QED BY <1>20, <2>2, <2>3 DEF WaitForEngine
<1>21. CASE SpawnGateway
  <2>1. Starting("gateway") /\ UNCHANGED <<engine, tail, forgotten, sampling>>
    BY <1>21 DEF SpawnGateway
  <2>2. CASE step' = "listen" /\ UNCHANGED <<pc, raised>>
    <3>1. NoGateway' /\ EngineUp'
      BY <2>1 DEF StackInv, StartsInOrder, NoGateway, Starting, EngineUp
    <3> QED BY <1>1, <1>14, <1>17, <2>1, <2>2, <3>1
            DEF StackInv, StartsInOrder, UpForCalls, Starting
  <2>3. CASE StartFails
    BY <1>4, <2>1, <2>3 DEF StartFails
  <2> QED BY <1>21, <2>2, <2>3 DEF SpawnGateway
<1>22. CASE WaitForGateway
  <2>1. Starting("listen") /\ UNCHANGED <<stackVars, sampling>>
    BY <1>22 DEF WaitForGateway
  <2>2. CASE PortOpen("gateway") /\ Done /\ step' = "ports"
    <3>1. NoGateway' /\ EngineUp' /\ gateway' = "listening"
      BY <2>1, <2>2 DEF StackInv, StartsInOrder, NoGateway, Starting, EngineUp, PortOpen,
           Own, stackVars
    <3>2. /\ pc \in 1 .. Len(Program) /\ pc' = pc + 1 /\ pc' # Ended
          /\ pc' <= Len(Program) => pc' \in 1 .. Len(Program) /\ Placed(Program, pc')
      BY <2>1, <2>2, NextOperation DEF Names, Starting
    <3>3. Program[pc].name = "stack.start" /\ pc' - 1 = pc
      BY <2>1, <3>2, SMT DEF Starting, At
    <3>4. DownBetween'
      BY <3>2, <3>3, SMT DEF DownBetween, DownAt, Placed, AfterStop
    <3>5. SamplerOwed'
      BY <2>1, <2>2, <3>2, <3>3, <1>2, SMT DEF StackInv, SamplerOwed, Done
    <3> QED BY <1>1, <2>2, <3>1, <3>2, <3>4, <3>5
            DEF StackInv, DownAtEnd, StartsInOrder, UpForCalls
  <2>3. CASE StartFails
    BY <1>4, <2>1, <2>3 DEF StartFails
  <2> QED BY <1>22, <2>2, <2>3 DEF WaitForGateway
\* The services and the log's thread.
<1>23. CASE OpenLog \/ EngineListens \/ GatewayListens
  <2>1. UNCHANGED <<pc, step, forgotten, sampling, raised>> /\ ~IsDown
    BY <1>23 DEF OpenLog, EngineListens, GatewayListens, IsDown
  <2>2. EngineUp => EngineUp'
    BY <1>23 DEF OpenLog, EngineListens, GatewayListens, EngineUp
  <2>3. gateway = "listening" => gateway' = "listening"
    BY <1>23 DEF OpenLog, EngineListens, GatewayListens
  <2>4. DownBetween' /\ DownAtEnd'
    BY <2>1 DEF StackInv, DownBetween, DownAt, DownAtEnd
  <2>5. StartsInOrder' /\ UpForCalls' /\ SamplerOwed'
    BY <2>1, <2>2, <2>3 DEF StackInv, StartsInOrder, NoGateway, UpForCalls, SamplerOwed, At
  <2> QED BY <1>1, <2>4, <2>5 DEF StackInv
<1>24. CASE UNCHANGED vars
  BY <1>3, <1>24 DEF vars
<1>25. CASE Survivors
  <2>1. UNCHANGED <<pc, step, engine, gateway, tail, sampling, raised>>
    BY <1>25, SurvivorsFrame
  <2>2. NoGateway => NoGateway'
    <3>1. SUFFICES ASSUME NoGateway, NEW p \in forgotten'
                   PROVE  p \in {"engine"} \X BOOLEAN
      BY DEF NoGateway
    <3>2. CASE p \in forgotten
      BY <3>1, <3>2 DEF NoGateway
    <3>3. CASE p \notin forgotten
      <4>1. PICK kind \in Kinds : <<kind, FALSE>> \in forgotten /\ p = <<kind, TRUE>>
        BY <1>25, <3>1, <3>3, WhoSurvives
      <4>2. kind = "engine"
        BY <3>1, <4>1 DEF NoGateway
      <4> QED BY <4>1, <4>2
    <3> QED BY <3>2, <3>3
  <2> QED BY <1>1, <2>1, <2>2 DEF StackInv, DownBetween, DownAt, DownAtEnd, IsDown,
          StartsInOrder, EngineUp, UpForCalls, SamplerOwed, At
<1> QED BY <1>7, <1>8, <1>9, <1>10, <1>11, <1>12, <1>13, <1>16, <1>18, <1>19, <1>20, <1>21,
           <1>22, <1>23, <1>24, <1>25
        DEF Next, Main, Listeners, Services, Survivors, CallStep

\* A call is made to this stack's gateway and answered by this stack's engine,
\* whatever survives of earlier ones and whenever it comes to listen, unless an
\* old log's marker was taken for the engine's; and the program leaves behind
\* what could not be killed and, if an operation raised, the sampler.
THEOREM CallsOwnTheirStack == Spec => []StackOwned
<1>1. StackInv => StackOwned
  <2>1. SUFFICES ASSUME StackInv PROVE StackOwned
    OBVIOUS
  <2>2. ASSUME pc = Ended, sampling PROVE raised
    <3>1. ~\E m \in 1 .. Len(Program) : m >= pc
      BY <2>2, ProgramShape, SMT DEF Ended
    <3> QED BY <2>1, <2>2, <3>1 DEF StackInv, SamplerOwed
  <2>3. engine = "listening" => <<"engine", TRUE>> \notin forgotten
    BY <2>1 DEF StackInv, PortInv, OnePort, Own, Kinds
  <2> QED BY <2>1, <2>2, <2>3
          DEF StackInv, UpForCalls, NoGateway, EngineUp, DownAtEnd, IsDown, StackOwned
<1> QED BY InitStack, StackStep, <1>1, PTL DEF Spec

---------------------------------------------------------------------------
(* A turn is measured by what belongs to it. *)

HeardOf(q, t) == \A k \in 1 .. Len(q) : q[k] = t
ToldOf(q, t) == \A k \in 1 .. Len(q) : q[k].turn = t
TimedOf(q, t) == \A k \in 1 .. Len(q) : q[k].turn = t /\ q[k].ttft \in {0, t}

LEMMA OfAppended ==
    ASSUME NEW S, NEW q \in Seq(S), NEW e \in S, NEW t
    PROVE  /\ HeardOf(q, t) /\ e = t => HeardOf(Append(q, e), t)
           /\ ToldOf(q, t) /\ e.turn = t => ToldOf(Append(q, e), t)
           /\ TimedOf(q, t) /\ e.turn = t /\ e.ttft \in {0, t} =>
                 TimedOf(Append(q, e), t)
<1>1. /\ Len(q) \in Nat /\ Len(Append(q, e)) = Len(q) + 1
      /\ \A i \in 1 .. Len(q) : Append(q, e)[i] = q[i]
      /\ Append(q, e)[Len(q) + 1] = e
  BY AppendProperties, LenProperties
<1>2. ASSUME NEW i \in 1 .. Len(Append(q, e))
      PROVE  IF i \in 1 .. Len(q) THEN Append(q, e)[i] = q[i] ELSE Append(q, e)[i] = e
  <2>1. i \in 1 .. Len(q) \/ i = Len(q) + 1
    BY <1>1, SMT
  <2>2. Len(q) + 1 \notin 1 .. Len(q)
    BY <1>1, SMT
  <2> QED BY <1>1, <2>1, <2>2
<1> QED BY <1>2 DEF HeardOf, ToldOf, TimedOf

LEMMA OfHeadAndTail ==
    ASSUME NEW S, NEW q \in Seq(S), q # <<>>, NEW t
    PROVE  /\ HeardOf(q, t) => Head(q) = t /\ HeardOf(Tail(q), t)
           /\ ToldOf(q, t) => Head(q).turn = t /\ ToldOf(Tail(q), t)
           /\ TimedOf(q, t) => /\ Head(q).turn = t /\ Head(q).ttft \in {0, t}
                               /\ TimedOf(Tail(q), t)
<1>1. /\ Len(q) \in Nat \ {0} /\ Head(q) = q[1] /\ Len(Tail(q)) = Len(q) - 1
      /\ \A i \in 1 .. Len(q) - 1 : Tail(q)[i] = q[i + 1]
  BY HeadAndTail
<1>2. 1 \in 1 .. Len(q)
  BY <1>1, SMT
<1>3. \A i \in 1 .. Len(Tail(q)) : i + 1 \in 1 .. Len(q) /\ Tail(q)[i] = q[i + 1]
  BY <1>1, SMT
<1> QED BY <1>1, <1>2, <1>3 DEF HeardOf, ToldOf, TimedOf

LEMMA OfWithout ==
    ASSUME NEW S, NEW q \in Seq(S), NEW k \in 1 .. Len(q), NEW t, ToldOf(q, t)
    PROVE  ToldOf(Without(q, k), t)
<1>1. /\ Len(Without(q, k)) = Len(q) - 1 /\ Len(q) \in Nat
      /\ \A i \in 1 .. Len(q) - 1 :
            Without(q, k)[i] = IF i < k THEN q[i] ELSE q[i + 1]
  BY WithoutProperties, LenProperties
<1>2. \A i \in 1 .. Len(q) - 1 : i \in 1 .. Len(q) /\ i + 1 \in 1 .. Len(q)
  BY <1>1, SMT
<1> QED BY <1>1, <1>2 DEF ToldOf

LEMMA OfChanged ==
    ASSUME NEW S, NEW q \in Seq(S), NEW k \in 1 .. Len(q), NEW e \in S, NEW t,
           ToldOf(q, t), e.turn = t
    PROVE  ToldOf([q EXCEPT ![k] = e], t)
BY ExceptSeq DEF ToldOf

LEMMA OfNothing == \A t : HeardOf(<<>>, t) /\ ToldOf(<<>>, t) /\ TimedOf(<<>>, t)
BY SMT DEF HeardOf, ToldOf, TimedOf

Undisturbed == ~disturbed /\ tail.file # "old"
Settled ==
    /\ open = 0 /\ replies = <<>> /\ wire = <<>> /\ log = <<>>
    /\ ttftPending = 0 /\ benchQ = <<>>

\* Whatever is under way was said, or is about what was said, in this turn.
AllOfTurn ==
    /\ HeardOf(wire, turn) /\ HeardOf(rx, turn) /\ HeardOf(audioOf, turn)
    /\ ToldOf(replies, turn) /\ ToldOf(log, turn)
    /\ TimedOf(benchQ, turn) /\ TimedOf(benchEvents, turn)
    /\ open \in {0, turn} /\ ttftPending \in {0, turn}

\* The one utterance of a turn: held by the VAD, waiting for the worker, being
\* answered, its lines written, its BENCH line queued and at last taken.
Silent == wire = <<>> /\ rx = <<>> /\ audioOf = <<>>
NotBegun == Settled /\ Silent /\ benchEvents = <<>>
Held ==
    /\ open = turn /\ replies = <<>> /\ log = <<>> /\ ttftPending = 0
    /\ Silent /\ benchQ = <<>> /\ benchEvents = <<>>
Waits ==
    /\ open = 0 /\ benchQ = <<>> /\ benchEvents = <<>>
    /\ Len(replies) = 1 /\ ~replies[1].token /\ replies[1].put = 0
    /\ log = <<>> /\ ttftPending = 0 /\ Silent
Answered ==
    /\ open = 0 /\ benchQ = <<>> /\ benchEvents = <<>>
    /\ Len(replies) = 1 /\ replies[1].token
    /\ \/ Len(log) = 1 /\ log[1].kind = "TTFT" /\ ttftPending = 0
       \/ log = <<>> /\ ttftPending = turn
    /\ Silent \/ replies[1].put > 0
Written ==
    /\ open = 0 /\ benchQ = <<>> /\ benchEvents = <<>> /\ replies = <<>>
    /\ \/ Len(log) = 2 /\ log[1].kind = "TTFT" /\ ttftPending = 0
       \/ Len(log) = 1 /\ (log[1].audio => ttftPending = turn)
    /\ log[Len(log)].kind = "BENCH"
    /\ Silent \/ log[Len(log)].audio
Timed(q) ==
    /\ Len(q) = 1 /\ (q[1].audio => q[1].ttft = turn)
    /\ Silent \/ q[1].audio
Queued ==
    /\ open = 0 /\ replies = <<>> /\ log = <<>> /\ ttftPending = 0
    /\ Timed(benchQ) /\ benchEvents = <<>>
Taken ==
    /\ open = 0 /\ replies = <<>> /\ log = <<>> /\ ttftPending = 0
    /\ benchQ = <<>> /\ Timed(benchEvents)
    /\ overtaken \/ (wire = <<>> /\ rx = <<>>)
Stages == Held \/ Waits \/ Answered \/ Written \/ Queued \/ Taken
Measured == AllOfTurn /\ (parts = 0 => NotBegun) /\ (parts = 1 => Stages)

\* The status a turn has come to says what has been taken.
StatusKnown ==
    /\ phase \in {"speak", "await", "awaitBench"} =>
          status = "no_response" /\ audioOf = <<>>
    /\ phase \in {"complete", "completeBench"} => status = "ok" /\ audioOf # <<>>
    /\ phase = "pause" =>
          /\ late \/ benchEvents # <<>>
          /\ status = "ok" => benchEvents # <<>> /\ audioOf # <<>>
TurnsOwn == Undisturbed => IF phase \in Quiet THEN Settled ELSE Measured
MeasureInv == StackInv /\ StatusKnown /\ TurnsOwn

LEMMA LengthOf ==
    ASSUME NEW S, NEW q \in Seq(S)
    PROVE  Len(q) \in Nat /\ (Len(q) = 0 <=> q = <<>>)
BY EmptySeq, LenProperties, SMT

LEMMA AppendedTo ==
    ASSUME NEW S, NEW q \in Seq(S), NEW e \in S
    PROVE  /\ q = <<>> => Len(Append(q, e)) = 1 /\ Append(q, e)[1] = e
           /\ Len(q) = 1 => /\ Len(Append(q, e)) = 2
                            /\ Append(q, e)[1] = q[1] /\ Append(q, e)[2] = e
<1>1. /\ Len(Append(q, e)) = Len(q) + 1 /\ Append(q, e)[Len(q) + 1] = e
      /\ \A i \in 1 .. Len(q) : Append(q, e)[i] = q[i]
  BY AppendProperties
<1>2. CASE Len(q) = 1
  <2>1. 1 \in 1 .. 1 /\ 1 + 1 = 2
    BY SMT
  <2> QED BY <1>1, <1>2, <2>1, LengthOf
<1>3. CASE q = <<>>
  <2>1. Len(q) = 0 /\ 0 + 1 = 1
    BY <1>3, LengthOf, SMT
  <2> QED BY <1>1, <1>3, <2>1
<1> QED BY <1>2, <1>3

LEMMA OnlyIndex ==
    ASSUME NEW S, NEW q \in Seq(S), NEW k \in 1 .. Len(q)
    PROVE  q # <<>> /\ (Len(q) = 1 => k = 1)
<1>1. Len(q) \in Nat
  BY LengthOf
<1>2. \A n \in Nat : \A i \in 1 .. n : n # 0 /\ (n = 1 => i = 1)
  BY SMT
<1>3. Len(q) # 0 /\ (Len(q) = 1 => k = 1)
  BY <1>1, <1>2
<1> QED BY <1>3, LengthOf

\* What the engine does with the speech of the turn.
LEMMA EngineMeasured ==
    ASSUME TurnTypes, Measured, Engine
    PROVE  Measured'
<1> USE DEF Measured
<1>1. CASE Speak
  <2>1. /\ open' = turn /\ parts' = parts + 1
        /\ UNCHANGED <<clientVars, rx, benchQ, ttftPending, replies, wire, log,
                       overtaken, disturbed>>
    BY <1>1 DEF Speak
  <2>2. AllOfTurn'
    BY <2>1 DEF AllOfTurn, clientVars
  <2>3. parts = 0 => Held'
    BY <2>1 DEF NotBegun, Settled, Silent, Held, clientVars
  <2>4. parts' # 0 /\ (parts' = 1 => parts = 0)
    BY <2>1, SMT DEF TurnTypes
  <2> QED BY <2>2, <2>3, <2>4 DEF Stages
<1>2. CASE Boundary
  <2> DEFINE r == [turn |-> open, call |-> call, token |-> FALSE, put |-> 0]
  <2>1. /\ open # 0 /\ replies' = Append(replies, r) /\ open' = 0
        /\ UNCHANGED <<clientVars, rx, benchQ, ttftPending, wire, log, turnGhosts>>
    BY <1>2 DEF Boundary
  <2>2. r \in Answer /\ r.turn = turn /\ ~r.token /\ r.put = 0
    BY <2>1, TurnAssumption, SMT DEF Answer, TurnTypes, AllOfTurn
  <2> HIDE DEF r
  <2>3. ToldOf(replies', turn)
    BY <2>1, <2>2, OfAppended DEF TurnTypes, AllOfTurn
  <2>4. AllOfTurn'
    BY <2>1, <2>3 DEF AllOfTurn, clientVars
  <2>5. parts # 0 /\ (parts = 1 => Held)
    BY <2>1 DEF NotBegun, Settled, Stages, Waits, Answered, Written, Queued, Taken
  <2>6. replies = <<>> => Len(replies') = 1 /\ replies'[1] = r
    BY <2>1, <2>2, AppendedTo DEF TurnTypes
  <2>7. Held => Waits'
    BY <2>1, <2>2, <2>6 DEF Held, Waits, Silent, clientVars
  <2> QED BY <2>1, <2>4, <2>5, <2>7 DEF Stages, turnGhosts
<1>3. ASSUME NEW k \in 1 .. Len(replies), FirstToken(k) PROVE Measured'
  <2> DEFINE r == [replies[k] EXCEPT !.token = TRUE]
             l == [kind |-> "TTFT", turn |-> replies[k].turn, audio |-> FALSE]
  <2>1. /\ ~replies[k].token /\ replies' = [replies EXCEPT ![k] = r]
        /\ log' = Append(log, l)
        /\ UNCHANGED <<clientVars, rx, benchQ, ttftPending, open, wire, turnGhosts>>
    BY <1>3 DEF FirstToken
  <2>2. replies[k] \in Answer /\ replies[k].turn = turn
    BY ElementOfSeq DEF TurnTypes, AllOfTurn, ToldOf
  <2>3. /\ r \in Answer /\ r.turn = turn /\ r.token /\ r.put = replies[k].put
        /\ l \in LogLine /\ l.turn = turn /\ l.kind = "TTFT"
    BY <2>2 DEF Answer, LogLine
  <2> HIDE DEF r, l
  <2>4. ToldOf(replies', turn)
    BY <2>1, <2>3, OfChanged DEF TurnTypes, AllOfTurn
  <2>5. ToldOf(log', turn)
    BY <2>1, <2>3, OfAppended DEF TurnTypes, AllOfTurn
  <2>6. AllOfTurn'
    BY <2>1, <2>4, <2>5 DEF AllOfTurn, clientVars
  <2>7. replies # <<>> /\ (Len(replies) = 1 => k = 1)
    BY OnlyIndex DEF TurnTypes
  <2>8. parts # 0 /\ (parts = 1 => Waits /\ k = 1)
    BY <2>1, <2>7 DEF NotBegun, Settled, Stages, Held, Waits, Answered, Written, Queued,
       Taken
  <2>9. ASSUME Waits, k = 1 PROVE Answered'
    <3>1. Len(replies') = 1 /\ replies'[1] = r
      BY <2>1, <2>3, <2>9, ExceptSeq DEF TurnTypes, Waits
    <3>2. Len(log') = 1 /\ log'[1] = l
      BY <2>1, <2>3, <2>9, AppendedTo DEF TurnTypes, Waits
    <3> QED BY <2>1, <2>3, <2>9, <3>1, <3>2 DEF Waits, Answered, Silent, clientVars
  <2> QED BY <2>1, <2>6, <2>8, <2>9 DEF Stages, turnGhosts
<1>4. ASSUME NEW k \in 1 .. Len(replies), PutChunk(k) PROVE Measured'
  <2> DEFINE r == [replies[k] EXCEPT !.put = replies[k].put + 1]
  <2>1. /\ replies[k].token /\ replies' = [replies EXCEPT ![k] = r]
        /\ wire' = wire \/ wire' = Append(wire, replies[k].turn)
        /\ replies[k].put < MaxReply \/ replies[k].put < 1 \/ replies[k].put = 0
        /\ UNCHANGED <<clientVars, rx, benchQ, ttftPending, open, log, turnGhosts>>
    BY <1>4 DEF PutChunk, MoreChunks
  <2>2. replies[k] \in Answer /\ replies[k].turn = turn /\ turn \in Turns
    BY ElementOfSeq, SMT DEF TurnTypes, AllOfTurn, ToldOf, Turns
  <2>3. replies[k].put + 1 \in 0 .. MaxReply /\ replies[k].put + 1 > 0
    BY <2>1, <2>2, TurnAssumption, SMT DEF Answer
  <2>4. r \in Answer /\ r.turn = turn /\ r.token /\ r.put > 0
    BY <2>1, <2>2, <2>3 DEF Answer
  <2> HIDE DEF r
  <2>5. ToldOf(replies', turn)
    BY <2>1, <2>4, OfChanged DEF TurnTypes, AllOfTurn
  <2>6. HeardOf(wire', turn)
    <3>1. wire \in Seq(Turns) /\ replies[k].turn \in Turns /\ HeardOf(wire, turn)
      BY <2>2 DEF TurnTypes, AllOfTurn
    <3>2. HeardOf(Append(wire, replies[k].turn), turn)
      BY <2>2, <3>1, OfAppended
    <3> QED BY <2>1, <3>1, <3>2
  <2>7. AllOfTurn'
    BY <2>1, <2>5, <2>6 DEF AllOfTurn, clientVars
  <2>8. replies # <<>> /\ (Len(replies) = 1 => k = 1)
    BY OnlyIndex DEF TurnTypes
  <2>9. parts # 0 /\ (parts = 1 => Answered /\ k = 1)
    BY <2>1, <2>8 DEF NotBegun, Settled, Stages, Held, Waits, Answered, Written, Queued,
       Taken
  <2>10. ASSUME Answered, k = 1 PROVE Answered'
    <3>1. Len(replies') = 1 /\ replies'[1] = r
      BY <2>1, <2>4, <2>10, ExceptSeq DEF TurnTypes, Answered
    <3> QED BY <2>1, <2>4, <2>10, <3>1 DEF Answered, clientVars
  <2> QED BY <2>1, <2>7, <2>9, <2>10 DEF Stages, turnGhosts
<1>5. ASSUME NEW k \in 1 .. Len(replies), LogsBench(k) PROVE Measured'
  <2> DEFINE l == [kind |-> "BENCH", turn |-> replies[k].turn,
                   audio |-> replies[k].put > 0]
  <2>1. /\ log' = Append(log, l) /\ replies' = Without(replies, k)
        /\ UNCHANGED <<clientVars, rx, benchQ, ttftPending, open, wire, turnGhosts>>
    BY <1>5 DEF LogsBench
  <2>2. replies[k] \in Answer /\ replies[k].turn = turn
    BY ElementOfSeq DEF TurnTypes, AllOfTurn, ToldOf
  <2>3. /\ l \in LogLine /\ l.turn = turn /\ l.kind = "BENCH"
        /\ l.audio = (replies[k].put > 0)
    <3>1. l \in LogLine
      BY <2>2 DEF Answer, LogLine
    <3> QED BY <2>2, <3>1
  <2> HIDE DEF l
  <2>4. ToldOf(replies', turn)
    BY <2>1, OfWithout DEF TurnTypes, AllOfTurn
  <2>5. ToldOf(log', turn)
    BY <2>1, <2>3, OfAppended DEF TurnTypes, AllOfTurn
  <2>6. AllOfTurn'
    BY <2>1, <2>4, <2>5 DEF AllOfTurn, clientVars
  <2>7. replies # <<>> /\ (Len(replies) = 1 => k = 1)
    BY OnlyIndex DEF TurnTypes
  <2>8. parts # 0 /\ (parts = 1 => (Waits \/ Answered) /\ k = 1)
    BY <2>7 DEF NotBegun, Settled, Stages, Held, Waits, Answered, Written, Queued, Taken
  <2>9. ASSUME Waits \/ Answered, k = 1 PROVE Written'
    <3>1. Len(replies) = 1
      BY <2>9 DEF Waits, Answered
    <3>2. replies' = <<>>
      <4>1. replies' \in Seq(Answer) /\ Len(replies') = 0
        BY <2>1, <3>1, WithoutProperties, 1 - 1 = 0 DEF TurnTypes
      <4> QED BY <4>1, LengthOf
    <3>3. CASE log = <<>>
      <4>1. Len(log') = 1 /\ log'[1] = l
        BY <2>1, <2>3, <3>3, AppendedTo DEF TurnTypes
      <4>2. l.audio => ttftPending = turn
        <5>1. CASE Waits
          <6>1. ~(replies[k].put > 0)
            BY <2>9, <5>1, SMT DEF Waits
          <6> QED BY <2>3, <6>1
        <5>2. CASE Answered
          BY <5>2, <3>3, SMT DEF Answered
        <5> QED BY <2>9, <5>1, <5>2
      <4>3. Silent' \/ l.audio
        BY <2>1, <2>3, <2>9 DEF Waits, Answered, Silent, clientVars
      <4> QED BY <2>1, <2>3, <2>9, <3>2, <4>1, <4>2, <4>3
              DEF Waits, Answered, Written, clientVars
    <3>4. CASE Len(log) = 1 /\ log[1].kind = "TTFT" /\ ttftPending = 0 /\ Answered
      <4>1. Len(log') = 2 /\ log'[1] = log[1] /\ log'[2] = l
        BY <2>1, <2>3, <3>4, AppendedTo DEF TurnTypes
      <4>2. Silent' \/ l.audio
        BY <2>1, <2>3, <2>9, <3>4 DEF Answered, Silent, clientVars
      <4> QED BY <2>1, <2>3, <3>2, <3>4, <4>1, <4>2 DEF Answered, Written, clientVars
    <3> QED BY <2>9, <3>3, <3>4 DEF Waits, Answered
  <2> QED BY <2>1, <2>6, <2>8, <2>9 DEF Stages, turnGhosts
<1> QED BY <1>1, <1>2, <1>3, <1>4, <1>5 DEF Engine

\* What the two threads make of what the services have sent.
LEMMA ReadMeasured ==
    ASSUME TurnTypes, Measured, Read
    PROVE  Measured'
<1> USE DEF Measured
<1>1. /\ wire # <<>> /\ rx' = Append(rx, Head(wire)) /\ wire' = Tail(wire)
      /\ UNCHANGED <<clientVars, benchQ, ttftPending, serverVars, log, turnGhosts>>
  BY DEF Read
<1>2. Head(wire) \in Turns /\ Head(wire) = turn /\ HeardOf(wire', turn)
  BY <1>1, HeadAndTail, OfHeadAndTail DEF TurnTypes, AllOfTurn
<1>3. HeardOf(rx', turn)
  BY <1>1, <1>2, OfAppended DEF TurnTypes, AllOfTurn
<1>4. AllOfTurn'
  BY <1>1, <1>2, <1>3 DEF AllOfTurn, clientVars, serverVars
<1>5. parts # 0
  BY <1>1 DEF NotBegun, Settled
<1>6. ~Silent
  BY <1>1 DEF Silent
<1>7. ASSUME Stages PROVE Stages'
  <2>1. Answered => Answered'
    BY <1>1, <1>6 DEF Answered, clientVars, serverVars
  <2>2. Written => Written'
    BY <1>1, <1>6 DEF Written, clientVars, serverVars
  <2>3. Queued => Queued'
    BY <1>1, <1>6 DEF Queued, Timed, clientVars, serverVars
  <2>4. Taken => Taken'
    BY <1>1, <1>6 DEF Taken, Timed, clientVars, serverVars, turnGhosts
  <2> QED BY <1>6, <1>7, <2>1, <2>2, <2>3, <2>4 DEF Stages, Held, Waits
<1> QED BY <1>1, <1>4, <1>5, <1>7 DEF turnGhosts

LEMMA LineMeasured ==
    ASSUME TurnTypes, Measured, HandleLine
    PROVE  Measured'
<1> USE DEF Measured
<1> DEFINE l == [turn |-> Head(log).turn, audio |-> Head(log).audio,
                 ttft |-> ttftPending]
<1>1. /\ log # <<>> /\ log' = Tail(log)
      /\ IF Head(log).kind = "TTFT"
         THEN ttftPending' = Head(log).turn /\ benchQ' = benchQ
         ELSE benchQ' = Append(benchQ, l) /\ ttftPending' = 0
      /\ UNCHANGED <<clientVars, rx, serverVars, wire, turnGhosts>>
  BY DEF HandleLine
<1>2. /\ Head(log) \in LogLine /\ Head(log).turn = turn /\ ToldOf(log', turn)
      /\ Head(log) = log[1] /\ log' \in Seq(LogLine) /\ Len(log') = Len(log) - 1
      /\ \A i \in 1 .. Len(log) - 1 : log'[i] = log[i + 1]
  BY <1>1, HeadAndTail, OfHeadAndTail DEF TurnTypes, AllOfTurn
<1>3. l \in BenchLine
  BY <1>2 DEF TurnTypes, LogLine, BenchLine
<1>4. /\ l.turn = turn /\ l.ttft \in {0, turn} /\ l.ttft = ttftPending
      /\ l.audio = log[1].audio
  BY <1>2 DEF AllOfTurn
<1> HIDE DEF l
<1>5. AllOfTurn'
  <2>1. CASE Head(log).kind = "TTFT"
    BY <1>1, <1>2, <2>1 DEF AllOfTurn, clientVars, serverVars
  <2>2. CASE Head(log).kind # "TTFT"
    <3>1. TimedOf(Append(benchQ, l), turn)
      BY <1>3, <1>4, OfAppended DEF TurnTypes, AllOfTurn
    <3> QED BY <1>1, <1>2, <2>2, <3>1 DEF AllOfTurn, clientVars, serverVars
  <2> QED BY <2>1, <2>2
<1>6. parts # 0
  BY <1>1 DEF NotBegun, Settled
<1>7. Len(log) = 1 => log' = <<>>
  <2>1. Len(log') = 0 => log' = <<>>
    BY <1>2, LengthOf
  <2> QED BY <1>2, <2>1, 1 - 1 = 0
<1>8. Len(log) = 2 => Len(log') = 1 /\ log'[1] = log[2]
  BY <1>2, SMT
<1>9. ASSUME Stages PROVE Stages'
  <2>1. CASE Answered
    <3>1. Len(log) = 1 /\ log[1].kind = "TTFT"
      BY <1>1, <2>1 DEF Answered
    <3> QED BY <1>1, <1>2, <1>7, <2>1, <3>1
            DEF Answered, Stages, Silent, clientVars, serverVars
  <2>2. CASE Written
    <3>1. CASE Len(log) = 2
      <4>1. log[1].kind = "TTFT" /\ Len(log') = 1 /\ log'[1] = log[2]
        BY <1>8, <2>2, <3>1 DEF Written
      <4>2. ttftPending' = turn
        BY <1>1, <1>2, <4>1
      <4> QED BY <1>1, <1>2, <2>2, <3>1, <4>1, <4>2
              DEF Written, Stages, Silent, clientVars, serverVars
    <3>2. CASE Len(log) = 1
      <4>1. log[1].kind = "BENCH" /\ (log[1].audio => ttftPending = turn)
            /\ (Silent \/ log[1].audio)
        BY <2>2, <3>2 DEF Written
      <4>2. benchQ' = Append(benchQ, l) /\ ttftPending' = 0 /\ benchQ = <<>>
        BY <1>1, <1>2, <2>2, <4>1 DEF Written
      <4>3. Len(benchQ') = 1 /\ benchQ'[1] = l
        BY <1>3, <4>2, AppendedTo DEF TurnTypes
      <4>4. Queued'
        BY <1>1, <1>4, <1>7, <2>2, <3>2, <4>1, <4>2, <4>3
           DEF Written, Queued, Timed, Silent, clientVars, serverVars
      <4> QED BY <4>4 DEF Stages
    <3> QED BY <2>2, <3>1, <3>2 DEF Written
  <2> QED BY <1>1, <1>9, <2>1, <2>2 DEF Stages, Held, Waits, Queued, Taken
<1> QED BY <1>1, <1>5, <1>6, <1>9 DEF turnGhosts

\* What run_turn takes.
LEMMA AudioTaken ==
    ASSUME TurnTypes, Measured, rx # <<>>, rx' = Tail(rx),
           audioOf' = <<Head(rx)>> \/ audioOf' = Append(audioOf, Head(rx)),
           UNCHANGED <<turn, benchEvents, benchQ, ttftPending, serverVars, wire, log,
                       turnGhosts>>
    PROVE  Measured'
<1> USE DEF Measured
<1>1. Head(rx) \in Turns /\ Head(rx) = turn /\ HeardOf(rx', turn)
  BY HeadAndTail, OfHeadAndTail DEF TurnTypes, AllOfTurn
<1>2. HeardOf(<<Head(rx)>>, turn)
  BY <1>1, SMT DEF HeardOf
<1>3. HeardOf(Append(audioOf, Head(rx)), turn)
  BY <1>1, OfAppended DEF TurnTypes, AllOfTurn
<1>4. AllOfTurn'
  BY <1>1, <1>2, <1>3 DEF AllOfTurn, serverVars
<1>5. parts # 0 /\ ~Silent
  BY DEF NotBegun, Silent
<1>6. ASSUME Stages PROVE Stages'
  <2>1. Answered => Answered'
    BY <1>5 DEF Answered, serverVars
  <2>2. Written => Written'
    BY <1>5 DEF Written, serverVars
  <2>3. Queued => Queued'
    BY <1>5 DEF Queued, Timed, serverVars
  <2>4. Taken => Taken'
    BY <1>5 DEF Taken, Timed, serverVars, turnGhosts
  <2> QED BY <1>5, <1>6, <2>1, <2>2, <2>3, <2>4 DEF Stages, Held, Waits
<1> QED BY <1>4, <1>5, <1>6 DEF turnGhosts

LEMMA BenchTaken ==
    ASSUME TurnTypes, Measured, TakeBench,
           UNCHANGED <<turn, audioOf, rx, ttftPending, serverVars, wire, log, parts>>
    PROVE  Measured'
<1> USE DEF Measured
<1>1. /\ benchQ # <<>> /\ benchEvents' = Append(benchEvents, Head(benchQ))
      /\ benchQ' = Tail(benchQ) /\ overtaken' = (overtaken \/ OnItsWay(Head(benchQ).turn))
  BY DEF TakeBench
<1>2. /\ Head(benchQ) \in BenchLine /\ Head(benchQ).turn = turn
      /\ Head(benchQ).ttft \in {0, turn} /\ TimedOf(benchQ', turn)
      /\ Head(benchQ) = benchQ[1] /\ benchQ' \in Seq(BenchLine)
      /\ Len(benchQ') = Len(benchQ) - 1
  BY <1>1, HeadAndTail, OfHeadAndTail DEF TurnTypes, AllOfTurn
<1>3. TimedOf(benchEvents', turn)
  BY <1>1, <1>2, OfAppended DEF TurnTypes, AllOfTurn
<1>4. AllOfTurn'
  BY <1>2, <1>3 DEF AllOfTurn, serverVars
<1>5. parts # 0
  BY <1>1 DEF NotBegun, Settled
<1>6. ASSUME Stages PROVE Stages'
  <2>1. Queued
    BY <1>1, <1>6 DEF Stages, Held, Waits, Answered, Written, Taken
  <2>2. benchQ' = <<>>
    <3>1. Len(benchQ') = 0 => benchQ' = <<>>
      BY <1>2, LengthOf
    <3> QED BY <1>2, <2>1, <3>1, 1 - 1 = 0 DEF Queued, Timed
  <2>3. Len(benchEvents') = 1 /\ benchEvents'[1] = benchQ[1]
    BY <1>1, <1>2, <2>1, AppendedTo DEF Queued, TurnTypes
  <2>4. ASSUME ~OnItsWay(turn) PROVE wire = <<>> /\ rx = <<>>
    <3>1. /\ \A k \in 1 .. Len(wire) : wire[k] # turn
          /\ \A k \in 1 .. Len(rx) : rx[k] # turn
      BY <2>4 DEF OnItsWay
    <3>2. /\ \A k \in 1 .. Len(wire) : FALSE
          /\ \A k \in 1 .. Len(rx) : FALSE
      BY <3>1 DEF AllOfTurn, HeardOf
    <3>3. \A n \in Nat : (\A k \in 1 .. n : FALSE) => n = 0
      BY SMT
    <3>4. Len(wire) = 0 /\ Len(rx) = 0
      BY <3>2, <3>3, LengthOf DEF TurnTypes
    <3> QED BY <3>4, LengthOf DEF TurnTypes
  <2>5. overtaken' \/ (wire' = <<>> /\ rx' = <<>>)
    BY <1>1, <1>2, <2>4
  <2>6. Taken'
    BY <2>1, <2>2, <2>3, <2>5 DEF Queued, Taken, Timed, Silent, serverVars
  <2> QED BY <2>6 DEF Stages
<1> QED BY <1>4, <1>5, <1>6

LEMMA StatusStep ==
    ASSUME StackInv, StatusKnown, Main \/ Others \/ Deadline
    PROVE  StatusKnown'
<1>1. Fresh /\ TurnTypes
  BY DEF StackInv, TypeInv, TypeOK
<1>2. ASSUME UNCHANGED <<phase, late, status, audioOf, benchEvents>> PROVE StatusKnown'
  BY <1>2 DEF StatusKnown
<1>3. CASE \/ Build \/ SamplerStart \/ SamplerStop \/ CheckPorts \/ StartTail
           \/ SpawnEngine \/ WaitForEngine \/ SpawnGateway \/ WaitForGateway
           \/ OpenLog \/ EngineListens \/ GatewayListens
  <2>1. UNCHANGED turnVars
    BY <1>3 DEF Build, SamplerStart, SamplerStop, CheckPorts, StartTail,
         SpawnEngine, WaitForEngine, SpawnGateway, WaitForGateway, OpenLog, EngineListens,
         GatewayListens
  <2> QED BY <1>2, <2>1 DEF turnVars, clientVars
<1>4. CASE StackStop \/ Finally
  BY <1>2, <1>4 DEF StackStop, Finally, Stop
<1>5. CASE AudioRead \/ LineRead \/ LineMissed
  BY <1>2, <1>5 DEF AudioRead, Read, LineRead, HandleLine, LineMissed, clientVars
<1>6. CASE EngineStep
  <2>1. UNCHANGED clientVars
    BY <1>6 DEF EngineStep, Engine, Speak, Boundary, FirstToken, PutChunk, LogsBench
  <2> QED BY <1>2, <2>1 DEF clientVars
<1>7. CASE CallOpens \/ CallCloses
  <2>1. phase' \in {"turn", "idle"}
    BY <1>7 DEF CallOpens, CallBegins, CallCloses, Close
  <2> QED BY <2>1 DEF StatusKnown
<1>8. CASE Deadline
  BY <1>8 DEF Deadline, DeadlinePasses, StatusKnown
<1>9. CASE TurnStep
  <2>1. CASE DrainBench \/ LastTurnDone \/ PauseEnds
    <3>1. phase' \in Quiet
      BY <2>1 DEF DrainBench, LastTurnDone, PauseEnds, Quiet
    <3> QED BY <3>1 DEF StatusKnown, Quiet
  <2>2. CASE DrainRx
    BY <1>1, <2>2 DEF DrainRx, Fresh, Quiet, StatusKnown
  <2>3. CASE SpeechEnds
    BY <2>3 DEF SpeechEnds, StatusKnown
  <2>4. CASE AwaitAudio
    <3>1. <<Head(rx)>> # <<>>
      BY SMT
    <3>2. phase = "await" /\ status = "no_response" /\ audioOf = <<>>
      BY <2>4 DEF AwaitAudio, StatusKnown
    <3>3. CASE late /\ phase' = "pause" /\ UNCHANGED <<late, status, audioOf, rx>>
      BY <3>2, <3>3 DEF StatusKnown
    <3>4. CASE audioOf' = <<Head(rx)>> /\ status' = "ok" /\ phase' = "complete"
      BY <3>1, <3>4 DEF StatusKnown
    <3>5. CASE phase' = "awaitBench" /\ UNCHANGED <<late, status, audioOf, rx>>
      BY <3>2, <3>5 DEF StatusKnown
    <3> QED BY <2>4, <3>3, <3>4, <3>5 DEF AwaitAudio
  <2>5. CASE AwaitBench
    <3>1. phase = "awaitBench" /\ status = "no_response" /\ audioOf = <<>> /\ audioOf' = <<>>
      BY <2>5 DEF AwaitBench, StatusKnown
    <3>2. CASE phase' = "await" /\ UNCHANGED status
      BY <3>1, <3>2 DEF StatusKnown
    <3>3. CASE TakeBench /\ phase' = "pause" /\ status' = "no_audio"
      BY <1>1, <3>1, <3>3, TakeBenchTypes DEF StatusKnown
    <3> QED BY <2>5, <3>2, <3>3 DEF AwaitBench
  <2>6. CASE CompleteAudio
    <3>1. phase = "complete" /\ status = "ok" /\ audioOf # <<>>
      BY <2>6 DEF CompleteAudio, StatusKnown
    <3>2. CASE late /\ status' = "no_completion" /\ phase' = "pause"
      BY <2>6, <3>2 DEF CompleteAudio, StatusKnown
    <3>3. CASE phase' = "completeBench" /\ UNCHANGED status
      <4>1. rx # <<>> => Append(audioOf, Head(rx)) # <<>>
        <5>1. audioOf \in Seq(Turns) /\ rx \in Seq(Turns)
          BY <1>1 DEF TurnTypes
        <5>2. rx # <<>> => Head(rx) \in Turns
          BY <5>1, HeadAndTail
        <5> QED BY <5>1, <5>2, AppendProperties
      <4>2. audioOf' # <<>>
        BY <2>6, <3>1, <3>3, <4>1, SMT DEF CompleteAudio
      <4> QED BY <3>1, <3>3, <4>2 DEF StatusKnown
    <3> QED BY <2>6, <3>2, <3>3 DEF CompleteAudio
  <2>7. CASE CompleteBench
    BY <2>7, SMT DEF CompleteBench, StatusKnown
  <2> QED BY <1>9, <2>1, <2>2, <2>3, <2>4, <2>5, <2>6, <2>7 DEF TurnStep, RunTurn
<1>10. CASE Survivors
  BY <1>2, <1>10, SurvivorsFrame DEF clientVars
<1> QED BY <1>3, <1>4, <1>5, <1>6, <1>7, <1>8, <1>9, <1>10
        DEF Main, Others, Listeners, Services, Survivors

LEMMA InitMeasure == Init => MeasureInv
BY InitStack DEF Init, TurnInit, MeasureInv, StatusKnown, TurnsOwn, Quiet, Settled

LEMMA SameTurns ==
    ASSUME TurnsOwn, UNCHANGED turnVars, Undisturbed' => Undisturbed
    PROVE  TurnsOwn'
BY DEF TurnsOwn, turnVars, clientVars, serverVars, turnGhosts, Settled, Measured,
   AllOfTurn, NotBegun, Stages, Silent, Held, Waits, Answered, Written, Queued, Taken,
   Timed

LEMMA TurnsOwnStep ==
    ASSUME MeasureInv, Main \/ Others \/ Deadline
    PROVE  TurnsOwn'
<1>1. StackInv /\ TurnTypes /\ Fresh
  BY DEF MeasureInv, StackInv, TypeInv, TypeOK
<1>2. TurnsOwn /\ StatusKnown
  BY DEF MeasureInv
<1>3. ASSUME UNCHANGED turnVars, Undisturbed' => Undisturbed PROVE TurnsOwn'
  BY <1>2, <1>3, SameTurns
<1>4. ASSUME tail' = tail, disturbed' = disturbed PROVE Undisturbed' => Undisturbed
  BY <1>4 DEF Undisturbed
<1>5. CASE \/ Build \/ SamplerStart \/ SamplerStop \/ CheckPorts
           \/ SpawnEngine \/ WaitForEngine \/ SpawnGateway \/ WaitForGateway
           \/ EngineListens \/ GatewayListens
  <2>1. UNCHANGED turnVars /\ UNCHANGED tail
    BY <1>5 DEF Build, SamplerStart, SamplerStop, CheckPorts,
         SpawnEngine, WaitForEngine, SpawnGateway, WaitForGateway, EngineListens,
         GatewayListens, stackVars
  <2> QED BY <1>3, <1>4, <2>1 DEF turnVars, turnGhosts
<1>6. CASE StartTail \/ OpenLog
  <2>1. UNCHANGED turnVars
    BY <1>6 DEF StartTail, OpenLog
  <2>2. tail.file = "none"
    <3>1. CASE StartTail
      <4>1. tail = NoTail
        BY <1>1, <3>1 DEF StartTail, Starting, At, StackInv, DownBetween, DownAt, IsDown
      <4> QED BY <4>1 DEF NoTail
    <3> QED BY <1>6, <3>1 DEF OpenLog
  <2> QED BY <1>3, <2>1, <2>2 DEF Undisturbed, turnVars, turnGhosts
<1>7. CASE StackStop \/ Finally
  <2>1. phase = "idle" /\ Stop
    BY <1>1, <1>7, StopsBetweenCalls DEF StackStop, Finally, Names
  <2>2. Settled' /\ phase' = "idle"
    BY <2>1 DEF Stop, Settled
  <2> QED BY <2>2 DEF TurnsOwn, Quiet
<1>8. CASE CallOpens
  <2>1. /\ phase = "idle" /\ phase' = "turn"
        /\ UNCHANGED <<open, replies, wire, log, ttftPending, benchQ, disturbed, tail>>
    BY <1>8 DEF CallOpens, CallBegins, runVars, stackVars, serverVars, turnGhosts
  <2> QED BY <1>2, <1>4, <2>1 DEF TurnsOwn, Quiet, Settled
<1>9. CASE CallCloses
  <2>1. /\ phase = "close" /\ phase' = "idle" /\ open' = 0 /\ wire' = <<>>
        /\ UNCHANGED <<replies, log, ttftPending, benchQ, disturbed, tail>>
    BY <1>9 DEF CallCloses, Close, stackVars, turnGhosts
  <2> QED BY <1>2, <1>4, <2>1 DEF TurnsOwn, Quiet, Settled
<1>10. ASSUME CallStep, disturbed' = disturbed PROVE Undisturbed' => Undisturbed
  BY <1>4, <1>10, CallStepFrame DEF runVars, stackVars
<1>11. CASE AudioRead \/ LineRead
  <2>1. Read \/ HandleLine
    BY <1>11 DEF AudioRead, LineRead
  <2>2. UNCHANGED clientVars /\ UNCHANGED turnGhosts
    BY <2>1 DEF Read, HandleLine
  <2>3. SUFFICES ASSUME Undisturbed'
                 PROVE  IF phase \in Quiet THEN Settled' ELSE Measured'
    BY <2>2 DEF TurnsOwn, clientVars
  <2>4. Undisturbed
    BY <1>10, <1>11, <2>2, <2>3 DEF CallStep, turnGhosts
  <2>5. ~(phase \in Quiet)
    BY <1>2, <2>1, <2>4 DEF TurnsOwn, Settled, Read, HandleLine
  <2> QED BY <1>1, <1>2, <2>1, <2>4, <2>5, ReadMeasured, LineMeasured DEF TurnsOwn
<1>12. CASE LineMissed
  BY <1>12 DEF LineMissed, Undisturbed, runVars, stackVars, TurnsOwn
<1>13. CASE EngineStep
  <2>1. Engine
    BY <1>13 DEF EngineStep
  <2>2. UNCHANGED clientVars /\ UNCHANGED disturbed
    BY <2>1 DEF Engine, Speak, Boundary, FirstToken, PutChunk, LogsBench, turnGhosts
  <2>3. SUFFICES ASSUME Undisturbed'
                 PROVE  IF phase \in Quiet THEN Settled' ELSE Measured'
    BY <2>2 DEF TurnsOwn, clientVars
  <2>4. Undisturbed
    BY <1>10, <1>13, <2>2, <2>3 DEF CallStep
  <2>5. ~(phase \in Quiet)
    <3>1. SUFFICES ASSUME phase \in Quiet PROVE FALSE
      OBVIOUS
    <3>2. open = 0 /\ Len(replies) = 0
      BY <1>1, <1>2, <2>4, <3>1, LengthOf DEF TurnsOwn, Settled, TurnTypes
    <3>3. \A k \in 1 .. 0 : FALSE
      BY SMT
    <3> QED BY <2>1, <3>1, <3>2, <3>3 DEF Engine, Speak, Boundary, Quiet
  <2> QED BY <1>1, <1>2, <2>1, <2>4, <2>5, EngineMeasured DEF TurnsOwn
<1>14. CASE Deadline
  <2>1. /\ phase' = phase
        /\ UNCHANGED <<turn, audioOf, benchEvents, rx, benchQ, ttftPending, serverVars,
                       wire, log, turnGhosts>>
    BY <1>14 DEF Deadline, DeadlinePasses
  <2>2. Undisturbed' => Undisturbed
    BY <1>10, <1>14, <2>1 DEF CallStep, turnGhosts
  <2> QED BY <1>2, <2>1, <2>2 DEF TurnsOwn, serverVars, turnGhosts, Settled, Measured,
          AllOfTurn, NotBegun, Stages, Silent, Held, Waits, Answered, Written, Queued,
          Taken, Timed
<1>15. CASE TurnStep
  <2>1. RunTurn /\ (disturbed' = disturbed => (Undisturbed' => Undisturbed))
    BY <1>10, <1>15 DEF CallStep, TurnStep
  <2>2. CASE DrainBench
    <3>1. /\ phase = "turn" /\ phase' = "drain" /\ benchQ' = <<>>
          /\ UNCHANGED <<ttftPending, serverVars, wire, log, turnGhosts>>
      BY <2>2 DEF DrainBench
    <3> QED BY <1>2, <2>1, <3>1 DEF TurnsOwn, Quiet, Settled, serverVars, turnGhosts
  <2>3. CASE DrainRx
    <3>1. /\ phase = "drain" /\ phase' = "speak" /\ rx' = <<>>
          /\ UNCHANGED <<turn, audioOf, benchEvents, benchQ, ttftPending, serverVars,
                         wire, log, turnGhosts>>
      BY <2>3 DEF DrainRx
    <3>2. SUFFICES ASSUME Undisturbed' PROVE Measured'
      BY <3>1 DEF TurnsOwn, Quiet
    <3>3. Settled /\ parts = 0 /\ audioOf = <<>> /\ benchEvents = <<>>
      BY <1>1, <1>2, <2>1, <3>1, <3>2 DEF TurnsOwn, Quiet, Fresh, turnGhosts
    <3>4. NotBegun' /\ parts' = 0
      BY <3>1, <3>3 DEF NotBegun, Settled, Silent, serverVars, turnGhosts
    <3>5. AllOfTurn'
      BY <3>4, OfNothing DEF AllOfTurn, NotBegun, Settled, Silent
    <3>6. parts' # 1
      BY <3>4, SMT
    <3> QED BY <3>4, <3>5, <3>6 DEF Measured
  <2>4. CASE LastTurnDone
    <3>1. /\ phase = "turn" /\ phase' = "close"
          /\ UNCHANGED <<benchQ, ttftPending, serverVars, wire, log, turnGhosts>>
      BY <2>4 DEF LastTurnDone
    <3> QED BY <1>2, <2>1, <3>1 DEF TurnsOwn, Quiet, Settled, serverVars, turnGhosts
  <2>5. ASSUME phase \notin Quiet, phase' \notin Quiet,
               UNCHANGED <<turn, audioOf, benchEvents, rx, benchQ, ttftPending, serverVars,
                           wire, log, turnGhosts>>
        PROVE  TurnsOwn'
    BY <1>2, <2>1, <2>5 DEF TurnsOwn, serverVars, turnGhosts, Measured, AllOfTurn, Settled,
       NotBegun, Stages, Silent, Held, Waits, Answered, Written, Queued, Taken, Timed
  <2>6. CASE SpeechEnds
    BY <2>5, <2>6 DEF SpeechEnds, Quiet
  <2>7. CASE AwaitAudio
    <3>1. /\ phase \notin Quiet /\ phase' \notin Quiet
          /\ UNCHANGED <<turn, benchEvents, benchQ, ttftPending, serverVars, wire, log,
                         turnGhosts>>
      BY <2>7, SMT DEF AwaitAudio, Quiet
    <3>2. CASE UNCHANGED <<audioOf, rx>>
      BY <2>5, <3>1, <3>2
    <3>3. CASE rx # <<>> /\ audioOf' = <<Head(rx)>> /\ rx' = Tail(rx)
      BY <1>1, <1>2, <2>1, <3>1, <3>3, AudioTaken DEF TurnsOwn, turnGhosts
    <3> QED BY <2>7, <3>2, <3>3 DEF AwaitAudio
  <2>8. CASE AwaitBench
    <3>1. /\ phase \notin Quiet /\ phase' \notin Quiet
          /\ UNCHANGED <<turn, audioOf, rx, ttftPending, serverVars, wire, log, parts,
                         disturbed>>
      BY <2>8, SMT DEF AwaitBench, Quiet
    <3>2. CASE TakeBench
      BY <1>1, <1>2, <2>1, <3>1, <3>2, BenchTaken DEF TurnsOwn
    <3>3. CASE UNCHANGED <<benchEvents, benchQ, overtaken>>
      BY <2>5, <2>8, <3>1, <3>3 DEF AwaitBench, turnGhosts
    <3> QED BY <2>8, <3>2, <3>3 DEF AwaitBench
  <2>9. CASE CompleteAudio
    <3>1. /\ phase \notin Quiet /\ phase' \notin Quiet
          /\ UNCHANGED <<turn, benchEvents, benchQ, ttftPending, serverVars, wire, log,
                         turnGhosts>>
      BY <2>9, SMT DEF CompleteAudio, Quiet
    <3>2. CASE UNCHANGED <<audioOf, rx>>
      BY <2>5, <3>1, <3>2
    <3>3. CASE rx # <<>> /\ audioOf' = Append(audioOf, Head(rx)) /\ rx' = Tail(rx)
      BY <1>1, <1>2, <2>1, <3>1, <3>3, AudioTaken DEF TurnsOwn, turnGhosts
    <3> QED BY <2>9, <3>2, <3>3 DEF CompleteAudio
  <2>10. CASE CompleteBench
    <3>1. /\ phase \notin Quiet /\ phase' \notin Quiet
          /\ UNCHANGED <<turn, audioOf, rx, ttftPending, serverVars, wire, log, parts,
                         disturbed>>
      BY <2>10, SMT DEF CompleteBench, Quiet
    <3>2. CASE TakeBench
      BY <1>1, <1>2, <2>1, <3>1, <3>2, BenchTaken DEF TurnsOwn
    <3>3. CASE UNCHANGED <<benchEvents, benchQ, overtaken>>
      BY <2>5, <2>10, <3>1, <3>3 DEF CompleteBench, turnGhosts
    <3> QED BY <2>10, <3>2, <3>3 DEF CompleteBench
  <2>11. CASE PauseEnds
    <3>1. /\ phase = "pause" /\ wire = <<>> /\ phase' \in Quiet
          /\ disturbed' = (disturbed \/ parts > 1 \/ (late /\ parts > 0))
          /\ UNCHANGED <<benchQ, ttftPending, serverVars, wire, log>>
      BY <2>11 DEF PauseEnds, Quiet
    <3>2. SUFFICES ASSUME Undisturbed' PROVE Settled
      BY <3>1 DEF TurnsOwn, Settled, serverVars
    <3>3. Undisturbed /\ ~(parts > 1) /\ ~(late /\ parts > 0)
      BY <1>15, <3>1, <3>2, CallStepFrame DEF Undisturbed, CallStep, runVars, stackVars
    <3>4. parts = 0 \/ (parts = 1 /\ ~late)
      <4>1. parts \in Nat
        BY <1>1 DEF TurnTypes
      <4>2. ~(parts > 1) /\ ~(late /\ parts > 0)
        BY <3>3
      <4>3. parts = 0 \/ parts = 1
        BY <4>1, <4>2, SMT
      <4>4. parts = 1 => parts > 0
        BY SMT
      <4> QED BY <4>2, <4>3, <4>4
    <3>5. Measured
      BY <1>2, <3>1, <3>3 DEF TurnsOwn, Quiet
    <3>6. CASE parts = 0
      BY <3>5, <3>6 DEF Measured, NotBegun
    <3>7. CASE parts = 1 /\ ~late
      <4>1. benchEvents # <<>> /\ Stages
        BY <1>2, <3>1, <3>5, <3>7 DEF StatusKnown, Measured
      <4>2. Taken
        BY <4>1 DEF Stages, Held, Waits, Answered, Written, Queued
      <4> QED BY <3>1, <4>2 DEF Taken, Settled
    <3> QED BY <3>4, <3>6, <3>7
  <2> QED BY <2>1, <2>2, <2>3, <2>4, <2>6, <2>7, <2>8, <2>9, <2>10, <2>11 DEF RunTurn
\* In a call on this stack's engine no survivor has anything in work.
<1>16. CASE Survivors
  <2>1. /\ UNCHANGED <<clientVars, rx, benchQ, ttftPending, wire, turnGhosts>>
        /\ UNCHANGED tail
    BY <1>16, SurvivorsFrame
  <2>2. CASE UNCHANGED <<open, replies, log>>
    <3>1. UNCHANGED turnVars
      BY <2>1, <2>2 DEF turnVars, serverVars
    <3> QED BY <1>3, <1>4, <2>1, <3>1 DEF turnGhosts
  <2>3. CASE /\ <<"engine", TRUE>> \in forgotten
             /\ open' = 0 /\ replies' = <<>> /\ log' = <<>>
    <3>1. SUFFICES ASSUME Undisturbed'
                   PROVE  IF phase \in Quiet THEN Settled' ELSE Measured'
      BY <2>1 DEF TurnsOwn, clientVars
    <3>2. Undisturbed
      BY <1>4, <2>1, <3>1 DEF turnGhosts
    <3>3. phase \in Quiet
      <4>1. SUFFICES ASSUME phase \notin Quiet PROVE FALSE
        OBVIOUS
      <4>2. At("run_call")
        BY <1>1, <4>1 DEF Fresh, Quiet
      <4>3. engine = "listening"
        BY <1>1, <3>2, <4>2 DEF StackInv, UpForCalls, EngineUp, Undisturbed
      <4> QED BY <1>1, <2>3, <4>3 DEF StackInv, PortInv, OnePort, Own, Kinds
    <3> QED BY <1>2, <2>1, <2>3, <3>2, <3>3 DEF TurnsOwn, Settled
  <2> QED BY <1>16, <2>2, <2>3, SurvivorsFrame
<1> QED BY <1>5, <1>6, <1>7, <1>8, <1>9, <1>11, <1>12, <1>13, <1>14, <1>15, <1>16
        DEF Main, Others, Listeners, Services, Survivors

LEMMA MeasureStep == MeasureInv /\ [Next]_vars => MeasureInv'
<1> SUFFICES ASSUME MeasureInv, [Next]_vars PROVE MeasureInv'
  OBVIOUS
<1>1. StackInv' /\ StackInv /\ StatusKnown /\ TurnsOwn
  BY StackStep DEF MeasureInv
<1>2. CASE Next
  <2>1. Main \/ Others \/ Deadline
    BY <1>2 DEF Next, Others
  <2>2. StatusKnown'
    BY <1>1, <2>1, StatusStep
  <2>3. TurnsOwn'
    BY <2>1, TurnsOwnStep
  <2> QED BY <1>1, <2>2, <2>3 DEF MeasureInv
<1>3. CASE UNCHANGED vars
  <2>1. UNCHANGED turnVars /\ UNCHANGED tail
    BY <1>3 DEF vars, runVars, stackVars
  <2>2. Undisturbed' => Undisturbed
    BY <2>1 DEF Undisturbed, turnVars, turnGhosts
  <2>3. TurnsOwn'
    BY <1>1, <2>1, <2>2, SameTurns
  <2>4. StatusKnown'
    BY <1>1, <2>1 DEF StatusKnown, turnVars, clientVars
  <2> QED BY <1>1, <2>3, <2>4 DEF MeasureInv
<1> QED BY <1>2, <1>3

\* A turn recorded as ok has timed its own audio, server timers and TTFT, once
\* every earlier turn of the stack was answered as one utterance and in time.
THEOREM OkTurnsAreTheirOwn == Spec => []OwnMeasurements
<1>1. ASSUME MeasureInv PROVE OwnMeasurements
  <2>1. SUFFICES ASSUME phase = "pause", Record.status = "ok", ~disturbed,
                        tail.file = "new"
                 PROVE  /\ \A k \in 1 .. Len(Record.audio) : Record.audio[k] = turn
                        /\ Record.server # <<>>
                        /\ Record.server[1].turn = turn
                        /\ Record.server[1].ttft \in {0, turn}
                        /\ parts = 1 =>
                              /\ Record.server = <<[turn |-> turn, audio |-> TRUE,
                                                    ttft |-> turn]>>
                              /\ open = 0 /\ replies = <<>>
                              /\ overtaken \/ ~OnItsWay(turn)
    BY DEF OwnMeasurements
  <2>2. TurnTypes /\ StatusKnown /\ Measured
    BY <1>1, <2>1 DEF MeasureInv, TurnsOwn, StackInv, TypeInv, TypeOK, Undisturbed, Quiet
  <2>3. FinalStatus = "ok"
    BY <2>1 DEF Record
  <2>4. status = "ok"
    <3>1. CASE status = "ok"
      BY <3>1
    <3>2. CASE status # "ok"
      <4>1. FinalStatus = status
        BY <3>2 DEF FinalStatus
      <4> QED BY <2>3, <4>1
    <3> QED BY <3>1, <3>2
  <2>5. benchEvents # <<>> /\ audioOf # <<>>
    BY <2>1, <2>2, <2>4 DEF StatusKnown
  <2> DEFINE b == benchEvents
  <2>6. b \in Seq(BenchLine) /\ Len(b) \in Nat \ {0}
    BY <2>2, <2>5, EmptySeq DEF TurnTypes
  <2>7. 1 \in 1 .. Len(b) /\ b[1] \in BenchLine
    BY <2>6, ElementOfSeq, SMT
  <2>8. Record.server = <<b[1]>> /\ Record.audio = audioOf
    <3>1. Record.server = SubSeq(b, 1, 1)
      BY <2>5 DEF Record
    <3>2. SubSeq(b, 1, 1) = <<b[1]>>
      <4> DEFINE u == SubSeq(b, 1, 1)
                 v == <<b[1]>>
      <4>1. \A i \in 1 .. 1 : b[i] \in BenchLine
        BY <2>7, SMT
      <4>2. /\ u \in Seq(BenchLine) /\ Len(u) = IF 1 <= 1 THEN 1 - 1 + 1 ELSE 0
            /\ \A i \in 1 .. 1 - 1 + 1 : u[i] = b[1 + i - 1]
        BY <4>1, SubSeqProperties, 1 \in Int
      <4>3. Len(u) = 1 /\ u[1] = b[1]
        BY <4>2, SMT
      <4>4. v \in Seq(BenchLine) /\ Len(v) = 1 /\ v[1] = b[1]
        BY <2>7, SMT
      <4> HIDE DEF u, v
      <4>5. \A i \in 1 .. Len(u) : i = 1
        BY <4>3, SMT
      <4>6. u = v
        BY <4>2, <4>3, <4>4, <4>5, SeqEqual
      <4> QED BY <4>6 DEF u, v
    <3> QED BY <3>1, <3>2 DEF Record
  <2>9. b[1].turn = turn /\ b[1].ttft \in {0, turn}
    BY <2>2, <2>7 DEF Measured, AllOfTurn, TimedOf
  <2> HIDE DEF b
  <2>10. <<b[1]>>[1] = b[1] /\ <<b[1]>> # <<>>
    BY SMT
  <2>11. ASSUME parts = 1
         PROVE  /\ b[1] = [turn |-> turn, audio |-> TRUE, ttft |-> turn]
                /\ open = 0 /\ replies = <<>>
                /\ overtaken \/ ~OnItsWay(turn)
    <3>1. Taken
      BY <2>2, <2>5, <2>11 DEF Measured, Stages, Held, Waits, Answered, Written, Queued, b
    <3>2. ~Silent /\ b[1].audio /\ b[1].ttft = turn
      BY <2>5, <3>1 DEF Taken, Timed, Silent, b
    <3>3. b[1].audio = TRUE
      BY <2>7, <3>2 DEF BenchLine
    <3>4. b[1] = [turn |-> turn, audio |-> TRUE, ttft |-> turn]
      BY <2>7, <2>9, <3>2, <3>3 DEF BenchLine
    <3>5. ASSUME wire = <<>>, rx = <<>> PROVE ~OnItsWay(turn)
      BY <3>5, SMT DEF OnItsWay
    <3> QED BY <3>1, <3>4, <3>5 DEF Taken
  <2> QED BY <2>2, <2>8, <2>9, <2>10, <2>11 DEF Measured, AllOfTurn, HeardOf
<1> QED BY InitMeasure, MeasureStep, <1>1, PTL DEF Spec

=============================================================================

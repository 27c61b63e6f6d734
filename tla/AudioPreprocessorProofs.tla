------------------------ MODULE AudioPreprocessorProofs ------------------------
(***************************************************************************)
(* What AudioPreprocessor satisfies for every rate, block and frame size   *)
(* and packets of any number of samples.                                   *)
(***************************************************************************)
EXTENDS AudioPreprocessor, SequenceTheorems, TLAPS

---------------------------------------------------------------------------
(* Division. *)

LEMMA DivBounds ==
    ASSUME NEW n \in Nat, NEW d \in Nat \ {0}
    PROVE  /\ n \div d \in Nat
           /\ (n \div d) * d <= n
           /\ n < (n \div d) * d + d
<1>1. /\ n \div d \in Int /\ n % d \in 0 .. d - 1
      /\ n = d * (n \div d) + (n % d)
  BY SMT
<1>2. n \div d >= 0
  BY SMT
<1> QED BY <1>1, <1>2, SMT

LEMMA MulMonotone ==
    ASSUME NEW a \in Nat, NEW b \in Nat, NEW d \in Nat, a <= b
    PROVE  a * d <= b * d /\ a * d \in Nat /\ b * d \in Nat
<1>1. PICK c \in Nat : b = a + c
  BY b = a + (b - a), b - a \in Nat, SMT
<1>2. b * d = a * d + c * d /\ a * d \in Nat /\ c * d \in Nat
  BY <1>1, SMT
<1> QED BY <1>2, SMT

LEMMA Distributes ==
    \A a \in Int, b \in Int, c \in Int :
        /\ (a + b) * c = a * c + b * c
        /\ (a - b) * c = a * c - b * c
        /\ a * b = b * a /\ a * b \in Int
        /\ (a * b) * c = a * (b * c)
BY SMT

LEMMA BlockSizeIsPositive ==
    ASSUME NEW sr \in Nat
    PROVE  BlockSize(sr) \in Nat \ {0}
<1>1. sr * ResampleChunkMs \in Nat
  BY PreprocessorAssumption, SMT
<1>2. (sr * ResampleChunkMs) \div 1000 \in Nat
  BY <1>1, DivBounds
<1> QED BY <1>2, SMT DEF BlockSize

\* A block of raw samples becomes at least as much time of resampled ones, and
\* less than a sample more.
LEMMA ResampledSizeBounds ==
    ASSUME NEW sr \in Nat \ {0}
    PROVE  /\ ResampledSize(sr) \in Nat
           /\ ResampledSize(sr) * sr - BlockSize(sr) * TargetSR \in 0 .. sr - 1
<1> DEFINE n == BlockSize(sr) * TargetSR
<1>1. n \in Nat
  BY BlockSizeIsPositive, PreprocessorAssumption, SMT
<1>2. ResampledSize(sr) = (n + sr - 1) \div sr /\ n + sr - 1 \in Nat
  BY <1>1, SMT DEF ResampledSize
<1> HIDE DEF n
<1>3. /\ ResampledSize(sr) \in Nat
      /\ ResampledSize(sr) * sr <= n + sr - 1
      /\ n + sr - 1 < ResampledSize(sr) * sr + sr
  BY <1>2, DivBounds, Zenon
<1>4. ResampledSize(sr) * sr - n \in 0 .. sr - 1
  <2>1. ResampledSize(sr) * sr \in Int
    BY <1>3, SMT
  <2> QED BY <1>1, <1>3, <2>1, SMT
<1> QED BY <1>3, <1>4 DEF n

---------------------------------------------------------------------------
(* Cutting a sequence into frames. *)

LEMMA FunctionIsSeq ==
    ASSUME NEW T, NEW n \in Nat, NEW g \in [1 .. n -> T]
    PROVE  g \in Seq(T) /\ Len(g) = n
BY SMT

LEMMA Cutting ==
    ASSUME NEW S, NEW q \in Seq(S)
    PROVE  /\ FramesIn(q) \in Nat
           /\ FramesIn(q) * FrameSize \in 0 .. Len(q)
           /\ Len(q) - FramesIn(q) * FrameSize < FrameSize
           /\ CutFrames(q) \in Seq(Seq(S)) /\ Len(CutFrames(q)) = FramesIn(q)
           /\ \A f \in 1 .. FramesIn(q) :
                 /\ Len(CutFrames(q)[f]) = FrameSize
                 /\ \A k \in 1 .. FrameSize :
                       /\ (f - 1) * FrameSize + k \in 1 .. Len(q)
                       /\ CutFrames(q)[f][k] = q[(f - 1) * FrameSize + k]
           /\ Rest(q) \in Seq(S)
           /\ Len(Rest(q)) = Len(q) - FramesIn(q) * FrameSize
           /\ \A k \in 1 .. Len(Rest(q)) :
                 /\ FramesIn(q) * FrameSize + k \in 1 .. Len(q)
                 /\ Rest(q)[k] = q[FramesIn(q) * FrameSize + k]
<1> DEFINE N == FramesIn(q)
<1>1. Len(q) \in Nat /\ \A i \in 1 .. Len(q) : q[i] \in S
  BY LenProperties, ElementOfSeq
<1>2. FrameSize \in Nat \ {0}
  BY PreprocessorAssumption
<1>3. N \in Nat /\ N * FrameSize <= Len(q) /\ Len(q) < N * FrameSize + FrameSize
  BY <1>1, <1>2, DivBounds DEF FramesIn
<1>4. N * FrameSize \in Nat
  BY <1>2, <1>3, SMT
<1>5. ASSUME NEW f \in 1 .. N
      PROVE  /\ (f - 1) * FrameSize \in Nat
             /\ f * FrameSize = (f - 1) * FrameSize + FrameSize
             /\ f * FrameSize <= Len(q)
  <2>0. N \in Nat
    BY <1>3
  <2>1. f \in Nat /\ f - 1 \in Nat /\ f <= N
    BY <2>0, SMT
  <2>2. f * FrameSize <= N * FrameSize /\ f * FrameSize \in Nat
    BY <2>1, <2>0, <1>2, MulMonotone
  <2>3. (f - 1) * FrameSize = f * FrameSize - 1 * FrameSize
        /\ (f - 1) * FrameSize \in Nat
    BY <2>1, <1>2, SMT
  <2> QED BY <1>1, <1>2, <1>3, <1>4, <2>2, <2>3, SMT
<1> HIDE DEF N
<1>6. ASSUME NEW f \in 1 .. N
      PROVE  LET piece == SubSeq(q, (f - 1) * FrameSize + 1, f * FrameSize)
             IN  /\ piece \in Seq(S) /\ Len(piece) = FrameSize
                 /\ \A k \in 1 .. FrameSize :
                       /\ (f - 1) * FrameSize + k \in 1 .. Len(q)
                       /\ piece[k] = q[(f - 1) * FrameSize + k]
  <2> DEFINE from == (f - 1) * FrameSize
  <2>1. from \in Nat /\ f * FrameSize = from + FrameSize
        /\ from + FrameSize <= Len(q)
    BY <1>5, <1>6
  <2> HIDE DEF from
  <2> DEFINE piece == SubSeq(q, from + 1, from + FrameSize)
  <2>2. from + 1 \in Int /\ from + FrameSize \in Int
        /\ \A i \in from + 1 .. from + FrameSize : q[i] \in S
    BY <1>1, <1>2, <2>1, SMT
  <2>3. /\ piece \in Seq(S)
        /\ Len(piece) = IF from + 1 <= from + FrameSize
                        THEN (from + FrameSize) - (from + 1) + 1 ELSE 0
        /\ \A i \in 1 .. (from + FrameSize) - (from + 1) + 1 :
              piece[i] = q[from + 1 + i - 1]
    BY <2>2, SubSeqProperties
  <2> HIDE DEF piece
  <2>4. piece \in Seq(S) /\ Len(piece) = FrameSize
    BY <1>2, <2>1, <2>3, SMT
  <2>5. ASSUME NEW k \in 1 .. FrameSize
        PROVE  from + k \in 1 .. Len(q) /\ piece[k] = q[from + k]
    <3>1. from + 1 + k - 1 = from + k
          /\ k \in 1 .. (from + FrameSize) - (from + 1) + 1
          /\ from + k \in 1 .. Len(q)
      BY <1>1, <1>2, <2>1, SMT
    <3> QED BY <2>3, <3>1, Zenon
  <2> QED BY <2>1, <2>4, <2>5 DEF piece, from
<1>7. /\ CutFrames(q) \in Seq(Seq(S)) /\ Len(CutFrames(q)) = N
      /\ \A f \in 1 .. N :
            CutFrames(q)[f] = SubSeq(q, (f - 1) * FrameSize + 1, f * FrameSize)
  <2>1. CutFrames(q) =
            [f \in 1 .. N |-> SubSeq(q, (f - 1) * FrameSize + 1, f * FrameSize)]
    BY DEF CutFrames, N
  <2>2. CutFrames(q) \in [1 .. N -> Seq(S)]
    BY <1>6, <2>1
  <2>3. CutFrames(q) \in Seq(Seq(S)) /\ Len(CutFrames(q)) = N
    BY <1>3, <2>2, FunctionIsSeq
  <2> QED BY <2>1, <2>3, Zenon
<1> DEFINE from == N * FrameSize
<1>8. from \in Nat /\ from <= Len(q) /\ Len(q) < from + FrameSize
  BY <1>3, <1>4 DEF N
<1>9. Rest(q) = SubSeq(q, from + 1, Len(q))
  BY DEF Rest, N
<1> HIDE DEF from
<1>10. from + 1 \in Int /\ Len(q) \in Int
       /\ \A i \in from + 1 .. Len(q) : q[i] \in S
  BY <1>1, <1>8, SMT
<1>11. /\ Rest(q) \in Seq(S)
       /\ Len(Rest(q)) = IF from + 1 <= Len(q) THEN Len(q) - (from + 1) + 1 ELSE 0
       /\ \A i \in 1 .. Len(q) - (from + 1) + 1 : Rest(q)[i] = q[from + 1 + i - 1]
  BY <1>9, <1>10, SubSeqProperties
<1>12. Len(Rest(q)) = Len(q) - from
  BY <1>1, <1>8, <1>11, SMT
<1>13. ASSUME NEW k \in 1 .. Len(Rest(q))
       PROVE  from + k \in 1 .. Len(q) /\ Rest(q)[k] = q[from + k]
  <2>1. k \in Int /\ 1 <= k /\ k <= Len(q) - from /\ from \in Nat /\ Len(q) \in Nat
    BY <1>1, <1>8, <1>12, SMT
  <2>2. from + 1 + k - 1 = from + k
    BY <2>1
  <2>3. k \in 1 .. Len(q) - (from + 1) + 1
    BY <2>1
  <2>4. from + k \in 1 .. Len(q)
    BY <2>1
  <2> QED BY <1>11, <2>2, <2>3, <2>4, Zenon
<1>14. /\ N \in Nat /\ from \in 0 .. Len(q) /\ Len(q) - from < FrameSize
  BY <1>1, <1>2, <1>3, <1>8, SMT DEF N
<1>15. /\ CutFrames(q) \in Seq(Seq(S)) /\ Len(CutFrames(q)) = FramesIn(q)
       /\ \A f \in 1 .. FramesIn(q) :
             /\ Len(CutFrames(q)[f]) = FrameSize
             /\ \A k \in 1 .. FrameSize :
                   /\ (f - 1) * FrameSize + k \in 1 .. Len(q)
                   /\ CutFrames(q)[f][k] = q[(f - 1) * FrameSize + k]
  BY <1>6, <1>7, Zenon DEF N
<1>16. FramesIn(q) * FrameSize = from /\ FramesIn(q) = N
  BY Zenon DEF N, from
<1> QED BY <1>11, <1>12, <1>13, <1>14, <1>15, <1>16, Zenon

---------------------------------------------------------------------------
(* The inductive invariant. *)

\* What has been taken from the raw buffer is whole blocks, and what has come
\* of it is what they make.
WholeBlocks(sr) ==
    \E b \in Nat : Consumed = b * BlockSize(sr) /\ Heard = b * ResampledSize(sr)
Aligned ==
    IF sourceSR = 0
    THEN /\ rawBuffer = <<>> /\ remainder = <<>> /\ frames = <<>>
         /\ received = 0 /\ pump = "recv"
    ELSE WholeBlocks(sourceSR)

Inv == TypeOK /\ StreamIntact /\ LagBounded /\ Aligned

LEMMA RatesArePositive == Rates \cup {DefaultRate} \subseteq Nat \ {0}
BY PreprocessorAssumption

LEMMA Initially == Init => Inv
<1> SUFFICES ASSUME Init PROVE Inv
  OBVIOUS
<1>1. FrameSize \in Nat \ {0}
  BY PreprocessorAssumption
<1>2. <<>> \in Seq(Nat) /\ <<>> \in Seq(Sample) /\ <<>> \in Seq(Seq(Sample))
      /\ Len(<<>>) = 0
  BY EmptySeq
<1>3. TypeOK
  BY <1>2, SMT DEF Init, TypeOK
<1>4. StreamIntact
  BY <1>2, SMT DEF Init, StreamIntact
<1>5. LagBounded
  BY <1>1, <1>2, SMT DEF Init, LagBounded
<1> QED BY <1>3, <1>4, <1>5 DEF Init, Inv, Aligned

\* A preprocessor that is made finds nothing buffered.
LEMMA Made ==
    ASSUME Inv, sourceSR = 0, sourceSR' \in Rates \cup {DefaultRate},
           pump' \in {"recv", "dead"},
           UNCHANGED <<rawBuffer, remainder, received, frames>>
    PROVE  Inv'
<1>1. sourceSR' \in Nat \ {0}
  BY RatesArePositive
<1>2. BlockSize(sourceSR') \in Nat \ {0} /\ ResampledSize(sourceSR') \in Nat
  BY <1>1, BlockSizeIsPositive, ResampledSizeBounds
<1>3. FrameSize \in Nat \ {0}
  BY PreprocessorAssumption
<1>4. rawBuffer = <<>> /\ remainder = <<>> /\ frames = <<>> /\ received = 0
  BY DEF Inv, Aligned
<1>5. TypeOK'
  BY DEF Inv, TypeOK
<1>6. StreamIntact'
  BY <1>4, SMT DEF StreamIntact
<1>7. LagBounded'
  BY <1>2, <1>3, <1>4, SMT DEF LagBounded
<1>8. Aligned'
  <2>1. Consumed' = 0 * BlockSize(sourceSR') /\ Heard' = 0 * ResampledSize(sourceSR')
    BY <1>2, <1>3, <1>4, SMT DEF Consumed, Heard
  <2> QED BY <1>1, <2>1 DEF Aligned, WholeBlocks
<1> QED BY <1>5, <1>6, <1>7, <1>8 DEF Inv

\* With the rate fixed, samples keep their places while more arrive.
LEMMA PlacesKept ==
    ASSUME sourceSR' = sourceSR, received \in Nat, received' \in Nat,
           received <= received'
    PROVE  \A s, i : IsSampleAt(s, i) => IsSampleAt(s, i)'
<1>1. 0 .. received \subseteq 0 .. received'
  BY SMT
<1> QED BY <1>1 DEF IsSampleAt

LEMMA SamplesArrive ==
    ASSUME NEW r \in Nat, NEW n \in Nat, NEW q \in Seq(Nat),
           \A k \in 1 .. Len(q) : q[k] = r - Len(q) + k
    PROVE  LET grown == q \o Samples(r + 1, r + n)
           IN  /\ grown \in Seq(Nat) /\ Len(grown) = Len(q) + n
               /\ \A k \in 1 .. Len(grown) : grown[k] = (r + n) - Len(grown) + k
<1> DEFINE new == Samples(r + 1, r + n)
<1>1. /\ new \in Seq(Nat) /\ Len(new) = n
      /\ \A k \in 1 .. n : new[k] = r + k
  <2>1. new = [k \in 1 .. n |-> r + k]
    BY SMT DEF Samples
  <2>2. new \in [1 .. n -> Nat]
    BY <2>1, SMT
  <2> QED BY <2>1, <2>2, FunctionIsSeq
<1> HIDE DEF new
<1>2. /\ q \o new \in Seq(Nat) /\ Len(q \o new) = Len(q) + n
      /\ \A k \in 1 .. Len(q) + n : (q \o new)[k] =
             IF k <= Len(q) THEN q[k] ELSE new[k - Len(q)]
  BY <1>1, ConcatProperties
<1>3. Len(q) \in Nat
  BY LenProperties
<1>4. ASSUME NEW k \in 1 .. Len(q) + n
      PROVE  (q \o new)[k] = (r + n) - (Len(q) + n) + k
  <2>1. CASE k <= Len(q)
    <3>1. k \in 1 .. Len(q)
      BY <1>3, <2>1, SMT
    <3>2. q[k] = r - Len(q) + k /\ (q \o new)[k] = q[k]
      BY <1>2, <2>1, <3>1
    <3> QED BY <1>3, <3>2, SMT
  <2>2. CASE k > Len(q)
    <3>1. k - Len(q) \in 1 .. n
      BY <1>3, <2>2, SMT
    <3>2. new[k - Len(q)] = r + (k - Len(q))
      BY <1>1, <3>1
    <3>3. ~(k <= Len(q))
      BY <1>3, <2>2, SMT
    <3>4. (q \o new)[k] = new[k - Len(q)]
      BY <1>2, <3>3, Zenon
    <3>5. r + (k - Len(q)) = (r + n) - (Len(q) + n) + k
      BY <1>3, SMT
    <3> QED BY <3>2, <3>4, <3>5, Zenon
  <2>3. k <= Len(q) \/ k > Len(q)
    BY <1>3, SMT
  <2> QED BY <2>1, <2>2, <2>3, Zenon
<1> QED BY <1>2, <1>4, Zenon DEF new

LEMMA AudioKeeps ==
    ASSUME Inv, NEW n \in Nat, Audio(n)
    PROVE  Inv'
<1> USE DEF Inv
<1> DEFINE sr == IF sourceSR = 0 THEN DefaultRate ELSE sourceSR
<1>1. sr \in Rates \cup {DefaultRate} /\ sr \in Nat \ {0} /\ sourceSR' = sr
  BY RatesArePositive DEF TypeOK, Audio
<1>2. BlockSize(sr) \in Nat \ {0} /\ ResampledSize(sr) \in Nat
  BY <1>1, BlockSizeIsPositive, ResampledSizeBounds
<1>3. FrameSize \in Nat \ {0}
  BY PreprocessorAssumption
<1>4. received \in Nat /\ rawBuffer \in Seq(Nat) /\ Len(rawBuffer) \in Nat
      /\ \A k \in 1 .. Len(rawBuffer) : rawBuffer[k] = received - Len(rawBuffer) + k
  BY LenProperties DEF TypeOK, StreamIntact
<1>5. rawBuffer' = rawBuffer \o Samples(received + 1, received + n)
      /\ received' = received + n /\ pump' = "push"
      /\ UNCHANGED <<remainder, frames>>
  BY DEF Audio
<1>6. /\ rawBuffer' \in Seq(Nat) /\ Len(rawBuffer') = Len(rawBuffer) + n
      /\ \A k \in 1 .. Len(rawBuffer') : rawBuffer'[k] = received' - Len(rawBuffer') + k
  <2> DEFINE grown == rawBuffer \o Samples(received + 1, received + n)
  <2>1. /\ grown \in Seq(Nat) /\ Len(grown) = Len(rawBuffer) + n
        /\ \A k \in 1 .. Len(grown) : grown[k] = (received + n) - Len(grown) + k
    BY <1>4, SamplesArrive
  <2>2. rawBuffer' = grown
    BY <1>5
  <2> QED BY <1>5, <2>1, <2>2
<1>7. received' \in Nat /\ received <= received'
  BY <1>4, <1>5, SMT
<1>8. TypeOK'
  BY <1>1, <1>5, <1>6, <1>7 DEF TypeOK
<1>9. StreamIntact'
  <2>1. CASE sourceSR = 0
    <3>1. Len(frames') = 0 /\ Len(remainder') = 0
      BY <1>5, <2>1, EmptySeq DEF Aligned
    <3> QED BY <1>6, <3>1, SMT DEF StreamIntact
  <2>2. CASE sourceSR # 0
    <3>1. \A s, i : IsSampleAt(s, i) => IsSampleAt(s, i)'
      BY <1>1, <1>4, <1>7, <2>2, PlacesKept
    <3>2. \A f \in 1 .. Len(frames') : \A k \in 1 .. FrameSize :
             IsSampleAt(frames[f][k], (f - 1) * FrameSize + k)'
      BY <1>5, <3>1 DEF StreamIntact
    <3>3. \A k \in 1 .. Len(remainder') :
             IsSampleAt(remainder[k], Len(frames) * FrameSize + k)'
      BY <1>5, <3>1 DEF StreamIntact
    <3> QED BY <1>6, <3>2, <3>3 DEF StreamIntact
  <2> QED BY <2>1, <2>2
<1>10. LagBounded'
  BY <1>5 DEF LagBounded
<1>11. Aligned'
  <2>1. Consumed' = Consumed
    <3>1. (received + n) - (Len(rawBuffer) + n) = received - Len(rawBuffer)
      BY <1>4, SMT
    <3> QED BY <1>5, <1>6, <3>1, Zenon DEF Consumed
  <2>2. Heard' = Heard
    BY <1>5 DEF Heard
  <2>3. CASE sourceSR = 0
    <3>1. Consumed = 0 * BlockSize(sr) /\ Heard = 0 * ResampledSize(sr)
      BY <1>2, <1>3, <2>3, EmptySeq, SMT DEF Aligned, Consumed, Heard
    <3> QED BY <1>1, <2>1, <2>2, <3>1 DEF Aligned, WholeBlocks
  <2>4. CASE sourceSR # 0
    BY <1>1, <2>1, <2>2, <2>4 DEF Aligned, WholeBlocks
  <2> QED BY <2>3, <2>4
<1> QED BY <1>8, <1>9, <1>10, <1>11

LEMMA PushEndsKeeps ==
    ASSUME Inv, PushEnds
    PROVE  Inv'
<1> USE DEF Inv, PushEnds
<1>1. TypeOK'
  BY DEF TypeOK
<1>2. StreamIntact'
  BY DEF StreamIntact, IsSampleAt
<1>3. LagBounded'
  BY DEF LagBounded
<1>4. Aligned'
  BY DEF Aligned, WholeBlocks, Consumed, Heard
<1> QED BY <1>1, <1>2, <1>3, <1>4

\* One block more: its samples take the places behind those already made.
LEMMA CombinedInPlace ==
    ASSUME Inv, PushBlock
    PROVE  /\ Combined \in Seq(Sample)
           /\ Len(Combined) = Len(remainder) + ResampledSize(sourceSR)
           /\ \A k \in 1 .. Len(Combined) :
                 IsSampleAt(Combined[k], Len(frames) * FrameSize + k)
<1> USE DEF Inv
<1> DEFINE B == BlockSize(sourceSR)
           R == ResampledSize(sourceSR)
           F == Len(frames) * FrameSize
<1>1. sourceSR \in Nat \ {0} /\ WholeBlocks(sourceSR)
  BY RatesArePositive DEF TypeOK, Aligned, PushBlock
<1>2. B \in Nat \ {0} /\ R \in Nat
  BY <1>1, BlockSizeIsPositive, ResampledSizeBounds
<1>3. /\ Len(rawBuffer) \in Nat /\ Len(remainder) \in Nat /\ Len(frames) \in Nat
      /\ received \in Nat /\ remainder \in Seq(Sample) /\ rawBuffer \in Seq(Nat)
  BY LenProperties DEF TypeOK
<1>4. F \in Nat
  BY <1>3, PreprocessorAssumption, SMT
<1>5. Len(rawBuffer) >= B
  BY DEF PushBlock
<1>6. PICK b \in Nat : Consumed = b * B /\ Heard = b * R
  BY <1>1 DEF WholeBlocks
<1> HIDE DEF B, R, F
<1>7. b \in 0 .. received
  <2>1. b * 1 <= b * B /\ b * B \in Nat
    <3>1. 1 * b <= B * b
      BY <1>2, <1>6, MulMonotone, 1 <= B, SMT
    <3> QED BY <1>2, <1>6, <3>1, Distributes, SMT
  <2>2. b * B <= received
    BY <1>3, <1>6, SMT DEF Consumed
  <2> QED BY <1>3, <1>6, <2>1, <2>2, SMT
<1>8. rawBuffer[1] = b * B + 1 /\ rawBuffer[1] \in Nat
  <2>1. 1 \in 1 .. Len(rawBuffer)
    BY <1>2, <1>3, <1>5, SMT
  <2>2. rawBuffer[1] = received - Len(rawBuffer) + 1
    BY <2>1 DEF StreamIntact
  <2>3. rawBuffer[1] \in Nat
    BY <1>3, <2>1, ElementOfSeq
  <2> QED BY <1>6, <2>2, <2>3 DEF Consumed
<1>9. /\ Resampled \in Seq(Sample) /\ Len(Resampled) = R
      /\ \A k \in 1 .. R : Resampled[k] = [block |-> rawBuffer[1], index |-> k]
  <2>1. Resampled = [k \in 1 .. R |-> [block |-> rawBuffer[1], index |-> k]]
    BY DEF Resampled, R
  <2>2. Resampled \in [1 .. R -> Sample]
    BY <1>2, <1>8, <2>1 DEF Sample
  <2>3. Resampled \in Seq(Sample) /\ Len(Resampled) = R
    BY <1>2, <2>2, FunctionIsSeq
  <2> QED BY <2>1, <2>3, Zenon
<1>10. /\ Combined \in Seq(Sample) /\ Len(Combined) = Len(remainder) + R
       /\ \A k \in 1 .. Len(remainder) + R : Combined[k] =
              IF k <= Len(remainder) THEN remainder[k]
                                     ELSE Resampled[k - Len(remainder)]
  BY <1>3, <1>9, ConcatProperties DEF Combined
<1>11. ASSUME NEW k \in 1 .. Len(remainder) + R
       PROVE  IsSampleAt(Combined[k], F + k)
  <2>1. CASE k <= Len(remainder)
    <3>1. k \in 1 .. Len(remainder)
      BY <1>3, <2>1, SMT
    <3>2. IsSampleAt(remainder[k], F + k)
      BY <3>1 DEF StreamIntact, F
    <3> QED BY <1>10, <2>1, <3>2
  <2>2. CASE ~(k <= Len(remainder))
    <3> DEFINE j == k - Len(remainder)
    <3>1. j \in 1 .. R
      BY <1>2, <1>3, <2>2, SMT
    <3>2. Combined[k] = [block |-> b * B + 1, index |-> j]
      BY <1>8, <1>9, <1>10, <2>2, <3>1
    <3>3. F + k = b * R + j
      <4>1. F + Len(remainder) = b * R
        BY <1>6 DEF Heard, F
      <4> QED BY <1>3, <1>4, <4>1, SMT
    <3>4. Combined[k].block = b * B + 1 /\ Combined[k].index = j
      BY <3>2
    <3> QED BY <1>7, <3>1, <3>3, <3>4, Zenon DEF IsSampleAt, B, R
  <2> QED BY <2>1, <2>2
<1> QED BY <1>10, <1>11 DEF R, F

LEMMA PushBlockKeeps ==
    ASSUME Inv, PushBlock
    PROVE  Inv'
<1> USE DEF Inv
<1> DEFINE B == BlockSize(sourceSR)
           R == ResampledSize(sourceSR)
           N == FramesIn(Combined)
           L == Len(frames)
<1>1. sourceSR \in Nat \ {0} /\ sourceSR' = sourceSR /\ received' = received
      /\ pump' = pump /\ pump = "push" /\ WholeBlocks(sourceSR)
  BY RatesArePositive DEF TypeOK, Aligned, PushBlock
<1>2. B \in Nat \ {0} /\ R \in Nat /\ FrameSize \in Nat \ {0}
  BY <1>1, BlockSizeIsPositive, ResampledSizeBounds, PreprocessorAssumption
<1>3. /\ Len(rawBuffer) \in Nat /\ Len(remainder) \in Nat /\ L \in Nat
      /\ received \in Nat /\ rawBuffer \in Seq(Nat) /\ frames \in Seq(Seq(Sample))
      /\ Len(rawBuffer) >= B
  BY LenProperties DEF TypeOK, PushBlock
<1>4. /\ Combined \in Seq(Sample) /\ Len(Combined) = Len(remainder) + R
      /\ \A k \in 1 .. Len(Combined) : IsSampleAt(Combined[k], L * FrameSize + k)
  BY CombinedInPlace
<1>5. rawBuffer' = SubSeq(rawBuffer, B + 1, Len(rawBuffer))
      /\ frames' = frames \o CutFrames(Combined)
      /\ remainder' = Rest(Combined)
  BY DEF PushBlock
<1>6. \A s, i : IsSampleAt(s, i) => IsSampleAt(s, i)'
  BY <1>1, <1>3, PlacesKept, received <= received
<1> HIDE DEF B, R, L
<1>7. /\ N \in Nat /\ N * FrameSize \in 0 .. Len(Combined)
      /\ Len(Combined) - N * FrameSize < FrameSize
      /\ CutFrames(Combined) \in Seq(Seq(Sample))
      /\ Len(CutFrames(Combined)) = N
      /\ \A f \in 1 .. N :
            /\ Len(CutFrames(Combined)[f]) = FrameSize
            /\ \A k \in 1 .. FrameSize :
                  /\ (f - 1) * FrameSize + k \in 1 .. Len(Combined)
                  /\ CutFrames(Combined)[f][k] = Combined[(f - 1) * FrameSize + k]
      /\ remainder' \in Seq(Sample)
      /\ Len(remainder') = Len(Combined) - N * FrameSize
      /\ \A k \in 1 .. Len(remainder') :
            /\ N * FrameSize + k \in 1 .. Len(Combined)
            /\ remainder'[k] = Combined[N * FrameSize + k]
  BY <1>4, <1>5, Cutting
<1> HIDE DEF N
<1>8. /\ frames' \in Seq(Seq(Sample)) /\ Len(frames') = L + N
      /\ \A f \in 1 .. L + N : frames'[f] =
             IF f <= L THEN frames[f] ELSE CutFrames(Combined)[f - L]
  <2> DEFINE cut == CutFrames(Combined)
  <2>1. cut \in Seq(Seq(Sample)) /\ Len(cut) = N /\ frames' = frames \o cut
    BY <1>5, <1>7
  <2> HIDE DEF cut
  <2>2. /\ frames \o cut \in Seq(Seq(Sample))
        /\ Len(frames \o cut) = Len(frames) + Len(cut)
        /\ \A f \in 1 .. Len(frames) + Len(cut) : (frames \o cut)[f] =
               IF f <= Len(frames) THEN frames[f] ELSE cut[f - Len(frames)]
    BY <1>3, <2>1, ConcatProperties
  <2> QED BY <2>1, <2>2, Zenon DEF L, cut
<1>9. /\ rawBuffer' \in Seq(Nat) /\ Len(rawBuffer') = Len(rawBuffer) - B
      /\ \A k \in 1 .. Len(rawBuffer') : rawBuffer'[k] = rawBuffer[B + k]
                                         /\ B + k \in 1 .. Len(rawBuffer)
  <2>1. B + 1 \in Int /\ Len(rawBuffer) \in Int
        /\ \A i \in B + 1 .. Len(rawBuffer) : rawBuffer[i] \in Nat
    BY <1>2, <1>3, ElementOfSeq, SMT
  <2>2. /\ rawBuffer' \in Seq(Nat)
        /\ Len(rawBuffer') = IF B + 1 <= Len(rawBuffer)
                             THEN Len(rawBuffer) - (B + 1) + 1 ELSE 0
        /\ \A i \in 1 .. Len(rawBuffer) - (B + 1) + 1 :
              rawBuffer'[i] = rawBuffer[B + 1 + i - 1]
    BY <1>5, <2>1, SubSeqProperties
  <2>3. Len(rawBuffer') = Len(rawBuffer) - B
    BY <1>2, <1>3, <2>2, SMT
  <2>4. ASSUME NEW k \in 1 .. Len(rawBuffer')
        PROVE  rawBuffer'[k] = rawBuffer[B + k] /\ B + k \in 1 .. Len(rawBuffer)
    <3>1. k \in 1 .. Len(rawBuffer) - (B + 1) + 1 /\ B + 1 + k - 1 = B + k
          /\ B + k \in 1 .. Len(rawBuffer)
      BY <1>2, <1>3, <2>3, SMT
    <3> QED BY <2>2, <3>1, Zenon
  <2> QED BY <2>2, <2>3, <2>4
<1>10. ASSUME NEW f \in 1 .. L + N
       PROVE  /\ Len(frames'[f]) = FrameSize
              /\ \A k \in 1 .. FrameSize :
                    IsSampleAt(frames'[f][k], (f - 1) * FrameSize + k)
  <2>1. CASE f <= L
    <3>1. f \in 1 .. L
      BY <1>3, <2>1, SMT
    <3> QED BY <1>8, <2>1, <3>1 DEF TypeOK, StreamIntact, L
  <2>2. CASE ~(f <= L)
    <3> DEFINE g == f - L
    <3>1. g \in 1 .. N /\ f \in Nat /\ g \in Nat
      BY <1>3, <1>7, <2>2, SMT
    <3>2. frames'[f] = CutFrames(Combined)[g]
      BY <1>8, <2>2
    <3>3. ASSUME NEW k \in 1 .. FrameSize
          PROVE  IsSampleAt(frames'[f][k], (f - 1) * FrameSize + k)
      <4> DEFINE place == (g - 1) * FrameSize + k
      <4>1. place \in 1 .. Len(Combined) /\ frames'[f][k] = Combined[place]
        <5>1. k \in 1 .. FrameSize /\ g \in 1 .. N
          BY <3>1
        <5> HIDE DEF g
        <5> QED BY <1>7, <3>2, <5>1, Zenon
      <4>2. L * FrameSize + place = (f - 1) * FrameSize + k
        <5>1. f - 1 = L + (g - 1)
          BY <1>3, <3>1, SMT
        <5>2. (L + (g - 1)) * FrameSize = L * FrameSize + (g - 1) * FrameSize
              /\ L * FrameSize \in Int /\ (g - 1) * FrameSize \in Int
          BY <1>2, <1>3, <3>1, Distributes, g - 1 \in Int, SMT
        <5>3. \A x \in Int, y \in Int : x + (y + k) = (x + y) + k
          BY <1>2, SMT
        <5> QED BY <5>1, <5>2, <5>3, Zenon
      <4>3. IsSampleAt(Combined[place], L * FrameSize + place)
        BY <1>4, <4>1
      <4> HIDE DEF place
      <4> QED BY <4>1, <4>2, <4>3, Zenon
    <3>4. Len(frames'[f]) = FrameSize
      <4>1. g \in 1 .. N
        BY <3>1
      <4> HIDE DEF g
      <4> QED BY <1>7, <3>2, <4>1, Zenon
    <3> QED BY <3>3, <3>4, Zenon
  <2> QED BY <2>1, <2>2
<1>11. (L + N) * FrameSize = L * FrameSize + N * FrameSize
       /\ L * FrameSize \in Nat /\ N * FrameSize \in Nat
  BY <1>2, <1>3, <1>7, SMT
<1>12. ASSUME NEW k \in 1 .. Len(remainder')
       PROVE  IsSampleAt(remainder'[k], (L + N) * FrameSize + k)
  <2> DEFINE place == N * FrameSize + k
  <2>1. place \in 1 .. Len(Combined) /\ remainder'[k] = Combined[place]
    BY <1>7
  <2>2. L * FrameSize + place = (L + N) * FrameSize + k
    BY <1>11, SMT
  <2>3. IsSampleAt(Combined[place], L * FrameSize + place)
    BY <1>4, <2>1
  <2> QED BY <2>1, <2>2, <2>3
<1>13. TypeOK'
  BY <1>1, <1>7, <1>8, <1>9, <1>10 DEF TypeOK
<1>14. StreamIntact'
  <2>1. \A f \in 1 .. Len(frames') : \A k \in 1 .. FrameSize :
           IsSampleAt(frames[f][k], (f - 1) * FrameSize + k)'
    BY <1>6, <1>8, <1>10
  <2>2. \A k \in 1 .. Len(remainder') :
           IsSampleAt(remainder[k], Len(frames) * FrameSize + k)'
    BY <1>6, <1>8, <1>12
  <2>3. ASSUME NEW k \in 1 .. Len(rawBuffer')
        PROVE  rawBuffer'[k] = received' - Len(rawBuffer') + k
    <3>1. rawBuffer[B + k] = received - Len(rawBuffer) + (B + k)
      BY <1>9 DEF StreamIntact
    <3>2. received - Len(rawBuffer) + (B + k) = received - (Len(rawBuffer) - B) + k
      BY <1>2, <1>3, SMT
    <3> QED BY <1>1, <1>9, <3>1, <3>2
  <2> QED BY <2>1, <2>2, <2>3 DEF StreamIntact
<1>15. LagBounded'
  BY <1>1, <1>7 DEF LagBounded
<1>16. Aligned'
  <2>1. PICK b \in Nat : Consumed = b * B /\ Heard = b * R
    BY <1>1 DEF WholeBlocks, B, R
  <2>2. (b + 1) * B = b * B + B /\ (b + 1) * R = b * R + R
    BY <1>2, SMT
  <2>3. Consumed' = (b + 1) * B
    <3>1. received - Len(rawBuffer) = b * B
      BY <2>1 DEF Consumed
    <3>2. received' - Len(rawBuffer') = (received - Len(rawBuffer)) + B
      BY <1>1, <1>2, <1>3, <1>9, SMT
    <3> QED BY <2>2, <3>1, <3>2, Zenon DEF Consumed
  <2>4. Heard' = (b + 1) * R
    <3>1. L * FrameSize + Len(remainder) = b * R
      BY <2>1 DEF Heard, L
    <3>2. Len(frames') * FrameSize + Len(remainder')
              = (L * FrameSize + Len(remainder)) + R
      <4>1. Len(frames') * FrameSize = L * FrameSize + N * FrameSize
        BY <1>8, <1>11
      <4>2. Len(remainder') = (Len(remainder) + R) - N * FrameSize
        BY <1>4, <1>7
      <4> QED BY <1>2, <1>3, <1>11, <4>1, <4>2, SMT
    <3> QED BY <2>2, <3>1, <3>2, Zenon DEF Heard
  <2>5. b + 1 \in Nat /\ sourceSR' # 0
    BY <1>1, SMT
  <2> QED BY <1>1, <2>3, <2>4, <2>5 DEF Aligned, WholeBlocks, B, R
<1> QED BY <1>13, <1>14, <1>15, <1>16

LEMMA InvIsInductive == Inv /\ [Next]_vars => Inv'
<1> SUFFICES ASSUME Inv, [Next]_vars PROVE Inv'
  OBVIOUS
<1>1. ASSUME NEW sr \in Rates \cup {DefaultRate}, StartSession(sr)
      PROVE  Inv'
  <2>1. CASE sourceSR = 0
    <3>1. pump' = "recv" /\ sourceSR' = sr
          /\ UNCHANGED <<rawBuffer, remainder, received, frames>>
      BY <1>1, <2>1 DEF StartSession
    <3> QED BY <2>1, <3>1, Made
  <2>2. CASE sourceSR # 0
    <3>1. UNCHANGED vars
      BY <1>1, <2>2 DEF StartSession, vars
    <3> QED BY <3>1 DEF vars, Inv, TypeOK, StreamIntact, IsSampleAt, LagBounded,
                        Aligned, WholeBlocks, Consumed, Heard
  <2> QED BY <2>1, <2>2
<1>2. ASSUME NEW n \in 0 .. MaxPacket, Audio(n)
      PROVE  Inv'
  <2>1. n \in Nat
    BY PreprocessorAssumption, SMT
  <2> QED BY <1>2, <2>1, AudioKeeps
<1>3. CASE OddBytes
  <2>1. CASE sourceSR = 0
    <3>1. pump' = "dead" /\ sourceSR' = DefaultRate
          /\ UNCHANGED <<rawBuffer, remainder, received, frames>>
      BY <1>3, <2>1 DEF OddBytes
    <3> QED BY <2>1, <3>1, Made
  <2>2. CASE sourceSR # 0
    BY <1>3, <2>2 DEF OddBytes, Inv, TypeOK, StreamIntact, IsSampleAt, LagBounded,
                      Aligned, WholeBlocks, Consumed, Heard
  <2> QED BY <2>1, <2>2
<1>4. CASE PushBlock
  BY <1>4, PushBlockKeeps
<1>5. CASE PushEnds
  BY <1>5, PushEndsKeeps
<1>6. CASE UNCHANGED vars
  BY <1>6 DEF vars, Inv, TypeOK, StreamIntact, IsSampleAt, LagBounded, Aligned,
              WholeBlocks, Consumed, Heard
<1> QED BY <1>1, <1>2, <1>3, <1>4, <1>5, <1>6 DEF Next

LEMMA Invariant == Spec => []Inv
BY Initially, InvIsInductive, PTL DEF Spec

---------------------------------------------------------------------------
(* The theorems. *)

\* The buffers are well typed and the VAD gets whole frames only, for every
\* rate, block and frame size.
THEOREM FramesAreWhole == Spec => []TypeOK
<1>1. Inv => TypeOK
  BY DEF Inv
<1> QED BY <1>1, Invariant, PTL

\* However the audio is cut into packets, the VAD hears all of it in order.
THEOREM NothingLostOrRepeated == Spec => []StreamIntact
<1>1. Inv => StreamIntact
  BY DEF Inv
<1> QED BY <1>1, Invariant, PTL

\* What waits between two events is less than a block and less than a frame.
THEOREM LagIsBounded == Spec => []LagBounded
<1>1. Inv => LagBounded
  BY DEF Inv
<1> QED BY <1>1, Invariant, PTL

\* The VAD's clock is never behind the caller's and gains less than a sample
\* for each block.
THEOREM ClockIsKept == Spec => []ClockKept
<1>1. ASSUME Inv PROVE ClockKept
  <2> SUFFICES ASSUME sourceSR # 0
               PROVE  LET ahead == Heard * sourceSR - Consumed * TargetSR
                      IN  /\ 0 <= ahead
                          /\ ahead * BlockSize(sourceSR) <= Consumed * (sourceSR - 1)
    BY DEF ClockKept
  <2> DEFINE B == BlockSize(sourceSR)
             R == ResampledSize(sourceSR)
             excess == R * sourceSR - B * TargetSR
  <2>1. sourceSR \in Nat \ {0} /\ TargetSR \in Nat
    BY <1>1, RatesArePositive, PreprocessorAssumption DEF Inv, TypeOK
  <2>2. B \in Nat /\ R \in Nat /\ excess \in 0 .. sourceSR - 1
    BY <2>1, BlockSizeIsPositive, ResampledSizeBounds
  <2>3. PICK b \in Nat : Consumed = b * B /\ Heard = b * R
    BY <1>1 DEF Inv, Aligned, WholeBlocks
  <2> HIDE DEF B, R
  <2>4. Heard * sourceSR - Consumed * TargetSR = b * excess
    <3>1. (b * R) * sourceSR = b * (R * sourceSR)
          /\ (b * B) * TargetSR = b * (B * TargetSR)
          /\ R * sourceSR \in Int /\ B * TargetSR \in Int
      BY <2>1, <2>2, Distributes
    <3>2. b * (R * sourceSR - B * TargetSR)
              = b * (R * sourceSR) - b * (B * TargetSR)
      BY <3>1, SMT
    <3> QED BY <2>3, <3>1, <3>2
  <2> HIDE DEF excess
  <2>5. excess \in Nat /\ excess <= sourceSR - 1 /\ sourceSR - 1 \in Nat
    BY <2>1, <2>2, SMT
  <2>6. b * excess \in Nat
    BY <2>5, SMT
  <2>7. (b * excess) * B <= (b * B) * (sourceSR - 1)
    <3>1. (b * excess) * B = excess * (b * B)
          /\ (b * B) * (sourceSR - 1) = (sourceSR - 1) * (b * B)
          /\ b * B \in Nat
      BY <2>2, <2>5, SMT
    <3>2. excess * (b * B) <= (sourceSR - 1) * (b * B)
      BY <2>5, <3>1, MulMonotone
    <3> QED BY <3>1, <3>2
  <2>8. 0 <= b * excess
    BY <2>6, SMT
  <2> QED BY <2>3, <2>4, <2>7, <2>8 DEF B
<1> QED BY <1>1, Invariant, PTL
=============================================================================

-------------------------- MODULE AudioPreprocessor --------------------------
(***************************************************************************)
(* The way of the caller's audio to the VAD: _read_pump of main.py makes   *)
(* the preprocessor on the first START_SESSION or the first audio, and     *)
(* push (vad/preprocessor.py) gathers the packets into blocks of 100 ms,   *)
(* resamples each block on its own and cuts the result into VAD frames.    *)
(*                                                                         *)
(* A raw sample is its number in the call, a resampled one                 *)
(* [block, index]: the raw sample its block starts with and its place in   *)
(* what resample_poly made of that block, ceil(len * up / down) samples.   *)
(***************************************************************************)
EXTENDS Integers, Sequences

CONSTANTS
    TargetSR,            \* TARGET_SR (16000)
    FrameSize,           \* FRAME_SIZE (512)
    ResampleChunkMs,     \* RESAMPLE_CHUNK_MS (100)
    DefaultRate,         \* DEFAULT_SOURCE_SAMPLE_RATE (44100)
    Rates,               \* rates a client declares; a negative one, which int32
                         \* allows, makes resample_poly raise and is left out
    MaxPacket,           \* bound: samples of one packet
    MaxSamples           \* bound: samples of the call

ASSUME PreprocessorAssumption ==
    /\ TargetSR \in Nat \ {0} /\ FrameSize \in Nat \ {0}
    /\ ResampleChunkMs \in Nat
    /\ DefaultRate \in Nat \ {0} /\ Rates \subseteq Nat \ {0}
    /\ MaxPacket \in Nat /\ MaxSamples \in Nat

VARIABLES
    pump,        \* _read_pump: between events, in push's loop, or dead
    sourceSR,    \* _source_sr; 0 while there is no preprocessor
    rawBuffer, remainder,
    received,    \* history: samples that have arrived
    frames       \* history: frames handed to the VAD

vars == <<pump, sourceSR, rawBuffer, remainder, received, frames>>

\* _resample_chunk_samples
BlockSize(sr) ==
    LET n == (sr * ResampleChunkMs) \div 1000 IN IF n > 1 THEN n ELSE 1

\* The samples resample_poly makes of one block.
ResampledSizeTruncated(sr) == (BlockSize(sr) * TargetSR) \div sr
ResampledSize(sr) == (BlockSize(sr) * TargetSR + sr - 1) \div sr

\* The samples first .. last of the call.
Samples(first, last) == [k \in 1 .. last - first + 1 |-> first + k - 1]

Init ==
    /\ pump = "recv" /\ sourceSR = 0
    /\ rawBuffer = <<>> /\ remainder = <<>>
    /\ received = 0 /\ frames = <<>>

\* Only the first START_SESSION makes a preprocessor, and none does once audio
\* has made one.  A rate of zero, which is none, is the default.
StartSession(sr) ==
    /\ pump = "recv"
    /\ sourceSR' = IF sourceSR = 0 THEN sr ELSE sourceSR
    /\ UNCHANGED <<pump, rawBuffer, remainder, received, frames>>

Audio(n) ==
    /\ pump = "recv" /\ received + n <= MaxSamples
    /\ sourceSR' = IF sourceSR = 0 THEN DefaultRate ELSE sourceSR
    /\ rawBuffer' = rawBuffer \o Samples(received + 1, received + n)
    /\ received' = received + n
    /\ pump' = "push"
    /\ UNCHANGED <<remainder, frames>>

\* np.frombuffer refuses an odd number of bytes before anything is buffered,
\* and the exception ends the pump.
OddBytes ==
    /\ pump = "recv"
    /\ sourceSR' = IF sourceSR = 0 THEN DefaultRate ELSE sourceSR
    /\ pump' = "dead"
    /\ UNCHANGED <<rawBuffer, remainder, received, frames>>

Resampled ==
    [k \in 1 .. ResampledSize(sourceSR) |-> [block |-> rawBuffer[1], index |-> k]]

CombinedReversed == Resampled \o remainder
Combined == remainder \o Resampled

FramesIn(q) == Len(q) \div FrameSize
CutFramesAndRest(q) ==
    [f \in 1 .. (Len(q) + FrameSize - 1) \div FrameSize |->
        SubSeq(q, (f - 1) * FrameSize + 1,
               IF f * FrameSize < Len(q) THEN f * FrameSize ELSE Len(q))]
CutFrames(q) ==
    [f \in 1 .. FramesIn(q) |-> SubSeq(q, (f - 1) * FrameSize + 1, f * FrameSize)]
Rest(q) == SubSeq(q, FramesIn(q) * FrameSize + 1, Len(q))

\* One turn of push's loop; the frames go to the VAD in this order.
PushBlock ==
    /\ pump = "push" /\ Len(rawBuffer) >= BlockSize(sourceSR)
    /\ rawBuffer' = SubSeq(rawBuffer, BlockSize(sourceSR) + 1, Len(rawBuffer))
    /\ frames' = frames \o CutFrames(Combined)
    /\ remainder' = Rest(Combined)
    /\ UNCHANGED <<pump, sourceSR, received>>

PushEndsEarly ==
    /\ pump = "push" /\ pump' = "recv"
    /\ UNCHANGED <<sourceSR, rawBuffer, remainder, received, frames>>
PushEnds ==
    /\ pump = "push" /\ Len(rawBuffer) < BlockSize(sourceSR)
    /\ pump' = "recv"
    /\ UNCHANGED <<sourceSR, rawBuffer, remainder, received, frames>>

Next ==
    \/ \E sr \in Rates \cup {DefaultRate} : StartSession(sr)
    \/ \E n \in 0 .. MaxPacket : Audio(n)
    \/ OddBytes
    \/ PushBlock \/ PushEnds

Spec == Init /\ [][Next]_vars

---------------------------------------------------------------------------
(* Properties. *)

Sample == [block : Nat, index : Nat]

\* The types of the preprocessor's buffers; every frame is a whole one, the
\* shape process_frames insists on.
TypeOK ==
    /\ pump \in {"recv", "push", "dead"}
    /\ sourceSR \in Rates \cup {DefaultRate, 0}
    /\ rawBuffer \in Seq(Nat) /\ remainder \in Seq(Sample)
    /\ received \in Nat
    /\ frames \in Seq(Seq(Sample))
    /\ \A f \in 1 .. Len(frames) : Len(frames[f]) = FrameSize

\* Place i of the resampled call holds sample s: i counts through whole blocks
\* that start right after each other.
IsSampleAt(s, i) ==
    \E b \in 0 .. received :
        /\ s.block = b * BlockSize(sourceSR) + 1
        /\ s.index \in 1 .. ResampledSize(sourceSR)
        /\ i = b * ResampledSize(sourceSR) + s.index

\* What the VAD has heard, and what waits in either buffer, is the call's audio
\* without a sample lost, repeated or out of order, however packets, blocks and
\* frames cut it, and resampled at one rate from end to end.
StreamIntact ==
    /\ \A f \in 1 .. Len(frames) : \A k \in 1 .. FrameSize :
          IsSampleAt(frames[f][k], (f - 1) * FrameSize + k)
    /\ \A k \in 1 .. Len(remainder) :
          IsSampleAt(remainder[k], Len(frames) * FrameSize + k)
    /\ \A k \in 1 .. Len(rawBuffer) :
          rawBuffer[k] = received - Len(rawBuffer) + k

\* Between two events less than a block and less than a frame wait to be heard:
\* the VAD lags the caller by that much and no more, so the boundaries it finds
\* do not depend on how the audio came in packets.
LagBounded ==
    /\ Len(remainder) < FrameSize
    /\ pump = "recv" /\ sourceSR # 0 => Len(rawBuffer) < BlockSize(sourceSR)

\* The VAD's clock, which its 250 ms and 800 ms are measured on, keeps the
\* caller's time: it is never behind, and ahead by less than one resampled
\* sample for each block, which rates that do not divide evenly gain.
Heard == Len(frames) * FrameSize + Len(remainder)
Consumed == received - Len(rawBuffer)
ClockKept ==
    sourceSR # 0 =>
        LET ahead == Heard * sourceSR - Consumed * TargetSR
        IN  0 <= ahead /\ ahead * BlockSize(sourceSR) <= Consumed * (sourceSR - 1)
=============================================================================

----------------------------- MODULE SampleMath -----------------------------
(***************************************************************************)
(* The arithmetic of mixing one sample: reading and normalising a source   *)
(* frame, combining its channels, scaling it by the gain of the track,     *)
(* accumulating it into the intermediate buffer, and converting the sum to *)
(* the output's format; with the formats that samplers and formatters are  *)
(* made for.  A byte has ByteBits bits where the code has 8, a normalised  *)
(* sample 2 * ByteBits, and a gain GainBits fractional bits where it has   *)
(* 28.                                                                     *)
(***************************************************************************)
EXTENDS Integers, Sequences

CONSTANTS ByteBits, GainBits

Byte == 2 ^ ByteBits
Half == 2 ^ (2 * ByteBits - 1)
SampleMax == Half - 1
SampleMin == -Half

\* Gain::UNITY and Gain::MuteThreshold of the sample's non-sign bits.
UNITY == 2 ^ GainBits
MuteThreshold == 2 ^ (GainBits - (2 * ByteBits - 1)) - 1

Values(format) == IF format = "UNSIGNED_8" THEN 0 .. Byte - 1 ELSE SampleMin .. SampleMax

\* SampleNormalizer
Normalize(format, x) == IF format = "UNSIGNED_8" THEN x * Byte - Half ELSE x

\* SrcReader: two channels are averaged into one, one channel fills two.
ReadSource(format, frame, channels) ==
    IF Len(frame) = 2 /\ channels = 1
    THEN <<(Normalize(format, frame[1]) + Normalize(format, frame[2])) \div 2>>
    ELSE [c \in 1 .. channels |-> Normalize(format, frame[IF Len(frame) = 1 THEN 1 ELSE c])]

\* The dispatch on the gain in PointSamplerImpl::Mix and LinearSamplerImpl::Mix.
ScalerType(gain) ==
    CASE gain = UNITY -> "EQ_UNITY"
      [] gain < MuteThreshold -> "MUTED"
      [] gain >= MuteThreshold /\ gain < UNITY -> "LT_UNITY"
      [] gain > UNITY -> "GT_UNITY"

\* Mutant of Clip: the sum wraps.
ClipWraps(x) == ((x + Half) % (2 * Half)) - Half

Clip(x) == IF x > SampleMax THEN SampleMax ELSE IF x < SampleMin THEN SampleMin ELSE x

\* SampleScaler; a shift of a negative product rounds down.
ScaleSample(x, gain) ==
    LET scaled == (x * gain) \div UNITY IN
    CASE ScalerType(gain) = "MUTED" -> 0
      [] ScalerType(gain) = "LT_UNITY" -> scaled
      [] ScalerType(gain) = "EQ_UNITY" -> x
      [] ScalerType(gain) = "GT_UNITY" -> Clip(scaled)

\* DstMixer: the first track to write a frame stores, later ones accumulate.
MixSample(dst, x, gain, accumulate) ==
    ScaleSample(x, gain) + (IF accumulate THEN dst ELSE 0)

\* DstConverter
ConvertSample(format, x) == IF format = "UNSIGNED_8" THEN x \div Byte + Byte \div 2 ELSE x

\* OutputFormatterImpl::ProduceOutput
ProduceOutput(format, frame) == [c \in DOMAIN frame |-> ConvertSample(format, Clip(frame[c]))]

\* SilenceMaker: what FillWithSilence stores.
SilentSample(format) == IF format = "UNSIGNED_8" THEN Byte \div 2 ELSE 0

\* OutputFormatter::Select
OutputFormatter(format, channels) ==
    IF channels \in {1, 2} /\ format \in {"UNSIGNED_8", "SIGNED_16"}
    THEN <<format, channels>> ELSE <<>>

\* The samplers exist for these formats and channel counts only.
SelectSampler(format, srcChannels, dstChannels) ==
    format \in {"UNSIGNED_8", "SIGNED_16"} /\ srcChannels \in {1, 2} /\ dstChannels \in {1, 2}

-----------------------------------------------------------------------------
(* Tracks mixed into one frame of the output *)

\* The intermediate buffer after the tracks, each [format, frame, gain], in
\* turn; channel by channel.  The buffer starts with zeros.
Mixed(tracks, channels) ==
    LET at[n \in 0 .. Len(tracks)] ==
          IF n = 0 THEN [c \in 1 .. channels |-> 0]
          ELSE LET read == ReadSource(tracks[n].format, tracks[n].frame, channels)
               IN [c \in 1 .. channels |->
                     MixSample(at[n - 1][c], read[c], tracks[n].gain, n > 1)]
    IN at[Len(tracks)]

-----------------------------------------------------------------------------
(* What the arithmetic should compute *)

\* The tracks' samples in units of 1 / UNITY, added without any rounding, each
\* clipped to the range of a sample.
TrueShare(track, c, channels) ==
    LET n == Len(track.frame)
        twice == IF n = 2 /\ channels = 1
                 THEN Normalize(track.format, track.frame[1]) + Normalize(track.format, track.frame[2])
                 ELSE 2 * Normalize(track.format, track.frame[IF n = 1 THEN 1 ELSE c])
        scaled == twice * track.gain
    IN IF scaled > 2 * UNITY * SampleMax THEN 2 * UNITY * SampleMax
       ELSE IF scaled < 2 * UNITY * SampleMin THEN 2 * UNITY * SampleMin ELSE scaled

\* Mixing adds: the output is within two steps per track of the true sum, or
\* at the end of the range which the sum exceeds; it never wraps.  A single
\* track at unity gain in the output's own format comes out unchanged, silence
\* stays silence, and a track adds nothing when its gain is below MuteThreshold.
\* (gain.h promises that of MuteThreshold itself too, where the samplers still
\* multiply: a negative sample becomes -1.)
MixIsSum(tracks, format, channels) ==
    LET out == ProduceOutput("SIGNED_16", Mixed(tracks, channels))
        plain == ProduceOutput(format, Mixed(tracks, channels))
        Share(n, c) == TrueShare(tracks[n], c, channels)
        Total(c) == IF Len(tracks) = 1 THEN Share(1, c) ELSE Share(1, c) + Share(2, c)
    IN /\ \A c \in 1 .. channels :
            LET error == out[c] * 2 * UNITY - Total(c) IN
            \/ error \in -(4 * UNITY * Len(tracks)) .. 4 * UNITY * Len(tracks)
            \/ out[c] = SampleMax /\ error < 0
            \/ out[c] = SampleMin /\ error > 0
       /\ \A c \in 1 .. channels : plain[c] \in Values(format)
       /\ (Len(tracks) = 1 /\ tracks[1].gain = UNITY /\ tracks[1].format = format
             /\ Len(tracks[1].frame) = channels) => plain = tracks[1].frame
       /\ (\A n \in 1 .. Len(tracks) :
             \A c \in DOMAIN tracks[n].frame : tracks[n].frame[c] = SilentSample(tracks[n].format))
          => \A c \in 1 .. channels : plain[c] = SilentSample(format)
       /\ LET heard == SelectSeq(tracks, LAMBDA t : t.gain >= MuteThreshold)
          IN out = ProduceOutput("SIGNED_16", Mixed(heard, channels))

=============================================================================

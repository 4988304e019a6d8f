-------------------------------- MODULE Lpcm --------------------------------
(* Uncompressed audio samples: services/media/framework/parts/                *)
(* lpcm_reformatter.cc (conversion from one sample format to another) and     *)
(* util/lpcm_util.cc (silence, mixing, interleaving); and the pipelines that   *)
(* util/conversion_pipeline_builder.cc makes of decoders and reformatters.     *)
(* A byte has ByteBits bits.  Samples are integers of one, two or four bytes, *)
(* the last with three bytes of value; a float is a count of 1 / FloatUnit,   *)
(* the finest step any integer format has.                                    *)
EXTENDS StreamTypes

CONSTANT ByteBits

Byte == 2 ^ ByteBits
Half8 == Byte \div 2
Half16 == Byte * Half8
Half24 == Byte * Half16
FloatUnit == Half24

\* The value modulo the width of a signed integer, as a conversion makes it.
Wrap(x, half) == ((x + half) % (2 * half)) - half

\* A conversion from floating point to an integer type drops the fraction.
Truncate(n, d) == IF n >= 0 THEN n \div d ELSE -((-n) \div d)

\* source ^ 0x80, of a value that fits in a byte.
FlipTopBit(x) == (x + Half8) % Byte

Clamp(val, min, max) == IF val > max THEN max ELSE IF val < min THEN min ELSE val

ClampFloat(val) == Clamp(val, -FloatUnit, FloatUnit)

\* The code gives the limits in the order max, min.
ClampInt32(val) == Clamp(val, Half24, -Half24)

\* The overloads of CopySample, by the formats of source and destination.
CopySample(in, out, source) ==
    CASE in = out -> source
      [] in = "kSigned16" /\ out = "kUnsigned8" -> FlipTopBit(source \div Byte)
      [] in = "kSigned24In32" /\ out = "kUnsigned8" ->
             FlipTopBit(ClampInt32(source) \div (Byte * Byte))
      [] in = "kFloat" /\ out = "kUnsigned8" ->
             (ClampFloat(source) * (Half8 - 1) + Half8 * FloatUnit) \div FloatUnit
      [] in = "kUnsigned8" /\ out = "kSigned16" -> Wrap(FlipTopBit(source) * Byte, Half16)
      [] in = "kSigned24In32" /\ out = "kSigned16" ->
             Wrap(ClampInt32(source) \div Byte, Half16)
      [] in = "kFloat" /\ out = "kSigned16" ->
             Truncate(ClampFloat(source) * (Half16 - 1), FloatUnit)
      [] in = "kUnsigned8" /\ out = "kSigned24In32" -> FlipTopBit(source) * Byte * Byte
      [] in = "kSigned16" /\ out = "kSigned24In32" -> source * Byte
      [] in = "kFloat" /\ out = "kSigned24In32" ->
             Truncate(ClampFloat(source) * (Half24 - 1), FloatUnit)
      [] in = "kUnsigned8" /\ out = "kFloat" -> (FlipTopBit(source) * FloatUnit) \div Half8
      [] in = "kSigned16" /\ out = "kFloat" -> (source * FloatUnit) \div Half16
      [] in = "kSigned24In32" /\ out = "kFloat" -> (ClampInt32(source) * FloatUnit) \div Half24

-------------------------------------------------------------------------------
(* The reformatter.                                                           *)

\* LpcmReformatter::Create and the constructor: the type a reformatter produces.
ReformattedType(in_type, out_set) ==
    AudioStreamType(in_type.encoding, Null,
                    IF out_set.sample_format = "kAny" THEN in_type.sample_format
                    ELSE out_set.sample_format,
                    in_type.channels, in_type.frames_per_second)

\* A packet: when it is due, whether it ends the stream, how many bytes, and the
\* samples, frame after frame.
Packet(pts, eos, size, samples) ==
    [pts |-> pts, end_of_stream |-> eos, size |-> size, samples |-> samples]

\* TransformPacket: done is false when the allocator has no buffer to give; the
\* stage then offers the same packet again later.  Channel by channel, a sample
\* is copied every `channels` places.
TransformPacket(in_type, out_type, input, starved) ==
    LET frames == frame_count(in_type, input.size)
        places == {channel + frame * in_type.channels :
                      channel \in 1..in_type.channels, frame \in 0..(frames - 1)}
        copied == [i \in places |-> CopySample(in_type.sample_format,
                                               out_type.sample_format, input.samples[i])]
    IN  CASE input.size = 0 ->
                 [done |-> TRUE, output |-> Packet(input.pts, input.end_of_stream, 0, << >>)]
          [] input.size # 0 /\ starved -> [done |-> FALSE, output |-> << >>]
          [] input.size # 0 /\ ~starved ->
                 [done   |-> TRUE,
                  output |-> Packet(input.pts, input.end_of_stream,
                                    min_buffer_size(out_type, frames), copied)]

-------------------------------------------------------------------------------
(* LpcmUtil.                                                                  *)

\* Silence: every sample of frame_count frames.
Silence(type, frames) ==
    [i \in 1..(frames * type.channels) |->
        IF type.sample_format = "kUnsigned8" THEN Half8 ELSE 0]

\* Mix: the sum, without a limit; what the width of the sample cannot hold wraps.
Mix(type, in, out, frames) ==
    [i \in 1..(frames * type.channels) |->
        CASE type.sample_format = "kUnsigned8" -> (out[i] + in[i] - Half8) % Byte
          [] type.sample_format = "kSigned16" -> Wrap(out[i] + in[i], Half16)
          [] OTHER -> out[i] + in[i]]

\* Copy
CopyFrames(type, in, frames) == [i \in 1..(frames * type.channels) |-> in[i]]

\* Interleave: in holds one channel after the other, each with room for as many
\* frames as the buffer has space for.
Interleave(type, in, in_byte_count, frames) ==
    LET in_channel_stride == in_byte_count \div bytes_per_frame(type)
    IN  [i \in 1..(frames * type.channels) |->
            LET channel == (i - 1) % type.channels
                frame == (i - 1) \div type.channels
            IN  in[channel * in_channel_stride + frame + 1]]

-----------------------------------------------------------------------------
(* services/media/framework/util/conversion_pipeline_builder.cc: which        *)
(* transforms are put between an output and an input, given the type the      *)
(* output produces and the sets of types the input accepts.                   *)
(* The parts already added are a sequence of names ("decoder",                *)
(* "reformatter"); Decoder::Create is external to the builder: decode maps a  *)
(* compressed type to the type its decoder produces, or to NullType if there  *)
(* is no decoder.                                                             *)

\* Higher scores are preferred; zero means incompatible.
Score(in_type, out_set) ==
    IF InRange(out_set.channels, in_type.channels)
       /\ InRange(out_set.frames_per_second, in_type.frames_per_second)
    THEN 61 + (IF out_set.sample_format \in {in_type.sample_format, "kAny"} THEN 10
               ELSE [kUnsigned8 |-> 0, kSigned16 |-> 1, kSigned24In32 |-> 2,
                     kFloat |-> 3][out_set.sample_format])
    ELSE 0

\* The score of a set that may not be considered is as good as zero: the search
\* keeps the first set with the highest score above zero.
ScoreAsLpcm(in_type, set) ==
    IF set.medium = "kAudio" /\ IncludesEncoding(set, "lpcm") THEN Score(in_type, set)
    ELSE 0

\* Mutant of FindBestLpcm: the first set that admits LPCM, compatible or not.
FindFirstLpcm(in_type, out_sets) ==
    LET fit == {i \in DOMAIN out_sets : /\ out_sets[i].medium = "kAudio"
                                        /\ IncludesEncoding(out_sets[i], "lpcm")}
    IN  IF fit = {} THEN 0 ELSE CHOOSE i \in fit : \A j \in fit : i <= j

\* The index of the best set, 0 for nullptr.
FindBestLpcm(in_type, out_sets) ==
    LET score(i) == ScoreAsLpcm(in_type, out_sets[i])
        best == {i \in DOMAIN out_sets :
                    /\ score(i) > 0
                    /\ \A j \in DOMAIN out_sets : score(j) <= score(i)}
    IN  IF best = {} THEN 0 ELSE CHOOSE i \in best : \A j \in best : i <= j

\* What one round of AddTransforms answers: the result, the parts after it and
\* the type they produce.
Added(result, parts, type) == [result |-> result, parts |-> parts, type |-> type]

AddTransformsForCompressedAudio(in_type, out_sets, parts, decode) ==
    LET matching == \E i \in DOMAIN out_sets : /\ out_sets[i].medium = "kAudio"
                                               /\ contains(out_sets[i], in_type)
    IN  CASE matching -> Added("kFinished", parts, in_type)
          [] ~matching /\ FindBestLpcm(in_type, out_sets) = 0 ->
                 Added("kFailed", parts, NullType)
          [] ~matching /\ FindBestLpcm(in_type, out_sets) # 0 ->
                 IF decode[in_type.encoding] = NullType THEN Added("kFailed", parts, NullType)
                 ELSE Added("kProgressed", Append(parts, "decoder"),
                            decode[in_type.encoding])

\* AddTransformsForLpcm for one set: the reformatter is added before channels and
\* rate are looked at.
AddTransformsForLpcmSet(in_type, out_set, parts) ==
    LET reformats == out_set.sample_format \notin {in_type.sample_format, "kAny"}
        after == IF reformats THEN Append(parts, "reformatter") ELSE parts
    IN  IF InRange(out_set.channels, in_type.channels)
           /\ InRange(out_set.frames_per_second, in_type.frames_per_second)
        THEN Added("kFinished", after, [ReformattedType(in_type, out_set)
                                            EXCEPT !.encoding = "lpcm"])
        ELSE Added("kFailed", after, NullType)

AddTransformsForLpcm(in_type, out_sets, parts) ==
    LET best == FindBestLpcm(in_type, out_sets)
    IN  IF best = 0 THEN Added("kFailed", parts, NullType)
        ELSE AddTransformsForLpcmSet(in_type, out_sets[best], parts)

AddTransforms(in_type, out_sets, parts, decode) ==
    CASE in_type.medium = "kAudio" /\ in_type.encoding = "lpcm" ->
             AddTransformsForLpcm(in_type, out_sets, parts)
      [] in_type.medium = "kAudio" /\ in_type.encoding # "lpcm" ->
             AddTransformsForCompressedAudio(in_type, out_sets, parts, decode)
      [] in_type.medium # "kAudio" -> Added("kFailed", parts, NullType)

\* Rounds of AddTransforms until one fails or finishes.  On failure the parts
\* connected to the output are removed again.  Rounds bounds the loop: the type
\* a decoder produces is not compressed, so two rounds are enough.
Rounds == 3

BuildConversionPipeline(in_type, out_sets, decode) ==
    LET round[n \in 0..Rounds] ==
            IF n = 0 THEN Added("kProgressed", << >>, in_type)
            ELSE IF round[n - 1].result # "kProgressed" THEN round[n - 1]
            ELSE AddTransforms(round[n - 1].type, out_sets, round[n - 1].parts, decode)
        last == round[Rounds]
    IN  IF last.result = "kFailed" THEN Added("kFailed", << >>, NullType) ELSE last
=============================================================================

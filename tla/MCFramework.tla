---------------------------- MODULE MCFramework ----------------------------
(***************************************************************************)
(* The parts of the media framework that share no state, the daemon of the *)
(* port forwarder and the pure algorithms, checked in one run.  "which"    *)
(* says what a behaviour is about.  For a part, the variables v1, v2, ...  *)
(* stand for its variables.                                                *)
(* An algorithm is evaluated on every input of a small domain: from Start, *)
(* a step picks an input x, and a step goes back.                          *)
(***************************************************************************)
EXTENDS Timelines, SampleMath

P == INSTANCE Lpcm
T == INSTANCE TypeConversions

\* Numbers of two bits a byte and of five bits, words of two bytes, relocations
\* of four and six bytes, and pages of eight: the packed forms can save space,
\* and fail to.
E == INSTANCE RelocationPacker WITH GroupBits <- 2, XwordBits <- 5, WordBytes <- 2, sizeof_Rel <- 4,
                           sizeof_Rela <- 6, kPreserveAlignment <- 8, Offs <- 1024

CONSTANTS b1, b2, b3

VARIABLES which, x, v1, v2, v3, v4, v5, v6, v7, v8, v9, v10, v11, v12

Start == [kind |-> "start"]

Ratios == {ReducedRatio(n, d) : n \in U32, d \in U32}
Transforms == [kind : {"transform"}, a : {MinInt, MinInt + 1, -1, 0, 1, MaxInt}, ratio : Ratios, b : S64, in : S64]

PositiveRates == {TimelineRateOf(s, r) : s \in U32, r \in U32 \ {0}}
Compositions ==
    [kind : {"rate"}, one : PositiveRates, other : PositiveRates, at : S64, start : {-1, 2},
     in : S64]

SampleFormats == {"UNSIGNED_8", "SIGNED_16", "SIGNED_24_IN_32", "FLOAT"}
Gains == {0, MuteThreshold - 1, MuteThreshold, MuteThreshold + 1, UNITY - 3, UNITY, UNITY + 5, 3 * UNITY}
Frames(format, n) == [1 .. n -> Values(format)]
Tracks(gains) ==
    UNION {[format : {s[1]}, frame : Frames(s[1], s[2]), gain : gains] :
             s \in {t \in SampleFormats \X (1 .. 3) : SelectSampler(t[1], t[2], 1)}}
Mixes ==
    [kind : {"mix"}, tracks : {<<t>> : t \in Tracks(Gains)}
                              \cup {<<t, u>> : t \in {v \in Tracks({UNITY, UNITY - 3}) : Len(v.frame) = 1},
                                               u \in Tracks({MuteThreshold - 1, UNITY + 5})},
     output : {OutputFormatter(f, n) : f \in SampleFormats, n \in 1 .. 3} \ {<<>>}]

\* Coded sizes around the alignments, for the formats with a U plane.
Layouts ==
    [kind : {"layout"}, format : {"kI420", "kYv12", "kYv16", "kYv12A", "kYv24", "kNv12",
                                  "kNv21", "kMt21"},
     width : {1, 2, 3, 15, 16, 17, 33}, height : {1, 2, 3, 16, 31, 32, 33}]

Contexts ==
    [codec_type : {"AUDIO"}, codec_id : DOMAIN T!AudioEncodingFromCodec,
     sample_fmt : DOMAIN T!SampleFormatFromAV, channels : {1, 2}, sample_rate : {3, 4},
     extradata : {T!Null, "bytes"}, has_codec : {FALSE}]
    \cup
    [codec_type : {"VIDEO"}, codec_id : DOMAIN T!VideoEncodingFromCodec,
     pix_fmt : {"YUV422P", "YUVJ422P", "YUV444P", "YUVJ444P", "YUV420P", "YUVJ420P",
                "YUVA420P", "GRAY8"},
     colorspace : {"UNSPECIFIED", "BT709", "BT470BG", "RGB"},
     color_range : {"UNSPECIFIED", "JPEG"}, extent : {T!Extent(1, 2)},
     coded_extent : {T!Extent(3, 4), T!Extent(4, 3)}, extradata : {T!Null, "bytes"},
     has_codec : {FALSE, TRUE}]
Codecs == [kind : {"codec"}, from : Contexts]

Details ==
    {T!VideoStreamType("vp8", T!Null, p, f, c, T!Extent(1, 2), T!Extent(3, 4)) :
        p \in T!VideoProfiles, f \in T!PixelFormats, c \in T!ColorSpaces}
    \cup {T!VideoStreamType(e, "bytes", "kUnknown", "kI420", "kUnknown", T!Extent(1, 2), T!Extent(3, 4)) :
             e \in T!VideoEncodings}
    \cup {T!AudioStreamType(e, b, f, 2, 3) : e \in T!AudioEncodings, b \in {T!Null, "bytes"},
                                            f \in DOMAIN T!SampleSizeFromFormat}
    \cup {T!TextStreamType("t", T!Null), T!SubpictureStreamType("s", "bytes"), T!NullType}
TypeSets ==
    {T!AudioStreamTypeSet(e, f, T!Range(1, c), T!Range(3, r)) :
        e \in {<<"lpcm">>, <<"mp3", "lpcm">>}, f \in T!SampleFormats, c \in {1, 2}, r \in {3, 4}}
    \cup {T!VideoStreamTypeSet(<<"vp8">>, T!Range(1, 2), T!Range(3, 4)), T!TextStreamTypeSet(<<"t">>),
          T!SubpictureStreamTypeSet(<<"s">>), T!NullType}
Metadatas ==
    [duration_ns : {0, 1}, strings : [T!MetadataFields -> {"", "a", "b"}]]
MojoResults == {"OK", "INTERNAL", "UNIMPLEMENTED", "INVALID_ARGUMENT", "NOT_FOUND", "CANCELLED",
                "BUSY", "SHOULD_WAIT"}
MediaResults == {"OK", "UNKNOWN_ERROR", "INTERNAL_ERROR", "NOT_IMPLEMENTED", "UNSUPPORTED_OPERATION",
                 "UNSUPPORTED_CONFIG", "INVALID_ARGUMENT", "NOT_FOUND", "CONNECTION_LOST"}
Crossings ==
    [kind : {"crossing"}, what : {"type"}, value : Details]
    \cup [kind : {"crossing"}, what : {"set"}, value : TypeSets]
    \cup [kind : {"crossing"}, what : {"metadata"}, value : Metadatas]
    \cup [kind : {"crossing"}, what : {"mojo result"}, value : MojoResults]
    \cup [kind : {"crossing"}, what : {"media result"}, value : MediaResults]

Lpcms(formats) ==
    {P!AudioStreamType("lpcm", P!Null, f, c, r) : f \in formats, c \in {1, 2}, r \in {3, 4}}
AudioSets ==
    {P!AudioStreamTypeSet(e, f, P!Range(1, c), P!Range(3, r)) :
        e \in {<<"lpcm">>, <<"mp3">>, <<"mp3", "lpcm">>},
        f \in {"kAny", "kSigned16", "kFloat"}, c \in {1, 2, 3}, r \in {3, 4}}
Sets == AudioSets \cup {P!VideoStreamTypeSet(<<"lpcm">>, P!Range(1, 4), P!Range(1, 4))}
Pipelines ==
    [kind : {"pipeline"},
     type : Lpcms({"kUnsigned8", "kSigned16", "kFloat"})
            \cup {[t EXCEPT !.encoding = "mp3"] : t \in Lpcms({"kSigned16", "kFloat"})}
            \cup {P!VideoStreamType("vp8", P!Null, "kUnknown", "kYv12", "kUnknown",
                                    P!Extent(1, 1), P!Extent(1, 1))},
     decoded : {P!NullType} \cup Lpcms({"kSigned16"}),
     sets : {<<s>> : s \in Sets}
            \cup {<<s, t>> : s \in Sets,
                             t \in {u \in AudioSets : u.channels.max + 2 = u.frames_per_second.max}}]

Samples(format) ==
    CASE format = "kUnsigned8" -> 0 .. (P!Byte - 1)
      [] format = "kSigned16" -> -P!Half16 .. (P!Half16 - 1)
      [] format = "kSigned24In32" -> -P!Half24 .. (P!Half24 - 1)
      [] format = "kFloat" -> (-P!Half24 - 3) .. (P!Half24 + 3)
\* A sample is converted by itself: with every sample, the ends and the middle.
Corners(format) ==
    {v \in Samples(format) : v \in {0, P!Half8, P!Byte - 1} \/ {v - 1, v + 1} \ Samples(format) # {}}
Reformats ==
    UNION {[kind : {"reformat"}, in : {f}, out : DOMAIN P!SampleSizeFromFormat,
            samples : Samples(f) \X Corners(f), channels : {1, 2}, eos : BOOLEAN,
            starved : BOOLEAN] : f \in DOMAIN P!SampleSizeFromFormat}

\* Relative relocations as linkers write them, and others.
Relocations ==
    [kind : {"relocations"}, offsets : UNION {[1 .. n -> {0, 1, 15, 16, 31}] : n \in 0 .. 4},
     addends : {<<0, 0, 0, 0>>, <<1, -1, 15, -16>>, <<-16, 15, -8, 7>>, <<-2, -3, -4, -5>>}]

\* A library as gold or ld writes it: .dynsym, .rel.dyn and .text in the first
\* LOAD, a gap, .dynamic in the second, then .android.rel.dyn and .shstrtab.
Library(type, relocations, gap, text, spare) ==
    LET size == Len(relocations) * (IF type = "REL" THEN 4 ELSE 6)
        rel == 6
        text_at == rel + size
        first == text_at + text
        dyn == first + gap
        entries == 3 + spare
        android == dyn + entries
    IN  [type |-> type, phoff |-> 2, shoff |-> android + 8,
         sections |-> <<E!Section("dynsym", 3, 3, 3), E!Section("rel.dyn", rel, rel, size),
                        E!Section("text", text_at, text_at, text),
                        E!Section("dynamic", dyn + 16, dyn, entries),
                        E!Section("android.rel.dyn", 0, android, 4),
                        E!Section("shstrtab", 0, android + 4, 4)>>,
         headers |-> <<E!Header("LOAD", 0, 0, first, first),
                       E!Header("LOAD", dyn, dyn + 16, entries, entries + 9),
                       E!Header("DYNAMIC", dyn, dyn + 16, entries, entries),
                       E!Header("EXIDX", text_at, text_at, text, text), E!GnuStack>>,
         dynamics |-> <<E!Dyn("RELSZ", size), E!Dyn("RELCOUNT", Len(E!OfType(relocations, {"relative"})))>>
                      \o [i \in 1 .. (spare + 1) |-> E!Dyn("NULL", 0)],
         relocations |-> relocations, packed |-> E!kStubIdentifier]
RelativeAt(type, n, start, delta, last) ==
    [i \in 1 .. n |-> E!Rela(start + (i - 1) * delta + (IF i = n THEN last ELSE 0),
                            IF type = "REL" THEN 0 ELSE i)]
OtherAt(n) == [i \in 1 .. n |-> [type |-> "other", offset |-> i, addend |-> 0]]
Libraries ==
    [kind : {"library"}, elf : {Library(t, RelativeAt(t, n, s, d, l) \o OtherAt(o), gap, text, spare) :
        t \in {"REL", "RELA"}, n \in 0 .. 9, s \in {0, 7}, d \in {1, 2}, l \in {0, 3},
        o \in {0, 1, 3}, gap \in {0, 3}, text \in {5}, spare \in {1, 2}},
     pad : BOOLEAN]

Pick ==
    \/ x = Start /\ x' \in Transforms
    \/ x = Start /\ x' \in Compositions
    \/ x = Start /\ x' \in Mixes
    \/ x = Start /\ x' \in Layouts
    \/ x = Start /\ x' \in Codecs
    \/ x = Start /\ x' \in Crossings
    \/ x = Start /\ x' \in Pipelines
    \/ x = Start /\ x' \in Reformats
    \/ x = Start /\ x' \in Relocations
    \/ x = Start /\ x' \in Libraries
    \/ x # Start /\ x' = Start

-----------------------------------------------------------------------------
MCModel == [demux |-> "multistream", mic |-> "pickySource",
            decoder |-> "transform", sink |-> "pickySink", null |-> "sink"]

Graph == INSTANCE Graph WITH
  Parts <- DOMAIN MCModel, Model <- MCModel,
  stages_ <- v1, deleted <- v2, mate <- v3, prepared_ <- v4, allocator_ <- v5,
  copy <- v6, end <- v7

Sink == INSTANCE MultistreamSinkStage WITH
  MaxInputs <- 3, MaxPending <- 3,
  inputs_ <- v1, unallocated_inputs_ <- v2, pending_inputs_ <- v3, updates <- v4,
  early <- v5

Pull == INSTANCE PullModeProducer WITH
  Packets <- 4, Pulls <- 4,
  state_ <- v1, demand_ <- v2, pending_pulls_ <- v3, unreleased_packets_ <- v4,
  cached_packet_ <- v5, sink_demand_ <- v6, bound <- v7, supplied <- v8,
  pulls <- v9, answers <- v10, signal <- v11, forsaken <- v12

Decode == INSTANCE Decoder WITH
  Buffers <- {b1, b2, b3}, MaxInputs <- 4, MaxBytes <- 2, MaxDelay <- 2,
  kind <- v1, input <- v2, isNew <- v3, bytes <- v4, kept <- v5,
  reference <- v6, owner <- v7, payloads <- v8, inputs <- v9, failed <- v10,
  out <- v11

\* Two command lines that may spawn a daemon, and one that kills it.
Process == INSTANCE Daemon WITH
  N <- 2, kNumTries <- 2,
  client <- v1, child <- v2, connection <- v3, owner <- v4, killer <- v5

unused == <<v1, v2, v3, v4, v5, v6, v7, v8, v9, v10, v11, v12>>
vars == <<which, x, unused>>

Unused1 == v1 = 0 /\ v2 = 0 /\ v3 = 0 /\ v4 = 0
Unused5 == v5 = 0 /\ v6 = 0 /\ v7 = 0
Unused8 == v8 = 0 /\ v9 = 0 /\ v10 = 0 /\ v11 = 0 /\ v12 = 0

Init ==
  /\ x = Start
  /\ \/ which = "algorithm" /\ Unused1 /\ Unused5 /\ Unused8
     \/ which = "graph" /\ Graph!Init /\ Unused8
     \/ which = "sink" /\ Sink!Init /\ v6 = 0 /\ v7 = 0 /\ Unused8
     \/ which = "pull" /\ Pull!Init
     \/ which = "decoder" /\ Decode!Init /\ v12 = 0
     \/ which = "process" /\ Process!Init /\ v6 = 0 /\ v7 = 0 /\ Unused8

Next ==
  \/ which = "algorithm" /\ Pick /\ UNCHANGED <<which, unused>>
  \/ which = "graph" /\ Graph!Next /\ UNCHANGED <<which, x, v8, v9, v10, v11, v12>>
  \/ which = "sink" /\ Sink!Next
     /\ UNCHANGED <<which, x, v6, v7, v8, v9, v10, v11, v12>>
  \/ which = "pull" /\ Pull!Next /\ UNCHANGED <<which, x>>
  \/ which = "decoder" /\ Decode!Next /\ UNCHANGED <<which, x, v12>>
  \/ which = "process" /\ Process!Next
     /\ UNCHANGED <<which, x, v6, v7, v8, v9, v10, v11, v12>>

Spec == Init /\ [][Next]_vars

-----------------------------------------------------------------------------
\* DoForwardTransform and DoReverseTransform are the exact linear map, rounded
\* down, or fail where it leaves the range; Compose multiplies or says that it
\* lost precision.
TransformsAreExact ==
    x.kind = "transform" =>
        LET t == Transform(x.a, x.ratio, x.b)
            forward == DoForwardTransform(t, x.in)
            reverse == DoReverseTransform(t, x.in)
        IN /\ x.ratio.denominator # 0 => FloorOrFailed(forward, Exact(t, x.in), x.b)
           /\ x.ratio.numerator # 0 => FloorOrFailed(reverse, Exact(Inverted(t), x.in), x.a)
           /\ \A r \in Ratios : ProductOrLossy(x.ratio, r)

\* TimelineRate scales exactly and reduces fully, and a composed
\* TimelineFunction with an exact rate agrees with the two functions one after
\* the other, to the rounding of the first, wherever none of them overflows;
\* ApplyInverse is undone by Apply, to the rounding of both.
RatesAreExact ==
    x.kind = "rate" =>
        LET ab == Function(x.at, x.start, x.one)
            bc == Function(x.start, x.at, x.other)
            composed == ComposeFunctions(bc, ab)
            Fits(f, in) == /\ in - f.reference_time \in S64
                           /\ Scale(in - f.reference_time, f.rate) # kOverflow
                           /\ Scale(in - f.reference_time, f.rate) + f.subject_time \in S64
            slack == 1 + x.other.subject_delta \div x.other.reference_delta
        IN /\ ScaleIsFloor(x.in, x.one)
           /\ RateIsReduced(x.one) /\ RateIsReduced(Product(x.one, x.other))
           /\ (x.one.subject_delta # 0 /\ Fits(InverseFunction(ab), x.in)
                 /\ Fits(ab, ApplyInverse(ab, x.in)))
              => x.in - Apply(ab, ApplyInverse(ab, x.in))
                     \in 0 .. (x.one.subject_delta \div x.one.reference_delta + 1)
           /\ (ProductIsExact(x.one, x.other) /\ Fits(composed, x.in) /\ Fits(ab, x.in)
                 /\ Fits(bc, Apply(ab, x.in)) /\ Fits(bc, ab.subject_time))
              => Apply(composed, x.in) - Apply(bc, Apply(ab, x.in)) \in -1 .. slack

\* Mixing a frame of one or two tracks adds their scaled samples and clips.
MixingAdds ==
    x.kind = "mix" => MixIsSum(x.tracks, x.output[1], x.output[2])

\* Every byte of every sample of a frame lies in the frame's buffer, no two
\* samples share a byte, and the overread of a chroma line stays in the buffer
\* (BuildFrameLayout).
PlanesFit(info, layout, width, height) ==
    LET Columns(p) == (width + info.sample_size[p].width - 1) \div info.sample_size[p].width
        Rows(p) == (height + info.sample_size[p].height - 1) \div info.sample_size[p].height
        End(p) == layout.plane_offset[p] + Rows(p) * layout.line_stride[p]
    IN  \A p \in 1 .. P!plane_count(info) :
            /\ info.bytes_per_element[p] * Columns(p) <= layout.line_stride[p]
            /\ End(p) + layout.line_stride[2] + 16 <= layout.size
            /\ p > 1 => End(p - 1) <= layout.plane_offset[p]
            /\ layout.line_stride[p] % 16 = 0

LayoutFits ==
    x.kind = "layout" =>
        LET info == P!InfoForPixelFormat[x.format]
        IN  PlanesFit(info, P!BuildFrameLayout(info, P!Extent(x.width, x.height)), x.width, x.height)

\* A compressed stream found in a container, described through a pipe and given
\* to a decoder, is opened with the codec, the parameters and the shape it has
\* (GetStreamType, the converters to and from mojom, AvCodecContext::Create).
CodecSurvives ==
    (x.kind = "codec" /\ ~x.from.has_codec) =>
        LET to == T!CreateContext(T!StreamTypeOf(T!MediaTypeOf(T!GetStreamType(x.from))))
            Video(c) == <<T!PixelFormatFromAVPixelFormat(c.pix_fmt), c.color_range = "JPEG",
                          c.coded_extent>>
        IN  /\ to.codec_type = x.from.codec_type
            /\ to.codec_id = x.from.codec_id
            /\ to.extradata = x.from.extradata
            /\ to.codec_type = "AUDIO" =>
                   to.channels = x.from.channels /\ to.sample_rate = x.from.sample_rate
            /\ to.codec_type = "VIDEO" => Video(to) = Video(x.from)

\* No stream type, set of types or metadata is changed when it crosses a pipe, an
\* Array of them that arrives becomes a vector in the same order, and an error
\* stays an error.  Nothing is said of a vector made into an Array: the converters
\* size the Array and then append, so that as many nulls precede the types
\* (MediaTypesOf, MediaTypeSetsOf).
TypesCross ==
    x.kind = "crossing" =>
        CASE x.what = "type" ->
                 /\ T!StreamTypeOf(T!MediaTypeOf(x.value)) = x.value
                 /\ x.value # T!NullType =>
                        T!MediumFromMojo[T!MediaTypeOf(x.value).medium] = x.value.medium
                 /\ T!StreamTypesOf(<<T!MediaTypeOf(x.value), T!NullType>>) = <<x.value, T!NullType>>
          [] x.what = "set" ->
                 /\ T!StreamTypeSetOf(T!MediaTypeSetOf(x.value)) = x.value
                 /\ T!StreamTypeSetsOf(<<T!NullType, T!MediaTypeSetOf(x.value)>>)
                        = <<T!NullType, x.value>>
          [] x.what = "metadata" -> T!MetadataOf(T!MediaMetadataOf(x.value)) = x.value
          [] x.what = "mojo result" -> T!ConvertResult(x.value) = "kOk" => x.value = "OK"
          [] x.what = "media result" -> T!ConvertMediaResult(x.value) = "kOk" => x.value = "OK"

\* LPCM that an input is promised is of a type it accepts and of the one the added
\* parts really produce, no reformatter is added where one of the sets takes the
\* samples as they are, and the builder gives up only if there is no decoder or if
\* no set admits LPCM with the channels and the rate of the stream.  A compressed
\* stream passes unchanged only to a set with its sample format and its rate; of
\* the encoding and the channels nothing can be said, since
\* AudioStreamTypeSet::contains does not look at them.
Delivers(built, decoded, type, sets) ==
    LET Compressed == type.medium = "kAudio" /\ type.encoding # "lpcm"
        Passes == Compressed /\ built.result = "kFinished" /\ built.type.encoding # "lpcm"
        lpcm == IF Compressed THEN decoded ELSE type
        HasRate(s, t) == s.medium = "kAudio" /\ P!InRange(s.frames_per_second, t.frames_per_second)
        HasFormat(s, t) == s.sample_format \in {t.sample_format, "kAny"}
        Admits(s, t) == /\ HasRate(s, t) /\ HasFormat(s, t)
                        /\ P!IncludesEncoding(s, t.encoding)
                        /\ P!InRange(s.channels, t.channels)
        Reachable(s, t) == \E f \in P!SampleFormats :
                              Admits(s, [t EXCEPT !.encoding = "lpcm", !.sample_format = f])
        Has(part) == \E i \in DOMAIN built.parts : built.parts[i] = part
    IN  /\ Passes =>
             /\ built.type = type /\ built.parts = << >>
             /\ \E i \in DOMAIN sets : HasRate(sets[i], type) /\ HasFormat(sets[i], type)
        /\ built.result = "kFinished" /\ ~Passes =>
             /\ \E i \in DOMAIN sets : Admits(sets[i], built.type)
             /\ Compressed <=> Has("decoder")
             /\ Len(built.parts) <= (IF Compressed THEN 2 ELSE 1)
             /\ built.type = [lpcm EXCEPT !.sample_format = built.type.sample_format]
             /\ (built.type = lpcm) <=> ~Has("reformatter")
             /\ (\E i \in DOMAIN sets : Admits(sets[i], lpcm)) => built.type = lpcm
        /\ built.result # "kFinished" =>
             /\ built.result = "kFailed" /\ built.parts = << >>
             /\ \/ type.medium # "kAudio"
                \/ Compressed /\ decoded = P!NullType
                \/ \A i \in DOMAIN sets : ~Reachable(sets[i], lpcm)
                \/ \A i \in DOMAIN sets : ~Reachable(sets[i], type)

PipelineDelivers ==
    x.kind = "pipeline" =>
        Delivers(P!BuildConversionPipeline(x.type, x.sets, [e \in P!AudioEncodings |-> x.decoded]),
                 x.decoded, x.type, x.sets)

\* A reformatted packet keeps its time, its end-of-stream mark and the level of
\* every sample to two steps of the coarser format, or waits for a buffer and
\* loses nothing.  Left out are the conversions the code gets wrong: from
\* 24-bit samples (the limits of Clamp are swapped) and from the lower half of
\* the 8-bit samples to 24 bits and to float (the sign is not extended).
\* Mixing a packet into silence leaves it as it is, and interleaving gives every
\* channel its places.
LevelsAreKept ==
    x.kind = "reformat" =>
        LET type(f) == P!AudioStreamType("lpcm", P!Null, f, x.channels, 3)
            Step == [kUnsigned8 |-> P!Byte * P!Byte, kSigned16 |-> P!Byte,
                     kSigned24In32 |-> 1, kFloat |-> 1]
            Level(f, v) == IF f = "kUnsigned8" THEN (v - P!Half8) * Step[f] ELSE v * Step[f]
            Limit(v) == P!Clamp(v, -P!Half24, P!Half24)
            Wrong(v) == /\ x.in # x.out
                        /\ \/ x.in = "kSigned24In32"
                           \/ /\ x.in = "kUnsigned8" /\ v < P!Half8
                              /\ x.out \in {"kSigned24In32", "kFloat"}
            frames == 2 \div x.channels
            in == P!Packet(5, x.eos, P!min_buffer_size(type(x.in), frames), x.samples)
            r == P!TransformPacket(type(x.in), type(x.out), in, x.starved)
            Near(a, b) == a - b <= 2 * Step[x.out] /\ b - a <= 2 * Step[x.out]
        IN  /\ r.done = ~x.starved
            /\ r.done =>
                 /\ r.output.pts = 5 /\ r.output.end_of_stream = x.eos
                 /\ P!frame_count(type(x.out), r.output.size) = frames
                 /\ \A i \in 1 .. 2 :
                      ~Wrong(x.samples[i]) =>
                          Near(Level(x.out, r.output.samples[i]),
                               IF x.in = "kFloat" /\ x.out # "kFloat"
                               THEN Limit(x.samples[i]) ELSE Level(x.in, x.samples[i]))
            /\ x.in = x.out =>
                 LET silence == P!Silence(type(x.in), frames)
                     planar == P!Interleave(type(x.in), x.samples,
                                            P!min_buffer_size(type(x.in), frames), frames)
                 IN  /\ P!Mix(type(x.in), x.samples, silence, frames)
                            = P!CopyFrames(type(x.in), x.samples, frames)
                     /\ \A c \in 1 .. x.channels, f \in 1 .. frames :
                           planar[(f - 1) * x.channels + c] = x.samples[(c - 1) * frames + f]

\* Relocations come back from both packed forms as they were, whatever zeros
\* fill the last word (RelocationPacker, the codecs and the encoders).
RelocationsSurvive ==
    x.kind = "relocations" =>
        LET n == Len(x.offsets)
            rel == [i \in 1 .. n |-> E!Rel(x.offsets[i])]
            rela == [i \in 1 .. n |-> E!Rela(x.offsets[i], x.addends[i])]
            packed == E!PackRel(rel)
        IN  /\ E!Increasing(rel) /\ n > 1 =>
                   E!UnpackRel(packed) = rel /\ Len(packed) % 2 = 0 /\ E!HasSignature(packed, E!APR1)
            /\ n > 0 => /\ E!UnpackRela(E!PackRela(rela)) = rela
                        /\ E!HasSignature(E!PackRela(rela), E!APA1)

\* A packed library is loaded as the original is: everything is mapped at its
\* address, .dynamic describes what the file holds, the same relocations are
\* applied, and sections do not overlap (PackRelocations and ResizeSection).
LoadsTheSame(packed, elf, pad) ==
    /\ E!Mapped(packed) /\ E!Described(packed) /\ E!Disjoint(packed)
    /\ E!Applied(packed) = E!Applied(elf)
    /\ packed # elf => E!main(packed, FALSE, pad) = packed

LibraryLoadsTheSame ==
    x.kind = "library" => LoadsTheSame(E!main(x.elf, FALSE, x.pad), x.elf, x.pad)

\* "To unpack, we reverse the above to leave the file as it was originally"
\* (elf_file.cc): byte for byte, and a library that is not packed is left alone.
UnpackingRestores ==
    x.kind = "library" =>
        /\ E!main(x.elf, TRUE, x.pad) = x.elf
        /\ E!main(E!main(x.elf, FALSE, x.pad), TRUE, x.pad) = x.elf

\* Timelines: transforms, rates and functions are exact or say that they are not.
TimelinesAreExact == TransformsAreExact /\ RatesAreExact

\* Types of streams: what a container holds is what the decoder at the other end of
\* the pipes is opened with, no single type changes on the way, and every plane of a picture
\* lies in the layout made for its type.
TypesSurvive == CodecSurvives /\ TypesCross /\ LayoutFits

\* Samples: reformatting keeps levels, but for the conversions LevelsAreKept names, and
\* mixing adds.
SamplesAreKept == LevelsAreKept /\ MixingAdds

\* The relocation packer: packing changes nothing a loader sees, and unpacking undoes it.
PackingIsSafe == RelocationsSurvive /\ LibraryLoadsTheSame /\ UnpackingRestores

\* Graph: joined connectors name each other and belong to live stages; upstream of a
\* prepared input all is joined and prepared, and packets come from the allocator
\* that was asked for.
PreparedPortions == which = "graph" => Graph!MatesAgree /\ Graph!PreparedPortions

\* ActiveMultistreamSinkStage: free inputs are the ones handed out again, inputs that
\* want packets are visited, and a visited input is there unless the sink asked for
\* packets before the input was prepared.
WantedInputsArePending ==
    which = "sink" => Sink!InputsAreTight /\ Sink!WantedInputsArePending

\* MojoPullModeProducer: pulls are answered in order by packets in order, and a packet
\* is lost only without a client or after a late positive demand.
PullsAreAnsweredInOrder == which = "pull" => Pull!PullsAreAnsweredInOrder

\* FfmpegDecoderBase: the end of the stream comes once, after all frames, and a buffer
\* has exactly one owner.
FramesAreDelivered == which = "decoder" => Decode!EndOfStreamIsLast /\ Decode!BuffersAreOwned

\* Daemon::Kill reports success only when its victim has stopped serving and let go of
\* the socket, and nobody is turned away unless the daemon is being killed.
DaemonServesOrDies == which = "process" => Process!KillIsEffective /\ Process!ServedUnlessKilled
=============================================================================

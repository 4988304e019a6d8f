----------------------------- MODULE StreamTypes -----------------------------
(* The types of media streams: services/media/framework/types/ (stream_type,  *)
(* audio_stream_type, video_stream_type, text_stream_type,                    *)
(* subpicture_stream_type, bytes).  A stream type says what a stream carries, *)
(* a stream type set says what a part accepts; the conversion pipeline, the   *)
(* type converters and the FFmpeg adapters all work on them.                  *)
(* A null pointer to Bytes is Null; the contents of Bytes are a value nobody  *)
(* looks into.                                                                *)
EXTENDS Integers, Sequences, FiniteSets

Null == "null"

\* A null pointer to a type or a set.
NullType == [medium |-> "null"]

SampleFormats == {"kAny", "kUnsigned8", "kSigned16", "kSigned24In32", "kFloat"}

VideoProfiles ==
    {"kUnknown", "kNotApplicable", "kH264Baseline", "kH264Main",
     "kH264Extended", "kH264High", "kH264High10", "kH264High422",
     "kH264High444Predictive", "kH264ScalableBaseline", "kH264ScalableHigh",
     "kH264StereoHigh", "kH264MultiviewHigh"}

PixelFormats ==
    {"kUnknown", "kI420", "kYv12", "kYv16", "kYv12A", "kYv24", "kNv12",
     "kNv21", "kUyvy", "kYuy2", "kArgb", "kXrgb", "kRgb24", "kRgb32",
     "kMjpeg", "kMt21"}

ColorSpaces == {"kUnknown", "kNotApplicable", "kJpeg", "kHdRec709", "kSdRec601"}

AudioEncodings ==
    {"aac", "amrnb", "amrwb", "flac", "gsmms", "lpcm", "mp3", "pcmalaw",
     "pcmmulaw", "vorbis"}

VideoEncodings ==
    {"h263", "h264", "mpeg4", "theora", "uncompressed_video", "vp3", "vp8"}

-------------------------------------------------------------------------------
(* Stream types.                                                              *)

\* The size of one sample.  The constructor asks for it, so that no audio type
\* with SampleFormat::kAny exists: the request aborts.
SampleSizeFromFormat ==
    [kUnsigned8 |-> 1, kSigned16 |-> 2, kSigned24In32 |-> 4, kFloat |-> 4]

AudioStreamType(encoding, parameters, format, channels, rate) ==
    [medium              |-> "kAudio",
     encoding            |-> encoding,
     encoding_parameters |-> parameters,
     sample_format       |-> format,
     channels            |-> channels,
     frames_per_second   |-> rate]

VideoStreamType(encoding, parameters, profile, format, space, size, coded) ==
    [medium              |-> "kVideo",
     encoding            |-> encoding,
     encoding_parameters |-> parameters,
     profile             |-> profile,
     pixel_format        |-> format,
     color_space         |-> space,
     extent              |-> size,
     coded_extent        |-> coded]

TextStreamType(encoding, parameters) ==
    [medium |-> "kText", encoding |-> encoding, encoding_parameters |-> parameters]

SubpictureStreamType(encoding, parameters) ==
    [medium              |-> "kSubpicture",
     encoding            |-> encoding,
     encoding_parameters |-> parameters]

bytes_per_frame(type) == SampleSizeFromFormat[type.sample_format] * type.channels

min_buffer_size(type, frames) == frames * bytes_per_frame(type)

frame_count(type, size) == size \div bytes_per_frame(type)

-------------------------------------------------------------------------------
(* Sets of stream types.                                                      *)

Range(min, max) == [min |-> min, max |-> max]

InRange(range, t) == t >= range.min /\ t <= range.max

AudioStreamTypeSet(encodings, format, channels, rates) ==
    [medium            |-> "kAudio",
     encodings         |-> encodings,
     sample_format     |-> format,
     channels          |-> channels,
     frames_per_second |-> rates]

VideoStreamTypeSet(encodings, width, height) ==
    [medium |-> "kVideo", encodings |-> encodings, width |-> width,
     height |-> height]

TextStreamTypeSet(encodings) == [medium |-> "kText", encodings |-> encodings]

SubpictureStreamTypeSet(encodings) ==
    [medium |-> "kSubpicture", encodings |-> encodings]

IncludesEncoding(set, encoding) ==
    \E i \in DOMAIN set.encodings : set.encodings[i] = encoding

\* The code compares the range of channels with the frame rate.
contains(set, type) ==
    /\ set.sample_format \in {type.sample_format, "kAny"}
    /\ InRange(set.channels, type.frames_per_second)
    /\ InRange(set.frames_per_second, type.frames_per_second)

-------------------------------------------------------------------------------
(* The layout of video frames.  Planes are numbered from 1 here, from 0 in    *)
(* the code.                                                                  *)

\* The constants of the layout in the code.
kFrameSizeAlignment == 16
kFrameSizePadding == 16
kUPlaneIndex == 2

Extent(width, height) == [width |-> width, height |-> height]

\* alignment is a power of two, so that clearing the low bits rounds down.
RoundUpToAlign(value, alignment) ==
    ((value + alignment - 1) \div alignment) * alignment

\* Bytes per element and extent of a sample, for every plane of a format.
InfoForPixelFormat ==
    LET full == Extent(1, 1)
        half == Extent(2, 2)
        wide == Extent(2, 1)
        planes(bytes, samples) == [bytes_per_element |-> bytes, sample_size |-> samples]
        yuv420 == planes(<<1, 1, 1>>, <<full, half, half>>)
        packed(n) == planes(<<n>>, <<full>>)
        paired == planes(<<1, 2>>, <<full, half>>)
    IN  [kI420  |-> yuv420,
         kYv12  |-> yuv420,
         kYv16  |-> planes(<<1, 1, 1>>, <<full, wide, wide>>),
         kYv12A |-> planes(<<1, 1, 1, 1>>, <<full, half, half, full>>),
         kYv24  |-> planes(<<1, 1, 1>>, <<full, full, full>>),
         kNv12  |-> paired, kNv21 |-> paired, kMt21 |-> paired,
         kUyvy  |-> packed(2), kYuy2 |-> packed(2),
         kArgb  |-> packed(4), kXrgb |-> packed(4),
         kRgb24 |-> packed(3), kRgb32 |-> packed(4), kMjpeg |-> packed(0)]

plane_count(info) == Len(info.sample_size)

RowCount(info, plane, height) ==
    LET sample_height == info.sample_size[plane].height
    IN  RoundUpToAlign(height, sample_height) \div sample_height

ColumnCount(info, plane, width) ==
    LET sample_width == info.sample_size[plane].width
    IN  RoundUpToAlign(width, sample_width) \div sample_width

BytesPerRow(info, plane, width) ==
    info.bytes_per_element[plane] * ColumnCount(info, plane, width)

\* The largest sample of any plane, in each direction.
CommonAlignment(info) ==
    LET largest(S) == CHOOSE n \in S : \A m \in S : m <= n
        all == DOMAIN info.sample_size
    IN  Extent(largest({info.sample_size[p].width : p \in all}),
               largest({info.sample_size[p].height : p \in all}))

AlignedSize(info, unaligned_size) ==
    LET alignment == CommonAlignment(info)
    IN  Extent(RoundUpToAlign(unaligned_size.width, alignment.width),
               RoundUpToAlign(unaligned_size.height, alignment.height))

\* The height of a plane is a multiple of two macroblocks, and one extra line of
\* the U plane and some padding follow the last plane.
BuildFrameLayout(info, coded_size) ==
    LET aligned == AlignedSize(info, coded_size)
        all == 1..plane_count(info)
        height == [p \in all |-> RoundUpToAlign(RowCount(info, p, aligned.height),
                                                kFrameSizeAlignment * 2)]
        stride == [p \in all |-> RoundUpToAlign(BytesPerRow(info, p, aligned.width),
                                                kFrameSizeAlignment)]
        upto[p \in 0..plane_count(info)] ==
            IF p = 0 THEN 0 ELSE upto[p - 1] + height[p] * stride[p]
    IN  [line_stride  |-> stride,
         plane_offset |-> [p \in all |-> upto[p - 1]],
         size         |-> upto[plane_count(info)] + stride[kUPlaneIndex]
                              + kFrameSizePadding]
===============================================================================

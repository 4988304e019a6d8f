--------------------------- MODULE TypeConversions ---------------------------
(* A stream type on its way from a container to a decoder.                    *)
(*   services/media/framework_ffmpeg/av_codec_context.cc makes a stream type  *)
(*   of FFmpeg's description of a stream, and a codec context of a stream     *)
(*   type;                                                                    *)
(*   services/media/framework_mojo/mojo_type_conversions.cc makes a mojom     *)
(*   MediaType of a stream type, and back, where a type crosses a pipe.       *)
(* Enumerations are tables from names to names.  A switch that aborts has no  *)
(* entry for the value; one with a default is given by Lookup.  A null type   *)
(* is NullType on both sides; null metadata and null vectors, which convert   *)
(* to null, are left out.                                                     *)
EXTENDS StreamTypes

Lookup(table, key, default) == IF key \in DOMAIN table THEN table[key] ELSE default

-------------------------------------------------------------------------------
(* Results.                                                                   *)

ConvertResult(mojo_result) ==
    Lookup([OK |-> "kOk", INTERNAL |-> "kInternalError",
            UNIMPLEMENTED |-> "kUnsupportedOperation",
            INVALID_ARGUMENT |-> "kInvalidArgument", NOT_FOUND |-> "kNotFound"],
           mojo_result, "kUnknownError")

ConvertMediaResult(media_result) ==
    Lookup([OK |-> "kOk", INTERNAL_ERROR |-> "kInternalError",
            UNSUPPORTED_OPERATION |-> "kUnsupportedOperation",
            NOT_IMPLEMENTED |-> "kUnsupportedOperation",
            INVALID_ARGUMENT |-> "kInvalidArgument", NOT_FOUND |-> "kNotFound"],
           media_result, "kUnknownError")

-------------------------------------------------------------------------------
(* Enumerations, from mojom and to mojom.                                     *)

MediumFromMojo ==
    [AUDIO |-> "kAudio", VIDEO |-> "kVideo", TEXT |-> "kText",
     SUBPICTURE |-> "kSubpicture"]

SampleFormatFromMojo ==
    [ANY |-> "kAny", UNSIGNED_8 |-> "kUnsigned8", SIGNED_16 |-> "kSigned16",
     SIGNED_24_IN_32 |-> "kSigned24In32", FLOAT |-> "kFloat"]

VideoProfileFromMojo ==
    [UNKNOWN |-> "kUnknown", NOT_APPLICABLE |-> "kNotApplicable",
     H264_BASELINE |-> "kH264Baseline", H264_MAIN |-> "kH264Main",
     H264_EXTENDED |-> "kH264Extended", H264_HIGH |-> "kH264High",
     H264_HIGH10 |-> "kH264High10", H264_HIGH422 |-> "kH264High422",
     H264_HIGH444_PREDICTIVE |-> "kH264High444Predictive",
     H264_SCALABLE_BASELINE |-> "kH264ScalableBaseline",
     H264_SCALABLE_HIGH |-> "kH264ScalableHigh",
     H264_STEREO_HIGH |-> "kH264StereoHigh",
     H264_MULTIVIEW_HIGH |-> "kH264MultiviewHigh"]

PixelFormatFromMojo ==
    [UNKNOWN |-> "kUnknown", I420 |-> "kI420", YV12 |-> "kYv12", YV16 |-> "kYv16",
     YV12A |-> "kYv12A", YV24 |-> "kYv24", NV12 |-> "kNv12", NV21 |-> "kNv21",
     UYVY |-> "kUyvy", YUY2 |-> "kYuy2", ARGB |-> "kArgb", XRGB |-> "kXrgb",
     RGB24 |-> "kRgb24", RGB32 |-> "kRgb32", MJPEG |-> "kMjpeg", MT21 |-> "kMt21"]

ColorSpaceFromMojo ==
    [UNKNOWN |-> "kUnknown", NOT_APPLICABLE |-> "kNotApplicable", JPEG |-> "kJpeg",
     HD_REC709 |-> "kHdRec709", SD_REC601 |-> "kSdRec601"]

MediumToMojo ==
    [kAudio |-> "AUDIO", kVideo |-> "VIDEO", kText |-> "TEXT",
     kSubpicture |-> "SUBPICTURE"]

SampleFormatToMojo ==
    [kAny |-> "ANY", kUnsigned8 |-> "UNSIGNED_8", kSigned16 |-> "SIGNED_16",
     kSigned24In32 |-> "SIGNED_24_IN_32", kFloat |-> "FLOAT"]

VideoProfileToMojo ==
    [kUnknown |-> "UNKNOWN", kNotApplicable |-> "NOT_APPLICABLE",
     kH264Baseline |-> "H264_BASELINE", kH264Main |-> "H264_MAIN",
     kH264Extended |-> "H264_EXTENDED", kH264High |-> "H264_HIGH",
     kH264High10 |-> "H264_HIGH10", kH264High422 |-> "H264_HIGH422",
     kH264High444Predictive |-> "H264_HIGH444_PREDICTIVE",
     kH264ScalableBaseline |-> "H264_SCALABLE_BASELINE",
     kH264ScalableHigh |-> "H264_SCALABLE_HIGH",
     kH264StereoHigh |-> "H264_STEREO_HIGH",
     kH264MultiviewHigh |-> "H264_MULTIVIEW_HIGH"]

PixelFormatToMojo ==
    [kUnknown |-> "UNKNOWN", kI420 |-> "I420", kYv12 |-> "YV12", kYv16 |-> "YV16",
     kYv12A |-> "YV12A", kYv24 |-> "YV24", kNv12 |-> "NV12", kNv21 |-> "NV21",
     kUyvy |-> "UYVY", kYuy2 |-> "YUY2", kArgb |-> "ARGB", kXrgb |-> "XRGB",
     kRgb24 |-> "RGB24", kRgb32 |-> "RGB32", kMjpeg |-> "MJPEG", kMt21 |-> "MT21"]

ColorSpaceToMojo ==
    [kUnknown |-> "UNKNOWN", kNotApplicable |-> "NOT_APPLICABLE", kJpeg |-> "JPEG",
     kHdRec709 |-> "HD_REC709", kSdRec601 |-> "SD_REC601"]

-------------------------------------------------------------------------------
(* Types, sets of types and metadata, to and from mojom.  Array<uint8_t> and  *)
(* Bytes hold the same contents, or are both null; encodings are strings that *)
(* KnownEncodingsMatch says are spelled alike on both sides.                  *)

BytesToMojo(bytes) == bytes

\* Mutant of BytesFromMojo: the way back forgets the contents.
BytesFromMojoLost(array) == Null

BytesFromMojo(array) == array

MediaTypeOf(type) ==
    LET common(details) == [medium              |-> MediumToMojo[type.medium],
                            details             |-> details,
                            encoding            |-> type.encoding,
                            encoding_parameters |-> BytesToMojo(type.encoding_parameters)]
    IN  CASE type.medium = "null" -> NullType
          [] type.medium = "kAudio" ->
                 common([sample_format     |-> SampleFormatToMojo[type.sample_format],
                         channels          |-> type.channels,
                         frames_per_second |-> type.frames_per_second])
          [] type.medium = "kVideo" ->
                 common([profile      |-> VideoProfileToMojo[type.profile],
                         pixel_format |-> PixelFormatToMojo[type.pixel_format],
                         color_space  |-> ColorSpaceToMojo[type.color_space],
                         width        |-> type.extent.width,
                         height       |-> type.extent.height,
                         coded_width  |-> type.coded_extent.width,
                         coded_height |-> type.coded_extent.height])
          [] type.medium \in {"kText", "kSubpicture"} ->
                 common([nothing |-> 0])

StreamTypeOf(media_type) ==
    LET details == media_type.details
        parameters == BytesFromMojo(media_type.encoding_parameters)
    IN  CASE media_type.medium = "null" -> NullType
          [] media_type.medium = "AUDIO" ->
                 AudioStreamType(media_type.encoding, parameters,
                                 SampleFormatFromMojo[details.sample_format],
                                 details.channels, details.frames_per_second)
          [] media_type.medium = "VIDEO" ->
                 VideoStreamType(media_type.encoding, parameters,
                                 VideoProfileFromMojo[details.profile],
                                 Lookup(PixelFormatFromMojo, details.pixel_format, "kUnknown"),
                                 Lookup(ColorSpaceFromMojo, details.color_space, "kUnknown"),
                                 Extent(details.width, details.height),
                                 Extent(details.coded_width, details.coded_height))
          [] media_type.medium = "TEXT" ->
                 TextStreamType(media_type.encoding, parameters)
          [] media_type.medium = "SUBPICTURE" ->
                 SubpictureStreamType(media_type.encoding, parameters)

MediaTypeSetOf(set) ==
    LET common(details) == [medium    |-> MediumToMojo[set.medium],
                            details   |-> details,
                            encodings |-> set.encodings]
    IN  CASE set.medium = "null" -> NullType
          [] set.medium = "kAudio" ->
                 common([sample_format         |-> SampleFormatToMojo[set.sample_format],
                         min_channels          |-> set.channels.min,
                         max_channels          |-> set.channels.max,
                         min_frames_per_second |-> set.frames_per_second.min,
                         max_frames_per_second |-> set.frames_per_second.max])
          [] set.medium = "kVideo" ->
                 common([min_width  |-> set.width.min, max_width |-> set.width.max,
                         min_height |-> set.height.min, max_height |-> set.height.max])
          [] set.medium \in {"kText", "kSubpicture"} ->
                 common([nothing |-> 0])

StreamTypeSetOf(set) ==
    LET details == set.details
    IN  CASE set.medium = "null" -> NullType
          [] set.medium = "AUDIO" ->
                 AudioStreamTypeSet(set.encodings,
                     SampleFormatFromMojo[details.sample_format],
                     Range(details.min_channels, details.max_channels),
                     Range(details.min_frames_per_second, details.max_frames_per_second))
          [] set.medium = "VIDEO" ->
                 VideoStreamTypeSet(set.encodings,
                     Range(details.min_width, details.max_width),
                     Range(details.min_height, details.max_height))
          [] set.medium = "TEXT" -> TextStreamTypeSet(set.encodings)
          [] set.medium = "SUBPICTURE" -> SubpictureStreamTypeSet(set.encodings)

\* Metadata: an empty string becomes a null mojo String, and a null String
\* converts to an empty one.
MetadataFields == {"title", "artist", "album", "publisher", "genre", "composer"}

MediaMetadataOf(metadata) ==
    [duration |-> metadata.duration_ns,
     strings  |-> [f \in MetadataFields |->
                           IF metadata.strings[f] = "" THEN Null ELSE metadata.strings[f]]]

MetadataOf(media_metadata) ==
    [duration_ns |-> media_metadata.duration,
     strings     |-> [f \in MetadataFields |->
                              IF media_metadata.strings[f] = Null THEN ""
                              ELSE media_metadata.strings[f]]]

\* A vector of types to an Array: the Array is created with as many null
\* elements, and the converted ones are appended behind them.
MediaTypesOf(types) ==
    [i \in 1..Len(types) |-> NullType] \o [i \in 1..Len(types) |-> MediaTypeOf(types[i])]

StreamTypesOf(media_types) ==
    [i \in 1..Len(media_types) |-> StreamTypeOf(media_types[i])]

MediaTypeSetsOf(sets) ==
    [i \in 1..Len(sets) |-> NullType] \o [i \in 1..Len(sets) |-> MediaTypeSetOf(sets[i])]

StreamTypeSetsOf(sets) ==
    [i \in 1..Len(sets) |-> StreamTypeSetOf(sets[i])]

-----------------------------------------------------------------------------
(* services/media/framework_ffmpeg/av_codec_context.cc: FFmpeg's description  *)
(* of a stream (an AVCodecContext, external) as a stream type, and a stream   *)
(* type as the context a decoder is opened with.                              *)
(* A context is a record of the fields the code reads and writes;             *)
(* has_codec says that codec is not nullptr (a decoder has been opened),      *)
(* extradata is Null when extradata_size is 0.                                *)

Aborted == [medium |-> "aborted"]

\* Convert(AVSampleFormat): planar and packed samples become the same format;
\* a format that is not here aborts.
SampleFormatFromAV ==
    [U8  |-> "kUnsigned8", U8P |-> "kUnsigned8", S16 |-> "kSigned16",
     S16P |-> "kSigned16", S32 |-> "kSigned24In32", S32P |-> "kSigned24In32",
     FLT |-> "kFloat", FLTP |-> "kFloat"]

PixelFormatFromAVPixelFormat(format) ==
    Lookup([YUV422P |-> "kYv16", YUVJ422P |-> "kYv16", YUV444P |-> "kYv24",
            YUVJ444P |-> "kYv24", YUV420P |-> "kYv12", YUVJ420P |-> "kYv12",
            YUVA420P |-> "kYv12A"], format, "kUnknown")

AVPixelFormatFromPixelFormat(format) ==
    Lookup([kYv12 |-> "YUV420P", kYv16 |-> "YUV422P", kYv12A |-> "YUVA420P",
            kYv24 |-> "YUV444P"], format, "NONE")

ColorSpaceFromAVColorSpaceAndRange(space, range) ==
    IF range = "JPEG" THEN "kJpeg"
    ELSE Lookup([UNSPECIFIED |-> "kNotApplicable", BT709 |-> "kHdRec709",
                 SMPTE170M |-> "kSdRec601", BT470BG |-> "kSdRec601"], space, "kUnknown")

FfmpegProfileFromVideoProfile(profile) ==
    Lookup([kH264Baseline |-> "BASELINE", kH264Main |-> "MAIN",
            kH264Extended |-> "EXTENDED", kH264High |-> "HIGH",
            kH264High10 |-> "HIGH_10", kH264High422 |-> "HIGH_422",
            kH264High444Predictive |-> "HIGH_444_PREDICTIVE"], profile, "UNKNOWN")

-------------------------------------------------------------------------------
(* From a context to a stream type.                                           *)

StreamTypeFromLpcmCodecContext(from) ==
    IF from.sample_fmt \notin DOMAIN SampleFormatFromAV THEN Aborted
    ELSE AudioStreamType("lpcm", Null, SampleFormatFromAV[from.sample_fmt],
                         from.channels, from.sample_rate)

AudioEncodingFromCodec ==
    [AAC |-> "aac", AMR_NB |-> "amrnb", AMR_WB |-> "amrwb", FLAC |-> "flac",
     GSM_MS |-> "gsmms", MP3 |-> "mp3", PCM_ALAW |-> "pcmalaw",
     PCM_MULAW |-> "pcmmulaw", VORBIS |-> "vorbis"]

StreamTypeFromCompressedAudioCodecContext(from) ==
    IF \/ from.codec_id \notin DOMAIN AudioEncodingFromCodec
       \/ from.sample_fmt \notin DOMAIN SampleFormatFromAV
    THEN Aborted
    ELSE AudioStreamType(AudioEncodingFromCodec[from.codec_id], from.extradata,
                         SampleFormatFromAV[from.sample_fmt], from.channels,
                         from.sample_rate)

VideoEncodingFromCodec ==
    [H263 |-> "h263", H264 |-> "h264", MPEG4 |-> "mpeg4", THEORA |-> "theora",
     VP3 |-> "vp3", VP8 |-> "vp8"]

StreamTypeFromCompressedVideoCodecContext(from) ==
    IF from.codec_id \notin DOMAIN VideoEncodingFromCodec THEN Aborted
    ELSE VideoStreamType(VideoEncodingFromCodec[from.codec_id], from.extradata,
             "kNotApplicable", PixelFormatFromAVPixelFormat(from.pix_fmt),
             ColorSpaceFromAVColorSpaceAndRange(from.colorspace, from.color_range),
             from.extent, from.coded_extent)

StreamTypeFromUncompressedVideoCodecContext(from) ==
    VideoStreamType("uncompressed_video", Null, "kNotApplicable",
        PixelFormatFromAVPixelFormat(from.pix_fmt),
        ColorSpaceFromAVColorSpaceAndRange(from.colorspace, from.color_range),
        from.extent, from.coded_extent)

StreamTypeFromDataCodecContext(from) ==
    TextStreamType("UNSUPPORTED TYPE (FFMPEG DATA)", Null)

StreamTypeFromSubtitleCodecContext(from) ==
    SubpictureStreamType("UNSUPPORTED TYPE (FFMPEG SUBTITLE)", Null)

LpcmCodecs == {"PCM_S16BE", "PCM_S16LE", "PCM_S24BE", "PCM_S24LE", "PCM_U8"}

GetStreamType(from) ==
    CASE from.codec_type = "AUDIO" ->
             IF from.codec_id \in LpcmCodecs \/ from.has_codec
             THEN StreamTypeFromLpcmCodecContext(from)
             ELSE StreamTypeFromCompressedAudioCodecContext(from)
      [] from.codec_type = "VIDEO" ->
             IF from.has_codec THEN StreamTypeFromUncompressedVideoCodecContext(from)
             ELSE StreamTypeFromCompressedVideoCodecContext(from)
      [] from.codec_type \in {"UNKNOWN", "DATA"} -> StreamTypeFromDataCodecContext(from)
      [] from.codec_type = "SUBTITLE" -> StreamTypeFromSubtitleCodecContext(from)
      [] OTHER -> Aborted

-------------------------------------------------------------------------------
(* From a stream type to the context of a decoder.                            *)

AVCodecContextFromAudioStreamType(type) ==
    LET lpcm == [kUnsigned8    |-> <<"PCM_U8", "U8">>,
                 kSigned16     |-> <<"PCM_S16LE", "S16">>,
                 kSigned24In32 |-> <<"PCM_S24LE", "S32">>,
                 kFloat        |-> <<"PCM_F32LE", "FLT">>]
        compressed == [aac |-> "AAC", amrnb |-> "AMR_NB", amrwb |-> "AMR_WB",
                       flac |-> "FLAC", gsmms |-> "GSM_MS", mp3 |-> "MP3",
                       pcmalaw |-> "PCM_ALAW", pcmmulaw |-> "PCM_MULAW",
                       vorbis |-> "VORBIS"]
        codec == IF type.encoding = "lpcm" THEN lpcm[type.sample_format]
                 ELSE <<compressed[type.encoding], "NONE">>
    IN  [codec_type  |-> "AUDIO",
         codec_id    |-> codec[1],
         sample_fmt  |-> codec[2],
         channels    |-> type.channels,
         sample_rate |-> type.frames_per_second,
         extradata   |-> type.encoding_parameters]

\* Width and height are not set, only the coded ones; an uncompressed type
\* aborts.
AVCodecContextFromVideoStreamType(type) ==
    LET codec == [h263 |-> "H263", h264 |-> "H264", mpeg4 |-> "MPEG4",
                  theora |-> "THEORA", vp3 |-> "VP3", vp8 |-> "VP8"]
    IN  [codec_type   |-> "VIDEO",
         codec_id     |-> codec[type.encoding],
         profile      |-> FfmpegProfileFromVideoProfile(type.profile),
         pix_fmt      |-> AVPixelFormatFromPixelFormat(type.pixel_format),
         color_range  |-> IF type.color_space = "kJpeg" THEN "JPEG" ELSE "UNSPECIFIED",
         coded_extent |-> type.coded_extent,
         extradata    |-> type.encoding_parameters]

\* Text and subpicture types abort: they are not implemented.
CreateContext(type) ==
    CASE type.medium = "kAudio" -> AVCodecContextFromAudioStreamType(type)
      [] type.medium = "kVideo" -> AVCodecContextFromVideoStreamType(type)
      [] OTHER -> Aborted
=============================================================================

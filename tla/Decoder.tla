------------------------------ MODULE Decoder ------------------------------
(***************************************************************************)
(* The FFmpeg decoders as a Transform: FfmpegDecoderBase and its audio and *)
(* video subclasses, driven by TransformStage.  FFmpeg is external: a call *)
(* of its decode function uses some of the packet's bytes, may call back   *)
(* for a buffer to decode a frame into, keeps frames back, and may return  *)
(* one of those it kept; given an empty packet it returns what it kept.    *)
(*                                                                         *)
(* A buffer belongs to its AvBufferContext until CreateOutputPacket moves  *)
(* it into a packet; FFmpeg releases the context when its last reference   *)
(* to the frame goes.                                                      *)
(***************************************************************************)
EXTENDS Naturals, Sequences, SequencesExt, FiniteSets

CONSTANTS Buffers,     \* bound on the buffers alive at a time
          MaxInputs,   \* bound on the input packets
          MaxBytes,    \* bound on the bytes of an input packet
          MaxDelay     \* bound on the frames FFmpeg keeps back

VARIABLES kind,        \* "interleaved" or "planar" audio, or "video"
          input,       \* the packet at the stage's input, or NoPacket
          isNew,       \* TransformStage's input_packet_is_new_
          bytes,       \* av_packet_.size
          kept,        \* buffers of frames FFmpeg keeps back, in order
          reference,   \* buffers FFmpeg decodes other frames from
          owner,       \* who releases each buffer
          payloads,    \* buffers of packets that are downstream
          inputs,      \* packets given so far
          failed,      \* whether FFmpeg failed since the last flush
          out          \* what was put out since then

vars == <<kind, input, isNew, bytes, kept, reference, owner, payloads, inputs, failed, out>>

NoPacket == [eos |-> FALSE, size |-> 0, none |-> TRUE]
Packet(n, eos) == [eos |-> eos, size |-> n, none |-> FALSE]

Init == /\ kind \in {"interleaved", "planar", "video"}
        /\ input = NoPacket /\ isNew = TRUE /\ bytes = 0
        /\ kept = <<>> /\ reference = {}
        /\ owner = [b \in Buffers |-> "none"]
        /\ payloads = {}
        /\ inputs = 0 /\ failed = FALSE /\ out = <<>>

(* A packet arrives at the input of the stage.  The demux ends a stream    *)
(* with an empty packet, which nothing follows but a flush.                *)
Arrives(p) ==
  /\ input.none /\ inputs < MaxInputs
  /\ "eos" \notin Range(out)
  /\ input' = p
  /\ inputs' = inputs + 1
  /\ UNCHANGED <<kind, isNew, bytes, kept, reference, owner, payloads, failed, out>>

(* The last reference of FFmpeg goes: ~AvBufferContext.                    *)
Unref(own, bs) ==
  [b \in Buffers |-> IF b \in bs /\ own[b] = "context" THEN "none" ELSE own[b]]

(* AllocateBufferForAvFrame, which FFmpeg calls for a frame it starts: a   *)
(* buffer with a context of its own.                                       *)
AllocateBufferForAvFrame(own, bs) ==
  [b \in Buffers |-> IF b \in bs THEN "context" ELSE own[b]]

(* CreateOutputPacket of audio.  A planar frame is interleaved into        *)
(* another buffer, and its own goes with the frame.                        *)
AudioOutputPacket(own, b) ==
  \E c \in IF kind = "planar" THEN {d \in Buffers : own[d] = "none"} ELSE {b} :
    /\ payloads' = payloads \cup {c}
    /\ owner' = Unref([own EXCEPT ![c] = "packet"], {b})

(* CreateOutputPacket of video.  The packet takes the buffer, whatever     *)
(* else FFmpeg still uses it for.                                          *)
VideoOutputPacket(own, b) ==
  /\ payloads' = payloads \cup {b}
  /\ owner' = [own EXCEPT ![b] = "packet"]

(* The stage is done with the packet (TransformPacket returns true).  The  *)
(* end of the stream takes the place of whatever was going to be put out.  *)
UnprepareInputPacket(o) ==
  /\ out' = IF input.eos THEN Append(out, "eos") ELSE o
  /\ bytes' = 0
  /\ input' = NoPacket
  /\ isNew' = TRUE

(* TransformPacket returns false: the stage shows the packet again.        *)
AgainInputPacket(o, left) ==
  /\ out' = o /\ bytes' = left
  /\ isNew' = FALSE
  /\ UNCHANGED input

(* TransformPacket without the case of the end of the stream.              *)
WantsMoreBytes(left, decoded) == left # 0

(* Whether the decoder asks to see the packet again.                       *)
WantsMore(left, decoded) == left # 0 \/ (input.eos /\ decoded)

(* Decode, as FFmpeg may answer it: it uses n bytes of size; start is the  *)
(* buffer of a frame it starts, if it does; get whether it returns a frame *)
(* of those that are ready; refs the buffers it goes on decoding from.     *)
Decode(size, n, start, get, refs) ==
  LET ready == kept \o SetToSeq(start)
  IN  /\ n <= size /\ (size > 0 => n > 0)
      /\ Cardinality(start) <= 1 /\ (start # {} => size > 0)
      /\ start \subseteq {b \in Buffers : owner[b] = "none"}
      /\ get => ready # <<>>
      /\ (size = 0 /\ ready # <<>>) => get
      /\ ~get => Len(ready) <= MaxDelay
      /\ refs \subseteq Range(ready) \cup reference
      /\ kind # "video" => refs = {}
      /\ kept' = IF get THEN Tail(ready) ELSE ready
      /\ reference' = refs

TransformPacket(n, start, get, refs) ==
  LET size == IF isNew THEN input.size ELSE bytes
      ready == kept \o SetToSeq(start)
      own == Unref(AllocateBufferForAvFrame(owner, start),
                   reference \ (refs \cup Range(ready)))
      o == IF get THEN Append(out, "frame") ELSE out
  IN  /\ ~input.none
      /\ Decode(size, n, start, get, refs)
      /\ CASE ~get -> owner' = own /\ UNCHANGED payloads
           [] get /\ kind = "video" -> VideoOutputPacket(own, Head(ready))
           [] get /\ kind # "video" -> AudioOutputPacket(own, Head(ready))
      /\ IF WantsMore(size - n, get)
         THEN AgainInputPacket(o, size - n)
         ELSE UnprepareInputPacket(o)
      /\ UNCHANGED <<kind, inputs, failed>>

(* FFmpeg fails to decode: the rest of the packet is dropped.              *)
TransformFails ==
  /\ ~input.none
  /\ failed' = TRUE
  /\ UnprepareInputPacket(out)
  /\ UNCHANGED <<kind, kept, reference, owner, payloads, inputs>>

(* The packet's payload is released downstream.                            *)
ReleasePacket(b) ==
  /\ b \in payloads
  /\ payloads' = payloads \ {b}
  /\ owner' = [owner EXCEPT ![b] = "none"]
  /\ UNCHANGED <<kind, input, isNew, bytes, kept, reference, inputs,
                 failed, out>>

(* TransformStage::FlushInput, then FlushOutput and Flush of the decoder.  *)
Flush ==
  /\ input' = NoPacket /\ isNew' = TRUE
  /\ kept' = <<>> /\ reference' = {}
  /\ owner' = Unref(owner, Range(kept) \cup reference)
  /\ failed' = FALSE /\ out' = <<>>
  /\ UNCHANGED <<kind, bytes, payloads, inputs>>

Next == \/ \E n \in 0 .. MaxBytes : Arrives(Packet(n, n = 0))
        \/ \E n \in 0 .. MaxBytes, start, refs \in SUBSET Buffers, get \in BOOLEAN :
             TransformPacket(n, start, get, refs)
        \/ TransformFails
        \/ \E b \in Buffers : ReleasePacket(b)
        \/ Flush

Spec == Init /\ [][Next]_vars

-----------------------------------------------------------------------------
(* The end of the stream is put out once and last, and unless FFmpeg       *)
(* failed every frame it had kept back came out before it                  *)
(* (ffmpeg_decoder_base.cc TransformPacket, UnprepareInputPacket).         *)
EndOfStreamIsLast ==
  "eos" \in Range(out) => /\ out = Append([i \in 1 .. Len(out) - 1 |-> "frame"], "eos")
                          /\ failed \/ kept = <<>>

(* No buffer leaks and none is released twice: the packets downstream own  *)
(* their payloads, and a buffer of an AvBufferContext is one that FFmpeg   *)
(* still refers to, so that it is released when FFmpeg lets go of it       *)
(* (ffmpeg_decoder_base.h AvBufferContext, CreateOutputPacket).            *)
BuffersAreOwned ==
  \A b \in Buffers :
    /\ owner[b] = "packet" <=> b \in payloads
    /\ owner[b] = "context" => b \in Range(kept) \cup reference

=============================================================================

------------------------------- MODULE Mixing -------------------------------
(***************************************************************************)
(* StandardOutputBase mixing one track into an output: the packets of the  *)
(* track's queue, the jobs of the output, the point and the linear sampler *)
(* and the filter state the linear one keeps between packets and jobs.     *)
(*                                                                         *)
(* Positions are in fractional track frames, FRAC_ONE to a frame.  Output  *)
(* frame i samples the track at i * step.  A track frame is a sample; what *)
(* the channels, the sample format and the gain make of it are the         *)
(* operators of SampleMath.  A flush does not fall into the mixing of a    *)
(* packet: the link's lock and its order are modelled in AudioServer.      *)
(***************************************************************************)
EXTENDS Integers, Sequences, SequencesExt

CONSTANTS
    FRAC_ONE,       \* Mixer::FRAC_ONE
    RatePairs,      \* frames per second of a source and of its output
    Steps,          \* step sizes, 0 when the track is paused
    Packets,        \* the lengths of a packet's regions, in frames, and the
                    \* jump of the pts before it
    JobFrames,      \* sizes of the output's jobs
    Jumps,          \* output frames lost between jobs (an underflow)
    Leads,          \* how far the next job is ahead of the local clock
    MaxPackets, MaxJobs, MaxFlushes

VARIABLES
    sampler, step,
    queue,          \* the packets pending in the link
    flushed,        \* the queue was flushed and the mixer has not been reset
    filter,         \* filter_data_: the last frame of the stream before this packet
    muted,          \* the gain is below the mute threshold
    job,            \* the job's first output frame, its size, and frames_produced
    buf,            \* the job's output, one sample per frame
    phase,          \* "idle", "mixing", "mixed"
    jobs, flushes,
    \* history
    stream,         \* the packets queued since the last flush
    early           \* how many of them were queued when the job started; -1
                    \* when the queue was flushed during the job

tracks == <<queue, flushed, stream>>
mixing == <<filter, job, buf, phase, jobs>>
vars == <<sampler, step, tracks, mixing, muted, flushes, early>>

Silence == -1       \* the output frame was not written
NoFrame == 0        \* the filter after Reset

\* The sample of the n-th frame of a stream.
Sample(n) == (n * n + 3) * FRAC_ONE

\* What is in the buffer behind the end of a region.
Garbage == 2 * FRAC_ONE

\* AudioPipe::OnPacketReceived makes a Region of each piece of the payload: its
\* base, here the number of its first frame, and frac_frame_len, which is the
\* running total of the frames of the packet so far and not the region's own
\* count.  own, the region's own count, is known to the client only.
Regions(first, lengths) ==
    LET Total(i) == FoldLeft(+, 0, SubSeq(lengths, 1, i))
    IN [i \in DOMAIN lengths |->
           [first |-> first + Total(i - 1), own |-> lengths[i], len |-> Total(i)]]

FrameCount(pkt) == Last(pkt.regions).len
EndPts(pkt) == pkt.start + FRAC_ONE * FrameCount(pkt)

\* Mixer::Select: the reduced ratio of the source's rate to the output's has
\* numerator 1 when the output's rate is a multiple of the source's.
SelectMixer(srcRate, dstRate) == IF dstRate % srcRate = 0 THEN "point" ELSE "linear"

Init ==
    /\ sampler \in {SelectMixer(r[1], r[2]) : r \in RatePairs} /\ step \in Steps
    /\ queue = <<>> /\ flushed = TRUE /\ stream = <<>> /\ early = 0
    /\ filter = NoFrame /\ muted \in BOOLEAN
    /\ job = [start |-> 0, frames |-> 0, produced |-> 0] /\ buf = <<>>
    /\ phase = "idle" /\ jobs = 0 /\ flushes = 0

-----------------------------------------------------------------------------
(* The samplers: one call of Mix for a region *)

Interpolate(a, b, alpha) == (a * (FRAC_ONE - alpha) + b * alpha) \div FRAC_ONE

CeilDiv(a, b) == (a + b - 1) \div b
Least(a, b) == IF a < b THEN a ELSE b

\* The state of a packet being mixed: where the next sample goes (relative to
\* buf + frames_produced), where it is taken from (relative to the region),
\* and whether Mix has said it is done with the region.
At(doff, soff, b, f, consumed) ==
    [doff |-> doff, soff |-> soff, buf |-> b, filter |-> f, consumed |-> consumed]

\* The k-th frame from the region's base on.
FrameOf(region, k) == IF k < region.own THEN Sample(region.first + k) ELSE Garbage

\* Writing n samples from s on, the k-th taken at position s.soff + k * step.
Written(s, n, SampleAt(_)) ==
    [i \in DOMAIN s.buf |->
        LET k == i - 1 - job.produced - s.doff
        IN IF k \in 0 .. n - 1 /\ ~muted THEN SampleAt(s.soff + k * step) ELSE s.buf[i]]

\* Mutant of LinearMix: keeps the last frame but one.
LinearMixOneOff(s, region) ==
    LET send == FRAC_ONE * (region.len - 1)
        room == job.frames - job.produced - s.doff
        n == Least(room, IF s.soff > send THEN 0 ELSE (send - s.soff) \div step + 1)
        SampleAt(p) == LET k == p \div FRAC_ONE IN
            IF p < 0 THEN Interpolate(FrameOf(region, 0), s.filter, -p)
            ELSE IF p = send THEN FrameOf(region, k)
            ELSE Interpolate(FrameOf(region, k), FrameOf(region, k + 1), p % FRAC_ONE)
        soff == s.soff + n * step
    IN At(s.doff + n, soff, Written(s, n, SampleAt),
          IF soff >= send THEN FrameOf(region, region.len - 2) ELSE s.filter,
          soff >= send /\ s.doff + n < job.frames - job.produced)

\* The loops before the region's first frame and inside it run while the
\* position is before the last frame; one more sample is taken when it hits
\* the last frame exactly.  Muted, the same number of frames is skipped.
LinearMix(s, region) ==
    LET send == FRAC_ONE * (region.len - 1)
        room == job.frames - job.produced - s.doff
        n == Least(room, IF s.soff > send THEN 0 ELSE (send - s.soff) \div step + 1)
        SampleAt(p) == LET k == p \div FRAC_ONE IN
            IF p < 0 THEN Interpolate(FrameOf(region, 0), s.filter, -p)
            ELSE IF p = send THEN FrameOf(region, k)
            ELSE Interpolate(FrameOf(region, k), FrameOf(region, k + 1), p % FRAC_ONE)
        soff == s.soff + n * step
    IN At(s.doff + n, soff, Written(s, n, SampleAt),
          IF soff >= send THEN FrameOf(region, region.len - 1) ELSE s.filter,
          soff >= send /\ s.doff + n < job.frames - job.produced)

PointMix(s, region) ==
    LET room == job.frames - job.produced - s.doff
        n == Least(room, CeilDiv(FRAC_ONE * region.len - s.soff, step))
        SampleAt(p) == FrameOf(region, p \div FRAC_ONE)
    IN At(s.doff + n, s.soff + n * step, Written(s, n, SampleAt), s.filter,
          s.soff + n * step >= FRAC_ONE * region.len)

Mix(s, region) == IF sampler = "linear" THEN LinearMix(s, region) ELSE PointMix(s, region)

pos_filter_width == IF sampler = "linear" THEN FRAC_ONE - 1 ELSE 0
neg_filter_width == FRAC_ONE - 1

\* One round of the loop over a packet's regions.
MixRegion(s, region) ==
    LET m == IF s.soff >= FRAC_ONE * region.len THEN s ELSE Mix(s, region)
    IN IF ~s.consumed THEN s
       ELSE IF ~m.consumed THEN m
       ELSE [m EXCEPT !.soff = @ - FRAC_ONE * region.len]

-----------------------------------------------------------------------------
(* ProcessMix *)

Hold == /\ phase' = "mixed"
        /\ UNCHANGED <<queue, filter, buf, job>>

Skip == /\ queue' = Tail(queue)
        /\ UNCHANGED <<filter, buf, job, phase>>

first_sample == (job.start + job.produced) * step
final_sample == first_sample + (job.frames - job.produced - 1) * step

\* The packet is entirely before the filter's window at the first sample.
InThePast(pkt) == EndPts(pkt) - FRAC_ONE < first_sample - neg_filter_width
InTheFuture(pkt) == pkt.start > final_sample + pos_filter_width

MixPacket(pkt) ==
    LET edge == first_sample + pos_filter_width
        offset == IF pkt.start > edge THEN CeilDiv(pkt.start - edge, step) ELSE 0
        s == FoldLeft(MixRegion, At(offset, first_sample - pkt.start + offset * step, buf,
                                    filter, TRUE), pkt.regions)
    IN /\ buf' = s.buf /\ filter' = s.filter
       /\ IF s.consumed
          THEN /\ queue' = Tail(queue)
               /\ job' = [job EXCEPT !.produced = @ + s.doff]
               /\ UNCHANGED phase
          ELSE phase' = "mixed" /\ UNCHANGED <<queue, job>>

\* One round of ForeachTrack's loop over the queue of the track.
ProcessMix ==
    /\ phase = "mixing" /\ ~flushed /\ queue # <<>>
    /\ LET pkt == Head(queue) IN
       IF step = 0 \/ job.produced >= job.frames THEN Hold
       ELSE IF FrameCount(pkt) = 0 \/ InThePast(pkt) THEN Skip
       ELSE IF InTheFuture(pkt) THEN Hold
       ELSE MixPacket(pkt)
    /\ UNCHANGED <<sampler, step, flushed, stream, muted, jobs, flushes, early>>

\* LockPendingQueueFront tells of a flush, and the mixer is reset.
ResetMixer ==
    /\ phase = "mixing" /\ flushed
    /\ filter' = NoFrame /\ flushed' = FALSE
    /\ UNCHANGED <<sampler, step, queue, stream, muted, job, buf, phase, jobs, flushes, early>>

QueueIsEmpty ==
    /\ phase = "mixing" /\ ~flushed /\ queue = <<>>
    /\ phase' = "mixed"
    /\ UNCHANGED <<sampler, step, tracks, muted, filter, job, buf, jobs, flushes, early>>

\* StartMixJob and the silence Process fills the buffer with.
StartMixJob(frames, jump) ==
    /\ phase = "idle" /\ jobs < MaxJobs
    /\ job' = [start |-> job.start + job.frames + jump, frames |-> frames, produced |-> 0]
    /\ buf' = [i \in 1 .. frames |-> Silence]
    /\ phase' = "mixing" /\ jobs' = jobs + 1 /\ early' = Len(stream)
    /\ UNCHANGED <<sampler, step, tracks, filter, muted, flushes>>

FinishMixJob ==
    /\ phase = "mixed"
    /\ phase' = "idle"
    /\ UNCHANGED <<sampler, step, tracks, filter, job, buf, jobs, muted, flushes, early>>

\* A pass that mixed nothing trims: packets whose end is not after the local
\* clock's position in the track are dropped, from the front of the queue.
Trim(lead) ==
    /\ phase = "idle"
    /\ \E n \in (IF flushed THEN 0 ELSE 1) .. Len(queue) :
          LET Late(i) == EndPts(queue[i]) <= (job.start + job.frames) * step - lead
          IN /\ n > 0 => Late(n)
             /\ n < Len(queue) => ~Late(n + 1)
             /\ queue' = SubSeq(queue, n + 1, Len(queue))
    /\ filter' = IF flushed THEN NoFrame ELSE filter
    /\ flushed' = FALSE
    /\ UNCHANGED <<sampler, step, stream, muted, job, buf, phase, jobs, flushes, early>>

\* The client sends packets and flushes, and sets the gain.
PushToPendingQueue(lengths, gap) ==
    LET last == Last(stream)
        first == IF stream = <<>> THEN 1 ELSE last.regions[1].first + FrameCount(last)
        pkt == [start |-> IF stream = <<>> THEN gap ELSE EndPts(last) + gap,
                regions |-> Regions(first, lengths)]
    IN /\ Len(stream) < MaxPackets
       /\ queue' = Append(queue, pkt) /\ stream' = Append(stream, pkt)
       /\ UNCHANGED <<sampler, step, flushed, mixing, muted, flushes, early>>

FlushPendingQueue ==
    /\ flushes < MaxFlushes /\ stream # <<>>
    /\ queue' = <<>> /\ stream' = <<>> /\ flushed' = TRUE /\ flushes' = flushes + 1
    /\ early' = -1
    /\ UNCHANGED <<sampler, step, mixing, muted>>

SetGain ==
    /\ phase = "idle" /\ jobs > 0
    /\ muted' = ~muted
    /\ UNCHANGED <<sampler, step, tracks, mixing, flushes, early>>

Next ==
    \/ ProcessMix \/ ResetMixer \/ QueueIsEmpty \/ FinishMixJob
    \/ \E frames \in JobFrames, jump \in Jumps : StartMixJob(frames, jump)
    \/ \E p \in Packets : PushToPendingQueue(p.lengths, p.gap)
    \/ \E lead \in Leads : Trim(lead)
    \/ FlushPendingQueue
    \/ SetGain

Spec == Init /\ [][Next]_vars

-----------------------------------------------------------------------------
(* Properties *)

\* The frames of the first n packets of the stream: <<pts, sample>>.
Frames(n) ==
    UNION {{<<stream[i].start + FRAC_ONE * k, Sample(stream[i].regions[1].first + k)>> :
                k \in 0 .. FrameCount(stream[i]) - 1} : i \in 1 .. n}

Before(p, n) == {f \in Frames(n) : f[1] > p - FRAC_ONE /\ f[1] <= p}
After(p, n) == {f \in Frames(n) : f[1] >= p /\ f[1] < p + FRAC_ONE}
OneOf(s) == CHOOSE f \in s : TRUE

\* What belongs at position p: the frame there, or for the linear sampler the
\* two around it interpolated; Silence when the stream has nothing for it.
Reference(p, n) ==
    LET b == OneOf(Before(p, n))
        a == OneOf(After(p, n))
    IN IF Before(p, n) = {} \/ (sampler = "linear" /\ After(p, n) = {}) THEN Silence
       ELSE IF sampler = "point" THEN b[2]
       ELSE Interpolate(b[2], a[2], p - b[1])

\* Position p comes before the first frame of a packet that follows a gap or
\* nothing, where the linear sampler blends in whatever it had before.
AtAnEdge(p) == Before(p, Len(stream)) = {} /\ After(p, Len(stream)) # {}

\* The positions behind the first region of a packet of several: the length
\* of its second region counts the first one's frames again, so the sampler
\* reads on behind the second region's end.
Misread(p) ==
    \E i \in DOMAIN stream :
        /\ Len(stream[i].regions) > 1
        /\ p > stream[i].start + FRAC_ONE * (stream[i].regions[1].len - 1)

Positions == {i \in 1 .. job.frames :
                LET p == (job.start + i - 1) * step
                IN step # 0 /\ ~AtAnEdge(p) /\ ~Misread(p)}

\* Every output frame is what the stream has for its position, however the
\* stream is cut into packets and jobs, whatever was skipped, muted or flushed
\* before: a frame queued before the job started is never missed, and one
\* queued during the job is mixed in the right place or not at all.  Of a
\* packet of several regions this is said of the first region only, and of
\* nothing behind it until the next flush: the running total that
\* AudioPipe::OnPacketReceived stores as a region's length (audio_pipe.cc:79,
\* 91-92) makes ProcessMix read the later regions past their ends.
EverySampleInPlace ==
    phase = "mixed" /\ ~muted /\ early >= 0 =>
        \A i \in Positions :
            LET p == (job.start + i - 1) * step
            IN /\ buf[i] \in {Silence, Reference(p, Len(stream))}
               /\ Reference(p, early) # Silence => buf[i] # Silence
=============================================================================

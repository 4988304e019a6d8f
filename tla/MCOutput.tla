------------------------------ MODULE MCOutput ------------------------------
(* From the client's buffer to the device, for TLC: the media pipe of a track, *)
(* its rate control, the mixing of its packets and the ALSA output share no    *)
(* state that changes, and are checked in one run.  "which" says the part a    *)
(* behaviour is about.  The pipe moves while it is "pipe"; v1, v2, ... stand   *)
(* for the variables of the other parts.                                       *)
EXTENDS MediaPipe

VARIABLES which, v1, v2, v3, v4, v5, v6, v7, v8, v9, v10, v11, v12, v13, v14, v15,
          v16, v17, v18

\* Two ticks of local time and three calls; rates with and without rounding, and
\* one with a zero denominator.
Rate == INSTANCE RateControl WITH
    Bits <- 4, Rates <- {<<0, 1>>, <<1, 2>>, <<2, 1>>, <<1, 0>>}, Offsets <- {3},
    Starts <- {1}, TrackRatio <- [numerator |-> 2, denominator |-> 1],
    OutputRatio <- [numerator |-> 1, denominator |-> 2],
    MaxTime <- 2, MaxChanges <- 3, MaxGeneration <- 9,
    now <- v1, current <- v2, refPending <- v3, tgtPending <- v4, generation <- v5,
    bound <- v6, resetting <- v7, calls <- v8, ltFrames <- v9, ltGen <- v10,
    outFrames <- v11, outGen <- v12, output <- v13, outputGen <- v14, ideal <- v15

\* A step of less than a frame and one of more, packets of three frames
\* in one region, after a gap or not, or in two, packets of none, and two jobs.
Mix == INSTANCE Mixing WITH
    FRAC_ONE <- 4, RatePairs <- {<<3, 2>>, <<1, 2>>}, Steps <- {0, 3, 6},
    Packets <- {[lengths |-> <<3>>, gap |-> 0], [lengths |-> <<3>>, gap |-> 5],
                [lengths |-> <<2, 1>>, gap |-> 0], [lengths |-> <<0>>, gap |-> 0]},
    JobFrames <- {3}, Jumps <- {0, 1},
    Leads <- {0}, MaxPackets <- 3, MaxJobs <- 2, MaxFlushes <- 1,
    sampler <- v1, step <- v2, queue <- v3, flushed <- v4, filter <- v5, muted <- v6,
    job <- v7, buf <- v8, phase <- v9, jobs <- v10, flushes <- v11, stream <- v12, early <- v13

\* A buffer of five frames, one of which is played in a tick.
Alsa == INSTANCE AlsaOutput WITH
    Capacity <- 5, LowBufThresh <- 3, TargetLatency <- 4, TrimPeriod <- 2, ShortDelay <- 1,
    RecoveryTime <- 3, MaxTime <- 11, MaxErrors <- 1,
    now <- v1, device <- v2, filled <- v3, primed <- v4, known <- v5, zero <- v6, sent <- v7,
    generation <- v8, sched <- v9, schedKnown <- v10, phase <- v11, began <- v12, job <- v13,
    callback <- v14, down <- v15, errors <- v16, prompt <- v17, underflows <- v18

\* The pipe of the configuration is one that the theorem about it covers.
ASSUME SizesAssumption == Disciplined

From14 == <<v14, v15, v16, v17, v18>>
From16 == <<v16, v17, v18>>
Unused14 == v14 = 0 /\ v15 = 0
Unused16 == v16 = 0 /\ v17 = 0 /\ v18 = 0
part == <<v1, v2, v3, v4, v5, v6, v7, v8, v9, v10, v11, v12, v13, From14>>
all == <<vars, part, which>>

MCInit ==
    /\ Init
    /\ \/ /\ which = "pipe" /\ Unused14 /\ Unused16
          /\ v1 = 0 /\ v2 = 0 /\ v3 = 0 /\ v4 = 0 /\ v5 = 0 /\ v6 = 0 /\ v7 = 0
          /\ v8 = 0 /\ v9 = 0 /\ v10 = 0 /\ v11 = 0 /\ v12 = 0 /\ v13 = 0
       \/ which = "rate" /\ Rate!Init /\ Unused16
       \/ which = "mix" /\ Mix!Init /\ Unused14 /\ Unused16
       \/ which = "alsa" /\ Alsa!Init

MCNext ==
    \/ which = "pipe" /\ Next /\ UNCHANGED <<part, which>>
    \/ which = "rate" /\ Rate!Next /\ UNCHANGED <<vars, which, From16>>
    \/ which = "mix" /\ Mix!Next /\ UNCHANGED <<vars, which, From14>>
    \/ which = "alsa" /\ Alsa!Next /\ UNCHANGED <<vars, which>>

MCSpec == MCInit /\ [][MCNext]_all

\* RateControlBase: media time runs as the calls on the target timeline say, and the
\* mixer works with the transforms that the rate control has.
MediaTimeIsKept == which = "rate" => Rate!MediaTimeIsKept /\ Rate!MixesCurrentTransform

\* StandardOutputBase and the samplers: every output frame is what the stream has for it.
EverySampleInPlace == which = "mix" => Mix!EverySampleInPlace

\* AlsaOutput: the output knows when its device will run dry, and one whose callbacks
\* are prompt never does.
DeviceIsFed == which = "alsa" => Alsa!PlayoutTimeIsRight /\ Alsa!NeverRunsDry
=============================================================================

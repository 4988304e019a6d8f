---------------------------- MODULE RateControl ----------------------------
(***************************************************************************)
(* RateControlBase and the mixer's view of it.  A client tells a track how *)
(* media time (the reference timeline) runs against local time (the target *)
(* timeline), at once or at a scheduled point of either timeline; changes  *)
(* are collected and collapsed into the current transform when someone     *)
(* looks.  The mixer of an output keeps a derived transform per track and  *)
(* recomputes it when the generation number has moved.                     *)
(*                                                                         *)
(* transform_lock_ makes every method but Reset one step; Reset takes the  *)
(* lock twice.  The client schedules changes at points of target time that *)
(* are not over yet.                                                       *)
(***************************************************************************)
EXTENDS Timelines, Sequences

CONSTANTS
    Rates,          \* the <<reference_delta, target_delta>> the client asks for
    Offsets,        \* the points of media time the client names
    Starts,         \* the points of local time at which it starts the clock
    TrackRatio,     \* FractionalFrameToMediaTimeRatio of the track
    OutputRatio,    \* the output's frames per tick of local time
    MaxTime,        \* bound on local time
    MaxChanges,     \* bound on the client's calls, below the generations there are
    MaxGeneration   \* the largest value of the generation counter

VARIABLES
    now,            \* LocalClock::now()
    current,        \* current_transform_
    refPending,     \* reference_pending_changes_
    tgtPending,     \* target_pending_changes_
    generation,     \* generation_
    bound,          \* binding_.is_bound()
    resetting,      \* Reset has cancelled the changes and has yet to stop the clock:
                    \* "close", or "bind" when Bind resets; else "no"
    calls,          \* the client's calls so far
    \* the mixer's bookkeeping for the track
    ltFrames, ltGen,    \* lt_to_track_frames and its generation
    outFrames, outGen,  \* out_frames_to_track_frames and its generation
    output, outputGen,  \* local_to_output_ of the output, and its generation
    \* the clock as it should run, see Ideal
    ideal

control == <<current, refPending, tgtPending, generation, bound>>
bookkeeping == <<ltFrames, ltGen, outFrames, outGen>>
outputs == <<output, outputGen>>
vars == <<now, control, resetting, calls, bookkeeping, outputs, ideal>>

Paused == Transform(0, Ratio(0, 1), 0)
Identity == Transform(0, Ratio(1, 1), 0)
LocalToOutput(t) == Transform(t, OutputRatio, 0)

\* Half units of media time, the rate in half units per tick, the changes to
\* come, and what the rounding of each splice may have cost.  ok turns FALSE
\* when the code leaves this clock on purpose: see Cancelled and Respliced.
Ideal(at, rate, todo, slack, ok) ==
    [at |-> at, rate |-> rate, todo |-> todo, slack |-> slack, ok |-> ok]

Init ==
    /\ now = 0 /\ current = Paused /\ refPending = <<>> /\ tgtPending = <<>>
    /\ generation = 1 /\ bound = FALSE /\ resetting = "no" /\ calls = 0
    /\ ltFrames = Identity /\ ltGen = 0 /\ outFrames = Identity /\ outGen = 0
    /\ output = LocalToOutput(0) /\ outputGen = 1
    /\ ideal = Ideal(0, 0, <<>>, 0, TRUE)

-----------------------------------------------------------------------------
(* Applying the changes that are due *)

\* The generation counter never takes the value 0.
Advance(g) == IF g = MaxGeneration THEN 1 ELSE g + 1

\* The transform runs at another scale from local time t on, when media time is at,
\* or stays as it is when that overflows.
SplicedAt(t, at, cur, scale) == IF at.ok THEN Transform(t, scale, at.out) ELSE cur

\* Mutant of SplicedTarget: splices where the clock stands instead of where
\* the change was due.
SplicedTargetLate(cur, change) == SplicedAt(now, DoForwardTransform(cur, now), cur, change.scale)

SplicedTarget(cur, change) ==
    SplicedAt(change.a_zero, DoForwardTransform(cur, change.a_zero), cur, change.scale)

\* Media time restarts from the a_zero of the scheduled change.
SplicedReference(cur, change) ==
    Transform(DoReverseTransform(cur, change.b_zero).out, change.scale, change.a_zero)

\* The loop of ApplyPendingChangesLocked: the elder of the due changes first,
\* a target change first on a tie.
Applied[s \in [cur : [a_zero : S64, scale : [numerator : U32, denominator : U32], b_zero : S64],
               ref : Seq([a_zero : S64, scale : [numerator : U32, denominator : U32], b_zero : S64]),
               tgt : Seq([a_zero : S64, scale : [numerator : U32, denominator : U32], b_zero : S64]),
               gen : 0 .. MaxGeneration]] ==
    LET at == IF s.ref # <<>> THEN DoReverseTransform(s.cur, Head(s.ref).b_zero) ELSE Failed
        targetDue == s.tgt # <<>> /\ now >= Head(s.tgt).a_zero
        referenceDue == at.ok /\ now >= at.out
    IN CASE targetDue /\ (~referenceDue \/ at.out >= Head(s.tgt).a_zero) ->
              Applied[[s EXCEPT !.cur = SplicedTarget(@, Head(s.tgt)), !.tgt = Tail(@),
                                !.gen = Advance(generation)]]
         [] referenceDue /\ ~(targetDue /\ at.out >= Head(s.tgt).a_zero) ->
              Applied[[s EXCEPT !.cur = SplicedReference(@, Head(s.ref)), !.ref = Tail(@),
                                !.gen = Advance(generation)]]
         [] ~targetDue /\ ~referenceDue -> s

ApplyPendingChangesLocked ==
    Applied[[cur |-> current, ref |-> refPending, tgt |-> tgtPending, gen |-> generation]]

-----------------------------------------------------------------------------
(* The clock as it should run: every change takes effect when it is due *)

RateOf(r) == (2 * r.numerator) \div r.denominator

\* A step of the clock to local time t.
IdealAt(t) ==
    LET at == ideal.at + ideal.rate
        due == ideal.todo # <<>> /\ Head(ideal.todo).a_zero <= t
    IN IF due THEN Ideal(at, RateOf(Head(ideal.todo).scale), Tail(ideal.todo),
                         ideal.slack + 1, ideal.ok)
       ELSE [ideal EXCEPT !.at = at]

\* CancelPendingChanges drops changes that were due and not collapsed yet.
Cancelled ==
    [ideal EXCEPT !.todo = <<>>,
                  !.ok = @ /\ (tgtPending = <<>> \/ Head(tgtPending).a_zero > now)]

\* A change at a point of media time moves the media time itself.
Respliced(ref) == [ideal EXCEPT !.ok = @ /\ ref = refPending]

-----------------------------------------------------------------------------
(* The client's calls *)

Calls ==
    /\ bound /\ resetting = "no" /\ calls < MaxChanges
    /\ calls' = calls + 1

Collapsed(s) ==
    /\ current' = s.cur /\ refPending' = s.ref /\ tgtPending' = s.tgt
    /\ generation' = s.gen
    /\ ideal' = Respliced(s.ref)

SnapshotCurrentTransform == Collapsed(ApplyPendingChangesLocked)

GetCurrentTransform ==
    /\ Calls
    /\ SnapshotCurrentTransform
    /\ UNCHANGED <<now, bound, resetting, bookkeeping, outputs>>

SetCurrentQuad(target, reference, rate) ==
    /\ Calls /\ rate[2] # 0
    /\ refPending' = <<>> /\ tgtPending' = <<>>
    /\ current' = Transform(target, IF rate[1] # 0 THEN ReducedRatio(rate[1], rate[2])
                                    ELSE Ratio(0, 1), reference)
    /\ generation' = Advance(generation)
    /\ ideal' = Ideal(RateOf(current'.scale) * (now - target) + 2 * reference,
                      RateOf(current'.scale), <<>>, 1, TRUE)
    /\ UNCHANGED <<now, bound, resetting, bookkeeping, outputs>>

\* SetRate, on the transform with every due change applied.  When the current
\* media time overflows the rate stays.  The ratio is stored unreduced.
RateSetAt(s, at, ratio) ==
    /\ refPending' = s.ref /\ tgtPending' = s.tgt
    /\ current' = SplicedAt(now, at, s.cur, ratio)
    /\ generation' = IF at.ok THEN Advance(s.gen) ELSE s.gen
    /\ ideal' = IF at.ok
                THEN [Respliced(s.ref) EXCEPT !.rate = RateOf(ratio), !.slack = @ + 1]
                ELSE Respliced(s.ref)

RateSet(rate) ==
    LET s == ApplyPendingChangesLocked
    IN RateSetAt(s, DoForwardTransform(s.cur, now), Ratio(rate[1], rate[2]))

SetRate(rate) ==
    /\ Calls /\ rate[2] # 0
    /\ RateSet(rate)
    /\ UNCHANGED <<now, bound, resetting, bookkeeping, outputs>>

SetRateAtReferenceTime(rate, reference) ==
    /\ Calls /\ rate[2] # 0
    /\ refPending' = IF refPending # <<>> /\ refPending[Len(refPending)].b_zero >= reference
                     THEN refPending
                     ELSE Append(refPending,
                                 Transform(0, ReducedRatio(rate[1], rate[2]), reference))
    /\ UNCHANGED <<now, current, tgtPending, generation, bound, resetting, bookkeeping,
                   outputs, ideal>>

SetRateAtTargetTime(rate, target) ==
    LET change == Transform(target, ReducedRatio(rate[1], rate[2]), 0)
        early == tgtPending # <<>> /\ tgtPending[Len(tgtPending)].a_zero >= target
    IN /\ Calls /\ rate[2] # 0 /\ target > now
       /\ tgtPending' = IF early THEN tgtPending ELSE Append(tgtPending, change)
       /\ ideal' = IF early THEN ideal ELSE [ideal EXCEPT !.todo = Append(@, change)]
       /\ UNCHANGED <<now, current, refPending, generation, bound, resetting, bookkeeping,
                      outputs>>

CancelPendingChanges ==
    /\ Calls
    /\ refPending' = <<>> /\ tgtPending' = <<>>
    /\ ideal' = Cancelled
    /\ UNCHANGED <<now, current, generation, bound, resetting, bookkeeping, outputs>>

\* Reset cancels the changes, then sets the rate to 0/1 and closes the
\* binding: on a zero target_delta, an unknown timeline, a lost connection, a
\* new Bind.
ResetBegins(for) ==
    /\ refPending' = <<>> /\ tgtPending' = <<>>
    /\ ideal' = Cancelled
    /\ resetting' = for
    /\ UNCHANGED <<now, current, generation, bound, bookkeeping, outputs>>

OnIllegalRateChange ==
    /\ Calls
    /\ \E rate \in Rates : rate[2] = 0
    /\ ResetBegins("close")

SetTargetTimelineID ==
    /\ Calls
    /\ ResetBegins("close")

ConnectionError ==
    /\ bound /\ resetting = "no"
    /\ ResetBegins("close") /\ UNCHANGED calls

Bind ==
    /\ resetting = "no" /\ calls < MaxChanges
    /\ calls' = calls + 1
    /\ ResetBegins("bind")

\* The rest of Reset: SetRate(0, 1), and the binding is closed - or bound, when
\* it was Bind that reset.
Reset ==
    /\ resetting # "no"
    /\ RateSet(<<0, 1>>)
    /\ resetting' = "no" /\ bound' = (resetting = "bind")
    /\ UNCHANGED <<now, calls, bookkeeping, outputs>>

-----------------------------------------------------------------------------
(* The mixer *)

\* What UpdateTrackTrans computes from the track's transform.
TrackFrames(t) ==
    LET scale == Transform(0, TrackRatio, 0)
    IN Transform(t.a_zero, Compose(TrackRatio, t.scale).out,
                 DoForwardTransform(scale, t.b_zero).out)

\* A new track transform invalidates the transform derived from it.
OutputGenAfter == IF ltGen = generation' THEN outGen ELSE 0

UpdateTrackTrans ==
    /\ SnapshotCurrentTransform
    /\ ltFrames' = IF ltGen = generation' THEN ltFrames ELSE TrackFrames(current')
    /\ ltGen' = generation'
    /\ outGen' = OutputGenAfter
    /\ UNCHANGED <<now, bound, resetting, calls, outFrames, outputs>>

\* What UpdateOutputTrans composes: the output's frames to local time to the
\* track's frames.
OutputFrames(lt) ==
    LET offset == DoForwardTransform(Transform(0, lt.scale, 0), output.a_zero - lt.a_zero)
        inverse == ReducedRatio(OutputRatio.denominator, OutputRatio.numerator)
    IN Transform(output.b_zero, Compose(inverse, lt.scale).out, lt.b_zero + offset.out)

UpdateOutputTrans ==
    /\ ltGen # 0
    /\ outFrames' = IF outGen = outputGen THEN outFrames ELSE OutputFrames(ltFrames)
    /\ outGen' = outputGen
    /\ UNCHANGED <<now, control, resetting, calls, ltFrames, ltGen, outputs, ideal>>

\* The output has underflowed and found its place in time again (StartMixJob
\* of AlsaOutput); once is enough.
OutputRestarts ==
    /\ outputGen = 1
    /\ output' = LocalToOutput(now) /\ outputGen' = 2
    /\ UNCHANGED <<now, control, resetting, calls, bookkeeping, ideal>>

Tick ==
    /\ now < MaxTime
    /\ now' = now + 1
    /\ ideal' = IdealAt(now + 1)
    /\ UNCHANGED <<control, resetting, calls, bookkeeping, outputs>>

Next ==
    \/ GetCurrentTransform
    \/ \E r \in Rates, t \in Starts, m \in Offsets : SetCurrentQuad(t, m, r)
    \/ \E r \in Rates : SetRate(r)
    \/ \E r \in Rates, m \in Offsets : SetRateAtReferenceTime(r, m)
    \/ \E r \in Rates, t \in 0 .. MaxTime : SetRateAtTargetTime(r, t)
    \/ CancelPendingChanges
    \/ OnIllegalRateChange
    \/ SetTargetTimelineID
    \/ ConnectionError
    \/ Bind
    \/ Reset
    \/ UpdateTrackTrans
    \/ UpdateOutputTrans
    \/ OutputRestarts
    \/ Tick

Spec == Init /\ [][Next]_vars

-----------------------------------------------------------------------------
(* Properties *)

\* Media time runs as the calls say it should, wherever the changes happen to
\* be collapsed: for a client that schedules on the target timeline only, the
\* current transform gives, at every moment, the media time of a clock that
\* makes every change on time, less the rounding of the splices.
MediaTimeIsKept ==
    LET s == ApplyPendingChangesLocked
    IN ideal.ok /\ s.ref = refPending =>
           ideal.at - 2 * DoForwardTransform(s.cur, now).out \in 0 .. (2 * ideal.slack + 1)

\* The mixer never works with a transform the rate control no longer has: a
\* bookkeeping that calls itself up to date equals the one computed afresh.
MixesCurrentTransform ==
    /\ ltGen = generation => ltFrames = TrackFrames(current)
    /\ (ltGen = generation /\ outGen = outputGen) => outFrames = OutputFrames(ltFrames)
=============================================================================

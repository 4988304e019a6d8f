----------------------------- MODULE AlsaOutput -----------------------------
(***************************************************************************)
(* AlsaOutput on top of StandardOutputBase::Process: the periodic callback *)
(* that keeps a sound device's buffer between the low threshold and the    *)
(* target latency, finds out where the device is in time, and deals with   *)
(* underflows and errors.                                                  *)
(*                                                                         *)
(* The device (libasound, tinyalsa) is external: a ring of Capacity frames *)
(* that plays one frame per tick of local time and underflows when a tick  *)
(* finds it empty.  Time may pass anywhere in a callback; asking for the   *)
(* delay and for the time is one step.                                     *)
(***************************************************************************)
EXTENDS Integers

CONSTANTS
    Capacity,       \* mix_buf_frames_, the device's buffer
    LowBufThresh,   \* kLowBufThresh in ticks
    TargetLatency,  \* kTargetLatency in ticks
    TrimPeriod,     \* MAX_TRIM_PERIOD in ticks
    ShortDelay,     \* the 1 ms and kWaitForAlsaDelay waits, rounded up to ticks
    RecoveryTime,   \* kErrorRecoveryTime
    MaxTime, MaxErrors

VARIABLES
    now,
    device, filled,     \* "closed", "ready", "starting", "playing" or "xrun", and its frames
    primed,             \* primed_
    known, zero,        \* local_to_output_known_, local_to_output_: its a_zero and b_zero
    sent,               \* frames_sent_
    generation,         \* local_to_output_gen_
    sched, schedKnown,  \* next_sched_time_, next_sched_time_known_
    phase,              \* where Process is: "idle", "start", "finish", "end"
    began,              \* the time Process started at
    job,                \* the frames of the mix job
    callback,           \* when the posted ProcessThunk is due, or was while it runs
    down,               \* shutting_down_
    errors,             \* the device's errors so far
    prompt,             \* whether callbacks are late by less than LowBufThresh
    \* history
    underflows

hw == <<device, filled, errors>>
output == <<primed, known, zero, sent, generation>>
process == <<phase, began, job>>
schedule == <<sched, schedKnown, callback, down>>
vars == <<now, hw, output, process, schedule, prompt, underflows>>

Never == -1

\* Init has opened the device, or failed and begun to shut down.
Init ==
    /\ now = 0 /\ filled = 0 /\ errors = 0
    /\ primed = FALSE /\ known = FALSE /\ zero = <<0, 0>> /\ sent = 0 /\ generation = 1
    /\ sched = 0 /\ schedKnown = TRUE
    /\ phase = "idle" /\ began = 0 /\ job = 0
    /\ \/ device = "ready" /\ callback = 0 /\ down = FALSE
       \/ device = "closed" /\ callback = Never /\ down = TRUE
    /\ prompt \in BOOLEAN
    /\ underflows = 0

-----------------------------------------------------------------------------
(* The device *)

\* What a call to the device answers: an underflow, or an error of its own.
Answers ==
    (IF device = "xrun" THEN {"EPIPE"} ELSE {"OK"})
    \cup (IF errors < MaxErrors THEN {"EINTR", "EIO"} ELSE {})

Avail == Capacity - filled

\* Recovering from an underflow leaves the device empty; EINTR may stay.
Recoveries(code) == IF code \in {"EPIPE", "EINTR"} THEN {TRUE, FALSE} ELSE {FALSE}

-----------------------------------------------------------------------------
(* Errors *)

ShutdownSelf == down' = TRUE /\ callback' = Never

\* HandleAsError: a recovered error schedules a retry, and the output shuts
\* down all the same.
HandleAsError(code, ok) ==
    /\ errors' = errors + 1
    /\ device' = IF ok /\ device = "xrun" THEN "ready" ELSE device
    /\ UNCHANGED filled
    /\ IF ok \/ code = "EINTR"
       THEN primed' = FALSE /\ known' = FALSE /\ sched' = now + RecoveryTime /\ schedKnown' = TRUE
       ELSE UNCHANGED <<primed, known, sched, schedKnown>>
    /\ ShutdownSelf
    /\ UNCHANGED <<zero, sent, generation, underflows>>

\* A buffer of silence is written and its place in time is looked up later.
Reprime ==
    /\ device' = "starting" /\ filled' = Capacity
    /\ primed' = TRUE /\ known' = FALSE
    /\ sched' = now + ShortDelay /\ schedKnown' = TRUE
    /\ UNCHANGED <<zero, sent, generation, errors, callback, down>>

HandleAsUnderflow ==
    \/ /\ device = "ready" \/ primed
       /\ Reprime
       /\ underflows' = IF primed THEN underflows + 1 ELSE underflows
    \/ \E code \in Answers \ {"OK"} : \E ok \in Recoveries(code) : HandleAsError(code, ok)

HandleAlsaError(code, ok) ==
    IF code = "EPIPE" THEN HandleAsUnderflow ELSE HandleAsError(code, ok)

-----------------------------------------------------------------------------
(* StartMixJob *)

PlayoutTime(z, frames) == z[1] + frames - z[2]     \* one frame per tick

\* StartMixJob has nothing to mix, and Process goes on after its loop.
NoJob == phase' = "end" /\ UNCHANGED <<now, began, job, prompt>>

NotPrimed ==
    /\ phase = "start" /\ ~down /\ ~primed
    /\ HandleAsUnderflow
    /\ NoJob

\* The device has data but has not started yet (EAGAIN).
NotStarted ==
    /\ phase = "start" /\ primed /\ ~known /\ device = "starting"
    /\ sched' = now + ShortDelay /\ schedKnown' = TRUE
    /\ NoJob
    /\ UNCHANGED <<hw, output, callback, down, underflows>>

AvailFailed ==
    /\ phase = "start" /\ primed
    /\ \E code \in Answers \ {"OK"} : \E ok \in Recoveries(code) : HandleAlsaError(code, ok)
    /\ NoJob

FillAmount(playout) ==
    IF now + TargetLatency > playout THEN now + TargetLatency - playout ELSE TargetLatency

Smallest(a, b) == IF a < b THEN a ELSE b

\* Mutant of PlanJob: sleeps until the device is about to run dry.
PlanJobLate(z, s) ==
    LET playout == PlayoutTime(z, s) IN
    IF began < playout - 1
    THEN /\ sched' = playout - 1 /\ schedKnown' = TRUE
         /\ NoJob
    ELSE /\ job' = Smallest(Smallest(Avail, FillAmount(playout)), Capacity)
         /\ phase' = "finish"
         /\ UNCHANGED <<now, began, prompt, sched, schedKnown>>

\* The rest of StartMixJob, the transform being z and frames_sent_ s.
PlanJob(z, s) ==
    LET playout == PlayoutTime(z, s) IN
    IF began < playout - LowBufThresh
    THEN /\ sched' = playout - LowBufThresh /\ schedKnown' = TRUE
         /\ NoJob
    ELSE IF Avail = 0
    THEN /\ sched' = now + ShortDelay /\ schedKnown' = TRUE
         /\ NoJob
    ELSE /\ job' = Smallest(Smallest(Avail, FillAmount(playout)), Capacity)
         /\ phase' = "finish"
         /\ UNCHANGED <<now, began, prompt, sched, schedKnown>>

\* The device's delay says which frame is playing now.
Locate ==
    /\ phase = "start" /\ primed /\ ~known /\ device = "playing"
    /\ zero' = <<now, -filled>> /\ known' = TRUE /\ generation' = generation + 1
    /\ sent' = 0
    /\ PlanJob(zero', 0)
    /\ UNCHANGED <<hw, primed, callback, down, underflows>>

StartMixJob ==
    /\ phase = "start" /\ primed /\ known /\ device = "playing"
    /\ PlanJob(zero, sent)
    /\ UNCHANGED <<hw, output, callback, down, underflows>>

-----------------------------------------------------------------------------
(* The mix job and the end of Process *)

\* All that was mixed is written, and StartMixJob is asked again.
FinishMixJob ==
    /\ phase = "finish" /\ device = "playing"
    /\ filled' = filled + job /\ sent' = sent + job
    /\ phase' = "start"
    /\ UNCHANGED <<now, device, errors, primed, known, zero, generation, began, job,
                   schedule, prompt, underflows>>

WriteFailed ==
    /\ phase = "finish"
    /\ \E code \in Answers \ {"OK"} : \E ok \in Recoveries(code) : HandleAlsaError(code, ok)
    /\ NoJob

\* Nothing is scheduled any more once the output shuts down.
ScheduleCallback(when) == callback' = (IF down THEN Never ELSE when) /\ UNCHANGED down

\* Process, its time not come yet or its loop over: it shuts down without a
\* next time, else posts the next callback, at the latest after TrimPeriod.
ProcessEnds ==
    /\ phase = "end"
    /\ phase' = "idle"
    /\ IF ~schedKnown THEN ShutdownSelf
       ELSE ScheduleCallback(IF sched > began + TrimPeriod THEN began + TrimPeriod ELSE sched)
    /\ UNCHANGED <<now, hw, output, began, job, sched, schedKnown, prompt, underflows>>

ProcessThunk ==
    /\ phase = "idle" /\ callback # Never /\ callback <= now /\ ~down
    /\ began' = now
    /\ IF now >= sched THEN phase' = "start" /\ schedKnown' = FALSE
       ELSE phase' = "end" /\ UNCHANGED schedKnown
    /\ UNCHANGED <<now, hw, output, job, sched, callback, down, prompt, underflows>>

\* The main loop shuts the output down; Cleanup closes the device once no
\* callback is processing.
Shutdown ==
    /\ phase = "idle" /\ device # "closed"
    /\ ShutdownSelf
    /\ device' = "closed" /\ filled' = 0
    /\ UNCHANGED <<now, errors, output, process, sched, schedKnown, prompt, underflows>>

-----------------------------------------------------------------------------
(* Time *)

\* How long the callback has been due without having run to its end.
Overdue == IF callback # Never /\ now > callback THEN now - callback ELSE 0

Tick ==
    /\ now < MaxTime
    /\ prompt => Overdue + 1 < LowBufThresh
    /\ now' = now + 1
    /\ IF device = "playing"
       THEN IF filled = 0 THEN device' = "xrun" /\ UNCHANGED filled
            ELSE filled' = filled - 1 /\ UNCHANGED device
       ELSE UNCHANGED <<device, filled>>
    /\ UNCHANGED <<errors, output, process, schedule, prompt, underflows>>

DeviceStarts ==
    /\ device = "starting" /\ device' = "playing"
    /\ UNCHANGED <<now, filled, errors, output, process, schedule, prompt, underflows>>

Next ==
    \/ DeviceStarts
    \/ ProcessThunk \/ NotPrimed \/ NotStarted \/ AvailFailed \/ Locate \/ StartMixJob
    \/ FinishMixJob \/ WriteFailed \/ ProcessEnds \/ Shutdown \/ Tick

Spec == Init /\ [][Next]_vars

-----------------------------------------------------------------------------
(* Properties *)

\* The output knows when its device will run dry: what frames_sent_ and
\* local_to_output_ say of the playout time is what the device still holds.
PlayoutTimeIsRight ==
    known /\ device = "playing" => PlayoutTime(zero, sent) = now + filled

\* The low threshold is margin enough: as long as callbacks start and end less
\* than LowBufThresh late and the device gives no error, it never runs dry.
NeverRunsDry ==
    prompt /\ errors = 0 /\ ~down => device # "xrun" /\ underflows = 0
=============================================================================

---------------------------- MODULE MessagePump ----------------------------
(***************************************************************************)
(* MessagePumpMojo: the run loop of a thread that waits for Mojo handles,   *)
(* for its control pipe and for its deadlines, and runs posted tasks.       *)
(*                                                                         *)
(* A pump is a record and its methods are operators on it; HandleWatcher   *)
(* composes the pumps of several threads.  The pump's own thread is the    *)
(* only one that changes it, except that any thread may write to the       *)
(* control pipe.  at is the place in DoRunLoop: the wait of DoInternalWork *)
(* ("wait"), its pass over a copy of the handlers ("expire"), or DoWork    *)
(* ("work"); busy says that a handler or a task runs there, which may call *)
(* the pump.  Nested calls of Run are left out, as are the observers.      *)
(***************************************************************************)
EXTENDS Integers, FiniteSets, FiniteSetsExt

CONSTANTS NoHandle

\* A null TimeTicks: no deadline, no delayed work.
Null == 0

NewPump ==
    [handlers |-> <<>>, nextId |-> 0, control |-> 0, delayed |-> Null,
     shouldQuit |-> FALSE, running |-> TRUE, at |-> "wait", plausible |-> TRUE,
     busy |-> FALSE, cloned |-> {}, expiring |-> NoHandle]

Watched(p) == DOMAIN p.handlers

AddHandler(p, h, deadline) ==
    [p EXCEPT !.handlers = [g \in Watched(p) \cup {h} |->
                               IF g = h THEN [deadline |-> deadline, id |-> p.nextId]
                               ELSE p.handlers[g]],
              !.nextId = @ + 1]

RemoveHandlers(p, hs) ==
    [p EXCEPT !.handlers = [g \in Watched(p) \ hs |-> p.handlers[g]]]

RemoveHandler(p, h) == RemoveHandlers(p, {h})

\* WaitMany has reported that the wait for h cannot succeed.
RemoveInvalidHandle(p, h) == RemoveHandler(p, h)

Quit(p) == [p EXCEPT !.shouldQuit = @ \/ p.running]

SignalControlPipe(p) == [p EXCEPT !.control = @ + 1]

\* Mutant of ScheduleWork: the control pipe is not written to.
ScheduleWorkSilently(p) == p

ScheduleWork(p) == IF p.running THEN SignalControlPipe(p) ELSE p

ScheduleDelayedWork(p, time) == [p EXCEPT !.delayed = IF p.running THEN time ELSE @]

-----------------------------------------------------------------------------
(* DoRunLoop, from place to place *)

Proceed(p, place) ==
    IF p.shouldQuit THEN [p EXCEPT !.at = "done", !.running = FALSE]
    ELSE [p EXCEPT !.at = place]

\* The pass over the copy of the handlers, which ends DoInternalWork.
Expiring(p) == IF p.cloned # {} THEN [p EXCEPT !.at = "expire"] ELSE Proceed(p, "work")

\* DoWork has returned.  DoDelayedWork comes next, then DoIdleWork, which has nothing
\* to do.
DoneWorking(p, any, now) ==
    LET due == p.delayed # Null /\ p.delayed <= now
        q == [p EXCEPT !.plausible = @ \/ any]
    IN IF p.shouldQuit THEN Proceed(q, "wait")
       ELSE Proceed([q EXCEPT !.delayed = IF due THEN Null ELSE @,
                              !.plausible = @ \/ due], "wait")

-----------------------------------------------------------------------------
(* DoInternalWork *)

\* GetDeadlineForWait: the wait is over when one of these is reached.
Deadlines(p) == ({p.delayed} \cup {p.handlers[h].deadline : h \in Watched(p)}) \ {Null}

MayTimeOut(p, now) == p.plausible \/ \E d \in Deadlines(p) : d <= now

Expired(p, now) ==
    {h \in Watched(p) : p.handlers[h].deadline # Null /\ p.handlers[h].deadline < now}

\* The handlers are copied and the clock is read once for all of them.
DidWork(p, did, now) ==
    LET cloned == {[handle |-> h, id |-> p.handlers[h].id] : h \in Expired(p, now)}
    IN Expiring([p EXCEPT !.plausible = did, !.cloned = cloned])

ReadControlPipe(p, now) == DidWork([p EXCEPT !.control = @ - 1], TRUE, now)

\* The next handler of the copy is notified if it is still the one that is there.
IsCurrent(p, c) == c.handle \in Watched(p) /\ p.handlers[c.handle].id = c.id

Skip(p, c) == Expiring([p EXCEPT !.cloned = @ \ {c}])

Notifying(p, c) ==
    [p EXCEPT !.cloned = @ \ {c}, !.expiring = c.handle, !.plausible = TRUE]

\* OnHandleError has returned: the handle is erased.
Notified(p) == Expiring([RemoveHandler(p, p.expiring) EXCEPT !.expiring = NoHandle])

-----------------------------------------------------------------------------
\* A handler or a task has returned to the place in the loop that called it.
Resume(p, now) ==
    LET q == [p EXCEPT !.busy = FALSE]
    IN CASE p.at = "wait"   -> DidWork(q, TRUE, now)
         [] p.at = "expire" -> Notified(q)
         [] p.at = "work"   -> DoneWorking(q, TRUE, now)
=============================================================================

--------------------------- MODULE HandleWatcher ---------------------------
(***************************************************************************)
(* HandleWatcher: asynchronous waits on Mojo handles.  A watcher on a      *)
(* thread that runs MessagePumpMojo registers with the pump of its thread. *)
(* Any other thread hands its watches to WatcherThreadManager, whose       *)
(* background thread Bg runs a pump and posts the results back.            *)
(*                                                                         *)
(* Start on a watcher that is watching is Stop, then Start.  A callback    *)
(* may start and stop watchers of its thread; on a thread with a pump it   *)
(* runs inside the pump (busy).  A callback that runs because its thread   *)
(* exits starts nothing.  The handles, their signals and the tasks of the  *)
(* message loops are external.                                             *)
(***************************************************************************)
EXTENDS Integers, Sequences, SequencesExt, MessagePump

CONSTANTS
    Watcher, Thread, Handle,
    ThreadOf,       \* the thread a watcher lives on
    OwnerOf,        \* the thread that owns a handle
    Pumped,         \* the threads that run MessagePumpMojo
    SignalsOf,      \* what may become of a handle: "ready", "dead"
    Exiting,        \* the threads without a pump that may exit
    Processes,      \* the sets of threads that may make up the process
    Delays,         \* deadlines from now, 0 for none
    RestartsOnDeadline,  \* a callback told of its deadline may watch the handle again
    MaxStarts, MaxTime, MaxTasks

Bg == "bg"
Pumps == Pumped \cup {Bg}
NoWatch == [id |-> 0]

ASSUME WatcherAssumption ==
    /\ Pumped \subseteq Thread /\ Bg \notin Thread /\ NoHandle \notin Handle
    /\ ThreadOf \in [Watcher -> Thread] /\ OwnerOf \in [Handle -> Thread]
    /\ Processes \subseteq SUBSET Thread /\ Exiting \subseteq Thread \ Pumped
    /\ SignalsOf \in [Handle -> SUBSET {"ready", "dead"}]
    /\ Delays \subseteq Nat /\ RestartsOnDeadline \in BOOLEAN
    /\ MaxStarts \in Nat /\ MaxTime \in Nat /\ MaxTasks \in Nat

VARIABLES
    present,        \* the threads of this process
    now,
    signal,         \* what a handle would report: "quiet", "ready" or "dead"
    open,           \* the handles their owners have not closed
    pump,           \* MessagePumpMojo of the threads that run one
    tasks,          \* the posted tasks of each thread
    posted,         \* tasks posted to threads with a pump, so far
    requests,       \* WatcherThreadManager::requests_
    batch,          \* what ProcessRequestsOnBackendThread has swapped out
    data,           \* WatcherBackend::handle_to_data_
    thread,         \* where a thread without a pump is in the manager
    state,          \* HandleWatcher::state_
    outcome         \* how each watch ended

mojo == <<present, now, signal, open>>
manager == <<requests, batch, data>>
vars == <<mojo, pump, tasks, posted, manager, thread, state, outcome>>

Results == {"OK", "FAILED_PRECONDITION", "DEADLINE_EXCEEDED", "CANCELLED", "ABORTED"}
WatchData == [id : 1 .. MaxStarts, handle : Handle, deadline : Nat, thread : Thread]
StartRequest(d) == [type |-> "START", data |-> d]
StopRequest(id) == [type |-> "STOP", id |-> id]
At(place, id, exiting) == [at |-> place, id |-> id, exiting |-> exiting]

Init ==
    /\ now = 1 /\ signal = [h \in Handle |-> "quiet"] /\ open = Handle
    /\ pump = [p \in Pumps |-> NewPump]
    /\ tasks = [t \in Thread \cup {Bg} |-> <<>>] /\ posted = 0 /\ present \in Processes
    /\ requests = <<>> /\ batch = <<>> /\ data = <<>>
    /\ thread = [t \in Thread \ Pumped |-> At("idle", 0, FALSE)]
    /\ state = [w \in Watcher |-> NoWatch] /\ outcome = <<>>

Watching(w) == state[w] # NoWatch
Ended(id, result) == [outcome EXCEPT ![id] = result]

\* The client code of a thread may call its watchers.
MayCall(t) ==
    IF t \in Pumped THEN pump[t].busy
    ELSE thread[t].at = "idle" /\ ~thread[t].exiting

MojoDeadlineToTimeTicks(delay) == IF delay = 0 THEN Null ELSE now + delay

\* A handle is not watched twice on a thread with a pump (AddHandler checks), and
\* deadlines fall within the modelled time.
MayStart(w, h, delay) ==
    /\ ~Watching(w) /\ h \in open /\ OwnerOf[h] = ThreadOf[w]
    /\ Len(outcome) < MaxStarts /\ now + delay < MaxTime
    /\ MayCall(ThreadOf[w])

NewData(w, h, delay) ==
    [id |-> Len(outcome) + 1, handle |-> h, deadline |-> MojoDeadlineToTimeTicks(delay),
     thread |-> ThreadOf[w]]

-----------------------------------------------------------------------------
(* WatcherBackend, on Bg *)

\* RemoveAndNotify posts the result to the thread of the watch, if there is one.
Notify(h, result) ==
    IF h \in DOMAIN data
    THEN [tasks EXCEPT ![data[h].thread] = Append(@, [id |-> data[h].id, result |-> result])]
    ELSE tasks

StartWatching(d) ==
    /\ data' = [g \in DOMAIN data \cup {d.handle} |-> IF g = d.handle THEN d ELSE data[g]]
    /\ pump' = [pump EXCEPT ![Bg] =
                   AddHandler(RemoveHandler(@, d.handle), d.handle, d.deadline)]
    /\ tasks' = Notify(d.handle, "CANCELLED")
    /\ UNCHANGED thread

Forget(hs) ==
    /\ data' = [g \in DOMAIN data \ hs |-> data[g]]
    /\ pump' = [pump EXCEPT ![Bg] = RemoveHandlers(@, hs)]

\* The thread that waits for its stop_event goes on; one that has yet to post the task
\* will not wait.
SignalEvent(s) == At(IF s.at = "wait" THEN "idle" ELSE s.at, 0, s.exiting)

StopWatching(id) ==
    /\ Forget({h \in DOMAIN data : data[h].id = id})
    /\ thread' = [t \in DOMAIN thread |->
                     IF thread[t].id = id THEN SignalEvent(thread[t]) ELSE thread[t]]
    /\ UNCHANGED tasks

\* ProcessRequestsOnBackendThread takes the requests, ...
TakeRequests ==
    /\ pump[Bg].at = "work" /\ ~pump[Bg].busy /\ tasks[Bg] # <<>>
    /\ batch' = requests /\ requests' = <<>>
    /\ tasks' = [tasks EXCEPT ![Bg] = Tail(@)]
    /\ pump' = [pump EXCEPT ![Bg].busy = TRUE]
    /\ UNCHANGED <<mojo, posted, data, thread, state, outcome>>

\* ... serves them one after the other, and returns.
ProcessRequest ==
    /\ pump[Bg].busy /\ batch # <<>> /\ batch' = Tail(batch)
    /\ \/ Head(batch).type = "START" /\ StartWatching(Head(batch).data)
       \/ Head(batch).type = "STOP" /\ StopWatching(Head(batch).id)
    /\ UNCHANGED <<mojo, posted, requests, state, outcome>>

RequestsProcessed ==
    /\ pump[Bg].busy /\ batch = <<>>
    /\ pump' = [pump EXCEPT ![Bg] = Resume(@, now)]
    /\ UNCHANGED <<mojo, tasks, posted, manager, thread, state, outcome>>

-----------------------------------------------------------------------------
(* A watcher on a thread without a pump *)

\* Mutant of Requested: Stop does not wait for the background thread.
RequestedOnly(t, request, id) ==
    /\ requests' = Append(requests, request)
    /\ thread' = [thread EXCEPT ![t] =
                     At(IF requests = <<>> THEN "post" ELSE "idle", 0, @.exiting)]

\* AddRequest: who finds the list empty posts the task.
Requested(t, request, id) ==
    /\ requests' = Append(requests, request)
    /\ thread' = [thread EXCEPT ![t] =
                     At(IF requests = <<>> THEN "post" ELSE IF id = 0 THEN "idle" ELSE "wait",
                        id, @.exiting)]

StartSecondary(w, h, delay) ==
    /\ ThreadOf[w] \notin Pumped /\ MayStart(w, h, delay)
    /\ state' = [state EXCEPT ![w] = NewData(w, h, delay)]
    /\ outcome' = Append(outcome, "pending")
    /\ Requested(ThreadOf[w], StartRequest(NewData(w, h, delay)), 0)
    /\ UNCHANGED <<mojo, pump, tasks, posted, batch, data>>

IsStart(r, id) == r.type = "START" /\ r.data.id = id

\* The watch ends because its owner stops it, or because the owner's thread exits.
StopSecondary(w) ==
    LET t == ThreadOf[w]  id == state[w].id
    IN /\ t \notin Pumped /\ thread[t].at = "idle" /\ Watching(w)
       /\ state' = [state EXCEPT ![w] = NoWatch]
       /\ outcome' = Ended(id, IF thread[t].exiting THEN "ABORTED" ELSE "stopped")
       /\ \/ /\ \E i \in DOMAIN requests : IsStart(requests[i], id)
             /\ requests' = SelectSeq(requests, LAMBDA r : ~IsStart(r, id))
             /\ UNCHANGED thread
          \/ /\ \A i \in DOMAIN requests : ~IsStart(requests[i], id)
             /\ thread' = [thread EXCEPT ![t] = At("push", id, @.exiting)]
             /\ UNCHANGED requests
       /\ UNCHANGED <<mojo, pump, tasks, posted, batch, data>>

PushStop(t) ==
    /\ thread[t].at = "push"
    /\ Requested(t, StopRequest(thread[t].id), thread[t].id)
    /\ UNCHANGED <<mojo, pump, tasks, posted, batch, data, state, outcome>>

PostProcess(t) ==
    /\ thread[t].at = "post"
    /\ tasks' = [tasks EXCEPT ![Bg] = Append(@, "process")]
    /\ pump' = [pump EXCEPT ![Bg] = ScheduleWork(@)]
    /\ thread' = [thread EXCEPT ![t] =
                     At(IF @.id = 0 THEN "idle" ELSE "wait", @.id, @.exiting)]
    /\ UNCHANGED <<mojo, posted, manager, state, outcome>>

\* The result of a watch that was stopped finds its weak pointer null.
RunTask(t) ==
    LET task == Head(tasks[t])  for == {w \in Watcher : state[w].id = task.id}
    IN /\ thread[t].at = "idle" /\ ~thread[t].exiting /\ tasks[t] # <<>>
       /\ tasks' = [tasks EXCEPT ![t] = Tail(@)]
       /\ state' = [w \in Watcher |-> IF w \in for THEN NoWatch ELSE state[w]]
       /\ outcome' = IF for = {} THEN outcome ELSE Ended(task.id, task.result)
       /\ UNCHANGED <<mojo, pump, posted, manager, thread>>

\* The thread's message loop is being destroyed: its watches are aborted, and the
\* tasks it has not run are gone.
ExitThread(t) ==
    /\ thread[t].at = "idle" /\ ~thread[t].exiting
    /\ thread' = [thread EXCEPT ![t].exiting = TRUE]
    /\ UNCHANGED <<mojo, pump, tasks, posted, manager, state, outcome>>

ThreadGone(t) ==
    /\ thread[t].at = "idle" /\ thread[t].exiting
    /\ \A w \in Watcher : ThreadOf[w] = t => ~Watching(w)
    /\ thread' = [thread EXCEPT ![t].at = "gone"]
    /\ tasks' = [tasks EXCEPT ![t] = <<>>]
    /\ UNCHANGED <<mojo, pump, posted, manager, state, outcome>>

-----------------------------------------------------------------------------
(* A watcher on a thread with a pump *)

StartSame(w, h, delay) ==
    LET t == ThreadOf[w]
    IN /\ t \in Pumped /\ MayStart(w, h, delay) /\ h \notin Watched(pump[t])
       /\ RestartsOnDeadline \/ h # pump[t].expiring
       /\ state' = [state EXCEPT ![w] = NewData(w, h, delay)]
       /\ outcome' = Append(outcome, "pending")
       /\ pump' = [pump EXCEPT ![t] = AddHandler(@, h, MojoDeadlineToTimeTicks(delay))]
       /\ UNCHANGED <<mojo, tasks, posted, manager, thread>>

StopSame(w) ==
    LET t == ThreadOf[w]
    IN /\ t \in Pumped /\ pump[t].busy /\ Watching(w)
       /\ state' = [state EXCEPT ![w] = NoWatch]
       /\ outcome' = Ended(state[w].id, "stopped")
       /\ pump' = [pump EXCEPT ![t] = RemoveHandler(@, state[w].handle)]
       /\ UNCHANGED <<mojo, tasks, posted, manager, thread>>

PostTask(t) ==
    /\ posted < MaxTasks /\ pump[t].at \notin {"done", "gone"}
    /\ tasks' = [tasks EXCEPT ![t] = Append(@, "client")] /\ posted' = posted + 1
    /\ pump' = [pump EXCEPT ![t] = ScheduleWork(@)]
    /\ UNCHANGED <<mojo, manager, thread, state, outcome>>

StartTask(t) ==
    /\ pump[t].at = "work" /\ ~pump[t].busy /\ tasks[t] # <<>>
    /\ tasks' = [tasks EXCEPT ![t] = Tail(@)]
    /\ pump' = [pump EXCEPT ![t].busy = TRUE]
    /\ UNCHANGED <<mojo, posted, manager, thread, state, outcome>>

\* What else the client's code may do to its pump.
CallPump(t) ==
    /\ pump[t].busy
    /\ \/ ~pump[t].shouldQuit /\ pump' = [pump EXCEPT ![t] = Quit(@)]
       \/ /\ pump[t].delayed = Null /\ now + 1 < MaxTime
          /\ pump' = [pump EXCEPT ![t] = ScheduleDelayedWork(@, now + 1)]
    /\ UNCHANGED <<mojo, tasks, posted, manager, thread, state, outcome>>

\* The handler or the task returns to the place in the loop that called it.
Return(t) ==
    /\ pump[t].busy
    /\ pump' = [pump EXCEPT ![t] = Resume(@, now)]
    /\ UNCHANGED <<mojo, tasks, posted, manager, thread, state, outcome>>

\* StateBase is told that the message loop is being destroyed.
DestroyLoop(t) ==
    LET mine == {w \in Watcher : ThreadOf[w] = t /\ Watching(w)}
    IN /\ pump[t].at = "done"
       /\ pump' = [pump EXCEPT ![t] =
                      [RemoveHandlers(@, {state[w].handle : w \in mine}) EXCEPT !.at = "gone"]]
       /\ state' = [w \in Watcher |-> IF w \in mine THEN NoWatch ELSE state[w]]
       /\ outcome' = [id \in DOMAIN outcome |->
                         IF \E w \in mine : state[w].id = id THEN "ABORTED" ELSE outcome[id]]
       /\ tasks' = [tasks EXCEPT ![t] = <<>>]
       /\ UNCHANGED <<mojo, posted, manager, thread>>

-----------------------------------------------------------------------------
(* The pumps *)

\* OnHandleReady and OnHandleError, called by pump p in state base: Bg posts the
\* result, a watcher on the pump's own thread runs its callback.  Both remove the
\* handler.
Signalled(p, base, h, result) ==
    \/ /\ p = Bg
       /\ tasks' = Notify(h, result) /\ data' = [g \in DOMAIN data \ {h} |-> data[g]]
       /\ pump' = [pump EXCEPT ![Bg] = Resume(RemoveHandler(base, h), now)]
       /\ UNCHANGED <<state, outcome>>
    \/ /\ p # Bg
       /\ \E w \in Watcher :
             /\ ThreadOf[w] = p /\ Watching(w) /\ state[w].handle = h
             /\ state' = [state EXCEPT ![w] = NoWatch]
             /\ outcome' = Ended(state[w].id, result)
       /\ pump' = [pump EXCEPT ![p] = [RemoveHandler(base, h) EXCEPT !.busy = TRUE]]
       /\ UNCHANGED <<tasks, data>>

Waiting(p) == pump[p].at = "wait" /\ ~pump[p].busy

\* WaitMany finds the control pipe readable, ...
WaitControl(p) ==
    /\ Waiting(p) /\ pump[p].control > 0
    /\ pump' = [pump EXCEPT ![p] = ReadControlPipe(@, now)]
    /\ UNCHANGED <<mojo, tasks, posted, manager, thread, state, outcome>>

\* ... or a handle ready or beyond hope, ...
WaitHandle(p) ==
    /\ Waiting(p)
    /\ \E h \in Watched(pump[p]) :
          \/ signal[h] = "ready" /\ Signalled(p, pump[p], h, "OK")
          \/ /\ signal[h] = "dead"
             /\ Signalled(p, RemoveInvalidHandle(pump[p], h), h, "FAILED_PRECONDITION")
    /\ UNCHANGED <<mojo, posted, requests, batch, thread>>

\* ... or nothing.
WaitTimeout(p) ==
    /\ Waiting(p) /\ MayTimeOut(pump[p], now)
    /\ pump[p].control = 0 /\ \A h \in Watched(pump[p]) : signal[h] = "quiet"
    /\ pump' = [pump EXCEPT ![p] = DidWork(@, FALSE, now)]
    /\ UNCHANGED <<mojo, tasks, posted, manager, thread, state, outcome>>

\* The copied handlers, one after the other.
Expire(p) ==
    /\ pump[p].at = "expire" /\ ~pump[p].busy
    /\ \E c \in pump[p].cloned :
          \/ /\ IsCurrent(pump[p], c)
             /\ Signalled(p, Notifying(pump[p], c), c.handle, "DEADLINE_EXCEEDED")
          \/ /\ ~IsCurrent(pump[p], c)
             /\ pump' = [pump EXCEPT ![p] = Skip(@, c)]
             /\ UNCHANGED <<tasks, data, state, outcome>>
    /\ UNCHANGED <<mojo, posted, requests, batch, thread>>

\* DoWork finds nothing to do.
NoWork(p) ==
    /\ pump[p].at = "work" /\ ~pump[p].busy /\ tasks[p] = <<>>
    /\ pump' = [pump EXCEPT ![p] = DoneWorking(@, FALSE, now)]
    /\ UNCHANGED <<mojo, tasks, posted, manager, thread, state, outcome>>

-----------------------------------------------------------------------------
(* The handles and the clock *)

Signal(h) ==
    /\ signal[h] = "quiet"
    /\ \E s \in SignalsOf[h] : signal' = [signal EXCEPT ![h] = s]
    /\ UNCHANGED <<present, now, open, pump, tasks, posted, manager, thread, state, outcome>>

\* The owner closes a handle that it does not watch.
CloseHandle(h) ==
    /\ h \in open /\ MayCall(OwnerOf[h])
    /\ \A w \in Watcher : Watching(w) => state[w].handle # h
    /\ open' = open \ {h}
    /\ UNCHANGED <<present, now, signal, pump, tasks, posted, manager, thread, state, outcome>>

Tick ==
    /\ now < MaxTime /\ now' = now + 1
    /\ UNCHANGED <<present, signal, open, pump, tasks, posted, manager, thread, state, outcome>>

-----------------------------------------------------------------------------
PumpStep(p) ==
    WaitControl(p) \/ WaitHandle(p) \/ WaitTimeout(p) \/ Expire(p) \/ NoWork(p)

\* WatcherThreadManager is created when a thread first needs it.
BgStep ==
    /\ present \ Pumped # {}
    /\ PumpStep(Bg) \/ TakeRequests \/ ProcessRequest \/ RequestsProcessed

\* What a thread does by itself, ...
ThreadStep(t) == PushStop(t) \/ PostProcess(t) \/ RunTask(t) \/ ThreadGone(t)
SameStep(t) == PumpStep(t) \/ StartTask(t) \/ Return(t) \/ DestroyLoop(t)

\* ... and what its client asks for.
Client ==
    \/ \E w \in Watcher, h \in Handle, delay \in Delays :
          /\ ThreadOf[w] \in present
          /\ StartSecondary(w, h, delay) \/ StartSame(w, h, delay)
    \/ \E w \in Watcher : StopSecondary(w) \/ StopSame(w)
    \/ \E t \in present \cap Exiting : ExitThread(t)
    \/ \E t \in present \cap Pumped : PostTask(t) \/ CallPump(t)
    \/ \E h \in Handle : OwnerOf[h] \in present /\ CloseHandle(h)

Next ==
    \/ Client \/ BgStep \/ Tick
    \/ \E t \in present \ Pumped : ThreadStep(t)
    \/ \E t \in present \cap Pumped : SameStep(t)
    \/ \E h \in Handle : OwnerOf[h] \in present /\ Signal(h)

\* Threads run, and an exiting thread aborts its watches; the clock goes on.  A
\* handle need never be signalled and the clients owe nothing.
Fairness ==
    /\ WF_vars(BgStep) /\ WF_vars(Tick)
    /\ \A t \in Thread \ Pumped :
          /\ WF_vars(t \in present /\ ThreadStep(t))
          /\ WF_vars(thread[t].exiting /\ \E w \in Watcher : ThreadOf[w] = t /\ StopSecondary(w))
    /\ \A t \in Pumped : WF_vars(t \in present /\ SameStep(t))

Spec == Init /\ [][Next]_vars /\ Fairness

-----------------------------------------------------------------------------
(* Properties *)

TypeOK ==
    /\ now \in 1 .. MaxTime /\ signal \in [Handle -> {"quiet", "ready", "dead"}]
    /\ open \subseteq Handle /\ posted \in 0 .. MaxTasks
    /\ requests \in Seq([type : {"START"}, data : WatchData] \cup [type : {"STOP"}, id : Nat])
    /\ DOMAIN data \subseteq Handle /\ \A h \in DOMAIN data : data[h] \in WatchData
    /\ state \in [Watcher -> WatchData \cup {NoWatch}]
    /\ outcome \in Seq({"pending", "stopped"} \cup Results)

\* Where the manager holds the watch d: in a list of requests, in the backend, or in
\* a task on its way back.
Holders(d) ==
    {<<"requests", i>> : i \in {j \in DOMAIN requests : IsStart(requests[j], d.id)}}
    \cup {<<"batch", i>> : i \in {j \in DOMAIN batch : IsStart(batch[j], d.id)}}
    \cup {<<"backend", h>> : h \in {g \in DOMAIN data : data[g].id = d.id}}
    \cup {<<"task", i>> : i \in {j \in DOMAIN tasks[d.thread] :
                                    tasks[d.thread][j].id = d.id}}

\* A watch is neither lost nor doubled: while a watcher of a thread without a pump is
\* watching, exactly one place between StartWatching and NotifyHandleReady holds its
\* watch; on a thread with a pump the pump has its handler, with its deadline, or is
\* about to abort it.  The backend and its pump watch the same handles.
NoWatchIsLost ==
    /\ \A w \in Watcher : Watching(w) =>
          IF ThreadOf[w] \in Pumped
          THEN LET p == pump[ThreadOf[w]]
               IN /\ state[w].handle \in Watched(p)
                  /\ p.handlers[state[w].handle].deadline = state[w].deadline
          ELSE Cardinality(Holders(state[w])) = 1
    /\ DOMAIN data = Watched(pump[Bg])

\* "Blocks until no longer listening on the handle": a pump never waits on a handle
\* whose owner has stopped its watches and closed it, so WaitMany never reports an
\* invalid handle, which would end the process.
NoWaitOnClosedHandle ==
    \A p \in Pumps : Waiting(p) => Watched(pump[p]) \subseteq open

\* A callback runs at most once for a Start, and not after Stop has returned.
CallbacksRunOnce ==
    [][\A id \in DOMAIN outcome : outcome[id] # "pending" => outcome'[id] = outcome[id]]_vars

\* A watch whose handle is signalled, or which has a deadline, comes to its end; so
\* does the call of Stop that waits for the background thread.
InProgress(id) ==
    \/ \E w \in Watcher :
          /\ state[w].id = id
          /\ state[w].deadline # Null \/ signal[state[w].handle] # "quiet"
    \/ \E t \in Thread \ Pumped : thread[t].id = id

WatchesAndStopsEnd == \A id \in 1 .. MaxStarts : InProgress(id) ~> ~InProgress(id)
=============================================================================

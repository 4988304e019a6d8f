------------------------------ MODULE Forwarder ------------------------------
(***************************************************************************)
(* One connection of the Android port forwarder: a Forwarder is a pair of  *)
(* BufferedCopiers between two sockets, driven by the select loop of the   *)
(* ForwardersManager's internal thread (tools/android/forwarder2).         *)
(*                                                                         *)
(* Copier s reads from socket s and writes to the other one.  The bytes a  *)
(* remote sends are numbered 1, 2, ..., so that what comes out at the far  *)
(* side can be compared with what went in.                                 *)
(***************************************************************************)
EXTENDS Naturals, Sequences, SequencesExt

CONSTANTS
    kBufferSize,    \* bytes a copier holds
    MaxBytes        \* bytes the remote of each side sends at most

VARIABLES
    fwd,        \* "none", "posted", "running", "removed"
    copier,     \* the two BufferedCopiers
    socket,     \* the two sockets, with what their remotes did
    tasks,      \* the task queue of ForwardersManagerThread
    fds,        \* what the select() in progress was asked for
    wakeup,     \* wakeup_notifier_ holds a notification
    deletion    \* deletion_notifier_ does

vars == <<fwd, copier, socket, tasks, fds, wakeup, deletion>>

Side == {1, 2}

Other(s) == 3 - s

\* Bytes a remote sent that are unread, how many it sent, whether it closed or
\* reset the connection, whether there is room to write to it, what it received;
\* fd is FALSE once SetSocketError closed the socket.
NewSocket == [fd |-> TRUE, in |-> <<>>, sent |-> 0, eof |-> FALSE, reset |-> FALSE,
              room |-> TRUE, got |-> <<>>]

BufferedCopier == [state |-> "READING", buffer |-> <<>>, write_offset |-> 0, peer |-> TRUE]

NoSelect == [selecting |-> FALSE, read |-> {}, write |-> {}]

\* No forwarder yet; the constructor has posted the first wait.
Init ==
    /\ fwd = "none"
    /\ copier = [s \in Side |-> BufferedCopier]
    /\ socket = [s \in Side |-> NewSocket]
    /\ tasks = <<"wait">>
    /\ fds = NoSelect
    /\ wakeup = FALSE
    /\ deletion = FALSE

------------------------------------------------------------------------------
(* BufferedCopier: each operator maps a pair of copiers to the next one.   *)

\* Mutant: Close() drops what is still in the buffer.
CloseAtOnce(cs, s) == [cs EXCEPT ![s].state = "CLOSED"]

Close(cs, s) ==
    [cs EXCEPT ![s].state = CASE @ = "READING" -> "CLOSED"
                              [] @ = "WRITING" -> "CLOSING"
                              [] OTHER -> @]

\* Mutant: the peer is not told.
ForceCloseAlone(cs, s) == [cs EXCEPT ![s].peer = FALSE, ![s].state = "CLOSED"]

ForceClose(cs, s) ==
    LET told == IF cs[s].peer THEN Close(cs, Other(s)) ELSE cs
    IN [told EXCEPT ![s].peer = FALSE, ![s].state = "CLOSED"]

\* The socket whose events copier s waits for.
WaitsOn(cs, s) == IF cs[s].state = "READING" THEN s ELSE Other(s)

PrepareSelect(cs, s) ==
    IF cs[s].state # "CLOSED" /\ ~socket[WaitsOn(cs, s)].fd THEN ForceClose(cs, s) ELSE cs

Readable(s) == socket[s].in # <<>> \/ socket[s].eof \/ socket[s].reset

Writable(s) == socket[s].room \/ socket[s].reset

ReadFDs == {s \in fds.read : Readable(s)}

WriteFDs == {s \in fds.write : Writable(s)}

\* NonBlockingRead by copier s: an error closes the socket (SetSocketError), end
\* of file does not.
ReadSocket(f, s) ==
    LET from == f.socket[s]
        n == IF Len(from.in) < kBufferSize THEN Len(from.in) ELSE kBufferSize
    IN CASE from.reset -> [copier |-> ForceClose(f.copier, s),
                           socket |-> [f.socket EXCEPT ![s].fd = FALSE]]
         [] ~from.reset /\ n = 0 -> [f EXCEPT !.copier = ForceClose(@, s)]
         [] OTHER -> [copier |-> [f.copier EXCEPT ![s].buffer = SubSeq(from.in, 1, n),
                                                  ![s].write_offset = 0,
                                                  ![s].state = "WRITING"],
                      socket |-> [f.socket EXCEPT ![s].in = SubSeq(@, n + 1, Len(@))]]

\* NonBlockingWrite by copier s of at most max bytes; room is left or not.
WriteSocket(f, s, max, room) ==
    LET c == f.copier[s]
        rest == SubSeq(c.buffer, c.write_offset + 1, Len(c.buffer))
        n == IF Len(rest) < max THEN Len(rest) ELSE max
        written == [f.socket EXCEPT ![Other(s)].got = @ \o SubSeq(rest, 1, n),
                                    ![Other(s)].room = room]
        empty == [f.copier EXCEPT ![s].buffer = <<>>, ![s].write_offset = 0]
    IN CASE f.socket[Other(s)].reset ->
              [copier |-> ForceClose(f.copier, s),
               socket |-> [f.socket EXCEPT ![Other(s)].fd = FALSE]]
         [] ~f.socket[Other(s)].reset /\ n < Len(rest) ->
              [copier |-> [f.copier EXCEPT ![s].write_offset = @ + n], socket |-> written]
         [] OTHER -> [copier |-> IF c.state = "CLOSING" THEN ForceClose(empty, s)
                                 ELSE [empty EXCEPT ![s].state = "READING"],
                      socket |-> written]

\* The whole of ProcessSelect for copier s.
ProcessSelect(f, s, max, room) ==
    LET on == WaitsOn(f.copier, s)
    IN CASE f.copier[s].state = "CLOSED" -> f
         [] f.copier[s].state = "READING" /\ ~f.socket[on].fd ->
              [f EXCEPT !.copier[s].state = "CLOSED"]
         [] f.copier[s].state = "READING" /\ f.socket[on].fd ->
              IF on \in ReadFDs THEN ReadSocket(f, s) ELSE f
         [] f.copier[s].state \in {"WRITING", "CLOSING"} /\ ~f.socket[on].fd ->
              [f EXCEPT !.copier = ForceClose(@, s)]
         [] OTHER -> IF on \in WriteFDs THEN WriteSocket(f, s, max, room) ELSE f

IsClosed(cs) == \A s \in Side : cs[s].state = "CLOSED"

------------------------------------------------------------------------------
(* ForwardersManager: the owner's calls and the internal thread.           *)

\* The owner hands over two connected sockets: the task, then the wake-up.
CreateAndStartNewForwarder ==
    /\ fwd = "none" /\ ~deletion
    /\ fwd' = "posted"
    /\ tasks' = Append(tasks, "create")
    /\ wakeup' = TRUE
    /\ UNCHANGED <<copier, socket, fds, deletion>>

\* ~ForwardersManager: notify, then join the thread.
Delete ==
    /\ ~deletion
    /\ deletion' = TRUE
    /\ UNCHANGED <<fwd, copier, socket, tasks, fds, wakeup>>

CreateNewForwarderOnInternalThread ==
    /\ tasks # <<>> /\ Head(tasks) = "create"
    /\ fwd' = "running"
    /\ tasks' = Tail(tasks)
    /\ UNCHANGED <<copier, socket, fds, wakeup, deletion>>

\* The first half of WaitForEventsOnInternalThread: fill the descriptor sets and
\* block in select().
RegisterFDs ==
    /\ tasks # <<>> /\ Head(tasks) = "wait" /\ ~fds.selecting
    /\ LET first == PrepareSelect(copier, 1)
           cs == IF fwd = "running" THEN PrepareSelect(first, 2) ELSE copier
           \* a copier registers as it is when its own turn comes
           Asks(s, state) == fwd = "running" /\ state[s].state # "CLOSED"
                               /\ socket[WaitsOn(state, s)].fd
           asking == {s \in Side : Asks(s, IF s = 1 THEN first ELSE cs)}
       IN /\ copier' = cs
          /\ fds' = [selecting |-> TRUE,
                     read |-> {s \in asking : copier[s].state = "READING"},
                     write |-> {Other(s) : s \in {t \in asking : copier[t].state # "READING"}}]
    /\ UNCHANGED <<fwd, socket, tasks, wakeup, deletion>>

SelectReturns == wakeup \/ deletion \/ ReadFDs # {} \/ WriteFDs # {}

Processed(max, room) ==
    LET f == [copier |-> copier, socket |-> socket]
    IN ProcessSelect(ProcessSelect(f, 1, max, room), 2, max, room)

ShutDown(cs) == IF deletion THEN Close(Close(cs, 1), 2) ELSE cs

\* The second half: select() has returned.
ProcessEvents ==
    /\ fds.selecting /\ SelectReturns
    /\ fds' = NoSelect
    /\ \/ /\ deletion /\ fwd # "running"
          /\ tasks' = Tail(tasks)
          /\ UNCHANGED <<fwd, copier, socket, wakeup>>
       \/ /\ ~(deletion /\ fwd # "running")
          /\ tasks' = Append(Tail(tasks), "wait")
          /\ \/ /\ wakeup
                /\ wakeup' = FALSE
                /\ UNCHANGED <<fwd, copier, socket>>
             \/ /\ ~wakeup /\ fwd = "running"
                /\ \E max \in 1..kBufferSize, room \in BOOLEAN :
                      LET f == Processed(max, room)
                      IN /\ copier' = ShutDown(f.copier)
                         /\ socket' = f.socket
                         /\ fwd' = IF IsClosed(ShutDown(f.copier)) THEN "removed" ELSE fwd
                /\ UNCHANGED wakeup
    /\ UNCHANGED deletion

------------------------------------------------------------------------------
(* The remotes.                                                            *)

RemoteSends(s) ==
    /\ ~socket[s].eof /\ ~socket[s].reset /\ socket[s].sent < MaxBytes[s]
    /\ socket' = [socket EXCEPT ![s].in = Append(@, socket[s].sent + 1), ![s].sent = @ + 1]
    /\ UNCHANGED <<fwd, copier, tasks, fds, wakeup, deletion>>

RemoteCloses(s) ==
    /\ ~socket[s].eof /\ ~socket[s].reset
    /\ socket' = [socket EXCEPT ![s].eof = TRUE]
    /\ UNCHANGED <<fwd, copier, tasks, fds, wakeup, deletion>>

RemoteResets(s) ==
    /\ ~socket[s].reset
    /\ socket' = [socket EXCEPT ![s].reset = TRUE]
    /\ UNCHANGED <<fwd, copier, tasks, fds, wakeup, deletion>>

\* The remote reads what it was sent, so there is room again.
RemoteReads(s) ==
    /\ ~socket[s].room
    /\ socket' = [socket EXCEPT ![s].room = TRUE]
    /\ UNCHANGED <<fwd, copier, tasks, fds, wakeup, deletion>>

Remote == \E s \in Side : RemoteSends(s) \/ RemoteCloses(s) \/ RemoteResets(s) \/ RemoteReads(s)

InternalThread == CreateNewForwarderOnInternalThread \/ RegisterFDs \/ ProcessEvents

Next == CreateAndStartNewForwarder \/ Delete \/ InternalThread \/ Remote

\* The thread is scheduled, and a remote that is alive reads what it is sent.
Fairness ==
    /\ WF_vars(CreateNewForwarderOnInternalThread)
    /\ WF_vars(RegisterFDs)
    /\ WF_vars(ProcessEvents)
    /\ \A s \in Side : WF_vars(RemoteReads(s))

Spec == Init /\ [][Next]_vars /\ Fairness

------------------------------------------------------------------------------
(* Properties.                                                             *)

\* What a copier holds and has not yet written.
Held(s) == SubSeq(copier[s].buffer, copier[s].write_offset + 1, Len(copier[s].buffer))

\* BufferedCopier moves the bytes of its input to its output in order, none twice
\* and none left out, across partial writes and buffer refills: delivered, held and
\* unread bytes together are what the remote sent.  Close() never throws away what
\* was read: a copier that closed with bytes in its buffer lost its output socket.
BytesAreForwarded ==
    \A s \in Side :
        /\ socket[Other(s)].got \o Held(s) \o socket[s].in = [i \in 1..socket[s].sent |-> i]
        /\ (copier[s].state = "CLOSED" /\ Held(s) # <<>>) => socket[Other(s)].reset
==============================================================================

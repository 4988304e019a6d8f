--------------------------- MODULE PortForwarding ----------------------------
(***************************************************************************)
(* How the host and the device agree on one forwarded port                 *)
(* (tools/android/forwarder2).  Four threads on two machines:              *)
(*   HostControllersManager  serves map and unmap requests,                *)
(*   HostController          one per mapped port, answers the device,      *)
(*   DeviceController        serves LISTEN, DATA_CONNECTION and UNLISTEN,  *)
(*   DeviceListener          one per mapped port, accepts the clients.     *)
(* They talk over the control connection a map request opens and over      *)
(* short connections to the DeviceController.  Mapping n of the port uses  *)
(* control connection n.  A client is known by the order it connected in;  *)
(* ACCEPT_SUCCESS and the data connection carry that number here only so   *)
(* that the properties can say whose they are.  A control connection may   *)
(* be lost at any time; the short ones are made or not, and not lost after *)
(* that.                                                                   *)
(***************************************************************************)
EXTENDS Naturals, Sequences, SequencesExt

CONSTANTS
    MaxMaps,        \* times the port is mapped
    MaxClients      \* clients that connect to the device's port

VARIABLES
    manager,        \* HostControllersManager: its thread and its two maps; stray: the
                    \* mappings given up without an UNLISTEN that reached the device
    controller,     \* the HostController; conn = 0: there is none
    device,         \* DeviceController: the thread's tasks, what it joins for
    listener,       \* the DeviceListener; conn = 0: there is none
    control,        \* the control connections
    inbox,          \* connections waiting in DeviceController's accept queue
    unlistened,     \* the answer on the connection UNLISTEN was sent on
    backlog,        \* clients waiting in the listening socket's accept queue
    clients,        \* what became of each client
    joined          \* device-side forwarders made: client and data connection

hostVars == <<manager, controller>>

deviceVars == <<device, listener, backlog, clients, joined>>

vars == <<hostVars, deviceVars, control, inbox, unlistened>>

Client == 1..MaxClients

\* A device_data_socket_ that was closed, and one that is null.
Closed == MaxClients + 1

Null == 0

\* A task of DeviceController's thread: accept a command, or delete the listener of
\* control connection n (a number above 0).
Accept == 0

NewConnection == [toHost |-> <<>>, toDevice |-> <<>>, host |-> TRUE, device |-> TRUE]

NoController == [conn |-> 0, pc |-> "done", after |-> "done", client |-> Null, stop |-> FALSE]

NoListener == [conn |-> 0, tasks |-> <<>>, waits |-> FALSE, client |-> Null, stop |-> FALSE]

Message(type, client) == [type |-> type, client |-> client]

\* The host daemon has just started, so has the device's.
Init ==
    /\ manager = [pc |-> "idle", maps |-> 0, adb |-> FALSE, tasks |-> {}, stray |-> {}]
    /\ controller = NoController
    /\ device = [tasks |-> <<Accept>>, joins |-> Message("none", 0)]
    /\ listener = NoListener
    /\ control = [n \in 1..MaxMaps |-> NewConnection]
    /\ inbox = <<>>
    /\ unlistened = "none"
    /\ backlog = <<>>
    /\ clients = [k \in Client |-> "new"]
    /\ joined = {}

------------------------------------------------------------------------------
(* Socket and command helpers.  A socket that fails, or is woken by one of *)
(* its notifiers, closes itself (SetSocketError).                          *)

\* SendCommand on the host's end: lost when either end is closed, or, as the
\* deletion notifier comes first, when the controller is being deleted.
HostSends(c, type, stop) ==
    IF stop THEN [c EXCEPT !.host = FALSE]
    ELSE IF c.host /\ c.device THEN [c EXCEPT !.toDevice = Append(@, type)] ELSE c

\* SendCommand on the device's end: writing to a closed peer is an error.
DeviceSends(c, m, stop) ==
    IF ~stop /\ c.host /\ c.device THEN [c EXCEPT !.toHost = Append(@, m)]
    ELSE [c EXCEPT !.device = FALSE]

\* ReceivedCommand can return on the host: with a message, at end of file, or
\* because of the notifier.
HostCanRead(c, stop) == stop \/ ~c.host \/ c.toHost # <<>> \/ ~c.device

HostReceives(c, type, stop) ==
    ~stop /\ c.host /\ c.toHost # <<>> /\ Head(c.toHost).type = type

HostRead(c, stop) ==
    IF stop THEN [c EXCEPT !.host = FALSE]
    ELSE IF c.toHost # <<>> THEN [c EXCEPT !.toHost = Tail(@)] ELSE c

DeviceCanRead(c, stop) == stop \/ ~c.device \/ c.toDevice # <<>> \/ ~c.host

DeviceReceives(c, type, stop) == ~stop /\ c.device /\ c.toDevice # <<>> /\ Head(c.toDevice) = type

DeviceRead(c, stop) ==
    IF stop THEN [c EXCEPT !.device = FALSE]
    ELSE IF c.toDevice # <<>> THEN [c EXCEPT !.toDevice = Tail(@)] ELSE c

------------------------------------------------------------------------------
(* HostControllersManager.                                                 *)

\* The manager once the device has an adb port (device_serial_to_adb_port_map_).
GetAdbPortForDevice == [manager EXCEPT !.adb = TRUE]

\* HandleRequestOnInternalThread, a map request of a port that is not mapped (one that
\* is changes nothing): find the adb port, then begin HostController::Create.
MapRequest ==
    /\ manager.pc = "idle" /\ controller.conn = 0 /\ manager.maps < MaxMaps
    /\ \/ /\ manager' = [GetAdbPortForDevice EXCEPT !.pc = "binding", !.maps = @ + 1]
          /\ inbox' = Append(inbox, Message("LISTEN", manager.maps + 1))
       \/ \* connected to adb, but not to the device
          /\ manager' = GetAdbPortForDevice
          /\ UNCHANGED inbox
    /\ UNCHANGED <<controller, deviceVars, control, unlistened>>

\* The rest of Create and of the request: the device's answer decides, and whether the
\* command line can be answered.  If it cannot, the controller is destroyed before it
\* is started, which closes the connection and tells the device nothing.
FinishMapRequest ==
    LET n == manager.maps
        c == control[n]
        bound == HostReceives(c, "BIND_SUCCESS", FALSE)
        refused == HostReceives(c, "BIND_ERROR", FALSE)
    IN /\ manager.pc = "binding" /\ HostCanRead(c, FALSE)
       /\ \E sent \in BOOLEAN :
             LET ok == bound /\ sent
             IN /\ manager' = [manager EXCEPT !.pc = "idle",
                                  !.stray = IF ok \/ refused THEN @ ELSE @ \cup {n}]
                /\ controller' = IF ok THEN [NoController EXCEPT !.conn = n, !.pc = "read"]
                                 ELSE controller
                /\ control' = [control EXCEPT ![n] =
                                  [HostRead(c, FALSE) EXCEPT !.host = ok]]
       /\ UNCHANGED <<deviceVars, inbox, unlistened>>

\* An unmap request: the controller, if any, is deleted, which notifies its thread and
\* waits for it; without one only the adb forwarding is removed.
UnmapRequest ==
    /\ manager.pc = "idle"
    /\ \/ /\ controller.conn # 0
          /\ manager' = [manager EXCEPT !.pc = "unmapping"]
          /\ controller' = [controller EXCEPT !.stop = TRUE]
       \/ /\ controller.conn = 0
          /\ manager' = [manager EXCEPT !.adb = FALSE]
          /\ UNCHANGED controller
    /\ UNCHANGED <<deviceVars, control, inbox, unlistened>>

\* SelfDelete through the weak pointer, DeleteHostController.
DeleteHostController ==
    /\ manager.pc = "idle" /\ manager.tasks # {}
    /\ LET current == controller.conn \in manager.tasks
       IN /\ manager' = [manager EXCEPT !.pc = IF current THEN "deleting" ELSE @, !.tasks = {}]
          /\ controller' = IF current THEN [controller EXCEPT !.stop = TRUE] ELSE controller
    /\ UNCHANGED <<deviceVars, control, inbox, unlistened>>

\* The controller's thread has ended and its sockets are gone; after an unmap request
\* the adb forwarding is removed (RemoveAdbPortForDeviceIfNeeded).
FinishDeletion ==
    /\ manager.pc \in {"unmapping", "deleting"} /\ controller.pc = "done"
    /\ manager' = [manager EXCEPT !.pc = "idle", !.adb = @ /\ manager.pc # "unmapping"]
    /\ control' = [control EXCEPT ![controller.conn].host = FALSE]
    /\ controller' = NoController
    /\ UNCHANGED <<deviceVars, inbox, unlistened>>

------------------------------------------------------------------------------
(* HostController's thread.                                                *)

\* OnInternalThreadError: UnmapPortOnDevice, then the self-deletion is posted, and
\* the thread goes on with whatever task comes after.
Fails(then) == [controller EXCEPT !.pc = "unmap", !.after = then]

\* ReadCommandOnInternalThread, up to the connection to the host's server.
ReadCommandOnInternalThread ==
    LET n == controller.conn
        c == control[n]
        ok == HostReceives(c, "ACCEPT_SUCCESS", controller.stop)
    IN /\ controller.pc = "read" /\ HostCanRead(c, controller.stop)
       /\ control' = [control EXCEPT ![n] = HostRead(c, controller.stop)]
       /\ controller' = IF ok THEN [controller EXCEPT !.pc = "connect",
                                                      !.client = Head(c.toHost).client]
                        ELSE Fails("done")
       /\ UNCHANGED <<manager, deviceVars, inbox, unlistened>>

\* The host's server is there, or it is not and the device has to acknowledge that.
ConnectToHostServer ==
    /\ controller.pc = "connect"
    /\ \E ok \in BOOLEAN :
          /\ control' = [control EXCEPT ![controller.conn] =
                HostSends(@, IF ok THEN "HOST_SERVER_SUCCESS" ELSE "HOST_SERVER_ERROR", controller.stop)]
          /\ controller' = [controller EXCEPT !.pc = IF ok THEN "data" ELSE "ack"]
    /\ UNCHANGED <<manager, deviceVars, inbox, unlistened>>

ReceiveAck ==
    LET n == controller.conn
        c == control[n]
    IN /\ controller.pc = "ack" /\ HostCanRead(c, controller.stop)
       /\ control' = [control EXCEPT ![n] = HostRead(c, controller.stop)]
       /\ controller' = IF HostReceives(c, "ACK", controller.stop)
                        THEN [controller EXCEPT !.pc = "read"] ELSE Fails("done")
       /\ UNCHANGED <<manager, deviceVars, inbox, unlistened>>

\* StartForwarder, up to the device's answer.
OpenDataConnection ==
    /\ controller.pc = "data"
    /\ \/ /\ controller' = [controller EXCEPT !.pc = "wait"]
          /\ inbox' = Append(inbox, Message("DATA_CONNECTION", controller.client))
       \/ /\ controller' = Fails("read")
          /\ UNCHANGED inbox
    /\ UNCHANGED <<manager, deviceVars, control, unlistened>>

\* ... and from there: whatever happened, the next command is read.
StartForwarder ==
    LET n == controller.conn
        c == control[n]
    IN /\ controller.pc = "wait" /\ HostCanRead(c, controller.stop)
       /\ control' = [control EXCEPT ![n] = HostRead(c, controller.stop)]
       /\ controller' = IF HostReceives(c, "ADB_DATA_SOCKET_SUCCESS", controller.stop)
                        THEN [controller EXCEPT !.pc = "read"] ELSE Fails("read")
       /\ UNCHANGED <<manager, deviceVars, inbox, unlistened>>

\* Mutant: an error deletes the controller without telling the device.
DeleteOnly ==
    /\ controller.pc = "unmap"
    /\ controller' = [controller EXCEPT !.pc = controller.after]
    /\ manager' = [manager EXCEPT !.tasks = @ \cup {controller.conn}]
    /\ UNCHANGED <<inbox, deviceVars, control, unlistened>>

\* UnmapPortOnDevice on a connection of its own, without notifiers.
UnmapPortOnDevice ==
    /\ controller.pc = "unmap"
    /\ \/ /\ controller' = [controller EXCEPT !.pc = "unlisten"]
          /\ inbox' = Append(inbox, Message("UNLISTEN", 0))
          /\ UNCHANGED manager
       \/ /\ controller' = [controller EXCEPT !.pc = controller.after]
          /\ manager' = [manager EXCEPT !.tasks = @ \cup {controller.conn},
                                        !.stray = @ \cup {controller.conn}]
          /\ UNCHANGED inbox
    /\ UNCHANGED <<deviceVars, control, unlistened>>

ReceiveUnlistened ==
    /\ controller.pc = "unlisten" /\ unlistened # "none"
    /\ unlistened' = "none"
    /\ controller' = [controller EXCEPT !.pc = controller.after]
    /\ manager' = [manager EXCEPT !.tasks = @ \cup {controller.conn}]
    /\ UNCHANGED <<deviceVars, control, inbox>>

------------------------------------------------------------------------------
(* DeviceController's thread.                                              *)

\* DeviceListener::Create for control connection n: the port is bound, or not.
CreateListener(n, connections) ==
    \E ok \in BOOLEAN :
        /\ control' = [connections EXCEPT ![n] =
              [DeviceSends(@, Message(IF ok THEN "BIND_SUCCESS" ELSE "BIND_ERROR", Null), FALSE)
                  EXCEPT !.device = ok /\ @]]
        /\ listener' = IF ok THEN [NoListener EXCEPT !.conn = n, !.tasks = <<Message("accept", Null)>>]
                       ELSE NoListener

\* ~DeviceListener notifies the listener's thread, then waits for it.
DeleteListener(command) ==
    /\ listener' = [listener EXCEPT !.stop = TRUE]
    /\ device' = [device EXCEPT !.tasks = Tail(@), !.joins = command]

Accepted == device' = [device EXCEPT !.tasks = Append(Tail(@), Accept)]

\* The whole of AcceptHostCommandInternal, but for the wait for a deleted listener.  The
\* command LISTEN may be lost with its connection.
AcceptHostCommandInternal ==
    LET command == Head(inbox)
    IN /\ device.joins.type = "none" /\ device.tasks[1] = Accept /\ inbox # <<>>
       /\ inbox' = Tail(inbox)
       /\ \/ /\ command.type = "LISTEN" /\ listener.conn = 0
             /\ CreateListener(command.client, control) /\ Accepted
             /\ UNCHANGED unlistened
          \/ /\ command.type \in {"LISTEN", "UNLISTEN"} /\ listener.conn # 0
             /\ DeleteListener(command)
             /\ UNCHANGED <<control, unlistened>>
          \/ /\ command.type = "DATA_CONNECTION"
             /\ listener' = IF listener.conn = 0 THEN listener
                            ELSE [listener EXCEPT !.tasks = Append(@, Message("data", command.client))]
             /\ Accepted
             /\ UNCHANGED <<control, unlistened>>
          \/ /\ command.type = "LISTEN" /\ ~control[command.client].device
             /\ Accepted
             /\ UNCHANGED <<control, listener, unlistened>>
          \/ /\ command.type = "UNLISTEN" /\ listener.conn = 0
             /\ unlistened' = "error"
             /\ Accepted
             /\ UNCHANGED <<control, listener>>
       /\ UNCHANGED <<hostVars, backlog, clients, joined>>

\* SelfDelete through the weak pointer, DeleteListenerOnError.
DeleteListenerOnError ==
    /\ device.joins.type = "none" /\ device.tasks[1] # Accept
    /\ \/ listener.conn = device.tasks[1] /\ DeleteListener(Message("error", 0))
       \/ /\ listener.conn # device.tasks[1]
          /\ device' = [device EXCEPT !.tasks = Tail(@)]
          /\ UNCHANGED listener
    /\ UNCHANGED <<hostVars, control, inbox, unlistened, backlog, clients, joined>>

\* The listener's thread has run out of tasks.  Its sockets close, the clients that
\* wait in them are refused, and the command goes on.
FinishJoin ==
    LET command == device.joins
        gone == [control EXCEPT ![listener.conn].device = FALSE]
    IN /\ command.type # "none" /\ listener.tasks = <<>>
       /\ backlog' = <<>>
       /\ clients' = [k \in Client |-> IF k = listener.client \/ k \in ToSet(backlog)
                                       THEN "dropped" ELSE clients[k]]
       /\ device' = [tasks |-> device.tasks \o IF command.type = "error" THEN <<>> ELSE <<Accept>>,
                     joins |-> Message("none", 0)]
       /\ \/ /\ command.type = "LISTEN"
             /\ CreateListener(command.client, gone)
             /\ UNCHANGED unlistened
          \/ /\ command.type # "LISTEN"
             /\ control' = gone
             /\ listener' = NoListener
             /\ unlistened' = IF command.type = "UNLISTEN" THEN "success" ELSE unlistened
       /\ UNCHANGED <<hostVars, inbox, joined>>

------------------------------------------------------------------------------
(* DeviceListener's thread.                                                *)

ListenerRuns(task) == listener.tasks # <<>> /\ listener.tasks[1].type = task

\* A client's socket that is replaced or closed is dropped.
Drop(k) == [c \in Client |-> IF c = k THEN "dropped" ELSE clients[c]]

\* OnInternalThreadError: MaybeSelfDeleteSoon on the DeviceController's thread.
ListenerFails == device' = [device EXCEPT !.tasks = Append(@, listener.conn)]

\* Mutant: the listening socket does not watch the deletion notifier.
AcceptUnnotified ==
    /\ ListenerRuns("accept") /\ ~listener.waits /\ backlog # <<>>
    /\ listener' = [listener EXCEPT !.client = Head(backlog), !.waits = TRUE]
    /\ backlog' = Tail(backlog)
    /\ clients' = [Drop(listener.client) EXCEPT ![Head(backlog)] = "held"]
    /\ control' = [control EXCEPT ![listener.conn] =
          DeviceSends(@, Message("ACCEPT_SUCCESS", Head(backlog)), listener.stop)]
    /\ UNCHANGED <<device, hostVars, inbox, unlistened, joined>>

\* AcceptClientOnInternalThread up to the wait for the host's answer: a client, the
\* deletion notifier, or an error of accept().
AcceptClient ==
    /\ ListenerRuns("accept") /\ ~listener.waits
    /\ \/ /\ ~listener.stop /\ backlog # <<>>
          /\ listener' = [listener EXCEPT !.client = Head(backlog), !.waits = TRUE]
          /\ backlog' = Tail(backlog)
          /\ clients' = [Drop(listener.client) EXCEPT ![Head(backlog)] = "held"]
          /\ control' = [control EXCEPT ![listener.conn] =
                DeviceSends(@, Message("ACCEPT_SUCCESS", Head(backlog)), FALSE)]
          /\ UNCHANGED device
       \/ /\ listener.stop \/ backlog # <<>>
          /\ listener' = [listener EXCEPT !.tasks = Tail(@), !.client = Closed]
          /\ clients' = Drop(listener.client)
          /\ control' = IF listener.stop THEN control
                        ELSE [control EXCEPT ![listener.conn] =
                                DeviceSends(@, Message("ACCEPT_ERROR", Null), FALSE)]
          /\ ListenerFails
          /\ UNCHANGED backlog
    /\ UNCHANGED <<hostVars, inbox, unlistened, joined>>

\* ... and the rest of it: the host reached its server, or this client is given up.
ReceiveHostAnswer ==
    LET c == control[listener.conn]
        ok == DeviceReceives(c, "HOST_SERVER_SUCCESS", listener.stop)
        read == DeviceRead(c, listener.stop)
        acked == DeviceSends(read, Message("ACK", Null), listener.stop)
    IN /\ ListenerRuns("accept") /\ listener.waits /\ DeviceCanRead(c, listener.stop)
       /\ \/ /\ ok
             /\ listener' = [listener EXCEPT !.waits = FALSE, !.tasks = Tail(@)]
             /\ control' = [control EXCEPT ![listener.conn] = read]
             /\ UNCHANGED <<clients, device>>
          \/ /\ ~ok
             /\ control' = [control EXCEPT ![listener.conn] = acked]
             /\ clients' = Drop(listener.client)
             /\ \/ /\ acked.device
                   /\ listener' = [listener EXCEPT !.waits = FALSE, !.client = Closed,
                                      !.tasks = Append(Tail(@), Message("accept", Null))]
                   /\ UNCHANGED device
                \/ /\ ~acked.device
                   /\ listener' = [listener EXCEPT !.waits = FALSE, !.client = Closed,
                                                   !.tasks = Tail(@)]
                   /\ ListenerFails
       /\ UNCHANGED <<hostVars, inbox, unlistened, backlog, joined>>

\* OnAdbDataSocketReceivedOnInternalThread: tell the host, join the two sockets.
AdbDataSocketReceived ==
    /\ ListenerRuns("data")
    /\ control' = [control EXCEPT ![listener.conn] =
          DeviceSends(@, Message("ADB_DATA_SOCKET_SUCCESS", Null), listener.stop)]
    /\ joined' = joined \cup {<<listener.client, listener.tasks[1].client>>}
    /\ clients' = [c \in Client |-> IF c = listener.client THEN "forwarded" ELSE clients[c]]
    /\ listener' = [listener EXCEPT !.client = Null,
                                    !.tasks = Append(Tail(@), Message("accept", Null))]
    /\ UNCHANGED <<hostVars, device, inbox, unlistened, backlog>>

------------------------------------------------------------------------------
\* A client connects to the port the device listens on.
ClientConnects ==
    \E k \in Client :
        /\ listener.conn # 0 /\ clients[k] = "new" /\ \A j \in 1..(k - 1) : clients[j] # "new"
        /\ clients' = [clients EXCEPT ![k] = "waiting"]
        /\ backlog' = Append(backlog, k)
        /\ UNCHANGED <<hostVars, device, listener, control, inbox, unlistened, joined>>

\* A control connection is lost, with what was on its way.
LoseControlConnection ==
    \E n \in 1..manager.maps :
        /\ control[n].host /\ control[n].device
        /\ control' = [control EXCEPT ![n] = [toHost |-> <<>>, toDevice |-> <<>>,
                                              host |-> FALSE, device |-> FALSE]]
        /\ UNCHANGED <<hostVars, deviceVars, inbox, unlistened>>

Manager == FinishMapRequest \/ DeleteHostController \/ FinishDeletion

HostController ==
    \/ ReadCommandOnInternalThread \/ ConnectToHostServer \/ ReceiveAck
    \/ OpenDataConnection \/ StartForwarder \/ UnmapPortOnDevice \/ ReceiveUnlistened

DeviceController == AcceptHostCommandInternal \/ DeleteListenerOnError \/ FinishJoin

DeviceListener == AcceptClient \/ ReceiveHostAnswer \/ AdbDataSocketReceived

Next ==
    \/ MapRequest \/ UnmapRequest \/ Manager \/ HostController
    \/ DeviceController \/ DeviceListener \/ ClientConnects
    \/ LoseControlConnection

\* Each of the four threads is scheduled.
Fairness ==
    /\ WF_vars(Manager)
    /\ WF_vars(HostController)
    /\ WF_vars(DeviceController)
    /\ WF_vars(DeviceListener)

Spec == Init /\ [][Next]_vars /\ Fairness

------------------------------------------------------------------------------
(* Properties.                                                             *)

\* OnAdbDataSocketReceivedOnInternalThread joins device_data_socket_ to the data
\* connection the host opened for that very client (or to none, when the client has
\* been closed meanwhile): whatever errors, unmaps and re-maps come in between, no
\* client is joined to a connection another one's acceptance led to, and the socket
\* is never null.
ClientsAreMatched == \A j \in joined : j[1] \in {j[2], Closed}

\* The host's and the device's tables agree, however often control connections are lost:
\* when the manager is at rest without a controller for the port, the device does not
\* listen on it, unless that mapping was given up without an UNLISTEN that reached the
\* device: it could not be sent, the connection was lost while the device answered
\* LISTEN, or the command line could not be answered (the host_controller of
\* HandleRequestOnInternalThread is then destroyed and sends none).  A controller always
\* has its device's adb port.
PortTablesAgree ==
    /\ (manager.pc = "idle" /\ controller.conn = 0) => listener.conn \in {0} \cup manager.stray
    /\ controller.conn # 0 => manager.adb

==============================================================================

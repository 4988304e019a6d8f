----------------------------- MODULE MCForwarder -----------------------------
(***************************************************************************)
(* The Android port forwarder, two of its levels in one run: one forwarded *)
(* connection, and the protocol that sets ports and connections up.        *)
(* "which" says the level a behaviour is about, and v1, v2, ... stand for  *)
(* the variables of that level.                                            *)
(***************************************************************************)
EXTENDS Naturals, Sequences

VARIABLES which, v1, v2, v3, v4, v5, v6, v7, v8, v9, v10

Connection == INSTANCE Forwarder WITH
  kBufferSize <- 2, MaxBytes <- <<2, 1>>,
  fwd <- v1, copier <- v2, socket <- v3, tasks <- v4, fds <- v5, wakeup <- v6,
  deletion <- v7

Port == INSTANCE PortForwarding WITH
  MaxMaps <- 2, MaxClients <- 2,
  manager <- v1, controller <- v2, device <- v3, listener <- v4, control <- v5,
  inbox <- v6, unlistened <- v7, backlog <- v8, clients <- v9, joined <- v10

vars == <<which, v1, v2, v3, v4, v5, v6, v7, v8, v9, v10>>

Init ==
  \/ which = "connection" /\ Connection!Init /\ v8 = 0 /\ v9 = 0 /\ v10 = 0
  \/ which = "port" /\ Port!Init

OfConnection(A) == which = "connection" /\ A /\ UNCHANGED <<which, v8, v9, v10>>

OfPort(A) == which = "port" /\ A /\ UNCHANGED which

Next == OfConnection(Connection!Next) \/ OfPort(Port!Next)

(* The fairness of the two: their threads are scheduled, and a remote that *)
(* is alive reads.                                                         *)
Fairness ==
  /\ WF_vars(OfConnection(Connection!CreateNewForwarderOnInternalThread))
  /\ WF_vars(OfConnection(Connection!RegisterFDs))
  /\ WF_vars(OfConnection(Connection!ProcessEvents))
  /\ \A s \in {1, 2} : WF_vars(OfConnection(Connection!RemoteReads(s)))
  /\ WF_vars(OfPort(Port!Manager))
  /\ WF_vars(OfPort(Port!HostController))
  /\ WF_vars(OfPort(Port!DeviceController))
  /\ WF_vars(OfPort(Port!DeviceListener))

Spec == Init /\ [][Next]_vars /\ Fairness

(* Forwarder: bytes come out in order, none twice and none left out.       *)
BytesAreForwarded == which = "connection" => Connection!BytesAreForwarded

(* Forwarder: a connection whose one side ends is taken down on both       *)
(* sides: the copiers drain, tell each other (ForceClose, Close) and the   *)
(* manager removes the forwarder, unless its thread has ended or a reset   *)
(* comes in between.                                                       *)
EndsWithItsSides ==
  \A s \in {1, 2} :
    (which = "connection" /\ v1 = "running" /\ v3[s].eof)
      ~> (which = "connection"
            /\ (v1 = "removed" \/ v4 = <<>> \/ v3[1].reset \/ v3[2].reset))

(* Host and device agree on the ports that are mapped, and a client of the *)
(* device is joined to the connection made for it (DeviceListener).        *)
PortTablesAgree == which = "port" => Port!PortTablesAgree /\ Port!ClientsAreMatched

(* HostControllersManager: map and unmap requests are answered.            *)
(* DeviceListener: an accepted client is forwarded or closed, unless a     *)
(* mapping was given up without an UNLISTEN that reached the device.       *)
RequestsAndClientsAreServed ==
  /\ (which = "port" /\ v1.pc # "idle") ~> (which = "port" /\ v1.pc = "idle")
  /\ \A k \in {1, 2} :
       (which = "port" /\ v9[k] = "held")
         ~> (which = "port" /\ (v9[k] \in {"forwarded", "dropped"} \/ v1.stray # {}))
==============================================================================

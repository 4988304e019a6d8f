------------------------------- MODULE Daemon --------------------------------
(***************************************************************************)
(* How the forwarder's command line finds, starts and kills its daemon     *)
(* (tools/android/forwarder2/daemon.cc with the host's delegates).  Every  *)
(* process p that runs SpawnIfNeeded may fork a child p; the child that    *)
(* binds the Unix domain socket is the daemon.  One more process runs      *)
(* Kill.  A connection is known by who opened it: process p, or its child, *)
(* which connects only to see whether somebody else was faster.            *)
(***************************************************************************)
EXTENDS Naturals, Sequences, SequencesExt

CONSTANTS
    N,              \* processes that run SpawnIfNeeded
    kNumTries       \* attempts to connect, or to see the daemon gone

VARIABLES
    client,         \* the processes in SpawnIfNeeded
    child,          \* their children
    connection,     \* what became of each connection, by who opened it
    owner,          \* the child that owns the socket, or 0
    killer          \* the process in Kill

vars == <<client, child, connection, owner, killer>>

Process == 1..N

ChildOf(p) == N + p

\* The connection Kill opens and closes at once to learn the owner's process id.
Probe == 0

Init ==
    /\ client = [p \in Process |-> [pc |-> "look", tries |-> 1]]
    /\ child = [p \in Process |-> [pc |-> "none", backlog |-> <<>>, requests |-> <<>>,
                                   exit |-> FALSE, failed |-> FALSE]]
    /\ connection = [r \in 0..(2 * N) |-> "none"]
    /\ owner = 0
    /\ killer = [pc |-> "start", pid |-> 0, victim |-> 0, tries |-> kNumTries]

------------------------------------------------------------------------------
(* The client's side of SpawnIfNeeded.                                     *)

\* ConnectUnix by r reaches the owner's accept queue.
Connects(r) ==
    /\ owner # 0
    /\ connection' = [connection EXCEPT ![r] = "queued"]
    /\ child' = [child EXCEPT ![owner].backlog = Append(@, r)]

\* An attempt has failed.  After the single first one the process forks; after the
\* last of the others it gives up.
TryAgain(p) ==
    IF client[p].tries > 1 THEN [client[p] EXCEPT !.pc = "look", !.tries = @ - 1]
    ELSE [client[p] EXCEPT !.pc = IF child[p].pc = "none" THEN "fork" ELSE "failed"]

ConnectToUnixDomainSocket(p) ==
    /\ client[p].pc = "look"
    /\ \/ /\ Connects(p)
          /\ client' = [client EXCEPT ![p].pc = "welcome"]
       \/ /\ owner = 0
          /\ client' = [client EXCEPT ![p] = TryAgain(p)]
          /\ UNCHANGED <<child, connection>>
    /\ UNCHANGED <<owner, killer>>

\* The welcome message, or the daemon went away with the connection unaccepted.
ReadWelcome(p) ==
    /\ client[p].pc = "welcome"
    /\ \/ /\ connection[p] = "welcomed"
          /\ client' = [client EXCEPT ![p].pc = "ready"]
          /\ connection' = [connection EXCEPT ![p] = "sent"]
       \/ /\ connection[p] = "reset"
          /\ client' = [client EXCEPT ![p] = TryAgain(p)]
          /\ UNCHANGED connection
    /\ UNCHANGED <<child, owner, killer>>

Fork(p) ==
    /\ client[p].pc = "fork"
    /\ client' = [client EXCEPT ![p] = [pc |-> "look", tries |-> kNumTries]]
    /\ child' = [child EXCEPT ![p].pc = "bind"]
    /\ UNCHANGED <<connection, owner, killer>>

\* OnDaemonReady has sent the request and reads the answer; an end of file there
\* fails the CHECK that bytes were read.
OnDaemonReady(p) ==
    /\ client[p].pc = "ready" /\ connection[p] \in {"answered", "eof"}
    /\ client' = [client EXCEPT ![p].pc = IF connection[p] = "answered" THEN "answered" ELSE "aborted"]
    /\ UNCHANGED <<child, connection, owner, killer>>

------------------------------------------------------------------------------
(* The child: bind, serve, tear down.                                      *)

\* The bind succeeds, or a single connection tells whether a daemon answers.
Bind(p) ==
    /\ child[p].pc = "bind"
    /\ \/ /\ owner = 0
          /\ owner' = p
          /\ child' = [child EXCEPT ![p].pc = "accept"]
          /\ UNCHANGED connection
       \/ /\ owner # 0
          /\ connection' = [connection EXCEPT ![ChildOf(p)] = "queued"]
          /\ child' = [child EXCEPT ![owner].backlog = Append(@, ChildOf(p)), ![p].pc = "check"]
          /\ UNCHANGED owner
    /\ UNCHANGED <<client, killer>>

\* Either way the child exits: with 0 when somebody else's daemon welcomed it.
ExitWithoutSocket(p) ==
    /\ child[p].pc = "check" /\ connection[ChildOf(p)] \in {"welcomed", "reset"}
    /\ child' = [child EXCEPT ![p].pc = "exited"]
    /\ connection' = [connection EXCEPT ![ChildOf(p)] = "closed"]
    /\ UNCHANGED <<client, owner, killer>>

\* RunServerAcceptLoop: the exit notifier ends it, whoever waits.  Accept fails with
\* SetSocketError, which closes the socket: the name is free, and who was in the queue
\* is reset, before anything is torn down.
Accept(p) ==
    /\ child[p].pc = "accept"
    /\ \/ /\ child[p].exit
          /\ owner' = 0
          /\ child' = [child EXCEPT ![p].pc = "teardown", ![p].backlog = <<>>]
          /\ connection' = [r \in DOMAIN connection |->
                IF r \in ToSet(child[p].backlog) /\ connection[r] = "queued" THEN "reset"
                ELSE connection[r]]
       \/ /\ ~child[p].exit /\ child[p].backlog # <<>>
          /\ connection' = [connection EXCEPT ![Head(child[p].backlog)] =
                              IF @ = "queued" THEN "welcomed" ELSE @]
          /\ child' = [child EXCEPT ![p].pc = "read"]
          /\ UNCHANGED owner
    /\ UNCHANGED <<client, killer>>

\* OnClientConnected: the accepted client's request goes to the manager's thread; one
\* that went away instead is a failure.
OnClientConnected(p) ==
    LET r == Head(child[p].backlog)
    IN /\ child[p].pc = "read"
       /\ \/ /\ connection[r] = "sent"
             /\ child' = [child EXCEPT ![p].pc = "accept", ![p].backlog = Tail(@),
                                       ![p].requests = Append(@, r)]
          \/ /\ connection[r] = "closed"
             /\ child' = [child EXCEPT ![p].pc = "accept", ![p].backlog = Tail(@),
                                       ![p].failed = TRUE]
       /\ UNCHANGED <<client, connection, owner, killer>>

\* The manager's thread answers.
HandleRequest(p) ==
    /\ child[p].requests # <<>> /\ child[p].pc # "exited"
    /\ child' = [child EXCEPT ![p].requests = Tail(@)]
    /\ connection' = [connection EXCEPT ![Head(child[p].requests)] = "answered"]
    /\ UNCHANGED <<client, owner, killer>>

\* The process ends after the manager's thread, whose queue runs empty first (the
\* manager's destructor takes the controllers away before that: when requests are
\* left, the thread may find them gone and the process crashes).
Exit(p) ==
    /\ child[p].pc = "teardown"
    /\ child' = [child EXCEPT ![p].pc = "exited"]
    /\ connection' = [r \in DOMAIN connection |->
          IF r \in ToSet(child[p].requests) THEN "eof" ELSE connection[r]]
    /\ UNCHANGED <<client, owner, killer>>

------------------------------------------------------------------------------
(* Kill.                                                                   *)

\* GetUnixDomainSocketProcessOwner leaves a closed connection in the accept queue.
Probed == IF owner = 0 THEN child ELSE [child EXCEPT ![owner].backlog = Append(@, Probe)]

FindVictim ==
    /\ killer.pc = "start"
    /\ killer' = [killer EXCEPT !.pc = IF owner = 0 THEN "none" ELSE "kill", !.pid = owner, !.victim = owner]
    /\ child' = Probed
    /\ connection' = [connection EXCEPT ![Probe] = "closed"]
    /\ UNCHANGED <<client, owner>>

\* KillHandler in the process p: it writes to the exit notifier (PipeNotifier::Notify).
KillHandler(p) == child' = [child EXCEPT ![p].exit = TRUE]

\* kill(SIGTERM): the handler writes to the exit notifier.
SendSignal ==
    /\ killer.pc = "kill"
    /\ \/ /\ child[killer.pid].pc = "exited"
          /\ killer' = [killer EXCEPT !.pc = "true"]
          /\ UNCHANGED child
       \/ /\ child[killer.pid].pc # "exited"
          /\ killer' = [killer EXCEPT !.pc = "poll"]
          /\ KillHandler(killer.pid)
    /\ UNCHANGED <<client, connection, owner>>

\* Mutant: the daemon is taken for gone when it could not be seen to stay.
PollOnce ==
    /\ killer.pc = "poll"
    /\ killer' = [killer EXCEPT !.pc = "true"]
    /\ child' = Probed
    /\ UNCHANGED <<client, connection, owner>>

Poll ==
    /\ killer.pc = "poll"
    /\ killer' = [killer EXCEPT
          !.pc = IF owner # killer.pid THEN "true" ELSE IF killer.tries = 1 THEN "false" ELSE @,
          !.pid = owner, !.tries = @ - 1]
    /\ child' = Probed
    /\ UNCHANGED <<client, connection, owner>>

------------------------------------------------------------------------------
SpawnIfNeeded(p) ==
    ConnectToUnixDomainSocket(p) \/ ReadWelcome(p) \/ Fork(p) \/ OnDaemonReady(p)

Serve(p) ==
    Bind(p) \/ ExitWithoutSocket(p) \/ Accept(p) \/ OnClientConnected(p) \/ Exit(p)

Kill == FindVictim \/ SendSignal \/ Poll

Next ==
    \/ \E p \in Process : SpawnIfNeeded(p) \/ Serve(p) \/ HandleRequest(p)
    \/ Kill

Spec == Init /\ [][Next]_vars

\* Kill reports success only when the daemon it signalled has stopped serving: it has
\* left the accept loop and no longer owns the socket, even if another one has been
\* spawned while Kill slept between its polls.  (daemon.h: "Kills the daemon and blocks
\* until it exited"; the process may in fact still be tearing down.)
KillIsEffective ==
    killer.pc = "true" =>
        owner # killer.victim /\ child[killer.victim].pc \in {"teardown", "exited"}

\* Nobody is turned away by a daemon that is not being killed: a client fails or aborts
\* only if the kill struck, or it ran out of attempts while no daemon had the socket.
ServedUnlessKilled ==
    \A p \in Process : client[p].pc \in {"failed", "aborted"} =>
        \/ client[p].tries = 1 /\ connection[p] = "none"
        \/ \E q \in Process : child[q].exit
==============================================================================

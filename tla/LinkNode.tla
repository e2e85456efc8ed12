------------------------------ MODULE LinkNode ------------------------------
(***************************************************************************)
(* obc-link-node: the single-client TCP server (tcp_server.c) driven by    *)
(* the main loop of main.c, the peers that connect to it, and the signal   *)
(* handler, which may run between any two system calls of the main program *)
(* and closes the descriptors under its hands.                             *)
(*                                                                         *)
(* Descriptors are numbers, and the kernel gives out the lowest that is    *)
(* free.  A peer sends one configuration in two segments; what recv        *)
(* returns is any of the segments that have arrived.                       *)
(*                                                                         *)
(* Everything received is acknowledged.  Where the peer has hung up, its   *)
(* kernel answers the acknowledgement by a reset; once that has come, the  *)
(* next send raises SIGPIPE, which main does not handle.  (A peer that     *)
(* hangs up with an acknowledgement unread resets at once; the first send  *)
(* after that fails without the signal, which changes nothing, and of two  *)
(* segments there is no further one.)                                      *)
(***************************************************************************)
EXTENDS Naturals, Sequences

CONSTANT Peers

ASSUME PeersAssumption == Peers \cap {"listen", "nothing"} = {}

VARIABLES
  pc,         \* where the main program is
  running,    \* the flag of the main loop
  server,     \* "none", "live" or "freed"
  listenFd, clientFd,   \* the server's descriptors; Closed is -1
  newFd,      \* what accept returned
  ready,      \* select's answer: subset of {"listen", "client"}
  table,      \* descriptor -> what it is open on, Nothing if it is free
  backlog,    \* peers waiting to be accepted
  peers,      \* peer -> what it has done
  served,     \* history: the peer client_fd was accepted for
  told        \* history: the last callback, connected or disconnected

vars == <<pc, running, server, listenFd, clientFd, newFd, ready, table,
          backlog, peers, served, told>>

fdVars == <<listenFd, clientFd, newFd, table>>
peerVars == <<backlog, peers>>
history == <<served, told>>

Closed == 0
Nothing == "nothing"
Fds == 1 .. 3                     \* listening, serving, just accepted
Segments == 2

Init ==
  /\ pc = "create" /\ running = TRUE /\ server = "none"
  /\ listenFd = Closed /\ clientFd = Closed /\ newFd = Closed
  /\ ready = {}
  /\ table = [f \in Fds |-> Nothing]
  /\ backlog = <<>>
  /\ peers = [p \in Peers |-> [sent |-> 0, read |-> 0, open |-> FALSE, tried |-> FALSE,
                            rst |-> "no"]]
  /\ served = Nothing /\ told = "disconnected"

FreeFds == {f \in Fds : table[f] = Nothing}
Lowest == CHOOSE f \in FreeFds : \A g \in FreeFds : f <= g

\* What client_fd is open on.
Client == IF clientFd = Closed THEN Nothing ELSE table[clientFd]

\* close(fd); of a descriptor that is not open, nothing.
After(t, fd) == [f \in Fds |-> IF f = fd THEN Nothing ELSE t[f]]
-----------------------------------------------------------------------------
(* main: from the creation to the loop.                                    *)

\* tcp_server_create and the socket of tcp_server_start.
Create ==
  /\ pc = "create"
  /\ server' = "live"
  /\ listenFd' = Lowest /\ table' = [table EXCEPT ![Lowest] = "listen"]
  /\ pc' = "bind"
  /\ UNCHANGED <<running, clientFd, newFd, ready, peerVars, history>>

\* bind, listen and set_nonblocking; a failure leaves listen_fd as it is.
StartFails ==
  /\ pc = "bind"
  /\ table' = After(table, listenFd)
  /\ pc' = "stop client"
  /\ UNCHANGED <<running, server, listenFd, clientFd, newFd, ready, peerVars, history>>
Started ==
  /\ pc = "bind" /\ listenFd # Closed
  /\ pc' = "loop"
  /\ UNCHANGED <<running, server, fdVars, ready, peerVars, history>>
-----------------------------------------------------------------------------
(* tcp_server_process.                                                     *)

LoopIgnoresFlag ==                \* mutant: the loop does not test its flag
  /\ pc = "loop"
  /\ pc' = IF listenFd = Closed THEN "loop" ELSE "select"
  /\ UNCHANGED <<running, server, fdVars, ready, peerVars, history>>
\* The loop's condition and the first line of tcp_server_process.
Loop ==
  /\ pc = "loop"
  /\ pc' = IF ~running THEN "stop client"
           ELSE IF listenFd = Closed THEN "loop" ELSE "select"
  /\ UNCHANGED <<running, server, fdVars, ready, peerVars, history>>

HasInput(p) == peers[p].read < peers[p].sent \/ ~peers[p].open
ClientInput == \E p \in Peers : Client = p /\ HasInput(p)

\* select with a timeout of zero.  Where the handler has closed the
\* descriptors meanwhile, FD_SET and FD_ISSET of -1 may say anything.
Select ==
  /\ pc = "select"
  /\ \E answer \in SUBSET {"listen", "client"} :
       /\ listenFd # Closed => ("listen" \in answer <=> backlog # <<>>)
       /\ clientFd # Closed => ("client" \in answer <=> ClientInput)
       /\ clientFd = Closed => "client" \notin answer
       /\ ready' = answer
       /\ pc' = IF answer = {} THEN "loop" ELSE "accept"
  /\ UNCHANGED <<running, server, fdVars, peerVars, history>>

AcceptOnlyIdle ==                 \* mutant: a second client is left waiting
  /\ pc = "accept"
  /\ IF "listen" \in ready /\ clientFd = Closed /\ listenFd # Closed /\ backlog # <<>>
     THEN /\ newFd' = Lowest
          /\ table' = [table EXCEPT ![Lowest] = Head(backlog)]
          /\ backlog' = Tail(backlog)
          /\ pc' = "replace"
     ELSE /\ pc' = "recv"
          /\ UNCHANGED <<newFd, table, backlog>>
  /\ UNCHANGED <<running, server, listenFd, clientFd, ready, peers, history>>
\* accept, if the listening socket is ready.
Accept ==
  /\ pc = "accept"
  /\ IF "listen" \in ready /\ listenFd # Closed /\ backlog # <<>>
     THEN /\ newFd' = Lowest
          /\ table' = [table EXCEPT ![Lowest] = Head(backlog)]
          /\ backlog' = Tail(backlog)
          /\ pc' = "replace"
     ELSE /\ pc' = "recv"
          /\ UNCHANGED <<newFd, table, backlog>>
  /\ UNCHANGED <<running, server, listenFd, clientFd, ready, peers, history>>

\* A client that is there already is closed, and its callback called.
ReplaceKeepsOld ==                \* mutant: the old client is not closed
  /\ pc = "replace"
  /\ told' = IF clientFd # Closed THEN "disconnected" ELSE told
  /\ pc' = "adopt"
  /\ UNCHANGED <<table, running, server, listenFd, clientFd, newFd, ready, peerVars,
                 served>>
ReplaceSilently ==                \* mutant: its callback is left out
  /\ pc = "replace"
  /\ table' = After(table, clientFd)
  /\ pc' = "adopt"
  /\ UNCHANGED <<running, server, listenFd, clientFd, newFd, ready, peerVars, history>>
Replace ==
  /\ pc = "replace"
  /\ table' = After(table, clientFd)
  /\ told' = IF clientFd # Closed THEN "disconnected" ELSE told
  /\ pc' = "adopt"
  /\ UNCHANGED <<running, server, listenFd, clientFd, newFd, ready, peerVars,
                 served>>

\* client_fd = new_fd.
Adopt ==
  /\ pc = "adopt"
  /\ clientFd' = newFd /\ newFd' = Closed
  /\ served' = table[newFd]
  /\ pc' = "greet"
  /\ UNCHANGED <<running, server, listenFd, ready, table, peerVars, told>>

\* The connected callback.
Greet ==
  /\ pc = "greet"
  /\ told' = "connected"
  /\ ready' = ready \ {"client"}     \* read_fds knows the old descriptor only
  /\ pc' = "recv"
  /\ UNCHANGED <<running, server, fdVars, peerVars, served>>

\* The test before recv.
TestClient ==
  /\ pc = "recv"
  /\ pc' = IF clientFd # Closed /\ "client" \in ready THEN "receiving" ELSE "loop"
  /\ UNCHANGED <<running, server, fdVars, ready, peerVars, history>>

\* recv, and the data callback.
Receive ==
  /\ pc = "receiving"
  /\ \E p \in Peers :
       /\ Client = p /\ peers[p].read < peers[p].sent
       /\ \E n \in 1 .. peers[p].sent - peers[p].read :
            peers' = [peers EXCEPT ![p].read = @ + n]
  /\ pc' = "ack"
  /\ UNCHANGED <<running, server, fdVars, ready, backlog, history>>

\* The acknowledgement.  A peer that has hung up will answer it by a reset.
ResetBy(p) == Client = p /\ peers[p].rst = "come"
Acknowledged(p) ==
  IF Client = p /\ ~peers[p].open /\ peers[p].rst = "no"
  THEN [peers[p] EXCEPT !.rst = "due"] ELSE peers[p]
AcknowledgeTwice ==               \* mutant: it is sent in two pieces
  /\ pc = "ack" /\ \A p \in Peers : ~ResetBy(p)
  /\ peers' = [p \in Peers |-> Acknowledged(p)]
  /\ pc' \in {"ack", "loop"}
  /\ UNCHANGED <<running, server, fdVars, ready, backlog, history>>
Acknowledge ==
  /\ pc = "ack" /\ \A p \in Peers : ~ResetBy(p)
  /\ peers' = [p \in Peers |-> Acknowledged(p)]
  /\ pc' = "loop"
  /\ UNCHANGED <<running, server, fdVars, ready, backlog, history>>
\* send without MSG_NOSIGNAL on a connection that was reset: SIGPIPE ends the
\* program, and the kernel closes what it had open.
BrokenPipe ==
  /\ pc = "ack" /\ \E p \in Peers : ResetBy(p)
  /\ pc' = "killed"
  /\ table' = [f \in Fds |-> Nothing] /\ listenFd' = Closed /\ clientFd' = Closed
  /\ UNCHANGED <<running, server, newFd, ready, peerVars, history>>
\* recv says that the peer has closed, or fails: on a descriptor the handler
\* has closed, or one that is -1 by now.
ReceiveNothing ==
  /\ pc = "receiving"
  /\ \A p \in Peers : Client = p => peers[p].read = peers[p].sent
  /\ table' = After(table, clientFd)
  /\ pc' = "drop"
  /\ UNCHANGED <<running, server, listenFd, clientFd, newFd, ready, peerVars, history>>

\* client_fd = -1 and the disconnected callback.
DropKeepsFd ==                    \* mutant: client_fd keeps its number
  /\ pc = "drop"
  /\ told' = "disconnected"
  /\ pc' = "loop"
  /\ UNCHANGED <<running, server, fdVars, ready, peerVars, served>>
Drop ==
  /\ pc = "drop"
  /\ clientFd' = Closed
  /\ told' = "disconnected"
  /\ pc' = "loop"
  /\ UNCHANGED <<running, server, listenFd, newFd, table, ready, peerVars,
                 served>>
-----------------------------------------------------------------------------
(* tcp_server_destroy at the end of main.                                  *)

StopClient ==
  /\ pc = "stop client"
  /\ table' = After(table, clientFd) /\ clientFd' = Closed
  /\ pc' = "stop listen"
  /\ UNCHANGED <<running, server, listenFd, newFd, ready, peerVars, history>>
StopListen ==
  /\ pc = "stop listen"
  /\ table' = After(table, listenFd) /\ listenFd' = Closed
  /\ pc' = "free"
  /\ UNCHANGED <<running, server, clientFd, newFd, ready, peerVars, history>>
Free ==
  /\ pc = "free"
  /\ server' = "freed"
  /\ pc' = "exit"
  /\ UNCHANGED <<running, fdVars, ready, peerVars, history>>
Exit ==
  /\ pc = "exit"
  /\ pc' = "done"
  /\ UNCHANGED <<running, server, fdVars, ready, peerVars, history>>
-----------------------------------------------------------------------------
(* The signal handler, and the peers.                                      *)

\* A second signal after tcp_server_destroy finds the freed server; what that
\* does is not modelled, it is taken to do nothing.
Signal ==
  /\ pc \notin {"done", "killed"}
  /\ running' = FALSE
  /\ IF server = "live"
     THEN /\ table' = After(After(table, clientFd), listenFd)
          /\ clientFd' = Closed /\ listenFd' = Closed
     ELSE UNCHANGED <<table, clientFd, listenFd>>
  /\ UNCHANGED <<pc, server, newFd, ready, peerVars, history>>

Connect(p) ==
  /\ \E f \in Fds : table[f] = "listen"
  /\ ~peers[p].tried
  /\ peers' = [peers EXCEPT ![p].open = TRUE, ![p].tried = TRUE]
  /\ backlog' = Append(backlog, p)
  /\ UNCHANGED <<pc, running, server, fdVars, ready, history>>
Send(p) ==
  /\ peers[p].open /\ peers[p].sent < Segments
  /\ peers' = [peers EXCEPT ![p].sent = @ + 1]
  /\ UNCHANGED <<pc, running, server, fdVars, ready, backlog, history>>
Hangup(p) ==
  /\ peers[p].open
  /\ peers' = [peers EXCEPT ![p].open = FALSE]
  /\ UNCHANGED <<pc, running, server, fdVars, ready, backlog, history>>

Reset(p) ==
  /\ peers[p].rst = "due"
  /\ peers' = [peers EXCEPT ![p].rst = "come"]
  /\ UNCHANGED <<pc, running, server, fdVars, ready, backlog, history>>

Main ==
  \/ Create \/ StartFails \/ Started
  \/ Loop \/ Select \/ Accept \/ Replace \/ Adopt \/ Greet
  \/ TestClient \/ Receive \/ Acknowledge \/ BrokenPipe
  \/ ReceiveNothing \/ Drop
  \/ StopClient \/ StopListen \/ Free \/ Exit

Peer == \E p \in Peers : Connect(p) \/ Send(p) \/ Hangup(p) \/ Reset(p)

Next == Main \/ Signal \/ Peer

Spec == Init /\ [][Next]_vars

\* The main program runs; nobody has to connect, to send or to press Ctrl+C.
FairSpec == Spec /\ WF_vars(Main)
-----------------------------------------------------------------------------
Pcs == {"create", "bind", "loop", "select", "accept", "replace", "adopt",
        "greet", "recv", "receiving", "ack", "drop", "stop client", "stop listen",
        "free", "exit", "done", "killed"}
FdOrClosed == Fds \cup {Closed}
PeerStates ==
  [sent : 0 .. Segments, read : 0 .. Segments, open : BOOLEAN, tried : BOOLEAN,
   rst : {"no", "due", "come"}]

TypeOK ==
  /\ pc \in Pcs /\ running \in BOOLEAN
  /\ server \in {"none", "live", "freed"}
  /\ listenFd \in FdOrClosed /\ clientFd \in FdOrClosed /\ newFd \in FdOrClosed
  /\ ready \subseteq {"listen", "client"}
  /\ table \in [Fds -> Peers \cup {"listen", Nothing}]
  /\ backlog \in Seq(Peers)
  /\ peers \in [Peers -> PeerStates]
  /\ \A p \in Peers : peers[p].read <= peers[p].sent
  /\ served \in Peers \cup {Nothing}
  /\ told \in {"connected", "disconnected"}

\* The kernel reuses descriptor numbers, and client_fd is closed in four
\* places, one of them a signal handler: its number never comes to stand for
\* another connection than the one it was accepted for.
ClientFdIsOwn ==
  Client \in {served, Nothing}

\* Every descriptor is closed when the program ends by itself, whenever the
\* signal came.
AllClosedAtExit == pc = "done" => \A f \in Fds : table[f] = Nothing

\* The application hears of connections and disconnections in turn, until a
\* signal closes a client behind its back.
CallbacksAlternate ==
  [][/\ Greet /\ running => told = "disconnected"
     /\ Drop => told = "connected"
     /\ Replace /\ clientFd # Closed => told = "connected"]_vars

\* Nothing a peer does brings the server down, hanging up at any moment
\* included, unless what it sent came in more than one piece and it did not wait
\* for the acknowledgement of the first: one acknowledgement is sent for what
\* one recv returns, and it takes two to meet a reset (tcp_server_process).
KilledOnlyBySplit ==
  pc = "killed" =>
    /\ served \in Peers
    /\ ~peers[served].open /\ peers[served].sent > 1

\* A signal ends the program, through tcp_server_destroy.
SignalEnds == ~running ~> pc = "done"

\* A peer that connects is accepted in the end, also while another is being
\* served, unless the program is ended: by a signal, by a start that fails, or by
\* the SIGPIPE of an acknowledgement, which KilledOnlyBySplit is about.
PeerIsAccepted ==
  \A p \in Peers :
    (\E i \in DOMAIN backlog : backlog[i] = p) ~>
      ((\A i \in DOMAIN backlog : backlog[i] # p) \/ ~running \/ pc \in {"done", "killed"})
=============================================================================

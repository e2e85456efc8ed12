---------------------------- MODULE LinkNodeProofs ----------------------------
(***************************************************************************)
(* For every set of peers and a signal between any two system calls: the   *)
(* descriptor numbers of the server never come to stand for a connection   *)
(* they were not accepted for, all are closed at the end, and the          *)
(* callbacks alternate until the signal.  And a peer that sends in one     *)
(* piece cannot bring the server down (Acks).                              *)
(*                                                                         *)
(* The kernel gives closed numbers out again.  What keeps that harmless is *)
(* that a number whose descriptor is closed survives only where nothing is *)
(* accepted before it is overwritten (Stale), and that no descriptor is    *)
(* open without being the listening, the serving or the new one (Held).    *)
(***************************************************************************)
EXTENDS LinkNode, TLAPS

\* Every open descriptor is one of the three that the server knows.
Held ==
  \A f \in Fds : table[f] # Nothing => f \in {listenFd, clientFd, newFd}

\* They are three different ones.
Apart ==
  /\ listenFd # Closed => listenFd # clientFd /\ listenFd # newFd
  /\ clientFd # Closed => clientFd # newFd

\* A number stands for what it was opened for, or for nothing.
Own ==
  /\ listenFd # Closed => table[listenFd] \in {"listen", Nothing}
  /\ clientFd # Closed => table[clientFd] \in {served, Nothing}
  /\ newFd # Closed => table[newFd] \in Peers
  /\ newFd # Closed <=> pc \in {"replace", "adopt"}

\* Where a number may be that of a closed descriptor.
Stale ==
  /\ clientFd # Closed =>
       (table[clientFd] = Nothing <=> pc \in {"adopt", "drop"})
  /\ listenFd # Closed /\ table[listenFd] = Nothing =>
       pc \in {"stop client", "stop listen"}

\* The server before the start of the loop and after its end.
Phases ==
  /\ server = "none" <=> pc = "create"
  /\ pc = "create" => listenFd = Closed
  /\ pc \in {"create", "bind", "stop listen", "free", "exit", "done"} => clientFd = Closed
  /\ pc \in {"free", "exit", "done"} => listenFd = Closed

\* What the application was told last fits the descriptor, until a signal.
Callbacks ==
  /\ pc \in {"receiving", "drop"} => told = "connected"
  /\ clientFd # Closed /\ pc \notin {"adopt", "greet"} => told = "connected"
  /\ running /\ told = "connected" /\ pc # "killed" =>
       clientFd # Closed /\ pc \notin {"adopt", "greet"}
  /\ running /\ pc = "greet" => clientFd # Closed
  /\ running /\ pc = "stop client" => clientFd = Closed

IInv == TypeOK /\ Held /\ Apart /\ Own /\ Stale /\ Phases /\ Callbacks

\* How far the acknowledgements have come: a reset is the answer to one, and the
\* next is sent only for a segment that was read since.
ReadSoFar ==
  \A p \in Peers :
    /\ peers[p].open => peers[p].tried
    /\ peers[p].sent > 0 => peers[p].tried
    /\ peers[p].rst # "no" => ~peers[p].open /\ peers[p].tried /\ peers[p].read > 0
Acks ==
  /\ ReadSoFar
  /\ pc = "ack" => \A p \in Peers : Client = p =>
       /\ peers[p].read > 0
       /\ peers[p].rst # "no" => peers[p].read > 1
  /\ pc = "killed" => \A f \in Fds : table[f] = Nothing
  /\ KilledOnlyBySplit

-----------------------------------------------------------------------------
\* The numbers of descriptors.
LEMMA Numbers ==
  /\ Fds = {1, 2, 3} /\ Closed \notin Fds
  /\ \A x : x \in FdOrClosed <=> x \in Fds \/ x = Closed
BY DEF Fds, Closed, FdOrClosed

\* The kernel has a descriptor to give while two at most are open.
LEMMA LowestIsFree ==
  ASSUME NEW a, NEW b,
         \A f \in Fds : table[f] # Nothing => f \in {a, b}
  PROVE  Lowest \in Fds /\ table[Lowest] = Nothing
<1>1. \E f \in FreeFds : TRUE
  BY DEF FreeFds, Fds
<1>2. FreeFds \subseteq 1 .. 3
  BY DEF FreeFds, Fds
<1>3. \E f \in FreeFds : \A g \in FreeFds : f <= g
  BY <1>1, <1>2
<1>4. Lowest \in FreeFds
  BY <1>3 DEF Lowest
<1> QED BY <1>4 DEF FreeFds

\* The table after a close.
LEMMA AfterClose ==
  ASSUME NEW t \in [Fds -> Peers \cup {"listen", Nothing}], NEW fd
  PROVE  /\ After(t, fd) \in [Fds -> Peers \cup {"listen", Nothing}]
         /\ \A f \in Fds : After(t, fd)[f] = IF f = fd THEN Nothing ELSE t[f]
BY DEF After

LEMMA InitIInv == ASSUME Init PROVE IInv
<1>1. <<>> \in Seq(Peers)
  OBVIOUS
<1>2. backlog \in Seq(Peers)
  BY <1>1, Zenon DEF Init
<1>3. peers \in [Peers -> PeerStates] /\ \A p \in Peers : peers[p].read <= peers[p].sent
  BY DEF Init, PeerStates, Segments
<1>4. TypeOK
  BY <1>2, <1>3 DEF Init, TypeOK, Pcs, FdOrClosed
<1>5. Held /\ Apart /\ Own /\ Stale /\ Phases /\ Callbacks
  BY DEF Init, Held, Apart, Own, Stale, Phases, Callbacks
<1> QED BY <1>4, <1>5 DEF IInv
-----------------------------------------------------------------------------
\* The start and the end of main.
LEMMA MainEndsIInv ==
  ASSUME IInv,
         Create \/ StartFails \/ Started \/ StopClient \/ StopListen \/ Free \/ Exit
  PROVE  IInv'
<1> USE PeersAssumption, Numbers
<1>t. TypeOK /\ table \in [Fds -> Peers \cup {"listen", Nothing}]
  BY DEF IInv, TypeOK
<1>1. CASE Create
  <2>1. /\ listenFd = Closed /\ clientFd = Closed /\ newFd = Closed
        /\ \A f \in Fds : table[f] = Nothing
    BY <1>1, <1>t DEF Create, IInv, Phases, Own, Held
  <2>2. Lowest \in Fds
    BY <2>1, LowestIsFree
  <2>3. /\ listenFd' \in Fds /\ table' = [table EXCEPT ![listenFd'] = "listen"]
        /\ server' = "live" /\ pc' = "bind" /\ told' = told
        /\ UNCHANGED <<running, clientFd, newFd, ready, backlog, peers, served>>
    BY <1>1, <2>2 DEF Create, peerVars, history
  <2>4. TypeOK'
    BY <1>t, <2>3 DEF TypeOK, Pcs
  <2>5. Callbacks'
    BY <1>1, <2>1, <2>3 DEF Create, IInv, Callbacks
  <2>6. Phases'
    BY <2>1, <2>3 DEF IInv, Phases
  <2> QED BY <1>t, <2>1, <2>3, <2>4, <2>5, <2>6
    DEF IInv, Held, Apart, Own, Stale, Nothing
<1>2. CASE StartFails
  <2>1. TypeOK'
    BY <1>2, <1>t, AfterClose DEF StartFails, TypeOK, Pcs, peerVars, history
  <2>2. \A f \in Fds : table'[f] = IF f = listenFd THEN Nothing ELSE table[f]
    BY <1>2 DEF StartFails, After
  <2> QED BY <1>2, <2>1, <2>2, <1>t
    DEF StartFails, IInv, Held, Apart, Own, Stale, Phases, Callbacks, history, TypeOK
<1>3. CASE Started \/ Free \/ Exit
  <2>1. UNCHANGED <<running, listenFd, clientFd, newFd, ready, table, backlog,
                    peers, served, told>>
    BY <1>3 DEF Started, Free, Exit, fdVars, peerVars, history
  <2>2. TypeOK'
    BY <1>3, <1>t, <2>1 DEF Started, Free, Exit, TypeOK, Pcs
  <2>3. \/ pc = "bind" /\ pc' = "loop" /\ server' = server /\ listenFd # Closed
        \/ pc = "free" /\ pc' = "exit" /\ server' = "freed"
        \/ pc = "exit" /\ pc' = "done" /\ server' = server
    BY <1>3 DEF Started, Free, Exit
  <2> QED BY <2>1, <2>2, <2>3 DEF IInv, Held, Apart, Own, Stale, Phases, Callbacks
<1>4. CASE StopClient
  <2>1. TypeOK'
    BY <1>4, <1>t, AfterClose DEF StopClient, TypeOK, Pcs, peerVars, history
  <2>2. \A f \in Fds : table'[f] = IF f = clientFd THEN Nothing ELSE table[f]
    BY <1>4 DEF StopClient, After
  <2>3. /\ pc = "stop client" /\ pc' = "stop listen" /\ clientFd' = Closed
        /\ UNCHANGED <<running, server, listenFd, newFd, served, told>>
    BY <1>4 DEF StopClient, history
  <2>4. listenFd # Closed => listenFd # clientFd /\ listenFd \in Fds
    BY <1>t DEF IInv, Apart, TypeOK
  <2>5. Callbacks'
    BY <2>3 DEF IInv, Callbacks
  <2> QED BY <2>1, <2>2, <2>3, <2>4, <2>5
    DEF IInv, Held, Apart, Own, Stale, Phases
<1>5. CASE StopListen
  <2>1. TypeOK'
    BY <1>5, <1>t, AfterClose DEF StopListen, TypeOK, Pcs, peerVars, history
  <2>2. \A f \in Fds : table'[f] = IF f = listenFd THEN Nothing ELSE table[f]
    BY <1>5 DEF StopListen, After
  <2> QED BY <1>5, <2>1, <2>2, <1>t
    DEF StopListen, IInv, Held, Apart, Own, Stale, Phases, Callbacks, history, TypeOK
<1> QED BY <1>1, <1>2, <1>3, <1>4, <1>5

\* The steps of tcp_server_process that open or close nothing.
LEMMA QuietIInv ==
  ASSUME IInv, Loop \/ Select \/ Greet \/ TestClient \/ Receive \/ Acknowledge
  PROVE  IInv'
<1>1. CASE Loop
  BY <1>1 DEF Loop, IInv, TypeOK, Pcs, Held, Apart, Own, Stale, Phases,
     Callbacks, fdVars, peerVars, history
<1>2. CASE Select
  <2>1. /\ pc = "select" /\ pc' \in {"loop", "accept"}
        /\ ready' \subseteq {"listen", "client"}
        /\ UNCHANGED <<running, server, listenFd, clientFd, newFd, table, backlog,
                       peers, served, told>>
    BY <1>2 DEF Select, fdVars, peerVars, history
  <2> QED BY <2>1 DEF IInv, TypeOK, Pcs, Held, Apart, Own, Stale, Phases, Callbacks
<1>3. CASE Greet
  BY <1>3 DEF Greet, IInv, TypeOK, Pcs, Held, Apart, Own, Stale, Phases,
     Callbacks, fdVars, peerVars, history
<1>4. CASE TestClient
  BY <1>4 DEF TestClient, IInv, TypeOK, Pcs, Held, Apart, Own, Stale, Phases,
     Callbacks, fdVars, peerVars, history
<1>5. CASE Receive
  <2>0. PICK p \in Peers : \E n \in 1 .. peers[p].sent - peers[p].read :
          peers' = [peers EXCEPT ![p].read = @ + n]
    BY <1>5 DEF Receive
  <2>1. PICK n \in 1 .. peers[p].sent - peers[p].read :
          peers' = [peers EXCEPT ![p].read = @ + n]
    BY <2>0
  <2>2. peers \in [Peers -> PeerStates] /\ \A q \in Peers : peers[q].read <= peers[q].sent
    BY DEF IInv, TypeOK
  <2>3. peers[p].read + n \in 0 .. Segments /\ peers[p].read + n <= peers[p].sent
    BY <2>2 DEF PeerStates, Segments
  <2>4. peers' \in [Peers -> PeerStates] /\ \A q \in Peers : peers'[q].read <= peers'[q].sent
    BY <2>1, <2>2, <2>3 DEF PeerStates
  <2>5. TypeOK'
    BY <1>5, <2>4 DEF Receive, IInv, TypeOK, Pcs, fdVars, history
  <2> QED BY <1>5, <2>5 DEF Receive, IInv, Held, Apart, Own, Stale, Phases,
        Callbacks, fdVars, history
<1>6. CASE Acknowledge
  <2>1. peers \in [Peers -> PeerStates] /\ \A q \in Peers : peers[q].read <= peers[q].sent
    BY DEF IInv, TypeOK
  <2>2. peers' \in [Peers -> PeerStates] /\ \A q \in Peers : peers'[q].read <= peers'[q].sent
    <3>1. peers' = [q \in Peers |-> Acknowledged(q)]
      BY <1>6 DEF Acknowledge
    <3>2. ASSUME NEW q \in Peers
          PROVE  Acknowledged(q) \in PeerStates /\ Acknowledged(q).read <= Acknowledged(q).sent
      BY <2>1 DEF Acknowledged, PeerStates
    <3> QED BY <3>1, <3>2
  <2>3. TypeOK'
    BY <1>6, <2>2 DEF Acknowledge, IInv, TypeOK, Pcs, fdVars, history
  <2> QED BY <1>6, <2>3 DEF Acknowledge, IInv, Held, Apart, Own, Stale, Phases,
        Callbacks, fdVars, history
<1> QED BY <1>1, <1>2, <1>3, <1>4, <1>5, <1>6

\* SIGPIPE closes everything.
LEMMA BrokenPipeIInv == ASSUME IInv, BrokenPipe PROVE IInv'
<1> USE PeersAssumption, Numbers
<1>1. /\ pc = "ack" /\ pc' = "killed" /\ listenFd' = Closed /\ clientFd' = Closed
      /\ table' = [f \in Fds |-> Nothing]
      /\ UNCHANGED <<running, server, newFd, ready, backlog, peers, served, told>>
  BY DEF BrokenPipe, peerVars, history
<1>2. TypeOK'
  BY <1>1 DEF IInv, TypeOK, Pcs
<1>3. newFd = Closed
  BY <1>1 DEF IInv, Own
<1> QED BY <1>1, <1>2, <1>3 DEF IInv, Held, Apart, Own, Stale, Phases, Callbacks

\* accept, and the change of the client.
LEMMA AcceptIInv ==
  ASSUME IInv, Accept \/ Replace \/ Adopt \/ ReceiveNothing \/ Drop
  PROVE  IInv'
<1> USE PeersAssumption, Numbers
<1>t. TypeOK /\ table \in [Fds -> Peers \cup {"listen", Nothing}]
  BY DEF IInv, TypeOK
<1>1. CASE Accept
  <2>1. CASE UNCHANGED <<newFd, table, backlog>> /\ pc' = "recv"
    BY <1>1, <2>1 DEF Accept, IInv, TypeOK, Pcs, Held, Apart, Own, Stale,
       Phases, Callbacks, history
  <2>2. CASE /\ backlog # <<>> /\ newFd' = Lowest
             /\ table' = [table EXCEPT ![Lowest] = Head(backlog)]
             /\ backlog' = Tail(backlog) /\ pc' = "replace"
    <3>1. newFd = Closed /\ pc = "accept"
      BY <1>1 DEF Accept, IInv, Own
    <3>2. Lowest \in Fds /\ table[Lowest] = Nothing
      BY <3>1, LowestIsFree DEF IInv, Held
    <3>3. Lowest # clientFd /\ Lowest # listenFd
      BY <3>1, <3>2 DEF IInv, Stale
    <3>4. Head(backlog) \in Peers /\ Tail(backlog) \in Seq(Peers)
      BY <2>2, <1>t DEF TypeOK
    <3>5. /\ newFd' \in Fds /\ newFd' # clientFd /\ newFd' # listenFd
          /\ table' = [table EXCEPT ![newFd'] = Head(backlog)]
          /\ UNCHANGED <<running, server, listenFd, clientFd, ready, peers, served, told>>
      BY <1>1, <2>2, <3>2, <3>3 DEF Accept, history
    <3>6. TypeOK'
      <4>1. table' \in [Fds -> Peers \cup {"listen", Nothing}]
        BY <1>t, <3>4, <3>5
      <4>2. backlog' \in Seq(Peers) /\ pc' \in Pcs
        BY <2>2, <3>4 DEF Pcs
      <4>3. newFd' \in FdOrClosed
        BY <3>5
      <4>4. peers' = peers /\ UNCHANGED <<running, server, listenFd, clientFd, ready, served, told>>
        BY <3>5
      <4> QED BY <1>t, <4>1, <4>2, <4>3, <4>4 DEF TypeOK
    <3>7. table'[newFd'] \in Peers /\ \A f \in Fds \ {newFd'} : table'[f] = table[f]
      BY <1>t, <3>4, <3>5
    <3> QED BY <1>t, <2>2, <3>1, <3>5, <3>6, <3>7
      DEF IInv, Held, Apart, Own, Stale, Phases, Callbacks, TypeOK
  <2> QED BY <1>1, <2>1, <2>2 DEF Accept
<1>2. CASE Replace
  <2>1. TypeOK'
    BY <1>2, <1>t, AfterClose DEF Replace, TypeOK, Pcs, peerVars
  <2>2. \A f \in Fds : table'[f] = IF f = clientFd THEN Nothing ELSE table[f]
    BY <1>2, <1>t, AfterClose DEF Replace
  <2> QED BY <1>2, <2>1, <2>2, <1>t
    DEF Replace, IInv, Held, Apart, Own, Stale, Phases, Callbacks, TypeOK
<1>3. CASE Adopt
  <2>1. newFd \in Fds /\ table[newFd] \in Peers
    BY <1>3, <1>t DEF Adopt, IInv, Own, TypeOK
  <2>2. TypeOK'
    BY <1>3, <1>t, <2>1 DEF Adopt, TypeOK, Pcs, peerVars
  <2> QED BY <1>3, <2>1, <2>2, <1>t
    DEF Adopt, IInv, Held, Apart, Own, Stale, Phases, Callbacks, Nothing
<1>4. CASE ReceiveNothing
  <2>1. TypeOK'
    BY <1>4, <1>t, AfterClose DEF ReceiveNothing, TypeOK, Pcs, peerVars, history
  <2>2. \A f \in Fds : table'[f] = IF f = clientFd THEN Nothing ELSE table[f]
    BY <1>4, <1>t, AfterClose DEF ReceiveNothing
  <2> QED BY <1>4, <2>1, <2>2, <1>t
    DEF ReceiveNothing, IInv, Held, Apart, Own, Stale, Phases, Callbacks, history, TypeOK
<1>5. CASE Drop
  <2>1. TypeOK'
    BY <1>5, <1>t DEF Drop, TypeOK, Pcs, peerVars
  <2> QED BY <1>5, <2>1, <1>t
    DEF Drop, IInv, Held, Apart, Own, Stale, Phases, Callbacks, TypeOK
<1> QED BY <1>1, <1>2, <1>3, <1>4, <1>5

\* The handler, between any two steps of the others.
LEMMA SignalIInv == ASSUME IInv, Signal PROVE IInv'
<1> USE PeersAssumption, Numbers
<1>t. TypeOK /\ table \in [Fds -> Peers \cup {"listen", Nothing}]
  BY DEF IInv, TypeOK
<1>1. CASE server # "live"
  BY <1>1 DEF Signal, IInv, TypeOK, Held, Apart, Own, Stale, Phases, Callbacks,
     peerVars, history
<1>2. CASE server = "live"
  <2> DEFINE t1 == After(table, clientFd)
  <2>1. /\ t1 \in [Fds -> Peers \cup {"listen", Nothing}]
        /\ \A f \in Fds : t1[f] = IF f = clientFd THEN Nothing ELSE table[f]
    BY <1>t, AfterClose
  <2>2. table' = After(t1, listenFd) /\ clientFd' = Closed /\ listenFd' = Closed
    BY <1>2 DEF Signal
  <2> HIDE DEF t1
  <2>3. /\ table' \in [Fds -> Peers \cup {"listen", Nothing}]
        /\ \A f \in Fds : table'[f] =
             IF f \in {clientFd, listenFd} THEN Nothing ELSE table[f]
    BY <2>1, <2>2, AfterClose
  <2>4. TypeOK'
    BY <1>t, <1>2, <2>2, <2>3 DEF Signal, TypeOK, peerVars, history
  <2> QED BY <1>t, <1>2, <2>2, <2>3, <2>4
    DEF Signal, IInv, Held, Apart, Own, Stale, Phases, Callbacks, history, TypeOK
<1> QED BY <1>1, <1>2

\* The peers change nothing the server owns.
LEMMA PeerIInv == ASSUME IInv, Peer PROVE IInv'
<1>1. PICK p \in Peers : Connect(p) \/ Send(p) \/ Hangup(p) \/ Reset(p)
  BY DEF Peer
<1>2. UNCHANGED <<pc, running, server, listenFd, clientFd, newFd, table, ready, served, told>>
  BY <1>1 DEF Connect, Send, Hangup, Reset, fdVars, history
<1>3. peers \in [Peers -> PeerStates] /\ \A q \in Peers : peers[q].read <= peers[q].sent
  BY DEF IInv, TypeOK
<1>4. peers' \in [Peers -> PeerStates] /\ \A q \in Peers : peers'[q].read <= peers'[q].sent
  <2>1. CASE Connect(p)
    BY <1>3, <2>1 DEF Connect, PeerStates
  <2>2. CASE Hangup(p)
    BY <1>3, <2>2 DEF Hangup, PeerStates
  <2>3. CASE Send(p)
    <3>1. peers[p].sent + 1 \in 0 .. Segments /\ peers[p].read <= peers[p].sent + 1
      BY <1>3, <2>3 DEF Send, PeerStates, Segments
    <3>2. peers' = [peers EXCEPT ![p].sent = peers[p].sent + 1]
      BY <2>3 DEF Send
    <3> QED BY <1>3, <3>1, <3>2 DEF PeerStates
  <2>4. CASE Reset(p)
    BY <1>3, <2>4 DEF Reset, PeerStates
  <2> QED BY <1>1, <2>1, <2>2, <2>3, <2>4
<1>5. backlog' \in Seq(Peers)
  BY <1>1 DEF Connect, Send, Hangup, Reset, IInv, TypeOK
<1>6. TypeOK'
  BY <1>2, <1>4, <1>5 DEF IInv, TypeOK
<1> QED BY <1>2, <1>6 DEF IInv, Held, Apart, Own, Stale, Phases, Callbacks

\* The invariant holds in every state.
LEMMA Inductive == Spec => []IInv
<1>1. IInv /\ [Next]_vars => IInv'
  <2> SUFFICES ASSUME IInv, [Next]_vars PROVE IInv'
    OBVIOUS
  <2>1. CASE Next
    BY <2>1, MainEndsIInv, QuietIInv, BrokenPipeIInv, AcceptIInv, SignalIInv, PeerIInv
    DEF Next, Main
  <2>2. CASE UNCHANGED vars
    BY <2>2 DEF vars, IInv, TypeOK, Held, Apart, Own, Stale, Phases, Callbacks,
       fdVars, peerVars, history
  <2> QED BY <2>1, <2>2
<1> QED BY InitIInv, <1>1, PTL DEF Spec

\* A step that leaves alone what the peers have done keeps Acks, if it ends in
\* neither of the states that Acks is about.
LEMMA AcksKept ==
  ASSUME Acks, UNCHANGED peers, pc' \notin {"ack", "killed"}
  PROVE  Acks'
BY DEF Acks, ReadSoFar, KilledOnlyBySplit

\* The three steps around an acknowledgement.
LEMMA AcknowledgedAcks ==
  ASSUME IInv, Acks, Receive \/ Acknowledge \/ BrokenPipe
  PROVE  Acks'
<1> USE PeersAssumption
<1>t. /\ peers \in [Peers -> PeerStates]
      /\ \A q \in Peers : peers[q].sent \in Nat /\ peers[q].read \in Nat
                         /\ peers[q].read <= peers[q].sent
  BY DEF IInv, TypeOK, PeerStates, Segments
<1>1. CASE Receive
  <2>1. PICK p \in Peers : /\ Client = p
                           /\ \E n \in 1 .. peers[p].sent - peers[p].read :
                                peers' = [peers EXCEPT ![p].read = @ + n]
    BY <1>1 DEF Receive
  <2>2. PICK n \in 1 .. peers[p].sent - peers[p].read :
          peers' = [peers EXCEPT ![p].read = peers[p].read + n]
    BY <2>1
  <2>3. pc' = "ack" /\ Client' = Client
    BY <1>1 DEF Receive, fdVars, Client
  <2>4. \A q \in Peers : /\ peers'[q].open = peers[q].open /\ peers'[q].tried = peers[q].tried
                         /\ peers'[q].sent = peers[q].sent /\ peers'[q].rst = peers[q].rst
                         /\ q # p => peers'[q].read = peers[q].read
    BY <1>t, <2>2 DEF PeerStates
  <2>5. peers'[p].read = peers[p].read + n /\ n >= 1
    BY <1>t, <2>2 DEF PeerStates
  <2>6. peers'[p].read > 0 /\ (peers[p].read > 0 => peers'[p].read > 1)
    BY <1>t, <2>5
  <2>7. \A q \in Peers : peers[q].rst # "no" => peers[q].read > 0
    BY DEF Acks, ReadSoFar
  <2>8. ReadSoFar'
    BY <2>4, <2>6 DEF Acks, ReadSoFar
  <2>9. \A q \in Peers : Client' = q => /\ peers'[q].read > 0
                                        /\ peers'[q].rst # "no" => peers'[q].read > 1
    BY <2>1, <2>3, <2>4, <2>6, <2>7
  <2> QED BY <2>3, <2>8, <2>9 DEF Acks, KilledOnlyBySplit
<1>2. CASE Acknowledge
  <2>1. /\ pc = "ack" /\ pc' = "loop"
        /\ peers' = [p \in Peers |-> Acknowledged(p)]
    BY <1>2 DEF Acknowledge
  <2>2. ASSUME NEW p \in Peers
        PROVE  /\ peers'[p].open => peers'[p].tried
               /\ peers'[p].sent > 0 => peers'[p].tried
               /\ peers'[p].rst # "no" =>
                    ~peers'[p].open /\ peers'[p].tried /\ peers'[p].read > 0
    <3>1. CASE Client = p /\ ~peers[p].open /\ peers[p].rst = "no"
      <4>1. peers'[p] = [peers[p] EXCEPT !.rst = "due"]
        BY <2>1, <3>1 DEF Acknowledged
      <4>2. /\ peers'[p].open = peers[p].open /\ peers'[p].tried = peers[p].tried
            /\ peers'[p].sent = peers[p].sent /\ peers'[p].read = peers[p].read
        BY <1>t, <4>1 DEF PeerStates
      <4>3. peers[p].read > 0
        BY <2>1, <3>1 DEF Acks
      <4>4. peers[p].sent > 0
        BY <1>t, <4>3
      <4> QED BY <3>1, <4>2, <4>3, <4>4 DEF Acks, ReadSoFar
    <3>2. CASE ~(Client = p /\ ~peers[p].open /\ peers[p].rst = "no")
      BY <2>1, <3>2 DEF Acknowledged, Acks, ReadSoFar
    <3> QED BY <3>1, <3>2
  <2>3. ReadSoFar'
    BY <2>2 DEF ReadSoFar
  <2> QED BY <2>1, <2>3 DEF Acks, KilledOnlyBySplit
<1>3. CASE BrokenPipe
  <2>1. PICK p \in Peers : Client = p /\ peers[p].rst = "come"
    BY <1>3 DEF BrokenPipe, ResetBy
  <2>2. /\ pc = "ack" /\ pc' = "killed" /\ peers' = peers /\ served' = served
        /\ table' = [f \in Fds |-> Nothing]
    BY <1>3 DEF BrokenPipe, peerVars, history
  <2>3. served = p
    BY <2>1 DEF IInv, Own, Client, Nothing
  <2>4. peers[p].sent > 1 /\ ~peers[p].open
    <3>1. peers[p].rst # "no"
      BY <2>1
    <3>2. peers[p].read > 1 /\ ~peers[p].open
      BY <2>1, <2>2, <3>1 DEF Acks, ReadSoFar
    <3> QED BY <1>t, <3>2
  <2> QED BY <2>2, <2>3, <2>4 DEF Acks, ReadSoFar, KilledOnlyBySplit
<1> QED BY <1>1, <1>2, <1>3

\* The peers; none connects to a server that was killed.
LEMMA PeerAcks == ASSUME IInv, Acks, Peer PROVE Acks'
<1>1. PICK p \in Peers : Connect(p) \/ Send(p) \/ Hangup(p) \/ Reset(p)
  BY DEF Peer
<1>2. UNCHANGED <<pc, clientFd, table, served>>
  BY <1>1 DEF Connect, Send, Hangup, Reset, fdVars, history
<1>3. Client' = Client
  BY <1>2 DEF Client
<1>t. /\ peers \in [Peers -> PeerStates]
      /\ \A q \in Peers : peers[q].sent \in Nat /\ peers[q].read \in Nat
  BY DEF IInv, TypeOK, PeerStates, Segments
<1>4. ReadSoFar
  BY DEF Acks
<1>5. /\ ReadSoFar'
      /\ \A q \in Peers : peers'[q].read = peers[q].read /\ peers'[q].sent >= peers[q].sent
      /\ \A q \in Peers : peers'[q].rst # "no" => peers[q].rst # "no"
      /\ pc = "killed" => \A q \in Peers : peers'[q].open => peers[q].open
  <2>1. CASE Connect(p)
    <3>1. pc # "killed"
      BY <2>1, PeersAssumption DEF Connect, Acks, Nothing
    <3>2. ~peers[p].tried /\ peers' = [peers EXCEPT ![p].open = TRUE, ![p].tried = TRUE]
      BY <2>1 DEF Connect
    <3>3. /\ \A q \in Peers : /\ peers'[q].read = peers[q].read /\ peers'[q].sent = peers[q].sent
                              /\ peers'[q].rst = peers[q].rst
                              /\ q # p => peers'[q] = peers[q]
          /\ peers'[p].tried
      BY <1>t, <3>2 DEF PeerStates
    <3>4. peers[p].rst = "no"
      BY <1>4, <3>2 DEF ReadSoFar
    <3>5. ReadSoFar'
      BY <1>4, <3>3, <3>4 DEF ReadSoFar
    <3> QED BY <1>t, <3>1, <3>3, <3>5
  <2>2. CASE Send(p)
    <3>1. peers[p].open /\ peers' = [peers EXCEPT ![p].sent = peers[p].sent + 1]
      BY <2>2 DEF Send
    <3>2. /\ \A q \in Peers : /\ peers'[q].read = peers[q].read /\ peers'[q].open = peers[q].open
                              /\ peers'[q].rst = peers[q].rst /\ peers'[q].tried = peers[q].tried
                              /\ q # p => peers'[q].sent = peers[q].sent
          /\ peers'[p].sent = peers[p].sent + 1
      BY <1>t, <3>1 DEF PeerStates
    <3>3. peers[p].tried
      BY <1>4, <3>1 DEF ReadSoFar
    <3>4. ReadSoFar'
      BY <1>4, <3>2, <3>3 DEF ReadSoFar
    <3>5. \A q \in Peers : peers'[q].sent >= peers[q].sent
      BY <1>t, <3>2
    <3> QED BY <3>2, <3>4, <3>5
  <2>3. CASE Hangup(p)
    <3>1. peers[p].open /\ peers' = [peers EXCEPT ![p].open = FALSE]
      BY <2>3 DEF Hangup
    <3>2. \A q \in Peers : /\ peers'[q].read = peers[q].read /\ peers'[q].sent = peers[q].sent
                           /\ peers'[q].rst = peers[q].rst /\ peers'[q].tried = peers[q].tried
                           /\ peers'[q].open => peers[q].open
      BY <1>t, <3>1 DEF PeerStates
    <3>3. ReadSoFar'
      BY <1>4, <3>2 DEF ReadSoFar
    <3> QED BY <1>t, <3>2, <3>3
  <2>4. CASE Reset(p)
    <3>1. peers[p].rst = "due" /\ peers' = [peers EXCEPT ![p].rst = "come"]
      BY <2>4 DEF Reset
    <3>2. \A q \in Peers : /\ peers'[q].read = peers[q].read /\ peers'[q].sent = peers[q].sent
                           /\ peers'[q].open = peers[q].open /\ peers'[q].tried = peers[q].tried
                           /\ peers'[q].rst # "no" => peers[q].rst # "no"
      BY <1>t, <3>1 DEF PeerStates
    <3>3. ReadSoFar'
      BY <1>4, <3>2 DEF ReadSoFar
    <3> QED BY <1>t, <3>2, <3>3
  <2> QED BY <1>1, <2>1, <2>2, <2>3, <2>4
<1>6. KilledOnlyBySplit'
  <2> SUFFICES ASSUME pc = "killed"
               PROVE  served \in Peers /\ ~peers'[served].open /\ peers'[served].sent > 1
    BY <1>2 DEF KilledOnlyBySplit
  <2>1. served \in Peers /\ ~peers[served].open /\ peers[served].sent > 1
    BY DEF Acks, KilledOnlyBySplit
  <2>2. peers'[served].sent >= peers[served].sent /\ peers'[served].sent \in Nat
    <3>1. IInv'
      BY PeerIInv
    <3> QED BY <1>5, <2>1, <3>1 DEF IInv, TypeOK, PeerStates, Segments
  <2>3. peers'[served].sent > 1
    BY <1>t, <2>1, <2>2
  <2> QED BY <1>5, <2>1, <2>3
<1> QED BY <1>2, <1>3, <1>5, <1>6 DEF Acks

LEMMA AcksInductive == Spec => []Acks
<1>1. Init => Acks
  BY DEF Init, Acks, ReadSoFar, KilledOnlyBySplit
<1>2. IInv /\ Acks /\ [Next]_vars => Acks'
  <2> SUFFICES ASSUME IInv, Acks, [Next]_vars PROVE Acks'
    OBVIOUS
  <2>1. CASE Receive \/ Acknowledge \/ BrokenPipe
    BY <2>1, AcknowledgedAcks
  <2>2. CASE Peer
    BY <2>2, PeerAcks
  <2>3. CASE Signal
    <3>1. /\ UNCHANGED <<pc, peers>> /\ pc # "killed"
          /\ Client' \in {Client, Nothing}
      BY <2>3 DEF Signal, peerVars, Client, Closed
    <3>2. \A p \in Peers : Client' = p => Client = p
      BY <3>1, PeersAssumption DEF Nothing
    <3> QED BY <3>1, <3>2 DEF Acks, ReadSoFar, KilledOnlyBySplit
  <2>4. CASE UNCHANGED vars
    BY <2>4 DEF vars, fdVars, peerVars, history, Acks, ReadSoFar, KilledOnlyBySplit, Client
  <2>5. CASE Create \/ StartFails \/ Started \/ Loop \/ Select \/ Accept \/ Replace
             \/ Adopt \/ Greet \/ TestClient \/ ReceiveNothing \/ Drop
             \/ StopClient \/ StopListen \/ Free \/ Exit
    <3>1. UNCHANGED peers /\ pc' \notin {"ack", "killed"}
      BY <2>5 DEF Create, StartFails, Started, Loop, Select, Accept, Replace, Adopt,
         Greet, TestClient, ReceiveNothing, Drop, StopClient, StopListen, Free, Exit,
         peerVars
    <3> QED BY <3>1, AcksKept
  <2> QED BY <2>1, <2>2, <2>3, <2>4, <2>5 DEF Next, Main
<1> QED BY <1>1, <1>2, Inductive, PTL DEF Spec
-----------------------------------------------------------------------------
\* Types.
THEOREM TypeOKAlways == Spec => []TypeOK
<1>1. IInv => TypeOK
  BY DEF IInv
<1> QED BY Inductive, <1>1, PTL

\* client_fd never comes to stand for another connection.
THEOREM ClientFdIsOwnAlways == Spec => []ClientFdIsOwn
<1>1. IInv => ClientFdIsOwn
  BY DEF IInv, Own, ClientFdIsOwn, Client
<1> QED BY Inductive, <1>1, PTL

\* At the end of the program every descriptor is closed.
THEOREM AllClosedAlways == Spec => []AllClosedAtExit
<1>1. IInv => AllClosedAtExit
  BY Numbers DEF IInv, Held, Own, Phases, AllClosedAtExit
<1> QED BY Inductive, <1>1, PTL

\* Whatever peers connect, send and hang up, and whenever: only one that sends
\* its configuration in pieces and does not wait can bring the server down
\* (tcp_server_process).
THEOREM OnlySplitKills == Spec => []KilledOnlyBySplit
<1>1. Acks => KilledOnlyBySplit
  BY DEF Acks
<1> QED BY AcksInductive, <1>1, PTL

\* The application hears of connections and disconnections in turn.
THEOREM CallbacksInTurn == Spec => CallbacksAlternate
<1> DEFINE A == /\ Greet /\ running => told = "disconnected"
                /\ Drop => told = "connected"
                /\ Replace /\ clientFd # Closed => told = "connected"
<1>1. IInv => A
  <2>1. ASSUME IInv PROVE /\ pc = "greet" /\ running => told = "disconnected"
                          /\ pc = "drop" => told = "connected"
                          /\ pc = "replace" /\ clientFd # Closed => told = "connected"
    BY <2>1 DEF IInv, Callbacks, TypeOK
  <2> QED BY <2>1 DEF Greet, Drop, Replace
<1>2. [Next]_vars /\ IInv => [A]_vars
  BY <1>1
<1> QED BY Inductive, <1>2, PTL DEF CallbacksAlternate, Spec
-----------------------------------------------------------------------------
(* Why a signal ends the program. *)

\* The most system calls main still makes once running is FALSE: the rest of the
\* start or of tcp_server_process, and tcp_server_destroy; not the loop again.
CallsLeft ==
  CASE pc = "select" -> 14 [] pc = "accept" -> 13 [] pc = "replace" -> 12
    [] pc = "adopt" -> 11 [] pc = "greet" -> 10 [] pc = "recv" -> 9
    [] pc = "receiving" -> 8 [] pc = "create" -> 7 [] pc \in {"drop", "bind", "ack"} -> 6
    [] pc = "loop" -> 5
    [] pc = "stop client" -> 4 [] pc = "stop listen" -> 3
    [] pc = "free" -> 2 [] pc = "exit" -> 1 [] pc \in {"done", "killed"} -> 0
SignalShortens ==
  [][~running => /\ ~running'
                 /\ IF Main THEN CallsLeft' < CallsLeft ELSE CallsLeft' = CallsLeft]_vars

\* The safety core of SignalEnds: after a signal every step of main brings its
\* end nearer, and nothing the peers or further signals do puts it off
\* (main, tcp_server_process, tcp_server_destroy).
THEOREM SignalShortensTheRun == Spec => SignalShortens
<1> DEFINE Shortens ==
      ~running => /\ ~running'
                  /\ IF Main THEN CallsLeft' < CallsLeft ELSE CallsLeft' = CallsLeft
<1>1. IInv => pc \in Pcs
  BY DEF IInv, TypeOK
<1>2. ASSUME Main, ~running PROVE ~running' /\ CallsLeft' < CallsLeft
  <2>1. CASE Create
    BY <1>2, <2>1 DEF Create, CallsLeft
  <2>2. CASE StartFails
    <3>1. pc = "bind" /\ pc' = "stop client" /\ UNCHANGED running
      BY <1>2, <2>2 DEF StartFails
    <3>2. CallsLeft = 6 /\ CallsLeft' = 4 /\ UNCHANGED running
      BY <3>1, Zenon DEF CallsLeft
    <3> QED BY <1>2, <3>2
  <2>3. CASE Started
    BY <1>2, <2>3 DEF Started, CallsLeft
  <2>4. CASE Loop
    <3>1. pc = "loop" /\ pc' = "stop client" /\ UNCHANGED running
      BY <1>2, <2>4 DEF Loop
    <3>2. CallsLeft = 5 /\ CallsLeft' = 4 /\ UNCHANGED running
      BY <3>1, Zenon DEF CallsLeft
    <3> QED BY <1>2, <3>2
  <2>5. CASE Select
    BY <1>2, <2>5 DEF Select, CallsLeft
  <2>6. CASE Accept
    <3>1. pc = "accept" /\ pc' \in {"replace", "recv"} /\ UNCHANGED running
      BY <1>2, <2>6 DEF Accept
    <3>2. CallsLeft = 13 /\ CallsLeft' \in {12, 9} /\ UNCHANGED running
      BY <3>1, Zenon DEF CallsLeft
    <3> QED BY <1>2, <3>2
  <2>7. CASE Replace
    BY <1>2, <2>7 DEF Replace, CallsLeft
  <2>8. CASE Adopt
    BY <1>2, <2>8 DEF Adopt, CallsLeft
  <2>9. CASE Greet
    BY <1>2, <2>9 DEF Greet, CallsLeft
  <2>10. CASE TestClient
    BY <1>2, <2>10 DEF TestClient, CallsLeft
  <2>11. CASE Receive
    BY <1>2, <2>11 DEF Receive, CallsLeft
  <2>12. CASE ReceiveNothing
    BY <1>2, <2>12 DEF ReceiveNothing, CallsLeft
  <2>13. CASE Drop
    BY <1>2, <2>13 DEF Drop, CallsLeft
  <2>14. CASE StopClient
    <3>1. pc = "stop client" /\ pc' = "stop listen" /\ UNCHANGED running
      BY <1>2, <2>14 DEF StopClient
    <3>2. CallsLeft = 4 /\ CallsLeft' = 3 /\ UNCHANGED running
      BY <3>1, Zenon DEF CallsLeft
    <3> QED BY <1>2, <3>2
  <2>15. CASE StopListen
    <3>1. pc = "stop listen" /\ pc' = "free" /\ UNCHANGED running
      BY <1>2, <2>15 DEF StopListen
    <3>2. CallsLeft = 3 /\ CallsLeft' = 2 /\ UNCHANGED running
      BY <3>1, Zenon DEF CallsLeft
    <3> QED BY <1>2, <3>2
  <2>16. CASE Free
    BY <1>2, <2>16 DEF Free, CallsLeft
  <2>17. CASE Exit
    BY <1>2, <2>17 DEF Exit, CallsLeft
  <2>18. CASE Acknowledge
    BY <1>2, <2>18 DEF Acknowledge, CallsLeft
  <2>19. CASE BrokenPipe
    BY <1>2, <2>19 DEF BrokenPipe, CallsLeft
  <2> QED BY <1>2, <2>1, <2>2, <2>3, <2>4, <2>5, <2>6, <2>7, <2>8, <2>9, <2>10, <2>11, <2>12, <2>13, <2>14, <2>15, <2>16, <2>17,
     <2>18, <2>19 DEF Main
<1>3. ASSUME ~running, Signal \/ Peer PROVE ~running' /\ UNCHANGED pc
  <2>1. CASE Signal
    BY <2>1 DEF Signal
  <2>2. CASE Peer
    <3>1. UNCHANGED <<pc, running>>
      BY <2>2 DEF Peer, Connect, Send, Hangup, Reset
    <3> QED BY <1>3, <3>1
  <2> QED BY <1>3, <2>1, <2>2
<1>4. IInv /\ [Next]_vars => [Shortens]_vars
  <2>1. ASSUME pc \in Pcs, Next, ~running PROVE Shortens
    BY <2>1, <1>2, <1>3 DEF Next, CallsLeft
  <2> QED BY <1>1, <2>1
<1> QED BY <1>4, Inductive, PTL DEF Spec, SignalShortens
=============================================================================

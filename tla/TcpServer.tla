------------------------------ MODULE TcpServer ------------------------------
(***************************************************************************)
(* The connections of a TcpServer whose only loop is its own, as the HTTP  *)
(* program runs it: TcpConnection with its output buffer and its close and *)
(* shutdown orders, the TcpServer's table, the Poller's view of a channel, *)
(* and the kernel's socket under them.                                     *)
(*                                                                         *)
(* Like EventLoop, the module gives operators; the protocol on top says    *)
(* what a message and a closed connection mean to it.                      *)
(***************************************************************************)
EXTENDS EventLoop

CONSTANTS
    Conns          \* connections, one per client

VARIABLES
    state,         \* state_; "kConnecting" until connectEstablished
    index,         \* the channel in the Poller: "kNew", "kAdded", "kDeleted"
    writing,       \* channel_->isWriting()
    out,           \* outputBuffer_
    connections,   \* connections_
    peer,          \* the client: "none" (not connected yet), "open", "closed"
    sent,          \* pieces of input the client has sent
    got,           \* pieces of them the server has read
    wire,          \* what the kernel has taken for the client, in order
    room,          \* the kernel's send buffer has room
    fin,           \* shutdownWrite has been called
    killed         \* SIGPIPE, which no handler catches, has ended the process

connVars   == <<state, index, writing, out, connections>>
kernelVars == <<peer, sent, got, wire, room, fin, killed>>

TcpInit ==
    /\ LoopInit
    /\ state = [c \in Conns |-> "kConnecting"]
    /\ index = [c \in Conns |-> "kNew"]
    /\ writing = [c \in Conns |-> FALSE]
    /\ out = [c \in Conns |-> <<>>]
    /\ connections = {}
    /\ peer = [c \in Conns |-> "none"]
    /\ sent = [c \in Conns |-> 0] /\ got = [c \in Conns |-> 0]
    /\ wire = [c \in Conns |-> <<>>]
    /\ room = [c \in Conns |-> TRUE]
    /\ fin = [c \in Conns |-> FALSE]
    /\ killed = FALSE

connected(c) == state[c] = "kConnected"

\* The events epoll_wait reports: a connection to accept, input or the
\* client's end of stream, and room for output that waits.  A channel that
\* was disabled (kDeleted) reports nothing.
Ready ==
    {<<c, "accept">> : c \in {d \in Conns : state[d] = "kConnecting" /\ peer[d] # "none"}}
    \cup {<<c, "in">> : c \in {d \in Conns : index[d] = "kAdded" /\
                                            (got[d] < sent[d] \/ peer[d] = "closed")}}
    \cup {<<c, "out">> : c \in {d \in Conns : index[d] = "kAdded" /\ writing[d] /\
                                             (room[d] \/ peer[d] = "closed")}}

-----------------------------------------------------------------------------
(* The kernel takes some prefix of what it is given while it has room.  A  *)
(* client that has closed gets nothing: the write is accepted and lost, or *)
(* fails with ECONNRESET, or with EPIPE, which comes with the SIGPIPE this *)
(* program neither blocks nor ignores.                                     *)

KernelWrite(c, items) ==
    IF peer[c] = "closed"
    THEN [took : {0, Len(items)}, room : {TRUE}, killed : BOOLEAN]
    ELSE {[took |-> n, room |-> n = Len(items), killed |-> FALSE] :
             n \in IF room[c] THEN 1..Len(items) ELSE {0}}

\* What the client gets of it, and what sendInLoop keeps for later: nothing
\* after faultError.
Carried(c, items, n) == IF peer[c] = "closed" THEN <<>> ELSE SubSeq(items, 1, n)
Kept(c, items, n)    == IF peer[c] = "closed" THEN <<>> ELSE SubSeq(items, n + 1, Len(items))

\* Mutant: written directly although earlier output still waits.
sendInLoopOvertaking(c, items) ==
    \E k \in KernelWrite(c, items) :
        /\ wire' = [wire EXCEPT ![c] = @ \o Carried(c, items, k.took)]
        /\ out' = [out EXCEPT ![c] = @ \o Kept(c, items, k.took)]
        /\ writing' = [writing EXCEPT ![c] = out'[c] # <<>>]
        /\ room' = [room EXCEPT ![c] = k.room] /\ killed' = k.killed

\* Mutant: EPOLLOUT is not asked for.
sendInLoopNotEnabled(c, items) ==
    /\ \E k \in KernelWrite(c, items) :
          /\ wire' = [wire EXCEPT ![c] = @ \o Carried(c, items, k.took)]
          /\ out' = [out EXCEPT ![c] = Kept(c, items, k.took)]
          /\ room' = [room EXCEPT ![c] = k.room] /\ killed' = k.killed
    /\ UNCHANGED writing

sendInLoop(c, items) ==
    IF ~writing[c] /\ out[c] = <<>>
    THEN \E k \in KernelWrite(c, items) :
            /\ wire' = [wire EXCEPT ![c] = @ \o Carried(c, items, k.took)]
            /\ out' = [out EXCEPT ![c] = Kept(c, items, k.took)]
            /\ writing' = [writing EXCEPT ![c] = out'[c] # <<>>]
            /\ room' = [room EXCEPT ![c] = k.room] /\ killed' = k.killed
    ELSE /\ out' = [out EXCEPT ![c] = @ \o items]
         /\ writing' = [writing EXCEPT ![c] = TRUE]
         /\ UNCHANGED <<wire, room, killed>>

\* send, by the loop's thread.
send(c, items) ==
    IF connected(c) THEN sendInLoop(c, items)
    ELSE UNCHANGED <<wire, out, writing, room, killed>>

\* Mutant: the write side is shut whatever still waits.
shutdownAtOnce(c) ==
    IF connected(c)
    THEN /\ state' = [state EXCEPT ![c] = "kDisconnecting"]
         /\ fin' = [fin EXCEPT ![c] = TRUE]
    ELSE UNCHANGED <<state, fin>>

\* shutdown and shutdownInLoop, after what the step has sent (writing').
shutdown(c) ==
    IF connected(c)
    THEN /\ state' = [state EXCEPT ![c] = "kDisconnecting"]
         /\ fin' = [fin EXCEPT ![c] = ~writing'[c]]
    ELSE UNCHANGED <<state, fin>>

\* Mutant: a shutdown that had to wait for the output is forgotten.
handleWriteForgets(c) ==
    /\ handleEvent(c, "out")
    /\ \E k \in KernelWrite(c, out[c]) :
          /\ wire' = [wire EXCEPT ![c] = @ \o Carried(c, out[c], k.took)]
          /\ out' = [out EXCEPT ![c] = SubSeq(@, k.took + 1, Len(@))]
          /\ writing' = [writing EXCEPT ![c] = out'[c] # <<>>]
          /\ room' = [room EXCEPT ![c] = k.room] /\ killed' = k.killed
    /\ UNCHANGED <<fin, state, index, connections, peer, sent, got, pending, wakeup>>

\* handleWrite: drain, and when that empties the buffer finish a shutdown.
\* A channel disabled since poll does nothing.
handleWrite(c) ==
    /\ handleEvent(c, "out")
    /\ IF writing[c]
       THEN \E k \in KernelWrite(c, out[c]) :
               /\ wire' = [wire EXCEPT ![c] = @ \o Carried(c, out[c], k.took)]
               /\ out' = [out EXCEPT ![c] = SubSeq(@, k.took + 1, Len(@))]
               /\ writing' = [writing EXCEPT ![c] = out'[c] # <<>>]
               /\ room' = [room EXCEPT ![c] = k.room] /\ killed' = k.killed
               /\ fin' = [fin EXCEPT ![c] = @ \/ (out'[c] = <<>> /\ state[c] = "kDisconnecting")]
       ELSE UNCHANGED <<wire, out, writing, room, killed, fin>>
    /\ UNCHANGED <<state, index, connections, peer, sent, got, pending, wakeup>>

\* Acceptor::handleRead, newConnection and connectEstablished on one thread.
newConnection(c) ==
    /\ handleEvent(c, "accept")
    /\ connections' = connections \cup {c}
    /\ state' = [state EXCEPT ![c] = "kConnected"]
    /\ index' = [index EXCEPT ![c] = "kAdded"]
    /\ UNCHANGED <<writing, out, kernelVars, pending, wakeup>>

\* Mutant: the channel stays enabled.
handleCloseStaysEnabled(c) ==
    /\ state' = [state EXCEPT ![c] = "kDisconnected"]
    /\ writing' = [writing EXCEPT ![c] = FALSE]
    /\ connections' = connections \ {c}
    /\ queueInOwnLoop([op |-> "connectDestroyed", conn |-> c])
    /\ UNCHANGED <<index, out, kernelVars>>

\* handleClose and removeConnection: the channel is disabled, the connection
\* leaves the table, and its channel is removed by a functor of this loop.
handleClose(c) ==
    /\ state' = [state EXCEPT ![c] = "kDisconnected"]
    /\ writing' = [writing EXCEPT ![c] = FALSE]
    /\ index' = [index EXCEPT ![c] = "kDeleted"]
    /\ connections' = connections \ {c}
    /\ queueInOwnLoop([op |-> "connectDestroyed", conn |-> c])
    /\ UNCHANGED <<out, kernelVars>>

\* connectDestroyed: the channel leaves the Poller.
connectDestroyed(c) ==
    /\ index' = [index EXCEPT ![c] = "kNew"]
    /\ UNCHANGED <<state, writing, out, connections, kernelVars, pending, wakeup>>

-----------------------------------------------------------------------------
(* The client and its kernel: external.                                    *)

Connect(c) ==
    /\ peer[c] = "none"
    /\ peer' = [peer EXCEPT ![c] = "open"]
    /\ UNCHANGED <<loopVars, connVars, sent, got, wire, room, fin, killed>>

Send(c, limit) ==
    /\ peer[c] = "open" /\ sent[c] < limit
    /\ sent' = [sent EXCEPT ![c] = @ + 1]
    /\ UNCHANGED <<loopVars, connVars, peer, got, wire, room, fin, killed>>

Leave(c) ==
    /\ peer[c] = "open"
    /\ peer' = [peer EXCEPT ![c] = "closed"]
    /\ wire' = [wire EXCEPT ![c] = <<>>]
    /\ room' = [room EXCEPT ![c] = TRUE]
    /\ UNCHANGED <<loopVars, connVars, sent, got, fin, killed>>

\* The client reads, and the send buffer has room again.
Drain(c) ==
    /\ ~room[c]
    /\ room' = [room EXCEPT ![c] = TRUE]
    /\ UNCHANGED <<loopVars, connVars, peer, sent, got, wire, fin, killed>>
=============================================================================

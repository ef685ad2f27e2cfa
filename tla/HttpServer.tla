----------------------------- MODULE HttpServer -----------------------------
(***************************************************************************)
(* The HTTP server: the acceptor, the connections and their manager, and   *)
(* the asynchronous operations of Boost.Asio that tie them together.       *)
(*                                                                         *)
(* An operation is started by a handler, completes in the kernel (result   *)
(* "ok" or "error") or is cancelled by closing its socket ("aborted"), and *)
(* its handler runs in a later call of poll(), whatever happened in        *)
(* between: closing a socket does not take back a result that is already   *)
(* queued.  A connection object lives while the manager or one of its      *)
(* operations refers to it; afterwards its name is used again.             *)
(***************************************************************************)
EXTENDS Naturals

CONSTANT Conns      \* the connection objects

VARIABLES
    acceptor_open,  \* is the acceptor listening?
    accept,         \* the accept operation, or "none"
    connections,    \* the set the connection_manager holds
    socket,         \* the socket of each connection: "open" or "closed"
    reply,          \* reply_ of each connection
    ops,            \* the reads and writes started and not yet handled
    stop            \* the wait for a quit signal: "pending", "ok", "none"

vars == <<acceptor_open, accept, connections, socket, reply, ops, stop>>

Results == {"pending", "ok", "error", "aborted"}
Replies == {"none", "handled", "bad_request"}
Ops == [conn : Conns, kind : {"read", "write"}, result : Results]

TypeOK ==
    /\ acceptor_open \in BOOLEAN
    /\ accept \in Results \union {"none"}
    /\ connections \subseteq Conns
    /\ socket \in [Conns -> {"open", "closed"}]
    /\ reply \in [Conns -> Replies]
    /\ ops \subseteq Ops
    /\ stop \in {"pending", "ok", "none"}

Init ==
    /\ acceptor_open = TRUE
    /\ accept = "pending"
    /\ connections = {}
    /\ socket = [c \in Conns |-> "closed"]
    /\ reply = [c \in Conns |-> "none"]
    /\ ops = {}
    /\ stop = "pending"

-----------------------------------------------------------------------------
(* Boost.Asio.                                                              *)

\* An operation started on a closed socket completes at once, with bad_descriptor.
Started(c, kind, state) ==
    [conn |-> c, kind |-> kind, result |-> IF state = "open" THEN "pending" ELSE "error"]

\* Closing sockets cancels their pending operations; results already queued stand.
Cancelled(os, cs) ==
    {IF op.conn \in cs /\ op.result = "pending" THEN [op EXCEPT !.result = "aborted"] ELSE op :
        op \in os}

\* No one refers to the object any more.
Free(c) == c \notin connections /\ \A op \in ops : op.conn # c

\* A client connects, or accept fails (out of file descriptors, say).
AcceptCompletes ==
    /\ accept = "pending"
    /\ accept' \in {"ok", "error"}
    /\ UNCHANGED <<acceptor_open, connections, socket, reply, ops, stop>>

\* Data arrive or are sent, or the connection fails.
OperationCompletes(op) ==
    /\ op.result = "pending"
    /\ \E result \in {"ok", "error"} :
          ops' = (ops \ {op}) \union {[op EXCEPT !.result = result]}
    /\ UNCHANGED <<acceptor_open, accept, connections, socket, reply, stop>>

\* SIGINT, SIGTERM or SIGQUIT.
SignalArrives ==
    /\ stop = "pending"
    /\ stop' = "ok"
    /\ UNCHANGED <<acceptor_open, accept, connections, socket, reply, ops>>

-----------------------------------------------------------------------------
(* The handlers of the server.                                              *)

\* Mutant: the acceptor is not looked at; Asio refuses an accept on a closed one.
AcceptorOpenIgnored == TRUE

\* Was the server stopped before the handler had a chance to run?
AcceptorIsOpen == acceptor_open

\* async_accept on the acceptor.
DoAccept == accept' = IF acceptor_open THEN "pending" ELSE "error"

AcceptAfterStop ==
    /\ accept \in {"ok", "error", "aborted"}
    /\ ~AcceptorIsOpen
    /\ accept' = "none"
    /\ UNCHANGED <<acceptor_open, connections, socket, reply, ops, stop>>

\* The connection is inserted in the manager and starts reading.
AcceptConnection(c) ==
    /\ accept = "ok"
    /\ AcceptorIsOpen
    /\ Free(c)
    /\ connections' = connections \union {c}
    /\ socket' = [socket EXCEPT ![c] = "open"]
    /\ reply' = [reply EXCEPT ![c] = "none"]
    /\ ops' = ops \union {Started(c, "read", "open")}
    /\ DoAccept
    /\ UNCHANGED <<acceptor_open, stop>>

AcceptFailed ==
    /\ accept = "error"
    /\ AcceptorIsOpen
    /\ DoAccept
    /\ UNCHANGED <<acceptor_open, connections, socket, reply, ops, stop>>

\* connection_manager::stop.
Release(c, os) ==
    /\ connections' = connections \ {c}
    /\ socket' = [socket EXCEPT ![c] = "closed"]
    /\ ops' = Cancelled(os, {c})

-----------------------------------------------------------------------------
(* The handlers of a connection.                                            *)

\* Mutant: the connection reads on while the reply is being sent.
AnswerAndReadOn(op) ==
    /\ \E answer \in {"handled", "bad_request"} : reply' = [reply EXCEPT ![op.conn] = answer]
    /\ ops' = (ops \ {op}) \union {Started(op.conn, "write", socket[op.conn]),
                                   Started(op.conn, "read", socket[op.conn])}
    /\ UNCHANGED <<connections, socket>>

\* A whole request, or one the parser rejects, is answered.
Answer(op) ==
    /\ \E answer \in {"handled", "bad_request"} : reply' = [reply EXCEPT ![op.conn] = answer]
    /\ ops' = (ops \ {op}) \union {Started(op.conn, "write", socket[op.conn])}
    /\ UNCHANGED <<connections, socket>>

\* Mutant: an incomplete request is dropped without reading the rest.
ReadNothingMore(op) ==
    /\ ops' = ops \ {op}
    /\ UNCHANGED <<connections, socket, reply>>

\* The parser wants more data.
ReadMore(op) ==
    /\ ops' = (ops \ {op}) \union {Started(op.conn, "read", socket[op.conn])}
    /\ UNCHANGED <<connections, socket, reply>>

ReadHandler(op) ==
    /\ op.kind = "read"
    /\ \/ op.result = "ok" /\ (Answer(op) \/ ReadMore(op))
       \/ op.result = "error" /\ Release(op.conn, ops \ {op}) /\ UNCHANGED reply
       \/ op.result = "aborted" /\ ops' = ops \ {op} /\ UNCHANGED <<connections, socket, reply>>
    /\ UNCHANGED <<acceptor_open, accept, stop>>

\* Mutant: a reply that was sent leaves its connection to the client.
WriteHandlerLeavingOpen(op) ==
    /\ op.kind = "write"
    /\ \/ op.result = "error" /\ Release(op.conn, ops \ {op})
       \/ op.result \in {"ok", "aborted"} /\ ops' = ops \ {op} /\ UNCHANGED <<connections, socket>>
    /\ UNCHANGED <<acceptor_open, accept, reply, stop>>

\* Sent or failed, the connection is over.
WriteHandler(op) ==
    /\ op.kind = "write"
    /\ \/ op.result \in {"ok", "error"} /\ Release(op.conn, ops \ {op})
       \/ op.result = "aborted" /\ ops' = ops \ {op} /\ UNCHANGED <<connections, socket>>
    /\ UNCHANGED <<acceptor_open, accept, reply, stop>>

\* Mutant: the connections are stopped and the server goes on accepting.
StopKeepingTheAcceptor ==
    /\ stop = "ok"
    /\ stop' = "none"
    /\ socket' = [c \in Conns |-> IF c \in connections THEN "closed" ELSE socket[c]]
    /\ ops' = Cancelled(ops, connections)
    /\ connections' = {}
    /\ UNCHANGED <<acceptor_open, accept, reply>>

\* The handler of the quit signals: close the acceptor and stop every connection.
StopHandler ==
    /\ stop = "ok"
    /\ stop' = "none"
    /\ acceptor_open' = FALSE
    /\ accept' = IF accept = "pending" THEN "aborted" ELSE accept
    /\ socket' = [c \in Conns |-> IF c \in connections THEN "closed" ELSE socket[c]]
    /\ ops' = Cancelled(ops, connections)
    /\ connections' = {}
    /\ UNCHANGED reply

-----------------------------------------------------------------------------
AcceptHandler == AcceptAfterStop \/ AcceptFailed \/ \E c \in Conns : AcceptConnection(c)

\* A handler poll() may run.
Handler ==
    \/ AcceptHandler
    \/ \E op \in ops : ReadHandler(op) \/ WriteHandler(op)
    \/ StopHandler

Kernel ==
    \/ AcceptCompletes
    \/ \E op \in ops : OperationCompletes(op)
    \/ SignalArrives

Next == Handler \/ Kernel

\* Process adds the main loop that calls poll(), and the fairness it gives.
Spec == Init /\ [][Next]_vars

-----------------------------------------------------------------------------
(* A connection has at most one operation under way, so that its buffers,    *)
(* parser and reply are never used by two at once (connection.cpp:38-91).    *)
OneOperation == \A o1, o2 \in ops : o1.conn = o2.conn => o1 = o2

(* The manager holds exactly the connections whose socket is open, and each  *)
(* of them has an operation that has not been cancelled: none is forgotten   *)
(* in the set, and none goes on without it (connection_manager.cpp:20-37).   *)
ManagedConnectionsWork ==
    \A c \in Conns :
        /\ c \in connections <=> socket[c] = "open"
        /\ c \in connections => \E op \in ops : op.conn = c /\ op.result # "aborted"

(* server.hpp:106-109: while the server is running an accept call is always  *)
(* outstanding; once stopped no connection is left, nor is one taken on by   *)
(* an accept that completed before.                                          *)
ServerIsUpOrDown ==
    /\ acceptor_open => accept \in {"pending", "ok", "error"}
    /\ ~acceptor_open => connections = {}

(* reply.hpp:54-56: the buffers of a reply refer to it, so it must not change *)
(* until the write operation has completed.                                  *)
ReplyKeptWhileWritten ==
    [][\A c \in Conns :
          (\E op \in ops : op.conn = c /\ op.kind = "write" /\ op.result = "pending")
          /\ (\E op \in ops' : op.conn = c /\ op.kind = "write" /\ op.result = "pending")
             => reply'[c] = reply[c]]_vars

(* Once it writes, a connection is released, with a reply sent or failed.    *)
AnsweredConnectionsEnd ==
    \A c \in Conns :
        (\E op \in ops : op.conn = c /\ op.kind = "write") ~> socket[c] = "closed"
=============================================================================

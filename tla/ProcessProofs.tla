--------------------------- MODULE ProcessProofs ---------------------------
(***************************************************************************)
(* The server and the process it runs in, for any number of connections    *)
(* and descriptors.                                                        *)
(*                                                                         *)
(* First the server alone (IInv): it never runs two operations on one      *)
(* connection, never forgets a connection and never takes one on after it  *)
(* was stopped.  The three invariants are inductive together: that a       *)
(* handler whose operation was aborted may simply return, for instance,    *)
(* rests on the operation being the only one of its connection, and on the *)
(* manager holding no connection whose operations were all aborted.        *)
(*                                                                         *)
(* Then the process (PInv).  It takes only steps the server can take, so   *)
(* the server's invariant holds in it.  What has to be added is that an    *)
(* operation that is still pending belongs to an open connection: the      *)
(* stop, which closes them all, leaves none pending, and the poll() that   *)
(* runs it cannot return before it has run the rest.                       *)
(***************************************************************************)
EXTENDS Process, TLAPS

-----------------------------------------------------------------------------
(* The server.                                                              *)

IInv == TypeOK /\ OneOperation /\ ManagedConnectionsWork /\ ServerIsUpOrDown

\* Cancelling keeps the operations apart, and touches those of the closed sockets only.
LEMMA CancelledFacts ==
    ASSUME NEW os \in SUBSET Ops, NEW cs \in SUBSET Conns,
           \A o1, o2 \in os : o1.conn = o2.conn => o1 = o2
    PROVE  /\ Cancelled(os, cs) \subseteq Ops
           /\ \A o1, o2 \in Cancelled(os, cs) : o1.conn = o2.conn => o1 = o2
           /\ \A op \in os : op.conn \notin cs => op \in Cancelled(os, cs)
           /\ \A op \in Cancelled(os, cs) : \E old \in os : old.conn = op.conn /\ old.kind = op.kind
<1> DEFINE New(op) == IF op.conn \in cs /\ op.result = "pending"
                          THEN [op EXCEPT !.result = "aborted"] ELSE op
<1>1. Cancelled(os, cs) = {New(op) : op \in os}
  BY DEF Cancelled
<1>2. ASSUME NEW op \in os
      PROVE  /\ New(op) \in Ops /\ New(op).conn = op.conn /\ New(op).kind = op.kind
             /\ op.conn \notin cs => New(op) = op
  BY DEF Ops, Results
<1> HIDE DEF New
<1>3. QED
  BY <1>1, <1>2

\* A started operation is one, of its connection, and not aborted.
LEMMA StartedFacts ==
    ASSUME NEW c \in Conns, NEW kind \in {"read", "write"}, NEW state
    PROVE  /\ Started(c, kind, state) \in Ops
           /\ Started(c, kind, state).conn = c
           /\ Started(c, kind, state).kind = kind
           /\ Started(c, kind, state).result # "aborted"
BY DEF Started, Ops, Results

\* Replacing an operation by one of the same connection preserves the invariant.
LEMMA ReplacePreserves ==
    ASSUME IInv, NEW op \in ops, NEW new \in Ops, new.conn = op.conn, new.result # "aborted",
           ops' = (ops \ {op}) \union {new}, reply' \in [Conns -> Replies],
           UNCHANGED <<acceptor_open, accept, connections, socket, stop>>
    PROVE  IInv'
<1>1. TypeOK'
  BY DEF IInv, TypeOK
<1>2. OneOperation'
  BY DEF IInv, OneOperation
<1>3. ManagedConnectionsWork'
  <2> SUFFICES ASSUME NEW c \in Conns, c \in connections
               PROVE  \E o \in ops' : o.conn = c /\ o.result # "aborted"
    BY DEF IInv, ManagedConnectionsWork
  <2>1. PICK o \in ops : o.conn = c /\ o.result # "aborted"
    BY DEF IInv, ManagedConnectionsWork
  <2>2. QED
    BY <2>1
<1>4. ServerIsUpOrDown'
  BY DEF IInv, ServerIsUpOrDown
<1>5. QED
  BY <1>1, <1>2, <1>3, <1>4 DEF IInv

\* Releasing the connection of a handled operation preserves the invariant.
LEMMA ReleasePreserves ==
    ASSUME IInv, NEW op \in ops, Release(op.conn, ops \ {op}),
           UNCHANGED <<acceptor_open, accept, reply, stop>>
    PROVE  IInv'
<1>0. op \in Ops /\ op.conn \in Conns /\ ops \ {op} \in SUBSET Ops
  BY DEF IInv, TypeOK, Ops
<1>1. /\ ops' \subseteq Ops
      /\ \A o1, o2 \in ops' : o1.conn = o2.conn => o1 = o2
      /\ \A o \in ops \ {op} : o.conn # op.conn => o \in ops'
  <2>1. \A o1, o2 \in ops \ {op} : o1.conn = o2.conn => o1 = o2
    BY DEF IInv, OneOperation
  <2>2. ops' = Cancelled(ops \ {op}, {op.conn}) /\ {op.conn} \in SUBSET Conns
    BY <1>0 DEF Release
  <2> DEFINE rest == ops \ {op}
             closed == {op.conn}
  <2>3. rest \in SUBSET Ops /\ closed \in SUBSET Conns
        /\ \A o1, o2 \in rest : o1.conn = o2.conn => o1 = o2
    BY <1>0, <2>1, <2>2
  <2>4. /\ Cancelled(rest, closed) \subseteq Ops
        /\ \A o1, o2 \in Cancelled(rest, closed) : o1.conn = o2.conn => o1 = o2
        /\ \A o \in rest : o.conn \notin closed => o \in Cancelled(rest, closed)
    <3> HIDE DEF rest, closed
    <3>1. QED
      BY <2>3, CancelledFacts
  <2>5. QED
    BY <2>2, <2>4
<1>2. TypeOK'
  BY <1>0, <1>1 DEF IInv, TypeOK, Release
<1>3. OneOperation'
  BY <1>1 DEF OneOperation
<1>4. ManagedConnectionsWork'
  <2> SUFFICES ASSUME NEW c \in Conns
               PROVE  /\ c \in connections' <=> socket'[c] = "open"
                      /\ c \in connections' => \E o \in ops' : o.conn = c /\ o.result # "aborted"
    BY DEF ManagedConnectionsWork
  <2>1. CASE c = op.conn
    BY <1>0, <2>1 DEF Release, IInv, TypeOK
  <2>2. CASE c # op.conn
    BY <1>0, <1>1, <2>2 DEF Release, IInv, TypeOK, ManagedConnectionsWork
  <2>3. QED
    BY <2>1, <2>2
<1>5. ServerIsUpOrDown'
  BY DEF Release, IInv, ServerIsUpOrDown
<1>6. QED
  BY <1>2, <1>3, <1>4, <1>5 DEF IInv

\* The handler of an aborted operation returns: its connection is no longer managed.
LEMMA AbortedPreserves ==
    ASSUME IInv, NEW op \in ops, op.result = "aborted", ops' = ops \ {op},
           UNCHANGED <<acceptor_open, accept, connections, socket, reply, stop>>
    PROVE  IInv'
<1>1. TypeOK' /\ OneOperation' /\ ServerIsUpOrDown'
  BY DEF IInv, TypeOK, OneOperation, ServerIsUpOrDown
<1>2. ManagedConnectionsWork'
  BY DEF IInv, OneOperation, ManagedConnectionsWork
<1>3. QED
  BY <1>1, <1>2 DEF IInv

-----------------------------------------------------------------------------
\* A server starts with an accept call outstanding and no connection.
LEMMA InitInv == Init => IInv
BY DEF Init, IInv, TypeOK, OneOperation, ManagedConnectionsWork, ServerIsUpOrDown, Results, Replies

\* Every handler and every event of the kernel preserves the invariant.
LEMMA NextInv == IInv /\ [Next]_vars => IInv'
<1> SUFFICES ASSUME IInv, [Next]_vars PROVE IInv'
  OBVIOUS
<1>1. CASE AcceptAfterStop \/ AcceptFailed \/ AcceptCompletes \/ SignalArrives
  BY <1>1 DEF AcceptAfterStop, AcceptFailed, AcceptCompletes, SignalArrives, DoAccept,
              AcceptorIsOpen, IInv, TypeOK, Results, OneOperation, ManagedConnectionsWork,
              ServerIsUpOrDown
<1>2. ASSUME NEW c \in Conns, AcceptConnection(c) PROVE IInv'
  <2> DEFINE new == Started(c, "read", "open")
  <2>0. ops' = ops \union {new} /\ new \in Ops /\ new.conn = c /\ new.result # "aborted"
    BY <1>2, StartedFacts DEF AcceptConnection
  <2> HIDE DEF new
  <2>1. TypeOK'
    BY <1>2, <2>0 DEF AcceptConnection, DoAccept, IInv, TypeOK, Results, Replies
  <2>2. OneOperation'
    BY <1>2, <2>0 DEF AcceptConnection, Free, IInv, OneOperation
  <2>3. ManagedConnectionsWork'
    BY <1>2, <2>0 DEF AcceptConnection, IInv, TypeOK, ManagedConnectionsWork
  <2>4. ServerIsUpOrDown'
    BY <1>2 DEF AcceptConnection, AcceptorIsOpen, DoAccept, ServerIsUpOrDown
  <2>5. QED
    BY <2>1, <2>2, <2>3, <2>4 DEF IInv
<1>3. ASSUME NEW op \in ops, OperationCompletes(op) PROVE IInv'
  <2>1. PICK result \in {"ok", "error"} :
            ops' = (ops \ {op}) \union {[op EXCEPT !.result = result]}
    BY <1>3 DEF OperationCompletes
  <2>2. /\ [op EXCEPT !.result = result] \in Ops
        /\ [op EXCEPT !.result = result].conn = op.conn
        /\ [op EXCEPT !.result = result].result # "aborted"
    BY DEF IInv, TypeOK, Ops, Results
  <2>3. reply' \in [Conns -> Replies]
    BY <1>3 DEF OperationCompletes, IInv, TypeOK
  <2>4. QED
    BY <1>3, <2>1, <2>2, <2>3, ReplacePreserves DEF OperationCompletes
<1>4. ASSUME NEW op \in ops, ReadHandler(op) PROVE IInv'
  <2>0. op.conn \in Conns /\ reply \in [Conns -> Replies]
    BY DEF IInv, TypeOK, Ops
  <2>1. CASE op.result = "ok" /\ Answer(op)
    <3> DEFINE new == Started(op.conn, "write", socket[op.conn])
    <3>1. new \in Ops /\ new.conn = op.conn /\ new.result # "aborted"
      BY <2>0, StartedFacts
    <3>2. ops' = (ops \ {op}) \union {new} /\ reply' \in [Conns -> Replies]
      BY <2>0, <2>1 DEF Answer, Replies
    <3> HIDE DEF new
    <3>3. QED
      BY <1>4, <2>1, <3>1, <3>2, ReplacePreserves DEF Answer, ReadHandler
  <2>2. CASE op.result = "ok" /\ ReadMore(op)
    <3> DEFINE new == Started(op.conn, "read", socket[op.conn])
    <3>1. new \in Ops /\ new.conn = op.conn /\ new.result # "aborted"
      BY <2>0, StartedFacts
    <3>2. ops' = (ops \ {op}) \union {new} /\ reply' \in [Conns -> Replies]
      BY <2>0, <2>2 DEF ReadMore
    <3> HIDE DEF new
    <3>3. QED
      BY <1>4, <2>2, <3>1, <3>2, ReplacePreserves DEF ReadMore, ReadHandler
  <2>3. CASE op.result = "error" /\ Release(op.conn, ops \ {op}) /\ UNCHANGED reply
    BY <1>4, <2>3, ReleasePreserves DEF ReadHandler
  <2>4. CASE op.result = "aborted" /\ ops' = ops \ {op} /\ UNCHANGED <<connections, socket, reply>>
    BY <1>4, <2>4, AbortedPreserves DEF ReadHandler
  <2>5. QED
    BY <1>4, <2>1, <2>2, <2>3, <2>4 DEF ReadHandler
<1>5. ASSUME NEW op \in ops, WriteHandler(op) PROVE IInv'
  <2>1. CASE op.result \in {"ok", "error"} /\ Release(op.conn, ops \ {op})
    BY <1>5, <2>1, ReleasePreserves DEF WriteHandler
  <2>2. CASE op.result = "aborted" /\ ops' = ops \ {op} /\ UNCHANGED <<connections, socket>>
    BY <1>5, <2>2, AbortedPreserves DEF WriteHandler
  <2>3. QED
    BY <1>5, <2>1, <2>2 DEF WriteHandler
<1>6. CASE StopHandler
  <2>1. /\ ops' \subseteq Ops
        /\ \A o1, o2 \in ops' : o1.conn = o2.conn => o1 = o2
    BY <1>6, CancelledFacts DEF StopHandler, IInv, TypeOK, OneOperation
  <2>2. TypeOK'
    BY <1>6, <2>1 DEF StopHandler, IInv, TypeOK, Results
  <2>3. OneOperation'
    BY <2>1 DEF OneOperation
  <2>4. ManagedConnectionsWork'
    BY <1>6 DEF StopHandler, IInv, TypeOK, ManagedConnectionsWork
  <2>5. ServerIsUpOrDown'
    BY <1>6 DEF StopHandler, ServerIsUpOrDown
  <2>6. QED
    BY <2>2, <2>3, <2>4, <2>5 DEF IInv
<1>7. CASE UNCHANGED vars
  BY <1>7 DEF vars, IInv, TypeOK, OneOperation, ManagedConnectionsWork, ServerIsUpOrDown
<1>8. QED
  BY <1>1, <1>2, <1>3, <1>4, <1>5, <1>6, <1>7 DEF Next, Handler, AcceptHandler, Kernel

-----------------------------------------------------------------------------
\* The invariant holds in every behaviour of the server.
THEOREM Invariance == Spec => []IInv
BY InitInv, NextInv, PTL DEF Spec

\* Every variable keeps its type (TypeOK).
THEOREM ServerTypeCorrect == Spec => []TypeOK
<1>1. IInv => TypeOK
  BY DEF IInv
<1>2. QED
  BY <1>1, Invariance, PTL

\* No connection ever has two operations under way (OneOperation).
THEOREM OneAtATime == Spec => []OneOperation
<1>1. IInv => OneOperation
  BY DEF IInv
<1>2. QED
  BY <1>1, Invariance, PTL

\* The manager's connections are the open ones and all have work to do (ManagedConnectionsWork).
THEOREM NoneForgotten == Spec => []ManagedConnectionsWork
<1>1. IInv => ManagedConnectionsWork
  BY DEF IInv
<1>2. QED
  BY <1>1, Invariance, PTL

\* A running server accepts, a stopped one holds no connection (ServerIsUpOrDown).
THEOREM UpOrDown == Spec => []ServerIsUpOrDown
<1>1. IInv => ServerIsUpOrDown
  BY DEF IInv
<1>2. QED
  BY <1>1, Invariance, PTL

\* A reply does not change while it is being written (ReplyKeptWhileWritten).
THEOREM RepliesAreKept == Spec => ReplyKeptWhileWritten
<1> DEFINE Writing(c, os) == \E op \in os : op.conn = c /\ op.kind = "write" /\ op.result = "pending"
<1>1. IInv /\ [Next]_vars =>
          [\A c \in Conns : Writing(c, ops) /\ Writing(c, ops') => reply'[c] = reply[c]]_vars
  <2> SUFFICES ASSUME IInv, Next, NEW c \in Conns, Writing(c, ops)
               PROVE  reply'[c] = reply[c]
    OBVIOUS
  <2>0. reply \in [Conns -> Replies]
    BY DEF IInv, TypeOK
  <2>1. ASSUME NEW d \in Conns, AcceptConnection(d) PROVE reply'[c] = reply[c]
    <3>1. c # d
      BY <2>1 DEF AcceptConnection, Free
    <3>2. QED
      BY <2>0, <2>1, <3>1 DEF AcceptConnection
  <2>2. ASSUME NEW op \in ops, ReadHandler(op) PROVE reply'[c] = reply[c]
    <3>1. c # op.conn
      BY <2>2 DEF ReadHandler, IInv, OneOperation
    <3>2. QED
      BY <2>0, <2>2, <3>1 DEF ReadHandler, Answer, ReadMore
  <2>3. CASE Kernel \/ AcceptAfterStop \/ AcceptFailed \/ StopHandler
             \/ \E op \in ops : WriteHandler(op)
    BY <2>3 DEF Kernel, AcceptCompletes, OperationCompletes, SignalArrives, AcceptAfterStop,
                AcceptFailed, StopHandler, WriteHandler
  <2>4. QED
    BY <2>1, <2>2, <2>3 DEF Next, Handler, AcceptHandler
<1>2. QED
  BY <1>1, Invariance, PTL DEF Spec, ReplyKeptWhileWritten

-----------------------------------------------------------------------------
(* What the process adds to the server's invariant.                         *)

\* What is pending is an operation of a connection of the manager.
PendingIsManaged == \A op \in ops : op.result = "pending" => op.conn \in connections

\* The acceptor is closed by the handler of the stop, and waits for no one then.
StoppedIsClosed ==
    /\ stop = "none" <=> ~acceptor_open
    /\ accept = "pending" => acceptor_open

\* The two handlers of a signal wait for it together.
SameSignal ==
    /\ quit = "pending" <=> stop = "pending"
    /\ running <=> quit # "none"

Drained == stop = "none" /\ connections = {} /\ ops = {} /\ accept = "none"

LoopInv ==
    /\ pc \in {"poll", "switch", "step", "ended"}
    /\ pc # "poll" /\ ~running => Drained
    /\ pc = "ended" => ~running

ServerInv == IInv /\ PendingIsManaged /\ StoppedIsClosed
PInv == ServerInv /\ SameSignal /\ LoopInv

-----------------------------------------------------------------------------
(* The server, once more, with what is pending.                             *)

\* An operation that cancelling leaves pending was pending, on another connection.
LEMMA CancelledPending ==
    ASSUME NEW os \in SUBSET Ops, NEW cs,
           NEW op \in Cancelled(os, cs), op.result = "pending"
    PROVE  op \in os /\ op.conn \notin cs
<1> DEFINE New(o) == IF o.conn \in cs /\ o.result = "pending"
                         THEN [o EXCEPT !.result = "aborted"] ELSE o
<1>1. PICK o \in os : op = New(o)
  BY DEF Cancelled
<1>2. CASE o.conn \in cs /\ o.result = "pending"
  <2>1. op.result = "aborted"
    BY <1>1, <1>2 DEF Ops
  <2>2. QED
    BY <2>1
<1>3. CASE ~(o.conn \in cs /\ o.result = "pending")
  BY <1>1, <1>3
<1>4. QED
  BY <1>2, <1>3

\* An operation is pending once started only if its socket is open.
LEMMA StartedPending ==
    ASSUME NEW c \in Conns, NEW kind, NEW state, Started(c, kind, state).result = "pending"
    PROVE  state = "open"
BY DEF Started

\* Releasing a connection cancels what was pending on it.
LEMMA ReleasePending ==
    ASSUME ServerInv, NEW op \in ops, Release(op.conn, ops \ {op})
    PROVE  PendingIsManaged'
<1> SUFFICES ASSUME NEW o \in ops', o.result = "pending" PROVE o.conn \in connections'
  BY DEF PendingIsManaged
<1> DEFINE rest == ops \ {op}
<1>1. rest \in SUBSET Ops /\ o \in Cancelled(rest, {op.conn})
  BY DEF Release, ServerInv, IInv, TypeOK
<1>2. o \in rest /\ o.conn \notin {op.conn}
  <2> HIDE DEF rest
  <2>1. QED
    BY <1>1, CancelledPending
<1>3. o.conn \in connections
  BY <1>2 DEF ServerInv, PendingIsManaged
<1>4. QED
  BY <1>2, <1>3 DEF Release

\* Putting an operation in the place of one of the same connection keeps PendingIsManaged.
LEMMA ReplacePending ==
    ASSUME PendingIsManaged, NEW op \in ops, NEW new,
           ops' = (ops \ {op}) \union {new}, connections' = connections,
           new.result = "pending" => new.conn \in connections
    PROVE  PendingIsManaged'
BY DEF PendingIsManaged

\* Every step of the server keeps what is pending among the managed connections.
LEMMA ServerStep == ServerInv /\ Next => ServerInv'
<1> SUFFICES ASSUME ServerInv, Next PROVE ServerInv'
  OBVIOUS
<1>0. IInv'
  BY NextInv DEF ServerInv
<1>1. CASE AcceptAfterStop \/ AcceptFailed \/ AcceptCompletes \/ SignalArrives
  BY <1>0, <1>1 DEF AcceptAfterStop, AcceptFailed, AcceptCompletes, SignalArrives, DoAccept,
                    AcceptorIsOpen, ServerInv, PendingIsManaged, StoppedIsClosed
<1>2. ASSUME NEW c \in Conns, AcceptConnection(c) PROVE ServerInv'
  <2>1. Started(c, "read", "open").conn = c
    BY DEF Started
  <2>2. PendingIsManaged'
    BY <1>2, <2>1 DEF AcceptConnection, ServerInv, PendingIsManaged
  <2>3. StoppedIsClosed'
    BY <1>2 DEF AcceptConnection, AcceptorIsOpen, DoAccept, ServerInv, StoppedIsClosed
  <2>4. QED
    BY <1>0, <2>2, <2>3 DEF ServerInv
<1>3. ASSUME NEW op \in ops, OperationCompletes(op) PROVE ServerInv'
  <2>1. PICK result \in {"ok", "error"} :
            ops' = (ops \ {op}) \union {[op EXCEPT !.result = result]}
    BY <1>3 DEF OperationCompletes
  <2>2. [op EXCEPT !.result = result].result # "pending"
    BY DEF ServerInv, IInv, TypeOK, Ops
  <2>3. PendingIsManaged'
    BY <1>3, <2>1, <2>2, ReplacePending DEF OperationCompletes, ServerInv
  <2>4. QED
    BY <1>0, <1>3, <2>3 DEF OperationCompletes, ServerInv, StoppedIsClosed
<1>4. ASSUME NEW op \in ops, ReadHandler(op) PROVE ServerInv'
  <2>0. op.conn \in Conns
    BY DEF ServerInv, IInv, TypeOK, Ops
  <2>1. ASSUME NEW kind, ops' = (ops \ {op}) \union {Started(op.conn, kind, socket[op.conn])},
               UNCHANGED connections
        PROVE  PendingIsManaged'
    <3> DEFINE new == Started(op.conn, kind, socket[op.conn])
    <3>1. new.conn = op.conn
      BY DEF Started
    <3>2. new.result = "pending" => socket[op.conn] = "open"
      BY <2>0, StartedPending
    <3>3. new.result = "pending" => new.conn \in connections
      BY <2>0, <3>1, <3>2 DEF ServerInv, IInv, ManagedConnectionsWork
    <3> HIDE DEF new
    <3>4. QED
      BY <2>1, <3>3, ReplacePending DEF ServerInv, new
  <2>2. ASSUME Answer(op) \/ ReadMore(op) PROVE PendingIsManaged'
    BY <2>1, <2>2 DEF Answer, ReadMore
  <2>3. ASSUME Release(op.conn, ops \ {op}) PROVE PendingIsManaged'
    BY <2>3, ReleasePending
  <2>4. ASSUME ops' = ops \ {op} /\ UNCHANGED connections PROVE PendingIsManaged'
    BY <2>4 DEF ServerInv, PendingIsManaged
  <2>5. StoppedIsClosed'
    BY <1>4 DEF ReadHandler, ServerInv, StoppedIsClosed
  <2>6. QED
    BY <1>0, <1>4, <2>2, <2>3, <2>4, <2>5 DEF ReadHandler, ServerInv
<1>5. ASSUME NEW op \in ops, WriteHandler(op) PROVE ServerInv'
  <2>1. ASSUME Release(op.conn, ops \ {op}) PROVE PendingIsManaged'
    BY <2>1, ReleasePending
  <2>2. ASSUME ops' = ops \ {op} /\ UNCHANGED connections PROVE PendingIsManaged'
    BY <2>2 DEF ServerInv, PendingIsManaged
  <2>3. StoppedIsClosed'
    BY <1>5 DEF WriteHandler, ServerInv, StoppedIsClosed
  <2>4. QED
    BY <1>0, <1>5, <2>1, <2>2, <2>3 DEF WriteHandler, ServerInv
<1>6. CASE StopHandler
  <2>1. ASSUME NEW o \in ops', o.result = "pending" PROVE FALSE
    <3>1. o \in ops /\ o.conn \notin connections
      BY <1>6, <2>1, CancelledPending DEF StopHandler, ServerInv, IInv, TypeOK
    <3>2. QED
      BY <2>1, <3>1 DEF ServerInv, PendingIsManaged
  <2>2. PendingIsManaged'
    BY <2>1 DEF PendingIsManaged
  <2>3. StoppedIsClosed'
    BY <1>6 DEF StopHandler, StoppedIsClosed
  <2>4. QED
    BY <1>0, <2>2, <2>3 DEF ServerInv
<1>7. QED
  BY <1>1, <1>2, <1>3, <1>4, <1>5, <1>6 DEF Next, Handler, AcceptHandler, Kernel

-----------------------------------------------------------------------------
(* The process.                                                             *)

\* A process starts in poll(), with its server up.
LEMMA ProcessInitInv == ProcessInit => PInv
<1> SUFFICES ASSUME ProcessInit PROVE PInv
  OBVIOUS
<1>1. IInv
  BY InitInv DEF ProcessInit
<1>2. PendingIsManaged /\ StoppedIsClosed /\ SameSignal /\ LoopInv
  BY DEF ProcessInit, Init, PendingIsManaged, StoppedIsClosed, SameSignal, LoopInv
<1>3. QED
  BY <1>1, <1>2 DEF PInv, ServerInv

\* A step of the process is one of the server or leaves the server alone.
LEMMA ServerSimulated == ProcessNext => Next \/ UNCHANGED vars
BY DEF ProcessNext, Polled, QuitHandler, PollReturns, ReadSwitch, Step, Acts, Next

\* Nothing happens to a server that has drained.
LEMMA DrainedStaysSo == Drained /\ Next => Drained'
BY DEF Drained, Next, Handler, AcceptHandler, AcceptAfterStop, AcceptFailed, AcceptConnection,
       StopHandler, Kernel, AcceptCompletes, SignalArrives

\* Each step of the process preserves the invariant.
LEMMA ProcessNextInv == PInv /\ [ProcessNext]_processVars => PInv'
<1> SUFFICES ASSUME PInv, [ProcessNext]_processVars PROVE PInv'
  OBVIOUS
<1>1. Next \/ UNCHANGED vars
  BY ServerSimulated DEF processVars
<1>2. ServerInv'
  <2>1. CASE UNCHANGED vars
    BY <2>1, NextInv DEF vars, PInv, ServerInv, PendingIsManaged, StoppedIsClosed
  <2>2. QED
    BY <1>1, <2>1, ServerStep DEF PInv
<1>3. Drained => Drained'
  BY <1>1, DrainedStaysSo DEF vars, Drained
<1>4. CASE Polled(Handler)
  <2>1. stop = "pending" <=> stop' = "pending"
    BY <1>4 DEF Polled, Handler, AcceptHandler, AcceptAfterStop, AcceptFailed, AcceptConnection,
                ReadHandler, WriteHandler, StopHandler
  <2>2. SameSignal'
    BY <1>4, <2>1 DEF Polled, PInv, SameSignal
  <2>3. LoopInv'
    BY <1>4 DEF Polled, PInv, LoopInv
  <2>4. QED
    BY <1>2, <2>2, <2>3 DEF PInv
<1>5. CASE QuitHandler
  BY <1>2, <1>5 DEF QuitHandler, vars, PInv, SameSignal, LoopInv
<1>6. CASE PollReturns
  <2>1. SameSignal'
    BY <1>6 DEF PollReturns, vars, PInv, SameSignal
  <2>2. ASSUME ~running PROVE Drained
    <3>1. quit = "none" /\ stop = "none"
      BY <1>6, <2>2 DEF PollReturns, Ready, PInv, SameSignal, ServerInv, IInv, TypeOK
    <3>2. ~acceptor_open /\ accept # "pending" /\ connections = {}
      BY <3>1 DEF PInv, ServerInv, StoppedIsClosed, IInv, ServerIsUpOrDown
    <3>3. accept = "none"
      BY <1>6, <3>2 DEF PollReturns, Ready, PInv, ServerInv, IInv, TypeOK, Results
    <3>4. ops = {}
      BY <1>6, <3>2 DEF PollReturns, Ready, PInv, ServerInv, PendingIsManaged
    <3>5. QED
      BY <3>1, <3>2, <3>3, <3>4 DEF Drained
  <2>3. LoopInv'
    BY <1>3, <1>6, <2>2 DEF PollReturns, LoopInv
  <2>4. QED
    BY <1>2, <2>1, <2>3 DEF PInv
<1>7. CASE ReadSwitch \/ Step
  BY <1>2, <1>3, <1>7 DEF ReadSwitch, Step, vars, PInv, SameSignal, LoopInv
<1>8. CASE Acts(Kernel)
  <2>1. SameSignal'
    <3>1. CASE SignalArrives
      BY <1>8, <3>1 DEF Acts, SignalArrives, PInv, SameSignal
    <3>2. CASE AcceptCompletes \/ \E op \in ops : OperationCompletes(op)
      BY <1>8, <3>2 DEF Acts, AcceptCompletes, OperationCompletes, PInv, SameSignal
    <3>3. QED
      BY <1>8, <3>1, <3>2 DEF Acts, Kernel
  <2>2. LoopInv'
    BY <1>3, <1>8 DEF Acts, PInv, LoopInv
  <2>3. QED
    BY <1>2, <2>1, <2>2 DEF PInv
<1>9. CASE UNCHANGED processVars
  BY <1>2, <1>3, <1>9 DEF processVars, loop, vars, PInv, SameSignal, LoopInv
<1>10. QED
  BY <1>4, <1>5, <1>6, <1>7, <1>8, <1>9 DEF ProcessNext

\* The invariant holds in every behaviour of the process.
THEOREM ProcessInvariance == ProcessSpec => []PInv
BY ProcessInitInv, ProcessNextInv, PTL DEF ProcessSpec

(* The process runs its server as the server may be run: every property of   *)
(* HttpServer that is proved of Spec holds in it.                            *)
THEOREM ProcessRunsTheServer == ProcessSpec => Spec
<1>1. ProcessInit => Init
  BY DEF ProcessInit
<1>2. [ProcessNext]_processVars => [Next]_vars
  BY ServerSimulated DEF processVars
<1>3. QED
  BY <1>1, <1>2, PTL DEF ProcessSpec, Spec

(* When the main loop has ended, no connection, operation or accept is left   *)
(* (NothingIsLeftOpen).                                                      *)
THEOREM NothingIsLeft == ProcessSpec => []NothingIsLeftOpen
<1>1. PInv => NothingIsLeftOpen
  BY DEF PInv, LoopInv, Drained, NothingIsLeftOpen
<1>2. QED
  BY <1>1, ProcessInvariance, PTL
=============================================================================

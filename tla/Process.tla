------------------------------ MODULE Process ------------------------------
(***************************************************************************)
(* The server in its process: the main loop calls poll() once a frame,     *)
(* which runs the handlers that are ready until none is, and then reads    *)
(* the power switch and steps the table.  The sockets of the server and    *)
(* the files of the GPIOs share the descriptors of the process, and some   *)
(* are never given back.                                                   *)
(*                                                                         *)
(* What the table does in a frame is LightTable's business.                *)
(***************************************************************************)
EXTENDS HttpServer, Integers, FiniteSets

CONSTANT MaxDescriptors     \* those left for connections and for the switch

ASSUME DescriptorsAssumption == MaxDescriptors \in Nat \ {0} /\ IsFiniteSet(Conns)

VARIABLES
    pc,         \* the place in the main loop, or "ended"
    running,    \* cleared by the handler of the main loop's own quit signals
    quit,       \* the wait of that handler: "pending", "ok", "none"
    on_raspi,   \* could the GPIOs be set up?
    lost        \* the descriptors that no one will close

loop == <<pc, running, quit, on_raspi, lost>>
processVars == <<vars, loop>>

ProcessTypeOK ==
    /\ pc \in {"poll", "switch", "step", "ended"}
    /\ running \in BOOLEAN
    /\ quit \in {"pending", "ok", "none"}
    /\ on_raspi \in BOOLEAN
    /\ lost \in Nat

\* The descriptors in use: connections, a connection no handler has seen, and what is lost.
Used == Cardinality({c \in Conns : socket[c] = "open"}) + (IF accept = "ok" THEN 1 ELSE 0) + lost

\* What they return, and the descriptors they lose.
GPIOExport == {<<-1, 0>>, <<0, 0>>}
GPIODirection == {<<-1, 0>>, <<-1, 1>>, <<0, 0>>}

\* Without a GPIO the switch is not used.
SetUpGPIO ==
    \E exported \in GPIOExport, directed \in GPIODirection :
        /\ on_raspi = (exported[1] # -1 /\ directed[1] # -1)
        /\ lost = IF exported[1] = -1 THEN 0 ELSE directed[2]

ProcessInit ==
    /\ Init
    /\ pc = "poll"
    /\ running = TRUE
    /\ quit = "pending"
    /\ SetUpGPIO

-----------------------------------------------------------------------------
(* io_service::poll: handlers run as long as there are any.                 *)

Ready ==
    \/ accept \in {"ok", "error", "aborted"}
    \/ \E op \in ops : op.result # "pending"
    \/ stop = "ok"
    \/ quit = "ok"

\* A handler runs; what it refuses because the server was stopped stays in socket_.
Polled(handler) ==
    /\ pc = "poll"
    /\ handler
    /\ lost' = IF ~acceptor_open /\ accept = "ok" /\ accept' = "none" THEN lost + 1 ELSE lost
    /\ UNCHANGED <<pc, running, quit, on_raspi>>

QuitHandler ==
    /\ pc = "poll"
    /\ quit = "ok"
    /\ quit' = "none"
    /\ running' = FALSE
    /\ UNCHANGED <<vars, pc, on_raspi, lost>>

\* Mutant: poll() runs what is ready first, and no more.
PollReturnsEarly ==
    /\ pc = "poll"
    /\ pc' = "switch"
    /\ UNCHANGED <<vars, running, quit, on_raspi, lost>>

PollReturns ==
    /\ pc = "poll"
    /\ ~Ready
    /\ pc' = "switch"
    /\ UNCHANGED <<vars, running, quit, on_raspi, lost>>

-----------------------------------------------------------------------------
(* The rest of a frame.                                                     *)

\* GPIORead: a file is opened if one can be, read, and closed unless the read fails.
ReadSwitch ==
    /\ pc = "switch"
    /\ lost' \in IF on_raspi /\ Used < MaxDescriptors THEN {lost, lost + 1} ELSE {lost}
    /\ pc' = "step"
    /\ UNCHANGED <<vars, running, quit, on_raspi>>

Step ==
    /\ pc = "step"
    /\ pc' = IF running THEN "poll" ELSE "ended"
    /\ UNCHANGED <<vars, running, quit, on_raspi, lost>>

-----------------------------------------------------------------------------
(* The kernel.                                                              *)

\* A signal reaches both signal sets; a connection needs a descriptor.
Acts(event) ==
    /\ pc # "ended"
    /\ event
    /\ accept = "pending" /\ accept' = "ok" => Used < MaxDescriptors
    /\ quit' = IF stop = "pending" /\ stop' = "ok" THEN "ok" ELSE quit
    /\ UNCHANGED <<pc, running, on_raspi, lost>>

ProcessNext == Polled(Handler) \/ QuitHandler \/ PollReturns \/ ReadSwitch \/ Step \/ Acts(Kernel)

ProcessSpec == ProcessInit /\ [][ProcessNext]_processVars

(* poll() runs handlers in the order they became ready, and the rest of the   *)
(* frame takes its time and no more.  A reply fits the send buffer: its       *)
(* write completes.                                                          *)
FairProcessSpec ==
    /\ ProcessSpec
    /\ WF_processVars(QuitHandler)
    /\ WF_processVars(PollReturns \/ ReadSwitch \/ Step)
    /\ WF_processVars(Polled(AcceptHandler))
    /\ WF_processVars(Polled(StopHandler))
    /\ \A c \in Conns :
          /\ WF_processVars(Polled(\E op \in ops : op.conn = c /\ (ReadHandler(op) \/ WriteHandler(op))))
          /\ WF_processVars(\E op \in ops : op.conn = c /\ op.kind = "write" /\ Acts(OperationCompletes(op)))

-----------------------------------------------------------------------------
(* When the main loop has ended nothing is left of the server, although the  *)
(* loop never looks at it: the signal reaches both handlers in one poll(),   *)
(* and that poll() also runs the handlers of everything the stop cancelled,  *)
(* and of what had completed before (main.cpp:74-85, server.hpp:143-155).    *)
NothingIsLeftOpen ==
    pc = "ended" => connections = {} /\ ops = {} /\ accept = "none"

(* A quit signal ends the process from any state, even while the descriptors *)
(* have run out and poll() does nothing but accept in vain: the acceptor is  *)
(* closed from within it (server.hpp:120-155, gpio.c:91-94, main.cpp:74-85). *)
SignalEnds == quit = "ok" ~> pc = "ended"
=============================================================================

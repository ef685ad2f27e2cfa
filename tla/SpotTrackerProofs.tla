------------------------- MODULE SpotTrackerProofs -------------------------
(***************************************************************************)
(* A command of the spot tracker is executed while the tracker waits for   *)
(* it, or in the last poll of a table that quits, for any number of        *)
(* connections, descriptors and positions, and however often the table is  *)
(* stopped, started and put to sleep meanwhile.                            *)
(*                                                                         *)
(* The inductive invariant says where a command can be: on the connection  *)
(* the tracker waits on, one the server has not answered yet, or on one    *)
(* that stop_all has closed with its handler still queued, while the       *)
(* process is stopping.  It rests on the tracker having one connection at  *)
(* a time, which the server does not forget before the tracker has closed  *)
(* its end; on a stopping server accepting nothing, so that the tracker    *)
(* cannot connect before such a command is over; and on the end of the     *)
(* process taking what is left along.                                      *)
(***************************************************************************)
EXTENDS SpotTracker, TLAPS

States ==
    {"closed", "backlog", "reading", "queued", "orphaned", "replying", "finished", "reset"}

Connections ==
    [state : States, client : BOOLEAN, request : Colors \union {NoRequest},
     reply : {0, 202, 400}, sent : 0..Buffers]

TypeInv ==
    /\ pc \in {"grab", "choose", "connect", "write", "status"}
    /\ spots \in Seq(Points)
    /\ prev_color \in Colors
    /\ socket \in Conns \union {"none"}
    /\ conns \in [Conns -> Connections]

\* The states of an open connection whose command the server has not handled.
Unanswered == {"backlog", "reading", "queued"}

\* The tracker has its end of one connection open, as long as it needs it.
OneSocket ==
    /\ socket # "none" <=> pc \in {"write", "status"}
    /\ \A c \in Conns : conns[c].client <=> socket = c

\* Before the command is written nothing is handled and nothing comes back.
NothingBeforeTheCommand ==
    pc = "write" => conns[socket].state \in {"backlog", "reading", "reset"}

\* What was not handled has no reply.
NoEarlyReply ==
    \A c \in Conns :
        conns[c].state \in Unanswered \union {"orphaned"} => conns[c].sent = 0 /\ conns[c].reply = 0

\* A handler that is queued has a command to handle.
QueuedCommands ==
    \A c \in Conns : conns[c].state \in {"queued", "orphaned"} => conns[c].request # NoRequest

\* The tracker waits for the answer, and the command is that of its colour.
Awaited(c) == pc = "status" /\ socket = c /\ conns[c].request = prev_color

\* A command on its way is awaited, or its connection was closed by a server that stops.
CommandsAreAwaited ==
    \A c \in Conns :
        conns[c].request # NoRequest =>
            \/ conns[c].state \in Unanswered /\ Awaited(c)
            \/ /\ conns[c].state = "orphaned" /\ server = "stopping"
               /\ Awaited(c) \/ socket = "none"

IInv ==
    /\ TypeInv
    /\ OneSocket
    /\ NothingBeforeTheCommand
    /\ NoEarlyReply
    /\ QueuedCommands
    /\ CommandsAreAwaited

-----------------------------------------------------------------------------
(* The tracker.                                                             *)

\* What find_spots returns are positions of contours.
LEMMA FoundSpotsType == ASSUME FindSpots PROVE spots' \in Seq(Points)
<1>1. ASSUME NEW list \in Seq(Points), NEW a \in Points PROVE Inserted(list, a) \in Seq(Points)
  <2>1. <<a>> \in Seq(Points) /\ <<a>> \o list \in Seq(Points) /\ list \o <<a>> \in Seq(Points)
    OBVIOUS
  <2>2. QED
    BY <2>1 DEF Inserted
<1>2. <<>> \in Seq(Points)
  OBVIOUS
<1>3. \/ contours' = <<>>
      \/ \E a \in Points : contours' = <<a>>
      \/ \E a, b \in Points : contours' = <<a, b>>
  BY DEF FindSpots, ContourLists
<1>4. \/ spots' = <<>>
      \/ \E a \in Points : spots' = Inserted(<<>>, a)
      \/ \E a, b \in Points : spots' = Inserted(Inserted(<<>>, a), b)
  BY <1>3 DEF FindSpots
<1>5. QED
  BY <1>1, <1>2, <1>4

\* A connection that is closed, and a new one.
LEMMA ClosedFacts ==
    /\ Closed \in Connections /\ ~Closed.client
    /\ Closed.request = NoRequest /\ Closed.state = "closed"
    /\ Closed.reply = 0 /\ Closed.sent = 0
    /\ Opened \in Connections /\ Opened.client
    /\ Opened.request = NoRequest /\ Opened.state = "backlog"
    /\ Opened.reply = 0 /\ Opened.sent = 0
BY DEF Closed, Opened, Connections, States, Buffers

\* The tracker's end is closed.
LEMMA LeftFacts ==
    ASSUME NEW con \in Connections, NEW left, left = [con EXCEPT !.client = FALSE]
    PROVE  /\ left \in Connections /\ left.client = FALSE
           /\ left.state = con.state /\ left.request = con.request
           /\ left.reply = con.reply /\ left.sent = con.sent
BY DEF Connections

\* A command is written.
LEMMA WrittenFacts ==
    ASSUME NEW con \in Connections, NEW color \in Colors,
           NEW written, written = [con EXCEPT !.request = color]
    PROVE  /\ written \in Connections /\ written.request = color
           /\ written.state = con.state /\ written.client = con.client
           /\ written.reply = con.reply /\ written.sent = con.sent
BY DEF Connections

\* A connection changes its state.
LEMMA MovedFacts ==
    ASSUME NEW con \in Connections, NEW state \in States,
           NEW moved, moved = [con EXCEPT !.state = state]
    PROVE  /\ moved \in Connections /\ moved.state = state
           /\ moved.client = con.client /\ moved.request = con.request
           /\ moved.reply = con.reply /\ moved.sent = con.sent
BY DEF Connections

\* A command is taken or lost.
LEMMA TakenFacts ==
    ASSUME NEW con \in Connections, NEW state \in States
    PROVE  /\ Taken(con, state) \in Connections /\ Taken(con, state).state = state
           /\ Taken(con, state).request = NoRequest
           /\ Taken(con, state).client = con.client /\ Taken(con, state).reply = con.reply
BY DEF Connections, Taken

\* A connection is answered.
LEMMA AnsweredFacts ==
    ASSUME NEW con \in Connections, NEW reply \in {0, 202, 400},
           NEW answered, answered = [con EXCEPT !.reply = reply]
    PROVE  /\ answered \in Connections /\ answered.state = con.state
           /\ answered.request = con.request
           /\ answered.client = con.client /\ answered.reply = reply
BY DEF Connections

LEMMA InitInv == Init => IInv
<1> SUFFICES ASSUME Init PROVE IInv
  OBVIOUS
<1>1. conns \in [Conns -> Connections] /\ \A c \in Conns : conns[c] = Closed
  BY ClosedFacts DEF Init
<1>2. TypeInv
  BY <1>1 DEF Init, TypeInv, Colors
<1>3. QED
  BY <1>1, <1>2, ClosedFacts, ConnsAssumption
     DEF Init, IInv, OneSocket, NothingBeforeTheCommand, NoEarlyReply, QueuedCommands,
         CommandsAreAwaited, Unanswered

\* A step of the tracker that leaves its connections alone.
LEMMA QuietStepPreserves ==
    ASSUME IInv, TypeInv', UNCHANGED <<socket, server, conns>>,
           pc \notin {"write", "status"}, pc' \notin {"write", "status"}
    PROVE  IInv'
BY DEF IInv, OneSocket, NothingBeforeTheCommand, NoEarlyReply, QueuedCommands, CommandsAreAwaited,
       Awaited

\* The tracker may close its end when its command, if it sent one, has been handled or lost,
\* or is with a server that stops.
LEMMA LeavingPreserves ==
    ASSUME IInv, pc \in {"write", "status"}, GiveUp, conns' = Left(conns, socket),
           UNCHANGED server,
           conns[socket].request = NoRequest \/ conns[socket].state = "orphaned"
    PROVE  IInv'
<1>1. socket \in Conns /\ conns[socket] \in Connections
  BY DEF IInv, TypeInv, OneSocket
<1>2. ASSUME NEW c \in Conns
      PROVE  conns'[c] = IF c = socket THEN [conns[c] EXCEPT !.client = FALSE] ELSE conns[c]
  BY DEF Left, IInv, TypeInv
<1>3. ASSUME NEW c \in Conns PROVE
          /\ conns'[c] \in Connections
          /\ conns'[c].state = conns[c].state /\ conns'[c].request = conns[c].request
          /\ conns'[c].reply = conns[c].reply /\ conns'[c].sent = conns[c].sent
          /\ conns'[c].client = (conns[c].client /\ c # socket)
  <2>1. conns[c] \in Connections /\ conns[c].client \in BOOLEAN
    BY DEF IInv, TypeInv, Connections
  <2>2. CASE c = socket
    BY <1>2, <2>1, <2>2, LeftFacts
  <2>3. CASE c # socket
    BY <1>2, <2>1, <2>3
  <2>4. QED
    BY <2>2, <2>3
<1>4. TypeInv'
  BY <1>3 DEF GiveUp, Left, IInv, TypeInv
<1>5. OneSocket' /\ NothingBeforeTheCommand'
  BY <1>3, ConnsAssumption DEF GiveUp, IInv, OneSocket, NothingBeforeTheCommand
<1>6. NoEarlyReply' /\ QueuedCommands'
  BY <1>3 DEF IInv, NoEarlyReply, QueuedCommands
<1>7. CommandsAreAwaited'
  <2>1. socket # "none" /\ socket' = "none"
    BY <1>1, ConnsAssumption DEF GiveUp
  <2> SUFFICES ASSUME NEW c \in Conns, conns'[c].request # NoRequest
               PROVE  conns'[c].state = "orphaned" /\ server' = "stopping"
    BY <2>1 DEF CommandsAreAwaited
  <2>2. conns[c].request # NoRequest /\ conns'[c].state = conns[c].state
    BY <1>3
  <2>3. CASE conns[c].state = "orphaned"
    BY <2>2, <2>3 DEF IInv, CommandsAreAwaited, Unanswered
  <2>4. CASE conns[c].state # "orphaned"
    BY <2>2, <2>4 DEF IInv, CommandsAreAwaited, Awaited
  <2>5. QED
    BY <2>3, <2>4
<1>8. QED
  BY <1>4, <1>5, <1>6, <1>7 DEF IInv

LEMMA TrackerPreserves == ASSUME IInv, Tracker PROVE IInv'
<1>1. CASE FindSpots
  BY <1>1, FoundSpotsType, QuietStepPreserves DEF FindSpots, table, IInv, TypeInv
<1>2. CASE ChooseSpot
  <2>1. prev_color' \in Colors
    BY <1>2 DEF ChooseSpot, NothingToSend, Colors, IInv, TypeInv
  <2>2. spots' \in Seq(Points)
    BY <1>2 DEF ChooseSpot
  <2>3. pc' \in {"grab", "connect"}
    BY <1>2 DEF ChooseSpot
  <2>4. QED
    BY <1>2, <2>1, <2>2, <2>3, QuietStepPreserves DEF ChooseSpot, table, IInv, TypeInv
<1>3. CASE ConnectRefused
  BY <1>3, QuietStepPreserves DEF ConnectRefused, table, IInv, TypeInv
<1>4. CASE NoEndpoint
  <2>1. socket' = "none" /\ socket = "none"
    BY <1>4 DEF NoEndpoint, GiveUp, IInv, TypeInv, OneSocket
  <2>2. QED
    BY <1>4, <2>1, QuietStepPreserves DEF NoEndpoint, GiveUp, table, IInv, TypeInv
<1>5. ASSUME NEW c \in Conns, Connect(c) PROVE IInv'
  <2>1. conns' = [conns EXCEPT ![c] = Opened]
    BY <1>5 DEF Connect
  <2>2. \A d \in Conns : conns'[d] = IF d = c THEN Opened ELSE conns[d]
    BY <2>1 DEF IInv, TypeInv
  <2>3. TypeInv'
    BY <1>5, ClosedFacts, <2>1 DEF Connect, IInv, TypeInv
  <2>4. OneSocket'
    BY <1>5, ClosedFacts, <2>2, ConnsAssumption DEF Connect, IInv, OneSocket
  <2>5. NothingBeforeTheCommand'
    BY <1>5, ClosedFacts, <2>2 DEF Connect, NothingBeforeTheCommand, Unanswered
  <2>6. NoEarlyReply' /\ QueuedCommands'
    BY ClosedFacts, <2>2 DEF IInv, NoEarlyReply, QueuedCommands
  <2>7. CommandsAreAwaited'
    BY <1>5, ClosedFacts, <2>2 DEF Connect, IInv, CommandsAreAwaited, Awaited
  <2>8. QED
    BY <2>3, <2>4, <2>5, <2>6, <2>7 DEF IInv
<1>6. CASE WriteRequest
  <2>1. socket \in Conns /\ conns[socket] \in Connections /\ prev_color \in Colors
    BY <1>6 DEF WriteRequest, IInv, TypeInv, OneSocket
  <2>2. ASSUME NEW c \in Conns
        PROVE  conns'[c] = IF c = socket THEN Delivered(conns[c]) ELSE conns[c]
    BY <1>6 DEF WriteRequest, IInv, TypeInv
  <2>3. ASSUME NEW c \in Conns PROVE
            /\ conns'[c] \in Connections
            /\ conns'[c].state = conns[c].state /\ conns'[c].client = conns[c].client
            /\ conns'[c].reply = conns[c].reply /\ conns'[c].sent = conns[c].sent
            /\ conns'[c].request = IF c = socket /\ conns[c].state # "reset"
                                   THEN prev_color ELSE conns[c].request
    <3>1. conns[c] \in Connections
      BY DEF IInv, TypeInv
    <3>2. CASE c = socket /\ conns[c].state # "reset"
      <4>1. conns'[c] = [conns[c] EXCEPT !.request = prev_color]
        BY <2>2, <3>2 DEF Delivered
      <4>2. QED
        BY <2>1, <3>1, <3>2, <4>1, WrittenFacts
    <3>3. CASE ~(c = socket /\ conns[c].state # "reset")
      <4>1. conns'[c] = conns[c]
        BY <2>2, <3>3 DEF Delivered
      <4>2. QED
        BY <3>1, <3>3, <4>1
    <3>4. QED
      BY <3>2, <3>3
  <2>4. TypeInv'
    BY <1>6, <2>3 DEF WriteRequest, IInv, TypeInv
  <2>5. OneSocket' /\ NothingBeforeTheCommand' /\ NoEarlyReply'
    BY <1>6, <2>3 DEF WriteRequest, IInv, OneSocket, NothingBeforeTheCommand, NoEarlyReply
  <2>6. QueuedCommands'
    <3>1. conns[socket].state \notin {"queued", "orphaned"}
      BY <1>6 DEF WriteRequest, IInv, NothingBeforeTheCommand
    <3>2. QED
      BY <2>3, <3>1 DEF IInv, QueuedCommands
  <2>7. CommandsAreAwaited'
    <3> SUFFICES ASSUME NEW c \in Conns, conns'[c].request # NoRequest
                 PROVE  conns'[c].state \in Unanswered /\ Awaited(c)'
      BY DEF CommandsAreAwaited
    <3>1. conns[c].request = NoRequest
      BY <1>6, <2>1, ConnsAssumption DEF WriteRequest, IInv, CommandsAreAwaited, Awaited
    <3>2. c = socket /\ conns[c].state # "reset" /\ conns'[c].request = prev_color
      BY <2>3, <3>1
    <3>3. conns'[c].state \in Unanswered
      BY <1>6, <2>3, <3>2 DEF WriteRequest, IInv, NothingBeforeTheCommand, Unanswered
    <3>4. QED
      BY <1>6, <3>2, <3>3 DEF WriteRequest, Awaited
  <2>8. QED
    BY <2>4, <2>5, <2>6, <2>7 DEF IInv
<1>7. CASE ReadStatus
  <2>1. socket \in Conns
    BY <1>7 DEF ReadStatus, IInv, TypeInv, OneSocket
  <2>2. conns[socket].request = NoRequest
    BY <1>7, <2>1 DEF ReadStatus, IInv, NoEarlyReply, CommandsAreAwaited
  <2>3. QED
    BY <1>7, <2>2, LeavingPreserves DEF ReadStatus, table
<1>8. CASE ConnectionLost
  <2>1. socket \in Conns
    BY <1>8 DEF ConnectionLost, IInv, TypeInv, OneSocket
  <2>2. conns[socket].request = NoRequest \/ conns[socket].state = "orphaned"
    BY <1>8, <2>1 DEF ConnectionLost, IInv, CommandsAreAwaited, Unanswered
  <2>3. QED
    BY <1>8, <2>2, LeavingPreserves DEF ConnectionLost, table
<1>9. QED
  BY <1>1, <1>2, <1>3, <1>4, <1>5, <1>6, <1>7, <1>8 DEF Tracker
-----------------------------------------------------------------------------
(* The table.                                                               *)

\* A step of the server on one connection: it may take the command, but not
\* send anything back before, nor forget a connection the client has open.
LEMMA ServedPreserves ==
    ASSUME IInv, NEW c \in Conns, NEW new \in Connections, conns' = [conns EXCEPT ![c] = new],
           UNCHANGED <<tracker, server>>,
           new.client = conns[c].client,
           new.request \in {conns[c].request, NoRequest},
           new.request # NoRequest => {conns[c].state, new.state} \subseteq Unanswered,
           new.state \in Unanswered \union {"orphaned"} => new.sent = 0 /\ new.reply = 0,
           new.state \in {"queued", "orphaned"} => new.request # NoRequest,
           pc = "write" /\ c = socket => new.state \in {"backlog", "reading", "reset"}
    PROVE  IInv'
<1>1. \A d \in Conns : conns'[d] = IF d = c THEN new ELSE conns[d]
  BY DEF IInv, TypeInv
<1>2. TypeInv'
  BY DEF tracker, IInv, TypeInv
<1>3. OneSocket'
  BY <1>1 DEF tracker, IInv, OneSocket
<1>4. NothingBeforeTheCommand'
  <2>1. pc = "write" => socket \in Conns
    BY DEF IInv, TypeInv, OneSocket
  <2>2. QED
    BY <1>1, <2>1 DEF tracker, IInv, NothingBeforeTheCommand
<1>5. NoEarlyReply' /\ QueuedCommands'
  BY <1>1 DEF IInv, NoEarlyReply, QueuedCommands
<1>6. CommandsAreAwaited'
  <2> SUFFICES ASSUME NEW d \in Conns, conns'[d].request # NoRequest
               PROVE  \/ conns'[d].state \in Unanswered /\ Awaited(d)'
                      \/ /\ conns'[d].state = "orphaned" /\ server' = "stopping"
                         /\ Awaited(d)' \/ socket' = "none"
    BY DEF CommandsAreAwaited
  <2>1. CASE d # c
    BY <1>1, <2>1 DEF tracker, IInv, CommandsAreAwaited, Awaited
  <2>2. CASE d = c
    <3>1. conns'[c] = new /\ new.request = conns[c].request /\ new.request # NoRequest
      BY <1>1, <2>2
    <3>2. conns[c].state \in Unanswered /\ new.state \in Unanswered
      BY <3>1
    <3>3. Awaited(c)
      BY <3>1, <3>2 DEF IInv, CommandsAreAwaited, Unanswered
    <3>4. QED
      BY <2>2, <3>1, <3>2, <3>3 DEF tracker, Awaited
  <2>3. QED
    BY <2>1, <2>2
<1>7. QED
  BY <1>2, <1>3, <1>4, <1>5, <1>6 DEF IInv

LEMMA ServePreserves == ASSUME IInv, NEW c \in Conns, Serve(c) PROVE IInv'
<1> DEFINE con == conns[c]
<1>0. /\ con \in Connections /\ con.request \in Colors \union {NoRequest}
      /\ con.sent \in 0..Buffers
  BY DEF IInv, TypeInv, Connections
<1>1. pc = "write" /\ c = socket => con.state \in {"backlog", "reading", "reset"}
  BY DEF IInv, NothingBeforeTheCommand
<1>2. CASE Accept(c)
  <2>1. PICK new : new = [con EXCEPT !.state = "reading"]
    OBVIOUS
  <2>2. /\ conns' = [conns EXCEPT ![c] = new] /\ con.state = "backlog"
        /\ UNCHANGED <<tracker, server>>
    BY <1>2, <2>1 DEF Accept, table
  <2>3. /\ new \in Connections /\ new.state = "reading" /\ new.client = con.client
        /\ new.request = con.request /\ new.sent = con.sent /\ new.reply = con.reply
    BY <1>0, <2>1, MovedFacts DEF States
  <2>4. con.sent = 0 /\ con.reply = 0
    BY <2>2 DEF IInv, NoEarlyReply, Unanswered
  <2>5. QED
    BY <2>2, <2>3, <2>4, ServedPreserves DEF Unanswered
<1>3. CASE Receive(c)
  <2>1. PICK new : new = [con EXCEPT !.state = "queued"]
    OBVIOUS
  <2>2. /\ conns' = [conns EXCEPT ![c] = new] /\ con.state = "reading"
        /\ con.request # NoRequest /\ UNCHANGED <<tracker, server>>
    BY <1>3, <2>1 DEF Receive, table
  <2>3. /\ new \in Connections /\ new.state = "queued" /\ new.client = con.client
        /\ new.request = con.request /\ new.sent = con.sent /\ new.reply = con.reply
    BY <1>0, <2>1, MovedFacts DEF States
  <2>4. con.sent = 0 /\ con.reply = 0
    BY <2>2 DEF IInv, NoEarlyReply, Unanswered
  <2>5. pc = "status"
    BY <2>2 DEF IInv, CommandsAreAwaited, Awaited
  <2>6. QED
    BY <2>2, <2>3, <2>4, <2>5, ServedPreserves DEF Unanswered
<1>4. CASE Handle(c)
  <2> DEFINE state == IF con.state = "queued" THEN "replying" ELSE "reset"
             answer == IF awake THEN 202 ELSE 400
             taken == Taken(con, state)
  <2>1. PICK new : new = [taken EXCEPT !.reply = answer]
    OBVIOUS
  <2>2. /\ conns' = [conns EXCEPT ![c] = new] /\ con.state \in {"queued", "orphaned"}
        /\ UNCHANGED <<tracker, server>>
    BY <1>4, <2>1 DEF Handle
  <2>3. /\ new \in Connections /\ new.state = state /\ new.client = con.client
        /\ new.request = NoRequest
    <3>1. answer \in {0, 202, 400} /\ state \in States
      BY DEF States
    <3>2. /\ taken \in Connections /\ taken.state = state /\ taken.client = con.client
          /\ taken.request = NoRequest
      BY <1>0, <3>1, TakenFacts
    <3> HIDE DEF answer, taken, state
    <3>3. QED
      BY <2>1, <3>1, <3>2, AnsweredFacts
  <2>4. state \in {"replying", "reset"}
    OBVIOUS
  <2>5. ~(pc = "write" /\ c = socket)
    BY <1>1, <2>2
  <2> HIDE DEF state
  <2>6. QED
    BY <2>2, <2>3, <2>4, <2>5, ServedPreserves DEF Unanswered
<1>5. CASE Send(c)
  <2>1. con.state = "replying" /\ con.request = NoRequest /\ UNCHANGED <<tracker, server>>
    BY <1>5 DEF Send, table, IInv, CommandsAreAwaited, Unanswered
  <2>2. CASE con.sent < Buffers /\ conns' = [conns EXCEPT ![c].sent = @ + 1]
    <3>1. PICK new : new = [con EXCEPT !.sent = con.sent + 1]
      OBVIOUS
    <3>2. conns' = [conns EXCEPT ![c] = new]
      BY <2>2, <3>1
    <3>3. con.sent + 1 \in 0..Buffers
      BY <1>0, <2>2 DEF Buffers
    <3>4. /\ new \in Connections /\ new.state = "replying" /\ new.client = con.client
          /\ new.request = con.request
      BY <1>0, <2>1, <3>1, <3>3 DEF Connections
    <3>5. QED
      BY <1>1, <2>1, <3>2, <3>4, ServedPreserves DEF Unanswered
  <2>3. CASE conns' = [conns EXCEPT ![c].state = "finished"]
    <3>1. PICK new : new = [con EXCEPT !.state = "finished"]
      OBVIOUS
    <3>2. conns' = [conns EXCEPT ![c] = new]
      BY <2>3, <3>1
    <3>3. /\ new \in Connections /\ new.state = "finished" /\ new.client = con.client
          /\ new.request = con.request
      BY <1>0, <3>1, MovedFacts DEF States
    <3>4. QED
      BY <1>1, <2>1, <3>2, <3>3, ServedPreserves DEF Unanswered
  <2>4. QED
    BY <1>5, <2>2, <2>3 DEF Send
<1>6. CASE Forget(c)
  <2>1. conns' = [conns EXCEPT ![c] = Closed] /\ con.client = FALSE
        /\ UNCHANGED <<tracker, server>>
    BY <1>0, <1>6 DEF Forget, table, Connections
  <2>2. c # socket
    BY <2>1 DEF IInv, OneSocket
  <2>3. /\ Closed \in Connections /\ Closed.client = FALSE
        /\ Closed.request = NoRequest /\ Closed.state = "closed"
    BY ClosedFacts DEF Closed
  <2>4. QED
    BY <2>1, <2>2, <2>3, ServedPreserves DEF Unanswered
<1>7. QED
  BY <1>2, <1>3, <1>4, <1>5, <1>6 DEF Serve

\* The server closes its connections, and keeps the commands whose handlers are queued.
LEMMA QuitPreserves == ASSUME IInv, Quit PROVE IInv'
<1> DEFINE Dies(con) == con.state \in {"backlog", "reading", "replying"}
<1>0. server' = "stopping" /\ UNCHANGED tracker
  BY DEF Quit
<1>1. PICK accepted \in SUBSET {c \in Conns : conns[c].state = "backlog"} :
          conns' = [c \in Conns |-> IF c \in accepted THEN conns[c] ELSE ClosedByServer(conns[c])]
  BY DEF Quit
<1>2. ASSUME NEW c \in Conns
      PROVE  /\ conns'[c] \in Connections
             /\ conns'[c].client = conns[c].client
             /\ \/ conns'[c] = conns[c] /\ ~(conns[c].state \in {"reading", "queued"})
                \/ /\ conns[c].state = "queued" /\ conns'[c].state = "orphaned"
                   /\ conns'[c].request = conns[c].request
                   /\ conns'[c].sent = conns[c].sent /\ conns'[c].reply = conns[c].reply
                \/ conns'[c].state = "reset" /\ conns'[c].request = NoRequest
  <2>1. conns[c] \in Connections
    BY DEF IInv, TypeInv
  <2>2. CASE c \in accepted
    BY <1>1, <2>1, <2>2
  <2>3. CASE c \notin accepted /\ conns[c].state = "queued"
    <3>1. conns'[c] = [conns[c] EXCEPT !.state = "orphaned"] /\ "orphaned" \in States
      BY <1>1, <2>3 DEF ClosedByServer, States
    <3>2. QED
      BY <2>1, <2>3, <3>1, MovedFacts
  <2>4. CASE c \notin accepted /\ Dies(conns[c])
    <3>1. conns'[c] = Taken(conns[c], "reset") /\ "reset" \in States
      BY <1>1, <2>4 DEF ClosedByServer, States
    <3>2. QED
      BY <2>1, <3>1, TakenFacts
  <2>5. CASE c \notin accepted /\ ~Dies(conns[c]) /\ conns[c].state # "queued"
    <3>1. conns'[c] = conns[c]
      BY <1>1, <2>5 DEF ClosedByServer
    <3>2. QED
      BY <2>1, <2>5, <3>1
  <2>6. QED
    BY <2>2, <2>3, <2>4, <2>5
<1>3. TypeInv'
  BY <1>0, <1>1, <1>2 DEF tracker, IInv, TypeInv
<1>4. OneSocket'
  BY <1>0, <1>2 DEF tracker, IInv, OneSocket
<1>5. NothingBeforeTheCommand'
  <2> SUFFICES ASSUME pc = "write" PROVE conns'[socket].state \in {"backlog", "reading", "reset"}
    BY <1>0 DEF tracker, NothingBeforeTheCommand
  <2>1. socket \in Conns /\ conns[socket].state \in {"backlog", "reading", "reset"}
    BY DEF IInv, TypeInv, OneSocket, NothingBeforeTheCommand
  <2>2. QED
    BY <1>2, <2>1
<1>6. NoEarlyReply' /\ QueuedCommands'
  BY <1>2 DEF IInv, NoEarlyReply, QueuedCommands, Unanswered
<1>7. CommandsAreAwaited'
  <2> SUFFICES ASSUME NEW c \in Conns, conns'[c].request # NoRequest
               PROVE  \/ conns'[c].state \in Unanswered /\ Awaited(c)'
                      \/ conns'[c].state = "orphaned" /\ (Awaited(c)' \/ socket' = "none")
    BY <1>0 DEF CommandsAreAwaited
  <2>1. conns[c].request # NoRequest /\ conns'[c].request = conns[c].request
    BY <1>2
  <2>2. CASE conns'[c] = conns[c]
    BY <1>0, <2>1, <2>2 DEF tracker, IInv, CommandsAreAwaited, Awaited
  <2>3. CASE conns[c].state = "queued" /\ conns'[c].state = "orphaned"
    BY <1>0, <2>1, <2>3 DEF tracker, IInv, CommandsAreAwaited, Awaited
  <2>4. QED
    BY <1>2, <2>1, <2>2, <2>3
<1>8. QED
  BY <1>3, <1>4, <1>5, <1>6, <1>7 DEF IInv

\* A process that is gone has taken what it had not handled along.
LEMMA GonePreserves == ASSUME IInv, ProcessGone PROVE IInv'
<1> DEFINE Quiet(con) == con.state \in {"closed", "finished"}
<1>1. ASSUME NEW c \in Conns
      PROVE  /\ conns'[c] \in Connections
             /\ conns'[c].client = conns[c].client
             /\ conns'[c].request = NoRequest
             /\ conns'[c].state = IF Quiet(conns[c]) THEN conns[c].state ELSE "reset"
  <2>1. conns[c] \in Connections
    BY DEF IInv, TypeInv
  <2>2. CASE ~Quiet(conns[c])
    <3>1. conns'[c] = Taken(conns[c], "reset") /\ "reset" \in States
      BY <2>2 DEF ProcessGone, States
    <3>2. QED
      BY <2>1, <2>2, <3>1, TakenFacts
  <2>3. CASE Quiet(conns[c])
    <3>1. conns'[c] = conns[c]
      BY <2>3 DEF ProcessGone
    <3>2. conns[c].request = NoRequest
      BY <2>3 DEF IInv, CommandsAreAwaited, Unanswered
    <3>3. QED
      BY <2>1, <2>3, <3>1, <3>2
  <2>4. QED
    BY <2>2, <2>3
<1>2. TypeInv'
  BY <1>1 DEF ProcessGone, tracker, IInv, TypeInv
<1>3. OneSocket'
  BY <1>1 DEF ProcessGone, tracker, IInv, OneSocket
<1>4. NothingBeforeTheCommand'
  <2> SUFFICES ASSUME pc = "write" PROVE conns'[socket].state \in {"backlog", "reading", "reset"}
    BY DEF ProcessGone, tracker, NothingBeforeTheCommand
  <2>1. socket \in Conns /\ conns[socket].state \in {"backlog", "reading", "reset"}
    BY DEF IInv, TypeInv, OneSocket, NothingBeforeTheCommand
  <2>2. QED
    BY <1>1, <2>1
<1>5. NoEarlyReply' /\ QueuedCommands' /\ CommandsAreAwaited'
  BY <1>1 DEF NoEarlyReply, QueuedCommands, CommandsAreAwaited, Unanswered
<1>6. QED
  BY <1>2, <1>3, <1>4, <1>5 DEF IInv

\* What else happens to the table is not seen on a connection.
LEMMA NextInv == IInv /\ [Next]_vars => IInv'
<1>1. ASSUME IInv, UNCHANGED <<tracker, conns>>, server' = server \/ server = "down" PROVE IInv'
  <2>1. TypeInv' /\ OneSocket' /\ NothingBeforeTheCommand' /\ NoEarlyReply' /\ QueuedCommands'
    BY <1>1 DEF tracker, IInv, TypeInv, OneSocket, NothingBeforeTheCommand, NoEarlyReply,
                QueuedCommands
  <2>2. CommandsAreAwaited'
    BY <1>1 DEF tracker, IInv, CommandsAreAwaited, Awaited
  <2>3. QED
    BY <2>1, <2>2 DEF IInv
<1>2. ASSUME IInv, Quit \/ Ends \/ Crash PROVE IInv'
  BY <1>2, QuitPreserves, GonePreserves DEF Ends, Crash
<1>3. ASSUME IInv, SleepOrWake \/ OtherCommand \/ DescriptorTaken \/ DescriptorReleased \/ Start
      PROVE  IInv'
  BY <1>1, <1>3 DEF SleepOrWake, OtherCommand, DescriptorTaken, DescriptorReleased, Start
<1>4. ASSUME IInv, UNCHANGED vars PROVE IInv'
  BY <1>1, <1>4 DEF vars, table
<1>5. QED
  BY <1>2, <1>3, <1>4, TrackerPreserves, ServePreserves DEF Next

-----------------------------------------------------------------------------
(* The theorems.                                                            *)

(* The tracker has one connection at a time, and a command is on its way     *)
(* only while the tracker waits on that connection, or while the server that *)
(* closed it stops.                                                          *)
THEOREM Invariance == Spec => []IInv
BY InitInv, NextInv, PTL DEF Spec

(* The table executes a command while the tracker that sent it waits for the *)
(* status line, with the colour the tracker has sent last; or its handler was *)
(* queued when stop_all closed the connection, and then it runs in the last  *)
(* poll of the process, when the tracker has no connection that could carry  *)
(* a newer command (CommandsAreNeverLate).                                   *)
THEOREM NeverLate == Spec => CommandsAreNeverLate
<1> DEFINE Timely(c) ==
               conns[c].reply = 0 /\ conns'[c].reply = 202
                   => \/ pc = "status" /\ socket = c /\ ambience' = prev_color
                      \/ server = "stopping" /\ conns[c].state = "orphaned" /\ socket = "none"
<1>1. IInv /\ [Next]_vars => [\A c \in Conns : Timely(c)]_vars
  <2> DEFINE InTime(c) == pc = "status" /\ socket = c /\ ambience' = prev_color
             InTheLastPoll(c) ==
                 server = "stopping" /\ conns[c].state = "orphaned" /\ socket = "none"
  <2> SUFFICES ASSUME IInv, Next, NEW c \in Conns,
                      conns[c].reply = 0, conns'[c].reply = 202
               PROVE  InTime(c) \/ InTheLastPoll(c)
    OBVIOUS
  <2>0. conns \in [Conns -> Connections] /\ conns[c] \in Connections
    BY DEF IInv, TypeInv
  <2>1. CASE Tracker
    <3>1. CASE \E d \in Conns : Connect(d)
      BY <2>0, <3>1, ClosedFacts DEF Connect
    <3>2. CASE WriteRequest
      BY <2>0, <3>2 DEF WriteRequest, Delivered, Connections
    <3>3. CASE ReadStatus \/ ConnectionLost
      BY <2>0, <3>3 DEF ReadStatus, ConnectionLost, Left, Connections
    <3>4. CASE UNCHANGED conns
      BY <3>4
    <3>5. QED
      BY <2>1, <3>1, <3>2, <3>3, <3>4
         DEF Tracker, FindSpots, ChooseSpot, ConnectRefused, NoEndpoint
  <2>2. ASSUME NEW d \in Conns, Handle(d) PROVE InTime(c) \/ InTheLastPoll(c)
    <3>1. c = d
      BY <2>0, <2>2 DEF Handle
    <3>2. conns[c].state \in {"queued", "orphaned"} /\ conns[c].request # NoRequest
      BY <2>2, <3>1 DEF Handle, IInv, QueuedCommands
    <3>3. awake
      <4> DEFINE state == IF conns[c].state = "queued" THEN "replying" ELSE "reset"
                 answer == IF awake THEN 202 ELSE 400
      <4>1. conns'[c] = [Taken(conns[c], state) EXCEPT !.reply = answer]
        BY <2>0, <2>2, <3>1 DEF Handle
      <4>2. state \in States /\ answer \in {0, 202, 400}
        BY DEF States
      <4>3. conns'[c].reply = answer
        <5> HIDE DEF state, answer
        <5>1. QED
          BY <2>0, <4>1, <4>2, TakenFacts, AnsweredFacts
      <4>4. QED
        BY <4>3
    <3>4. ambience' = conns[c].request
      BY <2>2, <3>1, <3>3 DEF Handle
    <3>5. QED
      BY <3>2, <3>4 DEF IInv, CommandsAreAwaited, Awaited, Unanswered
  <2>3. ASSUME NEW d \in Conns, Accept(d) \/ Receive(d) \/ Send(d) \/ Forget(d) PROVE FALSE
    BY <2>0, <2>3, ClosedFacts DEF Accept, Receive, Send, Forget, Connections
  <2>4. "reset" \in States
    BY DEF States
  <2>5. CASE Quit
    <3>1. PICK accepted \in SUBSET {d \in Conns : conns[d].state = "backlog"} :
              conns' = [d \in Conns |-> IF d \in accepted THEN conns[d]
                                                          ELSE ClosedByServer(conns[d])]
      BY <2>5 DEF Quit
    <3>2. \/ conns'[c] = Taken(conns[c], "reset") \/ conns'[c] = conns[c]
          \/ conns'[c] = [conns[c] EXCEPT !.state = "orphaned"]
      BY <3>1 DEF ClosedByServer
    <3>3. conns'[c].reply = conns[c].reply
      BY <2>0, <2>4, <3>2, TakenFacts DEF Connections
    <3>4. QED
      BY <3>3
  <2>6. CASE Ends \/ Crash
    <3>1. conns'[c] = Taken(conns[c], "reset") \/ conns'[c] = conns[c]
      BY <2>6 DEF Ends, Crash, ProcessGone
    <3>2. QED
      BY <2>0, <2>4, <3>1, TakenFacts
  <2>7. CASE SleepOrWake \/ OtherCommand \/ DescriptorTaken \/ DescriptorReleased \/ Start
    BY <2>7 DEF SleepOrWake, OtherCommand, DescriptorTaken, DescriptorReleased, Start
  <2>8. QED
    BY <2>1, <2>2, <2>3, <2>5, <2>6, <2>7 DEF Next, Serve
<1>2. QED
  BY <1>1, Invariance, PTL DEF Spec, CommandsAreNeverLate
=============================================================================

----------------------------- MODULE SpotTracker -----------------------------
(***************************************************************************)
(* The spot tracker and the table it sends commands to.                    *)
(*                                                                         *)
(* The tracker is a process of its own: ten times a second it looks for    *)
(* bright spots, turns the position of the first one into a colour and, if *)
(* that is a new one, sends it with perform_request, which connects, sends *)
(* the command, and waits for an answer without any timeout.  The table is *)
(* the server of HttpServer and LightTable, seen from its clients: it      *)
(* accepts while it has descriptors, reads, executes or refuses a command, *)
(* sends the reply in pieces and closes the connection; it may be put to   *)
(* sleep, be given other commands, run out of descriptors, be told to quit,*)
(* crash, and be started again at any time.                                *)
(***************************************************************************)
EXTENDS Integers, Sequences, FiniteSets

CONSTANTS
    Width, Height,  \* the surface of the table, as a grid of positions
    EPSILON,        \* the least distance to the previous spot, in positions
    Endpoints,      \* the addresses localhost resolves to, in order
    Listening,      \* the one the server listens on
    Conns,          \* the connections between the two
    MaxContours,    \* bound: the contours of an image, one or two
    MaxDescriptors, \* the descriptors of the table's process that connections may use
    Other           \* the colour of the table's own effects and of other clients

ASSUME GridAssumption == Width \in Nat \ {0} /\ Height \in Nat \ {0} /\ EPSILON \in Nat
ASSUME ConnsAssumption == "none" \notin Conns
ASSUME DescriptorsAssumption == MaxDescriptors \in Nat \ {0}
ASSUME EndpointsAssumption == Endpoints \in Seq({"::1", "127.0.0.1"}) /\ Listening \in {"::1", "127.0.0.1"}

VARIABLES
    pc,          \* the tracker: "grab", "choose", "connect", "write", "status"
    contours,    \* the bright contours of the image, by their centres
    spots,       \* the set find_spots returns, in its order
    prev_spot,   \* the spot of the frame before
    prev_color,  \* the last colour sent, or about to be
    endpoint,    \* the endpoint tried next
    socket,      \* the tracker's connection, or "none"
    server,      \* the table's process: "up", "stopping" in its last poll, or "down"
    awake,       \* is the table active?
    ambience,    \* the colour of its current effect, which it shows when it is
    others,      \* the descriptors that other clients hold, and those that are lost
    conns        \* the connections, as the server has them

tracker == <<pc, contours, spots, prev_spot, prev_color, endpoint, socket>>
table == <<server, awake, ambience, others>>
vars == <<tracker, table, conns>>

Points == (0..Width - 1) \X (0..Height - 1)

-----------------------------------------------------------------------------
(* Color::fromHSV(360 * x, 1, y), for x = point[1] / Width and y = point[2] / *)
(* Height: both are below 1, so the hue is below 360 and in one of six       *)
(* regions.  The products are those of the code, cut to bytes.               *)
FromHSV(point) ==
    LET region == (6 * point[1]) \div Width
        f == (6 * point[1]) % Width                       \* over Width
        v == (255 * point[2]) \div Height
        q == (255 * point[2] * (Width - f)) \div (Width * Height)
        t == (255 * point[2] * f) \div (Width * Height)
    IN  CASE region = 0 -> <<v, t, 0>>
          [] region = 1 -> <<q, v, 0>>
          [] region = 2 -> <<0, v, t>>
          [] region = 3 -> <<0, q, v>>
          [] region = 4 -> <<t, 0, v>>
          [] OTHER -> <<v, 0, q>>

Black == <<0, 0, 0>>
Colors == {FromHSV(point) : point \in Points} \union {Black}

-----------------------------------------------------------------------------
(* Detector::find_spots.                                                    *)

(* pointcmp compares the x of one point with the y of the other: both are     *)
(* fractions of the table, one of its width and one of its height.           *)
Precedes(a, b) == IF a[1] = b[1] THEN a[2] < b[2] ELSE a[1] * Height < b[2] * Width

(* std::set::insert, into a set of at most one: before, after, or not at all  *)
(* when neither point precedes the other.                                    *)
Inserted(set, point) ==
    IF set = <<>> THEN <<point>>
    ELSE IF Precedes(point, set[1]) THEN <<point>> \o set
    ELSE IF Precedes(set[1], point) THEN set \o <<point>>
    ELSE set

\* The centres of the contours, in the order findContours returns them.
ContourLists ==
    {list \in {<<>>} \union {<<a>> : a \in Points} \union {<<a, b>> : a, b \in Points} :
        Len(list) =< MaxContours}

FindSpots ==
    /\ pc = "grab"
    /\ contours' \in ContourLists
    /\ spots' = CASE contours' = <<>> -> <<>>
                  [] Len(contours') = 1 -> Inserted(<<>>, contours'[1])
                  [] OTHER -> Inserted(Inserted(<<>>, contours'[1]), contours'[2])
    /\ pc' = "choose"
    /\ UNCHANGED <<prev_spot, prev_color, endpoint, socket, table, conns>>

-----------------------------------------------------------------------------
(* The loop of the tracker.                                                 *)

TooClose(a, b) == a[1] - b[1] \in 1 - EPSILON..EPSILON - 1 /\ a[2] - b[2] \in 1 - EPSILON..EPSILON - 1

\* The spot is left alone: none, too close to the one before, or of the colour sent last.
NothingToSend ==
    spots = <<>> \/ TooClose(spots[1], prev_spot) \/ FromHSV(spots[1]) = prev_color

(* The line that remembers the spot is outside the scope of spot; it is taken *)
(* for what it says, in the frames that have one.                            *)
ChooseSpot ==
    /\ pc = "choose"
    /\ prev_spot' = IF spots = <<>> THEN prev_spot ELSE spots[1]
    /\ IF NothingToSend THEN pc' = "grab" /\ UNCHANGED prev_color
                        ELSE pc' = "connect" /\ prev_color' = FromHSV(spots[1])
    /\ contours' = <<>> /\ spots' = <<>>
    /\ UNCHANGED <<endpoint, socket, table, conns>>

-----------------------------------------------------------------------------
(* perform_request.                                                         *)

NoRequest == <<>>
Closed == [state |-> "closed", client |-> FALSE, request |-> NoRequest, reply |-> 0, sent |-> 0]
Opened == [state |-> "backlog", client |-> TRUE, request |-> NoRequest, reply |-> 0, sent |-> 0]

\* The end of perform_request, by an exception: the socket is destroyed.
GiveUp ==
    /\ pc' = "grab"
    /\ socket' = "none" /\ endpoint' = 1
    /\ UNCHANGED <<contours, spots, prev_spot, prev_color>>

\* The client's end of a connection is closed; the server has not noticed.
Left(cs, c) == [cs EXCEPT ![c].client = FALSE]

\* Mutant: only the first endpoint is tried.
FirstEndpointRefused ==
    /\ pc = "connect"
    /\ endpoint =< Len(Endpoints)
    /\ server # "up" \/ Endpoints[endpoint] # Listening
    /\ endpoint' = Len(Endpoints) + 1
    /\ UNCHANGED <<pc, contours, spots, prev_spot, prev_color, socket, table, conns>>

\* An endpoint the server listens on: the kernel accepts for it.
Connect(c) ==
    /\ pc = "connect"
    /\ endpoint =< Len(Endpoints)
    /\ server = "up" /\ Endpoints[endpoint] = Listening
    /\ conns[c] = Closed
    /\ c = CHOOSE free \in Conns : conns[free] = Closed
    /\ conns' = [conns EXCEPT ![c] = Opened]
    /\ socket' = c
    /\ endpoint' = 1
    /\ pc' = "write"
    /\ UNCHANGED <<contours, spots, prev_spot, prev_color, table>>

ConnectRefused ==
    /\ pc = "connect"
    /\ endpoint =< Len(Endpoints)
    /\ server # "up" \/ Endpoints[endpoint] # Listening
    /\ endpoint' = endpoint + 1
    /\ UNCHANGED <<pc, contours, spots, prev_spot, prev_color, socket, table, conns>>

NoEndpoint ==
    /\ pc = "connect"
    /\ endpoint > Len(Endpoints)
    /\ GiveUp
    /\ UNCHANGED <<table, conns>>

\* The bytes of the request arrive, unless the server's end is closed already.
Delivered(con) == IF con.state = "reset" THEN con ELSE [con EXCEPT !.request = prev_color]

\* Mutant: the request is sent and the answer not waited for.
WriteAndGo ==
    /\ pc = "write"
    /\ conns' = Left([conns EXCEPT ![socket] = Delivered(@)], socket)
    /\ GiveUp
    /\ UNCHANGED table

WriteRequest ==
    /\ pc = "write"
    /\ conns' = [conns EXCEPT ![socket] = Delivered(@)]
    /\ pc' = "status"
    /\ UNCHANGED <<contours, spots, prev_spot, prev_color, endpoint, socket, table>>

\* The status line has come: anything but 200 is an error, and 200 is no answer to a command.
ReadStatus ==
    /\ pc = "status"
    /\ conns[socket].sent >= 1
    /\ conns[socket].reply # 200
    /\ conns' = Left(conns, socket)
    /\ GiveUp
    /\ UNCHANGED table

\* The server's end was closed before the request or the status line got through.
ConnectionLost ==
    /\ pc \in {"write", "status"}
    /\ conns[socket].state \in {"reset", "orphaned"}
    /\ conns' = Left(conns, socket)
    /\ GiveUp
    /\ UNCHANGED table

Tracker ==
    \/ FindSpots \/ ChooseSpot
    \/ (\E c \in Conns : Connect(c)) \/ ConnectRefused \/ NoEndpoint
    \/ WriteRequest \/ ReadStatus \/ ConnectionLost

-----------------------------------------------------------------------------
(* The table.                                                               *)

\* The buffers of a reply, sent in this order: the status line, and the others.
Buffers == 2

\* The connections that hold a descriptor: accepted, and not closed.
Held == {c \in Conns : conns[c].state \in {"reading", "queued", "replying"}}

DescriptorFree == others + Cardinality(Held) < MaxDescriptors

(* The connection is accepted and read from.  Without a descriptor the accept *)
(* fails and the handler accepts again: the connection stays where it is.     *)
Accept(c) ==
    /\ server = "up"
    /\ conns[c].state = "backlog"
    /\ DescriptorFree
    /\ conns' = [conns EXCEPT ![c].state = "reading"]
    /\ UNCHANGED <<tracker, table>>

\* The read that completes the request is over; its handler has still to run.
Receive(c) ==
    /\ server = "up"
    /\ conns[c].state = "reading" /\ conns[c].request # NoRequest
    /\ conns' = [conns EXCEPT ![c].state = "queued"]
    /\ UNCHANGED <<tracker, table>>

\* The command has been taken from a connection, or is lost with it.
Taken(con, state) == [con EXCEPT !.state = state, !.request = NoRequest]

\* Mutant: a table that sleeps takes a command and gives no answer.
HandleAwakeOnly(c) ==
    /\ conns[c].state = "queued"
    /\ ambience' = IF awake THEN conns[c].request ELSE ambience
    /\ conns' = [conns EXCEPT ![c] =
          IF awake THEN [Taken(@, "replying") EXCEPT !.reply = 202] ELSE Taken(@, "reading")]
    /\ UNCHANGED <<tracker, server, awake, others>>

(* The handler of the read: a PLAIN command, accepted by a table that is     *)
(* awake.  When the server closed the connection meanwhile, the command is    *)
(* executed all the same and the reply has nowhere to go.                     *)
Handle(c) ==
    /\ conns[c].state \in {"queued", "orphaned"}
    /\ ambience' = IF awake THEN conns[c].request ELSE ambience
    /\ conns' = [conns EXCEPT ![c] =
          [Taken(@, IF @.state = "queued" THEN "replying" ELSE "reset")
             EXCEPT !.reply = IF awake THEN 202 ELSE 400]]
    /\ UNCHANGED <<tracker, server, awake, others>>

\* A piece of the reply; after the last one, or when the client has left, it is over.
Send(c) ==
    /\ server = "up"
    /\ conns[c].state = "replying"
    /\ \/ /\ conns[c].sent < Buffers
          /\ conns' = [conns EXCEPT ![c].sent = @ + 1]
       \/ /\ conns[c].sent = Buffers \/ ~conns[c].client
          /\ conns' = [conns EXCEPT ![c].state = "finished"]
    /\ UNCHANGED <<tracker, table>>

\* Both ends are closed.
Forget(c) ==
    /\ conns[c].state \in {"finished", "reset"}
    /\ ~conns[c].client
    /\ conns' = [conns EXCEPT ![c] = Closed]
    /\ UNCHANGED <<tracker, table>>

\* The power switch, or a STOP.
SleepOrWake ==
    /\ server # "down"
    /\ awake' = ~awake
    /\ UNCHANGED <<tracker, server, ambience, others, conns>>

OtherCommand ==
    /\ server # "down" /\ awake
    /\ ambience' = Other
    /\ UNCHANGED <<tracker, server, awake, others, conns>>

\* Another client is accepted, or a descriptor is lost.
DescriptorTaken ==
    /\ server = "up"
    /\ DescriptorFree
    /\ others' = others + 1
    /\ UNCHANGED <<tracker, server, awake, ambience, conns>>

DescriptorReleased ==
    /\ server = "up"
    /\ others > 0
    /\ others' = others - 1
    /\ UNCHANGED <<tracker, server, awake, ambience, conns>>

\* A connection when the server closes its end: what it has sent may still be read.
ClosedByServer(con) ==
    CASE con.state = "queued" -> [con EXCEPT !.state = "orphaned"]
      [] con.state \in {"backlog", "reading", "replying"} -> Taken(con, "reset")
      [] OTHER -> con

(* The quit signal: the acceptor is closed and stop_all closes the           *)
(* connections, but the handlers of the reads that are over still run in     *)
(* this poll.  A connection accepted whose handler has not run is closed with *)
(* the process.                                                              *)
Quit ==
    /\ server = "up"
    /\ server' = "stopping"
    /\ \E accepted \in SUBSET {c \in Conns : conns[c].state = "backlog"} :
          /\ Cardinality(accepted) =< 1
          /\ conns' = [c \in Conns |-> IF c \in accepted THEN conns[c] ELSE ClosedByServer(conns[c])]
    /\ UNCHANGED <<tracker, awake, ambience, others>>

\* The process is gone, and with it its connections and what they had to do.
ProcessGone ==
    /\ server' = "down" /\ awake' = FALSE /\ ambience' = Other /\ others' = 0
    /\ conns' = [c \in Conns |->
          IF conns[c].state \in {"closed", "finished"} THEN conns[c] ELSE Taken(conns[c], "reset")]
    /\ UNCHANGED tracker

\* The last poll is over, which takes every handler that is ready, and main returns.
Ends ==
    /\ server = "stopping"
    /\ \A c \in Conns : conns[c].state # "orphaned"
    /\ ProcessGone

\* An exception leaves a handler, or the process is killed.
Crash == server # "down" /\ ProcessGone

Start ==
    /\ server = "down"
    /\ server' = "up" /\ awake' = TRUE
    /\ UNCHANGED <<tracker, ambience, others, conns>>

Serve(c) == Accept(c) \/ Receive(c) \/ Handle(c) \/ Send(c) \/ Forget(c)

Init ==
    /\ pc = "grab"
    /\ contours = <<>> /\ spots = <<>>
    /\ prev_spot = <<0, 0>>
    /\ prev_color = Black
    /\ endpoint = 1
    /\ socket = "none"
    /\ server \in {"up", "down"}
    /\ awake = (server = "up")
    /\ ambience = Other
    /\ others = 0
    /\ conns = [c \in Conns |-> Closed]

Next ==
    \/ Tracker
    \/ \E c \in Conns : Serve(c)
    \/ SleepOrWake \/ OtherCommand \/ DescriptorTaken \/ DescriptorReleased
    \/ Quit \/ Ends \/ Crash \/ Start

Spec == Init /\ [][Next]_vars

(* The tracker's loop runs; a table that is up polls its server at every     *)
(* frame, and one that has been told to quit comes to its end.  A connection *)
(* is accepted if a descriptor stays free.  Nothing is assumed of who stops,  *)
(* starts or uses the table, nor of descriptors being given back.            *)
FairSpec ==
    /\ Spec
    /\ WF_vars(Tracker)
    /\ \A c \in Conns : WF_vars(Serve(c))
    /\ WF_vars(Ends)

-----------------------------------------------------------------------------
(* A table that goes on never executes a command after the tracker has gone  *)
(* on: a slow or restarted server cannot show the colour of a spot that is   *)
(* gone over that of a newer one, because perform_request waits for the      *)
(* status line (http_client.cpp:53-82, spot_tracker.cpp:86-92).  Only a read  *)
(* that was over when stop_all closed its connection can be late: its command *)
(* is executed in the last poll of the process (connection_manager.cpp:32-37, *)
(* connection.cpp:38-50), and then the tracker has no connection, so no newer *)
(* command is there to be undone.                                            *)
CommandsAreNeverLate ==
    [][\A c \in Conns :
        conns[c].reply = 0 /\ conns'[c].reply = 202
            => \/ pc = "status" /\ socket = c /\ ambience' = prev_color
               \/ server = "stopping" /\ conns[c].state = "orphaned" /\ socket = "none"]_vars

\* The tracker waits in the backlog of a table that others have left no descriptor.
Starved ==
    /\ others = MaxDescriptors
    /\ socket # "none" /\ conns[socket].state = "backlog"

(* A colour that is sent to a table that is up and awake becomes that of its *)
(* effect, whichever of the addresses of localhost it listens on, unless the *)
(* table is stopped or put to sleep first, or cannot accept for want of      *)
(* descriptors (http_client.cpp:30-39, spot_tracker.cpp:84-92,               *)
(* server.hpp:128-139).                                                      *)
SentColorIsShown ==
    \A color \in Colors :
        pc = "connect" /\ endpoint = 1 /\ prev_color = color /\ server = "up" /\ awake
            ~> ambience = color \/ ~awake \/ server # "up" \/ Starved

(* The tracker, which has no timeout, comes to its next frame: every command *)
(* that is accepted is answered, refused or not, and a table that stops takes *)
(* the connection down.  Only in the backlog of a table without descriptors   *)
(* can it wait for ever (http_client.cpp:59, 82, server.hpp:128-139).        *)
TrackerGoesOn == pc # "grab" ~> pc = "grab" \/ Starved

(* detector.h:27-30, "Returns a set of two floats between 0 and 1            *)
(* representing the position (x,y) of a bright spot": every bright contour   *)
(* has its centre in the set that find_spots returns.                        *)
SpotsAreAllReturned ==
    \A k \in DOMAIN contours : \E s \in DOMAIN spots : spots[s] = contours[k]
=============================================================================

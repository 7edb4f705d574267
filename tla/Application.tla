----------------------------- MODULE Application -----------------------------
(***************************************************************************)
(* The main program: Application::run and serveClient                      *)
(* (src/app/Application.cpp) with the TcpServer calls they make, composed  *)
(* with the camera of module CameraManager.                                *)
(*                                                                         *)
(* The process is one thread; "pc" is the place it has reached, and every  *)
(* place where it can wait, or where the camera, the network or a signal   *)
(* can act, is a place of its own.  A frame is a sequence of units, the    *)
(* first its header; "chan" is the send buffer of the client's socket and  *)
(* the network behind it, holding the units LongLook has not read yet.     *)
(* The clock is abstracted: whether a sensor frame is due is a choice, and *)
(* a wait may end at any time.                                             *)
(***************************************************************************)
EXTENDS CameraManager, Sequences

CONSTANTS
  Cap,            \* units the connection can hold before send() blocks
  FrameLen,       \* units of a frame, its header included, by type
  SleepTicks,     \* 100 ms ticks between two attempts to open the camera
  GrabFailLimit   \* failed grabs in a row that end a connection

FrameTypes == {"text", "video", "sensor"}

ASSUME AppAssumption ==
  /\ Cap \in Nat \ {0}
  /\ FrameLen \in [FrameTypes -> Nat \ {0}]
  /\ SleepTicks \in Nat
  /\ GrabFailLimit \in Nat \ {0}

VARIABLES
  pc,         \* where the process is: see Places
  running,    \* running_: cleared by SIGINT or SIGTERM
  slept,      \* slept of interruptibleSleep, in ticks
  listening,  \* listenFd_ >= 0
  conn,       \* the client's connection, as the process's kernel knows it
  chan,       \* the units sent and not yet read by the client
  lastRead,   \* the unit the client read last on this connection, or NoUnit
  out,        \* the frame being sent: its type and the units already sent
  grabFail,   \* grabFailCnt
  exitCode    \* what run() returned, -1 while it runs

netVars == <<listening, conn, chan, lastRead>>
appVars == <<pc, running, slept, netVars, out, grabFail, exitCode>>
vars    == <<appVars, camVars>>

Places == {"boot", "opening", "sleep", "booted", "listen", "bind", "unlistened",
           "loop", "start", "send", "check", "grab", "sensor", "poll", "stop",
           "closeclient", "closing", "closeserver", "returned", "destroy",
           "exited"}

Units   == {u \in [type : FrameTypes, k : Nat \ {0}] : u.k <= FrameLen[u.type]}
NoUnit  == [type |-> "none", k |-> 0]
NoFrame == [type |-> "none", sent |-> 0]
Frames  == {f \in [type : FrameTypes, sent : Nat] : f.sent <= FrameLen[f.type]}

IsLast(u) == u.type # "none" /\ u.k = FrameLen[u.type]

AppTypeOK ==
  /\ pc \in Places
  /\ running \in BOOLEAN
  /\ slept \in 0 .. SleepTicks
  /\ listening \in BOOLEAN
  /\ conn \in {"none", "up", "fin", "reset"}
  /\ chan \in Seq(Units) /\ Len(chan) <= Cap
  /\ lastRead = NoUnit \/ lastRead \in Units
  /\ out = NoFrame \/ out \in Frames
  /\ grabFail \in 0 .. GrabFailLimit
  /\ exitCode \in {-1, 0, 1}

AppInit ==
  /\ Init
  /\ pc = "boot"
  /\ running = TRUE
  /\ slept = 0
  /\ listening = FALSE
  /\ conn = "none"
  /\ chan = <<>>
  /\ lastRead = NoUnit
  /\ out = NoFrame
  /\ grabFail = 0
  /\ exitCode = -1
-----------------------------------------------------------------------------
Goto(place) == pc' = place

Return(code) == exitCode' = code /\ Goto("returned")

(* The loop that opens the camera until it succeeds.                       *)
BootOpen ==
  /\ pc = "boot" /\ running
  /\ \/ OpenDevice /\ Goto("opening")
     \/ OpenDeviceFails /\ Goto("sleep")
  /\ slept' = 0
  /\ UNCHANGED <<running, netVars, out, grabFail, exitCode>>

Opening ==
  /\ pc = "opening"
  /\ \/ Negotiate /\ UNCHANGED pc
     \/ MapBuffer /\ Goto(IF op' = "idle" THEN "booted" ELSE "opening")
     \/ (NegotiateFails \/ MapBufferFails) /\ Goto("sleep")
  /\ UNCHANGED <<running, slept, netVars, out, grabFail, exitCode>>

(* interruptibleSleep(): each tick first looks at running_.                *)
Sleep ==
  /\ pc = "sleep" /\ running
  /\ IF slept < SleepTicks
     THEN slept' = slept + 1 /\ UNCHANGED pc
     ELSE Goto("boot") /\ UNCHANGED slept
  /\ UNCHANGED <<running, netVars, out, grabFail, exitCode, camVars>>

Booted ==
  /\ pc = "booted" /\ running
  /\ Goto("listen")
  /\ UNCHANGED <<running, slept, netVars, out, grabFail, exitCode, camVars>>

(* The two "return 0" of the boot phase close nothing by hand.             *)
StopSeen ==
  /\ pc \in {"boot", "sleep", "booted"} /\ ~running
  /\ Return(0)
  /\ UNCHANGED <<running, slept, netVars, out, grabFail, camVars>>

(* TcpServer::listen(): the socket is made, then bound and listened on.    *)
Listen ==
  /\ \/ pc = "listen" /\ listening' = TRUE /\ Goto("bind")
     \/ pc = "bind" /\ UNCHANGED listening /\ Goto("loop")
  /\ UNCHANGED <<running, slept, conn, chan, lastRead, out, grabFail, exitCode,
                 camVars>>

(* Any of its steps may fail; a socket that was made is closed.            *)
ListenFails ==
  /\ pc \in {"listen", "bind"}
  /\ listening' = FALSE
  /\ Goto("unlistened")
  /\ UNCHANGED <<running, slept, conn, chan, lastRead, out, grabFail, exitCode,
                 camVars>>

(* "return 1", by a run() that forgets the camera.                         *)
NoListenKeepsCamera ==
  /\ pc = "unlistened"
  /\ Return(1)
  /\ UNCHANGED <<running, slept, netVars, out, grabFail, camVars>>

NoListen ==
  /\ pc = "unlistened"
  /\ Close
  /\ Return(1)
  /\ UNCHANGED <<running, slept, netVars, out, grabFail>>

(* acceptClient(): a timeout or EINTR goes round the loop, an error ends   *)
(* the program, and the client accepted may already have gone away.        *)
AcceptTimeout ==
  /\ pc = "loop" /\ running
  /\ UNCHANGED vars

(* The accept loop ends: a stop request, or an error of accept().          *)
LoopEnds == /\ Goto("closing")
            /\ UNCHANGED <<running, slept, netVars, out, grabFail, exitCode, camVars>>

LoopStops   == pc = "loop" /\ ~running /\ LoopEnds
AcceptFails == pc = "loop" /\ running /\ LoopEnds

Accept ==
  /\ pc = "loop" /\ running
  /\ conn' \in {"up", "fin", "reset"}
  /\ Goto("start")
  /\ UNCHANGED <<running, slept, listening, chan, lastRead, out, grabFail,
                 exitCode, camVars>>
-----------------------------------------------------------------------------
(* Serving without greeting.                                               *)
StartWithoutGreeting ==
  /\ pc = "start"
  /\ \/ StartSucceeds /\ Goto("check")
     \/ StartFails /\ Goto("closeclient")
  /\ grabFail' = 0
  /\ UNCHANGED <<running, slept, netVars, out, exitCode>>

(* startStreaming() and the greeting.                                      *)
Start ==
  /\ pc = "start"
  /\ \/ /\ StartSucceeds
        /\ out' = [type |-> "text", sent |-> 0]
        /\ Goto("send")
     \/ StartFails /\ Goto("closeclient") /\ UNCHANGED out
  /\ grabFail' = 0
  /\ UNCHANGED <<running, slept, netVars, exitCode>>

(* sendAll(): each send() moves at least one unit into the connection and  *)
(* blocks while it is full.                                                *)
SendUnit ==
  /\ pc = "send" /\ conn \in {"up", "fin"} /\ Len(chan) < Cap
  /\ out.sent < FrameLen[out.type]
  /\ chan' = Append(chan, [type |-> out.type, k |-> out.sent + 1])
  /\ out' = [out EXCEPT !.sent = @ + 1]
  /\ UNCHANGED <<pc, running, slept, listening, conn, lastRead, grabFail,
                 exitCode, camVars>>

AfterFrame == [text |-> "check", video |-> "sensor", sensor |-> "poll"]

(* A full socket taken for a finished frame.                               *)
SendDoneWhenFull ==
  /\ pc = "send"
  /\ out.sent = FrameLen[out.type] \/ Len(chan) = Cap
  /\ out' = NoFrame
  /\ Goto(AfterFrame[out.type])
  /\ UNCHANGED <<running, slept, netVars, grabFail, exitCode, camVars>>

SendDone ==
  /\ pc = "send"
  /\ out.sent = FrameLen[out.type]
  /\ out' = NoFrame
  /\ Goto(AfterFrame[out.type])
  /\ UNCHANGED <<running, slept, netVars, grabFail, exitCode, camVars>>

(* send() fails once the connection is lost; the result of the greeting is *)
(* not looked at.                                                          *)
SendFails ==
  /\ pc = "send" /\ conn = "reset"
  /\ out.sent < FrameLen[out.type]
  /\ out' = NoFrame
  /\ Goto(IF out.type = "text" THEN "check" ELSE "stop")
  /\ UNCHANGED <<running, slept, netVars, grabFail, exitCode, camVars>>
-----------------------------------------------------------------------------
(* The serving loop, from its test of running_ to the end of grabFrame().  *)
GrabMissed ==
  /\ grabFail' = grabFail + 1
  /\ Goto(IF grabFail' = GrabFailLimit THEN "stop" ELSE "sensor")

(* A serving loop that only ends when the connection does.                 *)
CheckIgnoringStop ==
  /\ pc = "check"
  /\ \/ GrabBegin /\ Goto("grab") /\ UNCHANGED grabFail
     \/ RequeueFails /\ GrabMissed
  /\ UNCHANGED <<running, slept, netVars, out, exitCode>>

(* A failed VIDIOC_QBUF that is not counted as a failed grab.              *)
CheckForgivingRequeue ==
  /\ pc = "check"
  /\ \/ running /\ GrabBegin /\ Goto("grab") /\ UNCHANGED grabFail
     \/ running /\ RequeueFails /\ Goto("sensor") /\ UNCHANGED grabFail
     \/ ~running /\ Goto("stop") /\ UNCHANGED <<grabFail, camVars>>
  /\ UNCHANGED <<running, slept, netVars, out, exitCode>>

Check ==
  /\ pc = "check"
  /\ \/ running /\ GrabBegin /\ Goto("grab") /\ UNCHANGED grabFail
     \/ running /\ RequeueFails /\ GrabMissed
     \/ ~running /\ Goto("stop") /\ UNCHANGED <<grabFail, camVars>>
  /\ UNCHANGED <<running, slept, netVars, out, exitCode>>

(* A frame is sent when the driver filled the buffer, an empty one is not. *)
Grabbed ==
  /\ pc = "grab"
  /\ \/ /\ GrabSucceeds
        /\ grabFail' = 0
        /\ \/ Goto("send") /\ out' = [type |-> "video", sent |-> 0]
           \/ Goto("sensor") /\ UNCHANGED out
     \/ GrabFails /\ GrabMissed /\ UNCHANGED out
  /\ UNCHANGED <<running, slept, netVars, exitCode>>

(* A sensor frame is sent when a second has passed since the last one.     *)
Sensor ==
  /\ pc = "sensor"
  /\ \/ Goto("send") /\ out' = [type |-> "sensor", sent |-> 0]
     \/ Goto("poll") /\ UNCHANGED out
  /\ UNCHANGED <<running, slept, netVars, grabFail, exitCode, camVars>>

(* pollCommands() that takes the end of the stream for "nothing to read".  *)
PollMissingEof ==
  /\ pc = "poll"
  /\ Goto(IF conn # "reset" THEN "check" ELSE "stop")
  /\ UNCHANGED <<running, slept, netVars, out, grabFail, exitCode, camVars>>

(* pollCommands() ends the connection once the peer closed or lost it.     *)
Poll ==
  /\ pc = "poll"
  /\ Goto(IF conn = "up" THEN "check" ELSE "stop")
  /\ UNCHANGED <<running, slept, netVars, out, grabFail, exitCode, camVars>>

(* serveClient() that leaves its loop without stopStreaming().             *)
StopLeavingStream ==
  /\ pc = "stop"
  /\ Goto("closeclient")
  /\ UNCHANGED <<running, slept, netVars, out, grabFail, exitCode, camVars>>

Stop ==
  /\ pc = "stop"
  /\ StopStreaming
  /\ Goto("closeclient")
  /\ UNCHANGED <<running, slept, netVars, out, grabFail, exitCode>>

(* closeClient(): the connection is followed no further.                   *)
CloseClient ==
  /\ pc = "closeclient"
  /\ conn' = "none"
  /\ chan' = <<>>
  /\ lastRead' = NoUnit
  /\ Goto("loop")
  /\ UNCHANGED <<running, slept, listening, out, grabFail, exitCode, camVars>>
-----------------------------------------------------------------------------
(* Behind the accept loop the camera and then the server are closed.       *)
CloseCamera ==
  /\ pc = "closing"
  /\ Close
  /\ Goto("closeserver")
  /\ UNCHANGED <<running, slept, netVars, out, grabFail, exitCode>>

CloseServer ==
  /\ pc = "closeserver"
  /\ listening' = FALSE
  /\ Return(0)
  /\ UNCHANGED <<running, slept, conn, chan, lastRead, out, grabFail, camVars>>

(* main() returns: the destructors of server_ and then of camera_.         *)
DestroyServer ==
  /\ pc = "returned"
  /\ listening' = FALSE
  /\ Goto("destroy")
  /\ UNCHANGED <<running, slept, conn, chan, lastRead, out, grabFail, exitCode,
                 camVars>>

DestroyCamera ==
  /\ pc = "destroy"
  /\ Close
  /\ Goto("exited")
  /\ UNCHANGED <<running, slept, netVars, out, grabFail, exitCode>>
-----------------------------------------------------------------------------
(* The environment: the signal handler, LongLook, the network, the camera. *)
RequestStop ==
  /\ running
  /\ running' = FALSE
  /\ UNCHANGED <<pc, slept, netVars, out, grabFail, exitCode, camVars>>

PeerRead ==
  /\ conn \in {"up", "fin"} /\ chan # <<>>
  /\ lastRead' = Head(chan)
  /\ chan' = Tail(chan)
  /\ UNCHANGED <<pc, running, slept, listening, conn, out, grabFail, exitCode,
                 camVars>>

(* LongLook shuts down its sending side, or closes altogether.             *)
PeerClose ==
  /\ conn = "up"
  /\ conn' = "fin"
  /\ UNCHANGED <<pc, running, slept, listening, chan, lastRead, out, grabFail,
                 exitCode, camVars>>

(* A RST arrives, or TCP gives up retransmitting.                          *)
ConnLost ==
  /\ conn \in {"up", "fin"}
  /\ conn' = "reset"
  /\ chan' = <<>>
  /\ UNCHANGED <<pc, running, slept, listening, lastRead, out, grabFail,
                 exitCode, camVars>>

Camera == Driver /\ UNCHANGED appVars

Boot   == BootOpen \/ Opening \/ Sleep \/ Booted \/ StopSeen
Accepting == \/ Listen \/ ListenFails \/ NoListen
             \/ AcceptTimeout \/ AcceptFails \/ LoopStops \/ Accept
Serve  == \/ Start \/ SendUnit \/ SendDone \/ SendFails \/ Check \/ Grabbed
          \/ Sensor \/ Poll \/ Stop \/ CloseClient
Leaving == CloseCamera \/ CloseServer \/ DestroyServer \/ DestroyCamera

Process     == Boot \/ Accepting \/ Serve \/ Leaving
Environment == RequestStop \/ PeerRead \/ PeerClose \/ ConnLost \/ Camera

AppNext == Process \/ Environment

AppSpec == AppInit /\ [][AppNext]_vars

(* The process is scheduled whenever it can move, and what is in the       *)
(* connection is read in the end or the connection is lost.                *)
ProcessFair == WF_vars(Process)
NetworkFair == WF_vars(PeerRead \/ (chan # <<>> /\ ConnLost))

FairSpec == AppSpec /\ ProcessFair /\ NetworkFair
-----------------------------------------------------------------------------
(* While the bytes of a frame are being sent, however long send() blocks,  *)
(* the buffer they are in belongs to the process: no frame LongLook        *)
(* receives is a mixture of two captures.                                  *)
FrameStableWhileSent ==
  pc = "send" /\ out.type = "video" =>
    /\ lastIndex # None
    /\ lastIndex < mapped
    /\ lastIndex \notin InDriver

(* In what LongLook reads, every frame is complete before the next begins, *)
(* and the frame being sent continues exactly what was sent of it.         *)
Wire == IF lastRead = NoUnit THEN chan ELSE <<lastRead>> \o chan

Follows(u, v) == IF IsLast(u) THEN v.k = 1
                 ELSE v.type = u.type /\ v.k = u.k + 1

StreamWellFormed ==
  /\ \A i \in 1 .. Len(Wire) - 1 : Follows(Wire[i], Wire[i + 1])
  /\ conn \in {"up", "fin"} /\ pc = "send" /\ out.sent > 0 =>
       /\ Wire # <<>>
       /\ Wire[Len(Wire)] = [type |-> out.type, k |-> out.sent]

(* Back at accept, nothing of the last client is left: its socket is       *)
(* closed, no frame is half sent and the camera is open without streaming. *)
BetweenClients ==
  pc = "loop" => conn = "none" /\ out = NoFrame /\ isOpen /\ ~streaming /\ listening

(* Whichever of its returns run() leaves by, it has closed the sockets it   *)
(* opened, and it leaves the camera to the destructor only when a stop      *)
(* request ended the boot phase; a run that failed has closed it.           *)
RunCleansUp ==
  pc = "returned" =>
    /\ conn = "none" /\ ~listening
    /\ isOpen => ~running /\ exitCode = 0

(* A stop request ends the program, wherever it finds it.                  *)
StopLeadsToExit == ~running ~> pc = "exited"

(* A client that is gone is noticed and the program waits for the next.    *)
GoneClientReleased ==
  conn \in {"fin", "reset"} ~> conn = "none" /\ ~streaming

(* A camera lost while a client is served ends that client's connection.   *)
CameraLossDropsClient ==
  streaming /\ ~alive ~> ~streaming /\ conn = "none"

(* patrol.service:16 restarts the program when the loss of the camera made *)
(* it exit: the loss of the camera makes it exit.                          *)
CameraLossLeadsToExit == (pc = "loop" /\ ~alive) ~> pc = "exited"

(* A unit that LongLook can only see behind the greeting, or as its end.   *)
Late(u) == u.type # "text" \/ IsLast(u)

(* The types of the frames whose last units are in s, in order.            *)
Ends(s) ==
  LET ends[i \in 0 .. Len(s)] ==
        IF i = 0 THEN <<>>
        ELSE ends[i - 1] \o IF IsLast(s[i]) THEN <<s[i].type>> ELSE <<>>
  IN  ends[Len(s)]

(* What LongLook sees of the program is what VideoLink promises.           *)
Link == INSTANCE VideoLink WITH
  link     <- IF conn \in {"up", "fin"} THEN "up" ELSE "down",
  greeted  <- conn \in {"up", "fin"} /\ \E i \in DOMAIN Wire : Late(Wire[i]),
  inflight <- Ends(chan)

ImplementsVideoLink == Link!LinkSpec
=============================================================================

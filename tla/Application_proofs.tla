------------------------- MODULE Application_proofs --------------------------
(***************************************************************************)
(* Proofs about the main program, for every capacity of the connection,    *)
(* every length of the frames, every limit, and every camera.              *)
(***************************************************************************)
EXTENDS Application, CameraManager_proofs

(* Its facts about numbers and sequences serve here too.                   *)
Parsers == INSTANCE FrameProtocol_proofs

Serving == {"send", "check", "grab", "sensor", "poll", "stop"}
WithClient == Serving \cup {"start", "closeclient"}

(* The call of the camera in progress is the one the program is in.        *)
OpAgrees ==
  /\ pc = "opening" => op \in {"negotiate", "map"}
  /\ pc = "grab" => op = "wait"
  /\ pc \notin {"opening", "grab"} => op = "idle"

(* The camera is open once it was opened, and streams in the serving loop. *)
CameraAgrees ==
  /\ pc \in {"booted", "listen", "bind", "unlistened", "loop", "closing"} \cup WithClient
       => isOpen
  /\ pc \in Serving => streaming
  /\ streaming => pc \in Serving
  /\ pc = "closeserver" => ~isOpen
  /\ pc = "returned" /\ isOpen => ~running /\ exitCode = 0

(* The sockets that are open in each place.                                *)
SocketsAgree ==
  /\ pc \in {"bind", "loop"} \cup WithClient => listening
  /\ pc \in {"boot", "opening", "sleep", "booted", "unlistened", "returned"} => ~listening
  /\ pc \notin WithClient => conn = "none"

(* A frame is being sent in "send" only, a video frame from a held buffer. *)
OutAgrees ==
  /\ pc # "send" => out = NoFrame
  /\ pc = "send" => out \in [type : FrameTypes, sent : Nat]
  /\ pc = "send" /\ out.type = "video" => lastIndex # None

Agreement == OpAgrees /\ CameraAgrees /\ SocketsAgree /\ OutAgrees
AppInv    == Agreement /\ IInv

(* Every step of the program is a call of the camera made in its turn, a   *)
(* step of the camera itself, or leaves the camera alone.                  *)
LEMMA StepIsCameraStep ==
  ASSUME OpAgrees, AppNext PROVE [Next]_camVars
<1>1. CASE Leaving
  BY <1>1 DEF Leaving, CloseCamera, CloseServer, DestroyServer, DestroyCamera, OpAgrees, Next
<1>2. CASE Boot
  <2>1. CASE BootOpen
    BY <2>1 DEF BootOpen, Next, Open
  <2>2. CASE Opening
    BY <2>2 DEF Opening, Next, Open
  <2>3. CASE Sleep \/ Booted \/ StopSeen
    BY <2>3 DEF Sleep, Booted, StopSeen
  <2> QED
    BY <1>2, <2>1, <2>2, <2>3 DEF Boot
<1>3. CASE Accepting
  <2>1. CASE Listen \/ ListenFails \/ Accept \/ AcceptTimeout \/ AcceptFails \/ LoopStops
    BY <2>1 DEF Listen, ListenFails, Accept, AcceptTimeout, AcceptFails, LoopStops, LoopEnds, vars
  <2>2. CASE NoListen
    BY <2>2 DEF NoListen, OpAgrees, Next
  <2> QED
    BY <1>3, <2>1, <2>2 DEF Accepting
<1>4. CASE Serve
  <2>1. CASE Start
    BY <2>1 DEF Start, Next
  <2>2. CASE Check
    BY <2>2 DEF Check, Next, Grab
  <2>3. CASE Grabbed
    BY <2>3 DEF Grabbed, Next, Grab
  <2>4. CASE Stop
    BY <2>4 DEF Stop, Next
  <2>5. CASE SendUnit \/ SendDone \/ SendFails \/ Sensor \/ Poll \/ CloseClient
    BY <2>5 DEF SendUnit, SendDone, SendFails, Sensor, Poll, CloseClient
  <2> QED
    BY <1>4, <2>1, <2>2, <2>3, <2>4, <2>5 DEF Serve
<1>5. CASE Environment
  <2>1. CASE Camera
    BY <2>1 DEF Camera, Next
  <2>2. CASE RequestStop \/ PeerRead \/ PeerClose \/ ConnLost
    BY <2>2 DEF RequestStop, PeerRead, PeerClose, ConnLost
  <2> QED
    BY <1>5, <2>1, <2>2 DEF Environment
<1> QED
  BY <1>1, <1>2, <1>3, <1>4, <1>5 DEF AppNext, Process

(* So the camera's inductive invariant survives every step.                *)
LEMMA StepKeepsCamera ==
  ASSUME AppInv, [AppNext]_vars PROVE IInv'
<1>1. CASE AppNext
  BY <1>1, StepIsCameraStep, NextKeeps DEF AppInv, Agreement
<1>2. CASE UNCHANGED vars
  BY <1>2, NextKeeps DEF AppInv, vars
<1> QED
  BY <1>1, <1>2

(* What is left to be closed when the accept loop and run() have ended.    *)
LEMMA LeavingAgrees == ASSUME AppInv, Leaving PROVE Agreement'
<1> USE DEF AppInv, Agreement, OpAgrees, CameraAgrees, SocketsAgree, OutAgrees,
        Serving, WithClient, Goto, Return, netVars, camVars, procVars
<1>1. CASE CloseCamera
  BY <1>1 DEF CloseCamera, Close, Released
<1>2. CASE CloseServer
  BY <1>2 DEF CloseServer
<1>3. CASE DestroyServer
  BY <1>3 DEF DestroyServer
<1>4. CASE DestroyCamera
  BY <1>4 DEF DestroyCamera, Close, Released
<1> QED
  BY <1>1, <1>2, <1>3, <1>4 DEF Leaving

(* The boot phase keeps the agreement.                                     *)
LEMMA BootAgrees == ASSUME AppInv, Boot PROVE Agreement'
<1> USE DEF AppInv, Agreement, OpAgrees, CameraAgrees, SocketsAgree, OutAgrees,
        Serving, WithClient, Goto, netVars
<1>1. CASE BootOpen
  BY <1>1 DEF BootOpen, OpenDevice, OpenDeviceFails, Close, Released
<1>2. CASE Opening
  <2>1. isOpen /\ ~streaming
    BY <1>2 DEF Opening, IInv, ClosedIsEmpty
  <2>2. CASE Negotiate /\ UNCHANGED pc
    BY <1>2, <2>1, <2>2 DEF Opening, Negotiate
  <2>3. CASE MapBuffer /\ Goto(IF op' = "idle" THEN "booted" ELSE "opening")
    BY <1>2, <2>1, <2>3 DEF Opening, MapBuffer
  <2>4. CASE (NegotiateFails \/ MapBufferFails) /\ Goto("sleep")
    BY <1>2, <2>4 DEF Opening, NegotiateFails, MapBufferFails, Close, Released
  <2> QED
    BY <1>2, <2>2, <2>3, <2>4 DEF Opening
<1>3. CASE Sleep
  BY <1>3 DEF Sleep, camVars, procVars
<1>4. CASE Booted
  BY <1>4 DEF Booted, camVars, procVars
<1>5. CASE StopSeen
  BY <1>5 DEF StopSeen, Return, camVars, procVars
<1> QED
  BY <1>1, <1>2, <1>3, <1>4, <1>5 DEF Boot

(* Listening and accepting keep the agreement.                             *)
LEMMA AcceptingAgrees == ASSUME AppInv, Accepting PROVE Agreement'
<1> USE DEF AppInv, Agreement, OpAgrees, CameraAgrees, SocketsAgree, OutAgrees,
        Serving, WithClient, Goto, netVars, camVars, procVars
<1>1. CASE Listen \/ ListenFails
  BY <1>1 DEF Listen, ListenFails
<1>2. CASE AcceptTimeout
  BY <1>2 DEF AcceptTimeout, vars, appVars
<1>3. CASE Accept
  BY <1>3 DEF Accept
<1>4. CASE LoopStops \/ AcceptFails
  BY <1>4 DEF LoopStops, AcceptFails, LoopEnds
<1>5. CASE NoListen
  BY <1>5 DEF NoListen, Return, Close, Released
<1> QED
  BY <1>1, <1>2, <1>3, <1>4, <1>5 DEF Accepting

(* Serving a client keeps the agreement.                                   *)
LEMMA ServeAgrees == ASSUME AppInv, Serve PROVE Agreement'
<1> USE DEF AppInv, Agreement, OpAgrees, CameraAgrees, SocketsAgree, OutAgrees,
        Serving, WithClient, Goto, netVars, camVars, procVars, FrameTypes
<1>1. CASE Start
  <2>1. CASE StartSucceeds /\ out' = [type |-> "text", sent |-> 0] /\ Goto("send")
    BY <1>1, <2>1 DEF Start, StartSucceeds
  <2>2. CASE StartFails /\ Goto("closeclient") /\ UNCHANGED out
    BY <1>1, <2>2 DEF Start, StartFails
  <2> QED
    BY <1>1, <2>1, <2>2 DEF Start
<1>2. CASE SendUnit
  BY <1>2 DEF SendUnit
<1>3. CASE SendDone
  <2>1. pc = "send" /\ out' = NoFrame /\ UNCHANGED <<netVars, camVars>>
    BY <1>3 DEF SendDone
  <2>2. out.type \in {"text", "video", "sensor"}
    BY <2>1
  <2>3. pc' \in {"check", "sensor", "poll"}
    BY <1>3, <2>2 DEF SendDone, AfterFrame
  <2> QED
    BY <2>1, <2>3
<1>4. CASE SendFails
  BY <1>4 DEF SendFails
<1>5. CASE Check
  BY <1>5 DEF Check, GrabBegin, RequeueFails, GrabMissed
<1>6. CASE Grabbed
  <2>1. CASE /\ GrabSucceeds
             /\ \/ Goto("send") /\ out' = [type |-> "video", sent |-> 0]
                \/ Goto("sensor") /\ UNCHANGED out
    <3>1. lastIndex' # None
      BY <2>1 DEF GrabSucceeds, IInv, TypeOK, Buffers, None
    <3>2. pc = "grab" /\ UNCHANGED <<isOpen, streaming, netVars>> /\ op' = "idle"
      BY <1>6, <2>1 DEF Grabbed, GrabSucceeds
    <3>3. \/ pc' = "send" /\ out' = [type |-> "video", sent |-> 0]
          \/ pc' = "sensor" /\ out' = out
      BY <2>1
    <3>4. OutAgrees'
      BY <3>1, <3>2, <3>3
    <3> QED
      BY <3>2, <3>3, <3>4
  <2>2. CASE GrabFails /\ GrabMissed /\ UNCHANGED out
    BY <1>6, <2>2 DEF Grabbed, GrabFails, GrabMissed
  <2> QED
    BY <1>6, <2>1, <2>2 DEF Grabbed
<1>7. CASE Sensor
  BY <1>7 DEF Sensor
<1>8. CASE Poll
  BY <1>8 DEF Poll
<1>9. CASE Stop
  BY <1>9 DEF Stop, StopStreaming
<1>10. CASE CloseClient
  BY <1>10 DEF CloseClient
<1> QED
  BY <1>1, <1>2, <1>3, <1>4, <1>5, <1>6, <1>7, <1>8, <1>9, <1>10 DEF Serve

(* Signals, the client, the network and the camera keep the agreement.     *)
LEMMA EnvironmentAgrees == ASSUME AppInv, Environment PROVE Agreement'
<1> USE DEF AppInv, Agreement, OpAgrees, CameraAgrees, SocketsAgree, OutAgrees,
        Serving, WithClient, netVars, camVars, procVars
<1>1. CASE RequestStop
  BY <1>1 DEF RequestStop
<1>2. CASE PeerRead
  BY <1>2 DEF PeerRead
<1>3. CASE PeerClose \/ ConnLost
  BY <1>3 DEF PeerClose, ConnLost
<1>4. CASE Camera
  BY <1>4 DEF Camera, Driver, Fill, Unplug, Plug, appVars
<1> QED
  BY <1>1, <1>2, <1>3, <1>4 DEF Environment

(* The inductive invariant of the program.                                 *)
THEOREM AppInvariance == AppSpec => []AppInv
<1>1. AppInit => AppInv
  <2>1. AppInit => Agreement
    BY DEF AppInit, Init, Agreement, OpAgrees, CameraAgrees, SocketsAgree,
           OutAgrees, Serving, WithClient
  <2> QED
    BY <2>1, InitEstablishes DEF AppInit, AppInv
<1>2. ASSUME AppInv, [AppNext]_vars PROVE AppInv'
  <2>1. ASSUME UNCHANGED vars PROVE Agreement'
    BY <1>2, <2>1 DEF vars, appVars, netVars, camVars, procVars, AppInv, Agreement,
       OpAgrees, CameraAgrees, SocketsAgree, OutAgrees
  <2>2. ASSUME AppNext PROVE Agreement'
    BY <1>2, <2>2, BootAgrees, AcceptingAgrees, ServeAgrees, LeavingAgrees, EnvironmentAgrees
    DEF AppNext, Process
  <2>3. Agreement'
    BY <1>2, <2>1, <2>2
  <2> QED
    BY <1>2, <2>3, StepKeepsCamera DEF AppInv
<1> QED
  BY <1>1, <1>2, PTL DEF AppSpec

(* The program uses the camera as CameraManager requires, so everything    *)
(* proved of CameraSpec holds of the camera inside the program.            *)
THEOREM UsesCameraCorrectly == AppSpec => CameraSpec
<1>1. AppInit => Init
  BY DEF AppInit
<1>2. AppInv /\ [AppNext]_vars => [Next]_camVars
  BY StepIsCameraStep DEF AppInv, Agreement, vars
<1> QED
  BY <1>1, <1>2, AppInvariance, PTL DEF AppSpec, CameraSpec

(* While a video frame is sent, its buffer is mapped and not the driver's, *)
(* for every capacity of the connection and every length of the frame.     *)
THEOREM SentFrameIsStable == AppSpec => []FrameStableWhileSent
<1>1. AppInv /\ HeldFrameIntact => FrameStableWhileSent
  BY DEF AppInv, Agreement, OutAgrees, FrameStableWhileSent, HeldFrameIntact
<1> QED
  BY <1>1, AppInvariance, UsesCameraCorrectly, FrameContract, PTL

(* Back at accept nothing of the last client is left.                      *)
THEOREM NothingLeftBetweenClients == AppSpec => []BetweenClients
<1>1. AppInv => BetweenClients
  BY DEF AppInv, Agreement, OpAgrees, CameraAgrees, SocketsAgree, OutAgrees,
         BetweenClients, Serving, WithClient
<1> QED
  BY <1>1, AppInvariance, PTL

(* Whichever of its returns run() leaves by, the sockets are closed, and   *)
(* the camera too unless a stop request ended the boot phase.              *)
THEOREM RunLeavesNothing == AppSpec => []RunCleansUp
<1>1. AppInv => RunCleansUp
  BY DEF AppInv, Agreement, CameraAgrees, SocketsAgree, RunCleansUp, WithClient, Serving
<1> QED
  BY <1>1, AppInvariance, PTL
-----------------------------------------------------------------------------
(* Grabs are counted up to the limit, and reaching it ends the service.    *)
Counting == pc \in {"send", "check", "grab", "sensor", "poll"} => grabFail < GrabFailLimit

TypeInv == AppTypeOK /\ Counting

(* The boot phase, accepting and leaving change no type.                   *)
LEMMA BootTypes == ASSUME AppInv, TypeInv, Boot \/ Accepting \/ Leaving PROVE TypeInv'
<1> USE AppAssumption DEF TypeInv, AppTypeOK, Counting, Places, Goto, netVars
<1>1. CASE Leaving
  BY <1>1 DEF Leaving, CloseCamera, CloseServer, DestroyServer, DestroyCamera, Return
<1>2. CASE BootOpen
  BY <1>2 DEF BootOpen
<1>3. CASE Opening
  BY <1>3 DEF Opening
<1>4. CASE Sleep \/ Booted
  BY <1>4 DEF Sleep, Booted
<1>5. CASE StopSeen \/ NoListen
  BY <1>5 DEF StopSeen, NoListen, Return
<1>6. CASE Listen \/ ListenFails \/ Accept \/ LoopStops \/ AcceptFails
  BY <1>6 DEF Listen, ListenFails, Accept, LoopStops, AcceptFails, LoopEnds
<1>7. CASE AcceptTimeout
  BY <1>7 DEF AcceptTimeout, vars, appVars
<1> QED
  BY <1>1, <1>2, <1>3, <1>4, <1>5, <1>6, <1>7 DEF Boot, Accepting

(* Serving a client changes no type.                                       *)
LEMMA ServeTypes == ASSUME AppInv, TypeInv, Serve PROVE TypeInv'
<1> USE AppAssumption DEF TypeInv, AppTypeOK, Counting, Places, Goto, netVars
<1>1. CASE Start
  <2>1. 0 < GrabFailLimit /\ grabFail' = 0 /\ UNCHANGED <<running, slept, netVars, exitCode>>
    BY <1>1 DEF Start
  <2>2. \/ pc' = "send" /\ out' = [type |-> "text", sent |-> 0]
        \/ pc' = "closeclient" /\ out' = out
    BY <1>1 DEF Start
  <2>3. [type |-> "text", sent |-> 0] \in Frames
    BY DEF Frames, FrameTypes
  <2> QED
    BY <2>1, <2>2, <2>3
<1>2. CASE SendUnit
  <2> DEFINE u == [type |-> out.type, k |-> out.sent + 1]
  <2>1. /\ pc = "send" /\ Len(chan) < Cap /\ out.sent < FrameLen[out.type]
        /\ chan' = Append(chan, u) /\ out' = [out EXCEPT !.sent = @ + 1]
        /\ UNCHANGED <<pc, running, slept, listening, conn, lastRead, grabFail, exitCode>>
    BY <1>2 DEF SendUnit
  <2>2. out \in [type : FrameTypes, sent : Nat]
    BY <2>1 DEF AppInv, Agreement, OutAgrees
  <2>3. FrameLen[out.type] \in Nat
    BY <2>2
  <2>4. u \in Units /\ out' \in Frames
    BY <2>1, <2>2, <2>3 DEF Units, Frames
  <2> HIDE DEF u
  <2>5. chan' \in Seq(Units) /\ Len(chan') <= Cap
    BY <2>1, <2>4
  <2> QED
    BY <2>1, <2>4, <2>5
<1>3. CASE SendDone \/ SendFails
  <2>1. pc = "send" /\ out' = NoFrame /\ UNCHANGED <<running, slept, netVars, grabFail, exitCode>>
    BY <1>3 DEF SendDone, SendFails
  <2>2. out.type \in FrameTypes
    BY <2>1 DEF AppInv, Agreement, OutAgrees
  <2>3. pc' \in {"check", "sensor", "poll", "stop"}
    BY <1>3, <2>2 DEF SendDone, SendFails, AfterFrame, FrameTypes
  <2> QED
    BY <2>1, <2>3
<1>4. CASE Check
  BY <1>4 DEF Check, GrabMissed
<1>5. CASE Grabbed
  <2>1. [type |-> "video", sent |-> 0] \in Frames
    BY DEF Frames, FrameTypes
  <2> QED
    BY <1>5, <2>1 DEF Grabbed, GrabMissed
<1>6. CASE Sensor
  <2>1. [type |-> "sensor", sent |-> 0] \in Frames
    BY DEF Frames, FrameTypes
  <2> QED
    BY <1>6, <2>1 DEF Sensor
<1>7. CASE Poll
  BY <1>7 DEF Poll
<1>8. CASE Stop
  BY <1>8 DEF Stop
<1>9. CASE CloseClient
  BY <1>9 DEF CloseClient
<1> QED
  BY <1>1, <1>2, <1>3, <1>4, <1>5, <1>6, <1>7, <1>8, <1>9 DEF Serve

(* Nor do signals, the client, the network and the camera.                 *)
LEMMA EnvironmentTypes == ASSUME AppInv, TypeInv, Environment PROVE TypeInv'
<1> USE AppAssumption DEF TypeInv, AppTypeOK, Counting, netVars
<1>1. CASE PeerRead
  <2>1. Head(chan) \in Units /\ Tail(chan) \in Seq(Units) /\ Len(Tail(chan)) <= Cap
    BY <1>1 DEF PeerRead
  <2> QED
    BY <1>1, <2>1 DEF PeerRead
<1>2. CASE RequestStop
  BY <1>2 DEF RequestStop
<1>3. CASE PeerClose
  BY <1>3 DEF PeerClose
<1>4. CASE ConnLost
  <2>1. <<>> \in Seq(Units) /\ Len(<<>>) <= Cap
    OBVIOUS
  <2> QED
    BY <1>4, <2>1 DEF ConnLost
<1>5. CASE Camera
  BY <1>5 DEF Camera, appVars
<1> QED
  BY <1>1, <1>2, <1>3, <1>4, <1>5 DEF Environment

(* Type correctness of the program, for every capacity, frame length and   *)
(* limit: what run() and serveClient keep is what its declarations say.    *)
THEOREM AppTypeCorrect == AppSpec => []TypeInv
<1>1. ASSUME AppInit PROVE TypeInv
  <2>1. <<>> \in Seq(Units) /\ Len(<<>>) <= Cap
    BY AppAssumption
  <2>2. chan \in Seq(Units) /\ Len(chan) <= Cap
    BY <1>1, <2>1 DEF AppInit
  <2>3. slept \in 0 .. SleepTicks /\ grabFail \in 0 .. GrabFailLimit /\ exitCode \in {-1, 0, 1}
    BY <1>1, AppAssumption DEF AppInit
  <2>4. pc = "boot" /\ running = TRUE /\ listening = FALSE /\ conn = "none"
        /\ lastRead = NoUnit /\ out = NoFrame
    BY <1>1 DEF AppInit
  <2> QED
    BY <2>2, <2>3, <2>4 DEF TypeInv, AppTypeOK, Counting, Places
<1>2. ASSUME AppInv, TypeInv, [AppNext]_vars PROVE TypeInv'
  <2>1. ASSUME UNCHANGED vars PROVE TypeInv'
    BY <1>2, <2>1 DEF vars, appVars, netVars, TypeInv, AppTypeOK, Counting
  <2> QED
    BY <1>2, <2>1, BootTypes, ServeTypes, EnvironmentTypes DEF AppNext, Process
<1> QED
  BY <1>1, <1>2, AppInvariance, PTL DEF AppSpec
-----------------------------------------------------------------------------
Up   == conn \in {"up", "fin"}
Last == Wire[Len(Wire)]

(* On the wire unit follows unit, and no greeting follows another frame.   *)
Ordered(w) ==
  /\ \A i \in 1 .. Len(w) - 1 : Follows(w[i], w[i + 1])
  /\ \A i, j \in 1 .. Len(w) : i < j /\ Late(w[i]) => w[j].type # "text"

(* How the wire ends in each place: with the frame being sent, as far as   *)
(* it was sent, and otherwise behind a whole frame.  A connection that was *)
(* lost ends anywhere, but nothing is sent on it any more.                 *)
WireAgrees ==
  /\ conn = "none" \/ pc = "start" => chan = <<>> /\ lastRead = NoUnit
  /\ conn = "reset" => chan = <<>>
  /\ Up /\ pc = "send" =>
       /\ out.sent > 0 => Wire # <<>> /\ Last = [type |-> out.type, k |-> out.sent]
       /\ out.sent = 0 /\ out.type = "text" => Wire = <<>>
       /\ out.sent = 0 /\ out.type # "text" => Wire # <<>> /\ IsLast(Last)
  /\ Up /\ pc \in {"check", "grab", "sensor", "poll"} => Wire # <<>> /\ IsLast(Last)

WireInv == Ordered(Wire) /\ WireAgrees

(* The units of the wire.                                                  *)
LEMMA WireType ==
  ASSUME chan \in Seq(Units), lastRead = NoUnit \/ lastRead \in Units
  PROVE  /\ Wire \in Seq(Units)
         /\ lastRead = NoUnit => Wire = chan
         /\ lastRead # NoUnit => Len(Wire) = Len(chan) + 1 /\ Tail(Wire) = chan
                                 /\ Wire = <<lastRead>> \o chan
<1>1. CASE lastRead = NoUnit
  BY <1>1 DEF Wire
<1>2. CASE lastRead # NoUnit
  <2>1. lastRead \in Units /\ Wire = <<lastRead>> \o chan
    BY <1>2 DEF Wire
  <2>2. Wire \in Seq(Units) /\ Len(Wire) = Len(chan) + 1
    BY <2>1
  <2>3. Tail(Wire) = chan
    BY <2>1
  <2> QED
    BY <1>2, <2>1, <2>2, <2>3
<1> QED
  BY <1>1, <1>2

(* A unit that continues an ordered wire keeps it ordered.                 *)
LEMMA OrderedAppend ==
  ASSUME NEW w \in Seq(Units), NEW u \in Units, Ordered(w),
         w # <<>> => Follows(w[Len(w)], u) /\ (Late(w[Len(w)]) => u.type # "text")
  PROVE  Ordered(Append(w, u))
<1> DEFINE n == Len(w)
           v == Append(w, u)
<1>1. n \in Nat /\ Len(v) = n + 1 /\ v[n + 1] = u /\ (\A i \in 1 .. n : v[i] = w[i])
  OBVIOUS
<1>2. n # 0 => w # <<>>
  OBVIOUS
<1> HIDE DEF n, v
<1>3. ASSUME NEW i \in 1 .. Len(v) - 1 PROVE Follows(v[i], v[i + 1])
  <2>1. CASE i = n
    <3>1. Follows(w[n], u)
      BY <1>1, <1>2, <2>1 DEF n
    <3> QED
      BY <1>1, <2>1, <3>1
  <2>2. CASE i # n
    <3>1. i \in 1 .. n - 1 /\ i \in 1 .. n /\ i + 1 \in 1 .. n
      BY <1>1, <2>2
    <3>2. Follows(w[i], w[i + 1])
      BY <3>1 DEF Ordered, n
    <3> QED
      BY <1>1, <3>1, <3>2
  <2> QED
    BY <2>1, <2>2
<1>4. ASSUME NEW i \in 1 .. Len(v), NEW j \in 1 .. Len(v), i < j, Late(v[i])
      PROVE  v[j].type # "text"
  <2>1. i \in 1 .. n /\ n # 0 /\ Late(w[i])
    BY <1>1, <1>4
  <2>2. CASE j = n + 1
    <3>1. Late(w[n])
      <4>1. CASE i = n
        BY <2>1, <4>1
      <4>2. CASE i # n
        <5>1. i < n /\ n \in 1 .. n
          BY <1>1, <2>1, <4>2
        <5> QED
          BY <2>1, <5>1 DEF Ordered, Late, n
      <4> QED
        BY <4>1, <4>2
    <3>2. u.type # "text"
      BY <1>2, <2>1, <3>1 DEF n
    <3> QED
      BY <1>1, <2>2, <3>2
  <2>3. CASE j # n + 1
    <3>1. j \in 1 .. n
      BY <1>1, <2>3
    <3>2. w[j].type # "text"
      BY <1>4, <2>1, <3>1 DEF Ordered, n
    <3> QED
      BY <1>1, <3>1, <3>2
  <2> QED
    BY <2>2, <2>3
<1> QED
  BY <1>3, <1>4 DEF Ordered, v

(* What is left of an ordered wire behind its first unit is ordered, and   *)
(* ends as it did.                                                         *)
LEMMA OrderedTail ==
  ASSUME NEW w \in Seq(Units), w # <<>>, Ordered(w)
  PROVE  /\ Ordered(Tail(w))
         /\ Tail(w) # <<>> => Tail(w)[Len(Tail(w))] = w[Len(w)]
<1> DEFINE n == Len(w)
           v == Tail(w)
<1>1. n \in Nat /\ n # 0 /\ Len(v) = n - 1 /\ (\A i \in 1 .. n - 1 : v[i] = w[i + 1])
  OBVIOUS
<1>2. v \in Seq(Units) /\ (v # <<>> => Len(v) # 0)
  <2>1. v \in Seq(Units)
    OBVIOUS
  <2> HIDE DEF v
  <2> QED
    BY <2>1
<1> HIDE DEF n, v
<1>3. ASSUME NEW i \in 1 .. Len(v) - 1 PROVE Follows(v[i], v[i + 1])
  <2>1. i \in 1 .. n - 1 /\ i + 1 \in 1 .. n - 1
    BY <1>1
  <2>2. Follows(w[i + 1], w[(i + 1) + 1])
    BY <2>1 DEF Ordered, n
  <2> QED
    BY <1>1, <2>1, <2>2
<1>4. ASSUME NEW i \in 1 .. Len(v), NEW j \in 1 .. Len(v), i < j, Late(v[i])
      PROVE  v[j].type # "text"
  <2>1. i \in 1 .. n - 1 /\ j \in 1 .. n - 1
    BY <1>1
  <2>2. i + 1 \in 1 .. n /\ j + 1 \in 1 .. n /\ i + 1 < j + 1
    BY <1>1, <1>4, <2>1
  <2>3. Late(w[i + 1])
    BY <1>1, <1>4, <2>1
  <2>4. w[j + 1].type # "text"
    BY <2>2, <2>3 DEF Ordered, n
  <2> QED
    BY <1>1, <2>1, <2>4
<1>5. v # <<>> => v[Len(v)] = w[n]
  BY <1>1, <1>2
<1> QED
  BY <1>3, <1>4, <1>5 DEF Ordered, v, n

(* sendAll() puts the next unit of its frame on the wire.                  *)
LEMMA SendUnitKeepsWire ==
  ASSUME AppInv, TypeInv, WireInv, SendUnit
  PROVE  /\ WireInv'
         /\ Wire' = Append(Wire, [type |-> out.type, k |-> out.sent + 1])
         /\ [type |-> out.type, k |-> out.sent + 1] \in Units
<1> DEFINE u == [type |-> out.type, k |-> out.sent + 1]
<1>1. /\ pc = "send" /\ out.sent < FrameLen[out.type] /\ Up
      /\ chan' = Append(chan, u) /\ out' = [out EXCEPT !.sent = @ + 1]
      /\ UNCHANGED <<pc, conn, lastRead>>
  BY DEF SendUnit, Up
<1>2. out \in [type : FrameTypes, sent : Nat]
  BY <1>1 DEF AppInv, Agreement, OutAgrees
<1>3. FrameLen[out.type] \in Nat \ {0}
  BY <1>2, AppAssumption
<1>4. u \in Units
  BY <1>1, <1>2, <1>3 DEF Units
<1>5. chan \in Seq(Units) /\ (lastRead = NoUnit \/ lastRead \in Units)
  BY DEF TypeInv, AppTypeOK
<1>6. out'.type = out.type /\ out'.sent = out.sent + 1 /\ u = [type |-> out'.type, k |-> out'.sent]
  BY <1>1, <1>2
<1>7. Wire \in Seq(Units)
  BY <1>5, WireType
<1>8. Wire' = Append(Wire, u)
  <2> HIDE DEF u
  <2>1. CASE lastRead = NoUnit
    BY <1>1, <2>1 DEF Wire
  <2>2. CASE lastRead # NoUnit
    <3>1. lastRead \in Units /\ <<lastRead>> \in Seq(Units)
      BY <1>5, <2>2
    <3>2. <<lastRead>> \o Append(chan, u) = Append(<<lastRead>> \o chan, u)
      BY <1>4, <1>5, <3>1
    <3> QED
      BY <1>1, <2>2, <3>2 DEF Wire
  <2> QED
    BY <2>1, <2>2
<1>9. Wire # <<>> => Follows(Last, u) /\ (Late(Last) => u.type # "text")
  <2>1. CASE out.sent > 0
    <3>1. Last = [type |-> out.type, k |-> out.sent]
      BY <1>1, <2>1 DEF WireInv, WireAgrees
    <3>2. ~IsLast(Last)
      BY <1>1, <1>2, <1>3, <3>1 DEF IsLast
    <3> QED
      BY <3>1, <3>2 DEF Follows, Late
  <2>2. CASE out.sent = 0
    <3>1. CASE out.type = "text"
      BY <1>1, <2>2, <3>1 DEF WireInv, WireAgrees
    <3>2. CASE out.type # "text"
      <4>1. IsLast(Last)
        BY <1>1, <2>2, <3>2 DEF WireInv, WireAgrees
      <4> QED
        BY <2>2, <3>2, <4>1 DEF Follows
    <3> QED
      BY <3>1, <3>2
  <2> QED
    BY <1>2, <2>1, <2>2
<1> HIDE DEF u
<1>10. Ordered(Wire')
  BY <1>4, <1>7, <1>8, <1>9, OrderedAppend DEF WireInv, Last
<1>11. Wire' # <<>> /\ Last' = u
  BY <1>4, <1>7, <1>8 DEF Last
<1>12. WireAgrees'
  BY <1>1, <1>2, <1>6, <1>11 DEF WireAgrees, Up
<1> QED
  BY <1>4, <1>8, <1>10, <1>12 DEF WireInv, u

(* LongLook takes the first unit off the wire and leaves its end.          *)
LEMMA PeerReadKeepsWire ==
  ASSUME TypeInv, WireInv, PeerRead
  PROVE  WireInv' /\ Wire # <<>> /\ Wire' # <<>> /\ Last' = Last
<1>1. /\ chan # <<>> /\ lastRead' = Head(chan) /\ chan' = Tail(chan) /\ Up
      /\ UNCHANGED <<pc, conn, out>>
  BY DEF PeerRead, Up
<1>2. chan \in Seq(Units) /\ (lastRead = NoUnit \/ lastRead \in Units)
  BY DEF TypeInv, AppTypeOK
<1>3. Head(chan) \in Units /\ <<Head(chan)>> \o Tail(chan) = chan
  BY <1>1, <1>2
<1>4. Wire' = chan
  <2>1. NoUnit \notin Units
    BY DEF NoUnit, Units, FrameTypes
  <2>2. lastRead' # NoUnit
    BY <1>1, <1>3, <2>1
  <2>3. Wire' = <<lastRead'>> \o chan'
    BY <2>2 DEF Wire
  <2> QED
    BY <1>1, <1>3, <2>3, Zenon
<1>5. Wire # <<>> /\ Ordered(chan) /\ chan[Len(chan)] = Last
  <2>1. CASE lastRead = NoUnit
    BY <1>1, <1>2, <2>1, WireType DEF WireInv, Last
  <2>2. CASE lastRead # NoUnit
    <3>1. Wire \in Seq(Units) /\ Tail(Wire) = chan /\ Len(Wire) = Len(chan) + 1
      BY <1>2, <2>2, WireType
    <3>2. Wire # <<>>
      BY <1>2, <3>1
    <3> QED
      BY <1>1, <3>1, <3>2, OrderedTail DEF WireInv, Last
  <2> QED
    BY <2>1, <2>2
<1>6. Last' = Last /\ Wire' # <<>> /\ Ordered(Wire')
  BY <1>1, <1>4, <1>5 DEF Last
<1>7. WireAgrees'
  <2>1. ~(conn = "none") /\ ~(conn = "reset") /\ pc # "start"
    BY <1>1 DEF Up, WireInv, WireAgrees
  <2>2. ~(Up /\ pc = "send" /\ out.sent = 0 /\ out.type = "text")
    BY <1>5 DEF WireInv, WireAgrees
  <2> QED
    BY <1>1, <1>6, <2>1, <2>2 DEF WireInv, WireAgrees, Up
<1> QED
  BY <1>5, <1>6, <1>7 DEF WireInv

(* A lost connection keeps of its wire what LongLook read of it last.      *)
LEMMA ConnLostKeepsWire == ASSUME TypeInv, WireInv, ConnLost PROVE WireInv'
<1>1. chan' = <<>> /\ conn' = "reset" /\ UNCHANGED <<pc, out, lastRead>> /\ Up
  BY DEF ConnLost, Up
<1>2. lastRead = NoUnit \/ lastRead \in Units
  BY DEF TypeInv, AppTypeOK
<1>3. Ordered(Wire')
  <2>1. CASE lastRead = NoUnit
    BY <1>1, <2>1 DEF Wire, Ordered
  <2>2. CASE lastRead # NoUnit
    <3>1. Wire' = <<lastRead>>
      BY <1>1, <2>2 DEF Wire
    <3> QED
      BY <3>1 DEF Ordered
  <2> QED
    BY <2>1, <2>2
<1>4. pc # "start" \/ lastRead = NoUnit
  BY DEF WireInv, WireAgrees
<1> QED
  BY <1>1, <1>3, <1>4 DEF WireInv, WireAgrees, Up

(* A step that leaves the wire alone.                                      *)
LEMMA SameWire ==
  ASSUME WireInv, UNCHANGED <<chan, lastRead>>
  PROVE  Wire' = Wire /\ Last' = Last /\ Ordered(Wire')
  BY DEF WireInv, Wire, Last

(* Without a client there is no wire; a client begins with an empty one.   *)
LEMMA BootKeepsWire ==
  ASSUME AppInv, WireInv, Boot \/ Accepting \/ Leaving PROVE WireInv'
<1>1. conn = "none" /\ chan = <<>> /\ lastRead = NoUnit
  <2>1. pc \notin WithClient
    BY DEF Boot, BootOpen, Opening, Sleep, Booted, StopSeen, Accepting, Listen, ListenFails,
           NoListen, AcceptTimeout, AcceptFails, LoopStops, Accept, Leaving, CloseCamera,
           CloseServer, DestroyServer, DestroyCamera, WithClient, Serving
  <2> QED
    BY <2>1 DEF AppInv, Agreement, SocketsAgree, WireInv, WireAgrees
<1>2. UNCHANGED <<chan, lastRead>>
  BY DEF Boot, BootOpen, Opening, Sleep, Booted, StopSeen, Accepting, Listen, ListenFails,
         NoListen, AcceptTimeout, AcceptFails, LoopStops, LoopEnds, Accept, Leaving, CloseCamera,
         CloseServer, DestroyServer, DestroyCamera, netVars, vars, appVars
<1>3. conn' = "none" \/ pc' = "start"
  BY <1>1 DEF Boot, BootOpen, Opening, Sleep, Booted, StopSeen, Accepting, Listen, ListenFails,
     NoListen, AcceptTimeout, AcceptFails, LoopStops, LoopEnds, Accept, Leaving, CloseCamera,
     CloseServer, DestroyServer, DestroyCamera, netVars, vars, appVars, Goto
<1>4. WireAgrees'
  BY <1>1, <1>2, <1>3 DEF WireAgrees, Up
<1> QED
  BY <1>2, <1>4, SameWire DEF WireInv

(* serveClient() leaves the wire behind a whole frame, or the connection   *)
(* was lost.                                                               *)
LEMMA ServeKeepsWire == ASSUME AppInv, TypeInv, WireInv, Serve PROVE WireInv'
<1>1. CASE SendUnit
  BY <1>1, SendUnitKeepsWire
<1>2. CASE CloseClient
  <2>1. chan' = <<>> /\ lastRead' = NoUnit /\ conn' = "none"
    BY <1>2 DEF CloseClient
  <2>2. Ordered(Wire')
    BY <2>1 DEF Ordered, Wire
  <2> QED
    BY <2>1, <2>2 DEF WireInv, WireAgrees, Up
<1>3. CASE SendDone
  <2>1. UNCHANGED <<chan, lastRead, conn>> /\ pc = "send" /\ out.sent = FrameLen[out.type]
    BY <1>3 DEF SendDone, netVars
  <2>2. out.type \in FrameTypes
    BY <2>1 DEF AppInv, Agreement, OutAgrees
  <2>3. out.sent > 0
    BY <2>1, <2>2, AppAssumption
  <2>4. pc' \in {"check", "sensor", "poll"}
    BY <1>3, <2>2 DEF SendDone, AfterFrame, FrameTypes, Goto
  <2>5. Up => Wire # <<>> /\ IsLast(Last)
    <3>1. Up => Wire # <<>> /\ Last = [type |-> out.type, k |-> out.sent]
      BY <2>1, <2>3 DEF WireInv, WireAgrees
    <3> QED
      BY <2>1, <2>2, <3>1 DEF IsLast, FrameTypes
  <2>6. Wire' = Wire /\ Last' = Last /\ Ordered(Wire') /\ (Up' <=> Up)
    BY <2>1, SameWire DEF Up
  <2> QED
    BY <2>1, <2>4, <2>5, <2>6 DEF WireInv, WireAgrees
<1>4. CASE Start \/ SendFails \/ Check \/ Grabbed \/ Sensor \/ Poll \/ Stop
  <2>1. UNCHANGED <<chan, lastRead, conn>>
    BY <1>4 DEF Start, SendFails, Check, Grabbed, Sensor, Poll, Stop, netVars
  <2>2. Wire' = Wire /\ Last' = Last /\ Ordered(Wire') /\ (Up' <=> Up)
    BY <2>1, SameWire DEF Up
  <2>3. WireAgrees'
    <3>1. CASE Start
      <4>1. pc = "start" /\ chan = <<>> /\ lastRead = NoUnit /\ Wire = <<>>
        BY <3>1 DEF Start, WireInv, WireAgrees, Wire
      <4>2. \/ pc' = "send" /\ out' = [type |-> "text", sent |-> 0]
            \/ pc' = "closeclient"
        BY <3>1 DEF Start, Goto
      <4> QED
        BY <2>1, <2>2, <4>1, <4>2 DEF WireAgrees, WireInv
    <3>2. CASE SendFails
      <4>1. conn = "reset" /\ pc' \in {"check", "stop"}
        BY <3>2 DEF SendFails, Goto
      <4> QED
        BY <2>1, <2>2, <4>1 DEF WireAgrees, WireInv, Up
    <3>3. CASE Check \/ Grabbed \/ Sensor \/ Poll \/ Stop
      <4>1. \/ pc \in {"check", "grab", "sensor", "poll"}
               /\ pc' \in {"check", "grab", "sensor", "poll", "stop"}
            \/ pc \in {"grab", "sensor"} /\ pc' = "send" /\ out'.sent = 0 /\ out'.type # "text"
            \/ pc' = "closeclient"
        <5>1. CASE Check
          BY <5>1 DEF Check, GrabMissed, Goto
        <5>2. CASE Grabbed
          BY <5>2 DEF Grabbed, GrabMissed, Goto
        <5>3. CASE Sensor
          BY <5>3 DEF Sensor, Goto
        <5>4. CASE Poll \/ Stop
          BY <5>4 DEF Poll, Stop, Goto
        <5> QED
          BY <3>3, <5>1, <5>2, <5>3, <5>4
      <4> QED
        BY <2>1, <2>2, <4>1 DEF WireAgrees, WireInv
    <3> QED
      BY <1>4, <3>1, <3>2, <3>3
  <2> QED
    BY <2>2, <2>3 DEF WireInv
<1> QED
  BY <1>1, <1>2, <1>3, <1>4 DEF Serve

(* The environment reads, closes or loses what is there.                   *)
LEMMA EnvironmentKeepsWire == ASSUME TypeInv, WireInv, Environment PROVE WireInv'
<1>1. CASE PeerRead \/ ConnLost
  BY <1>1, PeerReadKeepsWire, ConnLostKeepsWire
<1>2. CASE RequestStop \/ Camera
  <2>1. UNCHANGED <<pc, out, conn, chan, lastRead>>
    BY <1>2 DEF RequestStop, Camera, appVars, netVars
  <2> QED
    BY <2>1, SameWire DEF WireInv, WireAgrees, Up
<1>3. CASE PeerClose
  <2>1. UNCHANGED <<pc, out, chan, lastRead>> /\ conn = "up" /\ conn' = "fin"
    BY <1>3 DEF PeerClose
  <2> QED
    BY <2>1, SameWire DEF WireInv, WireAgrees, Up
<1> QED
  BY <1>1, <1>2, <1>3 DEF Environment

(* The wire is ordered and ends where the program is with its frame, for   *)
(* every capacity of the connection and every length of the frames.        *)
THEOREM WireInvariance == AppSpec => []WireInv
<1>1. AppInit => WireInv
  <2>1. ASSUME AppInit PROVE chan = <<>> /\ lastRead = NoUnit /\ conn = "none" /\ pc = "boot"
    BY <2>1 DEF AppInit
  <2>2. ASSUME AppInit PROVE Ordered(Wire)
    BY <2>1, <2>2 DEF Ordered, Wire
  <2> QED
    BY <2>1, <2>2 DEF WireInv, WireAgrees, Up
<1>2. ASSUME AppInv, TypeInv, WireInv, [AppNext]_vars PROVE WireInv'
  <2>1. ASSUME UNCHANGED vars PROVE WireInv'
    <3>1. UNCHANGED <<pc, out, conn, chan, lastRead>>
      BY <2>1 DEF vars, appVars, netVars
    <3> QED
      BY <1>2, <3>1, SameWire DEF WireInv, WireAgrees, Up
  <2> QED
    BY <1>2, <2>1, BootKeepsWire, ServeKeepsWire, EnvironmentKeepsWire DEF AppNext, Process
<1> QED
  BY <1>1, <1>2, AppInvariance, AppTypeCorrect, PTL DEF AppSpec

(* In what LongLook reads, every frame is complete before the next begins, *)
(* and the frame being sent continues what was sent of it.                 *)
THEOREM StreamIsWellFormed == AppSpec => []StreamWellFormed
<1>1. AppInv /\ TypeInv /\ WireInv => StreamWellFormed
  BY DEF WireInv, WireAgrees, Ordered, StreamWellFormed, Up, Last
<1> QED
  BY <1>1, AppInvariance, AppTypeCorrect, WireInvariance, PTL
-----------------------------------------------------------------------------
EndOf(u) == IF IsLast(u) THEN <<u.type>> ELSE <<>>

(* How the frames that end in a sequence of units are counted.             *)
LEMMA EndsUnfold ==
  ASSUME NEW s \in Seq(Units)
  PROVE  \E e : /\ e[0] = <<>> /\ Ends(s) = e[Len(s)]
                /\ \A i \in 1 .. Len(s) : e[i] = e[i - 1] \o EndOf(s[i])
<1> DEFINE n == Len(s)
           p == [i \in 1 .. n |-> EndOf(s[i])]
           R(f) == [i \in 0 .. n |-> IF i = 0 THEN <<>> ELSE
                      f[i - 1] \o (IF IsLast(s[i]) THEN <<s[i].type>> ELSE <<>>)]
<1>1. n \in Nat
  OBVIOUS
<1>2. \E f : f = R(f)
  <2> HIDE DEF n, p
  <2>1. PICK f : f = [i \in 0 .. n |-> IF i = 0 THEN <<>> ELSE f[i - 1] \o p[i]]
    BY <1>1, Parsers!Accumulates
  <2>2. \A i \in 0 .. n : i # 0 => p[i] = EndOf(s[i])
    BY <1>1 DEF p
  <2>3. [i \in 0 .. n |-> IF i = 0 THEN <<>> ELSE f[i - 1] \o p[i]] = R(f)
    BY <2>2 DEF EndOf
  <2> HIDE DEF R
  <2> QED
    BY <2>1, <2>3, Zenon
<1> DEFINE e == CHOOSE f : f = R(f)
<1>3. Ends(s) = e[n]
  BY DEF Ends
<1>4. e = R(e)
  <2> HIDE DEF R
  <2> QED BY <1>2, Zenon
<1> HIDE DEF e
<1>5. e[0] = <<>>
  BY <1>1, <1>4
<1>6. ASSUME NEW i \in 1 .. n PROVE e[i] = e[i - 1] \o EndOf(s[i])
  <2>1. i \in 0 .. n /\ i # 0
    BY <1>1
  <2> HIDE DEF n
  <2> QED
    BY <1>4, <2>1 DEF EndOf
<1> QED
  BY <1>3, <1>5, <1>6

(* What a unit ends is a sequence of frame types.                          *)
LEMMA EndOfType == ASSUME NEW u \in Units PROVE EndOf(u) \in Seq(FrameTypes)
  BY DEF EndOf, Units

(* A unit behind the others ends what it ends behind them.                 *)
LEMMA EndsAppend ==
  ASSUME NEW s \in Seq(Units), NEW u \in Units
  PROVE  Ends(Append(s, u)) = Ends(s) \o EndOf(u)
<1> DEFINE n == Len(s)
           t == Append(s, u)
<1>1. n \in Nat /\ t \in Seq(Units) /\ Len(t) = n + 1 /\ t[n + 1] = u
      /\ (\A i \in 1 .. n : t[i] = s[i])
  OBVIOUS
<1>2. PICK e : /\ e[0] = <<>> /\ Ends(s) = e[n]
               /\ \A i \in 1 .. n : e[i] = e[i - 1] \o EndOf(s[i])
  BY EndsUnfold
<1> HIDE DEF n, t
<1>3. PICK g : /\ g[0] = <<>> /\ Ends(t) = g[Len(t)]
               /\ \A i \in 1 .. Len(t) : g[i] = g[i - 1] \o EndOf(t[i])
  BY <1>1, EndsUnfold
<1> DEFINE Bad == {i \in 0 .. n : g[i] # e[i]}
<1>4. Bad = {}
  <2> SUFFICES ASSUME Bad # {} PROVE FALSE
    OBVIOUS
  <2>1. PICK i \in Bad : \A k \in Bad : i <= k
    <3>1. Bad \subseteq Nat
      BY <1>1
    <3> HIDE DEF Bad
    <3> QED
      BY <3>1, Parsers!LeastNat
  <2>2. i \in 0 .. n /\ g[i] # e[i] /\ i # 0
    BY <1>2, <1>3, <2>1
  <2>3. i \in 1 .. n /\ i \in 1 .. Len(t) /\ i - 1 \in 0 .. n /\ ~(i <= i - 1)
    BY <1>1, <2>2
  <2>4. g[i - 1] = e[i - 1]
    BY <2>1, <2>3
  <2>5. g[i] = g[i - 1] \o EndOf(t[i]) /\ e[i] = e[i - 1] \o EndOf(s[i]) /\ t[i] = s[i]
    BY <1>1, <1>2, <1>3, <2>3
  <2> QED
    BY <2>2, <2>4, <2>5
<1>5. g[n] = e[n]
  BY <1>1, <1>4
<1>6. n + 1 \in 1 .. Len(t) /\ (n + 1) - 1 = n
  BY <1>1
<1>7. g[n + 1] = g[n] \o EndOf(u)
  BY <1>1, <1>3, <1>6
<1>8. Ends(t) = Ends(s) \o EndOf(u)
  BY <1>1, <1>2, <1>3, <1>5, <1>7
<1> QED
  BY <1>8 DEF t

(* The first unit ends what it ends in front of the others.                *)
LEMMA EndsTail ==
  ASSUME NEW s \in Seq(Units), s # <<>>
  PROVE  Ends(s) = EndOf(Head(s)) \o Ends(Tail(s)) /\ Ends(Tail(s)) \in Seq(FrameTypes)
<1> DEFINE n == Len(s) - 1
           t == Tail(s)
           h == Head(s)
<1>1. n \in Nat /\ t \in Seq(Units) /\ Len(t) = n /\ Len(s) = n + 1 /\ h \in Units /\ s[1] = h
      /\ (\A i \in 1 .. n : t[i] = s[i + 1] /\ t[i] \in Units)
  OBVIOUS
<1>2. PICK e : /\ e[0] = <<>> /\ Ends(s) = e[Len(s)]
               /\ \A i \in 1 .. Len(s) : e[i] = e[i - 1] \o EndOf(s[i])
  BY EndsUnfold
<1> HIDE DEF n, t, h
<1>3. PICK g : /\ g[0] = <<>> /\ Ends(t) = g[n]
               /\ \A i \in 1 .. n : g[i] = g[i - 1] \o EndOf(t[i])
  BY <1>1, EndsUnfold
<1> DEFINE Good(i) == g[i] \in Seq(FrameTypes) /\ e[i + 1] = EndOf(h) \o g[i]
           Bad == {i \in 0 .. n : ~Good(i)}
<1>4. Good(0)
  <2>1. EndOf(h) \in Seq(FrameTypes)
    BY <1>1, EndOfType
  <2>2. <<>> \o EndOf(h) = EndOf(h) \o <<>>
    BY <2>1
  <2>3. e[1] = <<>> \o EndOf(h)
    <3>1. 1 \in 1 .. Len(s) /\ 1 - 1 = 0
      BY <1>1
    <3> QED
      BY <1>1, <1>2, <3>1
  <2>4. <<>> \in Seq(FrameTypes)
    OBVIOUS
  <2> QED
    BY <1>3, <2>2, <2>3, <2>4
<1>5. Bad = {}
  <2> SUFFICES ASSUME Bad # {} PROVE FALSE
    OBVIOUS
  <2>1. PICK i \in Bad : \A k \in Bad : i <= k
    <3>1. Bad \subseteq Nat
      BY <1>1
    <3> HIDE DEF Bad
    <3> QED
      BY <3>1, Parsers!LeastNat
  <2>2. i \in 0 .. n /\ ~Good(i) /\ i # 0
    BY <1>4, <2>1
  <2>3. i \in 1 .. n /\ i + 1 \in 1 .. Len(s) /\ i - 1 \in 0 .. n /\ ~(i <= i - 1)
        /\ (i - 1) + 1 = i /\ (i + 1) - 1 = i
    BY <1>1, <2>2
  <2>4. Good(i - 1)
    BY <2>1, <2>3
  <2> DEFINE x == EndOf(h)
             y == g[i - 1]
             z == EndOf(t[i])
  <2>5. g[i] = y \o z /\ e[i + 1] = (x \o y) \o z
    <3>1. e[i + 1] = e[i] \o EndOf(s[i + 1])
      BY <1>2, <2>3
    <3> QED
      BY <1>1, <1>3, <2>3, <2>4, <3>1
  <2>6. x \in Seq(FrameTypes) /\ y \in Seq(FrameTypes) /\ z \in Seq(FrameTypes)
    BY <1>1, <2>3, <2>4, EndOfType
  <2> HIDE DEF x, y, z
  <2>7. y \o z \in Seq(FrameTypes) /\ (x \o y) \o z = x \o (y \o z)
    <3>1. \A a, b, c \in Seq(FrameTypes) : (a \o b) \o c = a \o (b \o c)
      BY SMTT(60)
    <3>2. y \o z \in Seq(FrameTypes)
      BY <2>6
    <3> QED
      BY <2>6, <3>1, <3>2, Zenon
  <2>8. g[i] \in Seq(FrameTypes) /\ e[i + 1] = x \o g[i]
    BY <2>5, <2>7
  <2> QED
    BY <2>2, <2>8 DEF x
<1>6. Good(n)
  <2>1. n \in 0 .. n
    BY <1>1
  <2> HIDE DEF Good
  <2> QED
    BY <1>5, <2>1
<1>7. Ends(s) = EndOf(h) \o Ends(t) /\ Ends(t) \in Seq(FrameTypes)
  BY <1>1, <1>2, <1>3, <1>6
<1> QED
  BY <1>7 DEF t, h
-----------------------------------------------------------------------------
(* The greeting has been on the wire once its last unit was.               *)
Greeted == Up /\ \E i \in DOMAIN Wire : Late(Wire[i])

(* Which the last unit on the wire tells.                                  *)
LEMMA LastTells ==
  ASSUME NEW w \in Seq(Units), Ordered(w)
  PROVE  (\E i \in DOMAIN w : Late(w[i])) <=> w # <<>> /\ Late(w[Len(w)])
<1> DEFINE n == Len(w)
<1>1. n \in Nat /\ DOMAIN w = 1 .. n /\ (w # <<>> <=> n # 0)
  OBVIOUS
<1> HIDE DEF n
<1>2. ASSUME NEW i \in 1 .. n, Late(w[i]) PROVE Late(w[n])
  <2>1. CASE i = n
    BY <1>2, <2>1
  <2>2. CASE i # n
    <3>1. n \in 1 .. n /\ i < n
      BY <1>1, <2>2
    <3> QED
      BY <1>2, <3>1 DEF Ordered, Late, n
  <2> QED
    BY <2>1, <2>2
<1>3. n # 0 => n \in 1 .. n
  BY <1>1
<1> QED
  BY <1>1, <1>2, <1>3 DEF n

(* The steps of VideoLink, in terms of the program.                        *)
LEMMA LinkStepsMean ==
  /\ ~Up /\ Up' /\ ~Greeted' /\ Ends(chan') = Ends(chan) => Link!Connect
  /\ Up /\ Up' /\ ~Greeted /\ Greeted' /\ Ends(chan') = Append(Ends(chan), "text") => Link!Greet
  /\ \A t \in {"video", "sensor"} :
       Up /\ Up' /\ Greeted /\ Greeted' /\ Ends(chan') = Append(Ends(chan), t) => Link!Push
  /\ Ends(chan) # <<>> /\ (Up' <=> Up) /\ (Greeted' <=> Greeted)
       /\ Ends(chan') = Tail(Ends(chan)) => Link!Deliver
  /\ Up /\ ~Up' /\ Ends(chan') = <<>> => Link!Disconnect
  /\ (Up' <=> Up) /\ (Greeted' <=> Greeted) /\ Ends(chan') = Ends(chan)
       => UNCHANGED Link!linkVars
<1> USE DEF Up, Greeted
<1>1. ~Up /\ Up' /\ ~Greeted' /\ Ends(chan') = Ends(chan) => Link!Connect
  BY DEF Link!Connect
<1>2. Up /\ Up' /\ ~Greeted /\ Greeted' /\ Ends(chan') = Append(Ends(chan), "text") => Link!Greet
  BY DEF Link!Greet
<1>3. ASSUME NEW t \in {"video", "sensor"}, Up, Up', Greeted, Greeted',
             Ends(chan') = Append(Ends(chan), t)
      PROVE  Link!Push
  BY <1>3 DEF Link!Push
<1>4. Ends(chan) # <<>> /\ (Up' <=> Up) /\ (Greeted' <=> Greeted)
        /\ Ends(chan') = Tail(Ends(chan)) => Link!Deliver
  BY DEF Link!Deliver
<1>5. Up /\ ~Up' /\ Ends(chan') = <<>> => Link!Disconnect
  BY DEF Link!Disconnect
<1>6. (Up' <=> Up) /\ (Greeted' <=> Greeted) /\ Ends(chan') = Ends(chan)
        => UNCHANGED Link!linkVars
  BY DEF Link!linkVars
<1> QED
  BY <1>1, <1>2, <1>3, <1>4, <1>5, <1>6

(* No unit, no frame.                                                      *)
LEMMA EndsOfNothing == Ends(<<>>) = <<>>
<1>1. <<>> \in Seq(Units) /\ Len(<<>>) = 0
  OBVIOUS
<1> QED
  BY <1>1, EndsUnfold

(* A unit sent is a step of VideoLink when it ends a frame, and none else. *)
LEMMA SendUnitIsLinkStep ==
  ASSUME AppInv, TypeInv, WireInv, SendUnit
  PROVE  Link!LinkNext \/ UNCHANGED Link!linkVars
<1> DEFINE u == [type |-> out.type, k |-> out.sent + 1]
<1>1. /\ pc = "send" /\ out.sent < FrameLen[out.type] /\ Up /\ Up'
      /\ chan' = Append(chan, u)
  BY DEF SendUnit, Up
<1>2. out \in [type : FrameTypes, sent : Nat]
  BY <1>1 DEF AppInv, Agreement, OutAgrees
<1>3. chan \in Seq(Units) /\ (lastRead = NoUnit \/ lastRead \in Units)
  BY DEF TypeInv, AppTypeOK
<1>4. Wire \in Seq(Units) /\ Ordered(Wire)
  BY <1>3, WireType DEF WireInv
<1>5. WireInv' /\ Wire' = Append(Wire, u) /\ u \in Units
  BY SendUnitKeepsWire
<1>6. u.type = out.type /\ u.type \in FrameTypes
  BY <1>2
<1> HIDE DEF u
<1>7. Wire' \in Seq(Units) /\ Wire' # <<>> /\ Wire'[Len(Wire')] = u /\ Ordered(Wire')
  BY <1>4, <1>5 DEF WireInv
<1>8. Greeted' <=> Late(u)
  BY <1>1, <1>7, LastTells DEF Greeted
<1>9. Greeted <=> Wire # <<>> /\ Late(Last)
  BY <1>1, <1>4, LastTells DEF Greeted, Last
<1>10. Greeted <=> out.type # "text"
  <2>1. CASE out.sent > 0
    <3>1. Wire # <<>> /\ Last = [type |-> out.type, k |-> out.sent]
      BY <1>1, <2>1 DEF WireInv, WireAgrees
    <3>2. ~IsLast(Last)
      <4>1. FrameLen[out.type] \in Nat
        BY <1>2, AppAssumption
      <4> QED
        BY <1>1, <1>2, <3>1, <4>1 DEF IsLast
    <3> QED
      BY <1>9, <3>1, <3>2 DEF Late
  <2>2. CASE out.sent = 0
    <3>1. CASE out.type = "text"
      BY <1>1, <1>9, <2>2, <3>1 DEF WireInv, WireAgrees
    <3>2. CASE out.type # "text"
      BY <1>1, <1>9, <2>2, <3>2 DEF WireInv, WireAgrees, Late
    <3> QED
      BY <3>1, <3>2
  <2> QED
    BY <1>2, <2>1, <2>2
<1>11. Ends(chan') = Ends(chan) \o EndOf(u)
  BY <1>1, <1>3, <1>5, EndsAppend
<1>12. Ends(chan) \in Seq(FrameTypes)
  <2>1. CASE chan = <<>>
    <3>1. Ends(chan) = <<>>
      BY <2>1, EndsOfNothing
    <3> QED
      BY <3>1
  <2>2. CASE chan # <<>>
    <3> DEFINE a == EndOf(Head(chan))
               b == Ends(Tail(chan))
    <3>1. Ends(chan) = a \o b /\ b \in Seq(FrameTypes)
      BY <1>3, <2>2, EndsTail
    <3>2. a \in Seq(FrameTypes)
      BY <1>3, <2>2, EndOfType
    <3> HIDE DEF a, b
    <3> QED
      BY <3>1, <3>2
  <2> QED
    BY <2>1, <2>2
<1>13. CASE IsLast(u)
  <2>1. Ends(chan') = Append(Ends(chan), u.type) /\ Greeted'
    <3> DEFINE a == Ends(chan)
    <3>1. a \in Seq(FrameTypes) /\ Ends(chan') = a \o <<u.type>>
      BY <1>11, <1>12, <1>13 DEF EndOf
    <3> HIDE DEF a
    <3>2. Ends(chan') = Append(a, u.type)
      BY <1>6, <3>1
    <3> QED
      BY <1>8, <1>13, <3>2 DEF Late, a
  <2>2. CASE out.type = "text"
    <3>1. Link!Greet
      BY <1>1, <1>6, <1>10, <2>1, <2>2, LinkStepsMean
    <3> QED
      BY <3>1 DEF Link!LinkNext
  <2>3. CASE out.type # "text"
    <3>1. out.type \in {"video", "sensor"}
      BY <1>2, <2>3 DEF FrameTypes
    <3>2. Link!Push
      BY <1>1, <1>6, <1>10, <2>1, <2>3, <3>1, LinkStepsMean
    <3> QED
      BY <3>2 DEF Link!LinkNext
  <2> QED
    BY <2>2, <2>3
<1>14. CASE ~IsLast(u)
  <2>1. Ends(chan') = Ends(chan)
    <3> DEFINE a == Ends(chan)
    <3>1. a \in Seq(FrameTypes) /\ Ends(chan') = a \o <<>>
      BY <1>11, <1>12, <1>14 DEF EndOf
    <3> HIDE DEF a
    <3>2. Ends(chan') = a
      BY <3>1
    <3> QED
      BY <3>2 DEF a
  <2>2. Greeted' <=> Greeted
    BY <1>6, <1>8, <1>10, <1>14 DEF Late
  <2> QED
    BY <1>1, <2>1, <2>2, LinkStepsMean
<1> QED
  BY <1>13, <1>14

(* A unit read is one when it was the last of its frame.                   *)
LEMMA PeerReadIsLinkStep ==
  ASSUME TypeInv, WireInv, PeerRead
  PROVE  Link!LinkNext \/ UNCHANGED Link!linkVars
<1>1. chan # <<>> /\ chan' = Tail(chan) /\ Up /\ Up' /\ lastRead' = Head(chan)
  BY DEF PeerRead, Up
<1>2. chan \in Seq(Units) /\ (lastRead = NoUnit \/ lastRead \in Units)
  BY DEF TypeInv, AppTypeOK
<1>3. Head(chan) \in Units /\ Tail(chan) \in Seq(Units)
  BY <1>1, <1>2
<1>4. WireInv' /\ Wire # <<>> /\ Wire' # <<>> /\ Last' = Last
  BY PeerReadKeepsWire
<1>5. Wire \in Seq(Units) /\ Ordered(Wire)
  BY <1>2, WireType DEF WireInv
<1>6. Wire' \in Seq(Units) /\ Ordered(Wire')
  <2>1. <<lastRead'>> \o chan' \in Seq(Units)
    <3> DEFINE h == Head(chan)
               t == Tail(chan)
    <3> HIDE DEF h, t
    <3>1. <<h>> \o t \in Seq(Units)
      BY <1>3 DEF h, t
    <3> QED
      BY <1>1, <3>1 DEF h, t
  <2> QED
    BY <1>1, <1>3, <1>4, <2>1 DEF Wire, WireInv
<1>7. Greeted' <=> Greeted
  BY <1>1, <1>4, <1>5, <1>6, LastTells DEF Greeted, Last
<1> DEFINE b == Ends(Tail(chan))
<1>8. Ends(chan) = EndOf(Head(chan)) \o b /\ b \in Seq(FrameTypes) /\ Ends(chan') = b
  BY <1>1, <1>2, EndsTail
<1> HIDE DEF b
<1>9. CASE IsLast(Head(chan))
  <2> DEFINE y == Head(chan).type
  <2>1. EndOf(Head(chan)) = <<y>> /\ y \in FrameTypes
    BY <1>3, <1>9 DEF EndOf, Units
  <2> HIDE DEF y
  <2>2. <<y>> \o b # <<>> /\ Tail(<<y>> \o b) = b
    BY <1>8, <2>1
  <2>3. Link!Deliver
    BY <1>1, <1>7, <1>8, <2>1, <2>2, LinkStepsMean
  <2> QED
    BY <2>3 DEF Link!LinkNext
<1>10. CASE ~IsLast(Head(chan))
  <2>1. <<>> \o b = b
    BY <1>8
  <2>2. Ends(chan') = Ends(chan)
    BY <1>8, <1>10, <2>1 DEF EndOf
  <2> QED
    BY <1>1, <1>7, <2>2, LinkStepsMean
<1> QED
  BY <1>9, <1>10

(* Every other step connects, disconnects or is not seen by LongLook.      *)
LEMMA StepIsLinkStep ==
  ASSUME AppInv, TypeInv, WireInv, [AppNext]_vars
  PROVE  Link!LinkNext \/ UNCHANGED Link!linkVars
<1>1. ASSUME UNCHANGED <<conn, chan, lastRead>> PROVE UNCHANGED Link!linkVars
  <2>1. (Up' <=> Up) /\ (Greeted' <=> Greeted) /\ Ends(chan') = Ends(chan)
    BY <1>1 DEF Up, Greeted, Wire
  <2> QED
    BY <2>1, LinkStepsMean
<1>2. ASSUME Up, ~Up', chan' = <<>> PROVE Link!LinkNext
  BY <1>2, EndsOfNothing, LinkStepsMean DEF Link!LinkNext
<1>3. CASE Boot \/ Leaving \/ (Accepting /\ ~Accept)
  BY <1>1, <1>3 DEF Boot, BootOpen, Opening, Sleep, Booted, StopSeen, Accepting, Listen,
     ListenFails, NoListen, AcceptTimeout, AcceptFails, LoopStops, LoopEnds, Leaving, CloseCamera,
     CloseServer, DestroyServer, DestroyCamera, netVars, vars, appVars
<1>4. CASE Accept
  <2>1. conn = "none" /\ chan = <<>> /\ lastRead = NoUnit /\ UNCHANGED <<chan, lastRead>>
        /\ conn' \in {"up", "fin", "reset"}
    BY <1>4 DEF Accept, AppInv, Agreement, SocketsAgree, WithClient, Serving, WireInv, WireAgrees
  <2>2. ~Up /\ ~Greeted /\ ~Greeted' /\ Ends(chan') = Ends(chan)
    <3>1. Wire' = <<>>
      BY <2>1 DEF Wire
    <3>2. DOMAIN <<>> = {}
      OBVIOUS
    <3> QED
      BY <2>1, <3>1, <3>2 DEF Up, Greeted
  <2>3. CASE Up'
    BY <2>2, <2>3, LinkStepsMean DEF Link!LinkNext
  <2>4. CASE ~Up'
    BY <2>2, <2>4, LinkStepsMean
  <2> QED
    BY <2>3, <2>4
<1>5. CASE Start \/ SendDone \/ SendFails \/ Check \/ Grabbed \/ Sensor \/ Poll \/ Stop
  BY <1>1, <1>5 DEF Start, SendDone, SendFails, Check, Grabbed, Sensor, Poll, Stop, netVars
<1>6. CASE SendUnit
  BY <1>6, SendUnitIsLinkStep
<1>7. CASE CloseClient
  <2>1. conn' = "none" /\ chan' = <<>> /\ ~Up' /\ conn \in {"none", "up", "fin", "reset"}
    BY <1>7 DEF CloseClient, Up, TypeInv, AppTypeOK
  <2>2. CASE Up
    BY <1>2, <2>1, <2>2
  <2>3. CASE ~Up
    <3>1. chan = <<>>
      BY <2>1, <2>3 DEF Up, WireInv, WireAgrees
    <3>2. ~Greeted /\ ~Greeted' /\ Ends(chan') = Ends(chan)
      BY <2>1, <2>3, <3>1 DEF Greeted
    <3> QED
      BY <2>1, <2>3, <3>2, LinkStepsMean
  <2> QED
    BY <2>2, <2>3
<1>8. CASE PeerRead
  BY <1>8, PeerReadIsLinkStep
<1>9. CASE RequestStop \/ Camera
  BY <1>1, <1>9 DEF RequestStop, Camera, appVars, netVars
<1>10. CASE PeerClose
  <2>1. Up /\ Up' /\ UNCHANGED <<chan, lastRead>>
    BY <1>10 DEF PeerClose, Up
  <2>2. (Greeted' <=> Greeted) /\ Ends(chan') = Ends(chan)
    BY <2>1 DEF Greeted, Wire
  <2> QED
    BY <2>1, <2>2, LinkStepsMean
<1>11. CASE ConnLost
  BY <1>2, <1>11 DEF ConnLost, Up
<1>12. CASE UNCHANGED vars
  BY <1>1, <1>12 DEF vars, appVars, netVars
<1> QED
  BY <1>3, <1>4, <1>5, <1>6, <1>7, <1>8, <1>9, <1>10, <1>11, <1>12
  DEF AppNext, Process, Accepting, Serve, Environment

(* What LongLook sees of the program is what VideoLink promises: one       *)
(* greeting, then whole frames in order, on one connection after another.  *)
THEOREM ProgramIsVideoLink == AppSpec => ImplementsVideoLink
<1>1. AppInit => Link!LinkInit
  BY EndsOfNothing DEF AppInit, Link!LinkInit
<1>2. AppInv /\ TypeInv /\ WireInv /\ [AppNext]_vars => [Link!LinkNext]_(Link!linkVars)
  BY StepIsLinkStep
<1> QED
  BY <1>1, <1>2, AppInvariance, AppTypeCorrect, WireInvariance, PTL
  DEF AppSpec, ImplementsVideoLink, Link!LinkSpec
=============================================================================

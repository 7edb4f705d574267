------------------------ MODULE CameraManager_proofs -------------------------
(***************************************************************************)
(* Proofs that CameraManager keeps its invariants for every set of buffer  *)
(* counts the driver may grant.                                            *)
(***************************************************************************)
EXTENDS CameraManager, TLAPS

(* A closed camera holds nothing.                                          *)
ClosedIsEmpty ==
  ~isOpen => /\ op = "idle" /\ nbuf = 0 /\ mapped = 0
             /\ ~streaming /\ ~streamOn /\ ~alive
             /\ lastIndex = None /\ InDriver = {}

(* The variables that are Boolean.                                         *)
Flags == /\ isOpen \in BOOLEAN /\ streaming \in BOOLEAN /\ present \in BOOLEAN
         /\ alive \in BOOLEAN /\ streamOn \in BOOLEAN

(* What each call in progress has settled so far.                          *)
OpProgress ==
  /\ op = "negotiate" => nbuf = 0 /\ mapped = 0
  /\ op = "map" => nbuf >= 2 /\ mapped < nbuf
  /\ op \in {"negotiate", "map"} => ~streaming /\ InDriver = {}
  /\ op = "wait" => streaming /\ lastIndex = None
  /\ op \in {"idle", "wait"} /\ isOpen => nbuf >= 2 /\ mapped = nbuf

(* No buffer is in two hands.                                              *)
OneOwner ==
  /\ queued \cap done = {}
  /\ lastIndex # None => lastIndex \notin InDriver
  /\ lastIndex # None => streaming

(* The driver streams only for a process that asked it to.                 *)
StreamAgrees == streamOn => alive /\ streaming

IInv == /\ TypeOK /\ ClosedIsEmpty /\ OpProgress /\ OneOwner
        /\ StreamAgrees /\ NoBufferLost

(* The states the camera can start in satisfy the inductive invariant.     *)
LEMMA InitEstablishes == Init => IInv
<1> SUFFICES ASSUME Init PROVE IInv
  OBVIOUS
<1>1. TypeOK
  <2>1. Flags
    BY DEF Init, Flags
  <2> QED
    BY <2>1 DEF Init, TypeOK, Flags, Ops, None, Buffers
<1>2. ClosedIsEmpty
  BY DEF Init, ClosedIsEmpty, InDriver
<1>3. OpProgress
  BY DEF Init, OpProgress, InDriver
<1>4. OneOwner /\ StreamAgrees /\ NoBufferLost
  BY DEF Init, OneOwner, StreamAgrees, NoBufferLost
<1> QED
  BY <1>1, <1>2, <1>3, <1>4 DEF IInv

(* Releasing the handle leaves a camera that holds nothing.                *)
LEMMA CloseKeeps == ASSUME IInv, Close PROVE IInv'
<1>1. TypeOK'
  <2>1. Flags'
    BY DEF IInv, TypeOK, Close, Released, Flags
  <2> QED
    BY <2>1 DEF Close, Released, TypeOK, Flags, Ops, None, Buffers
<1>2. ClosedIsEmpty'
  BY DEF Close, Released, ClosedIsEmpty, InDriver
<1>3. OpProgress'
  BY DEF Close, Released, OpProgress, InDriver
<1>4. OneOwner' /\ StreamAgrees' /\ NoBufferLost'
  BY DEF Close, Released, OneOwner, StreamAgrees, NoBufferLost
<1> QED
  BY <1>1, <1>2, <1>3, <1>4 DEF IInv

(* Opening the camera, step by step, keeps the inductive invariant.        *)
LEMMA OpenKeeps == ASSUME IInv, Open PROVE IInv'
<1> USE GrantAssumption DEF IInv, TypeOK, ClosedIsEmpty, OpProgress, OneOwner,
        StreamAgrees, NoBufferLost, Ops, None, Buffers, InDriver
<1>1. CASE OpenDevice
  <2>1. Flags'
    BY <1>1 DEF OpenDevice, Released, Flags
  <2>2. TypeOK'
    BY <1>1, <2>1 DEF OpenDevice, Released, Flags
  <2>3. ClosedIsEmpty' /\ OneOwner' /\ StreamAgrees' /\ NoBufferLost'
    BY <1>1 DEF OpenDevice, Released
  <2>4. OpProgress'
    BY <1>1 DEF OpenDevice, Released
  <2> QED
    BY <2>2, <2>3, <2>4
<1>2. CASE Negotiate
  BY <1>2 DEF Negotiate, driverVars
<1>3. CASE MapBuffer
  BY <1>3 DEF MapBuffer, driverVars
<1>4. CASE OpenDeviceFails \/ NegotiateFails \/ MapBufferFails
  <2>1. Close
    BY <1>4 DEF OpenDeviceFails, NegotiateFails, MapBufferFails
  <2> QED
    BY <2>1, CloseKeeps
<1> QED
  BY <1>1, <1>2, <1>3, <1>4 DEF Open

(* Starting and stopping the stream keep the inductive invariant.          *)
LEMMA StartStopKeeps ==
  ASSUME IInv, StartSucceeds \/ StartFails \/ StopStreaming PROVE IInv'
<1> USE DEF IInv, TypeOK, ClosedIsEmpty, OpProgress, OneOwner,
        StreamAgrees, NoBufferLost, Ops, None, Buffers, InDriver
<1>1. CASE StartSucceeds
  <2>1. queued = {} /\ done = {}
    BY <1>1 DEF StartSucceeds, Queueable
  <2>2. Flags'
    BY <1>1 DEF StartSucceeds, Flags
  <2>3. TypeOK'
    BY <1>1, <2>1, <2>2 DEF StartSucceeds, Flags
  <2>4. ClosedIsEmpty' /\ OpProgress' /\ OneOwner'
    BY <1>1, <2>1 DEF StartSucceeds
  <2>5. StreamAgrees' /\ NoBufferLost'
    BY <1>1, <2>1 DEF StartSucceeds, Queueable
  <2> QED
    BY <2>3, <2>4, <2>5
<1>2. CASE StartFails
  <2>1. PICK k \in 0 .. nbuf : /\ \A i \in 0 .. k - 1 : Queueable(i)
                               /\ queued' = queued \cup (0 .. k - 1)
    BY <1>2 DEF StartFails
  <2>2. 0 .. k - 1 \subseteq Buffers /\ done \cap (0 .. k - 1) = {}
    BY <2>1 DEF Queueable
  <2> QED
    BY <1>2, <2>1, <2>2 DEF StartFails, procVars
<1>3. CASE StopStreaming
  <2>1. Flags'
    BY <1>3 DEF StopStreaming, Flags
  <2>2. TypeOK'
    BY <1>3, <2>1 DEF StopStreaming, Flags
  <2>3. ClosedIsEmpty' /\ OpProgress' /\ OneOwner'
    BY <1>3 DEF StopStreaming
  <2>4. StreamAgrees' /\ NoBufferLost'
    BY <1>3 DEF StopStreaming
  <2> QED
    BY <2>2, <2>3, <2>4
<1> QED
  BY <1>1, <1>2, <1>3

(* Grabbing a frame keeps the inductive invariant.                         *)
LEMMA GrabKeeps == ASSUME IInv, Grab PROVE IInv'
<1> USE DEF IInv, TypeOK, ClosedIsEmpty, OpProgress, OneOwner,
        StreamAgrees, NoBufferLost, Ops, None, Buffers, InDriver
<1>1. CASE GrabBegin
  <2>1. CASE lastIndex = None
    BY <1>1, <2>1 DEF GrabBegin
  <2>2. CASE lastIndex # None
    <3>1. /\ lastIndex \in Buffers /\ lastIndex \notin InDriver /\ alive
          /\ queued' = queued \cup {lastIndex} /\ done' = done
          /\ InDriver = Buffers \ {lastIndex}
      BY <1>1, <2>2 DEF GrabBegin, Queueable
    <3>2. TypeOK' /\ ClosedIsEmpty' /\ OpProgress' /\ StreamAgrees'
      BY <1>1, <3>1 DEF GrabBegin
    <3>3. OneOwner'
      BY <1>1, <3>1 DEF GrabBegin
    <3>4. NoBufferLost'
      BY <1>1, <3>1 DEF GrabBegin
    <3> QED
      BY <3>2, <3>3, <3>4
  <2> QED
    BY <2>1, <2>2
<1>2. CASE RequeueFails
  BY <1>2 DEF RequeueFails, camVars, procVars, driverVars
<1>3. CASE GrabSucceeds
  BY <1>3 DEF GrabSucceeds
<1>4. CASE GrabFails
  BY <1>4 DEF GrabFails, driverVars
<1> QED
  BY <1>1, <1>2, <1>3, <1>4 DEF Grab

(* Nothing the driver or the cable does breaks the inductive invariant.    *)
LEMMA DriverKeeps == ASSUME IInv, Driver PROVE IInv'
<1> USE DEF IInv, TypeOK, ClosedIsEmpty, OpProgress, OneOwner,
        StreamAgrees, NoBufferLost, Ops, None, Buffers, InDriver
<1>1. CASE Fill
  BY <1>1 DEF Fill, procVars
<1>2. CASE Unplug
  BY <1>2 DEF Unplug, procVars
<1>3. CASE Plug
  BY <1>3 DEF Plug, procVars
<1> QED
  BY <1>1, <1>2, <1>3 DEF Driver

(* Every step of the camera keeps the inductive invariant.                 *)
LEMMA NextKeeps == ASSUME IInv, [Next]_camVars PROVE IInv'
<1>1. CASE UNCHANGED camVars
  BY <1>1 DEF camVars, procVars, driverVars, IInv, TypeOK, ClosedIsEmpty,
     OpProgress, OneOwner, StreamAgrees, NoBufferLost, Buffers, InDriver
<1> QED
  BY <1>1, OpenKeeps, StartStopKeeps, GrabKeeps, CloseKeeps, DriverKeeps DEF Next

(* The inductive invariant holds in every reachable state.                 *)
THEOREM Invariance == CameraSpec => []IInv
  BY InitEstablishes, NextKeeps, PTL DEF CameraSpec

(* Every variable keeps its type: in particular lastIndex_ always names a  *)
(* buffer that exists, or none.                                            *)
THEOREM TypeCorrect == CameraSpec => []TypeOK
  BY Invariance, PTL DEF IInv

(* The pointer grabFrame() returned stays usable until the next call, for  *)
(* any number of buffers and any behaviour of the driver.                  *)
THEOREM FrameContract == CameraSpec => []HeldFrameIntact
<1>1. IInv => HeldFrameIntact
  BY DEF IInv, TypeOK, ClosedIsEmpty, OpProgress, OneOwner, HeldFrameIntact,
         Ops, None, Buffers, InDriver
<1> QED
  BY <1>1, Invariance, PTL

(* No buffer is leaked while the stream runs.                              *)
THEOREM BuffersAccounted == CameraSpec => []NoBufferLost
  BY Invariance, PTL DEF IInv

(* However long the caller holds a frame, one buffer is left for the       *)
(* driver, whatever counts it grants: the test "req.count < 2" of open()   *)
(* is what makes this true.                                                *)
THEOREM CaptureGoesOn == CameraSpec => []CaptureNeverStalls
<1>1. IInv => CaptureNeverStalls
  <2> SUFFICES ASSUME IInv, streaming, alive PROVE InDriver # {}
    BY DEF CaptureNeverStalls
  <2>1. nbuf >= 2 /\ nbuf \in Nat /\ lastIndex \in Int
    BY DEF IInv, TypeOK, ClosedIsEmpty, OpProgress, Ops, Buffers, None
  <2>2. 0 \in Buffers /\ 1 \in Buffers
    BY <2>1 DEF Buffers
  <2>3. InDriver = Buffers \ {lastIndex}
    BY DEF IInv, NoBufferLost
  <2> QED
    BY <2>2, <2>3
<1> QED
  BY <1>1, Invariance, PTL

(* open() leaves nothing half done: an open camera between two calls has   *)
(* at least two buffers and all of them mapped.                            *)
THEOREM OpenIsComplete == CameraSpec => []NoHalfOpen
<1>1. IInv => NoHalfOpen
  BY DEF IInv, OpProgress, NoHalfOpen
<1> QED
  BY <1>1, Invariance, PTL
=============================================================================

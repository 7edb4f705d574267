--------------------------- MODULE CameraManager ---------------------------
(***************************************************************************)
(* CameraManager (src/modules/camera/CameraManager.cpp) together with the  *)
(* part of the V4L2 driver it talks to.                                    *)
(*                                                                         *)
(* The process owns the handle fd_, the mapped buffers and the flags       *)
(* streaming_ and lastIndex_.  The driver owns the buffers that were       *)
(* handed to it by VIDIOC_QBUF: those in "queued" may be written at any    *)
(* moment while the stream is on, those in "done" hold a captured frame    *)
(* and wait for VIDIOC_DQBUF.  A buffer in neither set belongs to the      *)
(* process.  The device may be unplugged and plugged in again between any  *)
(* two system calls; a handle of an unplugged device stays dead.           *)
(*                                                                         *)
(* Each action is one stretch of code between two points where the driver  *)
(* can move; "op" says which call of CameraManager is in progress.  Any    *)
(* ioctl may fail, for whatever reason the kernel has, except              *)
(* VIDIOC_STREAMOFF on a live device.                                      *)
(***************************************************************************)
EXTENDS Integers

CONSTANT GrantCounts   \* the buffer counts VIDIOC_REQBUFS may grant

ASSUME GrantAssumption == GrantCounts \subseteq Nat

VARIABLES
  op,         \* the call in progress: see Ops
  isOpen,     \* fd_ >= 0
  nbuf,       \* buffers_.size()
  mapped,     \* how many of the buffers are mapped: those below this number
  streaming,  \* streaming_
  lastIndex,  \* lastIndex_: the buffer of the frame last returned, or None
  present,    \* a camera is plugged in, its device node can be opened
  alive,      \* the device behind the open handle is still there
  streamOn,   \* the driver captures
  queued,     \* buffers the driver may write into
  done        \* buffers that hold a captured frame

procVars   == <<op, isOpen, nbuf, mapped, streaming, lastIndex>>
driverVars == <<present, alive, streamOn, queued, done>>
camVars    == <<procVars, driverVars>>

Ops  == {"idle", "negotiate", "map", "wait"}
None == -1

Buffers   == 0 .. nbuf - 1
InDriver  == queued \cup done

TypeOK ==
  /\ op \in Ops
  /\ isOpen \in BOOLEAN
  /\ nbuf \in Nat
  /\ mapped \in 0 .. nbuf
  /\ streaming \in BOOLEAN
  /\ lastIndex \in Buffers \cup {None}
  /\ present \in BOOLEAN
  /\ alive \in BOOLEAN
  /\ streamOn \in BOOLEAN
  /\ queued \subseteq Buffers
  /\ done \subseteq Buffers

Init ==
  /\ op = "idle"
  /\ isOpen = FALSE
  /\ nbuf = 0
  /\ mapped = 0
  /\ streaming = FALSE
  /\ lastIndex = None
  /\ present \in BOOLEAN
  /\ alive = FALSE
  /\ streamOn = FALSE
  /\ queued = {}
  /\ done = {}
-----------------------------------------------------------------------------
(* What the process and the driver hold once the handle is released.       *)
Released ==
  /\ nbuf' = 0
  /\ mapped' = 0
  /\ streaming' = FALSE
  /\ lastIndex' = None
  /\ streamOn' = FALSE
  /\ queued' = {}
  /\ done' = {}

(* close(): stop the stream, unmap every buffer, close the handle.         *)
Close ==
  /\ op' = "idle"
  /\ isOpen' = FALSE
  /\ alive' = FALSE
  /\ Released
  /\ UNCHANGED present

(* open(): release what was open and open the device node.                 *)
OpenDevice ==
  /\ op = "idle"
  /\ present
  /\ op' = "negotiate"
  /\ isOpen' = TRUE
  /\ alive' = TRUE
  /\ Released
  /\ UNCHANGED present

OpenDeviceFails ==
  /\ op = "idle"
  /\ Close

(* open() without the test "req.count < 2".                                *)
NegotiateAnyCount ==
  /\ op = "negotiate"
  /\ alive
  /\ \E n \in GrantCounts : nbuf' = n /\ op' = IF n = 0 THEN "idle" ELSE "map"
  /\ UNCHANGED <<isOpen, mapped, streaming, lastIndex, driverVars>>

(* Capabilities, format and frame rate are settled and the driver grants   *)
(* at least two buffers.                                                   *)
Negotiate ==
  /\ op = "negotiate"
  /\ alive
  /\ \E n \in GrantCounts : n >= 2 /\ nbuf' = n
  /\ op' = "map"
  /\ UNCHANGED <<isOpen, mapped, streaming, lastIndex, driverVars>>

NegotiateFails ==
  /\ op = "negotiate"
  /\ Close

(* A loop that runs to "i <= req.count".                                   *)
MapBufferPastEnd ==
  /\ op = "map"
  /\ alive
  /\ mapped' = mapped + 1
  /\ op' = IF mapped' > nbuf THEN "idle" ELSE "map"
  /\ UNCHANGED <<isOpen, nbuf, streaming, lastIndex, driverVars>>

(* Map the next buffer; the last one completes open().                     *)
MapBuffer ==
  /\ op = "map"
  /\ alive
  /\ mapped' = mapped + 1
  /\ op' = IF mapped' = nbuf THEN "idle" ELSE "map"
  /\ UNCHANGED <<isOpen, nbuf, streaming, lastIndex, driverVars>>

(* A failed VIDIOC_QUERYBUF or mmap that only returns false.               *)
MapBufferFailsWithoutClose ==
  /\ op = "map"
  /\ op' = "idle"
  /\ UNCHANGED <<isOpen, nbuf, mapped, streaming, lastIndex, driverVars>>

MapBufferFails ==
  /\ op = "map"
  /\ Close
-----------------------------------------------------------------------------
(* VIDIOC_QBUF of i succeeds only on a live device and for a buffer the     *)
(* driver does not already have.                                           *)
Queueable(i) == alive /\ i \notin InDriver

(* startStreaming(): every buffer is handed over, then VIDIOC_STREAMON.    *)
StartSucceeds ==
  /\ op = "idle" /\ isOpen /\ ~streaming
  /\ \A i \in Buffers : Queueable(i)
  /\ queued' = Buffers
  /\ streamOn' = TRUE
  /\ streaming' = TRUE
  /\ lastIndex' = None
  /\ UNCHANGED <<op, isOpen, nbuf, mapped, present, alive, done>>

(* The first k buffers are handed over, then a VIDIOC_QBUF or the          *)
(* VIDIOC_STREAMON fails; what was handed over stays with the driver.      *)
StartFails ==
  /\ op = "idle" /\ isOpen /\ ~streaming
  /\ \E k \in 0 .. nbuf :
       /\ \A i \in 0 .. k - 1 : Queueable(i)
       /\ queued' = queued \cup (0 .. k - 1)
  /\ UNCHANGED <<procVars, present, alive, streamOn, done>>

(* stopStreaming(): VIDIOC_STREAMOFF takes every buffer back, and does     *)
(* nothing on a device that is gone.                                       *)
StopStreaming ==
  /\ op = "idle" /\ streaming
  /\ streaming' = FALSE
  /\ lastIndex' = None
  /\ IF alive
     THEN streamOn' = FALSE /\ queued' = {} /\ done' = {}
     ELSE UNCHANGED <<streamOn, queued, done>>
  /\ UNCHANGED <<op, isOpen, nbuf, mapped, present, alive>>

(* grabFrame() that forgets the last frame and does not give it back.      *)
GrabBeginWithoutRequeue ==
  /\ op = "idle" /\ streaming
  /\ lastIndex' = None
  /\ op' = "wait"
  /\ UNCHANGED <<isOpen, nbuf, mapped, streaming, driverVars>>

(* grabFrame() that gives the last frame back and still points at it.      *)
GrabBeginKeepsIndex ==
  /\ op = "idle" /\ streaming
  /\ IF lastIndex = None
     THEN UNCHANGED queued
     ELSE Queueable(lastIndex) /\ queued' = queued \cup {lastIndex}
  /\ op' = "wait"
  /\ UNCHANGED <<isOpen, nbuf, mapped, streaming, lastIndex,
                 present, alive, streamOn, done>>

(* grabFrame(): the frame returned last goes back to the driver, then the  *)
(* call waits in select().                                                 *)
GrabBegin ==
  /\ op = "idle" /\ streaming
  /\ IF lastIndex = None
     THEN UNCHANGED queued
     ELSE Queueable(lastIndex) /\ queued' = queued \cup {lastIndex}
  /\ lastIndex' = None
  /\ op' = "wait"
  /\ UNCHANGED <<isOpen, nbuf, mapped, streaming,
                 present, alive, streamOn, done>>

(* VIDIOC_QBUF of the last frame fails: the call returns with the process  *)
(* still holding that frame.                                               *)
RequeueFails ==
  /\ op = "idle" /\ streaming /\ lastIndex # None
  /\ UNCHANGED camVars

(* grabFrame() that gives the buffer back before the caller has used it.   *)
GrabReturnsBufferAtOnce ==
  /\ op = "wait" /\ alive
  /\ \E i \in done : /\ lastIndex' = i
                     /\ done' = done \ {i}
                     /\ queued' = queued \cup {i}
  /\ op' = "idle"
  /\ UNCHANGED <<isOpen, nbuf, mapped, streaming, present, alive, streamOn>>

(* VIDIOC_DQBUF returns a captured frame and the caller gets a pointer.    *)
GrabSucceeds ==
  /\ op = "wait" /\ alive
  /\ \E i \in done : lastIndex' = i /\ done' = done \ {i}
  /\ op' = "idle"
  /\ UNCHANGED <<isOpen, nbuf, mapped, streaming,
                 present, alive, streamOn, queued>>

(* Timeout or EINTR of select(), or a failed VIDIOC_DQBUF.                 *)
GrabFails ==
  /\ op = "wait"
  /\ op' = "idle"
  /\ UNCHANGED <<isOpen, nbuf, mapped, streaming, lastIndex, driverVars>>
-----------------------------------------------------------------------------
(* The driver captures a frame into a buffer it was handed.                *)
Fill ==
  /\ alive /\ streamOn
  /\ \E i \in queued : queued' = queued \ {i} /\ done' = done \cup {i}
  /\ UNCHANGED <<procVars, present, alive, streamOn>>

Unplug ==
  /\ present
  /\ present' = FALSE
  /\ alive' = FALSE
  /\ streamOn' = FALSE
  /\ UNCHANGED <<procVars, queued, done>>

Plug ==
  /\ ~present
  /\ present' = TRUE
  /\ UNCHANGED <<procVars, alive, streamOn, queued, done>>

Open        == \/ OpenDevice \/ OpenDeviceFails
               \/ Negotiate \/ NegotiateFails
               \/ MapBuffer \/ MapBufferFails
Grab        == GrabBegin \/ RequeueFails \/ GrabSucceeds \/ GrabFails
Driver      == Fill \/ Unplug \/ Plug

Next ==
  \/ Open
  \/ StartSucceeds \/ StartFails
  \/ Grab
  \/ StopStreaming
  \/ op = "idle" /\ Close
  \/ Driver

CameraSpec == Init /\ [][Next]_camVars
-----------------------------------------------------------------------------
(* The pointer grabFrame() returned stays usable until the caller's next   *)
(* call: its buffer is mapped and the driver cannot write into it          *)
(* (the contract at CameraManager.h:17).                                   *)
HeldFrameIntact ==
  lastIndex # None => lastIndex < mapped /\ lastIndex \notin InDriver

(* While the stream runs no buffer is leaked: the driver has all of them   *)
(* except the one the caller holds.                                        *)
NoBufferLost ==
  streaming /\ alive => InDriver = Buffers \ {lastIndex}

(* However long the caller holds a frame (a blocked send holds it for      *)
(* minutes), the driver still has a buffer to capture into.                *)
CaptureNeverStalls ==
  streaming /\ alive => InDriver # {}

(* open() leaves nothing half done: between calls an open camera has every *)
(* buffer mapped, and enough of them to stream.                            *)
NoHalfOpen ==
  op = "idle" /\ isOpen => nbuf >= 2 /\ mapped = nbuf

(* Between calls, a camera that is open, alive and not streaming can be    *)
(* started again: startStreaming() can have every buffer it queues.        *)
StartableWhenIdle ==
  op = "idle" /\ isOpen /\ ~streaming /\ alive => InDriver = {}
=============================================================================

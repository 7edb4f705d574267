----------------------------- MODULE TcpClient ------------------------------
(***************************************************************************)
(* TcpClient (src/modules/network/TcpClient.cpp): connect() with its       *)
(* non-blocking detour and its exits, sendAll() and close(), used by one   *)
(* thread that may call them in any order, also after a failure.  recv()   *)
(* has no action: it changes nothing of the client, whatever it returns.   *)
(***************************************************************************)
EXTENDS Integers, Sequences, FiniteSets

CONSTANTS
  MaxSockets,    \* bound: how many sockets are ever created
  MessageUnits,  \* the pieces a message may be sent in
  SocketRoom,    \* the pieces the connection holds until the peer reads
  MaxMessages    \* bound: messages of one connection

ASSUME ClientAssumption == MessageUnits \in Nat \ {0}

VARIABLES
  fd,            \* fd_: a socket, 0 for -1
  open,          \* the sockets the process has open
  created,       \* how many were ever created
  blocking,      \* is O_NONBLOCK cleared?
  doing,         \* "idle", "connecting", or "sending"
  left,          \* the pieces of the message sendAll() has still to send
  alive,         \* does the connection work?
  full,          \* the pieces the connection holds
  wire           \* history: of each message of this connection, the pieces sent

clientVars == <<fd, open, created, blocking, doing, left, alive, full, wire>>

ClientInit ==
  /\ fd = 0 /\ open = {} /\ created = 0 /\ blocking = TRUE /\ doing = "idle"
  /\ left = 0 /\ alive = FALSE /\ full = 0 /\ wire = <<>>

\* close(): a socket that is open is closed, once.
CloseFd == open' = open \ {fd} /\ fd' = 0
-----------------------------------------------------------------------------
CloseCall ==
  /\ doing = "idle"
  /\ CloseFd
  /\ alive' = FALSE
  /\ UNCHANGED <<created, blocking, doing, left, full, wire>>

\* connect(): close(), then socket(), which may fail, and O_NONBLOCK.  A
\* connect() that forgets the socket it had.
ConnectForgets ==
  /\ doing = "idle" /\ created < MaxSockets
  /\ created' = created + 1
  /\ open' = open \cup {created'}
  /\ fd' = created' /\ blocking' = FALSE /\ doing' = "connecting"
  /\ alive' = FALSE /\ full' = 0 /\ wire' = <<>>
  /\ UNCHANGED left

ConnectBegins ==
  /\ doing = "idle" /\ created < MaxSockets
  /\ created' = created + 1
  /\ open' = (open \ {fd}) \cup {created'}
  /\ fd' = created' /\ blocking' = FALSE /\ doing' = "connecting"
  /\ alive' = FALSE /\ full' = 0 /\ wire' = <<>>
  /\ UNCHANGED left

NoSocket ==
  /\ doing = "idle"
  /\ CloseFd
  /\ alive' = FALSE
  /\ UNCHANGED <<created, blocking, doing, left, full, wire>>

\* An address that is none, a connect() refused at once, a select() that times
\* out or fails, an error behind SO_ERROR.
ConnectFails ==
  /\ doing = "connecting"
  /\ CloseFd
  /\ doing' = "idle"
  /\ UNCHANGED <<created, blocking, left, alive, full, wire>>

\* The connection is there.  Without fcntl(fd_, F_SETFL, flags); and with it.
ConnectedNonBlocking ==
  /\ doing = "connecting"
  /\ doing' = "idle" /\ alive' = TRUE
  /\ UNCHANGED <<fd, open, created, blocking, left, full, wire>>

Connected ==
  /\ doing = "connecting"
  /\ doing' = "idle" /\ alive' = TRUE /\ blocking' = TRUE
  /\ UNCHANGED <<fd, open, created, left, full, wire>>

SendAll ==
  /\ doing = "idle" /\ fd # 0 /\ Len(wire) < MaxMessages
  /\ doing' = "sending" /\ left' = MessageUnits
  /\ wire' = Append(wire, 0)
  /\ UNCHANGED <<fd, open, created, blocking, alive, full>>

\* send() takes some of what is left; a blocking one waits until there is room.
SendSome(n) ==
  /\ doing = "sending" /\ alive
  /\ n <= left /\ full + n <= SocketRoom
  /\ full' = full + n /\ left' = left - n
  /\ wire' = [wire EXCEPT ![Len(wire)] = @ + n]
  /\ doing' = IF left' = 0 THEN "idle" ELSE "sending"
  /\ UNCHANGED <<fd, open, created, blocking, alive>>

\* send() fails for another reason than EINTR: sendAll() returns false, the
\* socket stays open.
SendError ==
  /\ doing = "sending"
  /\ ~alive \/ (~blocking /\ full = SocketRoom)
  /\ doing' = "idle" /\ left' = 0
  /\ UNCHANGED <<fd, open, created, blocking, alive, full, wire>>

PeerReads ==
  /\ alive /\ full > 0
  /\ full' = full - 1
  /\ UNCHANGED <<fd, open, created, blocking, doing, left, alive, wire>>

Dies ==
  /\ alive
  /\ alive' = FALSE
  /\ UNCHANGED <<fd, open, created, blocking, doing, left, full, wire>>

ClientNext ==
  \/ CloseCall \/ ConnectBegins \/ NoSocket \/ ConnectFails \/ Connected
  \/ SendAll \/ SendError \/ PeerReads \/ Dies
  \/ \E n \in 1 .. MessageUnits : SendSome(n)

ClientSpec == ClientInit /\ [][ClientNext]_clientVars
-----------------------------------------------------------------------------
\* Whatever connect() fails at and however often it is called, between two calls
\* the client has the socket of fd_ open and no other.
NoSocketLeak == doing = "idle" => open = IF fd = 0 THEN {} ELSE {fd}

\* A user who goes on after a failed sendAll() does no harm: the peer gets whole
\* messages and behind them at most one that was cut, for send() only fails
\* when the connection is gone.
OnlyLastCut ==
  \A i, j \in DOMAIN wire : i < j /\ wire[i] < MessageUnits => wire[j] = 0
=============================================================================

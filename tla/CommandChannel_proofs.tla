------------------------ MODULE CommandChannel_proofs ------------------------
(***************************************************************************)
(* What pollCommands hands out and keeps, for every script LongLook may    *)
(* write, every way the network cuts it and every size of recv's array.    *)
(* The facts about the two parsers are those of FrameProtocol_proofs.      *)
(***************************************************************************)
EXTENDS CommandChannel, FrameProtocol_proofs

-----------------------------------------------------------------------------
(* The bytes and the commands of the first pieces of a script.             *)
LEMMA ScriptUnfolds ==
  ASSUME NEW s \in Seq(Pieces)
  PROVE  /\ BytesOf(s)[0] = <<>> /\ CommandsOf(s)[0] = <<>>
         /\ \A i \in 1 .. Len(s) :
              /\ BytesOf(s)[i] = BytesOf(s)[i - 1] \o s[i].bytes
              /\ CommandsOf(s)[i] = CommandsOf(s)[i - 1] \o s[i].commands
<1> DEFINE n == Len(s)
           b == [i \in 1 .. n |-> s[i].bytes]
           c == [i \in 1 .. n |-> s[i].commands]
           Rb(f) == [i \in 0 .. n |-> IF i = 0 THEN <<>> ELSE f[i - 1] \o s[i].bytes]
           Rc(f) == [i \in 0 .. n |-> IF i = 0 THEN <<>> ELSE f[i - 1] \o s[i].commands]
<1>1. n \in Nat
  OBVIOUS
<1>2. \A i \in 0 .. n : i # 0 => i \in 1 .. n
  BY <1>1
<1>3. \E f : f = Rb(f)
  <2> HIDE DEF n, b
  <2>1. PICK f : f = [i \in 0 .. n |-> IF i = 0 THEN <<>> ELSE f[i - 1] \o b[i]]
    BY <1>1, Accumulates
  <2>2. \A i \in 0 .. n : i # 0 => b[i] = s[i].bytes
    BY <1>2 DEF b
  <2>3. [i \in 0 .. n |-> IF i = 0 THEN <<>> ELSE f[i - 1] \o b[i]] = Rb(f)
    BY <2>2
  <2> HIDE DEF Rb
  <2> QED
    BY <2>1, <2>3, Zenon
<1>4. \E f : f = Rc(f)
  <2> HIDE DEF n, c
  <2>1. PICK f : f = [i \in 0 .. n |-> IF i = 0 THEN <<>> ELSE f[i - 1] \o c[i]]
    BY <1>1, Accumulates
  <2>2. \A i \in 0 .. n : i # 0 => c[i] = s[i].commands
    BY <1>2 DEF c
  <2>3. [i \in 0 .. n |-> IF i = 0 THEN <<>> ELSE f[i - 1] \o c[i]] = Rc(f)
    BY <2>2
  <2> HIDE DEF Rc
  <2> QED
    BY <2>1, <2>3, Zenon
<1>5. BytesOf(s) = CHOOSE f : f = Rb(f)
  BY DEF BytesOf
<1>6. CommandsOf(s) = CHOOSE f : f = Rc(f)
  BY DEF CommandsOf
<1> DEFINE B == BytesOf(s)
           C == CommandsOf(s)
<1>7. B = Rb(B)
  <2> HIDE DEF Rb
  <2> QED BY <1>3, <1>5, Zenon
<1>8. C = Rc(C)
  <2> HIDE DEF Rc
  <2> QED BY <1>4, <1>6, Zenon
<1> HIDE DEF B, C
<1>9. B[0] = <<>> /\ C[0] = <<>>
  BY <1>1, <1>7, <1>8
<1>10. ASSUME NEW i \in 1 .. n
       PROVE  B[i] = B[i - 1] \o s[i].bytes /\ C[i] = C[i - 1] \o s[i].commands
  <2>1. i \in 0 .. n /\ i # 0
    BY <1>1
  <2> HIDE DEF n
  <2>2. B[i] = B[i - 1] \o s[i].bytes
    BY <1>7, <2>1
  <2>3. C[i] = C[i - 1] \o s[i].commands
    BY <1>8, <2>1
  <2> QED
    BY <2>2, <2>3
<1> QED
  BY <1>9, <1>10 DEF B, C

(* They are bytes and commands.                                            *)
LEMMA ScriptType ==
  ASSUME NEW s \in Seq(Pieces), NEW i \in 0 .. Len(s)
  PROVE  BytesOf(s)[i] \in Seq(Byte) /\ CommandsOf(s)[i] \in Seq(Command)
<1> DEFINE B == BytesOf(s)
           C == CommandsOf(s)
           Bad == {k \in 0 .. Len(s) : ~(B[k] \in Seq(Byte) /\ C[k] \in Seq(Command))}
<1> SUFFICES ASSUME Bad # {} PROVE FALSE
  OBVIOUS
<1>1. Len(s) \in Nat /\ Bad \subseteq Nat
  OBVIOUS
<1>2. PICK k \in Bad : \A j \in Bad : k <= j
  BY <1>1, LeastNat
<1>3. CASE k = 0
  <2>1. B[0] = <<>> /\ C[0] = <<>>
    BY ScriptUnfolds
  <2>2. <<>> \in Seq(Byte) /\ <<>> \in Seq(Command)
    BY ShortSeqs
  <2> HIDE DEF B, C
  <2> QED
    BY <1>2, <1>3, <2>1, <2>2
<1>4. CASE k # 0
  <2>1. k \in 1 .. Len(s) /\ k - 1 \in 0 .. Len(s) /\ ~(k <= k - 1)
    BY <1>1, <1>2, <1>4
  <2>2. B[k] = B[k - 1] \o s[k].bytes /\ C[k] = C[k - 1] \o s[k].commands
    BY <2>1, ScriptUnfolds
  <2>3. s[k].bytes \in Seq(Byte) /\ s[k].commands \in Seq(Command)
    <3>1. s[k] \in Pieces
      BY <2>1
    <3> QED
      BY <3>1 DEF Pieces, Command
  <2> HIDE DEF B, C
  <2>4. B[k - 1] \in Seq(Byte) /\ C[k - 1] \in Seq(Command)
    BY <1>2, <2>1
  <2>5. B[k] \in Seq(Byte)
    BY <2>2, <2>3, <2>4, ConcatProperties
  <2>6. C[k] \in Seq(Command)
    BY <2>2, <2>3, <2>4, ConcatProperties
  <2> QED
    BY <1>2, <2>5, <2>6
<1> QED
  BY <1>3, <1>4
-----------------------------------------------------------------------------
(* Commands handed out by three calls.                                     *)
LEMMA CommandsAssociate ==
  \A x, y, z \in Seq(Command) : (x \o y) \o z = x \o (y \o z)
  BY SMTT(60)

(* The inductive invariant: at any time what has been handed out, with     *)
(* what the bytes in the buffer still hold, is what all bytes taken hold.  *)
ChannelInv ==
  /\ ChannelTypeOK
  /\ phase # "outside" => rc = 0
  /\ rc = 0 =>
       /\ delivered \o Scan[rxBuf].commands = Scan[Taken].commands
       /\ Scan[rxBuf].rest = Scan[Taken].rest
  /\ phase = "outside" /\ rc = 0 => Scan[rxBuf] = Ended(Leaves(rxBuf))

(* All LongLook may write is bytes.                                        *)
LEMMA StreamType ==
  ASSUME ChannelAssumption, script \in Scripts
  PROVE  script \in Seq(Pieces) /\ Stream \in Seq(Byte) /\ Len(Stream) \in Nat
<1>1. script \in Seq(Pieces)
  BY DEF ChannelAssumption
<1>2. Len(script) \in Nat /\ Len(script) \in 0 .. Len(script)
  BY <1>1
<1>3. Stream \in Seq(Byte)
  BY <1>1, <1>2, ScriptType DEF Stream
<1> QED
  BY <1>1, <1>3

(* A new connection satisfies the inductive invariant ...                  *)
LEMMA ChannelStart ==
  ASSUME ChannelAssumption, ChannelInit
  PROVE  ChannelInv
<1> USE DEF ChannelInit
<1>1. Stream \in Seq(Byte) /\ Len(Stream) \in Nat
  BY StreamType
<1>2. <<>> \in Seq(Byte) /\ <<>> \in Seq(Command)
  BY ShortSeqs
<1>3. ChannelTypeOK
  BY <1>1, <1>2 DEF ChannelTypeOK, Command
<1>4. Taken = <<>>
  BY <1>1, SubSeqEmpty DEF Taken
<1>5. Scan[<<>>] = Ended(Leaves(<<>>))
  BY ScanOfNothing DEF Ended, Leaves
<1>6. <<>> \o Scan[<<>>].commands = Scan[<<>>].commands
  BY <1>2, ScanOfNothing, ConcatEmptySeq
<1> QED
  BY <1>3, <1>4, <1>5, <1>6 DEF ChannelInv

(* ... and every step keeps it: what recv() appends to the buffer, it      *)
(* appends to the bytes taken (ScanOfConcat), and what a call keeps is     *)
(* kept again (ScanOfRest).                                                *)
LEMMA ChannelStep ==
  ASSUME ChannelAssumption, ChannelInv, [ChannelNext]_chanVars
  PROVE  ChannelInv'
<1> USE DEF ChannelInv, ChannelTypeOK
<1>1. script \in Seq(Pieces) /\ Stream \in Seq(Byte) /\ Len(Stream) \in Nat
  BY StreamType
<1>2. CASE Arrive \/ PeerCloses \/ PeerLost \/ CallPoll \/ RecvEmpty \/ RecvEnd
  <2>1. UNCHANGED <<script, taken, rxBuf, delivered>>
    BY <1>2 DEF Arrive, PeerCloses, PeerLost, CallPoll, RecvEmpty, RecvEnd
  <2>2. Stream' = Stream /\ Taken' = Taken
    BY <2>1 DEF Stream, Taken
  <2>3. ChannelTypeOK'
    BY <1>1, <1>2, <2>1, <2>2 DEF Arrive, PeerCloses, PeerLost, CallPoll, RecvEmpty, RecvEnd
  <2>4. /\ (phase # "outside" => rc = 0)'
        /\ rc' = 0 => rc = 0
        /\ phase' = "outside" /\ rc' = 0 => phase = "outside"
    BY <1>2 DEF Arrive, PeerCloses, PeerLost, CallPoll, RecvEmpty, RecvEnd
  <2> QED
    BY <2>1, <2>2, <2>3, <2>4
<1>3. CASE RecvData
  <2> DEFINE more == SubSeq(Stream, taken + 1, taken')
  <2>1. /\ phase = "recv" /\ rc = 0 /\ phase' = phase /\ rc' = rc
        /\ UNCHANGED <<script, arrived, peer, delivered>>
        /\ rxBuf' = rxBuf \o more
    BY <1>3 DEF RecvData
  <2>2. taken \in 0 .. Len(Stream) /\ taken' \in taken .. arrived /\ taken' \in taken .. Len(Stream)
    BY <1>1, <1>3 DEF RecvData, ChannelAssumption
  <2>3. Stream' = Stream
    BY <2>1 DEF Stream
  <2>4. Taken \in Seq(Byte) /\ more \in Seq(Byte) /\ Taken' = Taken \o more
    BY <1>1, <2>2, <2>3, BeginningGrows DEF Taken
  <2> HIDE DEF more
  <2>5. rxBuf' \in Seq(Byte)
    BY <2>1, <2>4, ConcatProperties
  <2>6. ChannelTypeOK'
    BY <1>1, <2>1, <2>2, <2>3, <2>5
  <2> DEFINE t == Scan[Taken]
             b == Scan[rxBuf]
             w == Scan[t.rest \o more]
  <2>7. Scan[Taken'] = Joined(t, w)
    BY <2>4, ScanOfConcat
  <2>8. b.rest = t.rest
    BY <2>1
  <2>9. Scan[rxBuf'] = Joined(b, w)
    BY <2>1, <2>4, <2>8, ScanOfConcat
  <2>10. delivered \o b.commands = t.commands
    BY <2>1
  <2>11. t.rest \in Seq(Byte) /\ t.commands \in Seq(Command) /\ b.commands \in Seq(Command)
    BY <2>4, ScanType DEF Found
  <2>12. t.rest \o more \in Seq(Byte)
    BY <2>4, <2>11, ConcatProperties
  <2>13. w.commands \in Seq(Command) /\ delivered \in Seq(Command)
    BY <2>12, ScanType DEF Found, Command
  <2> HIDE DEF t, b, w
  <2>14. delivered \o (b.commands \o w.commands) = t.commands \o w.commands
    <3>1. (delivered \o b.commands) \o w.commands = delivered \o (b.commands \o w.commands)
      BY <2>11, <2>13, CommandsAssociate, Zenon
    <3> QED
      BY <2>10, <3>1
  <2> DEFINE tn == Scan[Taken']
             bn == Scan[rxBuf']
  <2>15. tn = Joined(t, w) /\ bn = Joined(b, w)
    BY <2>7, <2>9
  <2> HIDE DEF tn, bn
  <2>16. delivered \o bn.commands = tn.commands /\ bn.rest = tn.rest
    BY <2>14, <2>15 DEF Joined
  <2>17. /\ (delivered \o Scan[rxBuf].commands = Scan[Taken].commands)'
         /\ (Scan[rxBuf].rest = Scan[Taken].rest)'
    BY <2>1, <2>16 DEF tn, bn
  <2> QED
    BY <2>1, <2>6, <2>17
<1>4. CASE Parse
  <2> DEFINE b == Scan[rxBuf]
             t == Scan[Taken]
  <2>1. /\ phase = "parse" /\ rc = 0 /\ phase' = "outside" /\ rc' = 0
        /\ delivered' = delivered \o b.commands /\ rxBuf' = b.rest
        /\ UNCHANGED <<script, arrived, taken, peer>>
    BY <1>4 DEF Parse
  <2>2. Stream' = Stream /\ Taken' = Taken
    BY <2>1 DEF Stream, Taken
  <2>3. delivered \o b.commands = t.commands /\ b.rest = t.rest
    BY <2>1
  <2>4. b.commands \in Seq(Command) /\ b.rest \in Seq(Byte) /\ delivered \in Seq(Command)
    BY ScanType DEF Found, Command
  <2>5. Scan[b.rest] = [frames |-> <<>>, commands |-> <<>>, rest |-> b.rest]
    BY ScanOfRest, Zenon
  <2> HIDE DEF b, t
  <2>6. delivered' \in Seq(Command)
    BY <2>1, <2>4, ConcatProperties
  <2>7. ChannelTypeOK'
    BY <2>1, <2>2, <2>4, <2>6 DEF Command
  <2>8. Scan[rxBuf'] = [frames |-> <<>>, commands |-> <<>>, rest |-> rxBuf']
    BY <2>1, <2>5
  <2>9. delivered' \o <<>> = delivered'
    BY <2>6, ConcatEmptySeq
  <2>10. /\ (delivered \o Scan[rxBuf].commands = Scan[Taken].commands)'
         /\ (Scan[rxBuf].rest = Scan[Taken].rest)'
    <3> DEFINE bn == Scan[rxBuf']
    <3>1. bn = [frames |-> <<>>, commands |-> <<>>, rest |-> rxBuf']
      BY <2>8
    <3> HIDE DEF bn
    <3>2. delivered' \o bn.commands = t.commands /\ bn.rest = t.rest
      BY <2>1, <2>3, <2>9, <3>1
    <3>3. t = Scan[Taken']
      BY <2>2 DEF t
    <3> QED
      BY <3>2, <3>3 DEF bn
  <2>11. (Scan[rxBuf] = Ended(Leaves(rxBuf)))'
    BY <2>8 DEF Ended, Leaves
  <2> QED
    BY <2>1, <2>7, <2>10, <2>11
<1>5. CASE UNCHANGED chanVars
  BY <1>5 DEF chanVars, Taken, Stream
<1> QED
  BY <1>2, <1>3, <1>4, <1>5 DEF ChannelNext, Poll

(* What is handed out never depends on how the bytes were cut.             *)
THEOREM ChannelInvariance == ChannelSpec => []ChannelInv
<1>1. ChannelInit => ChannelInv
  BY ChannelStart, ChannelAssumption
<1>2. ChannelInv /\ [ChannelNext]_chanVars => ChannelInv'
  BY ChannelStep, ChannelAssumption
<1> QED
  BY <1>1, <1>2, PTL DEF ChannelSpec
-----------------------------------------------------------------------------
(* Outside a call nothing is left in the buffer that could be handed out.  *)
LEMMA BetweenCalls ==
  ASSUME ChannelAssumption, ChannelInv, phase = "outside", rc = 0
  PROVE  /\ delivered = Scan[Taken].commands /\ rxBuf = Scan[Taken].rest
         /\ Taken \in Seq(Byte) /\ rxBuf \in Seq(Byte) /\ ScanTurn(rxBuf).bytes = 0
<1> USE DEF ChannelInv, ChannelTypeOK
<1>1. script \in Seq(Pieces) /\ Stream \in Seq(Byte) /\ Len(Stream) \in Nat
  BY StreamType
<1>2. taken \in 0 .. Len(Stream)
  BY <1>1
<1>3. Taken \in Seq(Byte)
  <2>1. Len(Stream) \in taken .. Len(Stream)
    BY <1>1, <1>2
  <2> QED
    BY <1>1, <1>2, <2>1, BeginningGrows DEF Taken
<1> DEFINE b == Scan[rxBuf]
           t == Scan[Taken]
<1>4. b = [frames |-> <<>>, commands |-> <<>>, rest |-> rxBuf]
  BY DEF Ended, Leaves
<1>5. delivered \o b.commands = t.commands /\ b.rest = t.rest
  OBVIOUS
<1>6. ScanTurn(t.rest).bytes = 0
  BY <1>3, ScanType
<1>7. delivered \o <<>> = delivered
  BY ConcatEmptySeq
<1> HIDE DEF b, t
<1>8. delivered = t.commands /\ rxBuf = t.rest
  BY <1>4, <1>5, <1>7
<1> QED
  BY <1>3, <1>6, <1>8 DEF t

(* For every script and every way it is cut, the calls together deliver    *)
(* what one call over all the bytes would have delivered.                  *)
THEOREM CutsDoNotMatter == ChannelSpec => []ChunkingIrrelevant
<1>1. ChannelInv => ChunkingIrrelevant
  BY BetweenCalls, ChannelAssumption DEF ChunkingIrrelevant
<1> QED
  BY <1>1, ChannelInvariance, PTL

(* The buffer of a connection holds the beginning of one acceptable frame, *)
(* whatever comes in, so it never grows beyond one header and              *)
(* LL_MAX_PAYLOAD.                                                         *)
THEOREM BufferHoldsOneFrame == ChannelSpec => []LeftoverIsOneFrameStart
<1>1. ASSUME ChannelInv PROVE LeftoverIsOneFrameStart
  <2> SUFFICES ASSUME phase = "outside", rc = 0, Len(rxBuf) >= LL_HEADER_SIZE
               PROVE  /\ rxBuf[1] = LL_SOF
                      /\ LenOf(rxBuf) <= LL_MAX_PAYLOAD
                      /\ Len(rxBuf) < LL_HEADER_SIZE + LenOf(rxBuf)
    BY DEF LeftoverIsOneFrameStart
  <2>1. rxBuf \in Seq(Byte) /\ ScanTurn(rxBuf).bytes = 0
    BY <1>1, BetweenCalls, ChannelAssumption
  <2>2. LenOf(rxBuf) \in Nat /\ Need(rxBuf) >= 6 /\ Len(rxBuf) \in Nat
        /\ (TooLong(rxBuf) <=> LenOf(rxBuf) > LL_MAX_PAYLOAD)
    BY <2>1, HeaderIsThere
  <2>3. ScanTurn(rxBuf) # Drops(Resync)
    BY <2>1 DEF Drops, Resync
  <2>4. ScanTurn(rxBuf) # Consumes(0, rxBuf)
    BY <2>1, <2>2 DEF Consumes, Need, LL_HEADER_SIZE
  <2>5. rxBuf[1] = LL_SOF /\ ~TooLong(rxBuf) /\ Len(rxBuf) < Need(rxBuf)
    BY <2>1, <2>2, <2>3, <2>4, ScanTurnCases DEF LL_HEADER_SIZE
  <2> QED
    BY <2>2, <2>5, SMT DEF Need, LL_MAX_PAYLOAD
<1> QED
  BY <1>1, ChannelInvariance, PTL

(* The parser of the program and that of LongLook read every stream alike. *)
THEOREM BothParsersAgree == ChannelSpec => []ParsersAgree
<1>1. ASSUME ChannelInv PROVE ParsersAgree
  <2> SUFFICES ASSUME phase = "outside", rc = 0
               PROVE  /\ Scan[Taken].frames = ParseStream[Taken].frames
                      /\ ParseStream[rxBuf].rest = ParseStream[Taken].rest
    BY DEF ParsersAgree
  <2>1. Taken \in Seq(Byte) /\ rxBuf = Scan[Taken].rest
    BY <1>1, BetweenCalls, ChannelAssumption
  <2> QED
    BY <2>1, ParsersFindTheSame
<1> QED
  BY <1>1, ChannelInvariance, PTL
-----------------------------------------------------------------------------
(* The bytes of some pieces begin with those of the pieces before them.    *)
LEMMA BytesExtend ==
  ASSUME NEW s \in Seq(Pieces), NEW i \in 0 .. Len(s)
  PROVE  \A j \in i .. Len(s) : \E t \in Seq(Byte) : BytesOf(s)[j] = BytesOf(s)[i] \o t
<1> DEFINE B == BytesOf(s)
           Bad == {j \in i .. Len(s) : ~\E t \in Seq(Byte) : B[j] = B[i] \o t}
<1> SUFFICES ASSUME Bad # {} PROVE FALSE
  OBVIOUS
<1>1. Len(s) \in Nat /\ i \in Nat /\ Bad \subseteq Nat
  OBVIOUS
<1>2. PICK j \in Bad : \A k \in Bad : j <= k
  BY <1>1, LeastNat
<1>3. j \in i .. Len(s) /\ ~\E t \in Seq(Byte) : B[j] = B[i] \o t
  OBVIOUS
<1>4. B[i] \in Seq(Byte)
  BY ScriptType
<1>5. CASE j = i
  <2>1. B[i] \o <<>> = B[i] /\ <<>> \in Seq(Byte)
    BY <1>4, ConcatEmptySeq, ShortSeqs
  <2> QED
    BY <1>3, <1>5, <2>1
<1>6. CASE j # i
  <2>1. j - 1 \in i .. Len(s) /\ j \in 1 .. Len(s) /\ ~(j <= j - 1)
    BY <1>1, <1>3, <1>6
  <2>2. j - 1 \notin Bad
    BY <1>2, <2>1, Zenon
  <2>3. PICK t \in Seq(Byte) : B[j - 1] = B[i] \o t
    BY <2>1, <2>2
  <2>4. s[j] \in Pieces
    BY <2>1
  <2>5. s[j].bytes \in Seq(Byte)
    BY <2>4 DEF Pieces
  <2>6. B[j] = B[j - 1] \o s[j].bytes
    BY <2>1, ScriptUnfolds
  <2> DEFINE p == s[j].bytes
  <2> HIDE DEF B, Bad, p
  <2>7. B[j] = (B[i] \o t) \o p
    BY <2>3, <2>6 DEF p
  <2>8. t \o p \in Seq(Byte) /\ (B[i] \o t) \o p = B[i] \o (t \o p)
    <3>1. \A x, y, z \in Seq(Byte) : (x \o y) \o z = x \o (y \o z)
      BY SMTT(60)
    <3>2. \A x, y \in Seq(Byte) : x \o y \in Seq(Byte)
      BY ConcatProperties
    <3> QED
      BY <1>4, <2>5, <3>1, <3>2, Zenon DEF p
  <2> QED
    BY <1>3, <2>7, <2>8, Zenon
<1> QED
  BY <1>5, <1>6

(* A piece that is not noise is a frame that is taken when it is there.    *)
LEMMA PieceIsFound ==
  ASSUME ChannelAssumption, NEW s \in Scripts, NEW i \in 1 .. Len(s), ~s[i].noise
  PROVE  /\ s[i].bytes \in Seq(Byte) /\ s[i].commands \in Seq(Command)
         /\ Scan[s[i].bytes].commands = s[i].commands /\ Scan[s[i].bytes].rest = <<>>
         /\ \A k \in 0 .. Len(s[i].bytes) - 1 : Scan[SubSeq(s[i].bytes, 1, k)].commands = <<>>
<1>1. s \in Seq(Pieces) /\ i \in DOMAIN s
  BY DEF ChannelAssumption
<1>2. s[i] \in Pieces
  BY <1>1
<1> DEFINE b == s[i].bytes
           p == Past(b, LL_HEADER_SIZE)
<1>3. b \in Seq(Byte) /\ s[i].commands \in Seq(Command)
  BY <1>2 DEF Pieces, Command
<1>4. PICK type \in Byte : Len(p) <= LL_MAX_PAYLOAD /\ s[i] = FramePiece(type, p)
  BY <1>1 DEF ChannelAssumption
<1>5. p \in Seq(Byte)
  <2>1. Len(b) \in Nat /\ \A k \in LL_HEADER_SIZE + 1 .. Len(b) : b[k] \in Byte
    BY <1>3 DEF LL_HEADER_SIZE
  <2> HIDE DEF b
  <2> QED
    BY <2>1, SubSeqProperties DEF Past, LL_HEADER_SIZE
<1> DEFINE frame == [type |-> type, payload |-> p]
<1>6. b = BuildFrame(type, p) /\ s[i].commands = CommandOf(frame)
  <2>1. /\ FramePiece(type, p).bytes = BuildFrame(type, p)
        /\ FramePiece(type, p).commands = CommandOf(frame)
    <3> HIDE DEF p
    <3> QED BY DEF FramePiece
  <2> QED
    BY <1>4, <2>1
<1> HIDE DEF b, p, frame
<1>7. /\ Scan[b] = [frames |-> <<frame>>, commands |-> CommandOf(frame), rest |-> <<>>]
      /\ \A k \in 0 .. Len(b) - 1 :
           Scan[SubSeq(b, 1, k)] = [frames |-> <<>>, commands |-> <<>>, rest |-> SubSeq(b, 1, k)]
  BY <1>4, <1>5, <1>6, FrameRoundTrip, Zenon DEF frame
<1>8. Scan[b].commands = s[i].commands /\ Scan[b].rest = <<>>
  BY <1>6, <1>7
<1>9. \A k \in 0 .. Len(b) - 1 : Scan[SubSeq(b, 1, k)].commands = <<>>
  <2>1. TAKE k \in 0 .. Len(b) - 1
  <2> DEFINE part == SubSeq(b, 1, k)
  <2>2. Scan[part] = [frames |-> <<>>, commands |-> <<>>, rest |-> part]
    BY <1>7
  <2> HIDE DEF part
  <2>3. Scan[part].commands = <<>>
    BY <2>2
  <2> QED
    BY <2>3 DEF part
<1> QED
  BY <1>3, <1>8, <1>9 DEF b

(* All pieces up to one are found, and nothing is left of them.            *)
LEMMA PiecesAreFound ==
  ASSUME ChannelAssumption, NEW s \in Scripts, \A i \in DOMAIN s : ~s[i].noise
  PROVE  \A i \in 0 .. Len(s) :
           Scan[BytesOf(s)[i]].commands = CommandsOf(s)[i] /\ Scan[BytesOf(s)[i]].rest = <<>>
<1> DEFINE B == BytesOf(s)
           C == CommandsOf(s)
           Good(i) == Scan[B[i]].commands = C[i] /\ Scan[B[i]].rest = <<>>
           Bad == {i \in 0 .. Len(s) : ~Good(i)}
<1> SUFFICES ASSUME Bad # {} PROVE FALSE
  OBVIOUS
<1>1. s \in Seq(Pieces)
  BY DEF ChannelAssumption
<1>2. Len(s) \in Nat /\ Bad \subseteq Nat
  BY <1>1
<1>3. PICK i \in Bad : \A k \in Bad : i <= k
  BY <1>2, LeastNat
<1>4. i \in 0 .. Len(s) /\ ~Good(i)
  OBVIOUS
<1>5. CASE i = 0
  <2>1. B[0] = <<>> /\ C[0] = <<>>
    BY <1>1, ScriptUnfolds
  <2>2. Good(0)
    BY <2>1, ScanOfNothing
  <2> QED
    BY <1>4, <1>5, <2>2
<1>6. CASE i # 0
  <2>1. i - 1 \in 0 .. Len(s) /\ i \in 1 .. Len(s) /\ ~(i <= i - 1) /\ i \in DOMAIN s
    BY <1>1, <1>2, <1>4, <1>6
  <2>2. i - 1 \notin Bad
    BY <1>3, <2>1, Zenon
  <2>3. Good(i - 1)
    BY <2>1, <2>2
  <2>4. B[i] = B[i - 1] \o s[i].bytes /\ C[i] = C[i - 1] \o s[i].commands
    BY <1>1, <2>1, ScriptUnfolds
  <2>5. B[i - 1] \in Seq(Byte)
    BY <1>1, <2>1, ScriptType
  <2>6. /\ s[i].bytes \in Seq(Byte)
        /\ Scan[s[i].bytes].commands = s[i].commands /\ Scan[s[i].bytes].rest = <<>>
    BY <2>1, PieceIsFound
  <2>7. Scan[B[i]] = Joined(Scan[B[i - 1]], Scan[Scan[B[i - 1]].rest \o s[i].bytes])
    BY <2>4, <2>5, <2>6, ScanOfConcat
  <2> DEFINE b == s[i].bytes
             x == Scan[B[i - 1]]
             y == Scan[b]
             z == Scan[B[i]]
  <2>8. <<>> \o b = b
    BY <2>6, ConcatEmptySeq
  <2>9. z = Joined(x, y)
    BY <2>3, <2>7, <2>8
  <2>10. x.commands = C[i - 1] /\ y.commands = s[i].commands /\ y.rest = <<>>
    BY <2>3, <2>6
  <2> HIDE DEF B, C, b, x, y, z
  <2>11. z.commands = C[i] /\ z.rest = <<>>
    BY <2>4, <2>9, <2>10 DEF Joined
  <2> QED
    BY <1>4, <2>11 DEF z
<1> QED
  BY <1>5, <1>6

(* In the first n bytes of a clean script are the commands of the pieces   *)
(* that are there in full.                                                 *)
LEMMA FoundInBeginning ==
  ASSUME ChannelAssumption, NEW s \in Scripts, \A i \in DOMAIN s : ~s[i].noise,
         NEW n \in 0 .. Len(BytesOf(s)[Len(s)]), NEW last \in 0 .. Len(s),
         Len(BytesOf(s)[last]) <= n, last < Len(s) => ~(Len(BytesOf(s)[last + 1]) <= n)
  PROVE  Scan[SubSeq(BytesOf(s)[Len(s)], 1, n)].commands = CommandsOf(s)[last]
<1> DEFINE B == BytesOf(s)
           C == CommandsOf(s)
           all == B[Len(s)]
           a   == B[last]
<1>1. s \in Seq(Pieces) /\ Len(s) \in Nat /\ Len(s) \in 0 .. Len(s)
  BY DEF ChannelAssumption
<1>2. /\ all \in Seq(Byte) /\ Len(all) \in Nat
      /\ a \in Seq(Byte) /\ Len(a) \in Nat /\ C[last] \in Seq(Command)
  BY <1>1, ScriptType
<1>3. Scan[a].commands = C[last] /\ Scan[a].rest = <<>>
  BY PiecesAreFound
<1>4. CASE last = Len(s)
  <2>1. n = Len(all) /\ all = a
    BY <1>1, <1>2, <1>4
  <2>2. SubSeq(all, 1, n) = a
    BY <1>2, <2>1, SubSeqFull
  <2> QED
    BY <1>3, <2>2
<1>5. CASE last # Len(s)
  <2> DEFINE next == last + 1
             p == s[next].bytes
             k == n - Len(a)
             q == SubSeq(p, 1, k)
  <2>1. /\ next \in 1 .. Len(s) /\ next \in 0 .. Len(s) /\ next - 1 = last /\ next \in DOMAIN s
        /\ Len(s) \in next .. Len(s)
    BY <1>1, <1>5
  <2>2. B[next] = a \o p
    BY <1>1, <2>1, ScriptUnfolds
  <2>3. p \in Seq(Byte) /\ \A i \in 0 .. Len(p) - 1 : Scan[SubSeq(p, 1, i)].commands = <<>>
    BY <2>1, PieceIsFound
  <2>4. B[next] \in Seq(Byte)
    BY <1>1, <2>1, ScriptType
  <2>5. PICK t \in Seq(Byte) : all = B[next] \o t
    BY <1>1, <2>1, BytesExtend
  <2>6. Len(B[next]) = Len(a) + Len(p) /\ Len(p) \in Nat
    BY <1>2, <2>2, <2>3, ConcatProperties
  <2>7. n \in Nat /\ Len(a) <= n /\ n < Len(B[next])
    <3>1. last < Len(s)
      BY <1>1, <1>5
    <3>2. ~(Len(B[next]) <= n)
      BY <3>1
    <3>3. Len(B[next]) \in Nat
      BY <2>4
    <3>4. n \in Nat
      OBVIOUS
    <3> QED
      BY <3>2, <3>3, <3>4
  <2> HIDE DEF next, p
  <2>8. SubSeq(all, 1, n) = SubSeq(B[next], 1, n)
    <3>1. 1 \in Nat \ {0} /\ n \in 0 .. Len(B[next])
      BY <1>2, <2>6, <2>7
    <3> DEFINE b == B[next]
    <3>2. b \in Seq(Byte) /\ t \in Seq(Byte) /\ n \in 0 .. Len(b) /\ all = b \o t
      BY <2>4, <2>5, <3>1
    <3> HIDE DEF B, all, b
    <3>3. SubSeq(b \o t, 1, n) = SubSeq(b, 1, n)
      BY <3>1, <3>2, SubSeqOfBeginning, Zenon
    <3> QED
      BY <3>2, <3>3 DEF b
  <2>9. SubSeq(B[next], 1, n) = a \o q
    <3>1. n \in Len(a) .. Len(a) + Len(p)
      BY <1>2, <2>6, <2>7
    <3> HIDE DEF B, a
    <3> QED
      BY <1>2, <2>2, <2>3, <3>1, BeginningOfConcat, Zenon
  <2>10. k \in 0 .. Len(p) - 1 /\ k \in 0 .. Len(p)
    BY <1>2, <2>6, <2>7
  <2>11. q \in Seq(Byte)
    <3> HIDE DEF k
    <3>1. Len(p) \in k .. Len(p)
      BY <2>6, <2>10
    <3> QED
      BY <2>3, <2>10, <3>1, BeginningGrows
  <2>12. Scan[q].commands = <<>>
    BY <2>3, <2>10
  <2>13. <<>> \o q = q
    BY <2>11, ConcatEmptySeq
  <2>14. C[last] \o <<>> = C[last]
    BY <1>2, ConcatEmptySeq
  <2> DEFINE x == Scan[a]
             y == Scan[q]
             z == Scan[a \o q]
  <2>15. z = Joined(x, Scan[x.rest \o q])
    BY <1>2, <2>11, ScanOfConcat
  <2>16. x.commands = C[last] /\ x.rest = <<>> /\ y.commands = <<>>
    BY <1>3, <2>12
  <2>17. Scan[x.rest \o q] = y
    BY <2>13, <2>16
  <2> HIDE DEF B, C, a, all, q, x, y, z
  <2>18. z.commands = C[last]
    BY <2>14, <2>15, <2>16, <2>17 DEF Joined
  <2>19. SubSeq(all, 1, n) = a \o q
    BY <2>8, <2>9
  <2> QED
    BY <2>18, <2>19 DEF z, C, B, all
<1> QED
  BY <1>4, <1>5

(* Without noise on the line every command of every script LongLook may    *)
(* write is delivered once it was received in full, in order, and nothing  *)
(* else is.                                                                *)
THEOREM EveryCommandArrives == ChannelSpec => []CleanStreamLossless
<1>1. ASSUME ChannelInv PROVE CleanStreamLossless
  <2> SUFFICES ASSUME Clean, phase = "outside", rc = 0 PROVE delivered = CommandsWritten
    BY DEF CleanStreamLossless
  <2> DEFINE Whole(i) == Len(BytesOf(script)[i]) <= taken
             Last(i)  == Whole(i) /\ (i < Len(script) => ~Whole(i + 1))
             last     == CHOOSE i \in 0 .. Len(script) : Last(i)
  <2>1. /\ script \in Scripts /\ script \in Seq(Pieces) /\ Len(script) \in Nat
        /\ Stream \in Seq(Byte) /\ Len(Stream) \in Nat /\ taken \in 0 .. Len(Stream)
    <3>1. script \in Scripts /\ arrived \in 0 .. Len(Stream) /\ taken \in 0 .. arrived
      BY <1>1 DEF ChannelInv, ChannelTypeOK
    <3>2. script \in Seq(Pieces) /\ Stream \in Seq(Byte) /\ Len(Stream) \in Nat
      BY <3>1, StreamType, ChannelAssumption
    <3> QED
      BY <3>1, <3>2
  <2>2. \E i \in 0 .. Len(script) : Last(i)
    <3> DEFINE Ends == {i \in 0 .. Len(script) : i < Len(script) => ~Whole(i + 1)}
    <3>1. Len(script) \in Ends /\ Ends \subseteq Nat
      BY <2>1
    <3>2. PICK i \in Ends : \A k \in Ends : i <= k
      BY <3>1, LeastNat
    <3>3. Whole(i)
      <4>1. CASE i = 0
        <5>1. BytesOf(script)[0] = <<>>
          BY <2>1, ScriptUnfolds
        <5> QED
          BY <2>1, <4>1, <5>1
      <4>2. CASE i # 0
        <5>1. i - 1 \in 0 .. Len(script) /\ i - 1 < Len(script) /\ ~(i <= i - 1) /\ (i - 1) + 1 = i
          BY <2>1, <4>2
        <5>2. i - 1 \notin Ends
          BY <3>2, <5>1, Zenon
        <5>3. Whole((i - 1) + 1)
          <6> HIDE DEF Whole
          <6> QED BY <5>1, <5>2
        <5> QED
          BY <5>1, <5>3
      <4> QED
        BY <4>1, <4>2
    <3> QED
      BY <3>2, <3>3
  <2>3. last \in 0 .. Len(script) /\ Last(last)
    <3> HIDE DEF Last
    <3> QED BY <2>2
  <2>4. CommandsWritten = CommandsOf(script)[last]
    BY DEF CommandsWritten
  <2> HIDE DEF last
  <2>5. Scan[Taken].commands = CommandsOf(script)[last]
    BY <2>1, <2>3, FoundInBeginning, ChannelAssumption DEF Clean, Taken, Stream
  <2>6. delivered = Scan[Taken].commands
    BY <1>1, BetweenCalls, ChannelAssumption
  <2> QED
    BY <2>4, <2>5, <2>6
<1> QED
  BY <1>1, ChannelInvariance, PTL
=============================================================================

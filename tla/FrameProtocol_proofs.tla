------------------------ MODULE FrameProtocol_proofs -------------------------
(***************************************************************************)
(* Facts about frames and the two parsers that hold for every length,      *)
(* every header and all bytes, and so cannot be checked by trying them.    *)
(* The parsers are loops over a buffer: what is said of them is proved by  *)
(* taking, of the buffers it fails for, a shortest one (Shortest).         *)
(***************************************************************************)
EXTENDS FrameProtocol, SequenceTheorems, WellFoundedInduction, TLAPS

UInt32  == {n \in Nat : n < 4294967296}
Headers == [1 .. LL_HEADER_SIZE -> Byte]

(* Euclid's division by the three powers of 256 that occur.                *)
LEMMA Divide ==
  ASSUME NEW n \in Nat
  PROVE  /\ n = 256 * (n \div 256) + (n % 256)
         /\ n \div 65536 = (n \div 256) \div 256
         /\ n \div 16777216 = (n \div 65536) \div 256
         /\ n \div 256 \in Nat /\ n \div 65536 \in Nat /\ n \div 16777216 \in Nat
         /\ n % 256 \in Byte
  BY SMT DEF Byte

(* A number below 2^32 is the sum of its four bytes.                       *)
LEMMA ByteSum ==
  ASSUME NEW n \in UInt32
  PROVE  n = (n % 256) + 256 * ((n \div 256) % 256) + 65536 * ((n \div 65536) % 256)
             + 16777216 * ((n \div 16777216) % 256)
<1> DEFINE q1 == n \div 256
           q2 == n \div 65536
           q3 == n \div 16777216
<1>1. n \in Nat /\ q1 \in Nat /\ q2 \in Nat /\ q3 \in Nat
  BY Divide, SMT DEF UInt32
<1>2. n = 256 * q1 + (n % 256) /\ q1 = 256 * q2 + (q1 % 256) /\ q2 = 256 * q3 + (q2 % 256)
  BY <1>1, Divide, SMT
<1>3. q3 <= 255
  BY SMT DEF UInt32
<1>4. q3 % 256 = q3
  BY <1>1, <1>3, SMT
<1> QED
  BY <1>1, <1>2, <1>4, SMT

(* The four bytes of LEN that buildHeader writes give back, in any of the  *)
(* parsers, the length it was called with.                                 *)
THEOREM HeaderRoundTrip ==
  ASSUME NEW type \in Byte, NEW n \in UInt32
  PROVE  /\ BuildHeader(type, n)[1] = LL_SOF
         /\ BuildHeader(type, n)[2] = type
         /\ LenOf(BuildHeader(type, n)) = n
<1>1. BuildHeader(type, n)[1] = LL_SOF /\ BuildHeader(type, n)[2] = type
  BY SMT DEF BuildHeader
<1>2. LenOf(BuildHeader(type, n)) = n
  BY ByteSum, SMT DEF BuildHeader, LenOf
<1> QED
  BY <1>1, <1>2

(* Looking at the highest byte first does not change the comparison of LEN *)
(* with LL_MAX_PAYLOAD.                                                    *)
THEOREM TooLongIsComparison ==
  ASSUME NEW h \in Headers
  PROVE  TooLong(h) <=> LenOf(h) > LL_MAX_PAYLOAD
<1>1. h[3] \in Byte /\ h[4] \in Byte /\ h[5] \in Byte /\ h[6] \in Byte
  BY SMT DEF Headers, LL_HEADER_SIZE
<1>2. \A i \in 3 .. 6 : h[i] \in Int /\ 0 <= h[i] /\ h[i] <= 255
  BY <1>1, SMT DEF Byte
<1>3. h[6] > 1 => LenOf(h) > LL_MAX_PAYLOAD
  BY <1>2, SMT DEF LenOf, LL_MAX_PAYLOAD
<1> QED
  BY <1>2, <1>3, SMT DEF TooLong, LenOf, LL_MAX_PAYLOAD

(* The values a SensorData can hold: 16 and 32 bits, with or without sign. *)
Int16 == -32768 .. 65535
Int32 == {n \in Int : -2147483648 <= n /\ n < 4294967296}
SensorReadings ==
  [timestamp_ms : Int32, temperature_01c : Int16, humidity_01 : Int16, gas_ppm : Int16,
   pressure_pa : Int32, distance_cm : Int16, encoder1 : Int32, encoder2 : Int32,
   speed_L : Int16, speed_R : Int16, servo_us : Int16, voltage_mV : Int16, mode : Byte,
   fault : Byte, risk_level : Byte, flags : Byte, fan : Byte, buzzer : Byte,
   relay : Byte, led : Byte]

(* struct.unpack_from with "<H" and "<I": what a reader finds at an offset. *)
U16(p, offset) == p[offset + 1] + 256 * p[offset + 2]
U32(p, offset) == p[offset + 1] + 256 * p[offset + 2] + 65536 * p[offset + 3]
                    + 16777216 * p[offset + 4]

(* Euclid's division by 256 and 65536, for negative numbers too.           *)
LEMMA DivideInt ==
  ASSUME NEW n \in Int
  PROVE  /\ n = 256 * (n \div 256) + (n % 256)
         /\ n \div 256 \in Int /\ n % 256 \in Byte
         /\ n \div 65536 = (n \div 256) \div 256
         /\ n \div 16777216 = (n \div 65536) \div 256
  BY SMT DEF Byte

(* The two bytes of a number are the number modulo 2^16.                   *)
LEMMA HalfSum ==
  ASSUME NEW n \in Int
  PROVE  (n % 256) + 256 * ((n \div 256) % 256) = n % 65536
<1> DEFINE q == n \div 256
           r == q \div 256
           low == (n % 256) + 256 * (q % 256)
<1>1. q \in Int /\ r \in Int /\ n % 256 \in Byte /\ q % 256 \in Byte
  BY DivideInt
<1>2. n = 65536 * r + low
  BY <1>1, DivideInt, SMT DEF Byte
<1>3. low \in Int /\ 0 <= low /\ low < 65536
  BY <1>1, SMT DEF Byte
<1> HIDE DEF q, r, low
<1>4. n % 65536 = low
  BY <1>1, <1>2, <1>3, SMT
<1> QED
  BY <1>4 DEF q, low

(* The four bytes of a number are the number modulo 2^32.                  *)
LEMMA WordSum ==
  ASSUME NEW n \in Int
  PROVE  (n % 256) + 256 * ((n \div 256) % 256) + 65536 * ((n \div 65536) % 256)
           + 16777216 * ((n \div 16777216) % 256) = n % 4294967296
<1> DEFINE h == n \div 65536
           r == h \div 65536
           low == (n % 65536) + 65536 * (h % 65536)
<1>1. /\ h \in Int /\ r \in Int
      /\ n = 65536 * h + (n % 65536) /\ 0 <= n % 65536 /\ n % 65536 < 65536
      /\ h = 65536 * r + (h % 65536) /\ 0 <= h % 65536 /\ h % 65536 < 65536
      /\ n % 65536 \in Int /\ h % 65536 \in Int
  BY SMT
<1>2. n = 4294967296 * r + low /\ low \in Int /\ 0 <= low /\ low < 4294967296
  BY <1>1, SMT
<1>3. n % 4294967296 = low
  <2> HIDE DEF r, low
  <2> QED BY <1>1, <1>2, SMT
<1>4. (h % 256) + 256 * ((h \div 256) % 256) = h % 65536
  BY <1>1, HalfSum
<1>5. n \div 16777216 = h \div 256
  BY DivideInt
<1>6. /\ (n % 256) + 256 * ((n \div 256) % 256) = n % 65536
      /\ n % 256 \in Int /\ (n \div 256) % 256 \in Int
      /\ h % 256 \in Int /\ (h \div 256) % 256 \in Int
  BY HalfSum, SMT
<1> QED
  BY <1>3, <1>4, <1>5, <1>6, SMT

(* The bytes packSensor writes for a number, and how they are read back.    *)
Put16At(p, o, v) == p[o + 1] = v % 256 /\ p[o + 2] = (v \div 256) % 256
Put32At(p, o, v) == /\ Put16At(p, o, v)
                    /\ p[o + 3] = (v \div 65536) % 256
                    /\ p[o + 4] = (v \div 16777216) % 256

(* Two of them are read back as a half word ...                            *)
LEMMA ReadsHalf ==
  ASSUME NEW p, NEW o, NEW v \in Int, Put16At(p, o, v)
  PROVE  U16(p, o) = v % 65536
  BY HalfSum DEF U16, Put16At

(* ... and four of them as a word.                                         *)
LEMMA ReadsWord ==
  ASSUME NEW p, NEW o, NEW v \in Int, Put32At(p, o, v)
  PROVE  U32(p, o) = v % 4294967296
<1> DEFINE b1 == v % 256
           b2 == (v \div 256) % 256
           b3 == (v \div 65536) % 256
           b4 == (v \div 16777216) % 256
           w  == v % 4294967296
<1>1. b1 + 256 * b2 + 65536 * b3 + 16777216 * b4 = w
  BY WordSum, SMT
<1>2. p[o + 1] = b1 /\ p[o + 2] = b2 /\ p[o + 3] = b3 /\ p[o + 4] = b4
  BY DEF Put32At, Put16At
<1> HIDE DEF b1, b2, b3, b4, w
<1>3. U32(p, o) = w
  BY <1>1, <1>2, SMT DEF U32
<1> QED
  BY <1>3, SMT DEF w

(* A telemetry payload has 40 bytes, and a reader that knows the offsets   *)
(* finds every field of packSensor at its own, whatever the values are:    *)
(* a negative number as its two's complement.                              *)
THEOREM TelemetryLayout ==
  ASSUME NEW s \in SensorReadings
  PROVE  LET p == PackSensor(s) IN
         /\ Len(p) = 40
         /\ U32(p, 0) = s.timestamp_ms % 4294967296 /\ U32(p, 10) = s.pressure_pa % 4294967296
         /\ U32(p, 16) = s.encoder1 % 4294967296 /\ U32(p, 20) = s.encoder2 % 4294967296
         /\ U16(p, 4) = s.temperature_01c % 65536 /\ U16(p, 6) = s.humidity_01 % 65536
         /\ U16(p, 8) = s.gas_ppm % 65536 /\ U16(p, 14) = s.distance_cm % 65536
         /\ U16(p, 24) = s.speed_L % 65536 /\ U16(p, 26) = s.speed_R % 65536
         /\ U16(p, 28) = s.servo_us % 65536 /\ U16(p, 30) = s.voltage_mV % 65536
         /\ p[33] = s.mode /\ p[34] = s.fault /\ p[35] = s.risk_level /\ p[36] = s.flags
         /\ p[37] = s.fan /\ p[38] = s.buzzer /\ p[39] = s.relay /\ p[40] = s.led
<1> DEFINE p == PackSensor(s)
<1>1. /\ Len(p) = 40
      /\ p[33] = s.mode /\ p[34] = s.fault /\ p[35] = s.risk_level /\ p[36] = s.flags
      /\ p[37] = s.fan /\ p[38] = s.buzzer /\ p[39] = s.relay /\ p[40] = s.led
  BY SMTT(30) DEF PackSensor, Put16, Put32
<1>2. /\ Put32At(p, 0, s.timestamp_ms)
      /\ Put32At(p, 10, s.pressure_pa)
  BY SMTT(30) DEF PackSensor, Put16, Put32, Put32At, Put16At
<1>3. /\ Put32At(p, 16, s.encoder1)
      /\ Put32At(p, 20, s.encoder2)
  BY SMTT(30) DEF PackSensor, Put16, Put32, Put32At, Put16At
<1>4. /\ Put16At(p, 4, s.temperature_01c)
      /\ Put16At(p, 6, s.humidity_01)
      /\ Put16At(p, 8, s.gas_ppm)
      /\ Put16At(p, 14, s.distance_cm)
  BY SMTT(30) DEF PackSensor, Put16, Put32, Put16At
<1>5. /\ Put16At(p, 24, s.speed_L)
      /\ Put16At(p, 26, s.speed_R)
      /\ Put16At(p, 28, s.servo_us)
      /\ Put16At(p, 30, s.voltage_mV)
  BY SMTT(30) DEF PackSensor, Put16, Put32, Put16At
<1> HIDE DEF p
<1>6. Int16 \subseteq Int /\ Int32 \subseteq Int
  BY SMT DEF Int16, Int32
<1>7. /\ s.timestamp_ms \in Int /\ s.pressure_pa \in Int
      /\ s.encoder1 \in Int /\ s.encoder2 \in Int
  <2>1. /\ s.timestamp_ms \in Int32 /\ s.pressure_pa \in Int32
        /\ s.encoder1 \in Int32 /\ s.encoder2 \in Int32
    BY Zenon DEF SensorReadings
  <2> QED BY <2>1, <1>6, Zenon
<1>8. /\ s.temperature_01c \in Int /\ s.humidity_01 \in Int
      /\ s.gas_ppm \in Int /\ s.distance_cm \in Int
      /\ s.speed_L \in Int /\ s.speed_R \in Int
      /\ s.servo_us \in Int /\ s.voltage_mV \in Int
  <2>1. /\ s.temperature_01c \in Int16 /\ s.humidity_01 \in Int16
        /\ s.gas_ppm \in Int16 /\ s.distance_cm \in Int16
        /\ s.speed_L \in Int16 /\ s.speed_R \in Int16
        /\ s.servo_us \in Int16 /\ s.voltage_mV \in Int16
    BY Zenon DEF SensorReadings
  <2> QED BY <2>1, <1>6, Zenon
<1>9. /\ U32(p, 0) = s.timestamp_ms % 4294967296 /\ U32(p, 10) = s.pressure_pa % 4294967296
      /\ U32(p, 16) = s.encoder1 % 4294967296 /\ U32(p, 20) = s.encoder2 % 4294967296
  BY <1>2, <1>3, <1>7, ReadsWord, SMT
<1>10. /\ U16(p, 4) = s.temperature_01c % 65536 /\ U16(p, 6) = s.humidity_01 % 65536
       /\ U16(p, 8) = s.gas_ppm % 65536 /\ U16(p, 14) = s.distance_cm % 65536
       /\ U16(p, 24) = s.speed_L % 65536 /\ U16(p, 26) = s.speed_R % 65536
       /\ U16(p, 28) = s.servo_us % 65536 /\ U16(p, 30) = s.voltage_mV % 65536
  BY <1>4, <1>5, <1>8, ReadsHalf, SMT
<1> QED
  BY <1>1, <1>9, <1>10, SMT DEF p
-----------------------------------------------------------------------------

(* Every set of numbers that is not empty has a least one: what stands for *)
(* induction in the proofs below.                                          *)
LEMMA LeastNat ==
  ASSUME NEW T, T \subseteq Nat, T # {}
  PROVE  \E m \in T : \A k \in T : m <= k
<1>1. \E m \in T : \A k \in T : ~(<<k, m>> \in OpToRel(<, Nat))
  BY NatLessThanWellFounded, WFMin, Zenon
<1>2. PICK m \in T : \A k \in T : ~(<<k, m>> \in OpToRel(<, Nat))
  BY <1>1
<1>3. \A k \in T : ~(<<k, m>> \in {ss \in Nat \X Nat : ss[1] < ss[2]})
  BY <1>2, Zenon DEF OpToRel
<1>4. ASSUME NEW k \in T PROVE ~(k < m)
  <2>1. <<k, m>> \in Nat \X Nat
    OBVIOUS
  <2>2. ~(<<k, m>>[1] < <<k, m>>[2])
    BY <1>3, <2>1, Zenon
  <2> QED
    BY <2>2
<1> QED
  BY <1>4

(* Sequences put together one after the other: the function that holds the *)
(* results exists.                                                         *)
LEMMA Accumulates ==
  ASSUME NEW p
  PROVE  \A n \in Nat : \E f : f = [i \in 0 .. n |-> IF i = 0 THEN <<>> ELSE f[i - 1] \o p[i]]
<1> DEFINE Step(f, i) == IF i = 0 THEN <<>> ELSE f[i - 1] \o p[i]
           Bad == {n \in Nat : ~\E f : f = [i \in 0 .. n |-> Step(f, i)]}
<1> SUFFICES ASSUME Bad # {} PROVE FALSE
  OBVIOUS
<1>1. PICK n \in Bad : \A k \in Bad : n <= k
  BY LeastNat
<1>2. CASE n = 0
  <2> DEFINE g == [i \in 0 .. 0 |-> <<>>]
  <2>1. g = [i \in 0 .. 0 |-> Step(g, i)]
    OBVIOUS
  <2> QED
    BY <1>1, <1>2, <2>1
<1>3. CASE n # 0
  <2>1. n - 1 \in Nat /\ n \in Nat /\ ~(n <= n - 1)
    BY <1>1, <1>3
  <2>2. PICK f : f = [i \in 0 .. n - 1 |-> Step(f, i)]
    <3>1. n - 1 \notin Bad
      BY <1>1, <2>1, Zenon
    <3> QED
      BY <2>1, <3>1
  <2> DEFINE g == [i \in 0 .. n |-> Step(f, i)]
  <2>3. ASSUME NEW i \in 0 .. n - 1 PROVE g[i] = f[i]
    <3>1. i \in 0 .. n
      BY <2>1
    <3>2. f[i] = Step(f, i)
      BY <2>2, Zenon
    <3> QED
      BY <3>1, <3>2
  <2>4. ASSUME NEW i \in 0 .. n PROVE Step(f, i) = Step(g, i)
    <3>1. CASE i = 0
      BY <3>1
    <3>2. CASE i # 0
      <4>1. i - 1 \in 0 .. n - 1
        BY <2>1, <3>2
      <4>2. g[i - 1] = f[i - 1]
        BY <2>3, <4>1
      <4> HIDE DEF g
      <4> QED
        BY <3>2, <4>2
    <3> QED
      BY <3>1, <3>2
  <2>5. g = [i \in 0 .. n |-> Step(g, i)]
    BY <2>4, Zenon
  <2> QED
    BY <1>1, <2>5
<1> QED
  BY <1>2, <1>3

(* What is behind n bytes.                                                 *)
LEMMA PastIsShorter ==
  ASSUME NEW S, NEW d \in Seq(S), NEW n \in 0 .. Len(d)
  PROVE  /\ Past(d, n) \in Seq(S) /\ Len(Past(d, n)) = Len(d) - n
         /\ \A i \in 1 .. Len(d) - n : Past(d, n)[i] = d[n + i]
<1>1. \A i \in n + 1 .. Len(d) : d[i] \in S
  OBVIOUS
<1> QED
  BY <1>1, SubSeqProperties DEF Past

(* What is behind bytes that were consumed is shorter.                     *)
LEMMA Consuming ==
  ASSUME NEW S, NEW d \in Seq(S), NEW n \in 0 .. Len(d), n # 0
  PROVE  Past(d, n) \in Seq(S) /\ Len(Past(d, n)) \in Nat /\ Len(Past(d, n)) < Len(d)
<1>1. n \in Nat /\ n > 0 /\ Len(d) \in Nat /\ n <= Len(d)
  OBVIOUS
<1>2. Past(d, n) \in Seq(S) /\ Len(Past(d, n)) = Len(d) - n
  BY PastIsShorter
<1> QED
  BY <1>1, <1>2

(* One round of a loop whose turns are T, when found is what the rounds    *)
(* behind it find.                                                         *)
Round(T, found, d) ==
  IF T[d].bytes = 0 THEN Ended(T[d]) ELSE Joined(T[d], found[Past(d, T[d].bytes)])

Within(n) == {d \in Seq(Byte) : Len(d) <= n}

Loops(T, n, f) == f = [d \in Within(n) |-> Round(T, f, d)]

(* For any loop whose turns consume no more than there is, what it finds   *)
(* in the buffers up to a length is defined by recursion ...               *)
LEMMA LoopUpTo ==
  ASSUME NEW T, \A d \in Seq(Byte) : T[d].bytes \in 0 .. Len(d)
  PROVE  \A n \in Nat : \E f : Loops(T, n, f)
<1> DEFINE Bad == {n \in Nat : ~\E f : Loops(T, n, f)}
<1> SUFFICES ASSUME Bad # {} PROVE FALSE
  OBVIOUS
<1>1. PICK n \in Bad : \A k \in Bad : n <= k
  BY LeastNat
<1>2. \E f : \A d \in Within(n - 1) : f[d] = Round(T, f, d)
  <2>1. CASE n = 0
    BY <2>1 DEF Within
  <2>2. CASE n # 0
    <3>1. n - 1 \in Nat /\ n - 1 \notin Bad
      BY <1>1, <2>2
    <3>2. PICK f : Loops(T, n - 1, f)
      BY <3>1
    <3> QED
      BY <3>2 DEF Loops
  <2> QED
    BY <2>1, <2>2
<1>3. PICK f : \A d \in Within(n - 1) : f[d] = Round(T, f, d)
  BY <1>2
<1> DEFINE g == [d \in Within(n) |-> Round(T, f, d)]
<1>4. ASSUME NEW d \in Within(n) PROVE Round(T, g, d) = Round(T, f, d)
  <2>1. CASE T[d].bytes = 0
    BY <2>1 DEF Round
  <2>2. CASE T[d].bytes # 0
    <3> DEFINE e == Past(d, T[d].bytes)
    <3>1. e \in Within(n - 1) /\ e \in Within(n)
      <4>1. d \in Seq(Byte) /\ Len(d) \in Nat /\ Len(d) <= n /\ n \in Nat
        BY DEF Within
      <4>2. T[d].bytes \in 0 .. Len(d)
        BY <4>1
      <4>3. e \in Seq(Byte) /\ Len(e) \in Nat /\ Len(e) < Len(d)
        BY <2>2, <4>1, <4>2, Consuming, Zenon
      <4> QED
        BY <4>1, <4>3 DEF Within
    <3>2. g[e] = f[e]
      BY <3>1, <1>3
    <3> QED
      BY <2>2, <3>2 DEF Round
  <2> QED
    BY <2>1, <2>2
<1>5. Loops(T, n, g)
  BY <1>4 DEF Loops
<1> QED
  BY <1>1, <1>5

(* ... in only one way ...                                                 *)
LEMMA LoopsAgree ==
  ASSUME NEW T, \A d \in Seq(Byte) : T[d].bytes \in 0 .. Len(d),
         NEW n \in Nat, NEW m \in Nat, NEW f, NEW g, Loops(T, n, f), Loops(T, m, g),
         NEW d \in Seq(Byte), Len(d) <= n, Len(d) <= m
  PROVE  f[d] = g[d]
<1> DEFINE Bad == {k \in Nat : \E e \in Seq(Byte) : /\ Len(e) = k /\ k <= n /\ k <= m
                                                    /\ f[e] # g[e]}
<1> SUFFICES ASSUME Bad # {} PROVE FALSE
  <2>1. Len(d) \in Nat
    OBVIOUS
  <2> QED
    BY <2>1
<1>1. PICK k \in Bad : \A j \in Bad : k <= j
  BY LeastNat
<1>2. PICK e \in Seq(Byte) : Len(e) = k /\ k <= n /\ k <= m /\ f[e] # g[e]
  BY <1>1
<1>3. f[e] = Round(T, f, e) /\ g[e] = Round(T, g, e)
  BY <1>2 DEF Loops, Within
<1>4. CASE T[e].bytes = 0
  BY <1>2, <1>3, <1>4 DEF Round
<1>5. CASE T[e].bytes # 0
  <2> DEFINE r == Past(e, T[e].bytes)
  <2>1. r \in Seq(Byte) /\ Len(r) \in Nat /\ Len(r) < Len(e)
    BY <1>5, Consuming, Zenon
  <2>2. Len(r) \in Nat /\ Len(r) < k
    BY <1>2, <2>1
  <2>3. f[r] = g[r]
    BY <1>1, <1>2, <2>1, <2>2
  <2> QED
    BY <1>2, <1>3, <1>5, <2>3 DEF Round
<1> QED
  BY <1>4, <1>5

(* ... and so it is for buffers of any length.                             *)
LEMMA LoopDefined ==
  ASSUME NEW T, \A d \in Seq(Byte) : T[d].bytes \in 0 .. Len(d)
  PROVE  \E f : f = [d \in Seq(Byte) |-> Round(T, f, d)]
<1> DEFINE upto == [n \in Nat |-> CHOOSE f : Loops(T, n, f)]
           F    == [d \in Seq(Byte) |-> upto[Len(d)][d]]
<1>1. \A n \in Nat : Loops(T, n, upto[n])
  BY LoopUpTo
<1>2. ASSUME NEW d \in Seq(Byte) PROVE F[d] = Round(T, F, d)
  <2> DEFINE n == Len(d)
  <2>1. n \in Nat /\ d \in Within(n)
    BY DEF Within
  <2>2. F[d] = Round(T, upto[n], d)
    <3>1. upto[n] = [e \in Within(n) |-> Round(T, upto[n], e)]
      BY <1>1, <2>1, Zenon DEF Loops
    <3> HIDE DEF upto
    <3>2. upto[n][d] = Round(T, upto[n], d)
      BY <2>1, <3>1, Zenon
    <3> QED
      BY <3>2
  <2>3. CASE T[d].bytes = 0
    BY <2>2, <2>3 DEF Round
  <2>4. CASE T[d].bytes # 0
    <3> DEFINE r == Past(d, T[d].bytes)
    <3>1. r \in Seq(Byte) /\ Len(r) \in Nat /\ Len(r) < Len(d)
      BY <2>4, Consuming, Zenon
    <3>2. Len(r) \in Nat /\ Len(r) <= n
      BY <2>1, <3>1
    <3>3. upto[n][r] = upto[Len(r)][r]
      <4> HIDE DEF upto, r, n
      <4> QED BY <1>1, <2>1, <3>1, <3>2, LoopsAgree
    <3>4. F[r] = upto[n][r]
      BY <3>1, <3>3
    <3> QED
      BY <2>2, <2>4, <3>4 DEF Round
  <2> QED
    BY <2>3, <2>4
<1> QED
  BY <1>2
-----------------------------------------------------------------------------
(* A header or more of bytes.                                              *)
LEMMA HeaderIsThere ==
  ASSUME NEW d \in Seq(Byte), Len(d) >= LL_HEADER_SIZE
  PROVE  /\ LenOf(d) \in Nat /\ Need(d) \in Nat /\ Need(d) >= 6
         /\ TooLong(d) <=> LenOf(d) > LL_MAX_PAYLOAD
<1> DEFINE b3 == d[3]
           b4 == d[4]
           b5 == d[5]
           b6 == d[6]
<1>1. b3 \in Byte /\ b4 \in Byte /\ b5 \in Byte /\ b6 \in Byte
  <2>1. \A i \in 1 .. Len(d) : d[i] \in Byte
    BY ElementOfSeq, Zenon
  <2>2. 3 \in 1 .. Len(d) /\ 4 \in 1 .. Len(d) /\ 5 \in 1 .. Len(d) /\ 6 \in 1 .. Len(d)
    BY DEF LL_HEADER_SIZE
  <2> QED
    BY <2>1, <2>2, Zenon
<1>2. /\ LenOf(d) = b3 + 256 * b4 + 65536 * b5 + 16777216 * b6
      /\ TooLong(d) <=> b6 > 1 \/ LenOf(d) > LL_MAX_PAYLOAD
  BY SMT DEF LenOf, TooLong
<1> HIDE DEF b3, b4, b5, b6
<1>3. b3 \in 0 .. 255 /\ b4 \in 0 .. 255 /\ b5 \in 0 .. 255 /\ b6 \in 0 .. 255
  BY <1>1 DEF Byte
<1>4. LenOf(d) \in Nat /\ (b6 > 1 => LenOf(d) > LL_MAX_PAYLOAD)
  BY <1>2, <1>3, SMT DEF LL_MAX_PAYLOAD
<1> QED
  BY <1>2, <1>4, SMT DEF Need, LL_HEADER_SIZE

(* A turn of pollCommands consumes no more than there is.                  *)
LEMMA ScanTurnBounds ==
  ASSUME NEW d \in Seq(Byte)
  PROVE  /\ ScanTurn(d).bytes \in 0 .. Len(d)
         /\ ScanTurn(d).bytes = 0 => ScanTurn(d) = Leaves(d)
<1>1. CASE Len(d) < LL_HEADER_SIZE
  BY <1>1 DEF ScanTurn, Leaves
<1>2. CASE Len(d) >= LL_HEADER_SIZE
  BY <1>2, HeaderIsThere DEF ScanTurn, Leaves, Drops, Consumes, Resync, LL_HEADER_SIZE
<1> QED
  BY <1>1, <1>2 DEF LL_HEADER_SIZE

(* So Scan is what its definition says: a turn, and what is behind it.     *)
LEMMA ScanUnfolds ==
  ASSUME NEW d \in Seq(Byte)
  PROVE  Scan[d] = IF ScanTurn(d).bytes = 0 THEN Ended(ScanTurn(d))
                   ELSE Joined(ScanTurn(d), Scan[Past(d, ScanTurn(d).bytes)])
<1> DEFINE T == [e \in Seq(Byte) |-> ScanTurn(e)]
<1>1. \A e \in Seq(Byte) : T[e].bytes \in 0 .. Len(e)
  BY ScanTurnBounds
<1>2. \E f : f = [e \in Seq(Byte) |-> Round(T, f, e)]
  <2> HIDE DEF T
  <2> QED BY <1>1, LoopDefined
<1> DEFINE R(f) == [e \in Seq(Byte) |-> IF ScanTurn(e).bytes = 0 THEN Ended(ScanTurn(e))
                      ELSE Joined(ScanTurn(e), f[Past(e, ScanTurn(e).bytes)])]
<1>3. \E f : f = R(f)
  <2>1. PICK f : f = [e \in Seq(Byte) |-> Round(T, f, e)]
    BY <1>2
  <2>2. [e \in Seq(Byte) |-> Round(T, f, e)] = R(f)
    BY DEF Round
  <2> HIDE DEF R, T
  <2> QED
    BY <2>1, <2>2, Zenon
<1>4. Scan = CHOOSE f : f = R(f)
  BY DEF Scan
<1>5. Scan = R(Scan)
  <2> HIDE DEF R
  <2> QED BY <1>3, <1>4, Zenon
<1> QED
  BY <1>5
-----------------------------------------------------------------------------
Frame   == [type : Byte, payload : Seq(Byte)]
Command == [cmdId : Byte, value : Byte]
Found   == [frames : Seq(Frame), commands : Seq(Command), rest : Seq(Byte)]

(* The sequences a turn finds.                                             *)
LEMMA ShortSeqs ==
  ASSUME NEW S
  PROVE  <<>> \in Seq(S) /\ \A x \in S : <<x>> \in Seq(S)
OBVIOUS

(* A frame that is there as its header says, and its command, are of the   *)
(* right types.                                                            *)
LEMMA FrameIsThere ==
  ASSUME NEW d \in Seq(Byte), Len(d) >= LL_HEADER_SIZE, Len(d) >= Need(d)
  PROVE  /\ FrameOf(d) \in Frame /\ CommandOf(FrameOf(d)) \in Seq(Command)
         /\ Need(d) \in 6 .. Len(d)
<1> DEFINE p == SubSeq(d, LL_HEADER_SIZE + 1, Need(d))
<1>1. Need(d) \in Nat /\ Need(d) >= 6 /\ Len(d) \in Nat /\ Need(d) \in 6 .. Len(d)
  BY HeaderIsThere
<1>2. \A i \in LL_HEADER_SIZE + 1 .. Need(d) : d[i] \in Byte
  BY <1>1 DEF LL_HEADER_SIZE
<1>3. p \in Seq(Byte)
  BY <1>1, <1>2, SubSeqProperties, LL_HEADER_SIZE + 1 \in Int DEF LL_HEADER_SIZE
<1>4. d[2] \in Byte
  BY <1>1
<1>5. FrameOf(d) = [type |-> d[2], payload |-> p]
  BY DEF FrameOf
<1> HIDE DEF p
<1>6. FrameOf(d) \in Frame
  BY <1>3, <1>4, <1>5 DEF Frame
<1>7. CommandOf(FrameOf(d)) \in Seq(Command)
  <2>1. FrameOf(d).payload = p
    BY <1>5
  <2>2. CASE Len(p) >= 2
    <3>1. p[1] \in Byte /\ p[2] \in Byte
      BY <1>3, <2>2
    <3>2. [cmdId |-> p[1], value |-> p[2]] \in Command
      BY <3>1 DEF Command
    <3>3. \/ CommandOf(FrameOf(d)) = <<>>
          \/ CommandOf(FrameOf(d)) = <<[cmdId |-> p[1], value |-> p[2]]>>
      BY <2>1 DEF CommandOf
    <3> QED
      BY <3>2, <3>3, ShortSeqs, Zenon
  <2>3. CASE ~(Len(p) >= 2)
    BY <2>1, <2>3 DEF CommandOf
  <2> QED
    BY <2>2, <2>3
<1> QED
  BY <1>1, <1>6, <1>7

(* The outcomes of a turn of pollCommands.                                 *)
LEMMA ScanTurnCases ==
  ASSUME NEW d \in Seq(Byte)
  PROVE  \/ /\ ScanTurn(d) = Leaves(d)
            /\ Len(d) < LL_HEADER_SIZE \/ (d[1] = LL_SOF /\ ~TooLong(d) /\ Len(d) < Need(d))
         \/ /\ ScanTurn(d) = Drops(Resync)
            /\ Len(d) >= LL_HEADER_SIZE /\ (d[1] # LL_SOF \/ TooLong(d))
         \/ /\ ScanTurn(d) = Consumes(0, d)
            /\ Len(d) >= LL_HEADER_SIZE /\ d[1] = LL_SOF /\ ~TooLong(d) /\ Len(d) >= Need(d)
<1>1. CASE Len(d) < LL_HEADER_SIZE
  BY <1>1 DEF ScanTurn
<1>2. CASE Len(d) >= LL_HEADER_SIZE
  BY <1>2, HeaderIsThere DEF ScanTurn, LL_HEADER_SIZE
<1> QED
  BY <1>1, <1>2 DEF LL_HEADER_SIZE

(* What a turn finds.                                                      *)
LEMMA ScanTurnFinds ==
  ASSUME NEW d \in Seq(Byte)
  PROVE  ScanTurn(d).frames \in Seq(Frame) /\ ScanTurn(d).commands \in Seq(Command)
<1>1. CASE ScanTurn(d) = Leaves(d) \/ ScanTurn(d) = Drops(Resync)
  <2>1. ScanTurn(d).frames = <<>> /\ ScanTurn(d).commands = <<>>
    BY <1>1 DEF Leaves, Drops
  <2> QED
    BY <2>1, ShortSeqs, Zenon
<1>2. ASSUME Len(d) >= LL_HEADER_SIZE, Len(d) >= Need(d), ScanTurn(d) = Consumes(0, d)
      PROVE  ScanTurn(d).frames \in Seq(Frame) /\ ScanTurn(d).commands \in Seq(Command)
  <2>1. ScanTurn(d).frames = <<FrameOf(d)>> /\ ScanTurn(d).commands = CommandOf(FrameOf(d))
    BY <1>2 DEF Consumes
  <2> QED
    BY <1>2, <2>1, FrameIsThere, ShortSeqs, Zenon
<1> QED
  BY <1>1, <1>2, ScanTurnCases

(* Induction over the length of a buffer: in a set of buffers that is not  *)
(* empty one is the shortest.                                              *)
LEMMA Shortest ==
  ASSUME NEW S, NEW D, D \subseteq Seq(S), D # {}
  PROVE  \E d \in D : \A e \in Seq(S) : Len(e) < Len(d) => e \notin D
<1> DEFINE L == {Len(d) : d \in D}
<1>1. L \subseteq Nat /\ L # {}
  <2>1. \A d \in D : Len(d) \in Nat
    OBVIOUS
  <2> QED
    BY <2>1
<1>2. PICK m \in L : \A k \in L : m <= k
  BY <1>1, LeastNat
<1>3. PICK d \in D : Len(d) = m
  BY <1>2
<1>4. ASSUME NEW e \in Seq(S), Len(e) < Len(d) PROVE e \notin D
  <2>1. SUFFICES ASSUME e \in D PROVE FALSE
    OBVIOUS
  <2>2. Len(e) \in L /\ Len(e) \in Nat /\ m \in Nat
    BY <1>1, <1>2, <2>1
  <2> QED
    BY <1>2, <1>3, <1>4, <2>2
<1> QED
  BY <1>4

(* What pollCommands finds, and that it keeps what a turn leaves.          *)
LEMMA ScanType ==
  ASSUME NEW d \in Seq(Byte)
  PROVE  Scan[d] \in Found /\ ScanTurn(Scan[d].rest).bytes = 0
<1> DEFINE Good(e) == Scan[e] \in Found /\ ScanTurn(Scan[e].rest).bytes = 0
           D == {e \in Seq(Byte) : ~Good(e)}
<1> SUFFICES ASSUME D # {} PROVE FALSE
  OBVIOUS
<1>1. PICK e \in D : \A r \in Seq(Byte) : Len(r) < Len(e) => r \notin D
  BY Shortest
<1>2. e \in Seq(Byte)
  OBVIOUS
<1>3. CASE ScanTurn(e).bytes = 0
  <2>1. Scan[e] = [frames |-> <<>>, commands |-> <<>>, rest |-> e]
    BY <1>2, <1>3, ScanUnfolds, ScanTurnBounds DEF Ended, Leaves
  <2>2. <<>> \in Seq(Frame) /\ <<>> \in Seq(Command)
    BY ShortSeqs
  <2>3. Good(e)
    BY <1>2, <1>3, <2>1, <2>2 DEF Found
  <2> QED
    BY <2>3
<1>4. CASE ScanTurn(e).bytes # 0
  <2> DEFINE r == Past(e, ScanTurn(e).bytes)
  <2>1. r \in Seq(Byte) /\ Len(r) < Len(e)
    BY <1>2, <1>4, ScanTurnBounds, Consuming
  <2>2. Good(r)
    BY <1>1, <2>1
  <2>3. Scan[e] = Joined(ScanTurn(e), Scan[r])
    BY <1>2, <1>4, ScanUnfolds
  <2>4. ScanTurn(e).frames \in Seq(Frame) /\ ScanTurn(e).commands \in Seq(Command)
    BY <1>2, ScanTurnFinds
  <2> HIDE DEF r
  <2>5. /\ Scan[r].frames \in Seq(Frame) /\ Scan[r].commands \in Seq(Command)
        /\ Scan[r].rest \in Seq(Byte)
    BY <2>2 DEF Found
  <2>6. /\ ScanTurn(e).frames \o Scan[r].frames \in Seq(Frame)
        /\ ScanTurn(e).commands \o Scan[r].commands \in Seq(Command)
    BY <2>4, <2>5, ConcatProperties
  <2>7. Good(e)
    BY <2>2, <2>3, <2>5, <2>6 DEF Found, Joined
  <2> QED
    BY <2>7
<1> QED
  BY <1>3, <1>4

(* What is kept is kept again, until more bytes come.                      *)
LEMMA ScanOfRest ==
  ASSUME NEW d \in Seq(Byte)
  PROVE  LET r == Scan[d].rest IN
         r \in Seq(Byte) /\ Scan[r] = [frames |-> <<>>, commands |-> <<>>, rest |-> r]
<1> DEFINE r == Scan[d].rest
<1>1. r \in Seq(Byte) /\ ScanTurn(r).bytes = 0
  BY ScanType DEF Found
<1> HIDE DEF r
<1>2. Scan[r] = [frames |-> <<>>, commands |-> <<>>, rest |-> r]
  BY <1>1, ScanUnfolds, ScanTurnBounds DEF Ended, Leaves
<1> QED
  BY <1>1, <1>2 DEF r

(* Passing bytes twice.                                                    *)
LEMMA PastOfPast ==
  ASSUME NEW S, NEW d \in Seq(S), NEW n \in 0 .. Len(d), NEW k \in 0 .. Len(d) - n
  PROVE  Past(Past(d, n), k) = Past(d, n + k)
<1> DEFINE e == Past(d, n)
           p == Past(e, k)
           q == Past(d, n + k)
<1>1. Len(d) \in Nat /\ n \in Nat /\ k \in Nat /\ n + k \in 0 .. Len(d)
  OBVIOUS
<1>2. /\ e \in Seq(S) /\ Len(e) = Len(d) - n
      /\ \A i \in 1 .. Len(d) - n : e[i] = d[n + i]
  BY PastIsShorter
<1>3. /\ q \in Seq(S) /\ Len(q) = Len(d) - (n + k)
      /\ \A i \in 1 .. Len(d) - (n + k) : q[i] = d[n + k + i]
  BY <1>1, PastIsShorter
<1> HIDE DEF e, q
<1>4. k \in 0 .. Len(e)
  BY <1>2
<1>5. /\ p \in Seq(S) /\ Len(p) = Len(e) - k
      /\ \A i \in 1 .. Len(e) - k : p[i] = e[k + i]
  BY <1>2, <1>4, PastIsShorter, Zenon
<1> HIDE DEF p
<1>6. Len(p) = Len(q)
  BY <1>1, <1>2, <1>3, <1>5
<1>7. ASSUME NEW i \in 1 .. Len(p) PROVE p[i] = q[i]
  <2>1. i \in Nat /\ 1 <= i /\ i <= Len(d) - (n + k)
    BY <1>1, <1>3, <1>6
  <2>2. p[i] = e[k + i] /\ q[i] = d[n + k + i]
    BY <1>3, <1>5, <1>6
  <2>3. e[k + i] = d[n + (k + i)]
    BY <1>1, <1>2, <2>1
  <2>4. n + (k + i) = n + k + i
    BY <1>1, <2>1
  <2> QED
    BY <2>2, <2>3, <2>4
<1>8. p = q
  BY <1>3, <1>5, <1>6, <1>7, SeqEqual
<1> QED
  BY <1>8 DEF e, p, q

(* Bytes that come later stay behind the ones that are passed.             *)
LEMMA PastOfConcat ==
  ASSUME NEW S, NEW a \in Seq(S), NEW c \in Seq(S), NEW n \in 0 .. Len(a)
  PROVE  Past(a \o c, n) = Past(a, n) \o c
<1> DEFINE b == a \o c
           p == Past(a, n)
           q == Past(b, n)
           r == p \o c
<1>1. /\ b \in Seq(S) /\ Len(b) = Len(a) + Len(c)
      /\ \A i \in 1 .. Len(a) + Len(c) : b[i] = IF i <= Len(a) THEN a[i] ELSE c[i - Len(a)]
  BY ConcatProperties
<1>2. Len(a) \in Nat /\ Len(c) \in Nat /\ n \in Nat /\ n <= Len(a)
  OBVIOUS
<1>3. /\ p \in Seq(S) /\ Len(p) = Len(a) - n
      /\ \A i \in 1 .. Len(a) - n : p[i] = a[n + i]
  BY PastIsShorter
<1> HIDE DEF b
<1>4. n \in 0 .. Len(b)
  BY <1>1, <1>2
<1>5. /\ q \in Seq(S) /\ Len(q) = Len(b) - n
      /\ \A i \in 1 .. Len(b) - n : q[i] = b[n + i]
  BY <1>1, <1>4, PastIsShorter, Zenon
<1> HIDE DEF p, q
<1>6. /\ r \in Seq(S) /\ Len(r) = Len(p) + Len(c)
      /\ \A i \in 1 .. Len(p) + Len(c) : r[i] = IF i <= Len(p) THEN p[i] ELSE c[i - Len(p)]
  BY <1>3, ConcatProperties
<1> HIDE DEF r
<1>7. Len(q) = Len(r)
  BY <1>1, <1>2, <1>3, <1>5, <1>6
<1>8. ASSUME NEW i \in 1 .. Len(q) PROVE q[i] = r[i]
  <2>1. i \in Nat /\ 1 <= i /\ i <= Len(a) - n + Len(c)
    BY <1>1, <1>2, <1>5
  <2>2. q[i] = b[n + i] /\ n + i \in 1 .. Len(a) + Len(c)
    BY <1>1, <1>2, <1>5, <2>1
  <2>3. CASE n + i <= Len(a)
    BY <1>1, <1>2, <1>3, <1>6, <2>1, <2>2, <2>3
  <2>4. CASE n + i > Len(a)
    <3>1. q[i] = c[n + i - Len(a)]
      BY <1>1, <1>2, <2>1, <2>2, <2>4
    <3>2. r[i] = c[i - Len(p)] /\ i - Len(p) = n + i - Len(a)
      BY <1>2, <1>3, <1>6, <2>1, <2>4
    <3> QED
      BY <3>1, <3>2
  <2> QED
    BY <1>2, <2>1, <2>3, <2>4
<1>9. q = r
  BY <1>5, <1>6, <1>7, <1>8, SeqEqual
<1> QED
  BY <1>9 DEF b, p, q, r

(* They change no subsequence of the ones before.                          *)
LEMMA SubSeqOfBeginning ==
  ASSUME NEW S, NEW a \in Seq(S), NEW c \in Seq(S), NEW i \in Nat \ {0}, NEW j \in 0 .. Len(a)
  PROVE  SubSeq(a \o c, i, j) = SubSeq(a, i, j)
<1>1. CASE j < i
  BY <1>1, SubSeqEmpty
<1>2. CASE i <= j
  BY <1>2, SubSeqOfConcat1
<1> QED
  BY <1>1, <1>2

(* A beginning of a sequence, and a longer one.                            *)
LEMMA BeginningGrows ==
  ASSUME NEW S, NEW s \in Seq(S), NEW n \in 0 .. Len(s), NEW m \in n .. Len(s)
  PROVE  /\ SubSeq(s, 1, n) \in Seq(S) /\ SubSeq(s, n + 1, m) \in Seq(S)
         /\ SubSeq(s, 1, m) = SubSeq(s, 1, n) \o SubSeq(s, n + 1, m)
<1>1. Len(s) \in Nat /\ n \in Nat /\ m \in Nat /\ n <= m /\ m <= Len(s)
  OBVIOUS
<1>2. /\ \A i \in 1 .. n : s[i] \in S
      /\ \A i \in n + 1 .. m : s[i] \in S
  BY <1>1
<1>3. SubSeq(s, 1, n) \in Seq(S)
  BY <1>1, <1>2, SubSeqProperties
<1>4. SubSeq(s, n + 1, m) \in Seq(S)
  BY <1>1, <1>2, SubSeqProperties
<1>5. SubSeq(s, 1, n) \o SubSeq(s, n + 1, m) = SubSeq(s, 1, m)
  BY <1>1, ConcatAdjacentSubSeq
<1> QED
  BY <1>3, <1>4, <1>5

(* A beginning of two sequences that holds the first one.                  *)
LEMMA BeginningOfConcat ==
  ASSUME NEW S, NEW a \in Seq(S), NEW c \in Seq(S), NEW n \in Len(a) .. Len(a) + Len(c)
  PROVE  SubSeq(a \o c, 1, n) = a \o SubSeq(c, 1, n - Len(a))
<1> DEFINE b == a \o c
           l == Len(a)
<1>1. b \in Seq(S) /\ Len(b) = l + Len(c) /\ l \in Nat /\ Len(c) \in Nat /\ n \in l .. l + Len(c)
  BY ConcatProperties
<1>2. SubSeq(b, 1, l) = a
  <2>1. SubSeq(a \o c, 1, l) = SubSeq(a, 1, l)
    <3>1. 1 \in Nat \ {0} /\ l \in 0 .. Len(a)
      BY <1>1
    <3> QED
      BY <3>1, SubSeqOfBeginning, Zenon
  <2>2. SubSeq(a, 1, l) = a
    BY SubSeqFull
  <2> QED
    BY <2>1, <2>2
<1>3. SubSeq(b, l + 1, n) = SubSeq(c, 1, n - l)
  <2>1. CASE n = l
    <3>1. n < l + 1 /\ n - l < 1 /\ n - l \in Int /\ l + 1 \in Int /\ n \in Int /\ 1 \in Int
      BY <1>1, <2>1
    <3>2. SubSeq(b, l + 1, n) = <<>>
      BY <3>1, SubSeqEmpty
    <3>3. SubSeq(c, 1, n - l) = <<>>
      BY <3>1, SubSeqEmpty
    <3> QED
      BY <3>2, <3>3
  <2>2. CASE n # l
    <3>1. /\ l + 1 \in Len(a) + 1 .. Len(a) + Len(c) /\ n \in Len(a) + 1 .. Len(a) + Len(c)
          /\ l + 1 - Len(a) = 1
      BY <1>1, <2>2
    <3>2. SubSeq(a \o c, l + 1, n) = SubSeq(c, l + 1 - Len(a), n - Len(a))
      BY <3>1, SubSeqOfConcat2
    <3> QED
      BY <3>1, <3>2
  <2> QED
    BY <2>1, <2>2
<1>4. SubSeq(b, 1, l) \o SubSeq(b, l + 1, n) = SubSeq(b, 1, n)
  <2> HIDE DEF b, l
  <2>1. 1 \in 1 .. Len(b) + 1 /\ l \in 1 - 1 .. Len(b) /\ n \in l .. Len(b)
    BY <1>1
  <2> QED
    BY <1>1, <2>1, ConcatAdjacentSubSeq, Zenon
<1> HIDE DEF b, l
<1>5. SubSeq(b, 1, n) = a \o SubSeq(c, 1, n - l)
  BY <1>2, <1>3, <1>4
<1> QED
  BY <1>5 DEF b, l

(* A turn that goes on does the same when more bytes have come.            *)
LEMMA MoreBytes ==
  ASSUME NEW a \in Seq(Byte), NEW c \in Seq(Byte), ScanTurn(a).bytes # 0
  PROVE  /\ a \o c \in Seq(Byte)
         /\ ScanTurn(a \o c) = ScanTurn(a)
         /\ Past(a \o c, ScanTurn(a).bytes) = Past(a, ScanTurn(a).bytes) \o c
<1> DEFINE b == a \o c
           n == ScanTurn(a).bytes
<1>1. /\ b \in Seq(Byte) /\ Len(b) = Len(a) + Len(c) /\ Len(a) \in Nat /\ Len(c) \in Nat
      /\ Len(b) \in Nat
      /\ \A i \in 1 .. Len(a) : b[i] = a[i]
      /\ \A i \in Len(a) + 1 .. Len(b) : b[i] = c[i - Len(a)]
  BY ConcatProperties
<1> HIDE DEF b
<1>2. n \in 1 .. Len(a)
  BY ScanTurnBounds
<1>3. Past(b, n) = Past(a, n) \o c
  <2> HIDE DEF n
  <2>1. n \in 0 .. Len(a)
    BY <1>1, <1>2
  <2> QED
    BY <2>1, PastOfConcat, Zenon DEF b
<1>4. ScanTurn(b) = ScanTurn(a)
  <2>1. Len(a) >= LL_HEADER_SIZE
    BY ScanTurnCases DEF Leaves
  <2>2. b[1] = a[1] /\ b[2] = a[2] /\ LenOf(b) = LenOf(a) /\ (TooLong(b) <=> TooLong(a))
    <3>1. \A i \in 1 .. 6 : b[i] = a[i]
      BY <1>1, <2>1 DEF LL_HEADER_SIZE
    <3>2. LenOf(b) = LenOf(a)
      BY <3>1 DEF LenOf
    <3> QED
      BY <3>1, <3>2 DEF TooLong
  <2>3. Need(b) = Need(a)
    BY <2>2 DEF Need
  <2>4. CASE a[1] # LL_SOF \/ TooLong(a)
    BY <1>1, <2>1, <2>2, <2>4 DEF ScanTurn, LL_HEADER_SIZE
  <2>5. CASE a[1] = LL_SOF /\ ~TooLong(a)
    <3>1. Len(a) >= Need(a) /\ ScanTurn(a) = Consumes(0, a) /\ Need(a) \in 6 .. Len(a)
      BY <2>1, <2>5, ScanTurnCases, FrameIsThere DEF Leaves, Drops
    <3>2. ScanTurn(b) = Consumes(0, b)
      BY <1>1, <2>1, <2>2, <2>3, <2>5, <3>1 DEF ScanTurn, LL_HEADER_SIZE
    <3>3. SubSeq(b, LL_HEADER_SIZE + 1, Need(a)) = SubSeq(a, LL_HEADER_SIZE + 1, Need(a))
      BY <3>1, SubSeqOfBeginning DEF b, LL_HEADER_SIZE
    <3>4. FrameOf(b) = FrameOf(a)
      BY <2>2, <2>3, <3>3 DEF FrameOf
    <3> QED
      BY <2>3, <3>1, <3>2, <3>4 DEF Consumes
  <2> QED
    BY <2>4, <2>5
<1> QED
  BY <1>1, <1>3, <1>4 DEF b

(* Parsing what has come and then, with what was kept, what comes later    *)
(* finds what parsing all of it at once finds, for all bytes and wherever  *)
(* they are cut.                                                           *)
THEOREM ScanOfConcat ==
  ASSUME NEW a \in Seq(Byte), NEW c \in Seq(Byte)
  PROVE  Scan[a \o c] = Joined(Scan[a], Scan[Scan[a].rest \o c])
<1> DEFINE Good(e) == Scan[e \o c] = Joined(Scan[e], Scan[Scan[e].rest \o c])
           D == {e \in Seq(Byte) : ~Good(e)}
<1> SUFFICES ASSUME D # {} PROVE FALSE
  OBVIOUS
<1>1. PICK e \in D : \A r \in Seq(Byte) : Len(r) < Len(e) => r \notin D
  BY Shortest
<1>2. e \in Seq(Byte)
  OBVIOUS
<1>3. Scan[Scan[e].rest \o c] \in Found /\ Scan[e \o c] \in Found
  <2>1. Scan[e].rest \in Seq(Byte)
    BY <1>2, ScanType DEF Found
  <2>2. Scan[e].rest \o c \in Seq(Byte) /\ e \o c \in Seq(Byte)
    BY <1>2, <2>1, ConcatProperties
  <2> QED
    BY <2>2, ScanType
<1>4. CASE ScanTurn(e).bytes = 0
  <2>1. Scan[e] = [frames |-> <<>>, commands |-> <<>>, rest |-> e]
    BY <1>2, <1>4, ScanUnfolds, ScanTurnBounds DEF Ended, Leaves
  <2> DEFINE w == Scan[e \o c]
  <2>2. /\ w.frames \in Seq(Frame) /\ w.commands \in Seq(Command)
        /\ w = [frames |-> w.frames, commands |-> w.commands, rest |-> w.rest]
    BY <1>3 DEF Found
  <2> HIDE DEF w
  <2>3. Joined(Scan[e], w) = w
    <3>1. <<>> \o w.frames = w.frames /\ <<>> \o w.commands = w.commands
      BY <2>2, ConcatEmptySeq
    <3> QED
      BY <2>1, <2>2, <3>1 DEF Joined
  <2>4. Good(e)
    BY <2>1, <2>3 DEF w
  <2> QED
    BY <2>4
<1>5. CASE ScanTurn(e).bytes # 0
  <2> DEFINE t == ScanTurn(e)
             r == Past(e, t.bytes)
             w == Scan[Scan[r].rest \o c]
  <2>1. r \in Seq(Byte) /\ Len(r) < Len(e)
    BY <1>2, <1>5, ScanTurnBounds, Consuming
  <2>2. Scan[r \o c] = Joined(Scan[r], w)
    BY <1>1, <2>1
  <2>3. Scan[e] = Joined(t, Scan[r])
    BY <1>2, <1>5, ScanUnfolds
  <2>4. Scan[e \o c] = Joined(t, Scan[r \o c])
    <3>1. e \o c \in Seq(Byte) /\ ScanTurn(e \o c) = t /\ Past(e \o c, t.bytes) = r \o c
      BY <1>2, <1>5, MoreBytes
    <3> QED
      BY <1>5, <3>1, ScanUnfolds
  <2>5. w = Scan[Scan[e].rest \o c]
    BY <2>3 DEF Joined
  <2>6. t.frames \in Seq(Frame) /\ t.commands \in Seq(Command)
    BY <1>2, ScanTurnFinds
  <2>7. /\ Scan[r].frames \in Seq(Frame) /\ Scan[r].commands \in Seq(Command)
        /\ w.frames \in Seq(Frame) /\ w.commands \in Seq(Command)
    BY <1>3, <2>1, <2>5, ScanType DEF Found
  <2> HIDE DEF t, r, w
  <2>8. /\ t.frames \o (Scan[r].frames \o w.frames) = (t.frames \o Scan[r].frames) \o w.frames
        /\ t.commands \o (Scan[r].commands \o w.commands)
             = (t.commands \o Scan[r].commands) \o w.commands
    <3>1. \A x, y, z \in Seq(Frame) : (x \o y) \o z = x \o (y \o z)
      BY SMTT(60)
    <3>2. \A x, y, z \in Seq(Command) : (x \o y) \o z = x \o (y \o z)
      BY SMTT(60)
    <3> QED
      BY <2>6, <2>7, <3>1, <3>2, Zenon
  <2>9. Joined(t, Joined(Scan[r], w)) = Joined(Joined(t, Scan[r]), w)
    BY <2>8 DEF Joined
  <2>10. Good(e)
    BY <2>2, <2>3, <2>4, <2>5, <2>9
  <2> QED
    BY <2>10
<1> QED
  BY <1>4, <1>5
-----------------------------------------------------------------------------
(* The next SOF is where BeforeSof says.                                   *)
LEMMA SofIsFound ==
  ASSUME NEW d \in Seq(Byte)
  PROVE  /\ BeforeSof(d) \in 0 .. Len(d)
         /\ BeforeSof(d) < Len(d) => d[BeforeSof(d) + 1] = LL_SOF
         /\ \A i \in 1 .. BeforeSof(d) : d[i] # LL_SOF
<1> DEFINE Sofs == {n \in 0 .. Len(d) : n < Len(d) => d[n + 1] = LL_SOF}
<1>1. Len(d) \in Nat
  OBVIOUS
<1>2. Len(d) \in Sofs /\ Sofs \subseteq Nat
  BY <1>1
<1>3. PICK n \in Sofs : \A k \in Sofs : n <= k
  BY <1>2, LeastNat
<1>4. ASSUME NEW i \in 1 .. n PROVE d[i] # LL_SOF
  <2>1. i - 1 \in Nat /\ i - 1 < n /\ n <= Len(d) /\ n \in Nat
    BY <1>1, <1>3
  <2>2. i - 1 \notin Sofs
    BY <1>3, <2>1
  <2> QED
    BY <1>1, <2>1, <2>2
<1>5. \E k \in 0 .. Len(d) : (k < Len(d) => d[k + 1] = LL_SOF) /\ \A i \in 1 .. k : d[i] # LL_SOF
  BY <1>3, <1>4
<1> QED
  BY <1>5 DEF BeforeSof

(* It is the only place like that.                                         *)
LEMMA SofIsThere ==
  ASSUME NEW d \in Seq(Byte), NEW n \in 0 .. Len(d), n < Len(d) => d[n + 1] = LL_SOF,
         \A i \in 1 .. n : d[i] # LL_SOF
  PROVE  BeforeSof(d) = n
<1> DEFINE m == BeforeSof(d)
<1>1. /\ m \in 0 .. Len(d) /\ (m < Len(d) => d[m + 1] = LL_SOF) /\ \A i \in 1 .. m : d[i] # LL_SOF
      /\ Len(d) \in Nat
  BY SofIsFound
<1> HIDE DEF m
<1>2. ~(m < n)
  <2> SUFFICES ASSUME m < n PROVE FALSE
    OBVIOUS
  <2>1. m < Len(d) /\ m + 1 \in 1 .. n
    BY <1>1
  <2> QED
    BY <1>1, <2>1
<1>3. ~(n < m)
  <2> SUFFICES ASSUME n < m PROVE FALSE
    OBVIOUS
  <2>1. n < Len(d) /\ n + 1 \in 1 .. m
    BY <1>1
  <2> QED
    BY <1>1, <2>1
<1> QED
  BY <1>1, <1>2, <1>3 DEF m

(* The two limits are the same.                                            *)
LEMMA LimitsAgree ==
  ASSUME NEW h
  PROVE  TooLongForLongLook(h) = TooLong(h)
<1>1. LongLookLimit = LL_MAX_PAYLOAD
  BY SMT DEF LongLookLimit, LL_MAX_PAYLOAD
<1> QED
  BY <1>1, Zenon DEF TooLongForLongLook, TooLong

(* A turn of parse_stream consumes no more than there is.                  *)
LEMMA ParseTurnBounds ==
  ASSUME NEW d \in Seq(Byte)
  PROVE  ParseTurn(d).bytes \in 0 .. Len(d)
<1> DEFINE n   == BeforeSof(d)
           sof == Past(d, n)
<1>1. n \in 0 .. Len(d) /\ sof \in Seq(Byte) /\ Len(sof) = Len(d) - n /\ Len(d) \in Nat
  <2>1. n \in 0 .. Len(d) /\ Len(d) \in Nat
    BY SofIsFound
  <2> HIDE DEF n
  <2> QED
    BY <2>1, PastIsShorter
<1>2. ParseTurn(d) = IF Len(sof) < LL_HEADER_SIZE THEN Leaves(sof)
                     ELSE IF TooLong(sof) THEN Drops(n + 1)
                     ELSE IF Len(sof) < Need(sof) THEN Leaves(sof)
                     ELSE Consumes(n, sof)
  BY LimitsAgree DEF ParseTurn
<1> HIDE DEF n, sof
<1>3. CASE Len(sof) < LL_HEADER_SIZE
  BY <1>1, <1>2, <1>3 DEF Leaves
<1>4. CASE Len(sof) >= LL_HEADER_SIZE
  <2>1. Need(sof) \in Nat
    BY <1>1, <1>4, HeaderIsThere
  <2> QED
    BY <1>1, <1>2, <1>4, <2>1 DEF Leaves, Drops, Consumes, LL_HEADER_SIZE
<1> QED
  BY <1>1, <1>3, <1>4 DEF LL_HEADER_SIZE

(* So ParseStream is what its definition says.                             *)
LEMMA ParseUnfolds ==
  ASSUME NEW d \in Seq(Byte)
  PROVE  ParseStream[d] = IF ParseTurn(d).bytes = 0 THEN Ended(ParseTurn(d))
                          ELSE Joined(ParseTurn(d), ParseStream[Past(d, ParseTurn(d).bytes)])
<1> DEFINE T == [e \in Seq(Byte) |-> ParseTurn(e)]
           R(f) == [e \in Seq(Byte) |-> IF ParseTurn(e).bytes = 0 THEN Ended(ParseTurn(e))
                      ELSE Joined(ParseTurn(e), f[Past(e, ParseTurn(e).bytes)])]
<1>1. \A e \in Seq(Byte) : T[e].bytes \in 0 .. Len(e)
  BY ParseTurnBounds
<1>2. \E f : f = [e \in Seq(Byte) |-> Round(T, f, e)]
  <2> HIDE DEF T
  <2> QED BY <1>1, LoopDefined
<1>3. \E f : f = R(f)
  <2>1. PICK f : f = [e \in Seq(Byte) |-> Round(T, f, e)]
    BY <1>2
  <2>2. [e \in Seq(Byte) |-> Round(T, f, e)] = R(f)
    BY DEF Round
  <2> HIDE DEF R, T
  <2> QED
    BY <2>1, <2>2, Zenon
<1>4. ParseStream = CHOOSE f : f = R(f)
  BY DEF ParseStream
<1>5. ParseStream = R(ParseStream)
  <2> HIDE DEF R
  <2> QED BY <1>3, <1>4, Zenon
<1> QED
  BY <1>5

(* parse_stream passes over a byte that is not SOF.                        *)
LEMMA ParsePasses ==
  ASSUME NEW d \in Seq(Byte), Len(d) >= 1, d[1] # LL_SOF
  PROVE  ParseStream[d] = ParseStream[Past(d, 1)]
<1> DEFINE e == Past(d, 1)
           n == BeforeSof(e)
<1>1. /\ e \in Seq(Byte) /\ Len(e) = Len(d) - 1 /\ Len(d) \in Nat
      /\ \A i \in 1 .. Len(e) : e[i] = d[i + 1]
  BY PastIsShorter
<1> HIDE DEF e
<1>2. /\ n \in 0 .. Len(e) /\ (n < Len(e) => e[n + 1] = LL_SOF)
      /\ \A i \in 1 .. n : e[i] # LL_SOF
  BY <1>1, SofIsFound
<1> HIDE DEF n
<1>3. BeforeSof(d) = n + 1
  <2> DEFINE m == n + 1
  <2>1. m \in 0 .. Len(d) /\ (m < Len(d) => d[m + 1] = LL_SOF)
    BY <1>1, <1>2
  <2>2. ASSUME NEW i \in 1 .. n + 1 PROVE d[i] # LL_SOF
    <3>1. CASE i = 1
      BY <3>1
    <3>2. CASE i # 1
      <4>1. i - 1 \in 1 .. n /\ i - 1 \in 1 .. Len(e) /\ (i - 1) + 1 = i
        BY <1>1, <1>2, <3>2
      <4>2. e[i - 1] = d[(i - 1) + 1] /\ e[i - 1] # LL_SOF
        BY <1>1, <1>2, <4>1, Zenon
      <4> QED
        BY <4>1, <4>2
    <3> QED
      BY <3>1, <3>2
  <2>3. \A i \in 1 .. m : d[i] # LL_SOF
    BY <2>2
  <2> HIDE DEF m
  <2>4. BeforeSof(d) = m
    BY <2>1, <2>3, SofIsThere, Zenon
  <2> QED
    BY <2>4 DEF m
<1>4. ASSUME NEW k \in 0 .. Len(e) PROVE Past(d, k + 1) = Past(e, k)
  <2>1. 1 \in 0 .. Len(d) /\ k \in 0 .. Len(d) - 1 /\ 1 + k = k + 1
    BY <1>1
  <2> QED
    BY <2>1, PastOfPast DEF e
<1> DEFINE sof == Past(e, n)
<1>5. /\ sof \in Seq(Byte) /\ Len(sof) = Len(e) - n /\ sof = Past(d, n + 1)
      /\ n \in Nat /\ Len(e) \in Nat
  <2>1. e \in Seq(Byte) /\ n \in 0 .. Len(e)
    BY <1>1, <1>2
  <2>2. sof \in Seq(Byte) /\ Len(sof) = Len(e) - n
    BY <2>1, PastIsShorter
  <2>3. sof = Past(d, n + 1)
    BY <1>4, <2>1, Zenon
  <2>4. n \in Nat /\ Len(e) \in Nat
    BY <2>1
  <2> QED
    BY <2>2, <2>3, <2>4
<1>6. /\ ParseTurn(e) = IF Len(sof) < LL_HEADER_SIZE THEN Leaves(sof)
                        ELSE IF TooLong(sof) THEN Drops(n + 1)
                        ELSE IF Len(sof) < Need(sof) THEN Leaves(sof)
                        ELSE Consumes(n, sof)
      /\ ParseTurn(d) = IF Len(sof) < LL_HEADER_SIZE THEN Leaves(sof)
                        ELSE IF TooLong(sof) THEN Drops(n + 2)
                        ELSE IF Len(sof) < Need(sof) THEN Leaves(sof)
                        ELSE Consumes(n + 1, sof)
  <2>1. n + 1 + 1 = n + 2
    BY <1>5
  <2> QED
    BY <1>3, <1>5, <2>1, LimitsAgree DEF ParseTurn, n
<1> HIDE DEF sof
<1>7. CASE Len(sof) < LL_HEADER_SIZE \/ (~TooLong(sof) /\ Len(sof) < Need(sof))
  <2>1. ParseTurn(e) = Leaves(sof) /\ ParseTurn(d) = Leaves(sof)
    BY <1>6, <1>7
  <2> QED
    BY <1>1, <2>1, ParseUnfolds DEF Leaves, e
<1>8. CASE Len(sof) >= LL_HEADER_SIZE /\ TooLong(sof)
  <2>1. ParseTurn(e) = Drops(n + 1) /\ ParseTurn(d) = Drops(n + 2)
    BY <1>5, <1>6, <1>8 DEF LL_HEADER_SIZE
  <2>2. Past(d, n + 2) = Past(e, n + 1)
    BY <1>4, <1>5, <1>8 DEF LL_HEADER_SIZE
  <2>3. /\ ParseStream[e] = Joined(Drops(n + 1), ParseStream[Past(e, n + 1)])
        /\ ParseStream[d] = Joined(Drops(n + 2), ParseStream[Past(d, n + 2)])
    BY <1>1, <1>5, <2>1, ParseUnfolds DEF Drops
  <2> QED
    BY <2>2, <2>3 DEF Joined, Drops, e
<1>9. CASE Len(sof) >= LL_HEADER_SIZE /\ ~TooLong(sof) /\ Len(sof) >= Need(sof)
  <2>1. Need(sof) \in 6 .. Len(sof)
    BY <1>5, <1>9, FrameIsThere
  <2>2. ParseTurn(e) = Consumes(n, sof) /\ ParseTurn(d) = Consumes(n + 1, sof)
    BY <1>5, <1>6, <1>9, <2>1 DEF LL_HEADER_SIZE
  <2> DEFINE k == n + Need(sof)
  <2>3. k \in 0 .. Len(e) /\ k # 0 /\ n + 1 + Need(sof) = k + 1
    BY <1>5, <2>1
  <2>4. Past(d, k + 1) = Past(e, k)
    BY <1>4, <2>3
  <2>5. /\ ParseTurn(e).bytes = k /\ ParseTurn(d).bytes = k + 1
        /\ ParseTurn(e).frames = ParseTurn(d).frames
        /\ ParseTurn(e).commands = ParseTurn(d).commands
    BY <2>2, <2>3 DEF Consumes
  <2> HIDE DEF k
  <2>6. /\ ParseStream[e] = Joined(ParseTurn(e), ParseStream[Past(e, k)])
        /\ ParseStream[d] = Joined(ParseTurn(d), ParseStream[Past(d, k + 1)])
    BY <1>1, <2>3, <2>5, ParseUnfolds
  <2> QED
    BY <2>4, <2>5, <2>6 DEF Joined, e
<1> QED
  <2>1. Len(sof) \in Nat
    BY <1>5
  <2>2. Len(sof) >= LL_HEADER_SIZE => Need(sof) \in Nat
    BY <1>5, HeaderIsThere
  <2> QED
    BY <1>7, <1>8, <1>9, <2>1, <2>2 DEF LL_HEADER_SIZE

(* The two parsers find the same frames in all bytes, and, but for bytes   *)
(* no frame begins with, keep the same ones.                               *)
THEOREM ParsersFindTheSame ==
  ASSUME NEW d \in Seq(Byte)
  PROVE  /\ Scan[d].frames = ParseStream[d].frames
         /\ ParseStream[Scan[d].rest].rest = ParseStream[d].rest
<1> DEFINE Good(e) == /\ Scan[e].frames = ParseStream[e].frames
                      /\ ParseStream[Scan[e].rest].rest = ParseStream[e].rest
           D == {e \in Seq(Byte) : ~Good(e)}
<1> SUFFICES ASSUME D # {} PROVE FALSE
  OBVIOUS
<1>1. PICK e \in D : \A r \in Seq(Byte) : Len(r) < Len(e) => r \notin D
  BY Shortest
<1>2. e \in Seq(Byte) /\ Len(e) \in Nat
  OBVIOUS
<1> DEFINE sof == Past(e, BeforeSof(e))
<1>3. sof \in Seq(Byte) /\ Len(sof) <= Len(e) /\ Len(sof) \in Nat
  <2>1. BeforeSof(e) \in 0 .. Len(e)
    BY <1>2, SofIsFound
  <2> QED
    BY <1>2, <2>1, PastIsShorter
<1>4. e # <<>> /\ e[1] = LL_SOF => BeforeSof(e) = 0 /\ sof = e
  <2> SUFFICES ASSUME e # <<>>, e[1] = LL_SOF PROVE BeforeSof(e) = 0 /\ sof = e
    OBVIOUS
  <2>1. BeforeSof(e) = 0
    BY <1>2, SofIsThere
  <2>2. SubSeq(e, 0 + 1, Len(e)) = e
    BY <1>2, SubSeqFull
  <2> QED
    BY <2>1, <2>2 DEF Past
<1> HIDE DEF sof
<1>5. CASE /\ ScanTurn(e) = Leaves(e)
           /\ Len(e) < LL_HEADER_SIZE \/ (e[1] = LL_SOF /\ ~TooLong(e) /\ Len(e) < Need(e))
  <2>1. Scan[e] = [frames |-> <<>>, commands |-> <<>>, rest |-> e]
    BY <1>2, <1>5, ScanUnfolds DEF Ended, Leaves
  <2>2. ParseTurn(e) = Leaves(sof)
    <3>1. CASE Len(e) < LL_HEADER_SIZE
      <4>1. Len(sof) < LL_HEADER_SIZE
        BY <1>2, <1>3, <3>1 DEF LL_HEADER_SIZE
      <4> QED
        BY <4>1, LimitsAgree DEF ParseTurn, sof
    <3>2. CASE Len(e) >= LL_HEADER_SIZE
      <4>1. ~(Len(e) < LL_HEADER_SIZE) /\ e # <<>>
        BY <1>2, <3>2 DEF LL_HEADER_SIZE
      <4>2. ~TooLong(e) /\ Len(e) < Need(e) /\ sof = e
        BY <1>4, <1>5, <4>1
      <4>3. ~(Len(sof) < LL_HEADER_SIZE) /\ ~TooLong(sof) /\ Len(sof) < Need(sof)
        BY <4>1, <4>2
      <4> QED
        BY <4>3, LimitsAgree DEF ParseTurn, sof
    <3> QED
      BY <1>2, <3>1, <3>2 DEF LL_HEADER_SIZE
  <2>3. ParseStream[e].frames = <<>>
    <3>1. ParseStream[e] = Ended(Leaves(sof))
      <4>1. Leaves(sof).bytes = 0
        BY DEF Leaves
      <4> QED
        BY <1>2, <2>2, <4>1, ParseUnfolds, Zenon
    <3> QED
      BY <3>1 DEF Leaves, Ended
  <2>4. Good(e)
    BY <2>1, <2>3
  <2> QED
    BY <2>4
<1>6. CASE ScanTurn(e) = Drops(Resync) /\ Len(e) >= LL_HEADER_SIZE /\ e[1] # LL_SOF
  <2> DEFINE r == Past(e, 1)
  <2>1. r \in Seq(Byte) /\ Len(r) < Len(e)
    BY <1>2, <1>6, Consuming DEF LL_HEADER_SIZE
  <2>2. Good(r)
    BY <1>1, <2>1
  <2>3. ParseStream[e] = ParseStream[r]
    BY <1>2, <1>6, ParsePasses DEF LL_HEADER_SIZE
  <2>4. Scan[e] = Joined(Drops(1), Scan[r])
    BY <1>2, <1>6, ScanUnfolds DEF Drops, Resync
  <2> HIDE DEF r
  <2>5. Scan[r].frames \in Seq(Frame)
    BY <2>1, ScanType DEF Found
  <2>6. Scan[e].frames = Scan[r].frames /\ Scan[e].rest = Scan[r].rest
    BY <2>4, <2>5, ConcatEmptySeq DEF Joined, Drops
  <2>7. Good(e)
    BY <2>2, <2>3, <2>6
  <2> QED
    BY <2>7
<1>7. CASE ScanTurn(e) = Drops(Resync) /\ Len(e) >= LL_HEADER_SIZE /\ e[1] = LL_SOF /\ TooLong(e)
  <2> DEFINE r == Past(e, 1)
  <2>1. r \in Seq(Byte) /\ Len(r) < Len(e)
    BY <1>2, <1>7, Consuming DEF LL_HEADER_SIZE
  <2>2. Good(r)
    BY <1>1, <2>1
  <2>3. ParseTurn(e) = Drops(1)
    <3>1. BeforeSof(e) = 0 /\ sof = e /\ ~(Len(sof) < LL_HEADER_SIZE) /\ TooLong(sof)
      BY <1>2, <1>4, <1>7 DEF LL_HEADER_SIZE
    <3>2. ParseTurn(e) = Drops(BeforeSof(e) + 1)
      BY <3>1, LimitsAgree DEF ParseTurn, sof
    <3> QED
      BY <3>1, <3>2
  <2>4. ParseStream[e] = Joined(Drops(1), ParseStream[r])
    BY <1>2, <2>3, ParseUnfolds DEF Drops
  <2>5. Scan[e] = Joined(Drops(1), Scan[r])
    BY <1>2, <1>7, ScanUnfolds DEF Drops, Resync
  <2> HIDE DEF r
  <2> DEFINE turn == Drops(1)
             s  == Scan[e]
             sr == Scan[r]
             p  == ParseStream[e]
             pr == ParseStream[r]
  <2>10. s = Joined(turn, sr) /\ p = Joined(turn, pr)
    BY <2>4, <2>5
  <2>11. sr.frames = pr.frames /\ ParseStream[sr.rest].rest = pr.rest
    BY <2>2
  <2> HIDE DEF turn, s, sr, p, pr
  <2>12. s.frames = p.frames /\ s.rest = sr.rest /\ p.rest = pr.rest
    BY <2>10, <2>11 DEF Joined
  <2>13. ParseStream[s.rest].rest = p.rest
    BY <2>11, <2>12
  <2>6. Good(e)
    BY <2>12, <2>13 DEF s, p
  <2> QED
    BY <2>6
<1>8. CASE ScanTurn(e) = Consumes(0, e) /\ Len(e) >= LL_HEADER_SIZE /\ e[1] = LL_SOF
           /\ ~TooLong(e) /\ Len(e) >= Need(e)
  <2> DEFINE r == Past(e, Need(e))
  <2>1. Need(e) \in 6 .. Len(e)
    BY <1>2, <1>8, FrameIsThere
  <2>2. r \in Seq(Byte) /\ Len(r) < Len(e)
    BY <1>2, <2>1, Consuming
  <2>3. Good(r)
    BY <1>1, <2>2
  <2>4. ParseTurn(e) = Consumes(0, e)
    <3>1. BeforeSof(e) = 0 /\ sof = e /\ ~(Len(sof) < LL_HEADER_SIZE) /\ ~TooLong(sof)
      BY <1>2, <1>4, <1>8 DEF LL_HEADER_SIZE
    <3>2. ~(Len(sof) < Need(sof))
      BY <1>2, <1>8, <2>1, <3>1
    <3>3. ParseTurn(e) = Consumes(BeforeSof(e), sof)
      BY <3>1, <3>2, LimitsAgree DEF ParseTurn, sof
    <3> QED
      BY <3>1, <3>3
  <2>5. Consumes(0, e).bytes = Need(e) /\ Need(e) # 0
    BY <2>1 DEF Consumes
  <2>6. ParseStream[e] = Joined(Consumes(0, e), ParseStream[r])
    BY <1>2, <2>4, <2>5, ParseUnfolds
  <2>7. Scan[e] = Joined(Consumes(0, e), Scan[r])
    BY <1>2, <1>8, <2>5, ScanUnfolds
  <2> HIDE DEF r
  <2> DEFINE turn == Consumes(0, e)
             s  == Scan[e]
             sr == Scan[r]
             p  == ParseStream[e]
             pr == ParseStream[r]
  <2>10. s = Joined(turn, sr) /\ p = Joined(turn, pr)
    BY <2>6, <2>7
  <2>11. sr.frames = pr.frames /\ ParseStream[sr.rest].rest = pr.rest
    BY <2>3
  <2> HIDE DEF turn, s, sr, p, pr
  <2>12. s.frames = p.frames /\ s.rest = sr.rest /\ p.rest = pr.rest
    BY <2>10, <2>11 DEF Joined
  <2>13. ParseStream[s.rest].rest = p.rest
    BY <2>11, <2>12
  <2>8. Good(e)
    BY <2>12, <2>13 DEF s, p
  <2> QED
    BY <2>8
<1> QED
  BY <1>2, <1>5, <1>6, <1>7, <1>8, ScanTurnCases
-----------------------------------------------------------------------------
(* The header of a frame is bytes.                                         *)
LEMMA HeaderIsBytes ==
  ASSUME NEW type \in Byte, NEW n \in Nat
  PROVE  BuildHeader(type, n) \in Seq(Byte) /\ Len(BuildHeader(type, n)) = 6
<1> DEFINE b3 == n % 256
           b4 == (n \div 256) % 256
           b5 == (n \div 65536) % 256
           b6 == (n \div 16777216) % 256
<1>1. n \div 256 \in Nat /\ n \div 65536 \in Nat /\ n \div 16777216 \in Nat
  BY Divide
<1>2. b3 \in Byte /\ b4 \in Byte /\ b5 \in Byte /\ b6 \in Byte
  <2>1. \A m \in Nat : m % 256 \in Byte
    BY Divide
  <2> QED
    BY <1>1, <2>1
<1>3. LL_SOF \in Byte
  BY DEF LL_SOF, Byte
<1>4. BuildHeader(type, n) = <<LL_SOF, type, b3, b4, b5, b6>>
  BY DEF BuildHeader
<1> HIDE DEF b3, b4, b5, b6
<1> QED
  BY <1>2, <1>3, <1>4

(* What buildFrame builds, as the parsers see it.                          *)
LEMMA BuiltFrame ==
  ASSUME NEW type \in Byte, NEW payload \in Seq(Byte), Len(payload) <= LL_MAX_PAYLOAD
  PROVE  LET f == BuildFrame(type, payload) IN
         /\ f \in Seq(Byte) /\ Len(f) = 6 + Len(payload) /\ Need(f) = Len(f)
         /\ f[1] = LL_SOF /\ ~TooLong(f)
         /\ FrameOf(f) = [type |-> type, payload |-> payload]
<1> DEFINE n == Len(payload)
           h == BuildHeader(type, n)
           f == BuildFrame(type, payload)
           p == SubSeq(f, LL_HEADER_SIZE + 1, Need(f))
<1>1. n \in Nat /\ n <= LL_MAX_PAYLOAD /\ n \in UInt32
  BY SMT DEF UInt32, LL_MAX_PAYLOAD
<1>2. h \in Seq(Byte) /\ Len(h) = 6
  BY <1>1, HeaderIsBytes
<1>3. h[1] = LL_SOF /\ h[2] = type /\ LenOf(h) = n
  BY <1>1, HeaderRoundTrip
<1>4. f = h \o payload
  BY DEF BuildFrame
<1> HIDE DEF h, f
<1>5. /\ f \in Seq(Byte) /\ Len(f) = 6 + n
      /\ \A i \in 1 .. 6 + n : f[i] = IF i <= 6 THEN h[i] ELSE payload[i - 6]
  <2>1. /\ f \in Seq(Byte) /\ Len(f) = Len(h) + Len(payload)
        /\ \A i \in 1 .. Len(h) + Len(payload) :
             f[i] = IF i <= Len(h) THEN h[i] ELSE payload[i - Len(h)]
    BY <1>2, <1>4, ConcatProperties
  <2> QED
    BY <1>2, <2>1
<1>6. \A i \in 1 .. 6 : f[i] = h[i]
  BY <1>1, <1>5
<1>7. LenOf(f) = n
  BY <1>3, <1>6 DEF LenOf
<1>8. Need(f) = 6 + n
  BY <1>7 DEF Need, LL_HEADER_SIZE
<1>9. ~TooLong(f)
  <2>1. Len(f) >= LL_HEADER_SIZE
    BY <1>1, <1>5 DEF LL_HEADER_SIZE
  <2>2. TooLong(f) <=> LenOf(f) > LL_MAX_PAYLOAD
    BY <1>5, <2>1, HeaderIsThere
  <2> QED
    BY <1>1, <1>7, <2>2, SMT DEF LL_MAX_PAYLOAD
<1>10. p = payload
  <2>1. p = Past(f, 6)
    BY <1>5, <1>8 DEF Past, LL_HEADER_SIZE
  <2>2. Past(f, 6) = Past(h, 6) \o payload
    <3>1. 6 \in 0 .. Len(h)
      BY <1>2
    <3> QED
      BY <1>2, <1>4, <3>1, PastOfConcat, Zenon
  <2>3. Past(h, 6) = <<>>
    BY <1>2, SubSeqEmpty DEF Past
  <2> QED
    BY <2>1, <2>2, <2>3, ConcatEmptySeq
<1>11. f[2] = type /\ f[1] = LL_SOF
  BY <1>3, <1>6
<1>12. FrameOf(f) = [type |-> type, payload |-> payload]
  BY <1>10, <1>11 DEF FrameOf
<1> QED
  BY <1>5, <1>8, <1>9, <1>11, <1>12 DEF f

(* Nothing is found in nothing.                                            *)
LEMMA ScanOfNothing ==
  Scan[<<>>] = [frames |-> <<>>, commands |-> <<>>, rest |-> <<>>]
<1>1. <<>> \in Seq(Byte) /\ Len(<<>>) < LL_HEADER_SIZE
  BY DEF LL_HEADER_SIZE
<1>2. ScanTurn(<<>>) = Leaves(<<>>)
  BY <1>1 DEF ScanTurn
<1> QED
  <2>1. /\ ScanTurn(<<>>).bytes = 0
        /\ Ended(ScanTurn(<<>>)) = [frames |-> <<>>, commands |-> <<>>, rest |-> <<>>]
    BY <1>2 DEF Ended, Leaves
  <2> QED
    BY <1>1, <2>1, ScanUnfolds, Zenon

(* pollCommands takes a frame that was built whole out of the stream with  *)
(* type and payload as they went in, and keeps nothing; it takes nothing   *)
(* out of a frame that is not complete.                                    *)
THEOREM FrameRoundTrip ==
  ASSUME NEW type \in Byte, NEW payload \in Seq(Byte), Len(payload) <= LL_MAX_PAYLOAD
  PROVE  LET f     == BuildFrame(type, payload)
             frame == [type |-> type, payload |-> payload]
         IN  /\ Scan[f] = [frames |-> <<frame>>, commands |-> CommandOf(frame), rest |-> <<>>]
             /\ \A k \in 0 .. Len(f) - 1 :
                  LET part == SubSeq(f, 1, k) IN
                  Scan[part] = [frames |-> <<>>, commands |-> <<>>, rest |-> part]
<1> DEFINE f     == BuildFrame(type, payload)
           frame == [type |-> type, payload |-> payload]
<1>1. /\ f \in Seq(Byte) /\ Len(f) = 6 + Len(payload) /\ Need(f) = Len(f)
      /\ f[1] = LL_SOF /\ ~TooLong(f) /\ FrameOf(f) = frame
  BY BuiltFrame, Zenon
<1>2. Len(payload) \in Nat
  OBVIOUS
<1>3. frame \in Frame
  BY DEF Frame
<1> HIDE DEF f, frame
<1>4. Scan[f] = [frames |-> <<frame>>, commands |-> CommandOf(frame), rest |-> <<>>]
  <2>1. ~(Len(f) < LL_HEADER_SIZE) /\ ~(Len(f) < Need(f)) /\ Need(f) \in Nat /\ Need(f) # 0
    BY <1>1, <1>2 DEF LL_HEADER_SIZE
  <2>2. ScanTurn(f) = Consumes(0, f)
    BY <1>1, <2>1 DEF ScanTurn
  <2>3. Consumes(0, f) = [ bytes |-> Need(f), frames |-> <<frame>>,
                           commands |-> CommandOf(frame), rest |-> <<>> ]
    BY <1>1, <2>1 DEF Consumes
  <2>4. Past(f, Need(f)) = <<>>
    BY <1>1, <1>2, SubSeqEmpty DEF Past
  <2>5. Scan[f] = Joined(Consumes(0, f), Scan[<<>>])
    BY <1>1, <2>1, <2>2, <2>3, <2>4, ScanUnfolds
  <2>6. <<frame>> \in Seq(Frame)
    BY <1>3, ShortSeqs
  <2>7. CommandOf(frame) \in Seq(Command)
    BY <1>1, <2>1, <1>2, FrameIsThere DEF LL_HEADER_SIZE
  <2>8. <<frame>> \o <<>> = <<frame>>
    BY <2>6, ConcatEmptySeq
  <2>9. CommandOf(frame) \o <<>> = CommandOf(frame)
    BY <2>7, ConcatEmptySeq
  <2> QED
    BY <2>3, <2>5, <2>8, <2>9, ScanOfNothing DEF Joined
<1>5. ASSUME NEW k \in 0 .. Len(f) - 1
      PROVE  LET part == SubSeq(f, 1, k) IN
             Scan[part] = [frames |-> <<>>, commands |-> <<>>, rest |-> part]
  <2> DEFINE part == SubSeq(f, 1, k)
  <2>1. /\ part \in Seq(Byte) /\ Len(part) = k /\ k \in Nat /\ k < Len(f)
        /\ \A i \in 1 .. k : part[i] = f[i]
    <3>1. k \in Nat /\ k < Len(f) /\ Len(f) \in Nat
      BY <1>1, <1>2
    <3>2. \A i \in 1 .. k : f[i] \in Byte
      BY <1>1, <3>1
    <3>3. /\ part \in Seq(Byte) /\ Len(part) = IF 1 <= k THEN k - 1 + 1 ELSE 0
          /\ \A i \in 1 .. k - 1 + 1 : part[i] = f[1 + i - 1]
      BY <3>1, <3>2, SubSeqProperties
    <3> HIDE DEF part
    <3>4. \A i \in 1 .. k : part[i] = f[i]
      <4>1. TAKE i \in 1 .. k
      <4>2. i \in 1 .. k - 1 + 1 /\ 1 + i - 1 = i
        BY <3>1
      <4>3. part[i] = f[1 + i - 1]
        BY <3>3, <4>2, Zenon
      <4> QED
        BY <4>2, <4>3
    <3> QED
      BY <3>1, <3>3, <3>4
  <2> HIDE DEF part
  <2>2. ScanTurn(part) = Leaves(part)
    <3>1. CASE Len(part) < LL_HEADER_SIZE
      BY <3>1 DEF ScanTurn
    <3>2. CASE Len(part) >= LL_HEADER_SIZE
      <4>1. \A i \in 1 .. 6 : part[i] = f[i]
        BY <2>1, <3>2 DEF LL_HEADER_SIZE
      <4>2. part[1] = LL_SOF /\ LenOf(part) = LenOf(f) /\ (TooLong(part) <=> TooLong(f))
        <5>1. LenOf(part) = LenOf(f)
          BY <4>1 DEF LenOf
        <5> QED
          BY <1>1, <4>1, <5>1 DEF TooLong
      <4>3. Need(part) = Need(f)
        BY <4>2 DEF Need
      <4> QED
        BY <1>1, <2>1, <3>2, <4>2, <4>3 DEF ScanTurn, LL_HEADER_SIZE
    <3> QED
      BY <2>1, <3>1, <3>2 DEF LL_HEADER_SIZE
  <2>3. Scan[part] = [frames |-> <<>>, commands |-> <<>>, rest |-> part]
    BY <2>1, <2>2, ScanUnfolds DEF Ended, Leaves
  <2> QED
    BY <2>3 DEF part
<1> QED
  BY <1>4, <1>5 DEF f, frame
=============================================================================

-------------------------- MODULE SerialLink_proofs --------------------------
(***************************************************************************)
(* What crc8() computes, for every sequence of bytes; what poll() hands    *)
(* over and keeps, for everything that may come down the line, every way   *)
(* it is cut into reads, and a port that is closed and opened in between;  *)
(* and what a receiver that parses as poll() does gets of what sendCmd()   *)
(* sent, whole or in part.                                                 *)
(***************************************************************************)
EXTENDS SerialLink, SequenceTheorems, TLAPS

Parsers == INSTANCE FrameProtocol_proofs
-----------------------------------------------------------------------------
(* The bits of a byte: a number below 256 is the sum of its eight digits,  *)
(* and any eight digits are those of their sum.                            *)
Digit(x, b) == (x \div (2^b)) % 2

(* The powers of two that a byte is made of.                               *)
LEMMA Powers ==
  /\ 2^0 = 1 /\ 2^1 = 2 /\ 2^2 = 4 /\ 2^3 = 8 /\ 2^4 = 16 /\ 2^5 = 32 /\ 2^6 = 64 /\ 2^7 = 128
OBVIOUS

(* A sum of eight digits is a byte, and these are its digits.              *)
LEMMA EightBits ==
  ASSUME NEW b0 \in 0 .. 1, NEW b1 \in 0 .. 1, NEW b2 \in 0 .. 1, NEW b3 \in 0 .. 1,
         NEW b4 \in 0 .. 1, NEW b5 \in 0 .. 1, NEW b6 \in 0 .. 1, NEW b7 \in 0 .. 1,
         NEW x, x = b0 + 2 * b1 + 4 * b2 + 8 * b3 + 16 * b4 + 32 * b5 + 64 * b6 + 128 * b7
  PROVE  /\ x \in Byte
         /\ Digit(x, 0) = b0 /\ Digit(x, 1) = b1 /\ Digit(x, 2) = b2 /\ Digit(x, 3) = b3
         /\ Digit(x, 4) = b4 /\ Digit(x, 5) = b5 /\ Digit(x, 6) = b6 /\ Digit(x, 7) = b7
<1>1. /\ x \in Byte
      /\ (x \div 1) % 2 = b0 /\ (x \div 2) % 2 = b1 /\ (x \div 4) % 2 = b2
      /\ (x \div 8) % 2 = b3 /\ (x \div 16) % 2 = b4 /\ (x \div 32) % 2 = b5
      /\ (x \div 64) % 2 = b6 /\ (x \div 128) % 2 = b7
  BY DEF Byte
<1> QED
  BY <1>1, Powers, Zenon DEF Digit

(* A byte is the sum of its eight digits.                                  *)
LEMMA SumOfDigits ==
  ASSUME NEW x \in Byte
  PROVE  /\ x = Digit(x, 0) + 2 * Digit(x, 1) + 4 * Digit(x, 2) + 8 * Digit(x, 3)
              + 16 * Digit(x, 4) + 32 * Digit(x, 5) + 64 * Digit(x, 6) + 128 * Digit(x, 7)
         /\ \A b \in 0 .. 7 : Digit(x, b) \in 0 .. 1
<1>1. /\ x = ((x \div 1) % 2) + 2 * ((x \div 2) % 2) + 4 * ((x \div 4) % 2) + 8 * ((x \div 8) % 2)
              + 16 * ((x \div 16) % 2) + 32 * ((x \div 32) % 2)
              + 64 * ((x \div 64) % 2) + 128 * ((x \div 128) % 2)
      /\ (x \div 1) % 2 \in 0 .. 1 /\ (x \div 2) % 2 \in 0 .. 1 /\ (x \div 4) % 2 \in 0 .. 1
      /\ (x \div 8) % 2 \in 0 .. 1 /\ (x \div 16) % 2 \in 0 .. 1 /\ (x \div 32) % 2 \in 0 .. 1
      /\ (x \div 64) % 2 \in 0 .. 1 /\ (x \div 128) % 2 \in 0 .. 1
  BY DEF Byte
<1>2. \A b \in 0 .. 7 : b = 0 \/ b = 1 \/ b = 2 \/ b = 3 \/ b = 4 \/ b = 5 \/ b = 6 \/ b = 7
  OBVIOUS
<1>3. /\ Digit(x, 0) = (x \div 1) % 2 /\ Digit(x, 1) = (x \div 2) % 2
      /\ Digit(x, 2) = (x \div 4) % 2 /\ Digit(x, 3) = (x \div 8) % 2
      /\ Digit(x, 4) = (x \div 16) % 2 /\ Digit(x, 5) = (x \div 32) % 2
      /\ Digit(x, 6) = (x \div 64) % 2 /\ Digit(x, 7) = (x \div 128) % 2
  BY Powers, Zenon DEF Digit
<1>4. ASSUME NEW b \in 0 .. 7 PROVE Digit(x, b) \in 0 .. 1
  <2>1. /\ Digit(x, 0) \in 0 .. 1 /\ Digit(x, 1) \in 0 .. 1 /\ Digit(x, 2) \in 0 .. 1
        /\ Digit(x, 3) \in 0 .. 1 /\ Digit(x, 4) \in 0 .. 1 /\ Digit(x, 5) \in 0 .. 1
        /\ Digit(x, 6) \in 0 .. 1 /\ Digit(x, 7) \in 0 .. 1
    BY <1>1, <1>3, Zenon
  <2> QED
    BY <1>2, <2>1
<1> QED
  BY <1>1, <1>3, <1>4, Zenon

(* The bits that are set are the digits that are 1.                        *)
LEMMA BitsAre ==
  ASSUME NEW x
  PROVE  Bits(x) \subseteq 0 .. 7 /\ \A b \in 0 .. 7 : b \in Bits(x) <=> Digit(x, b) = 1
BY Zenon DEF Bits, Digit

DigitIn(S, b) == IF b \in S THEN 1 ELSE 0

(* Number() adds the digits of a set of bits.                              *)
LEMMA NumberIs ==
  ASSUME NEW S
  PROVE  Number(S) = DigitIn(S, 0) + 2 * DigitIn(S, 1) + 4 * DigitIn(S, 2) + 8 * DigitIn(S, 3)
                     + 16 * DigitIn(S, 4) + 32 * DigitIn(S, 5) + 64 * DigitIn(S, 6)
                     + 128 * DigitIn(S, 7)
BY Powers DEF Number, DigitIn

(* What Number() makes of a set of bits has just these bits set.           *)
LEMMA BitsOfNumber ==
  ASSUME NEW S \in SUBSET (0 .. 7)
  PROVE  Number(S) \in Byte /\ Bits(Number(S)) = S
<1>1. \A b : DigitIn(S, b) \in 0 .. 1 /\ (DigitIn(S, b) = 1 <=> b \in S)
  BY DEF DigitIn
<1>2. PICK b0 \in 0 .. 1 : b0 = DigitIn(S, 0)
  BY <1>1, Zenon
<1>3. PICK b1 \in 0 .. 1 : b1 = DigitIn(S, 1)
  BY <1>1, Zenon
<1>4. PICK b2 \in 0 .. 1 : b2 = DigitIn(S, 2)
  BY <1>1, Zenon
<1>5. PICK b3 \in 0 .. 1 : b3 = DigitIn(S, 3)
  BY <1>1, Zenon
<1>6. PICK b4 \in 0 .. 1 : b4 = DigitIn(S, 4)
  BY <1>1, Zenon
<1>7. PICK b5 \in 0 .. 1 : b5 = DigitIn(S, 5)
  BY <1>1, Zenon
<1>8. PICK b6 \in 0 .. 1 : b6 = DigitIn(S, 6)
  BY <1>1, Zenon
<1>9. PICK b7 \in 0 .. 1 : b7 = DigitIn(S, 7)
  BY <1>1, Zenon
<1> DEFINE x == Number(S)
<1>10. x = b0 + 2 * b1 + 4 * b2 + 8 * b3 + 16 * b4 + 32 * b5 + 64 * b6 + 128 * b7
  BY <1>2, <1>3, <1>4, <1>5, <1>6, <1>7, <1>8, <1>9, NumberIs, Zenon
<1> HIDE DEF x
<1>11. /\ x \in Byte
       /\ Digit(x, 0) = b0 /\ Digit(x, 1) = b1 /\ Digit(x, 2) = b2 /\ Digit(x, 3) = b3
       /\ Digit(x, 4) = b4 /\ Digit(x, 5) = b5 /\ Digit(x, 6) = b6 /\ Digit(x, 7) = b7
  BY <1>10, EightBits
<1>12. ASSUME NEW b \in 0 .. 7 PROVE Digit(x, b) = DigitIn(S, b)
  <2>1. b = 0 \/ b = 1 \/ b = 2 \/ b = 3 \/ b = 4 \/ b = 5 \/ b = 6 \/ b = 7
    OBVIOUS
  <2> QED
    BY <1>2, <1>3, <1>4, <1>5, <1>6, <1>7, <1>8, <1>9, <1>11, <2>1, Zenon
<1>13. \A b \in 0 .. 7 : b \in Bits(x) <=> b \in S
  BY <1>1, <1>12, BitsAre, Zenon
<1>14. Bits(x) = S
  <2>1. Bits(x) \subseteq 0 .. 7
    BY BitsAre, Zenon
  <2> HIDE DEF x
  <2> QED
    BY <1>13, <2>1
<1> QED
  BY <1>11, <1>14 DEF x

(* Number() undoes Bits().                                                 *)
LEMMA NumberOfBits ==
  ASSUME NEW x \in Byte
  PROVE  Number(Bits(x)) = x
<1>1. ASSUME NEW b \in 0 .. 7 PROVE Digit(x, b) = DigitIn(Bits(x), b)
  <2>1. Digit(x, b) \in 0 .. 1
    BY SumOfDigits
  <2>2. b \in Bits(x) <=> Digit(x, b) = 1
    BY BitsAre
  <2> QED
    BY <2>1, <2>2 DEF DigitIn
<1>2. 0 \in 0 .. 7 /\ 1 \in 0 .. 7 /\ 2 \in 0 .. 7 /\ 3 \in 0 .. 7
      /\ 4 \in 0 .. 7 /\ 5 \in 0 .. 7 /\ 6 \in 0 .. 7 /\ 7 \in 0 .. 7
  OBVIOUS
<1>3. /\ Digit(x, 0) = DigitIn(Bits(x), 0) /\ Digit(x, 1) = DigitIn(Bits(x), 1)
      /\ Digit(x, 2) = DigitIn(Bits(x), 2) /\ Digit(x, 3) = DigitIn(Bits(x), 3)
      /\ Digit(x, 4) = DigitIn(Bits(x), 4) /\ Digit(x, 5) = DigitIn(Bits(x), 5)
      /\ Digit(x, 6) = DigitIn(Bits(x), 6) /\ Digit(x, 7) = DigitIn(Bits(x), 7)
  BY <1>1, <1>2, Zenon
<1>4. x = DigitIn(Bits(x), 0) + 2 * DigitIn(Bits(x), 1) + 4 * DigitIn(Bits(x), 2)
          + 8 * DigitIn(Bits(x), 3) + 16 * DigitIn(Bits(x), 4) + 32 * DigitIn(Bits(x), 5)
          + 64 * DigitIn(Bits(x), 6) + 128 * DigitIn(Bits(x), 7)
  <2>1. x = Digit(x, 0) + 2 * Digit(x, 1) + 4 * Digit(x, 2) + 8 * Digit(x, 3)
            + 16 * Digit(x, 4) + 32 * Digit(x, 5) + 64 * Digit(x, 6) + 128 * Digit(x, 7)
    BY SumOfDigits
  <2> QED
    BY <1>3, <2>1, Zenon
<1> QED
  BY <1>4, NumberIs, Zenon
-----------------------------------------------------------------------------
(* Xor on bytes is the symmetric difference of their bits.                 *)
LEMMA XorBits ==
  ASSUME NEW x, NEW y
  PROVE  Xor(x, y) \in Byte /\ Bits(Xor(x, y)) = SymDiff(Bits(x), Bits(y))
<1>1. Bits(x) \subseteq 0 .. 7 /\ Bits(y) \subseteq 0 .. 7
  BY BitsAre
<1>2. SymDiff(Bits(x), Bits(y)) \in SUBSET (0 .. 7)
  BY <1>1 DEF SymDiff
<1> QED
  BY <1>2, BitsOfNumber, Zenon DEF Xor

(* Subtraction of polynomials over bits is associative and commutative.    *)
LEMMA SymDiffLaws ==
  /\ \A A, B, C : SymDiff(SymDiff(A, B), C) = SymDiff(A, SymDiff(B, C))
  /\ \A A, B : SymDiff(A, B) = SymDiff(B, A)
  /\ \A A : SymDiff(A, {}) = A /\ SymDiff({}, A) = A
BY DEF SymDiff

(* One turn of the inner loop on the bits: they move up by one, and if one *)
(* falls out, the polynomial is subtracted.                                *)
Up(S) == {b + 1 : b \in S \ {7}}

Shifted(S) == IF 7 \in S THEN SymDiff(Up(S), {0, 1, 2}) ELSE Up(S)

(* One turn of crc8's inner loop is one such move of the bits.             *)
LEMMA ShiftBits ==
  ASSUME NEW c \in Byte
  PROVE  CrcShift[c] \in Byte /\ Bits(CrcShift[c]) = Shifted(Bits(c))
<1>1. 7 \in Bits(c) <=> c >= 128
  <2>1. Digit(c, 7) = (c \div 128) % 2
    BY Powers, Zenon DEF Digit
  <2>2. (c \div 128) % 2 = 1 <=> c >= 128
    BY DEF Byte
  <2> QED
    BY <2>1, <2>2, BitsAre
<1> DEFINE d == (2 * c) % 256
<1>2. d \in Byte /\ (c < 128 => d = 2 * c)
  BY DEF Byte
<1>3. Digit(d, 0) = 0 /\ \A b \in 0 .. 6 : Digit(d, b + 1) = Digit(c, b)
  <2>1. /\ (d \div 1) % 2 = 0 /\ (d \div 2) % 2 = (c \div 1) % 2 /\ (d \div 4) % 2 = (c \div 2) % 2
        /\ (d \div 8) % 2 = (c \div 4) % 2 /\ (d \div 16) % 2 = (c \div 8) % 2
        /\ (d \div 32) % 2 = (c \div 16) % 2 /\ (d \div 64) % 2 = (c \div 32) % 2
        /\ (d \div 128) % 2 = (c \div 64) % 2
    BY SMTT(60) DEF Byte
  <2> HIDE DEF d
  <2>2. /\ Digit(d, 0) = 0 /\ Digit(d, 1) = Digit(c, 0) /\ Digit(d, 2) = Digit(c, 1)
        /\ Digit(d, 3) = Digit(c, 2) /\ Digit(d, 4) = Digit(c, 3) /\ Digit(d, 5) = Digit(c, 4)
        /\ Digit(d, 6) = Digit(c, 5) /\ Digit(d, 7) = Digit(c, 6)
    BY <2>1, Powers, Zenon DEF Digit
  <2>3. ASSUME NEW b \in 0 .. 6 PROVE Digit(d, b + 1) = Digit(c, b)
    <3>1. b = 0 \/ b = 1 \/ b = 2 \/ b = 3 \/ b = 4 \/ b = 5 \/ b = 6
      OBVIOUS
    <3>2. 0 + 1 = 1 /\ 1 + 1 = 2 /\ 2 + 1 = 3 /\ 3 + 1 = 4 /\ 4 + 1 = 5 /\ 5 + 1 = 6 /\ 6 + 1 = 7
      OBVIOUS
    <3> QED
      BY <2>2, <3>1, <3>2, Zenon
  <2> QED
    BY <2>2, <2>3, Zenon
<1> HIDE DEF d
<1>4. Bits(d) = Up(Bits(c))
  <2>1. /\ Bits(c) \subseteq 0 .. 7 /\ \A b \in 0 .. 7 : b \in Bits(c) <=> Digit(c, b) = 1
        /\ Bits(d) \subseteq 0 .. 7 /\ \A b \in 0 .. 7 : b \in Bits(d) <=> Digit(d, b) = 1
    BY BitsAre, Zenon
  <2>2. 0 \notin Bits(d)
    BY <1>3, <2>1
  <2>3. \A b \in 0 .. 6 : b + 1 \in Bits(d) <=> b \in Bits(c)
    BY <1>3, <2>1
  <2> DEFINE D == Bits(d)
             C == Bits(c)
  <2>4. D \subseteq 0 .. 7 /\ C \subseteq 0 .. 7 /\ 0 \notin D /\ \A b \in 0 .. 6 : b + 1 \in D <=> b \in C
    BY <2>1, <2>2, <2>3
  <2> HIDE DEF D, C
  <2>5. ASSUME NEW e PROVE e \in D <=> e \in Up(C)
    <3>1. e \in Up(C) <=> \E b \in C \ {7} : e = b + 1
      BY DEF Up
    <3>2. e \in D => e \in Up(C)
      <4> SUFFICES ASSUME e \in D PROVE e \in Up(C)
        OBVIOUS
      <4>1. e \in 1 .. 7 /\ e - 1 \in 0 .. 6 /\ e = (e - 1) + 1
        BY <2>4
      <4>2. e - 1 \in C
        BY <2>4, <4>1
      <4> QED
        BY <3>1, <4>1, <4>2
    <3>3. e \in Up(C) => e \in D
      <4> SUFFICES ASSUME NEW b \in C \ {7}, e = b + 1 PROVE e \in D
        BY <3>1
      <4>1. b \in 0 .. 6
        BY <2>4
      <4> QED
        BY <2>4, <4>1
    <3> QED
      BY <3>2, <3>3
  <2>6. D = Up(C)
    BY <2>5
  <2> QED
    BY <2>6 DEF D, C
<1>5. Bits(7) = {0, 1, 2}
  <2>1. Digit(7, 0) = 1 /\ Digit(7, 1) = 1 /\ Digit(7, 2) = 1 /\ \A b \in 3 .. 7 : Digit(7, b) = 0
    <3>1. /\ (7 \div 1) % 2 = 1 /\ (7 \div 2) % 2 = 1 /\ (7 \div 4) % 2 = 1 /\ (7 \div 8) % 2 = 0
          /\ (7 \div 16) % 2 = 0 /\ (7 \div 32) % 2 = 0 /\ (7 \div 64) % 2 = 0 /\ (7 \div 128) % 2 = 0
      OBVIOUS
    <3>2. /\ Digit(7, 0) = 1 /\ Digit(7, 1) = 1 /\ Digit(7, 2) = 1 /\ Digit(7, 3) = 0
          /\ Digit(7, 4) = 0 /\ Digit(7, 5) = 0 /\ Digit(7, 6) = 0 /\ Digit(7, 7) = 0
      BY <3>1, Powers, Zenon DEF Digit
    <3> QED
      BY <3>2
  <2>2. Bits(7) \subseteq 0 .. 7 /\ \A b \in 0 .. 7 : b \in Bits(7) <=> Digit(7, b) = 1
    BY BitsAre, Zenon
  <2> QED
    BY <2>1, <2>2
<1>6. CASE c >= 128
  <2>1. CrcShift[c] = Xor(d, 7)
    BY <1>6 DEF CrcShift, d
  <2> QED
    BY <1>1, <1>4, <1>5, <1>6, <2>1, XorBits, Zenon DEF Shifted
<1>7. CASE ~(c >= 128)
  <2>1. CrcShift[c] = d
    <3>1. CrcShift[c] = 2 * c
      BY <1>7 DEF CrcShift
    <3>2. c < 128
      BY <1>7 DEF Byte
    <3> QED
      BY <1>2, <3>1, <3>2
  <2> QED
    BY <1>1, <1>2, <1>4, <1>7, <2>1, Zenon DEF Shifted
<1> QED
  BY <1>6, <1>7
-----------------------------------------------------------------------------
(* Counting up: what holds of 0, and of every number up to n if it holds   *)
(* of the one before.                                                      *)
LEMMA Counting ==
  ASSUME NEW n \in Nat, NEW P, 0 \in P, \A i \in 1 .. n : i - 1 \in P => i \in P
  PROVE  \A i \in 0 .. n : i \in P
<1> DEFINE Bad == {i \in 0 .. n : i \notin P}
<1> SUFFICES ASSUME Bad # {} PROVE FALSE
  OBVIOUS
<1>1. PICK i \in Bad : \A k \in Bad : i <= k
  <2>1. Bad \subseteq Nat
    OBVIOUS
  <2> HIDE DEF Bad
  <2> QED
    BY <2>1, Parsers!LeastNat
<1>2. i \in 1 .. n /\ i - 1 \in 0 .. n /\ ~(i <= i - 1)
  OBVIOUS
<1>3. i - 1 \in P
  BY <1>1, <1>2
<1> QED
  BY <1>1, <1>2, <1>3

(* What n steps do, one after the other.                                   *)
Steps(f, n, base, G) == f[0] = base /\ \A i \in 1 .. n : f[i] = G[i][f[i - 1]]

(* They can be done: there is a function that lists what each one leaves.  *)
LEMMA StepsDefined ==
  ASSUME NEW n \in Nat, NEW V, NEW base \in V, NEW G, \A i \in 1 .. n : \A v \in V : G[i][v] \in V
  PROVE  \E f \in [0 .. n -> V] : Steps(f, n, base, G)
<1> DEFINE P == {m \in 0 .. n : \E f \in [0 .. m -> V] : Steps(f, m, base, G)}
<1>1. 0 \in P
  <2> DEFINE f == [i \in 0 .. 0 |-> base]
  <2>1. f \in [0 .. 0 -> V] /\ Steps(f, 0, base, G)
    BY DEF Steps
  <2> HIDE DEF f
  <2> QED
    BY <2>1
<1>2. ASSUME NEW m \in 1 .. n, m - 1 \in P PROVE m \in P
  <2>1. PICK f \in [0 .. m - 1 -> V] : Steps(f, m - 1, base, G)
    BY <1>2
  <2> DEFINE g == [i \in 0 .. m |-> IF i = m THEN G[m][f[m - 1]] ELSE f[i]]
  <2>2. g \in [0 .. m -> V]
    <3>1. \A i \in 0 .. m : i # m => i \in 0 .. m - 1
      OBVIOUS
    <3>2. m - 1 \in 0 .. m - 1
      OBVIOUS
    <3> QED
      BY <3>1, <3>2
  <2>3. g[0] = base
    BY <2>1 DEF Steps
  <2>4. ASSUME NEW i \in 1 .. m PROVE g[i] = G[i][g[i - 1]]
    <3>1. i - 1 \in 0 .. m /\ i \in 0 .. m /\ i - 1 # m
      OBVIOUS
    <3>2. g[i - 1] = f[i - 1]
      BY <3>1
    <3>3. CASE i = m
      <4>1. g[i] = G[m][f[m - 1]]
        BY <3>1, <3>3
      <4> HIDE DEF g
      <4> QED
        BY <3>2, <3>3, <4>1
    <3>4. CASE i # m
      <4>1. g[i] = f[i]
        BY <3>1, <3>4
      <4>2. i \in 1 .. m - 1
        BY <3>4
      <4>3. f[i] = G[i][f[i - 1]]
        BY <2>1, <4>2, Zenon DEF Steps
      <4> HIDE DEF g
      <4> QED
        BY <3>2, <4>1, <4>3
    <3> QED
      BY <3>3, <3>4
  <2> HIDE DEF g
  <2>5. Steps(g, m, base, G)
    BY <2>3, <2>4 DEF Steps
  <2>6. m \in 0 .. n
    OBVIOUS
  <2> QED
    BY <2>2, <2>5, <2>6
<1>3. n \in P
  <2>1. n \in 0 .. n
    OBVIOUS
  <2> HIDE DEF P
  <2> QED
    BY <1>1, <1>2, <2>1, Counting
<1> QED
  BY <1>3

(* Whatever function lists them, it stays where the steps do.              *)
LEMMA StepsStay ==
  ASSUME NEW n \in Nat, NEW V, NEW base \in V, NEW G, \A i \in 1 .. n : \A v \in V : G[i][v] \in V,
         NEW f, Steps(f, n, base, G)
  PROVE  \A i \in 0 .. n : f[i] \in V
<1> DEFINE P == {i \in 0 .. n : f[i] \in V}
<1>1. 0 \in P
  BY DEF Steps
<1>2. ASSUME NEW i \in 1 .. n, i - 1 \in P PROVE i \in P
  BY <1>2 DEF Steps
<1>3. \A i \in 0 .. n : i \in P
  <2> HIDE DEF P
  <2> QED
    BY <1>1, <1>2, Counting
<1> QED
  BY <1>3

(* A byte, and the checksum, are shifted and added within a byte.          *)
ShiftedBy(f, byte) == [j \in 0 .. 8 |-> IF j = 0 THEN byte ELSE CrcShift[f[j - 1]]]

(* The inner loop of crc8 is eight turns, one after the other.             *)
LEMMA CrcOfByteUnfolds ==
  ASSUME NEW byte \in Byte
  PROVE  \E f \in [0 .. 8 -> Byte] :
           /\ f[0] = byte /\ \A j \in 1 .. 8 : f[j] = CrcShift[f[j - 1]]
           /\ CrcOfByte[byte] = f[8]
<1> DEFINE G == [j \in 1 .. 8 |-> CrcShift]
           S == CHOOSE f : f = ShiftedBy(f, byte)
<1>1. \A j \in 1 .. 8 : \A v \in Byte : G[j][v] \in Byte
  BY ShiftBits
<1>2. \E f : f = ShiftedBy(f, byte)
  <2>1. PICK f \in [0 .. 8 -> Byte] : Steps(f, 8, byte, G)
    <3> HIDE DEF G
    <3> QED
      BY <1>1, StepsDefined
  <2>2. \A j \in 0 .. 8 : f[j] = IF j = 0 THEN byte ELSE CrcShift[f[j - 1]]
    BY <2>1 DEF Steps
  <2>3. f = ShiftedBy(f, byte)
    BY <2>2 DEF ShiftedBy
  <2> QED
    BY <2>3
<1>3. S = ShiftedBy(S, byte)
  BY <1>2, Zenon
<1>4. CrcOfByte[byte] = S[8]
  BY Zenon DEF CrcOfByte, ShiftedBy
<1> HIDE DEF S
<1>5. S[0] = byte /\ \A j \in 1 .. 8 : S[j] = CrcShift[S[j - 1]]
  BY <1>3 DEF ShiftedBy
<1>6. Steps(S, 8, byte, G)
  BY <1>5 DEF Steps
<1>7. \A j \in 0 .. 8 : S[j] \in Byte
  <2> HIDE DEF G
  <2> QED
    BY <1>1, <1>6, StepsStay
<1>8. S \in [0 .. 8 -> Byte]
  BY <1>3, <1>7 DEF ShiftedBy
<1> QED
  BY <1>4, <1>5, <1>8

(* The outer loop of crc8 is one such step for each byte, from 0 on.       *)
LEMMA Crc8Unfolds ==
  ASSUME NEW data \in Seq(Byte)
  PROVE  \E f \in [0 .. Len(data) -> Byte] :
           /\ f[0] = 0 /\ \A i \in 1 .. Len(data) : f[i] = CrcOfByte[Xor(data[i], f[i - 1])]
           /\ Crc8(data) = f[Len(data)]
<1> DEFINE n == Len(data)
           R(f) == [i \in 0 .. n |-> IF i = 0 THEN 0 ELSE CrcOfByte[Xor(data[i], f[i - 1])]]
           G == [i \in 1 .. n |-> [v \in Byte |-> CrcOfByte[Xor(data[i], v)]]]
           S == CHOOSE f : f = R(f)
<1>1. n \in Nat /\ 0 \in Byte
  BY DEF Byte
<1>2. Crc8(data) = S[n]
  BY Zenon DEF Crc8
<1>3. ASSUME NEW byte \in Byte PROVE CrcOfByte[byte] \in Byte
  <2>1. PICK f \in [0 .. 8 -> Byte] : CrcOfByte[byte] = f[8]
    BY CrcOfByteUnfolds
  <2> QED
    BY <2>1
<1>4. \A i \in 1 .. n : \A v \in Byte : G[i][v] = CrcOfByte[Xor(data[i], v)] /\ G[i][v] \in Byte
  BY <1>3, XorBits
<1> HIDE DEF n
<1>5. \E f : f = R(f)
  <2>1. PICK f \in [0 .. n -> Byte] : Steps(f, n, 0, G)
    <3> HIDE DEF G
    <3> QED
      BY <1>1, <1>4, StepsDefined
  <2> HIDE DEF G
  <2>2. ASSUME NEW i \in 0 .. n PROVE f[i] = IF i = 0 THEN 0 ELSE CrcOfByte[Xor(data[i], f[i - 1])]
    <3>1. CASE i = 0
      BY <2>1, <3>1 DEF Steps
    <3>2. CASE i # 0
      <4>1. i \in 1 .. n /\ i - 1 \in 0 .. n
        BY <1>1, <3>2
      <4> QED
        BY <1>4, <2>1, <3>2, <4>1 DEF Steps
    <3> QED
      BY <3>1, <3>2
  <2>3. f = R(f)
    BY <2>2
  <2> HIDE DEF R
  <2> QED
    BY <2>3
<1>6. S = R(S)
  <2> HIDE DEF R
  <2> QED
    BY <1>5, Zenon
<1> HIDE DEF S
<1>7. S[0] = 0 /\ \A i \in 1 .. n : S[i] = CrcOfByte[Xor(data[i], S[i - 1])]
  BY <1>1, <1>6
<1>8. \A i \in 0 .. n : S[i] \in Byte
  <2> DEFINE P == {i \in 0 .. n : S[i] \in Byte}
  <2>1. 0 \in P
    BY <1>1, <1>7
  <2>2. ASSUME NEW i \in 1 .. n, i - 1 \in P PROVE i \in P
    <3>1. S[i] \in Byte
      BY <1>3, <1>7, XorBits
    <3> QED
      BY <3>1
  <2>3. \A i \in 0 .. n : i \in P
    <3> HIDE DEF P
    <3> QED
      BY <1>1, <2>1, <2>2, Counting
  <2> QED
    BY <2>3
<1>9. S \in [0 .. n -> Byte]
  BY <1>6, <1>8
<1> QED
  BY <1>2, <1>7, <1>9 DEF n

(* A checksum fits in the byte it is sent in.                              *)
LEMMA Crc8IsByte ==
  ASSUME NEW data \in Seq(Byte)
  PROVE  Crc8(data) \in Byte
<1>1. PICK f \in [0 .. Len(data) -> Byte] : Crc8(data) = f[Len(data)]
  BY Crc8Unfolds
<1>2. Len(data) \in 0 .. Len(data)
  OBVIOUS
<1> QED
  BY <1>1, <1>2
-----------------------------------------------------------------------------
(* A polynomial times x^v.                                                 *)
At(S, v) == {b + v : b \in S}

(* Its exponents are v higher.                                             *)
LEMMA AtMembers ==
  ASSUME NEW S, S \subseteq Int, NEW v \in Int
  PROVE  At(S, v) \subseteq Int /\ \A x \in Int : x \in At(S, v) <=> x - v \in S
<1>1. \A x : x \in At(S, v) <=> \E b \in S : x = b + v
  BY DEF At
<1>2. ASSUME NEW x \in Int PROVE x \in At(S, v) <=> x - v \in S
  <2>1. x - v \in S => x \in At(S, v)
    <3>1. x = (x - v) + v
      OBVIOUS
    <3> QED
      BY <1>1, <3>1
  <2>2. \A b \in S : x = b + v => x - v = b
    OBVIOUS
  <2> QED
    BY <1>1, <2>1, <2>2
<1>3. At(S, v) \subseteq Int
  BY DEF At
<1> QED
  BY <1>2, <1>3

(* It can be multiplied before or after a subtraction.                     *)
LEMMA AtOfSum ==
  ASSUME NEW A, A \subseteq Int, NEW B, B \subseteq Int, NEW v \in Int
  PROVE  At(SymDiff(A, B), v) = SymDiff(At(A, v), At(B, v))
<1> DEFINE C == SymDiff(A, B)
<1>1. C \subseteq Int /\ \A x : x \in C <=> ~(x \in A <=> x \in B)
  BY DEF SymDiff
<1> HIDE DEF C
<1>2. /\ At(A, v) \subseteq Int /\ \A x \in Int : x \in At(A, v) <=> x - v \in A
      /\ At(B, v) \subseteq Int /\ \A x \in Int : x \in At(B, v) <=> x - v \in B
      /\ At(C, v) \subseteq Int /\ \A x \in Int : x \in At(C, v) <=> x - v \in C
  BY <1>1, AtMembers, Zenon
<1>3. \A x : x \in SymDiff(At(A, v), At(B, v)) <=> ~(x \in At(A, v) <=> x \in At(B, v))
  BY DEF SymDiff
<1>4. ASSUME NEW x PROVE x \in At(C, v) <=> x \in SymDiff(At(A, v), At(B, v))
  <2>1. CASE x \in Int
    BY <1>1, <1>2, <1>3, <2>1, Zenon
  <2>2. CASE x \notin Int
    BY <1>2, <1>3, <2>2, Zenon
  <2> QED
    BY <2>1, <2>2
<1> QED
  BY <1>4, Zenon DEF C

(* One turn of the division, at exponent e: where that is just above the   *)
(* byte, it does to the byte what one turn of crc8's loop does.            *)
Divides(p, e) == IF e \in p THEN SymDiff(p, {e, e - 6, e - 7, e - 8}) ELSE p

(* B is the byte above, R what is left of the message below.               *)
LEMMA DivisionTurn ==
  ASSUME NEW B \in SUBSET (0 .. 7), NEW R \in SUBSET Int, NEW v \in Int,
         \A r \in R : r < v + 8,
         NEW p, p = SymDiff(At(B, v + 1), R), NEW e, e = v + 8
  PROVE  Divides(p, e) = SymDiff(At(Shifted(B), v), R)
<1> DEFINE M == At(B, v + 1)
           U == At(Up(B), v)
           N == {v, v + 1, v + 2}
<1>1. M \subseteq Int /\ \A x \in Int : x \in M <=> x - (v + 1) \in B
  <2>1. B \subseteq Int /\ v + 1 \in Int
    OBVIOUS
  <2> QED
    BY <2>1, AtMembers
<1>2. Up(B) \subseteq Int /\ \A y \in Int : y \in Up(B) <=> y - 1 \in B \ {7}
  <2>1. Up(B) = At(B \ {7}, 1)
    BY DEF Up, At
  <2> DEFINE K == B \ {7}
  <2>2. K \subseteq Int /\ 1 \in Int
    OBVIOUS
  <2> HIDE DEF K
  <2>3. At(K, 1) \subseteq Int /\ \A y \in Int : y \in At(K, 1) <=> y - 1 \in K
    BY <2>2, AtMembers
  <2>4. Up(B) = At(K, 1)
    BY <2>1 DEF K
  <2>5. Up(B) \subseteq Int /\ \A y \in Int : y \in Up(B) <=> y - 1 \in K
    BY <2>3, <2>4, Zenon
  <2> QED
    BY <2>5 DEF K
<1>3. U \subseteq Int /\ \A x \in Int : x \in U <=> (x - (v + 1) \in B /\ x # e)
  <2>1. U \subseteq Int /\ \A x \in Int : x \in U <=> x - v \in Up(B)
    BY <1>2, AtMembers
  <2>2. ASSUME NEW x \in Int PROVE x \in U <=> (x - (v + 1) \in B /\ x # e)
    <3>1. x - v \in Int /\ (x - v) - 1 = x - (v + 1) /\ (x - (v + 1) = 7 <=> x = e)
      OBVIOUS
    <3>2. x - v \in Up(B) <=> (x - v) - 1 \in B \ {7}
      BY <1>2, <3>1
    <3> HIDE DEF U
    <3> QED
      BY <2>1, <3>1, <3>2
  <2> QED
    BY <2>1, <2>2
<1>4. At({0, 1, 2}, v) = N
  BY DEF At
<1>5. e \in Int /\ e - (v + 1) = 7 /\ {e, e - 6, e - 7, e - 8} = N \cup {e} /\ e \notin N
      /\ N \subseteq Int
  OBVIOUS
<1>6. e \notin R
  OBVIOUS
<1> HIDE DEF M, U, N
<1>7. p = SymDiff(M, R)
  BY DEF M
<1>8. e \in p <=> 7 \in B
  <2>1. e \in M <=> 7 \in B
    BY <1>1, <1>5
  <2> QED
    BY <1>6, <1>7, <2>1 DEF SymDiff
<1>9. CASE 7 \in B
  <2>1. e \in M /\ M = U \cup {e} /\ e \notin U
    <3>1. \A x \in Int : x \in M <=> (x \in U \/ x = e)
      BY <1>1, <1>3, <1>5, <1>9
    <3>2. e \notin U
      BY <1>3, <1>5
    <3> QED
      BY <1>1, <1>3, <1>5, <3>1, <3>2
  <2>2. SymDiff(p, N \cup {e}) = SymDiff(SymDiff(U, N), R)
    BY <1>5, <1>6, <1>7, <2>1 DEF SymDiff
  <2>3. At(SymDiff(Up(B), {0, 1, 2}), v) = SymDiff(U, N)
    <3> DEFINE T == {0, 1, 2}
               V == Up(B)
    <3>1. T \subseteq Int /\ V \subseteq Int
      BY <1>2
    <3>2. At(T, v) = N /\ At(V, v) = U
      BY <1>4 DEF U
    <3> HIDE DEF T, V
    <3>3. At(SymDiff(V, T), v) = SymDiff(At(V, v), At(T, v))
      BY <3>1, AtOfSum
    <3>4. At(SymDiff(V, T), v) = SymDiff(U, N)
      BY <3>2, <3>3, Zenon
    <3> QED
      BY <3>4 DEF T, V
  <2> QED
    BY <1>5, <1>8, <1>9, <2>2, <2>3, Zenon DEF Divides, Shifted
<1>10. CASE 7 \notin B
  <2>1. M = U
    <3>1. \A x \in Int : x \in M <=> x \in U
      BY <1>1, <1>3, <1>5, <1>10
    <3> QED
      BY <1>1, <1>3, <3>1
  <2> QED
    BY <1>7, <1>8, <1>10, <2>1, Zenon DEF U, Divides, Shifted
<1> QED
  BY <1>9, <1>10

(* Remainder() divides turn by turn, from the highest exponent down.       *)
LEMMA RemainderUnfolds ==
  ASSUME NEW data \in Seq(Byte)
  PROVE  \E f : /\ f[0] = Message(data)
                /\ \A k \in 1 .. 8 * Len(data) : f[k] = Divides(f[k - 1], 8 * Len(data) + 8 - k)
                /\ Remainder(data) = Number(f[8 * Len(data)])
<1> DEFINE top == 8 * Len(data) + 8
           n == 8 * Len(data)
           R(f) == [k \in 0 .. top - 8 |->
                      IF k = 0 THEN Message(data)
                      ELSE LET p == f[k - 1]
                               e == top - k
                           IN  IF e \in p THEN SymDiff(p, {e, e - 6, e - 7, e - 8}) ELSE p]
           S == CHOOSE f : f = R(f)
<1>1. n \in Nat /\ top \in Nat /\ top - 8 = n
  BY LenProperties
<1>2. Message(data) \in SUBSET Int
  <2>1. \A i \in DOMAIN data : 8 * (Len(data) - i + 1) \in Int
    OBVIOUS
  <2>2. \A i \in DOMAIN data : Bits(data[i]) \subseteq Int
    BY BitsAre
  <2>3. ASSUME NEW i \in DOMAIN data PROVE {8 * (Len(data) - i + 1) + b : b \in Bits(data[i])} \subseteq Int
    BY <2>1, <2>2
  <2> QED
    BY <2>3 DEF Message
<1>3. Remainder(data) = Number(S[top - 8])
  BY Zenon DEF Remainder
<1> HIDE DEF n, top
<1>4. ASSUME NEW k \in 1 .. n PROVE \A p \in SUBSET Int : Divides(p, top - k) \in SUBSET Int
  <2>1. top - k \in Int
    BY <1>1
  <2> DEFINE e == top - k
  <2> HIDE DEF e
  <2>2. {e, e - 6, e - 7, e - 8} \subseteq Int
    BY <2>1 DEF e
  <2>3. \A p \in SUBSET Int : Divides(p, e) \in SUBSET Int
    BY <2>2 DEF Divides, SymDiff
  <2> QED
    BY <2>3 DEF e
<1> DEFINE W == SUBSET Int
           H == [k \in 1 .. n |-> [p \in W |-> Divides(p, top - k)]]
<1>5. \A k \in 1 .. n : \A p \in W : H[k][p] = Divides(p, top - k) /\ H[k][p] \in W
  BY <1>4
<1>6. \E f : f = R(f)
  <2>1. PICK f \in [0 .. n -> W] : Steps(f, n, Message(data), H)
    <3>1. Message(data) \in W
      BY <1>2
    <3>2. \A k \in 1 .. n : \A p \in W : H[k][p] \in W
      BY <1>5
    <3> HIDE DEF H, W
    <3> QED
      BY <1>1, <3>1, <3>2, StepsDefined
  <2> HIDE DEF H
  <2>2. ASSUME NEW k \in 0 .. n
        PROVE  f[k] = IF k = 0 THEN Message(data) ELSE Divides(f[k - 1], top - k)
    <3>1. CASE k = 0
      BY <2>1, <3>1 DEF Steps
    <3>2. CASE k # 0
      <4>1. k \in 1 .. n /\ k - 1 \in 0 .. n
        BY <1>1, <3>2
      <4>2. f[k] = H[k][f[k - 1]]
        BY <2>1, <4>1, Zenon DEF Steps
      <4>3. f[k - 1] \in W
        BY <4>1
      <4> HIDE DEF W
      <4>4. f[k] = Divides(f[k - 1], top - k)
        BY <1>5, <4>1, <4>2, <4>3, Zenon
      <4> QED
        BY <3>2, <4>4, Zenon
    <3> QED
      BY <3>1, <3>2
  <2>3. f = [k \in 0 .. n |-> IF k = 0 THEN Message(data) ELSE Divides(f[k - 1], top - k)]
    BY <2>2
  <2>4. f = R(f)
    BY <1>1, <2>3, Zenon DEF Divides
  <2> HIDE DEF R
  <2> QED
    BY <2>4
<1>7. S = R(S)
  <2> HIDE DEF R
  <2> QED
    BY <1>6, Zenon
<1> HIDE DEF S
<1>8. S = [k \in 0 .. n |-> IF k = 0 THEN Message(data) ELSE Divides(S[k - 1], top - k)]
  BY <1>1, <1>7, Zenon DEF Divides
<1> HIDE DEF R
<1>9. S[0] = Message(data) /\ \A k \in 1 .. n : S[k] = Divides(S[k - 1], top - k)
  <2>1. 0 \in 0 .. n /\ \A k \in 1 .. n : k \in 0 .. n /\ k # 0
    BY <1>1
  <2> QED
    BY <1>8, <2>1
<1>10. Remainder(data) = Number(S[n])
  BY <1>1, <1>3, Zenon
<1>11. /\ S[0] = Message(data)
       /\ \A k \in 1 .. 8 * Len(data) : S[k] = Divides(S[k - 1], 8 * Len(data) + 8 - k)
       /\ Remainder(data) = Number(S[8 * Len(data)])
  BY <1>9, <1>10 DEF n, top
<1> QED
  BY <1>11, Zenon

(* The bits of the bytes from i on, where they are in the message.         *)
Behind(data, i) ==
  UNION { {8 * (Len(data) - j + 1) + b : b \in Bits(data[j])} : j \in i .. Len(data) }

(* They are the bits of byte i above those of the bytes behind it.         *)
LEMMA BehindIs ==
  ASSUME NEW data \in Seq(Byte), NEW i \in 1 .. Len(data)
  PROVE  /\ Behind(data, i) = SymDiff(At(Bits(data[i]), 8 * (Len(data) - i + 1)), Behind(data, i + 1))
         /\ Behind(data, i + 1) \subseteq Int
         /\ \A r \in Behind(data, i + 1) : r < 8 * (Len(data) - i + 1)
<1> DEFINE n == Len(data)
           At8(j) == {8 * (n - j + 1) + b : b \in Bits(data[j])}
<1>1. n \in Nat
  OBVIOUS
<1> HIDE DEF n
<1>2. ASSUME NEW j \in 1 .. n
      PROVE  /\ At8(j) = At(Bits(data[j]), 8 * (n - j + 1))
             /\ \A r \in At8(j) : r \in Int /\ 8 * (n - j + 1) <= r /\ r < 8 * (n - j + 1) + 8
  <2>1. Bits(data[j]) \subseteq 0 .. 7
    BY BitsAre
  <2> DEFINE B == Bits(data[j])
             v == 8 * (n - j + 1)
  <2> HIDE DEF B
  <2>2. B \subseteq 0 .. 7
    BY <2>1 DEF B
  <2>3. v \in Int
    BY <1>1
  <2> HIDE DEF v
  <2>4. {v + b : b \in B} = At(B, v) /\ \A r \in At(B, v) : r \in Int /\ v <= r /\ r < v + 8
    <3>1. \A b \in B : b \in Int /\ 0 <= b /\ b <= 7
      BY <2>2
    <3>2. \A b \in B : v + b = b + v
      BY <2>3, <3>1
    <3>3. {v + b : b \in B} = At(B, v)
      BY <3>2, Zenon DEF At
    <3>4. \A b \in B : b + v \in Int /\ v <= b + v /\ b + v < v + 8
      BY <2>3, <3>1
    <3>5. \A r \in At(B, v) : \E b \in B : r = b + v
      BY DEF At
    <3> QED
      BY <3>3, <3>4, <3>5
  <2> QED
    BY <2>4, Zenon DEF B, v
<1>3. Behind(data, i) = UNION {At8(j) : j \in i .. n}
  BY Zenon DEF Behind, n
<1>4. Behind(data, i + 1) = UNION {At8(j) : j \in i + 1 .. n}
  BY Zenon DEF Behind, n
<1>5. i \in 1 .. n
  BY DEF n
<1>6. ASSUME NEW j \in i + 1 .. n
      PROVE  \A r \in At8(j) : r \in Int /\ r < 8 * (n - i + 1)
  <2>1. j \in 1 .. n /\ 8 * (n - j + 1) + 8 <= 8 * (n - i + 1)
    BY <1>1, <1>5
  <2>2. 8 * (n - j + 1) \in Int /\ 8 * (n - i + 1) \in Int
    BY <1>1, <1>5
  <2>3. \A r \in At8(j) : r \in Int /\ r < 8 * (n - j + 1) + 8
    BY <1>2, <2>1
  <2> HIDE DEF At8
  <2> QED
    BY <2>1, <2>2, <2>3
<1>7. Behind(data, i) = At8(i) \cup Behind(data, i + 1)
  <2>1. i .. n = {i} \cup i + 1 .. n
    BY <1>1, <1>5
  <2> HIDE DEF At8
  <2> QED
    BY <1>3, <1>4, <2>1
<1>8. /\ Behind(data, i + 1) \subseteq Int
      /\ \A r \in Behind(data, i + 1) : r < 8 * (n - i + 1)
  <2> HIDE DEF At8
  <2> QED
    BY <1>4, <1>6
<1>9. \A r \in At8(i) : r \in Int /\ 8 * (n - i + 1) <= r
  BY <1>2, <1>5
<1>10. At8(i) \cap Behind(data, i + 1) = {}
  <2> DEFINE w == 8 * (n - i + 1)
  <2>1. w \in Int
    BY <1>1, <1>5
  <2> HIDE DEF w, At8
  <2>2. \A r \in At8(i) : r \in Int /\ w <= r
    BY <1>9 DEF w
  <2>3. \A r \in Behind(data, i + 1) : r < w
    BY <1>8 DEF w
  <2> QED
    BY <2>1, <2>2, <2>3
<1>11. Behind(data, i) = SymDiff(At8(i), Behind(data, i + 1))
  <2> HIDE DEF At8
  <2> QED
    BY <1>7, <1>10 DEF SymDiff
<1> QED
  BY <1>2, <1>5, <1>8, <1>11, Zenon DEF n

(* The division of a byte does to it what the inner loop of crc8 does.     *)
LEMMA ByteDivided ==
  ASSUME NEW n \in Nat, NEW i \in 1 .. n, NEW f,
         \A k \in 1 .. 8 * n : f[k] = Divides(f[k - 1], 8 * n + 8 - k),
         NEW x \in Byte, NEW R \in SUBSET Int, \A r \in R : r < 8 * (n - i + 1),
         f[8 * (i - 1)] = SymDiff(At(Bits(x), 8 * (n - i + 1)), R)
  PROVE  f[8 * i] = SymDiff(At(Bits(CrcOfByte[x]), 8 * (n - i)), R)
<1>1. PICK sh \in [0 .. 8 -> Byte] :
        /\ sh[0] = x /\ \A j \in 1 .. 8 : sh[j] = CrcShift[sh[j - 1]]
        /\ CrcOfByte[x] = sh[8]
  BY CrcOfByteUnfolds
<1> DEFINE w == 8 * (n - i + 1)
           k0 == 8 * (i - 1)
           P == {j \in 0 .. 8 : f[k0 + j] = SymDiff(At(Bits(sh[j]), w - j), R)}
<1>2. w \in Int /\ k0 \in Int /\ k0 >= 0 /\ k0 + 8 <= 8 * n /\ 8 * n + 8 - k0 = w + 8
  OBVIOUS
<1>3. k0 + 8 = 8 * i /\ w - 8 = 8 * (n - i)
  OBVIOUS
<1>4. f[k0] = SymDiff(At(Bits(sh[0]), w), R) /\ \A r \in R : r < w
  BY <1>1
<1> DEFINE m == 8 * n
<1>5. \A k \in 1 .. m : f[k] = Divides(f[k - 1], m + 8 - k)
  OBVIOUS
<1>6. m \in Int /\ k0 + 8 <= m /\ m + 8 - k0 = w + 8
  BY <1>2
<1> HIDE DEF w, k0, m
<1>7. 0 \in P
  <2>1. k0 + 0 = k0 /\ w - 0 = w
    BY <1>2
  <2>2. f[k0 + 0] = SymDiff(At(Bits(sh[0]), w - 0), R)
    BY <1>4, <2>1, Zenon
  <2> QED
    BY <2>2
<1>8. ASSUME NEW j \in 1 .. 8, j - 1 \in P PROVE j \in P
  <2> DEFINE v == w - j
             p == f[k0 + (j - 1)]
             e == v + 8
             B == Bits(sh[j - 1])
  <2>1. /\ v \in Int /\ w - (j - 1) = v + 1 /\ e = v + 8
        /\ (k0 + j) - 1 = k0 + (j - 1) /\ k0 + j \in 1 .. m /\ m + 8 - (k0 + j) = e
    BY <1>2, <1>6
  <2>2. p = SymDiff(At(B, v + 1), R)
    <3>1. p = SymDiff(At(B, w - (j - 1)), R)
      BY <1>8
    <3> QED
      BY <2>1, <3>1, Zenon
  <2>3. f[k0 + j] = Divides(p, e)
    <3>1. f[k0 + j] = Divides(f[(k0 + j) - 1], m + 8 - (k0 + j))
      BY <1>5, <2>1
    <3> QED
      BY <2>1, <3>1, Zenon
  <2>4. \A r \in R : r < v + 8
    <3>1. w <= v + 8
      BY <1>2
    <3>2. v + 8 \in Int
      BY <1>2
    <3> HIDE DEF v
    <3> QED
      BY <1>2, <1>4, <3>1, <3>2
  <2>5. sh[j - 1] \in Byte /\ B \in SUBSET (0 .. 7)
    <3>1. j - 1 \in 0 .. 8
      OBVIOUS
    <3> QED
      BY <3>1, BitsAre
  <2>6. Bits(sh[j]) = Shifted(B)
    <3>1. sh[j] = CrcShift[sh[j - 1]]
      BY <1>1
    <3> QED
      BY <2>5, <3>1, ShiftBits
  <2> HIDE DEF v, p, e, B
  <2>7. Divides(p, e) = SymDiff(At(Bits(sh[j]), v), R)
    <3>1. B \in SUBSET (0 .. 7) /\ v \in Int /\ e = v + 8
      BY <2>1, <2>5
    <3>2. Divides(p, e) = SymDiff(At(Shifted(B), v), R)
      <4>1. R \in SUBSET Int
        OBVIOUS
      <4>2. \A r \in R : r < v + 8
        BY <2>4
      <4>3. p = SymDiff(At(B, v + 1), R)
        BY <2>2
      <4> QED
        BY <3>1, <4>1, <4>2, <4>3, DivisionTurn
    <3> QED
      BY <2>6, <3>2, Zenon
  <2>8. f[k0 + j] = SymDiff(At(Bits(sh[j]), w - j), R)
    BY <2>3, <2>7 DEF v
  <2> QED
    BY <2>8
<1>9. 8 \in P
  <2>1. \A j \in 0 .. 8 : j \in P
    <3> HIDE DEF P
    <3>1. 8 \in Nat
      OBVIOUS
    <3> QED
      BY <1>7, <1>8, <3>1, Counting
  <2> HIDE DEF P
  <2> QED
    BY <2>1
<1>10. f[k0 + 8] = SymDiff(At(Bits(sh[8]), w - 8), R)
  BY <1>9
<1> QED
  BY <1>1, <1>3, <1>10, Zenon

(* crc8() is the remainder of the division, on every sequence of bytes.    *)
THEOREM Crc8IsRemainder ==
  ASSUME NEW data \in Seq(Byte)
  PROVE  Crc8(data) = Remainder(data)
<1> DEFINE n == Len(data)
<1>1. PICK crc \in [0 .. n -> Byte] :
        /\ crc[0] = 0 /\ \A i \in 1 .. n : crc[i] = CrcOfByte[Xor(data[i], crc[i - 1])]
        /\ Crc8(data) = crc[n]
  BY Crc8Unfolds
<1>2. PICK f : /\ f[0] = Message(data)
               /\ \A k \in 1 .. 8 * n : f[k] = Divides(f[k - 1], 8 * n + 8 - k)
               /\ Remainder(data) = Number(f[8 * n])
  BY RemainderUnfolds
<1>3. n \in Nat
  OBVIOUS
<1> DEFINE P == {i \in 0 .. n : f[8 * i] = SymDiff(At(Bits(crc[i]), 8 * (n - i)), Behind(data, i + 1))}
<1>4. Bits(0) = {} /\ \A v : At({}, v) = {}
  <2>1. \A b \in 0 .. 7 : Digit(0, b) = 0
    <3>1. 0 \in Byte
      BY DEF Byte
    <3>2. /\ (0 \div 1) % 2 = 0 /\ (0 \div 2) % 2 = 0 /\ (0 \div 4) % 2 = 0 /\ (0 \div 8) % 2 = 0
          /\ (0 \div 16) % 2 = 0 /\ (0 \div 32) % 2 = 0 /\ (0 \div 64) % 2 = 0 /\ (0 \div 128) % 2 = 0
      OBVIOUS
    <3>3. /\ Digit(0, 0) = 0 /\ Digit(0, 1) = 0 /\ Digit(0, 2) = 0 /\ Digit(0, 3) = 0
          /\ Digit(0, 4) = 0 /\ Digit(0, 5) = 0 /\ Digit(0, 6) = 0 /\ Digit(0, 7) = 0
      BY <3>2, Powers, Zenon DEF Digit
    <3> QED
      BY <3>3
  <2>2. Bits(0) = {}
    BY <2>1, BitsAre
  <2> QED
    BY <2>2 DEF At
<1>5. 0 \in P
  <2>1. Behind(data, 1) = Message(data)
    <3>1. DOMAIN data = 1 .. Len(data)
      OBVIOUS
    <3> QED
      BY <3>1, Zenon DEF Behind, Message
  <2>2. SymDiff(At(Bits(crc[0]), 8 * (n - 0)), Behind(data, 1)) = Message(data)
    BY <1>1, <1>4, <2>1, SymDiffLaws, Zenon
  <2>3. 8 * 0 = 0 /\ 0 + 1 = 1 /\ 0 \in 0 .. n
    BY <1>3
  <2>4. f[8 * 0] = SymDiff(At(Bits(crc[0]), 8 * (n - 0)), Behind(data, 0 + 1))
    BY <1>2, <2>2, <2>3, Zenon
  <2> QED
    BY <2>3, <2>4
<1>6. ASSUME NEW i \in 1 .. n, i - 1 \in P PROVE i \in P
  <2> DEFINE w == 8 * (n - i + 1)
             x == Xor(data[i], crc[i - 1])
             R == Behind(data, i + 1)
             C == Bits(crc[i - 1])
             D == Bits(data[i])
  <2>1. f[8 * (i - 1)] = SymDiff(At(C, 8 * (n - (i - 1))), Behind(data, (i - 1) + 1))
    BY <1>6
  <2>2. 8 * (n - (i - 1)) = w /\ (i - 1) + 1 = i /\ w \in Int
    BY <1>3
  <2>3. /\ Behind(data, i) = SymDiff(At(D, w), R) /\ R \subseteq Int /\ \A r \in R : r < w
    BY BehindIs
  <2>4. x \in Byte /\ Bits(x) = SymDiff(D, C)
    BY XorBits
  <2>5. D \subseteq Int /\ C \subseteq Int
    BY BitsAre
  <2> HIDE DEF C, D, R
  <2>6. At(SymDiff(D, C), w) = SymDiff(At(D, w), At(C, w))
    BY <2>2, <2>5, AtOfSum
  <2>7. f[8 * (i - 1)] = SymDiff(At(Bits(x), w), R)
    <3>1. f[8 * (i - 1)] = SymDiff(At(C, w), SymDiff(At(D, w), R))
      BY <2>1, <2>2, <2>3, Zenon
    <3>2. SymDiff(At(C, w), SymDiff(At(D, w), R)) = SymDiff(SymDiff(At(C, w), At(D, w)), R)
      BY SymDiffLaws
    <3>3. SymDiff(At(C, w), At(D, w)) = SymDiff(At(D, w), At(C, w))
      BY SymDiffLaws, Zenon
    <3> QED
      BY <2>4, <2>6, <3>1, <3>2, <3>3, Zenon
  <2> HIDE DEF x, n
  <2>8. f[8 * i] = SymDiff(At(Bits(CrcOfByte[x]), 8 * (n - i)), R)
    <3>1. \A k \in 1 .. 8 * n : f[k] = Divides(f[k - 1], 8 * n + 8 - k)
      BY <1>2, Zenon
    <3>2. i \in 1 .. n
      OBVIOUS
    <3>3. R \in SUBSET Int
      BY <2>3
    <3> QED
      BY <1>3, <2>3, <2>4, <2>7, <3>1, <3>2, <3>3, ByteDivided, Zenon
  <2>9. crc[i] = CrcOfByte[x]
    BY <1>1 DEF x
  <2>10. f[8 * i] = SymDiff(At(Bits(crc[i]), 8 * (n - i)), Behind(data, i + 1))
    BY <2>8, <2>9, Zenon DEF R
  <2>11. i \in 0 .. n
    BY <1>3
  <2> QED
    BY <2>10, <2>11
<1>7. n \in P
  <2>1. \A i \in 0 .. n : i \in P
    <3> HIDE DEF P, n
    <3> QED
      BY <1>3, <1>5, <1>6, Counting
  <2>2. n \in 0 .. n
    BY <1>3
  <2> HIDE DEF P
  <2> QED
    BY <2>1, <2>2
<1>8. f[8 * n] = Bits(crc[n])
  <2>1. f[8 * n] = SymDiff(At(Bits(crc[n]), 8 * (n - n)), Behind(data, n + 1))
    BY <1>7
  <2>2. 8 * (n - n) = 0 /\ n + 1 .. n = {}
    BY <1>3
  <2>3. Behind(data, n + 1) = {}
    BY <2>2 DEF Behind
  <2>4. At(Bits(crc[n]), 0) = Bits(crc[n])
    <3> DEFINE B == Bits(crc[n])
    <3>1. B \subseteq 0 .. 7
      BY BitsAre
    <3> HIDE DEF B
    <3>2. \A b \in B : b + 0 = b
      BY <3>1
    <3>3. At(B, 0) = B
      BY <3>2 DEF At
    <3> QED
      BY <3>3 DEF B
  <2> HIDE DEF n
  <2> QED
    BY <2>1, <2>2, <2>3, <2>4, SymDiffLaws, Zenon
<1>9. crc[n] \in Byte
  BY <1>1, <1>3
<1> HIDE DEF n
<1> QED
  BY <1>1, <1>2, <1>8, <1>9, NumberOfBits, Zenon
-----------------------------------------------------------------------------
(* What a loop over a buffer of n bytes finds from position o on, if T     *)
(* holds its turns and K what it keeps where it ends.                      *)
Round(T, K, found, o) ==
  IF T[o].bytes = 0 THEN K[o] ELSE Joined(T[o], found[o + T[o].bytes])

(* A loop whose turns consume no more than there is finds something from   *)
(* every position on.                                                      *)
LEMMA WalkDefined ==
  ASSUME NEW n \in Nat, NEW T, NEW K,
         \A o \in 1 .. n + 1 : T[o].bytes \in 0 .. n - o + 1
  PROVE  \E f : f = [o \in 1 .. n + 1 |-> Round(T, K, f, o)]
<1> DEFINE Last(m)   == n + 2 - m .. n + 1
           Found(m)  == \E f : \A o \in Last(m) : f[o] = Round(T, K, f, o)
           Bad       == {m \in 0 .. n + 1 : ~Found(m)}
<1>1. Bad = {}
  <2> SUFFICES ASSUME Bad # {} PROVE FALSE
    OBVIOUS
  <2>1. PICK m \in Bad : \A k \in Bad : m <= k
    <3>1. Bad \subseteq Nat
      OBVIOUS
    <3> HIDE DEF Bad
    <3> QED
      BY <3>1, Parsers!LeastNat
  <2>2. m \in 0 .. n + 1 /\ ~Found(m)
    OBVIOUS
  <2>3. CASE m = 0
    <3>1. Last(0) = {}
      OBVIOUS
    <3> QED
      BY <2>2, <2>3, <3>1
  <2>4. CASE m # 0
    <3>1. m - 1 \in 0 .. n + 1 /\ ~(m <= m - 1)
      BY <2>2, <2>4
    <3>2. m - 1 \notin Bad
      BY <2>1, <3>1, Zenon
    <3>3. PICK f : \A o \in Last(m - 1) : f[o] = Round(T, K, f, o)
      BY <3>1, <3>2
    <3> DEFINE g == [o \in Last(m) |-> Round(T, K, f, o)]
    <3>4. ASSUME NEW o \in Last(m) PROVE g[o] = Round(T, K, g, o)
      <4>1. o \in 1 .. n + 1 /\ T[o].bytes \in 0 .. n - o + 1
        BY <2>2
      <4>2. CASE T[o].bytes = 0
        BY <4>2 DEF Round
      <4>3. CASE T[o].bytes # 0
        <5> DEFINE p == o + T[o].bytes
        <5>1. p \in Last(m - 1) /\ p \in Last(m)
          BY <2>2, <4>1, <4>3
        <5>2. g[p] = f[p]
          BY <3>3, <5>1
        <5> QED
          BY <4>3, <5>2 DEF Round
      <4> QED
        BY <4>2, <4>3
    <3>5. Found(m)
      <4> HIDE DEF g
      <4> QED BY <3>4
    <3> QED
      BY <2>2, <3>5
  <2> QED
    BY <2>3, <2>4
<1>2. Found(n + 1)
  <2>1. n + 1 \in 0 .. n + 1
    OBVIOUS
  <2> QED
    BY <1>1, <2>1
<1>3. PICK f : \A o \in 1 .. n + 1 : f[o] = Round(T, K, f, o)
  <2>1. Last(n + 1) = 1 .. n + 1
    OBVIOUS
  <2> QED
    BY <1>2, <2>1
<1> DEFINE g == [o \in 1 .. n + 1 |-> f[o]]
<1>4. ASSUME NEW o \in 1 .. n + 1 PROVE g[o] = Round(T, K, g, o)
  <2>1. CASE T[o].bytes = 0
    BY <1>3, <2>1 DEF Round
  <2>2. CASE T[o].bytes # 0
    <3> DEFINE p == o + T[o].bytes
    <3>1. p \in 1 .. n + 1
      BY <2>2
    <3>2. g[p] = f[p]
      BY <3>1
    <3> QED
      BY <1>3, <2>2, <3>2 DEF Round
  <2> QED
    BY <2>1, <2>2
<1>5. g = [o \in 1 .. n + 1 |-> Round(T, K, g, o)]
  BY <1>4
<1> QED
  BY <1>5
-----------------------------------------------------------------------------
(* A frame that may begin at position o, as long as its LEN says.          *)
LEMMA SizeIsThere ==
  ASSUME NEW d \in Seq(Byte), NEW o \in 1 .. Len(d) + 1, Left(d, o) >= 5
  PROVE  /\ d[o + 2] \in Byte /\ d[o + 3] \in Byte
         /\ FrameSize(d, o) \in Nat /\ FrameSize(d, o) >= 4
         /\ FrameSize(d, o) = d[o + 2] + 4
<1>1. Len(d) \in Nat /\ o + 2 \in 1 .. Len(d) /\ o + 3 \in 1 .. Len(d)
  BY DEF Left
<1>2. \A i \in 1 .. Len(d) : d[i] \in Byte
  BY ElementOfSeq, Zenon
<1>3. d[o + 2] \in Byte /\ d[o + 3] \in Byte
  BY <1>1, <1>2, Zenon
<1> DEFINE len == d[o + 2]
<1>4. FrameSize(d, o) = len + 4
  BY DEF FrameSize
<1> HIDE DEF len
<1>5. len \in Byte
  BY <1>3 DEF len
<1>6. FrameSize(d, o) \in Nat /\ FrameSize(d, o) >= 4
  BY <1>4, <1>5 DEF Byte
<1> QED
  BY <1>3, <1>4, <1>6 DEF len

(* The outcomes of a turn of the loop of poll().                           *)
Complete(d, o) == InSync(d, o) /\ Left(d, o) >= FrameSize(d, o) /\ CrcAgrees(d, o)

(* It ends the loop, moves on by one byte, or finds a frame.               *)
LEMMA SerialTurnCases ==
  ASSUME NEW at \in Nat, NEW d \in Seq(Byte), NEW o \in 1 .. Len(d) + 1
  PROVE  \/ /\ SerialTurn(at, d, o) = Moves(0)
            /\ Left(d, o) < 5 \/ (Left(d, o) >= 5 /\ InSync(d, o) /\ Left(d, o) < FrameSize(d, o))
         \/ /\ SerialTurn(at, d, o) = Moves(1)
            /\ Left(d, o) >= 5
            /\ ~InSync(d, o) \/ (Left(d, o) >= FrameSize(d, o) /\ ~CrcAgrees(d, o))
         \/ /\ SerialTurn(at, d, o) = [bytes |-> FrameSize(d, o), frames |-> <<SerialFrameAt(at, d, o)>>]
            /\ Left(d, o) >= 5 /\ Complete(d, o)
<1>1. CASE Left(d, o) < 5
  BY <1>1 DEF SerialTurn, Left
<1>2. CASE Left(d, o) >= 5
  BY <1>2, SizeIsThere DEF SerialTurn, Left, Complete, SkipAfterBadCrc
<1> QED
  BY <1>1, <1>2 DEF Left

(* It moves no further than to the end of the buffer.                      *)
LEMMA SerialTurnBounds ==
  ASSUME NEW at \in Nat, NEW d \in Seq(Byte), NEW o \in 1 .. Len(d) + 1
  PROVE  SerialTurn(at, d, o).bytes \in 0 .. Len(d) - o + 1
<1>1. Len(d) \in Nat
  OBVIOUS
<1>2. CASE SerialTurn(at, d, o) = Moves(0)
  BY <1>1, <1>2 DEF Moves
<1>3. CASE SerialTurn(at, d, o) = Moves(1) /\ Left(d, o) >= 5
  BY <1>1, <1>3 DEF Moves, Left
<1>4. ASSUME SerialTurn(at, d, o) = [bytes |-> FrameSize(d, o), frames |-> <<SerialFrameAt(at, d, o)>>],
             Left(d, o) >= 5, Complete(d, o)
      PROVE  SerialTurn(at, d, o).bytes \in 0 .. Len(d) - o + 1
  <2>1. SerialTurn(at, d, o).bytes = FrameSize(d, o)
    BY <1>4
  <2> QED
    BY <1>1, <1>4, <2>1, SizeIsThere DEF Complete, Left
<1> QED
  BY <1>2, <1>3, <1>4, SerialTurnCases

(* So the loop is what its definition says: a turn, and what is behind it. *)
LEMMA SerialScanUnfolds ==
  ASSUME NEW at \in Nat, NEW d \in Seq(Byte), NEW o \in 1 .. Len(d) + 1
  PROVE  LET turn == SerialTurn(at, d, o) IN
         SerialScanFrom(at, d)[o] =
           IF turn.bytes = 0 THEN [frames |-> <<>>, rest |-> SubSeq(d, o, Len(d))]
           ELSE Joined(turn, SerialScanFrom(at, d)[o + turn.bytes])
<1> DEFINE n == Len(d)
           T == [p \in 1 .. n + 1 |-> SerialTurn(at, d, p)]
           K == [p \in 1 .. n + 1 |-> [frames |-> <<>>, rest |-> SubSeq(d, p, n)]]
           R(f) == [p \in 1 .. n + 1 |->
                      LET turn == SerialTurn(at, d, p)
                      IN  IF turn.bytes = 0 THEN [frames |-> <<>>, rest |-> SubSeq(d, p, n)]
                          ELSE Joined(turn, f[p + turn.bytes])]
<1>1. n \in Nat
  OBVIOUS
<1>2. \A p \in 1 .. n + 1 : T[p].bytes \in 0 .. n - p + 1
  BY SerialTurnBounds
<1>3. \E f : f = R(f)
  <2>1. PICK f : f = [p \in 1 .. n + 1 |-> Round(T, K, f, p)]
    <3> HIDE DEF T, K, n
    <3> QED BY <1>1, <1>2, WalkDefined
  <2>2. [p \in 1 .. n + 1 |-> Round(T, K, f, p)] = R(f)
    BY DEF Round
  <2> HIDE DEF R, T, K, n
  <2> QED
    BY <2>1, <2>2, Zenon
<1> DEFINE S == SerialScanFrom(at, d)
<1>4. S = CHOOSE f : f = R(f)
  BY DEF SerialScanFrom
<1>5. S = R(S)
  <2> HIDE DEF R, S
  <2> QED BY <1>3, <1>4, Zenon
<1> HIDE DEF S
<1>6. S[o] = LET turn == SerialTurn(at, d, o)
             IN  IF turn.bytes = 0 THEN [frames |-> <<>>, rest |-> SubSeq(d, o, n)]
                 ELSE Joined(turn, S[o + turn.bytes])
  BY <1>5
<1> QED
  BY <1>6 DEF S
-----------------------------------------------------------------------------
(* Induction from the end of a buffer: of the positions in a set that is   *)
(* not empty one is the last.                                              *)
LEMMA LastPosition ==
  ASSUME NEW n \in Nat, NEW D, D \subseteq 1 .. n + 1, D # {}
  PROVE  \E o \in D : \A p \in o + 1 .. n + 1 : p \notin D
<1> DEFINE B == {k \in 0 .. n : n + 1 - k \in D}
<1>1. B \subseteq Nat
  OBVIOUS
<1>2. B # {}
  <2>1. PICK o \in D : TRUE
    OBVIOUS
  <2>2. n + 1 - o \in 0 .. n /\ n + 1 - (n + 1 - o) = o
    OBVIOUS
  <2> QED
    BY <2>2
<1>3. PICK k \in B : \A j \in B : k <= j
  <2> HIDE DEF B
  <2> QED BY <1>1, <1>2, Parsers!LeastNat
<1>4. k \in 0 .. n /\ n + 1 - k \in D
  OBVIOUS
<1>5. ASSUME NEW p \in n + 1 - k + 1 .. n + 1 PROVE p \notin D
  <2>1. n + 1 - p \in 0 .. n /\ n + 1 - (n + 1 - p) = p /\ ~(k <= n + 1 - p)
    BY <1>4
  <2>2. n + 1 - p \notin B
    BY <1>3, <2>1, Zenon
  <2> QED
    BY <2>1, <2>2
<1> QED
  BY <1>4, <1>5

Outcomes == [frames : Seq(SerialFrames), rest : Seq(Byte)]

(* A part of the buffer.                                                   *)
LEMMA PartOfBuffer ==
  ASSUME NEW d \in Seq(Byte), NEW i \in Nat \ {0}, NEW j \in 0 .. Len(d)
  PROVE  /\ SubSeq(d, i, j) \in Seq(Byte)
         /\ Len(SubSeq(d, i, j)) = IF i <= j THEN j - i + 1 ELSE 0
         /\ \A k \in 1 .. j - i + 1 : SubSeq(d, i, j)[k] = d[i + k - 1]
<1>1. \A k \in i .. j : d[k] \in Byte
  <2>1. \A k \in 1 .. Len(d) : d[k] \in Byte
    BY ElementOfSeq, Zenon
  <2>2. \A k \in i .. j : k \in 1 .. Len(d)
    OBVIOUS
  <2> QED
    BY <2>1, <2>2, Zenon
<1>2. i \in Int /\ j \in Int
  OBVIOUS
<1> QED
  BY <1>1, <1>2, SubSeqProperties

(* What a turn finds is what the callback can be given.                    *)
LEMMA SerialTurnFinds ==
  ASSUME NEW at \in Nat, NEW d \in Seq(Byte), NEW o \in 1 .. Len(d) + 1
  PROVE  SerialTurn(at, d, o).frames \in Seq(SerialFrames)
<1>1. CASE SerialTurn(at, d, o) = Moves(0) \/ SerialTurn(at, d, o) = Moves(1)
  <2>1. SerialTurn(at, d, o).frames = <<>>
    BY <1>1 DEF Moves
  <2> QED
    BY <2>1
<1>2. ASSUME SerialTurn(at, d, o) = [bytes |-> FrameSize(d, o), frames |-> <<SerialFrameAt(at, d, o)>>],
             Left(d, o) >= 5, Complete(d, o)
      PROVE  SerialTurn(at, d, o).frames \in Seq(SerialFrames)
  <2> DEFINE len == d[o + 2]
             pay == SubSeq(d, o + 4, o + 2 + len)
             length == IF len = 0 THEN SIZE_MAX ELSE len - 1
  <2>1. len \in Byte /\ d[o + 3] \in Byte /\ FrameSize(d, o) = len + 4
    BY <1>2, SizeIsThere
  <2> HIDE DEF len
  <2>2. len \in Nat /\ Len(d) \in Nat /\ len + 4 <= Len(d) - o + 1
    BY <1>2, <2>1 DEF Byte, Complete, Left
  <2>3. o + 4 \in Nat \ {0} /\ o + 2 + len \in 0 .. Len(d)
    BY <2>2
  <2>4. pay \in Seq(Byte)
    BY <2>3, PartOfBuffer
  <2>5. length \in Nat
    BY <2>2 DEF SIZE_MAX
  <2>6. SerialFrameAt(at, d, o) = [at |-> at + o - 1, cmd |-> d[o + 3], length |-> length, payload |-> pay]
    BY DEF SerialFrameAt, len
  <2>7. at + o - 1 \in Nat
    OBVIOUS
  <2> HIDE DEF pay, length
  <2>8. SerialFrameAt(at, d, o) \in SerialFrames
    BY <2>1, <2>4, <2>5, <2>6, <2>7 DEF SerialFrames
  <2>9. SerialTurn(at, d, o).frames = <<SerialFrameAt(at, d, o)>>
    BY <1>2
  <2> QED
    BY <2>8, <2>9
<1> QED
  BY <1>1, <1>2, SerialTurnCases

(* What poll() finds, and that it keeps the buffer from where a turn ends  *)
(* the loop.                                                               *)
LEMMA SerialScanType ==
  ASSUME NEW at \in Nat, NEW d \in Seq(Byte)
  PROVE  \A o \in 1 .. Len(d) + 1 :
           /\ SerialScanFrom(at, d)[o] \in Outcomes
           /\ \E p \in o .. Len(d) + 1 :
                /\ SerialTurn(at, d, p).bytes = 0
                /\ SerialScanFrom(at, d)[o].rest = SubSeq(d, p, Len(d))
<1> DEFINE n == Len(d)
           S == SerialScanFrom(at, d)
           Good(o) == /\ S[o] \in Outcomes
                      /\ \E p \in o .. n + 1 : /\ SerialTurn(at, d, p).bytes = 0
                                               /\ S[o].rest = SubSeq(d, p, n)
           D == {o \in 1 .. n + 1 : ~Good(o)}
<1> SUFFICES ASSUME D # {} PROVE FALSE
  OBVIOUS
<1>1. n \in Nat /\ D \subseteq 1 .. n + 1
  OBVIOUS
<1>2. PICK o \in D : \A p \in o + 1 .. n + 1 : p \notin D
  <2> HIDE DEF D, n
  <2> QED BY <1>1, LastPosition
<1>3. o \in 1 .. n + 1 /\ ~Good(o)
  OBVIOUS
<1> DEFINE t == SerialTurn(at, d, o)
<1>4. t.bytes \in 0 .. n - o + 1 /\ t.frames \in Seq(SerialFrames)
  BY <1>3, SerialTurnBounds, SerialTurnFinds
<1>5. CASE t.bytes = 0
  <2>1. S[o] = [frames |-> <<>>, rest |-> SubSeq(d, o, n)]
    BY <1>3, <1>5, SerialScanUnfolds
  <2>2. SubSeq(d, o, n) \in Seq(Byte) /\ <<>> \in Seq(SerialFrames)
    <3>1. o \in Nat \ {0} /\ n \in 0 .. Len(d)
      BY <1>3
    <3> QED
      BY <3>1, PartOfBuffer
  <2> HIDE DEF S, n
  <2>3. S[o] \in Outcomes /\ S[o].rest = SubSeq(d, o, n)
    BY <2>1, <2>2 DEF Outcomes
  <2>4. o \in o .. n + 1
    BY <1>1, <1>3
  <2>5. Good(o)
    BY <1>5, <2>3, <2>4
  <2> QED
    BY <1>3, <2>5
<1>6. CASE t.bytes # 0
  <2> DEFINE q == o + t.bytes
  <2>1. q \in o + 1 .. n + 1 /\ q \in 1 .. n + 1
    BY <1>3, <1>4, <1>6
  <2>2. S[o] = Joined(t, S[q])
    BY <1>3, <1>6, SerialScanUnfolds
  <2>3. Good(q)
    BY <1>2, <2>1
  <2> HIDE DEF S, n, q
  <2>4. S[q].frames \in Seq(SerialFrames) /\ S[q].rest \in Seq(Byte)
    BY <2>3 DEF Outcomes
  <2>5. t.frames \o S[q].frames \in Seq(SerialFrames)
    BY <1>4, <2>4, ConcatProperties
  <2>6. S[o] \in Outcomes /\ S[o].rest = S[q].rest
    BY <2>2, <2>4, <2>5 DEF Outcomes, Joined
  <2>7. PICK p \in q .. n + 1 : SerialTurn(at, d, p).bytes = 0 /\ S[q].rest = SubSeq(d, p, n)
    BY <2>3
  <2>8. p \in o .. n + 1
    BY <1>1, <1>3, <2>1
  <2>9. Good(o)
    BY <2>6, <2>7, <2>8
  <2> QED
    BY <1>3, <2>9
<1> QED
  BY <1>5, <1>6
-----------------------------------------------------------------------------
(* What is behind k bytes.                                                 *)
Past(d, k) == SubSeq(d, k + 1, Len(d))

(* It is shorter by k bytes, and its bytes are the same.                   *)
LEMMA PastIsPart ==
  ASSUME NEW d \in Seq(Byte), NEW k \in 0 .. Len(d)
  PROVE  /\ Past(d, k) \in Seq(Byte) /\ Len(Past(d, k)) = Len(d) - k
         /\ \A i \in 1 .. Len(d) - k : Past(d, k)[i] = d[k + i]
  BY Parsers!PastIsShorter DEF Past, Parsers!Past

(* A part of what is behind k bytes is a part of the whole.                *)
LEMMA PartOfPast ==
  ASSUME NEW d \in Seq(Byte), NEW k \in 0 .. Len(d),
         NEW i \in Nat \ {0}, NEW j \in 0 .. Len(d) - k
  PROVE  SubSeq(Past(d, k), i, j) = SubSeq(d, k + i, k + j)
<1> DEFINE e == Past(d, k)
           x == SubSeq(e, i, j)
           y == SubSeq(d, k + i, k + j)
<1>1. Len(d) \in Nat /\ k \in Nat /\ k <= Len(d) /\ j \in Nat /\ j <= Len(d) - k
  OBVIOUS
<1>2. /\ e \in Seq(Byte) /\ Len(e) = Len(d) - k
      /\ \A m \in 1 .. Len(d) - k : e[m] = d[k + m]
  BY PastIsPart
<1> HIDE DEF e
<1>3. /\ x \in Seq(Byte) /\ Len(x) = IF i <= j THEN j - i + 1 ELSE 0
      /\ \A m \in 1 .. j - i + 1 : x[m] = e[i + m - 1]
  <2>1. j \in 0 .. Len(e)
    BY <1>1, <1>2
  <2> QED
    BY <1>2, <2>1, PartOfBuffer
<1>4. /\ y \in Seq(Byte) /\ Len(y) = IF k + i <= k + j THEN k + j - (k + i) + 1 ELSE 0
      /\ \A m \in 1 .. k + j - (k + i) + 1 : y[m] = d[k + i + m - 1]
  <2>1. k + i \in Nat \ {0} /\ k + j \in 0 .. Len(d)
    BY <1>1
  <2> QED
    BY <2>1, PartOfBuffer
<1> HIDE DEF x, y
<1>5. Len(x) = Len(y)
  BY <1>1, <1>3, <1>4
<1>6. ASSUME NEW m \in 1 .. Len(x) PROVE x[m] = y[m]
  <2>1. m \in 1 .. j - i + 1 /\ i + m - 1 \in 1 .. Len(d) - k /\ k + (i + m - 1) = k + i + m - 1
    BY <1>1, <1>3
  <2>2. x[m] = e[i + m - 1] /\ e[i + m - 1] = d[k + (i + m - 1)]
    BY <1>2, <1>3, <2>1
  <2>3. m \in 1 .. k + j - (k + i) + 1
    BY <1>1, <2>1
  <2>4. y[m] = d[k + i + m - 1]
    BY <1>4, <2>3
  <2> QED
    BY <2>1, <2>2, <2>4
<1>7. x = y
  BY <1>3, <1>4, <1>5, <1>6, SeqEqual
<1> QED
  BY <1>7 DEF e, x, y

(* A turn looks at nothing before its position ...                         *)
LEMMA TurnOfPast ==
  ASSUME NEW at \in Nat, NEW d \in Seq(Byte), NEW k \in 0 .. Len(d),
         NEW o \in 1 .. Len(d) - k + 1
  PROVE  SerialTurn(at + k, Past(d, k), o) = SerialTurn(at, d, k + o)
<1> DEFINE e == Past(d, k)
           p == k + o
<1>1. /\ e \in Seq(Byte) /\ Len(e) = Len(d) - k
      /\ \A i \in 1 .. Len(d) - k : e[i] = d[k + i]
  BY PastIsPart
<1>2. Len(d) \in Nat /\ k \in Nat /\ k <= Len(d) /\ o \in Nat /\ o >= 1 /\ o <= Len(d) - k + 1
  OBVIOUS
<1>3. Left(e, o) = Left(d, p) /\ o \in 1 .. Len(e) + 1 /\ p \in 1 .. Len(d) + 1
  BY <1>1, <1>2 DEF Left
<1>4. ASSUME Left(e, o) < 5 PROVE SerialTurn(at + k, e, o) = SerialTurn(at, d, p)
  <2> HIDE DEF e, p
  <2> QED BY <1>3, <1>4, Zenon DEF SerialTurn
<1>5. ASSUME ~(Left(e, o) < 5) PROVE SerialTurn(at + k, e, o) = SerialTurn(at, d, p)
  <2> HIDE DEF e
  <2>1. o + 4 <= Len(d) - k
    BY <1>1, <1>2, <1>5 DEF Left
  <2>2. e[o] = d[p] /\ e[o + 1] = d[p + 1] /\ e[o + 2] = d[p + 2] /\ e[o + 3] = d[p + 3]
    <3>1. /\ o \in 1 .. Len(d) - k /\ o + 1 \in 1 .. Len(d) - k /\ o + 2 \in 1 .. Len(d) - k
          /\ o + 3 \in 1 .. Len(d) - k
          /\ k + (o + 1) = p + 1 /\ k + (o + 2) = p + 2 /\ k + (o + 3) = p + 3
      BY <1>2, <2>1
    <3>2. e[o] = d[k + o] /\ e[o + 1] = d[k + (o + 1)] /\ e[o + 2] = d[k + (o + 2)]
          /\ e[o + 3] = d[k + (o + 3)]
      BY <1>1, <3>1
    <3> QED
      BY <3>1, <3>2
  <2>3. (InSync(e, o) <=> InSync(d, p)) /\ FrameSize(e, o) = FrameSize(d, p)
    BY <2>2 DEF InSync, FrameSize
  <2> DEFINE size == FrameSize(d, p)
             len  == d[p + 2]
  <2>4. size \in Nat /\ size >= 4 /\ size = len + 4 /\ len \in Byte
    <3>1. Left(d, p) >= 5
      BY <1>3, <1>5, <1>2 DEF Left
    <3> HIDE DEF p
    <3> QED
      BY <1>3, <3>1, SizeIsThere
  <2>5. CASE Left(d, p) < size
    <3> HIDE DEF p
    <3> QED
      BY <1>3, <1>5, <2>3, <2>5, Zenon DEF SerialTurn, size
  <2>6. CASE ~(Left(d, p) < size)
    <3> HIDE DEF size, len
    <3>0. size \in Nat /\ size >= 4
      BY <2>4
    <3>1. o + size - 1 <= Len(d) - k
      BY <1>2, <3>0, <2>6 DEF Left
    <3>2. e[o + size - 1] = d[p + size - 1]
      <4>1. o + size - 1 \in 1 .. Len(d) - k /\ k + (o + size - 1) = p + size - 1
        BY <1>2, <3>0, <3>1
      <4> QED
        BY <1>1, <4>1
    <3>3. SubSeq(e, o + 2, o + size - 1 - 1) = SubSeq(d, p + 2, p + size - 1 - 1)
      <4>1. /\ o + 2 \in Nat \ {0} /\ o + size - 1 - 1 \in 0 .. Len(d) - k
            /\ k + (o + 2) = p + 2 /\ k + (o + size - 1 - 1) = p + size - 1 - 1
        BY <1>2, <3>0, <3>1
      <4>2. SubSeq(e, o + 2, o + size - 1 - 1) = SubSeq(d, k + (o + 2), k + (o + size - 1 - 1))
        BY <4>1, PartOfPast DEF e
      <4> QED
        BY <4>1, <4>2
    <3>4. CrcAgrees(e, o) <=> CrcAgrees(d, p)
      <4>1. p \in Nat /\ FrameSize(e, o) = size /\ FrameSize(d, p) = size
        BY <1>2, <2>3 DEF size
      <4> HIDE DEF p
      <4> DEFINE sum == Crc8(SubSeq(d, p + 2, p + size - 1 - 1))
      <4>2. CrcAgrees(e, o) <=> sum = e[o + size - 1]
        <5>1. CrcAgrees(e, o) <=> Crc8(SubSeq(e, o + 2, o + size - 1 - 1)) = e[o + size - 1]
          BY <1>2, <3>0, <4>1 DEF CrcAgrees
        <5> QED
          BY <3>3, <5>1
      <4>3. CrcAgrees(d, p) <=> sum = d[p + size - 1]
        BY <3>0, <4>1 DEF CrcAgrees
      <4> QED
        BY <3>2, <4>2, <4>3
    <3>5. SerialFrameAt(at + k, e, o) = SerialFrameAt(at, d, p)
      <4>1. len \in Nat /\ len = size - 4
        BY <2>4 DEF Byte
      <4>2. SubSeq(e, o + 4, o + 2 + len) = SubSeq(d, p + 4, p + 2 + len)
        <5>1. /\ o + 4 \in Nat \ {0} /\ o + 2 + len \in 0 .. Len(d) - k
              /\ k + (o + 4) = p + 4 /\ k + (o + 2 + len) = p + 2 + len
          BY <1>2, <3>0, <3>1, <4>1
        <5>2. SubSeq(e, o + 4, o + 2 + len) = SubSeq(d, k + (o + 4), k + (o + 2 + len))
          BY <5>1, PartOfPast DEF e
        <5> QED
          BY <5>1, <5>2
      <4>3. at + k + o - 1 = at + p - 1
        BY <1>2
      <4>4. e[o + 2] = len /\ d[p + 2] = len /\ e[o + 3] = d[p + 3]
        BY <2>2 DEF len
      <4> HIDE DEF p
      <4> QED
        BY <4>2, <4>3, <4>4 DEF SerialFrameAt
    <3> HIDE DEF p
    <3> QED
      BY <1>3, <1>5, <2>3, <2>6, <3>4, <3>5, Zenon DEF SerialTurn, size
  <2> QED
    BY <2>5, <2>6
<1> QED
  BY <1>4, <1>5

(* ... so neither does the loop: what it finds in the end of a buffer it   *)
(* finds there in the whole buffer.                                        *)
LEMMA ScanOfPast ==
  ASSUME NEW at \in Nat, NEW d \in Seq(Byte), NEW k \in 0 .. Len(d)
  PROVE  \A o \in 1 .. Len(d) - k + 1 :
           SerialScanFrom(at + k, Past(d, k))[o] = SerialScanFrom(at, d)[k + o]
<1> DEFINE e == Past(d, k)
           n == Len(d) - k
           E == SerialScanFrom(at + k, e)
           S == SerialScanFrom(at, d)
           D == {o \in 1 .. n + 1 : E[o] # S[k + o]}
<1> SUFFICES ASSUME D # {} PROVE FALSE
  OBVIOUS
<1>1. /\ e \in Seq(Byte) /\ Len(e) = n /\ n \in Nat /\ Len(d) \in Nat /\ k \in Nat
      /\ at + k \in Nat /\ D \subseteq 1 .. n + 1
  BY PastIsPart
<1>2. PICK o \in D : \A p \in o + 1 .. n + 1 : p \notin D
  <2> HIDE DEF D, n
  <2> QED BY <1>1, LastPosition
<1>3. o \in 1 .. n + 1 /\ E[o] # S[k + o] /\ o \in 1 .. Len(e) + 1 /\ k + o \in 1 .. Len(d) + 1
  BY <1>1
<1> DEFINE t == SerialTurn(at, d, k + o)
<1>4. SerialTurn(at + k, e, o) = t
  BY <1>3, TurnOfPast
<1>5. t.bytes \in 0 .. n - o + 1
  BY <1>1, <1>3, SerialTurnBounds
<1>6. /\ E[o] = IF t.bytes = 0 THEN [frames |-> <<>>, rest |-> SubSeq(e, o, Len(e))]
                ELSE Joined(t, E[o + t.bytes])
      /\ S[k + o] = IF t.bytes = 0 THEN [frames |-> <<>>, rest |-> SubSeq(d, k + o, Len(d))]
                    ELSE Joined(t, S[k + o + t.bytes])
  <2> HIDE DEF e
  <2>1. LET turn == SerialTurn(at + k, e, o) IN
        E[o] = IF turn.bytes = 0 THEN [frames |-> <<>>, rest |-> SubSeq(e, o, Len(e))]
               ELSE Joined(turn, E[o + turn.bytes])
    BY <1>1, <1>3, SerialScanUnfolds
  <2>2. S[k + o] = IF t.bytes = 0 THEN [frames |-> <<>>, rest |-> SubSeq(d, k + o, Len(d))]
                   ELSE Joined(t, S[k + o + t.bytes])
    <3> DEFINE q == k + o
    <3>1. q \in 1 .. Len(d) + 1
      BY <1>3
    <3> HIDE DEF q
    <3>2. LET turn == SerialTurn(at, d, q) IN
          S[q] = IF turn.bytes = 0 THEN [frames |-> <<>>, rest |-> SubSeq(d, q, Len(d))]
                 ELSE Joined(turn, S[q + turn.bytes])
      BY <3>1, SerialScanUnfolds
    <3> QED
      BY <3>2 DEF q
  <2> HIDE DEF t, E, S
  <2> QED
    BY <1>4, <2>1, <2>2
<1>7. CASE t.bytes = 0
  <2>1. o \in Nat \ {0} /\ n \in 0 .. Len(d) - k /\ k + n = Len(d)
    BY <1>1, <1>3
  <2> HIDE DEF n
  <2>2. SubSeq(e, o, n) = SubSeq(d, k + o, k + n)
    BY <2>1, PartOfPast
  <2> HIDE DEF e, E, S, t
  <2>3. E[o] = S[k + o]
    BY <1>1, <1>6, <1>7, <2>1, <2>2
  <2> QED
    BY <1>3, <2>3
<1>8. CASE t.bytes # 0
  <2> DEFINE q == o + t.bytes
  <2>1. q \in o + 1 .. n + 1 /\ q \in 1 .. n + 1 /\ k + q = k + o + t.bytes
    <3>1. o \in 1 .. n + 1 /\ n \in Nat /\ k \in Nat
      BY <1>1, <1>3
    <3> HIDE DEF t, n
    <3> QED
      BY <1>5, <1>8, <3>1
  <2>2. E[q] = S[k + q]
    BY <1>2, <2>1
  <2> HIDE DEF e, E, S, t, n
  <2>3. E[o] = Joined(t, E[q]) /\ S[k + o] = Joined(t, S[k + q])
    BY <1>6, <1>8, <2>1
  <2> QED
    BY <1>3, <2>2, <2>3
<1> QED
  BY <1>7, <1>8

(* A turn that goes on does the same when more bytes have come.            *)
LEMMA MoreSerialBytes ==
  ASSUME NEW at \in Nat, NEW a \in Seq(Byte), NEW c \in Seq(Byte), NEW o \in 1 .. Len(a) + 1,
         SerialTurn(at, a, o).bytes # 0
  PROVE  /\ a \o c \in Seq(Byte) /\ o \in 1 .. Len(a \o c) + 1
         /\ SerialTurn(at, a \o c, o) = SerialTurn(at, a, o)
<1> DEFINE b == a \o c
<1>1. /\ b \in Seq(Byte) /\ Len(b) = Len(a) + Len(c) /\ Len(a) \in Nat /\ Len(c) \in Nat
      /\ \A i \in 1 .. Len(a) : b[i] = a[i]
  BY ConcatProperties
<1>2. \A i \in Nat \ {0}, j \in 0 .. Len(a) : SubSeq(b, i, j) = SubSeq(a, i, j)
  BY Parsers!SubSeqOfBeginning
<1> HIDE DEF b
<1>3. Left(a, o) >= 5
  BY SerialTurnCases DEF Moves
<1>4. /\ o \in Nat /\ o >= 1 /\ o + 4 <= Len(a) /\ o \in 1 .. Len(b) + 1
      /\ Left(b, o) = Left(a, o) + Len(c) /\ Left(a, o) \in Nat
  BY <1>1, <1>3 DEF Left
<1>5. b[o] = a[o] /\ b[o + 1] = a[o + 1] /\ b[o + 2] = a[o + 2] /\ b[o + 3] = a[o + 3]
  <2>1. /\ o \in 1 .. Len(a) /\ o + 1 \in 1 .. Len(a) /\ o + 2 \in 1 .. Len(a)
        /\ o + 3 \in 1 .. Len(a)
    BY <1>1, <1>4
  <2> QED
    BY <1>1, <2>1
<1>6. (InSync(b, o) <=> InSync(a, o)) /\ FrameSize(b, o) = FrameSize(a, o)
  BY <1>5 DEF InSync, FrameSize
<1> DEFINE size == FrameSize(a, o)
           len  == a[o + 2]
<1>7. size \in Nat /\ size >= 4 /\ size = len + 4 /\ len \in Byte
  BY <1>3, SizeIsThere
<1> HIDE DEF size, len
<1>8. size \in Nat /\ size >= 4
  BY <1>7
<1>9. ASSUME ~InSync(a, o) PROVE SerialTurn(at, b, o) = SerialTurn(at, a, o)
  <2>1. ~(Left(a, o) < 5) /\ ~(Left(b, o) < 5)
    BY <1>1, <1>3, <1>4
  <2> QED
    BY <1>6, <1>9, <2>1, Zenon DEF SerialTurn
<1>10. ASSUME InSync(a, o) PROVE SerialTurn(at, b, o) = SerialTurn(at, a, o)
  <2>1. Left(a, o) >= size
    BY <1>3, <1>10, SerialTurnCases DEF size, Moves, Complete
  <2>2. /\ ~(Left(a, o) < 5) /\ ~(Left(b, o) < 5)
        /\ ~(Left(a, o) < size) /\ ~(Left(b, o) < size) /\ o + size - 1 <= Len(a)
    BY <1>1, <1>3, <1>4, <1>8, <2>1 DEF Left
  <2>3. b[o + size - 1] = a[o + size - 1]
    <3>1. o + size - 1 \in 1 .. Len(a)
      BY <1>1, <1>4, <1>8, <2>2
    <3> QED
      BY <1>1, <3>1
  <2>4. CrcAgrees(b, o) <=> CrcAgrees(a, o)
    <3>1. o + 2 \in Nat \ {0} /\ o + size - 1 - 1 \in 0 .. Len(a)
      BY <1>1, <1>4, <1>8, <2>2
    <3>2. SubSeq(b, o + 2, o + size - 1 - 1) = SubSeq(a, o + 2, o + size - 1 - 1)
      BY <1>2, <3>1
    <3>3. FrameSize(b, o) = size /\ FrameSize(a, o) = size
      BY <1>6 DEF size
    <3>4. CrcAgrees(b, o) <=> Crc8(SubSeq(b, o + 2, o + size - 1 - 1)) = b[o + size - 1]
      BY <1>4, <1>8, <3>3 DEF CrcAgrees
    <3>5. CrcAgrees(a, o) <=> Crc8(SubSeq(a, o + 2, o + size - 1 - 1)) = a[o + size - 1]
      BY <1>4, <1>8, <3>3 DEF CrcAgrees
    <3> QED
      BY <2>3, <3>2, <3>4, <3>5
  <2>5. SerialFrameAt(at, b, o) = SerialFrameAt(at, a, o)
    <3>1. len \in Nat /\ len = size - 4
      BY <1>7 DEF Byte
    <3>2. o + 4 \in Nat \ {0} /\ o + 2 + len \in 0 .. Len(a)
      BY <1>1, <1>4, <1>8, <2>2, <3>1
    <3>3. SubSeq(b, o + 4, o + 2 + len) = SubSeq(a, o + 4, o + 2 + len)
      BY <1>2, <3>2
    <3>4. b[o + 2] = len /\ a[o + 2] = len
      BY <1>5 DEF len
    <3> QED
      BY <1>5, <3>3, <3>4 DEF SerialFrameAt
  <2> QED
    BY <1>6, <1>10, <2>2, <2>4, <2>5, Zenon DEF SerialTurn, size
<1> QED
  BY <1>1, <1>4, <1>9, <1>10 DEF b

(* What is found first, and then what is found behind it.                  *)
LEMMA JoinedAssociates ==
  ASSUME NEW x, x.frames \in Seq(SerialFrames), NEW y \in Outcomes, NEW z \in Outcomes
  PROVE  Joined(x, Joined(y, z)) = Joined(Joined(x, y), z)
<1> DEFINE X == x.frames
           Y == y.frames
           Z == z.frames
<1>1. X \in Seq(SerialFrames) /\ Y \in Seq(SerialFrames) /\ Z \in Seq(SerialFrames)
  BY DEF Outcomes
<1>2. \A u, v, w \in Seq(SerialFrames) : (u \o v) \o w = u \o (v \o w)
  BY SMTT(60)
<1>3. (X \o Y) \o Z = X \o (Y \o Z)
  BY <1>1, <1>2, Zenon
<1> QED
  BY <1>3 DEF Joined

(* Joined to nothing found, an outcome stays as it is.                     *)
LEMMA NothingJoined ==
  ASSUME NEW r, NEW z \in Outcomes
  PROVE  Joined([frames |-> <<>>, rest |-> r], z) = z
<1>1. z.frames \in Seq(SerialFrames) /\ z = [frames |-> z.frames, rest |-> z.rest]
  BY DEF Outcomes
<1>2. <<>> \o z.frames = z.frames
  BY <1>1, ConcatEmptySeq
<1> QED
  BY <1>1, <1>2 DEF Joined

(* From every position on, the loop finds first what it finds without the  *)
(* later bytes, and goes on where it would have ended.                     *)
LEMMA ScanOfMore ==
  ASSUME NEW at \in Nat, NEW a \in Seq(Byte), NEW c \in Seq(Byte)
  PROVE  \A o \in 1 .. Len(a) + 1 :
           LET first == SerialScanFrom(at, a)[o]
               all   == SerialScanFrom(at, a \o c)
           IN  all[o] = Joined(first, all[Len(a) - Len(first.rest) + 1])
<1> DEFINE b == a \o c
           n == Len(a)
           S == SerialScanFrom(at, a)
           B == SerialScanFrom(at, b)
           Good(o) == B[o] = Joined(S[o], B[n - Len(S[o].rest) + 1])
           D == {o \in 1 .. n + 1 : ~Good(o)}
<1> SUFFICES ASSUME D # {} PROVE FALSE
  OBVIOUS
<1>1. /\ b \in Seq(Byte) /\ Len(b) = n + Len(c) /\ n \in Nat /\ Len(c) \in Nat
      /\ D \subseteq 1 .. n + 1
  <2>1. b \in Seq(Byte) /\ Len(b) = n + Len(c)
    BY ConcatProperties
  <2>2. D \subseteq 1 .. n + 1
    OBVIOUS
  <2> HIDE DEF D, b
  <2> QED
    BY <2>1, <2>2
<1>2. PICK o \in D : \A p \in o + 1 .. n + 1 : p \notin D
  <2> HIDE DEF D, n
  <2> QED BY <1>1, LastPosition
<1>3. o \in 1 .. n + 1 /\ ~Good(o)
  OBVIOUS
<1>4. /\ \A p \in 1 .. n + 1 : S[p] \in Outcomes
      /\ \A p \in 1 .. Len(b) + 1 : B[p] \in Outcomes
  <2> HIDE DEF b
  <2> QED BY <1>1, SerialScanType
<1>5. \A p \in 1 .. n + 1 : p \in 1 .. Len(b) + 1
  BY <1>1
<1> DEFINE t == SerialTurn(at, a, o)
<1>6. t.bytes \in 0 .. n - o + 1 /\ t.frames \in Seq(SerialFrames)
  BY <1>3, SerialTurnBounds, SerialTurnFinds
<1>7. CASE t.bytes = 0
  <2>1. S[o] = [frames |-> <<>>, rest |-> SubSeq(a, o, n)]
    BY <1>3, <1>7, SerialScanUnfolds
  <2>2. Len(SubSeq(a, o, n)) = n - o + 1
    <3>1. o \in Nat \ {0} /\ n \in 0 .. Len(a)
      BY <1>1, <1>3
    <3>2. Len(SubSeq(a, o, n)) = IF o <= n THEN n - o + 1 ELSE 0
      BY <3>1, PartOfBuffer
    <3> QED
      BY <1>1, <1>3, <3>2
  <2>3. n - Len(S[o].rest) + 1 = o
    <3> HIDE DEF S, n
    <3> QED BY <1>1, <1>3, <2>1, <2>2
  <2>4. Joined(S[o], B[o]) = B[o]
    <3> HIDE DEF S, B, n
    <3> QED BY <1>3, <1>4, <1>5, <2>1, NothingJoined
  <2> QED
    BY <1>3, <2>3, <2>4
<1>8. CASE t.bytes # 0
  <2> DEFINE q == o + t.bytes
             w == B[n - Len(S[q].rest) + 1]
  <2>1. q \in o + 1 .. n + 1 /\ q \in 1 .. n + 1
    <3>1. o \in 1 .. n + 1 /\ n \in Nat
      BY <1>1, <1>3
    <3> HIDE DEF t, n
    <3> QED
      BY <1>6, <1>8, <3>1
  <2>2. S[o] = Joined(t, S[q])
    BY <1>3, <1>8, SerialScanUnfolds
  <2>3. B[o] = Joined(t, B[q])
    <3>1. o \in 1 .. Len(b) + 1 /\ SerialTurn(at, b, o) = t
      BY <1>3, <1>8, MoreSerialBytes
    <3> HIDE DEF b
    <3>2. LET turn == SerialTurn(at, b, o) IN
          B[o] = IF turn.bytes = 0 THEN [frames |-> <<>>, rest |-> SubSeq(b, o, Len(b))]
                 ELSE Joined(turn, B[o + turn.bytes])
      BY <1>1, <3>1, SerialScanUnfolds
    <3> HIDE DEF t, B
    <3> QED
      BY <1>8, <3>1, <3>2
  <2>4. Good(q)
    BY <1>2, <2>1
  <2>5. S[q] \in Outcomes /\ w \in Outcomes
    <3>1. S[q] \in Outcomes /\ \E p \in q .. n + 1 : S[q].rest = SubSeq(a, p, n)
      BY <2>1, SerialScanType
    <3>2. PICK p \in q .. n + 1 : S[q].rest = SubSeq(a, p, n)
      BY <3>1
    <3>3. p \in Nat \ {0} /\ n \in 0 .. Len(a) /\ p \in 1 .. n + 1
      BY <1>1, <2>1, <3>2
    <3>4. Len(SubSeq(a, p, n)) = IF p <= n THEN n - p + 1 ELSE 0
      BY <3>3, PartOfBuffer
    <3> HIDE DEF S, B, n, b
    <3>5. n - Len(S[q].rest) + 1 = p
      BY <1>1, <3>2, <3>3, <3>4
    <3> QED
      BY <1>4, <1>5, <3>1, <3>3, <3>5
  <2>6. S[o].rest = S[q].rest
    <3> HIDE DEF S, t, q
    <3> QED BY <2>2 DEF Joined
  <2>7. Joined(t, Joined(S[q], w)) = Joined(Joined(t, S[q]), w)
    <3> HIDE DEF S, t, q, w
    <3> QED BY <1>6, <2>5, JoinedAssociates
  <2>8. w = B[n - Len(S[o].rest) + 1]
    <3> HIDE DEF S, B, n, q, t
    <3> QED BY <2>6
  <2>9. B[q] = Joined(S[q], w)
    BY <2>4
  <2> HIDE DEF S, B, n, q, t, w
  <2>10. B[o] = Joined(S[o], w)
    BY <2>2, <2>3, <2>7, <2>9
  <2>11. Good(o)
    BY <2>8, <2>10
  <2> QED
    BY <1>3, <2>11
<1> QED
  BY <1>7, <1>8

(* Scanning what has come and then, with what was kept, what comes later   *)
(* finds what scanning all of it at once finds, for all bytes and wherever *)
(* they are cut.                                                           *)
THEOREM SerialScanOfConcat ==
  ASSUME NEW at \in Nat, NEW a \in Seq(Byte), NEW c \in Seq(Byte)
  PROVE  LET first == SerialScan(at, a) IN
         SerialScan(at, a \o c) =
           Joined(first, SerialScan(at + (Len(a) - Len(first.rest)), first.rest \o c))
<1> DEFINE b == a \o c
           n == Len(a)
           first == SerialScan(at, a)
           k == n - Len(first.rest)
<1>1. b \in Seq(Byte) /\ Len(b) = n + Len(c) /\ n \in Nat /\ Len(c) \in Nat /\ 1 \in 1 .. n + 1
  BY ConcatProperties
<1>2. k \in 0 .. n /\ first.rest = Past(a, k)
  <2>1. PICK p \in 1 .. n + 1 : first.rest = SubSeq(a, p, n)
    <3>1. \E p \in 1 .. n + 1 : SerialScanFrom(at, a)[1].rest = SubSeq(a, p, n)
      BY <1>1, SerialScanType
    <3> QED
      BY <3>1 DEF SerialScan
  <2>2. p \in Nat \ {0} /\ n \in 0 .. Len(a)
    BY <1>1
  <2>3. Len(SubSeq(a, p, n)) = IF p <= n THEN n - p + 1 ELSE 0
    BY <2>2, PartOfBuffer
  <2> HIDE DEF first
  <2>4. k = p - 1 /\ k \in 0 .. n /\ k + 1 = p
    <3> HIDE DEF n
    <3> QED BY <1>1, <2>1, <2>3
  <2> HIDE DEF k
  <2> QED
    BY <2>1, <2>4 DEF Past
<1>3. SerialScan(at, b) = Joined(first, SerialScanFrom(at, b)[k + 1])
  BY <1>1, ScanOfMore DEF SerialScan
<1>4. Past(b, k) = first.rest \o c
  <2>1. Past(b, k) = Past(a, k) \o c
    <3> HIDE DEF k
    <3> QED BY <1>2, Parsers!PastOfConcat DEF Past, Parsers!Past
  <2> QED
    BY <1>2, <2>1
<1>5. SerialScanFrom(at + k, Past(b, k))[1] = SerialScanFrom(at, b)[k + 1]
  <2> HIDE DEF k, b
  <2>1. k \in 0 .. Len(b) /\ 1 \in 1 .. Len(b) - k + 1
    BY <1>1, <1>2
  <2> QED
    BY <1>1, <2>1, ScanOfPast
<1> HIDE DEF first, k, b
<1>6. SerialScan(at, b) = Joined(first, SerialScan(at + k, first.rest \o c))
  BY <1>3, <1>4, <1>5 DEF SerialScan
<1> QED
  BY <1>6 DEF first, k, b
-----------------------------------------------------------------------------
(* The inductive invariant: what poll() did so far is what one pass over   *)
(* everything that was read does, and as long as nothing was lost that is  *)
(* the beginning of the line.                                              *)
NothingLost == Len(received) = taken => received = SubSeq(LineBytes, 1, taken)

SerialInv == ReceiverTypeOK /\ PollsAddUp /\ NothingLost

(* The bytes and the reports of the first pieces of a script.              *)
LEMMA ScriptUnfolds ==
  ASSUME NEW s \in Seq(Pieces)
  PROVE  /\ BytesOf(s)[0] = <<>> /\ ReportsOf(s)[0] = <<>>
         /\ \A i \in 1 .. Len(s) :
              /\ BytesOf(s)[i] = BytesOf(s)[i - 1] \o s[i].bytes
              /\ ReportsOf(s)[i] = ReportsOf(s)[i - 1] \o s[i].reports
<1> DEFINE n == Len(s)
           b == [i \in 1 .. n |-> s[i].bytes]
           c == [i \in 1 .. n |-> s[i].reports]
           Rb(f) == [i \in 0 .. n |-> IF i = 0 THEN <<>> ELSE f[i - 1] \o s[i].bytes]
           Rc(f) == [i \in 0 .. n |-> IF i = 0 THEN <<>> ELSE f[i - 1] \o s[i].reports]
<1>1. n \in Nat
  OBVIOUS
<1>2. \A i \in 0 .. n : i # 0 => i \in 1 .. n
  BY <1>1
<1>3. \E f : f = Rb(f)
  <2> HIDE DEF n, b
  <2>1. PICK f : f = [i \in 0 .. n |-> IF i = 0 THEN <<>> ELSE f[i - 1] \o b[i]]
    BY <1>1, Parsers!Accumulates
  <2>2. \A i \in 0 .. n : i # 0 => b[i] = s[i].bytes
    BY <1>2 DEF b
  <2>3. [i \in 0 .. n |-> IF i = 0 THEN <<>> ELSE f[i - 1] \o b[i]] = Rb(f)
    BY <2>2
  <2> HIDE DEF Rb
  <2> QED
    BY <2>1, <2>3, Zenon
<1>4. \E f : f = Rc(f)
  <2> HIDE DEF n, c
  <2>1. PICK f : f = [i \in 0 .. n |-> IF i = 0 THEN <<>> ELSE f[i - 1] \o c[i]]
    BY <1>1, Parsers!Accumulates
  <2>2. \A i \in 0 .. n : i # 0 => c[i] = s[i].reports
    BY <1>2 DEF c
  <2>3. [i \in 0 .. n |-> IF i = 0 THEN <<>> ELSE f[i - 1] \o c[i]] = Rc(f)
    BY <2>2
  <2> HIDE DEF Rc
  <2> QED
    BY <2>1, <2>3, Zenon
<1>5. BytesOf(s) = CHOOSE f : f = Rb(f)
  BY DEF BytesOf
<1>6. ReportsOf(s) = CHOOSE f : f = Rc(f)
  BY DEF ReportsOf
<1> DEFINE B == BytesOf(s)
           C == ReportsOf(s)
<1>7. B = Rb(B)
  <2> HIDE DEF Rb
  <2> QED BY <1>3, <1>5, Zenon
<1>8. C = Rc(C)
  <2> HIDE DEF Rc
  <2> QED BY <1>4, <1>6, Zenon
<1> HIDE DEF B, C
<1>9. B[0] = <<>> /\ C[0] = <<>>
  BY <1>1, <1>7, <1>8
<1>10. ASSUME NEW i \in 1 .. n
       PROVE  B[i] = B[i - 1] \o s[i].bytes /\ C[i] = C[i - 1] \o s[i].reports
  <2>1. i \in 0 .. n /\ i # 0
    BY <1>1
  <2> HIDE DEF n
  <2>2. B[i] = B[i - 1] \o s[i].bytes
    BY <1>7, <2>1
  <2>3. C[i] = C[i - 1] \o s[i].reports
    BY <1>8, <2>1
  <2> QED
    BY <2>2, <2>3
<1> QED
  BY <1>9, <1>10 DEF B, C

(* They are bytes and payloads.                                            *)
LEMMA ScriptType ==
  ASSUME NEW s \in Seq(Pieces), NEW i \in 0 .. Len(s)
  PROVE  BytesOf(s)[i] \in Seq(Byte) /\ ReportsOf(s)[i] \in Seq(Seq(Byte))
<1> DEFINE B == BytesOf(s)
           C == ReportsOf(s)
           Bad == {k \in 0 .. Len(s) : ~(B[k] \in Seq(Byte) /\ C[k] \in Seq(Seq(Byte)))}
<1> SUFFICES ASSUME Bad # {} PROVE FALSE
  OBVIOUS
<1>1. Len(s) \in Nat /\ Bad \subseteq Nat
  OBVIOUS
<1>2. PICK k \in Bad : \A j \in Bad : k <= j
  BY <1>1, Parsers!LeastNat
<1>3. CASE k = 0
  <2>1. B[0] = <<>> /\ C[0] = <<>>
    BY ScriptUnfolds
  <2>2. <<>> \in Seq(Byte) /\ <<>> \in Seq(Seq(Byte))
    BY Parsers!ShortSeqs
  <2> HIDE DEF B, C
  <2> QED
    BY <1>2, <1>3, <2>1, <2>2
<1>4. CASE k # 0
  <2>1. k \in 1 .. Len(s) /\ k - 1 \in 0 .. Len(s) /\ ~(k <= k - 1)
    BY <1>1, <1>2, <1>4
  <2>2. B[k] = B[k - 1] \o s[k].bytes /\ C[k] = C[k - 1] \o s[k].reports
    BY <2>1, ScriptUnfolds
  <2>3. s[k].bytes \in Seq(Byte) /\ s[k].reports \in Seq(Seq(Byte))
    <3>1. s[k] \in Pieces
      BY <2>1
    <3> QED
      BY <3>1 DEF Pieces
  <2> HIDE DEF B, C
  <2>4. B[k - 1] \in Seq(Byte) /\ C[k - 1] \in Seq(Seq(Byte))
    BY <1>2, <2>1
  <2>5. B[k] \in Seq(Byte)
    BY <2>2, <2>3, <2>4, ConcatProperties
  <2>6. C[k] \in Seq(Seq(Byte))
    BY <2>2, <2>3, <2>4, ConcatProperties
  <2> QED
    BY <1>2, <2>5, <2>6
<1> QED
  BY <1>3, <1>4
(* What comes down the line is bytes.                                      *)
LEMMA LineType ==
  ASSUME SerialAssumption, script \in SerialScripts
  PROVE  script \in Seq(Pieces) /\ LineBytes \in Seq(Byte) /\ Len(LineBytes) \in Nat
<1>1. script \in Seq(Pieces)
  BY DEF SerialAssumption
<1>2. Len(script) \in Nat /\ Len(script) \in 0 .. Len(script)
  BY <1>1
<1>3. LineBytes \in Seq(Byte)
  BY <1>1, <1>2, ScriptType DEF LineBytes
<1> QED
  BY <1>1, <1>3

(* A scan of nothing.                                                      *)
LEMMA ScanOfNothing ==
  ASSUME NEW at \in Nat
  PROVE  SerialScan(at, <<>>) = [frames |-> <<>>, rest |-> <<>>]
<1>1. <<>> \in Seq(Byte) /\ Len(<<>>) = 0 /\ 1 \in 1 .. 0 + 1
  OBVIOUS
<1>2. SerialTurn(at, <<>>, 1) = Moves(0)
  <2>1. Left(<<>>, 1) < 5
    BY DEF Left
  <2> QED
    BY <2>1, Zenon DEF SerialTurn
<1>3. SubSeq(<<>>, 1, 0) = <<>>
  BY SubSeqEmpty
<1> DEFINE e == <<>>
<1> HIDE DEF e
<1>4. e \in Seq(Byte) /\ Len(e) = 0 /\ 1 \in 1 .. Len(e) + 1 /\ SerialTurn(at, e, 1) = Moves(0)
  BY <1>1, <1>2 DEF e
<1>5. SerialScanFrom(at, e)[1] = [frames |-> <<>>, rest |-> SubSeq(e, 1, Len(e))]
  BY <1>4, SerialScanUnfolds DEF Moves
<1> QED
  BY <1>3, <1>4, <1>5 DEF e, SerialScan

(* A port that was never read satisfies it ...                             *)
LEMMA SerialStarts == SerialInit => SerialInv
<1> SUFFICES ASSUME SerialInit PROVE SerialInv
  OBVIOUS
<1> USE DEF SerialInit
<1>1. LineBytes \in Seq(Byte) /\ Len(LineBytes) \in Nat
  BY LineType, SerialAssumption
<1>2. ReceiverTypeOK
  BY <1>1 DEF ReceiverTypeOK
<1>3. PollsAddUp
  BY ScanOfNothing DEF PollsAddUp
<1>4. SubSeq(LineBytes, 1, 0) = <<>>
  BY <1>1, SubSeqEmpty
<1>5. NothingLost
  BY <1>4 DEF NothingLost
<1> QED
  BY <1>2, <1>3, <1>5 DEF SerialInv

(* ... and every step keeps it: a read adds the same bytes to the buffer   *)
(* and to what was received (SerialScanOfConcat).                          *)
LEMMA PollKeeps == ASSUME SerialInv, PollPort PROVE SerialInv'
<1> USE DEF SerialInv
<1>1. LineBytes \in Seq(Byte) /\ Len(LineBytes) \in Nat
  BY LineType, SerialAssumption DEF ReceiverTypeOK
<1>2. PICK n \in Available : /\ n <= ReadMax /\ taken' = taken + n /\ HandOver(Incoming(n))
                              /\ rxBuf' = Parsed(Incoming(n)).rest
  BY DEF PollPort
<1>3. UNCHANGED script
  BY DEF PollPort
<1>4. LineBytes' = LineBytes
  BY <1>3 DEF LineBytes
<1> DEFINE new == Incoming(n)
<1>5. /\ taken \in 0 .. Len(LineBytes) /\ taken' \in taken .. Len(LineBytes)
      /\ taken \in Nat /\ n \in Nat /\ n > 0 /\ taken' = taken + n
  BY <1>1, <1>2 DEF ReceiverTypeOK, Available
<1>6. /\ SubSeq(LineBytes, 1, taken) \in Seq(Byte) /\ new \in Seq(Byte)
      /\ SubSeq(LineBytes, 1, taken') = SubSeq(LineBytes, 1, taken) \o new
      /\ Len(new) = n
  <2>1. Incoming(n) = SubSeq(LineBytes, taken + 1, taken')
    BY <1>5 DEF Incoming
  <2>2. /\ SubSeq(LineBytes, 1, taken) \in Seq(Byte)
        /\ SubSeq(LineBytes, taken + 1, taken') \in Seq(Byte)
        /\ SubSeq(LineBytes, 1, taken')
             = SubSeq(LineBytes, 1, taken) \o SubSeq(LineBytes, taken + 1, taken')
    BY <1>1, <1>5, Parsers!BeginningGrows
  <2>3. Len(SubSeq(LineBytes, taken + 1, taken')) = n
    <3>1. taken + 1 \in Nat \ {0} /\ taken' \in 0 .. Len(LineBytes)
      BY <1>1, <1>5
    <3>2. Len(SubSeq(LineBytes, taken + 1, taken'))
            = IF taken + 1 <= taken' THEN taken' - (taken + 1) + 1 ELSE 0
      BY <1>1, <3>1, PartOfBuffer
    <3> QED
      BY <1>5, <3>2
  <2> QED
    BY <2>1, <2>2, <2>3
<1> HIDE DEF new
<1> DEFINE first == SerialScan(1, received)
           then  == SerialScan(1 + (Len(received) - Len(first.rest)), first.rest \o new)
<1>7. received \in Seq(Byte) /\ Len(received) \in Nat /\ Len(received) <= taken /\ rxBuf \in Seq(Byte)
  BY DEF ReceiverTypeOK
<1>8. SerialScan(1, received \o new) = Joined(first, then)
  BY <1>6, <1>7, SerialScanOfConcat
<1>9. delivered = first.frames /\ rxBuf = first.rest
  BY DEF PollsAddUp
<1>10. Parsed(new) = then
  <2>1. Len(received) - Len(rxBuf) + 1 = 1 + (Len(received) - Len(rxBuf))
    BY <1>7
  <2> HIDE DEF first
  <2> QED
    BY <1>9, <2>1 DEF Parsed
<1>11. /\ received' = received \o new /\ delivered' = delivered \o then.frames
       /\ rxBuf' = then.rest
  BY <1>2, <1>10 DEF HandOver, new
<1>12. /\ received \o new \in Seq(Byte) /\ Len(received \o new) = Len(received) + n
  BY <1>6, <1>7, ConcatProperties
<1>13. SerialScan(1, received \o new) \in Outcomes
  <2> DEFINE all == received \o new
  <2>1. all \in Seq(Byte)
    BY <1>12
  <2> HIDE DEF all
  <2>2. 1 \in 1 .. Len(all) + 1
    BY <2>1
  <2>3. SerialScanFrom(1, all)[1] \in Outcomes
    BY <2>1, <2>2, SerialScanType
  <2> QED
    BY <2>3 DEF SerialScan, all
<1> HIDE DEF first, then
<1>14. PollsAddUp'
  <2>1. SerialScan(1, received') = Joined(first, then)
    BY <1>8, <1>11
  <2>2. delivered' = Joined(first, then).frames /\ rxBuf' = Joined(first, then).rest
    BY <1>9, <1>11 DEF Joined
  <2> QED
    BY <2>1, <2>2 DEF PollsAddUp
<1>15. ReceiverTypeOK'
  <2>1. rxBuf' \in Seq(Byte) /\ delivered' \in Seq(SerialFrames)
    <3>1. Joined(first, then) \in Outcomes
      BY <1>8, <1>13
    <3>2. Joined(first, then).frames = delivered' /\ Joined(first, then).rest = rxBuf'
      BY <1>9, <1>11 DEF Joined
    <3> QED
      BY <3>1, <3>2 DEF Outcomes
  <2>2. received' \in Seq(Byte) /\ Len(received') <= taken' /\ taken' \in 0 .. Len(LineBytes)
    BY <1>1, <1>5, <1>7, <1>11, <1>12
  <2> QED
    BY <1>3, <1>4, <2>1, <2>2 DEF ReceiverTypeOK
<1>16. NothingLost'
  <2>1. SUFFICES ASSUME Len(received') = taken' PROVE received' = SubSeq(LineBytes, 1, taken')
    BY <1>4 DEF NothingLost
  <2>2. Len(received) = taken
    BY <1>5, <1>7, <1>11, <1>12, <2>1
  <2> QED
    BY <1>6, <1>11, <2>2 DEF NothingLost
<1> QED
  BY <1>14, <1>15, <1>16

(* However the line is cut into reads, whatever was lost in between.       *)
THEOREM SerialInvariance == SerialSpec => []SerialInv
<1>1. ASSUME SerialInv, [SerialNext]_serialVars PROVE SerialInv'
  <2>1. CASE PollPort
    BY <1>1, <2>1, PollKeeps
  <2>2. CASE LoseInput
    <3>1. UNCHANGED <<script, rxBuf, received, delivered>> /\ taken' \in taken + 1 .. Len(LineBytes)
      BY <2>2 DEF LoseInput
    <3>2. LineBytes' = LineBytes
      BY <3>1 DEF LineBytes
    <3>3. LineBytes \in Seq(Byte) /\ Len(LineBytes) \in Nat
      BY <1>1, LineType, SerialAssumption DEF SerialInv, ReceiverTypeOK
    <3>4. /\ Len(received) <= taken /\ taken \in Nat /\ Len(received) \in Nat
          /\ taken' > taken /\ taken' \in 0 .. Len(LineBytes)
      BY <1>1, <3>1, <3>3 DEF SerialInv, ReceiverTypeOK
    <3>5. ReceiverTypeOK'
      BY <1>1, <3>1, <3>2, <3>4 DEF SerialInv, ReceiverTypeOK
    <3>6. NothingLost' /\ PollsAddUp'
      BY <1>1, <3>1, <3>4 DEF SerialInv, NothingLost, PollsAddUp
    <3> QED
      BY <3>5, <3>6 DEF SerialInv
  <2>3. CASE UNCHANGED rxVars
    BY <1>1, <2>3 DEF rxVars, SerialInv, ReceiverTypeOK, NothingLost, PollsAddUp, LineBytes
  <2> QED
    BY <1>1, <2>1, <2>2, <2>3 DEF SerialNext, OpenPort, ClosePort, SendCmd, serialVars
<1> QED
  BY <1>1, SerialStarts, PTL DEF SerialSpec

(* The many polls together hand over what one pass over everything that    *)
(* was read finds, and keep the same rest.                                 *)
THEOREM ReadsDoNotMatter == SerialSpec => []PollsAddUp
<1>1. SerialInv => PollsAddUp
  BY DEF SerialInv
<1> QED
  BY <1>1, SerialInvariance, PTL

(* The buffer holds less than a header, or the beginning of one frame,     *)
(* whatever comes down the line: it never grows beyond 258 bytes.          *)
THEOREM BufferHoldsOneFrameStart == SerialSpec => []SerialRestIsFrameStart
<1>1. ASSUME SerialInv PROVE SerialRestIsFrameStart
  <2>1. SUFFICES ASSUME Len(rxBuf) >= 5
                 PROVE  /\ rxBuf[1] = SOF1 /\ rxBuf[2] = SOF2
                        /\ Len(rxBuf) < FrameSize(rxBuf, 1)
    BY DEF SerialRestIsFrameStart
  <2> DEFINE d == received
             n == Len(d)
  <2>2. d \in Seq(Byte) /\ n \in Nat /\ 1 \in 1 .. n + 1
    BY <1>1 DEF SerialInv, ReceiverTypeOK
  <2>3. PICK p \in 1 .. n + 1 : SerialTurn(1, d, p).bytes = 0 /\ rxBuf = SubSeq(d, p, n)
    <3>1. rxBuf = SerialScanFrom(1, d)[1].rest
      BY <1>1 DEF SerialInv, PollsAddUp, SerialScan
    <3> QED
      BY <2>2, <3>1, SerialScanType
  <2>4. /\ Len(rxBuf) = IF p <= n THEN n - p + 1 ELSE 0
        /\ \A k \in 1 .. n - p + 1 : rxBuf[k] = d[p + k - 1]
    <3>1. p \in Nat \ {0} /\ n \in 0 .. Len(d)
      BY <2>2
    <3> QED
      BY <2>2, <2>3, <3>1, PartOfBuffer
  <2> HIDE DEF d
  <2>5. Left(d, p) = Len(rxBuf) /\ Left(d, p) >= 5 /\ Left(d, p) \in Nat
    BY <2>1, <2>2, <2>4 DEF Left
  <2>6. FrameSize(d, p) \in Nat /\ FrameSize(d, p) >= 4
    BY <2>2, <2>5, SizeIsThere
  <2>7. InSync(d, p) /\ Left(d, p) < FrameSize(d, p)
    <3>1. SerialTurn(1, d, p) # Moves(1)
      BY <2>3 DEF Moves
    <3>2. SerialTurn(1, d, p) # [bytes |-> FrameSize(d, p), frames |-> <<SerialFrameAt(1, d, p)>>]
      BY <2>3, <2>6
    <3> QED
      BY <2>2, <2>5, <3>1, <3>2, SerialTurnCases
  <2>8. rxBuf[1] = d[p] /\ rxBuf[2] = d[p + 1] /\ rxBuf[1 + 2] = d[p + 2]
    <3>1. n - p + 1 >= 5 /\ p \in Nat
      BY <2>2, <2>5 DEF Left
    <3>2. /\ 1 \in 1 .. n - p + 1 /\ 2 \in 1 .. n - p + 1 /\ 3 \in 1 .. n - p + 1
          /\ p + 1 - 1 = p /\ p + 2 - 1 = p + 1 /\ p + 3 - 1 = p + 2
      BY <2>2, <3>1
    <3> QED
      BY <2>4, <3>2
  <2> QED
    BY <2>5, <2>7, <2>8 DEF InSync, FrameSize
<1> QED
  BY <1>1, SerialInvariance, PTL
-----------------------------------------------------------------------------
(* A frame found from position p on that holds position o of the buffer.   *)
Holds(d, frames, o) ==
  \E i \in DOMAIN frames :
    LET f == frames[i].at IN o \in f .. f + FrameSize(d, f) - 1

(* Every good frame that is all there and begins in the bytes the loop is  *)
(* done with was found, or begins inside one that was found.               *)
LEMMA GoodFramesAreFound ==
  ASSUME NEW d \in Seq(Byte)
  PROVE  \A p \in 1 .. Len(d) + 1 :
           LET found == SerialScanFrom(1, d)[p]
               done  == Len(d) - Len(found.rest)
           IN  \A o \in p .. Len(d) - 4 :
                 o <= done /\ InSync(d, o) /\ o + FrameSize(d, o) - 1 <= Len(d) /\ CrcAgrees(d, o)
                   => Holds(d, found.frames, o)
<1> DEFINE n == Len(d)
           S == SerialScanFrom(1, d)
           Done(p) == n - Len(S[p].rest)
           Good(p) == \A o \in p .. n - 4 :
                        o <= Done(p) /\ InSync(d, o) /\ o + FrameSize(d, o) - 1 <= n
                          /\ CrcAgrees(d, o) => Holds(d, S[p].frames, o)
           D == {p \in 1 .. n + 1 : ~Good(p)}
<1> SUFFICES ASSUME D # {} PROVE FALSE
  OBVIOUS
<1>1. n \in Nat /\ D \subseteq 1 .. n + 1
  OBVIOUS
<1>2. PICK p \in D : \A q \in p + 1 .. n + 1 : q \notin D
  <2> HIDE DEF D, n
  <2> QED BY <1>1, LastPosition
<1>3. p \in 1 .. n + 1 /\ ~Good(p)
  OBVIOUS
<1>4. PICK o \in p .. n - 4 : /\ o <= Done(p) /\ InSync(d, o) /\ o + FrameSize(d, o) - 1 <= n
                              /\ CrcAgrees(d, o) /\ ~Holds(d, S[p].frames, o)
  BY <1>3
<1> DEFINE t == SerialTurn(1, d, p)
<1>5. t.bytes \in 0 .. n - p + 1 /\ t.frames \in Seq(SerialFrames)
  BY <1>3, SerialTurnBounds, SerialTurnFinds
<1>6. S[p].rest \in Seq(Byte) /\ Len(S[p].rest) \in Nat /\ Done(p) \in Int /\ Done(p) <= n
  <2>1. S[p].rest \in Seq(Byte)
    BY <1>3, SerialScanType DEF Outcomes
  <2> HIDE DEF S, n
  <2> QED
    BY <1>1, <2>1
<1>7. CASE t.bytes = 0
  <2>1. S[p] = [frames |-> <<>>, rest |-> SubSeq(d, p, n)]
    BY <1>3, <1>7, SerialScanUnfolds
  <2>2. Len(SubSeq(d, p, n)) = IF p <= n THEN n - p + 1 ELSE 0
    <3>1. p \in Nat \ {0} /\ n \in 0 .. Len(d)
      BY <1>1, <1>3
    <3> QED
      BY <3>1, PartOfBuffer
  <2> HIDE DEF S, n
  <2>3. Done(p) = p - 1
    BY <1>1, <1>3, <2>1, <2>2
  <2> HIDE DEF Done
  <2> QED
    BY <1>1, <1>3, <1>4, <2>3
<1>8. CASE t.bytes # 0
  <2> DEFINE q == p + t.bytes
  <2>1. q \in p + 1 .. n + 1 /\ q \in 1 .. n + 1
    <3>1. p \in 1 .. n + 1 /\ n \in Nat
      BY <1>1, <1>3
    <3>2. t.bytes \in 0 .. n - p + 1
      BY <1>5
    <3> DEFINE k == t.bytes
    <3>3. k \in Nat /\ k # 0 /\ k <= n - p + 1
      BY <1>8, <3>1, <3>2
    <3> HIDE DEF k, n, D, Done
    <3>4. p + k \in p + 1 .. n + 1 /\ p + k \in 1 .. n + 1
      BY <3>1, <3>3
    <3> QED
      BY <3>4 DEF k
  <2>2. S[p] = Joined(t, S[q])
    BY <1>3, <1>8, SerialScanUnfolds
  <2>3. Good(q)
    BY <1>2, <2>1
  <2>4. S[q].frames \in Seq(SerialFrames)
    BY <2>1, SerialScanType DEF Outcomes
  <2> HIDE DEF S
  <2>5. S[p].rest = S[q].rest /\ S[p].frames = t.frames \o S[q].frames
    <3> HIDE DEF t, q, D, Done
    <3> DEFINE a == S[p]
               b == S[q]
    <3>1. a = Joined(t, b)
      BY <2>2
    <3> HIDE DEF a, b
    <3>2. a.rest = b.rest /\ a.frames = t.frames \o b.frames
      BY <3>1 DEF Joined
    <3> QED BY <3>2 DEF a, b
  <2>6. Done(q) = Done(p)
    BY <2>5
  <2> DEFINE T == t.frames
             F == S[q].frames
             A == T \o F
  <2>7. /\ Len(A) = Len(T) + Len(F) /\ Len(T) \in Nat /\ Len(F) \in Nat
        /\ A \in Seq(SerialFrames)
        /\ \A i \in 1 .. Len(T) : A[i] = T[i]
        /\ \A i \in 1 .. Len(F) : A[Len(T) + i] = F[i]
    <3>1. T \in Seq(SerialFrames) /\ F \in Seq(SerialFrames)
      BY <1>5, <2>4
    <3> HIDE DEF T, F
    <3> QED
      BY <3>1, ConcatProperties
  <2>8. CASE o >= q
    <3>1. o \in q .. n - 4 /\ o <= Done(q)
      <4> HIDE DEF Done, q, n
      <4> QED BY <1>1, <1>4, <1>6, <2>1, <2>6, <2>8
    <3>2. Holds(d, F, o)
      <4> HIDE DEF Done, q
      <4> QED BY <1>4, <2>3, <2>6, <3>1
    <3>3. PICK i \in DOMAIN F : o \in F[i].at .. F[i].at + FrameSize(d, F[i].at) - 1
      BY <3>2 DEF Holds
    <3> HIDE DEF T, F, A
    <3>4. i \in 1 .. Len(F)
      BY <2>4, <3>3 DEF F
    <3>5. Len(T) + i \in DOMAIN A
      <4>1. DOMAIN A = 1 .. Len(A)
        BY <2>7
      <4>2. Len(T) + i \in 1 .. Len(A)
        BY <2>7, <3>4
      <4> QED BY <4>1, <4>2
    <3>7. A[Len(T) + i] = F[i]
      BY <2>7, <3>4
    <3>6. Holds(d, A, o)
      BY <3>3, <3>5, <3>7, Zenon DEF Holds
    <3> QED
      BY <1>4, <2>5, <3>6 DEF A, T, F
  <2>9. CASE ~(o >= q)
    <3>1. o \in p .. n - 4 /\ o < q /\ o \in Nat
      <4> HIDE DEF Done, n, q
      <4> QED BY <1>1, <1>3, <1>4, <1>6, <2>1, <2>9
    <3>2. CASE t = Moves(1)
      <4>1. q = p + 1
        BY <3>2 DEF Moves
      <4>2. o = p
        <5> HIDE DEF q, n
        <5> QED BY <1>3, <3>1, <4>1
      <4>3. Left(d, p) >= 5 /\ Left(d, p) \in Nat
        BY <1>3, <3>1, <4>2 DEF Left
      <4>4. FrameSize(d, p) \in Nat
        BY <1>3, <4>3, SizeIsThere
      <4>5. Left(d, p) >= FrameSize(d, p)
        <5>1. p + FrameSize(d, p) - 1 <= n
          <6> HIDE DEF Done, n
          <6> QED BY <1>1, <1>3, <1>4, <1>6, <4>2, <4>4
        <5> QED
          BY <1>3, <4>4, <5>1 DEF Left
      <4>6. Complete(d, p)
        BY <1>4, <4>2, <4>5 DEF Complete
      <4>7. Moves(1) # Moves(0)
        BY DEF Moves
      <4>8. t # [bytes |-> FrameSize(d, p), frames |-> <<SerialFrameAt(1, d, p)>>]
        <5>1. Moves(1).frames = <<>>
          BY DEF Moves
        <5> DEFINE r == [bytes |-> FrameSize(d, p), frames |-> <<SerialFrameAt(1, d, p)>>]
        <5>2. r.frames # <<>>
          OBVIOUS
        <5> HIDE DEF t, r
        <5>3. t # r
          BY <3>2, <5>1, <5>2
        <5> QED BY <5>3 DEF r
      <4> HIDE DEF t
      <4>9. \/ t = Moves(0)
            \/ ~InSync(d, p) \/ ~CrcAgrees(d, p)
        <5>1. /\ 1 \in Nat /\ d \in Seq(Byte) /\ p \in 1 .. Len(d) + 1
          BY <1>3
        <5> QED
          BY <4>8, <5>1, SerialTurnCases DEF t
      <4> QED
        BY <3>2, <4>6, <4>7, <4>9 DEF Complete
    <3>3. CASE t = [bytes |-> FrameSize(d, p), frames |-> <<SerialFrameAt(1, d, p)>>]
      <4>1. T = <<SerialFrameAt(1, d, p)>> /\ q = p + FrameSize(d, p)
        BY <3>3
      <4>2. SerialFrameAt(1, d, p).at = p
        BY <1>3 DEF SerialFrameAt
      <4> HIDE DEF T, F, A, t
      <4>3. Len(T) = 1 /\ T[1].at = p
        BY <4>1, <4>2
      <4>4. 1 \in DOMAIN A /\ A[1].at = p
        BY <2>7, <4>3
      <4>5. o \in p .. p + FrameSize(d, p) - 1
        <5> HIDE DEF q, n
        <5>1. q \in Nat /\ o >= p
          BY <1>1, <1>3, <2>1, <3>1
        <5> DEFINE size == FrameSize(d, p)
        <5>2. q = p + size
          BY <4>1
        <5>3. p + size - 1 = q - 1
          <6>1. size \in Int
            <7>1. Left(d, p) >= 5
              BY <1>1, <1>3, <3>1 DEF Left, n
            <7> QED BY <1>3, <7>1, SizeIsThere DEF n
          <6> HIDE DEF size
          <6> QED BY <1>3, <5>2, <6>1
        <5> HIDE DEF size
        <5>4. o \in p .. q - 1
          BY <3>1, <5>1
        <5> QED
          BY <5>3, <5>4 DEF size
      <4>6. Holds(d, A, o)
        BY <4>4, <4>5 DEF Holds
      <4> QED
        BY <1>4, <2>5, <4>6 DEF A, T, F
    <3> QED
      BY <1>3, <1>8, <3>2, <3>3, SerialTurnCases DEF Moves
  <2> QED
    BY <2>8, <2>9
<1> QED
  BY <1>7, <1>8

(* No good frame is passed over, whatever noise is before it.              *)
THEOREM GoodFramesAreHandedOver == SerialSpec => []NoFrameSkipped
<1>1. ASSUME SerialInv PROVE NoFrameSkipped
  <2> DEFINE S == SerialScanFrom(1, received)
             done == Len(received) - Len(rxBuf)
  <2>1. received \in Seq(Byte) /\ 1 \in 1 .. Len(received) + 1
    BY <1>1 DEF SerialInv, ReceiverTypeOK
  <2>2. delivered = S[1].frames /\ rxBuf = S[1].rest
    BY <1>1 DEF SerialInv, PollsAddUp, SerialScan
  <2>3. \A o \in 1 .. Len(received) - 4 :
          /\ o <= Len(received) - Len(S[1].rest)
          /\ InSync(received, o)
          /\ o + FrameSize(received, o) - 1 <= Len(received)
          /\ CrcAgrees(received, o)
          => Holds(received, S[1].frames, o)
    <3> HIDE DEF S
    <3> QED BY <2>1, GoodFramesAreFound DEF S
  <2> HIDE DEF S
  <2>4. \A o \in 1 .. Len(received) - 4 :
          /\ o <= done /\ InSync(received, o)
          /\ o + FrameSize(received, o) - 1 <= Len(received) /\ CrcAgrees(received, o)
          => Holds(received, delivered, o)
    BY <2>2, <2>3
  <2> HIDE DEF done
  <2> QED
    BY <2>4, Zenon DEF NoFrameSkipped, Holds, done
<1> QED
  BY <1>1, SerialInvariance, PTL
-----------------------------------------------------------------------------
(* What buildFrame builds is bytes, 5 more than the payload has.           *)
LEMMA FrameIsBytes ==
  ASSUME NEW cmd \in Byte, NEW payload \in Seq(Byte)
  PROVE  LET b == BuildSerialFrame(cmd, payload) IN
         /\ b \in Seq(Byte) /\ Len(b) = Len(payload) + 5
         /\ b[1] = SOF1 /\ b[2] = SOF2 /\ b[3] = (Len(payload) + 1) % 256 /\ b[4] = cmd
<1> DEFINE len  == (Len(payload) + 1) % 256
           body == <<len, cmd>> \o payload
           crc  == Crc8(body)
           b    == BuildSerialFrame(cmd, payload)
<1>1. len \in Byte
  <2>1. Len(payload) \in Nat
    OBVIOUS
  <2>2. \A n \in Nat : (n + 1) % 256 \in Byte
    BY DEF Byte
  <2> QED
    BY <2>1, <2>2
<1>2. b = <<SOF1, SOF2>> \o body \o <<crc>>
  BY DEF BuildSerialFrame
<1> HIDE DEF len, b
<1>3. body \in Seq(Byte) /\ Len(body) = Len(payload) + 2 /\ body[1] = len /\ body[2] = cmd
  <2> DEFINE h == <<len, cmd>>
  <2>1. h \in Seq(Byte) /\ Len(h) = 2 /\ h[1] = len /\ h[2] = cmd
    BY <1>1
  <2> HIDE DEF h
  <2> QED
    BY <2>1, ConcatProperties DEF h
<1> HIDE DEF body
<1>4. crc \in Byte
  BY <1>3, Crc8IsByte
<1> HIDE DEF crc
<1>5. SOF1 \in Byte /\ SOF2 \in Byte
  BY DEF SOF1, SOF2, Byte
<1> DEFINE sof  == <<SOF1, SOF2>>
           last == <<crc>>
           head == sof \o body
<1>6. /\ sof \in Seq(Byte) /\ Len(sof) = 2 /\ sof[1] = SOF1 /\ sof[2] = SOF2
      /\ last \in Seq(Byte) /\ Len(last) = 1
  BY <1>4, <1>5
<1>7. b = head \o last
  BY <1>2
<1> HIDE DEF sof, last
<1>8. /\ head \in Seq(Byte) /\ Len(head) = Len(payload) + 4
      /\ \A k \in 1 .. Len(head) : head[k] = IF k <= 2 THEN sof[k] ELSE body[k - 2]
  <2>1. head \in Seq(Byte) /\ Len(head) = Len(sof) + Len(body)
        /\ \A k \in 1 .. Len(sof) + Len(body) : head[k] = IF k <= Len(sof) THEN sof[k] ELSE body[k - Len(sof)]
    BY <1>3, <1>6, ConcatProperties
  <2>2. Len(payload) \in Nat
    OBVIOUS
  <2> HIDE DEF head
  <2> QED
    BY <1>3, <1>6, <2>1, <2>2
<1>9. /\ head[1] = SOF1 /\ head[2] = SOF2 /\ head[3] = len /\ head[4] = cmd
  <2>1. Len(payload) \in Nat
    OBVIOUS
  <2> HIDE DEF head
  <2>2. 1 \in 1 .. Len(head) /\ 2 \in 1 .. Len(head) /\ 3 \in 1 .. Len(head) /\ 4 \in 1 .. Len(head)
    BY <1>8, <2>1
  <2> QED
    BY <1>3, <1>6, <1>8, <2>2
<1> HIDE DEF head
<1>10. /\ b \in Seq(Byte) /\ Len(b) = Len(payload) + 5
       /\ b[1] = head[1] /\ b[2] = head[2] /\ b[3] = head[3] /\ b[4] = head[4]
  <2>1. b \in Seq(Byte) /\ Len(b) = Len(head) + 1 /\ \A k \in 1 .. Len(head) : b[k] = head[k]
    <3>1. /\ b \in Seq(Byte) /\ Len(b) = Len(head) + Len(last)
          /\ \A k \in 1 .. Len(head) + Len(last) :
               b[k] = IF k <= Len(head) THEN head[k] ELSE last[k - Len(head)]
      BY <1>6, <1>7, <1>8, ConcatProperties
    <3>2. Len(head) \in Nat
      BY <1>8
    <3>3. \A k \in 1 .. Len(head) : k \in 1 .. Len(head) + Len(last) /\ k <= Len(head)
      BY <1>6, <3>2
    <3> QED
      BY <1>6, <3>1, <3>3
  <2>2. Len(payload) \in Nat
    OBVIOUS
  <2>3. 1 \in 1 .. Len(head) /\ 2 \in 1 .. Len(head) /\ 3 \in 1 .. Len(head) /\ 4 \in 1 .. Len(head)
    BY <1>8, <2>2
  <2> QED
    BY <1>8, <2>1, <2>2, <2>3
<1> QED
  BY <1>9, <1>10 DEF b, len

(* What buildFrame builds, as the loop of poll() sees it.                  *)
LEMMA BuiltSerialFrame ==
  ASSUME NEW cmd, NEW payload \in Seq(Byte), Len(payload) < 255,
         BuildSerialFrame(cmd, payload) \in Seq(Byte)
  PROVE  LET b == BuildSerialFrame(cmd, payload) IN
         /\ cmd \in Byte /\ Len(b) = Len(payload) + 5 /\ b[3] = Len(payload) + 1 /\ b[4] = cmd
         /\ InSync(b, 1) /\ FrameSize(b, 1) = Len(b) /\ CrcAgrees(b, 1)
         /\ SubSeq(b, 5, Len(b) - 1) = payload
<1> DEFINE n    == Len(payload)
           body == <<(n + 1) % 256, cmd>> \o payload
           crc  == Crc8(body)
           b    == BuildSerialFrame(cmd, payload)
<1>1. n \in Nat /\ n < 255 /\ (n + 1) % 256 = n + 1
  OBVIOUS
<1>2. body = <<n + 1, cmd>> \o payload
  BY <1>1
<1>3. b = <<SOF1, SOF2>> \o body \o <<crc>>
  BY DEF BuildSerialFrame
<1>4. b \in Seq(Byte)
  OBVIOUS
<1> HIDE DEF b, crc, body
<1>5. /\ Len(body) = n + 2 /\ body[1] = n + 1 /\ body[2] = cmd
      /\ \A i \in 1 .. n : body[i + 2] = payload[i]
      /\ \E T : body \in Seq(T)
  <2> DEFINE T == Nat \cup Byte \cup {cmd}
             h == <<n + 1, cmd>>
  <2>1. h \in Seq(T) /\ payload \in Seq(T) /\ Len(h) = 2 /\ h[1] = n + 1 /\ h[2] = cmd
    <3>1. n + 1 \in T /\ cmd \in T
      BY <1>1
    <3>2. Byte \subseteq T
      OBVIOUS
    <3> HIDE DEF T
    <3> QED
      BY <3>1, <3>2
  <2>2. body = h \o payload
    BY <1>2
  <2> HIDE DEF T, h
  <2>3. /\ body \in Seq(T) /\ Len(body) = Len(h) + n
        /\ \A i \in 1 .. Len(h) + n : body[i] = IF i <= Len(h) THEN h[i] ELSE payload[i - Len(h)]
    BY <2>1, <2>2, ConcatProperties
  <2>4. \A i \in 1 .. n + 2 : body[i] = IF i <= 2 THEN h[i] ELSE payload[i - 2]
    BY <1>1, <2>1, <2>3
  <2>5. body[1] = n + 1 /\ body[2] = cmd
    BY <1>1, <2>1, <2>4
  <2>6. ASSUME NEW i \in 1 .. n PROVE body[i + 2] = payload[i]
    <3>1. i + 2 \in 1 .. n + 2 /\ ~(i + 2 <= 2) /\ (i + 2) - 2 = i
      BY <1>1
    <3> QED
      BY <2>4, <3>1
  <2> QED
    BY <1>1, <2>1, <2>3, <2>5, <2>6
<1>6. /\ Len(b) = n + 5 /\ b[1] = SOF1 /\ b[2] = SOF2 /\ b[n + 5] = crc
      /\ \A i \in 1 .. n + 2 : b[i + 2] = body[i]
  <2>1. PICK T : body \in Seq(T)
    BY <1>5
  <2> DEFINE U == T \cup {SOF1, SOF2, crc}
             x == <<SOF1, SOF2>>
             y == <<crc>>
             z == x \o body
  <2>2. body \in Seq(U) /\ x \in Seq(U) /\ y \in Seq(U) /\ Len(x) = 2 /\ Len(y) = 1
        /\ x[1] = SOF1 /\ x[2] = SOF2 /\ y[1] = crc
    <3>1. T \subseteq U /\ SOF1 \in U /\ SOF2 \in U /\ crc \in U
      OBVIOUS
    <3> HIDE DEF U
    <3> QED
      BY <2>1, <3>1
  <2>3. b = z \o y
    BY <1>3
  <2> HIDE DEF U, x, y
  <2>4. z \in Seq(U) /\ Len(z) = 2 + Len(body)
        /\ \A i \in 1 .. 2 + Len(body) : z[i] = IF i <= 2 THEN x[i] ELSE body[i - 2]
    <3>1. /\ z \in Seq(U) /\ Len(z) = Len(x) + Len(body)
          /\ \A i \in 1 .. Len(x) + Len(body) :
               z[i] = IF i <= Len(x) THEN x[i] ELSE body[i - Len(x)]
      BY <2>2, ConcatProperties
    <3> HIDE DEF z
    <3> QED
      BY <2>2, <3>1
  <2> HIDE DEF z
  <2>5. /\ Len(b) = Len(z) + 1
        /\ \A i \in 1 .. Len(z) + 1 : b[i] = IF i <= Len(z) THEN z[i] ELSE y[i - Len(z)]
    <3>1. /\ Len(b) = Len(z) + Len(y)
          /\ \A i \in 1 .. Len(z) + Len(y) : b[i] = IF i <= Len(z) THEN z[i] ELSE y[i - Len(z)]
      BY <2>2, <2>3, <2>4, ConcatProperties
    <3> QED
      BY <2>2, <3>1
  <2>6. Len(z) = n + 4
    BY <1>1, <1>5, <2>4
  <2>7. \A i \in 1 .. n + 4 : b[i] = IF i <= 2 THEN x[i] ELSE body[i - 2]
    BY <1>1, <1>5, <2>4, <2>5, <2>6
  <2>8. Len(b) = n + 5 /\ b[n + 5] = crc
    <3>1. b[n + 5] = y[(n + 5) - (n + 4)]
      BY <1>1, <2>5, <2>6
    <3>2. (n + 5) - (n + 4) = 1
      BY <1>1
    <3> QED
      BY <1>1, <2>2, <2>5, <2>6, <3>1, <3>2
  <2>9. b[1] = SOF1 /\ b[2] = SOF2
    BY <1>1, <2>2, <2>7
  <2>10. ASSUME NEW i \in 1 .. n + 2 PROVE b[i + 2] = body[i]
    <3>1. i + 2 \in 1 .. n + 4 /\ ~(i + 2 <= 2) /\ (i + 2) - 2 = i
      BY <1>1
    <3> QED
      BY <2>7, <3>1
  <2> QED
    BY <2>8, <2>9, <2>10
<1>7. b[3] = n + 1 /\ b[4] = cmd
  <2>1. b[1 + 2] = body[1] /\ b[2 + 2] = body[2]
    BY <1>1, <1>6
  <2> QED
    BY <1>5, <2>1
<1>8. cmd \in Byte
  <2>1. 4 \in 1 .. Len(b)
    BY <1>1, <1>6
  <2> QED
    BY <1>4, <1>7, <2>1, ElementOfSeq
<1>9. FrameSize(b, 1) = n + 5 /\ InSync(b, 1)
  BY <1>1, <1>6, <1>7 DEF FrameSize, InSync
<1>10. SubSeq(b, 3, n + 4) = body
  <2> DEFINE part == SubSeq(b, 3, n + 4)
  <2>1. /\ part \in Seq(Byte) /\ Len(part) = n + 2
        /\ \A k \in 1 .. n + 2 : part[k] = b[3 + k - 1]
    <3>1. 3 \in Nat \ {0} /\ n + 4 \in 0 .. Len(b) /\ 3 <= n + 4 /\ (n + 4) - 3 + 1 = n + 2
      BY <1>1, <1>6
    <3>2. /\ Len(part) = IF 3 <= n + 4 THEN (n + 4) - 3 + 1 ELSE 0
          /\ \A k \in 1 .. (n + 4) - 3 + 1 : part[k] = b[3 + k - 1]
          /\ part \in Seq(Byte)
      BY <1>4, <3>1, PartOfBuffer
    <3> QED
      BY <3>1, <3>2
  <2> HIDE DEF part
  <2>2. \A k \in 1 .. n + 2 : part[k] = body[k]
    <3>1. TAKE k \in 1 .. n + 2
    <3>2. 3 + k - 1 = k + 2
      OBVIOUS
    <3>3. part[k] = b[k + 2]
      BY <2>1, <3>2
    <3> QED
      BY <1>6, <3>3
  <2>3. PICK T : body \in Seq(T)
    BY <1>5
  <2>4. part = body
    BY <1>5, <2>1, <2>2, <2>3, SeqEqual
  <2> QED
    BY <2>4 DEF part
<1>11. CrcAgrees(b, 1)
  <2>1. 1 + FrameSize(b, 1) - 1 = n + 5 /\ (n + 5) - 1 = n + 4 /\ 1 + 2 = 3
    BY <1>1, <1>9
  <2> QED
    BY <1>6, <1>10, <2>1 DEF CrcAgrees, crc
<1>12. SubSeq(b, 5, Len(b) - 1) = payload
  <2> DEFINE part == SubSeq(b, 5, n + 4)
  <2>1. /\ part \in Seq(Byte) /\ Len(part) = n
        /\ \A k \in 1 .. n : part[k] = b[5 + k - 1]
    <3>1. 5 \in Nat \ {0} /\ n + 4 \in 0 .. Len(b) /\ (n + 4) - 5 + 1 = n
      BY <1>1, <1>6
    <3>2. /\ Len(part) = IF 5 <= n + 4 THEN (n + 4) - 5 + 1 ELSE 0
          /\ \A k \in 1 .. (n + 4) - 5 + 1 : part[k] = b[5 + k - 1]
          /\ part \in Seq(Byte)
      BY <1>4, <3>1, PartOfBuffer
    <3>3. (IF 5 <= n + 4 THEN (n + 4) - 5 + 1 ELSE 0) = n
      BY <1>1
    <3> QED
      BY <3>1, <3>2, <3>3
  <2> HIDE DEF part
  <2>2. \A k \in 1 .. n : part[k] = payload[k]
    <3>1. TAKE k \in 1 .. n
    <3>2. 5 + k - 1 = (k + 2) + 2 /\ k + 2 \in 1 .. n + 2
      BY <1>1
    <3>3. part[k] = b[(k + 2) + 2]
      BY <2>1, <3>2
    <3>4. part[k] = body[k + 2]
      BY <1>6, <3>2, <3>3
    <3> QED
      BY <1>5, <3>4
  <2>3. part = payload
    BY <2>1, <2>2, SeqEqual
  <2>4. Len(b) - 1 = n + 4
    BY <1>1, <1>6
  <2> QED
    BY <2>3, <2>4 DEF part
<1> QED
  BY <1>6, <1>7, <1>8, <1>9, <1>11, <1>12 DEF b

(* A loop that ends where it begins finds nothing and keeps everything.    *)
LEMMA ScanThatEnds ==
  ASSUME NEW at \in Nat, NEW d \in Seq(Byte), SerialTurn(at, d, 1) = Moves(0)
  PROVE  SerialScan(at, d) = [frames |-> <<>>, rest |-> d]
<1>1. 1 \in 1 .. Len(d) + 1
  OBVIOUS
<1>2. SerialTurn(at, d, 1).bytes = 0
  BY DEF Moves
<1>3. SerialScanFrom(at, d)[1] = [frames |-> <<>>, rest |-> SubSeq(d, 1, Len(d))]
  BY <1>1, <1>2, SerialScanUnfolds
<1>4. SubSeq(d, 1, Len(d)) = d
  BY SubSeqFull
<1> QED
  BY <1>3, <1>4 DEF SerialScan

(* poll() takes a frame that was built whole out of the buffer, with its   *)
(* payload as it went in, and keeps nothing; it takes nothing out of a     *)
(* frame that is not complete and keeps all of it.                         *)
THEOREM SerialRoundTrip ==
  ASSUME NEW at \in Nat, NEW cmd \in Byte, NEW payload \in Seq(Byte), Len(payload) < 255
  PROVE  LET b == BuildSerialFrame(cmd, payload)
             f == [at |-> at, cmd |-> cmd, length |-> Len(payload), payload |-> payload]
         IN  /\ SerialScan(at, b) = [frames |-> <<f>>, rest |-> <<>>]
             /\ \A k \in 0 .. Len(b) - 1 :
                  SerialScan(at, SubSeq(b, 1, k)) = [frames |-> <<>>, rest |-> SubSeq(b, 1, k)]
<1> DEFINE n == Len(payload)
           b == BuildSerialFrame(cmd, payload)
           f == [at |-> at, cmd |-> cmd, length |-> n, payload |-> payload]
<1>1. /\ b \in Seq(Byte) /\ cmd \in Byte /\ Len(b) = n + 5 /\ b[3] = n + 1
      /\ InSync(b, 1) /\ FrameSize(b, 1) = Len(b) /\ CrcAgrees(b, 1)
      /\ SubSeq(b, 5, Len(b) - 1) = payload /\ b[4] = cmd
  <2>1. b \in Seq(Byte)
    BY FrameIsBytes
  <2> QED
    BY <2>1, BuiltSerialFrame, Zenon
<1>2. n \in Nat /\ n < 255
  OBVIOUS
<1> HIDE DEF b, n
<1>3. SerialFrameAt(at, b, 1) = f
  <2>1. b[1 + 2] = n + 1 /\ n + 1 # 0 /\ (n + 1) - 1 = n /\ at + 1 - 1 = at /\ b[1 + 3] = cmd
    BY <1>1, <1>2
  <2>2. SubSeq(b, 1 + 4, 1 + 2 + (n + 1)) = payload
    <3>1. 1 + 4 = 5 /\ 1 + 2 + (n + 1) = Len(b) - 1
      BY <1>1, <1>2
    <3> QED
      BY <1>1, <3>1
  <2> QED
    BY <2>1, <2>2 DEF SerialFrameAt
<1>4. Left(b, 1) = n + 5
  BY <1>1, <1>2 DEF Left
<1>5. SerialScan(at, b) = [frames |-> <<f>>, rest |-> <<>>]
  <2>1. SerialTurn(at, b, 1) = [bytes |-> n + 5, frames |-> <<f>>]
    <3>1. ~(Left(b, 1) < 5) /\ ~(Left(b, 1) < FrameSize(b, 1)) /\ FrameSize(b, 1) = n + 5
      BY <1>1, <1>2, <1>4
    <3> QED
      BY <1>1, <1>3, <3>1 DEF SerialTurn
  <2>2. SerialScanFrom(at, b)[n + 6] = [frames |-> <<>>, rest |-> <<>>]
    <3>1. n + 6 \in 1 .. Len(b) + 1
      BY <1>1, <1>2
    <3>2. SerialTurn(at, b, n + 6) = Moves(0)
      <4>1. Left(b, n + 6) < 5
        BY <1>1, <1>2 DEF Left
      <4> QED
        BY <4>1 DEF SerialTurn
    <3>3. SerialTurn(at, b, n + 6).bytes = 0
      BY <3>2 DEF Moves
    <3>4. SubSeq(b, n + 6, Len(b)) = <<>>
      BY <1>1, <1>2, SubSeqEmpty
    <3> DEFINE o == n + 6
    <3>5. o \in 1 .. Len(b) + 1 /\ SerialTurn(at, b, o).bytes = 0 /\ SubSeq(b, o, Len(b)) = <<>>
      BY <3>1, <3>3, <3>4
    <3> HIDE DEF o
    <3>6. SerialScanFrom(at, b)[o] = [frames |-> <<>>, rest |-> SubSeq(b, o, Len(b))]
      BY <1>1, <3>5, SerialScanUnfolds
    <3> QED
      BY <3>5, <3>6 DEF o
  <2>3. SerialTurn(at, b, 1).bytes = n + 5 /\ SerialTurn(at, b, 1).frames = <<f>>
    BY <2>1
  <2>4. 1 \in 1 .. Len(b) + 1 /\ n + 5 # 0 /\ 1 + (n + 5) = n + 6
    BY <1>1, <1>2
  <2>5. SerialScanFrom(at, b)[1] = Joined(SerialTurn(at, b, 1), SerialScanFrom(at, b)[n + 6])
    <3> DEFINE k == SerialTurn(at, b, 1).bytes
    <3>1. SerialScanFrom(at, b)[1] =
            IF k = 0 THEN [frames |-> <<>>, rest |-> SubSeq(b, 1, Len(b))]
            ELSE Joined(SerialTurn(at, b, 1), SerialScanFrom(at, b)[1 + k])
      BY <1>1, <2>4, SerialScanUnfolds, Zenon
    <3>2. k # 0 /\ 1 + k = n + 6
      BY <2>3, <2>4
    <3> HIDE DEF k
    <3> QED
      BY <3>1, <3>2, Zenon
  <2>6. <<f>> \o <<>> = <<f>>
    <3> HIDE DEF f
    <3>1. <<f>> \in Seq({f})
      OBVIOUS
    <3> QED
      BY <3>1, ConcatEmptySeq
  <2> DEFINE y == SerialScanFrom(at, b)[n + 6]
             x == SerialTurn(at, b, 1)
             z == SerialScanFrom(at, b)[1]
  <2>7. z = Joined(x, y) /\ x.frames = <<f>> /\ y = [frames |-> <<>>, rest |-> <<>>]
    BY <2>2, <2>3, <2>5
  <2> HIDE DEF f, x, y, z
  <2>8. z = [frames |-> <<f>>, rest |-> <<>>]
    BY <2>6, <2>7 DEF Joined
  <2> QED
    BY <2>8 DEF SerialScan, z
<1>6. ASSUME NEW k \in 0 .. Len(b) - 1
      PROVE  SerialScan(at, SubSeq(b, 1, k)) = [frames |-> <<>>, rest |-> SubSeq(b, 1, k)]
  <2> DEFINE part == SubSeq(b, 1, k)
  <2>1. /\ part \in Seq(Byte) /\ Len(part) = k /\ k \in Nat /\ k < n + 5
        /\ \A i \in 1 .. k : part[i] = b[i]
    <3>1. 1 \in Nat \ {0} /\ k \in 0 .. Len(b) /\ k \in Nat /\ k < n + 5
      BY <1>1, <1>2
    <3>2. /\ part \in Seq(Byte) /\ Len(part) = IF 1 <= k THEN k - 1 + 1 ELSE 0
          /\ \A i \in 1 .. k - 1 + 1 : part[i] = b[1 + i - 1]
      BY <1>1, <3>1, PartOfBuffer
    <3> HIDE DEF part
    <3>3. ASSUME NEW i \in 1 .. k PROVE part[i] = b[i]
      <4>1. i \in 1 .. k - 1 + 1 /\ 1 + i - 1 = i
        BY <3>1
      <4> QED
        BY <3>2, <4>1
    <3> QED
      BY <3>1, <3>2, <3>3
  <2> HIDE DEF part
  <2>2. Left(part, 1) = k
    BY <2>1 DEF Left
  <2>3. SerialTurn(at, part, 1) = Moves(0)
    <3>1. CASE k < 5
      BY <2>2, <3>1 DEF SerialTurn
    <3>2. CASE k >= 5
      <4>1. part[1] = b[1] /\ part[1 + 1] = b[1 + 1] /\ part[1 + 2] = b[1 + 2]
        BY <2>1, <3>2
      <4>2. InSync(part, 1) /\ FrameSize(part, 1) = n + 5
        BY <1>1, <4>1 DEF InSync, FrameSize
      <4>3. Left(part, 1) < FrameSize(part, 1)
        BY <2>1, <2>2, <4>2
      <4> QED
        BY <4>2, <4>3 DEF SerialTurn
    <3> QED
      BY <2>1, <3>1, <3>2
  <2>4. SerialScan(at, part) = [frames |-> <<>>, rest |-> part]
    BY <2>1, <2>3, ScanThatEnds
  <2> QED
    BY <2>4 DEF part
<1> QED
  BY <1>5, <1>6 DEF b, n

(* The payloads of some frames, and of what is behind them.                *)
LEMMA PayloadsConcat ==
  ASSUME NEW g \in Seq(SerialFrames), NEW h \in Seq(SerialFrames)
  PROVE  PayloadsOf(g \o h) = PayloadsOf(g) \o PayloadsOf(h)
<1> DEFINE all == g \o h
           P(q) == PayloadsOf(q)
<1>1. \A q \in Seq(SerialFrames) :
        P(q) \in Seq(Seq(Byte)) /\ Len(P(q)) = Len(q) /\ \A i \in 1 .. Len(q) : P(q)[i] = q[i].payload
  <2>1. TAKE q \in Seq(SerialFrames)
  <2>2. \A i \in 1 .. Len(q) : q[i].payload \in Seq(Byte)
    <3>1. \A i \in 1 .. Len(q) : q[i] \in SerialFrames
      BY ElementOfSeq, Zenon
    <3>2. \A x \in SerialFrames : x.payload \in Seq(Byte)
      BY DEF SerialFrames
    <3> QED
      BY <3>1, <3>2, Zenon
  <2>3. P(q) = [i \in 1 .. Len(q) |-> q[i].payload] /\ Len(q) \in Nat
    BY DEF PayloadsOf
  <2> HIDE DEF P
  <2> QED
    BY <2>2, <2>3
<1>2. /\ all \in Seq(SerialFrames) /\ Len(all) = Len(g) + Len(h)
      /\ \A i \in 1 .. Len(g) + Len(h) : all[i] = IF i <= Len(g) THEN g[i] ELSE h[i - Len(g)]
  BY ConcatProperties
<1>3. Len(g) \in Nat /\ Len(h) \in Nat
  OBVIOUS
<1> DEFINE joined == P(g) \o P(h)
<1> HIDE DEF P, all
<1>4. /\ joined \in Seq(Seq(Byte)) /\ Len(joined) = Len(g) + Len(h)
      /\ \A i \in 1 .. Len(g) + Len(h) :
           joined[i] = IF i <= Len(g) THEN P(g)[i] ELSE P(h)[i - Len(g)]
  <2>1. P(g) \in Seq(Seq(Byte)) /\ P(h) \in Seq(Seq(Byte)) /\ Len(P(g)) = Len(g) /\ Len(P(h)) = Len(h)
    BY <1>1
  <2>2. /\ joined \in Seq(Seq(Byte)) /\ Len(joined) = Len(P(g)) + Len(P(h))
        /\ \A i \in 1 .. Len(P(g)) + Len(P(h)) :
             joined[i] = IF i <= Len(P(g)) THEN P(g)[i] ELSE P(h)[i - Len(P(g))]
    BY <2>1, ConcatProperties
  <2> QED
    BY <2>1, <2>2
<1>5. ASSUME NEW i \in 1 .. Len(g) + Len(h) PROVE P(all)[i] = joined[i]
  <2>1. P(all)[i] = all[i].payload
    BY <1>1, <1>2
  <2>2. CASE i <= Len(g)
    <3>1. i \in 1 .. Len(g)
      BY <1>3, <2>2
    <3>2. all[i] = g[i] /\ joined[i] = P(g)[i]
      BY <1>2, <1>4, <2>2
    <3>3. P(g)[i] = g[i].payload
      BY <1>1, <3>1
    <3> QED
      BY <2>1, <3>2, <3>3
  <2>3. CASE ~(i <= Len(g))
    <3>1. i - Len(g) \in 1 .. Len(h)
      BY <1>3, <2>3
    <3>2. all[i] = h[i - Len(g)] /\ joined[i] = P(h)[i - Len(g)]
      BY <1>2, <1>4, <2>3
    <3>3. P(h)[i - Len(g)] = h[i - Len(g)].payload
      BY <1>1, <3>1
    <3> QED
      BY <2>1, <3>2, <3>3
  <2> QED
    BY <2>2, <2>3
<1>6. P(all) \in Seq(Seq(Byte)) /\ Len(P(all)) = Len(g) + Len(h)
  BY <1>1, <1>2
<1> HIDE DEF joined
<1>7. P(all) = joined
  BY <1>4, <1>5, <1>6, SeqEqual
<1> QED
  BY <1>7 DEF P, all, joined

(* The bytes of some pieces begin with those of the pieces before them.    *)
LEMMA BytesExtend ==
  ASSUME NEW s \in Seq(Pieces), NEW i \in 0 .. Len(s)
  PROVE  \A j \in i .. Len(s) : \E t \in Seq(Byte) : BytesOf(s)[j] = BytesOf(s)[i] \o t
<1> DEFINE B == BytesOf(s)
           Bad == {j \in i .. Len(s) : ~\E t \in Seq(Byte) : B[j] = B[i] \o t}
<1> SUFFICES ASSUME Bad # {} PROVE FALSE
  OBVIOUS
<1>1. Len(s) \in Nat /\ i \in Nat /\ Bad \subseteq Nat
  OBVIOUS
<1>2. PICK j \in Bad : \A k \in Bad : j <= k
  BY <1>1, Parsers!LeastNat
<1>3. j \in i .. Len(s) /\ ~\E t \in Seq(Byte) : B[j] = B[i] \o t
  OBVIOUS
<1>4. B[i] \in Seq(Byte)
  BY ScriptType
<1>5. CASE j = i
  <2>1. B[i] \o <<>> = B[i] /\ <<>> \in Seq(Byte)
    BY <1>4, ConcatEmptySeq
  <2> QED
    BY <1>3, <1>5, <2>1
<1>6. CASE j # i
  <2>1. j - 1 \in i .. Len(s) /\ j \in 1 .. Len(s) /\ ~(j <= j - 1)
    BY <1>1, <1>3, <1>6
  <2>2. j - 1 \notin Bad
    BY <1>2, <2>1, Zenon
  <2>3. PICK t \in Seq(Byte) : B[j - 1] = B[i] \o t
    BY <2>1, <2>2
  <2>4. s[j] \in Pieces
    BY <2>1
  <2>5. s[j].bytes \in Seq(Byte)
    BY <2>4 DEF Pieces
  <2>6. B[j] = B[j - 1] \o s[j].bytes
    BY <2>1, ScriptUnfolds
  <2> DEFINE p == s[j].bytes
  <2> HIDE DEF B, Bad, p
  <2>7. B[j] = (B[i] \o t) \o p
    BY <2>3, <2>6 DEF p
  <2>8. t \o p \in Seq(Byte) /\ (B[i] \o t) \o p = B[i] \o (t \o p)
    <3>1. \A x, y, z \in Seq(Byte) : (x \o y) \o z = x \o (y \o z)
      BY SMTT(60)
    <3>2. \A x, y \in Seq(Byte) : x \o y \in Seq(Byte)
      BY ConcatProperties
    <3> QED
      BY <1>4, <2>5, <3>1, <3>2, Zenon DEF p
  <2> QED
    BY <1>3, <2>7, <2>8, Zenon
<1> QED
  BY <1>5, <1>6

(* A piece that is not noise is a frame that is taken when it is there.    *)
LEMMA PieceIsFound ==
  ASSUME SerialAssumption, NEW s \in SerialScripts, NEW i \in 1 .. Len(s), ~s[i].noise,
         NEW at \in Nat
  PROVE  LET b == s[i].bytes IN
         /\ b \in Seq(Byte) /\ s[i].reports \in Seq(Seq(Byte))
         /\ PayloadsOf(SerialScan(at, b).frames) = s[i].reports /\ SerialScan(at, b).rest = <<>>
         /\ \A k \in 0 .. Len(b) - 1 : SerialScan(at, SubSeq(b, 1, k)).frames = <<>>
<1>1. s \in Seq(Pieces) /\ i \in DOMAIN s
  BY DEF SerialAssumption
<1>2. s[i] \in Pieces
  BY <1>1
<1> DEFINE b == s[i].bytes
           p == SubSeq(b, 5, Len(b) - 1)
           cmd == b[4]
<1>3. b \in Seq(Byte) /\ s[i].reports \in Seq(Seq(Byte))
  BY <1>2 DEF Pieces
<1>4. Len(p) < 255 /\ s[i] = Report(cmd, p)
  BY <1>1 DEF SerialAssumption
<1>5. p \in Seq(Byte)
  <2>1. 5 \in Int /\ Len(b) - 1 \in Int /\ Len(b) \in Nat
    BY <1>3
  <2>2. \A k \in 1 .. Len(b) : b[k] \in Byte
    BY <1>3, ElementOfSeq, Zenon
  <2> HIDE DEF b
  <2>3. \A k \in 5 .. Len(b) - 1 : b[k] \in Byte
    BY <2>1, <2>2
  <2> QED
    BY <2>1, <2>3, SubSeqProperties
<1>6. b = BuildSerialFrame(cmd, p) /\ s[i].reports = <<p>>
  <2>1. Report(cmd, p).bytes = BuildSerialFrame(cmd, p) /\ Report(cmd, p).reports = <<p>>
    <3> HIDE DEF p, cmd
    <3> QED BY DEF Report
  <2> QED
    BY <1>4, <2>1
<1> DEFINE frame == [at |-> at, cmd |-> cmd, length |-> Len(p), payload |-> p]
<1> HIDE DEF b, p, cmd
<1>7. /\ SerialScan(at, b) = [frames |-> <<frame>>, rest |-> <<>>]
      /\ \A k \in 0 .. Len(b) - 1 :
           SerialScan(at, SubSeq(b, 1, k)) = [frames |-> <<>>, rest |-> SubSeq(b, 1, k)]
  <2> DEFINE g == BuildSerialFrame(cmd, p)
  <2>1. b = g /\ g \in Seq(Byte)
    BY <1>3, <1>6
  <2>2. /\ SerialScan(at, g) = [frames |-> <<frame>>, rest |-> <<>>]
        /\ \A k \in 0 .. Len(g) - 1 :
             SerialScan(at, SubSeq(g, 1, k)) = [frames |-> <<>>, rest |-> SubSeq(g, 1, k)]
    <3>1. p \in Seq(Byte) /\ Len(p) < 255 /\ BuildSerialFrame(cmd, p) \in Seq(Byte) /\ at \in Nat
      BY <1>4, <1>5, <2>1
    <3>2. cmd \in Byte
      BY <3>1, BuiltSerialFrame, Zenon
    <3> QED
      BY <3>1, <3>2, SerialRoundTrip
  <2> HIDE DEF g, frame
  <2> QED
    BY <2>1, <2>2
<1>8. SerialScan(at, b).frames = <<frame>> /\ SerialScan(at, b).rest = <<>>
  BY <1>7
<1>9. PayloadsOf(<<frame>>) = <<p>>
  <2>1. frame.payload = p
    OBVIOUS
  <2> HIDE DEF frame
  <2> QED
    BY <2>1 DEF PayloadsOf
<1>10. \A k \in 0 .. Len(b) - 1 : SerialScan(at, SubSeq(b, 1, k)).frames = <<>>
  <2>1. TAKE k \in 0 .. Len(b) - 1
  <2> DEFINE part == SubSeq(b, 1, k)
  <2>2. SerialScan(at, part) = [frames |-> <<>>, rest |-> part]
    BY <1>7
  <2> HIDE DEF part
  <2>3. SerialScan(at, part).frames = <<>>
    BY <2>2
  <2> QED
    BY <2>3 DEF part
<1>11. PayloadsOf(SerialScan(at, b).frames) = s[i].reports
  BY <1>6, <1>8, <1>9, Zenon
<1> QED
  BY <1>3, <1>8, <1>10, <1>11 DEF b

(* The payloads in two buffers one behind the other, if nothing is left of *)
(* the first.                                                              *)
LEMMA PayloadsOfConcat ==
  ASSUME NEW a \in Seq(Byte), NEW c \in Seq(Byte), SerialScan(1, a).rest = <<>>
  PROVE  LET then == SerialScan(1 + Len(a), c) IN
         /\ PayloadsOf(SerialScan(1, a \o c).frames) =
              PayloadsOf(SerialScan(1, a).frames) \o PayloadsOf(then.frames)
         /\ SerialScan(1, a \o c).rest = then.rest
<1> DEFINE x == SerialScan(1, a)
           y == SerialScan(1 + Len(a), c)
           z == SerialScan(1, a \o c)
<1>1. Len(a) \in Nat /\ 1 \in Nat /\ 1 + Len(a) \in Nat /\ 1 + (Len(a) - 0) = 1 + Len(a)
  OBVIOUS
<1>2. z = Joined(x, SerialScan(1 + (Len(a) - Len(x.rest)), x.rest \o c))
  BY <1>1, SerialScanOfConcat, Zenon
<1>3. Len(x.rest) = 0 /\ x.rest \o c = c
  BY ConcatEmptySeq
<1>4. z = Joined(x, y)
  BY <1>1, <1>2, <1>3
<1>5. x.frames \in Seq(SerialFrames) /\ y.frames \in Seq(SerialFrames)
  <2>1. 1 \in 1 .. Len(a) + 1 /\ 1 \in 1 .. Len(c) + 1
    OBVIOUS
  <2>2. x \in Outcomes /\ y \in Outcomes
    BY <1>1, <2>1, SerialScanType DEF SerialScan
  <2> HIDE DEF x, y
  <2> QED
    BY <2>2 DEF Outcomes
<1> HIDE DEF x, y, z
<1>6. z.frames = x.frames \o y.frames /\ z.rest = y.rest
  BY <1>4 DEF Joined
<1>7. PayloadsOf(z.frames) = PayloadsOf(x.frames) \o PayloadsOf(y.frames)
  BY <1>5, <1>6, PayloadsConcat, Zenon
<1> QED
  BY <1>6, <1>7 DEF x, y, z

(* All pieces up to one are found, and nothing is left of them.            *)
LEMMA PiecesAreFound ==
  ASSUME SerialAssumption, NEW s \in SerialScripts, \A i \in DOMAIN s : ~s[i].noise
  PROVE  \A i \in 0 .. Len(s) :
           /\ PayloadsOf(SerialScan(1, BytesOf(s)[i]).frames) = ReportsOf(s)[i]
           /\ SerialScan(1, BytesOf(s)[i]).rest = <<>>
<1> DEFINE B == BytesOf(s)
           R == ReportsOf(s)
           Good(i) == PayloadsOf(SerialScan(1, B[i]).frames) = R[i]
                      /\ SerialScan(1, B[i]).rest = <<>>
           Bad == {i \in 0 .. Len(s) : ~Good(i)}
<1> SUFFICES ASSUME Bad # {} PROVE FALSE
  OBVIOUS
<1>1. s \in Seq(Pieces)
  BY DEF SerialAssumption
<1>2. Len(s) \in Nat /\ Bad \subseteq Nat
  BY <1>1
<1>3. PICK i \in Bad : \A k \in Bad : i <= k
  BY <1>2, Parsers!LeastNat
<1>4. i \in 0 .. Len(s) /\ ~Good(i)
  OBVIOUS
<1>5. CASE i = 0
  <2>1. B[0] = <<>> /\ R[0] = <<>>
    BY <1>1, ScriptUnfolds
  <2>2. PayloadsOf(<<>>) = <<>>
    BY DEF PayloadsOf
  <2>3. SerialScan(1, <<>>).frames = <<>> /\ SerialScan(1, <<>>).rest = <<>>
    BY ScanOfNothing
  <2>4. Good(0)
    BY <2>1, <2>2, <2>3, Zenon
  <2> QED
    BY <1>4, <1>5, <2>4
<1>6. CASE i # 0
  <2>1. i - 1 \in 0 .. Len(s) /\ i \in 1 .. Len(s) /\ ~(i <= i - 1) /\ i \in DOMAIN s
    BY <1>1, <1>2, <1>4, <1>6
  <2>2. i - 1 \notin Bad
    BY <1>3, <2>1, Zenon
  <2>3. Good(i - 1)
    BY <2>1, <2>2
  <2>4. B[i] = B[i - 1] \o s[i].bytes /\ R[i] = R[i - 1] \o s[i].reports
    BY <1>1, <2>1, ScriptUnfolds
  <2>5. B[i - 1] \in Seq(Byte)
    BY <1>1, <2>1, ScriptType
  <2> DEFINE b == s[i].bytes
             a == B[i - 1]
             at == 1 + Len(a)
  <2>6. at \in Nat
    BY <2>5
  <2>7. /\ b \in Seq(Byte)
        /\ PayloadsOf(SerialScan(at, b).frames) = s[i].reports /\ SerialScan(at, b).rest = <<>>
    <3> HIDE DEF at
    <3> QED
      BY <2>1, <2>6, PieceIsFound
  <2> HIDE DEF a, b
  <2>8. /\ PayloadsOf(SerialScan(1, a \o b).frames) =
             PayloadsOf(SerialScan(1, a).frames) \o PayloadsOf(SerialScan(at, b).frames)
        /\ SerialScan(1, a \o b).rest = SerialScan(at, b).rest
    BY <2>3, <2>5, <2>7, PayloadsOfConcat DEF a
  <2>9. B[i] = a \o b /\ PayloadsOf(SerialScan(1, a).frames) = R[i - 1]
    BY <2>3, <2>4 DEF a, b
  <2> HIDE DEF B, R, at
  <2>10. Good(i)
    BY <2>4, <2>7, <2>8, <2>9
  <2> QED
    BY <1>4, <2>10
<1> QED
  BY <1>5, <1>6

(* In the first n bytes of a clean script are the commands of the pieces   *)
(* that are there in full.                                                 *)
LEMMA FoundInBeginning ==
  ASSUME SerialAssumption, NEW s \in SerialScripts, \A i \in DOMAIN s : ~s[i].noise,
         NEW n \in 0 .. Len(BytesOf(s)[Len(s)]), NEW last \in 0 .. Len(s),
         Len(BytesOf(s)[last]) <= n, last < Len(s) => ~(Len(BytesOf(s)[last + 1]) <= n)
  PROVE  PayloadsOf(SerialScan(1, SubSeq(BytesOf(s)[Len(s)], 1, n)).frames) = ReportsOf(s)[last]
<1> DEFINE B == BytesOf(s)
           R == ReportsOf(s)
           all == B[Len(s)]
           a   == B[last]
<1>1. s \in Seq(Pieces) /\ Len(s) \in Nat /\ Len(s) \in 0 .. Len(s)
  BY DEF SerialAssumption
<1>2. /\ all \in Seq(Byte) /\ Len(all) \in Nat
      /\ a \in Seq(Byte) /\ Len(a) \in Nat /\ R[last] \in Seq(Seq(Byte))
  BY <1>1, ScriptType
<1>3. PayloadsOf(SerialScan(1, a).frames) = R[last] /\ SerialScan(1, a).rest = <<>>
  BY PiecesAreFound
<1>4. CASE last = Len(s)
  <2>1. n = Len(all) /\ all = a
    BY <1>1, <1>2, <1>4
  <2>2. SubSeq(all, 1, n) = a
    BY <1>2, <2>1, SubSeqFull
  <2> QED
    BY <1>3, <2>2
<1>5. CASE last # Len(s)
  <2> DEFINE next == last + 1
             p == s[next].bytes
             k == n - Len(a)
             q == SubSeq(p, 1, k)
             at == 1 + Len(a)
  <2>1. /\ next \in 1 .. Len(s) /\ next \in 0 .. Len(s) /\ next - 1 = last /\ next \in DOMAIN s
        /\ Len(s) \in next .. Len(s)
    BY <1>1, <1>5
  <2>2. B[next] = a \o p
    BY <1>1, <2>1, ScriptUnfolds
  <2>3. /\ p \in Seq(Byte)
        /\ \A i \in 0 .. Len(p) - 1 : SerialScan(at, SubSeq(p, 1, i)).frames = <<>>
    <3>1. at \in Nat
      BY <1>2
    <3> HIDE DEF at
    <3> QED
      BY <2>1, <3>1, PieceIsFound
  <2>4. B[next] \in Seq(Byte)
    BY <1>1, <2>1, ScriptType
  <2>5. PICK t \in Seq(Byte) : all = B[next] \o t
    BY <1>1, <2>1, BytesExtend
  <2>6. Len(B[next]) = Len(a) + Len(p) /\ Len(p) \in Nat
    BY <1>2, <2>2, <2>3, ConcatProperties
  <2>7. n \in Nat /\ Len(a) <= n /\ n < Len(B[next])
    <3>1. last < Len(s)
      BY <1>1, <1>5
    <3>2. ~(Len(B[next]) <= n)
      BY <3>1
    <3>3. Len(B[next]) \in Nat
      BY <2>4
    <3>4. n \in Nat
      OBVIOUS
    <3> QED
      BY <3>2, <3>3, <3>4
  <2> HIDE DEF next, p
  <2>8. SubSeq(all, 1, n) = SubSeq(B[next], 1, n)
    <3>1. 1 \in Nat \ {0} /\ n \in 0 .. Len(B[next])
      BY <1>2, <2>6, <2>7
    <3> DEFINE b == B[next]
    <3>2. b \in Seq(Byte) /\ t \in Seq(Byte) /\ n \in 0 .. Len(b) /\ all = b \o t
      BY <2>4, <2>5, <3>1
    <3> HIDE DEF B, all, b
    <3>3. SubSeq(b \o t, 1, n) = SubSeq(b, 1, n)
      BY <3>1, <3>2, Parsers!SubSeqOfBeginning, Zenon
    <3> QED
      BY <3>2, <3>3 DEF b
  <2>9. SubSeq(B[next], 1, n) = a \o q
    <3>1. n \in Len(a) .. Len(a) + Len(p)
      BY <1>2, <2>6, <2>7
    <3> HIDE DEF B, a
    <3> QED
      BY <1>2, <2>2, <2>3, <3>1, Parsers!BeginningOfConcat, Zenon
  <2>10. k \in 0 .. Len(p) - 1 /\ k \in 0 .. Len(p)
    BY <1>2, <2>6, <2>7
  <2>11. q \in Seq(Byte)
    <3> HIDE DEF k
    <3>1. Len(p) \in k .. Len(p)
      BY <2>6, <2>10
    <3> QED
      BY <2>3, <2>10, <3>1, Parsers!BeginningGrows
  <2>12. SerialScan(at, q).frames = <<>>
    <3> HIDE DEF at, k
    <3> QED
      BY <2>3, <2>10
  <2>13. PayloadsOf(SerialScan(1, a \o q).frames) =
           PayloadsOf(SerialScan(1, a).frames) \o PayloadsOf(SerialScan(at, q).frames)
    <3> HIDE DEF q
    <3> QED
      BY <1>2, <1>3, <2>11, PayloadsOfConcat
  <2>14. R[last] \o <<>> = R[last] /\ PayloadsOf(<<>>) = <<>>
    BY <1>2, ConcatEmptySeq DEF PayloadsOf
  <2> HIDE DEF B, R, a, all, q, at
  <2>15. PayloadsOf(SerialScan(1, a \o q).frames) = R[last]
    BY <1>3, <2>12, <2>13, <2>14
  <2>16. SubSeq(all, 1, n) = a \o q
    BY <2>8, <2>9
  <2> QED
    BY <2>15, <2>16 DEF R, B, all
<1> QED
  BY <1>4, <1>5

(* On a line without noise, read without a gap, the callback was given     *)
(* every report of every script that was received in full, in order, and   *)
(* nothing else.                                                           *)
THEOREM EveryReportArrives == SerialSpec => []ReportsLossless
<1>1. ASSUME SerialInv PROVE ReportsLossless
  <2> SUFFICES ASSUME \A i \in DOMAIN script : ~script[i].noise, Len(received) = taken
               PROVE  PayloadsOf(delivered) = ReportsWritten
    BY DEF ReportsLossless
  <2> DEFINE Whole(i) == Len(BytesOf(script)[i]) <= taken
             Last(i)  == Whole(i) /\ (i < Len(script) => ~Whole(i + 1))
             last     == CHOOSE i \in 0 .. Len(script) : Last(i)
  <2>1. /\ script \in SerialScripts /\ script \in Seq(Pieces) /\ Len(script) \in Nat
        /\ LineBytes \in Seq(Byte) /\ Len(LineBytes) \in Nat /\ taken \in 0 .. Len(LineBytes)
    <3>1. script \in SerialScripts /\ taken \in 0 .. Len(LineBytes)
      BY <1>1 DEF SerialInv, ReceiverTypeOK
    <3>2. script \in Seq(Pieces) /\ LineBytes \in Seq(Byte) /\ Len(LineBytes) \in Nat
      BY <3>1, LineType, SerialAssumption
    <3> QED
      BY <3>1, <3>2
  <2>2. \E i \in 0 .. Len(script) : Last(i)
    <3> DEFINE Ends == {i \in 0 .. Len(script) : i < Len(script) => ~Whole(i + 1)}
    <3>1. Len(script) \in Ends /\ Ends \subseteq Nat
      BY <2>1
    <3>2. PICK i \in Ends : \A k \in Ends : i <= k
      BY <3>1, Parsers!LeastNat
    <3>3. Whole(i)
      <4>1. CASE i = 0
        <5>1. BytesOf(script)[0] = <<>>
          BY <2>1, ScriptUnfolds
        <5> QED
          BY <2>1, <4>1, <5>1
      <4>2. CASE i # 0
        <5>1. i - 1 \in 0 .. Len(script) /\ i - 1 < Len(script) /\ ~(i <= i - 1) /\ (i - 1) + 1 = i
          BY <2>1, <4>2
        <5>2. i - 1 \notin Ends
          BY <3>2, <5>1, Zenon
        <5>3. Whole((i - 1) + 1)
          <6> HIDE DEF Whole
          <6> QED BY <5>1, <5>2
        <5> QED
          BY <5>1, <5>3
      <4> QED
        BY <4>1, <4>2
    <3> QED
      BY <3>2, <3>3
  <2>3. last \in 0 .. Len(script) /\ Last(last)
    <3> HIDE DEF Last
    <3> QED BY <2>2
  <2>4. ReportsWritten = ReportsOf(script)[last]
    BY DEF ReportsWritten
  <2> HIDE DEF last
  <2>5. PayloadsOf(SerialScan(1, SubSeq(LineBytes, 1, taken)).frames) = ReportsOf(script)[last]
    BY <2>1, <2>3, FoundInBeginning, SerialAssumption DEF LineBytes
  <2>6. received = SubSeq(LineBytes, 1, taken) /\ delivered = SerialScan(1, received).frames
    BY <1>1 DEF SerialInv, NothingLost, PollsAddUp
  <2> QED
    BY <2>4, <2>5, <2>6
<1> QED
  BY <1>1, SerialInvariance, PTL
-----------------------------------------------------------------------------
(* The sender.  What the receiver of a line found of a command.            *)
Found(line, c) ==
  LET frames == SerialScan(1, line).frames
  IN  \E k \in DOMAIN frames : frames[k].at = c.at /\ frames[k].payload = c.payload

FoundAll(line, cs) ==
  LET mcu == SerialScan(1, line)
  IN  /\ mcu.rest = <<>> /\ Len(mcu.frames) = Len(cs)
      /\ \A i \in 1 .. Len(cs) : mcu.frames[i].at = cs[i].at /\ mcu.frames[i].payload = cs[i].payload

(* A pass over bytes finds frames and keeps bytes.                         *)
LEMMA ScanIsOutcome ==
  ASSUME NEW at \in Nat, NEW d \in Seq(Byte)
  PROVE  SerialScan(at, d).frames \in Seq(SerialFrames) /\ SerialScan(at, d).rest \in Seq(Byte)
<1>1. 1 \in 1 .. Len(d) + 1
  OBVIOUS
<1>2. SerialScanFrom(at, d)[1] \in Outcomes
  BY <1>1, SerialScanType
<1> QED
  BY <1>2 DEF SerialScan, Outcomes

(* It stays found, whatever is sent behind it.                             *)
LEMMA StaysFound ==
  ASSUME NEW line \in Seq(Byte), NEW more \in Seq(Byte), NEW c, Found(line, c)
  PROVE  Found(line \o more, c)
<1> DEFINE first == SerialScan(1, line)
           then  == SerialScan(1 + (Len(line) - Len(first.rest)), first.rest \o more)
           all   == SerialScan(1, line \o more)
           F == first.frames
           T == then.frames
<1>1. F \in Seq(SerialFrames) /\ first.rest \in Seq(Byte) /\ 1 \in Nat
  BY ScanIsOutcome
<1>2. line \o more \in Seq(Byte)
  BY ConcatProperties
<1>3. all.frames \in Seq(SerialFrames)
  BY <1>1, <1>2, ScanIsOutcome
<1>4. all = Joined(first, then)
  BY <1>1, SerialScanOfConcat
<1>5. T \in Seq(SerialFrames)
  <2>1. PICK p \in 1 .. Len(line) + 1 : first.rest = SubSeq(line, p, Len(line))
    <3>1. 1 \in 1 .. Len(line) + 1
      OBVIOUS
    <3>2. \E p \in 1 .. Len(line) + 1 : SerialScanFrom(1, line)[1].rest = SubSeq(line, p, Len(line))
      BY <1>1, <3>1, SerialScanType
    <3> QED
      BY <3>2 DEF SerialScan
  <2>2. Len(first.rest) \in Nat /\ Len(first.rest) <= Len(line) /\ Len(line) \in Nat
    <3>1. p \in Nat \ {0} /\ Len(line) \in 0 .. Len(line) /\ Len(line) \in Nat
      OBVIOUS
    <3>2. Len(SubSeq(line, p, Len(line))) = IF p <= Len(line) THEN Len(line) - p + 1 ELSE 0
      BY <3>1, PartOfBuffer
    <3> HIDE DEF first
    <3> QED
      BY <2>1, <3>1, <3>2
  <2> HIDE DEF first
  <2>3. 1 + (Len(line) - Len(first.rest)) \in Nat
    BY <2>2
  <2>4. first.rest \o more \in Seq(Byte)
    BY <1>1, ConcatProperties
  <2> QED
    BY <2>3, <2>4, ScanIsOutcome
<1> HIDE DEF first, then
<1> HIDE DEF all
<1>6. all.frames = F \o T
  BY <1>4 DEF Joined
<1>7. PICK k \in DOMAIN F : F[k].at = c.at /\ F[k].payload = c.payload
  BY Zenon DEF Found, first
<1> HIDE DEF F, T
<1>8. k \in DOMAIN (F \o T) /\ (F \o T)[k] = F[k]
  <2>1. DOMAIN F = 1 .. Len(F) /\ DOMAIN (F \o T) = 1 .. Len(F \o T)
        /\ Len(F) \in Nat /\ Len(T) \in Nat /\ Len(F \o T) = Len(F) + Len(T)
    BY <1>1, <1>5, ConcatProperties
  <2>2. k \in 1 .. Len(F) + Len(T) /\ k <= Len(F)
    BY <1>7, <2>1
  <2>3. (F \o T)[k] = IF k <= Len(F) THEN F[k] ELSE T[k - Len(F)]
    BY <1>1, <1>5, <2>2, ConcatProperties
  <2> QED
    BY <2>1, <2>2, <2>3
<1>9. \E i \in DOMAIN all.frames : all.frames[i].at = c.at /\ all.frames[i].payload = c.payload
  BY <1>6, <1>7, <1>8, Zenon
<1> QED
  BY <1>9, Zenon DEF Found, all

(* A whole command behind whole commands is found behind them.             *)
LEMMA WholeIsFound ==
  ASSUME NEW line \in Seq(Byte), NEW T, NEW cs \in Seq(T), FoundAll(line, cs),
         NEW payload \in Seq(Byte), Len(payload) < 255
  PROVE  LET c == [at |-> Len(line) + 1, payload |-> payload]
             l == line \o BuildSerialFrame(CMD_ESTOP, payload)
         IN  FoundAll(l, Append(cs, c)) /\ Found(l, c)
<1> DEFINE c == [at |-> Len(line) + 1, payload |-> payload]
           b == BuildSerialFrame(CMD_ESTOP, payload)
           l == line \o b
           first == SerialScan(1, line)
           f == [at |-> Len(line) + 1, cmd |-> CMD_ESTOP, length |-> Len(payload), payload |-> payload]
           F == first.frames
           m == Len(cs)
<1>1. b \in Seq(Byte) /\ CMD_ESTOP \in Byte
  <2>1. CMD_ESTOP \in Byte
    BY DEF CMD_ESTOP, Byte
  <2> QED
    BY <2>1, FrameIsBytes
<1>2. /\ first.rest = <<>> /\ Len(F) = m /\ m \in Nat
      /\ \A i \in 1 .. m : F[i].at = cs[i].at /\ F[i].payload = cs[i].payload
  BY DEF FoundAll
<1>3. F \in Seq(SerialFrames)
  BY ScanIsOutcome
<1>4. SerialScan(1, l) = Joined(first, SerialScan(1 + (Len(line) - Len(first.rest)), first.rest \o b))
  BY <1>1, SerialScanOfConcat
<1>5. 1 + (Len(line) - Len(first.rest)) = Len(line) + 1 /\ Len(line) + 1 \in Nat
  <2>1. Len(first.rest) = 0 /\ Len(line) \in Nat
    BY <1>2
  <2> HIDE DEF first
  <2> QED
    BY <2>1
<1>6. first.rest \o b = b
  BY <1>1, <1>2, ConcatEmptySeq
<1>7. SerialScan(Len(line) + 1, b) = [frames |-> <<f>>, rest |-> <<>>]
  BY <1>1, <1>5, SerialRoundTrip
<1> DEFINE all == SerialScan(1, l)
           then == SerialScan(Len(line) + 1, b)
<1>8. all = Joined(first, then)
  BY <1>4, <1>5, <1>6, Zenon
<1>9. f.at = c.at /\ f.payload = c.payload
  OBVIOUS
<1>10. then.frames = <<f>> /\ then.rest = <<>>
  <2> HIDE DEF f, b
  <2> QED
    BY <1>7
<1> HIDE DEF all, then, first, f, b
<1>11. all.frames = F \o <<f>> /\ all.rest = <<>>
  BY <1>8, <1>10 DEF Joined
<1> HIDE DEF F, c, l, m
<1> DEFINE G == F \o <<f>>
           C == Append(cs, c)
<1>12. /\ Len(G) = m + 1 /\ G[m + 1] = f /\ \A i \in 1 .. m : G[i] = F[i]
       /\ DOMAIN G = 1 .. m + 1
  <2> DEFINE V == SerialFrames \cup {f}
  <2>1. F \in Seq(V) /\ <<f>> \in Seq(V) /\ Len(<<f>>) = 1 /\ <<f>>[1] = f
    <3>1. \A i \in 1 .. Len(F) : F[i] \in SerialFrames
      BY <1>3, ElementOfSeq, Zenon
    <3> HIDE DEF F
    <3> QED
      BY <1>3
  <2> HIDE DEF V
  <2> DEFINE e == <<f>>
  <2> HIDE DEF e
  <2>2. e \in Seq(V) /\ Len(e) = 1 /\ e[1] = f /\ G = F \o e
    BY <2>1 DEF e
  <2> HIDE DEF G
  <2>3. /\ G \in Seq(V) /\ Len(G) = Len(F) + Len(e)
        /\ \A k \in 1 .. Len(F) + Len(e) : G[k] = IF k <= Len(F) THEN F[k] ELSE e[k - Len(F)]
    BY <2>1, <2>2, ConcatProperties
  <2>4. DOMAIN G = 1 .. Len(G)
    BY <2>3
  <2> QED
    BY <1>2, <2>2, <2>3, <2>4
<1>13. /\ Len(C) = m + 1 /\ C[m + 1] = c /\ \A i \in 1 .. m : C[i] = cs[i]
  <2>1. m = Len(cs)
    BY DEF m
  <2>2. cs \in Seq(T \cup {c})
    OBVIOUS
  <2> QED
    BY <2>1, <2>2, AppendProperties
<1> HIDE DEF G, C
<1>14. \A i \in 1 .. m + 1 : G[i].at = C[i].at /\ G[i].payload = C[i].payload
  <2>1. \A i \in 1 .. m + 1 : i \in 1 .. m \/ i = m + 1
    BY <1>2
  <2>2. \A i \in 1 .. m : G[i].at = C[i].at /\ G[i].payload = C[i].payload
    BY <1>2, <1>12, <1>13, Zenon
  <2>3. G[m + 1].at = C[m + 1].at /\ G[m + 1].payload = C[m + 1].payload
    BY <1>9, <1>12, <1>13, Zenon
  <2> QED
    BY <2>1, <2>2, <2>3, Zenon
<1>15. all.frames = G /\ m + 1 \in 1 .. m + 1
  BY <1>2, <1>11 DEF G
<1>16. FoundAll(l, C)
  BY <1>11, <1>12, <1>13, <1>14, <1>15, Zenon DEF FoundAll, all
<1>17. Found(l, c)
  BY <1>9, <1>12, <1>15, Zenon DEF Found, all
<1> QED
  BY <1>16, <1>17 DEF c, l, b, C

(* Where the confirmed commands are on the line: whole, one behind the     *)
(* other.                                                                  *)
FrameOf(c) == BuildSerialFrame(CMD_ESTOP, c.payload)

Placed(line, cs) ==
  \A i \in 1 .. Len(cs) :
    /\ cs[i].at \in Nat /\ cs[i].at >= 1 /\ cs[i].at + Len(FrameOf(cs[i])) - 1 <= Len(line)
    /\ \A k \in 1 .. Len(FrameOf(cs[i])) : line[cs[i].at + k - 1] = FrameOf(cs[i])[k]
    /\ \A j \in i + 1 .. Len(cs) : cs[i].at + Len(FrameOf(cs[i])) <= cs[j].at

(* The bytes that belong to no confirmed command, and what is found in     *)
(* spite of them: every command with no such byte before it.               *)
StraysOf(line, cs) ==
  {p \in 1 .. Len(line) :
     \A i \in 1 .. Len(cs) :
       p \in cs[i].at .. cs[i].at + Len(cs[i].payload) + 4 => ~(Len(cs[i].payload) < 255)}

FoundUnlessStray(line, cs) ==
  \A i \in 1 .. Len(cs) :
    Len(cs[i].payload) < 255 /\ (\A p \in StraysOf(line, cs) : ~(p < cs[i].at))
      => Found(line, cs[i])

Sent(line, cs) ==
  /\ Placed(line, cs)
  /\ FoundUnlessStray(line, cs)
  /\ StraysOf(line, cs) = {} => FoundAll(line, cs)

(* The inductive invariant of the sender.                                  *)
SenderInv == SenderTypeOK /\ Sent(lineOut, confirmed)

(* It holds of an empty line.                                              *)
LEMMA SenderStarts == SerialInit => SenderInv
<1> SUFFICES ASSUME SerialInit PROVE SenderInv
  OBVIOUS
<1>1. lineOut = <<>> /\ confirmed = <<>> /\ sends = 0
  BY DEF SerialInit
<1>2. SenderTypeOK
  BY <1>1, SerialAssumption DEF SenderTypeOK
<1>3. Placed(lineOut, confirmed) /\ FoundUnlessStray(lineOut, confirmed)
  BY <1>1 DEF Placed, FoundUnlessStray
<1>4. FoundAll(lineOut, confirmed)
  <2>1. SerialScan(1, <<>>) = [frames |-> <<>>, rest |-> <<>>]
    BY ScanOfNothing
  <2> DEFINE mcu == SerialScan(1, <<>>)
  <2>2. mcu.frames = <<>> /\ mcu.rest = <<>>
    BY <2>1
  <2> HIDE DEF mcu
  <2>3. Len(mcu.frames) = Len(<<>>) /\ \A i \in 1 .. Len(<<>>) : FALSE
    BY <2>2
  <2> QED
    BY <1>1, <2>2, <2>3 DEF FoundAll, mcu
<1> QED
  BY <1>2, <1>3, <1>4 DEF SenderInv, Sent

(* What a command that is confirmed, or was sent in part, leaves in place. *)
LEMMA PlacedBehind ==
  ASSUME NEW line \in Seq(Byte), NEW more \in Seq(Byte), NEW T, NEW cs \in Seq(T), Placed(line, cs),
         \A i \in 1 .. Len(cs) : Len(FrameOf(cs[i])) \in Nat
  PROVE  Placed(line \o more, cs)
<1> DEFINE l == line \o more
<1>1. /\ Len(line) \in Nat /\ Len(l) \in Nat /\ Len(line) <= Len(l)
      /\ \A k \in 1 .. Len(line) : l[k] = line[k]
  <2>1. /\ Len(l) = Len(line) + Len(more) /\ Len(line) \in Nat /\ Len(more) \in Nat
        /\ \A k \in 1 .. Len(line) + Len(more) : l[k] = IF k <= Len(line) THEN line[k] ELSE more[k - Len(line)]
    BY ConcatProperties
  <2> HIDE DEF l
  <2> QED
    BY <2>1
<1> HIDE DEF l
<1>2. ASSUME NEW i \in 1 .. Len(cs)
      PROVE  /\ cs[i].at \in Nat /\ cs[i].at >= 1 /\ cs[i].at + Len(FrameOf(cs[i])) - 1 <= Len(l)
             /\ \A k \in 1 .. Len(FrameOf(cs[i])) : l[cs[i].at + k - 1] = FrameOf(cs[i])[k]
             /\ \A j \in i + 1 .. Len(cs) : cs[i].at + Len(FrameOf(cs[i])) <= cs[j].at
  <2> DEFINE b == FrameOf(cs[i])
             at == cs[i].at
             size == Len(b)
  <2>1. /\ at \in Nat /\ at >= 1 /\ at + size - 1 <= Len(line) /\ size \in Nat
        /\ \A k \in 1 .. size : line[at + k - 1] = b[k]
        /\ \A j \in i + 1 .. Len(cs) : at + size <= cs[j].at
    BY DEF Placed
  <2> HIDE DEF b, at, size
  <2>2. at + size - 1 <= Len(l) /\ \A k \in 1 .. size : at + k - 1 \in 1 .. Len(line)
    BY <1>1, <2>1
  <2>3. \A k \in 1 .. size : l[at + k - 1] = b[k]
    BY <1>1, <2>1, <2>2
  <2> QED
    BY <2>1, <2>2, <2>3 DEF b, at, size
<1> QED
  BY <1>2 DEF Placed, l

(* A whole command at the end of the line is in place with them.           *)
LEMMA PlacedWhole ==
  ASSUME NEW line \in Seq(Byte), NEW T, NEW cs \in Seq(T), Placed(line, cs),
         \A i \in 1 .. Len(cs) : Len(FrameOf(cs[i])) \in Nat,
         NEW payload, NEW c, c = [at |-> Len(line) + 1, payload |-> payload],
         FrameOf(c) \in Seq(Byte)
  PROVE  Placed(line \o FrameOf(c), Append(cs, c))
<1> DEFINE l == line \o FrameOf(c)
           C == Append(cs, c)
           m == Len(cs)
           b == FrameOf(c)
           size == Len(b)
<1>1. Placed(l, cs)
  BY PlacedBehind
<1>2. /\ Len(line) \in Nat /\ size \in Nat /\ Len(l) = Len(line) + size
      /\ \A k \in 1 .. size : l[Len(line) + k] = b[k]
  <2>1. /\ Len(l) = Len(line) + Len(b) /\ Len(line) \in Nat /\ Len(b) \in Nat
        /\ \A k \in 1 .. Len(b) : l[Len(line) + k] = b[k]
    BY ConcatProperties
  <2> QED
    BY <2>1
<1>3. c.at = Len(line) + 1
  OBVIOUS
<1>4. /\ Len(C) = m + 1 /\ C[m + 1] = c /\ \A i \in 1 .. m : C[i] = cs[i]
      /\ m \in Nat
  <2>1. cs \in Seq(T \cup {c})
    OBVIOUS
  <2> QED
    BY <2>1, AppendProperties
<1> HIDE DEF l, C, b, m, size
<1>5. ASSUME NEW i \in 1 .. m
      PROVE  /\ C[i].at \in Nat /\ C[i].at >= 1 /\ C[i].at + Len(FrameOf(C[i])) - 1 <= Len(l)
             /\ \A k \in 1 .. Len(FrameOf(C[i])) : l[C[i].at + k - 1] = FrameOf(C[i])[k]
             /\ \A j \in i + 1 .. m + 1 : C[i].at + Len(FrameOf(C[i])) <= C[j].at
  <2>1. C[i] = cs[i] /\ i \in 1 .. Len(cs)
    BY <1>4 DEF m
  <2> DEFINE g == FrameOf(cs[i])
             at == cs[i].at
             s == Len(g)
  <2>2. /\ at \in Nat /\ at >= 1 /\ at + s - 1 <= Len(l) /\ s \in Nat
        /\ \A k \in 1 .. s : l[at + k - 1] = g[k]
        /\ \A j \in i + 1 .. m : at + s <= cs[j].at
    BY <1>1, <2>1 DEF Placed, m
  <2>3. at + s - 1 <= Len(line)
    BY <2>1 DEF Placed
  <2> HIDE DEF at, s, g
  <2>4. ASSUME NEW j \in i + 1 .. m + 1 PROVE at + s <= C[j].at
    <3>1. CASE j \in i + 1 .. m
      <4>1. j \in 1 .. m
        BY <1>4, <3>1
      <4> QED
        BY <1>4, <2>2, <3>1, <4>1, Zenon
    <3>2. CASE j \notin i + 1 .. m
      <4>1. j = m + 1
        BY <1>4, <3>2
      <4>2. at + s <= Len(line) + 1
        BY <1>2, <2>2, <2>3
      <4> QED
        BY <1>3, <1>4, <4>1, <4>2, Zenon
    <3> QED
      BY <3>1, <3>2
  <2> QED
    BY <2>1, <2>2, <2>4, Zenon DEF at, s, g
<1>6. /\ C[m + 1].at \in Nat /\ C[m + 1].at >= 1 /\ C[m + 1].at + Len(FrameOf(C[m + 1])) - 1 <= Len(l)
      /\ \A k \in 1 .. Len(FrameOf(C[m + 1])) : l[C[m + 1].at + k - 1] = FrameOf(C[m + 1])[k]
      /\ \A j \in (m + 1) + 1 .. m + 1 : C[m + 1].at + Len(FrameOf(C[m + 1])) <= C[j].at
  <2> DEFINE at == c.at
  <2>1. at = Len(line) + 1
    BY <1>3
  <2> HIDE DEF at
  <2>2. at \in Nat /\ at >= 1 /\ at + size - 1 <= Len(l)
    BY <1>2, <2>1
  <2>3. \A k \in 1 .. size : at + k - 1 = Len(line) + k
    BY <1>2, <2>1
  <2>4. \A k \in 1 .. size : l[at + k - 1] = b[k]
    BY <1>2, <2>3
  <2>5. (m + 1) + 1 .. m + 1 = {}
    BY <1>4
  <2> QED
    BY <1>4, <2>2, <2>4, <2>5, Zenon DEF at, b, size
<1>7. \A i \in 1 .. m + 1 : i \in 1 .. m \/ i = m + 1
  BY <1>4
<1>8. Placed(l, C)
  BY <1>4, <1>5, <1>6, <1>7, Zenon DEF Placed
<1> QED
  BY <1>8 DEF l, C

(* The commands sendCmd() may confirm.                                     *)
Commands == [at : Nat, payload : {p \in Seq(Byte) : Len(p) <= 255}]

(* Such a command is bytes, of the header that LEN makes.                  *)
LEMMA CommandIsBytes ==
  ASSUME NEW c \in Commands
  PROVE  /\ c.at \in Nat /\ c.payload \in Seq(Byte) /\ Len(c.payload) \in Nat
         /\ FrameOf(c) \in Seq(Byte) /\ Len(FrameOf(c)) = Len(c.payload) + 5
         /\ FrameOf(c)[1] = SOF1 /\ FrameOf(c)[2] = SOF2
         /\ FrameOf(c)[3] = (Len(c.payload) + 1) % 256 /\ FrameOf(c)[4] = CMD_ESTOP
<1>1. c.at \in Nat /\ c.payload \in Seq(Byte)
  BY DEF Commands
<1>2. CMD_ESTOP \in Byte
  BY DEF CMD_ESTOP, Byte
<1> DEFINE payload == c.payload
           b == BuildSerialFrame(CMD_ESTOP, payload)
<1>3. payload \in Seq(Byte) /\ Len(payload) \in Nat
  BY <1>1
<1> HIDE DEF payload
<1>4. /\ b \in Seq(Byte) /\ Len(b) = Len(payload) + 5
      /\ b[1] = SOF1 /\ b[2] = SOF2 /\ b[3] = (Len(payload) + 1) % 256 /\ b[4] = CMD_ESTOP
  BY <1>2, <1>3, FrameIsBytes
<1>5. FrameOf(c) = b
  BY DEF FrameOf, payload
<1> HIDE DEF b
<1> QED
  BY <1>1, <1>3, <1>4, <1>5, Zenon DEF payload

(* sendCmd() that finds a port which takes the whole frame ...             *)
LEMMA WholeIsSent ==
  ASSUME NEW line \in Seq(Byte), NEW cs \in Seq(Commands), Sent(line, cs),
         NEW c \in Commands, c = [at |-> Len(line) + 1, payload |-> c.payload]
  PROVE  Sent(line \o FrameOf(c), Append(cs, c))
<1> DEFINE l == line \o FrameOf(c)
           C == Append(cs, c)
           m == Len(cs)
           n == Len(line)
           size == Len(FrameOf(c))
<1>1. /\ FrameOf(c) \in Seq(Byte) /\ size = Len(c.payload) + 5 /\ c.payload \in Seq(Byte)
      /\ Len(c.payload) \in Nat
  BY CommandIsBytes
<1>2. /\ l \in Seq(Byte) /\ Len(l) = n + size /\ n \in Nat /\ size \in Nat /\ size >= 5
  <2> DEFINE w == FrameOf(c)
  <2> HIDE DEF w
  <2>1. l \in Seq(Byte) /\ Len(l) = n + size /\ n \in Nat /\ size \in Nat
    <3>1. w \in Seq(Byte)
      BY <1>1 DEF w
    <3>2. line \o w \in Seq(Byte) /\ Len(line \o w) = Len(line) + Len(w)
          /\ Len(line) \in Nat /\ Len(w) \in Nat
      BY <3>1, ConcatProperties
    <3> QED
      BY <3>2, Zenon DEF w
  <2> HIDE DEF l, n, size
  <2> QED
    BY <1>1, <2>1
<1>3. /\ Len(C) = m + 1 /\ C[m + 1] = c /\ \A i \in 1 .. m : C[i] = cs[i]
      /\ m \in Nat /\ C \in Seq(Commands)
  BY AppendProperties
<1>4. \A i \in 1 .. m : cs[i] \in Commands
  BY ElementOfSeq
<1>5. \A i \in 1 .. m : Len(FrameOf(cs[i])) \in Nat /\ Len(FrameOf(cs[i])) = Len(cs[i].payload) + 5
                        /\ cs[i].at \in Nat /\ Len(cs[i].payload) \in Nat
  <2> TAKE i \in 1 .. m
  <2> DEFINE d == cs[i]
  <2>1. d \in Commands
    BY <1>4
  <2> HIDE DEF d
  <2>2. /\ Len(FrameOf(d)) \in Nat /\ Len(FrameOf(d)) = Len(d.payload) + 5
        /\ d.at \in Nat /\ Len(d.payload) \in Nat
    <3>1. /\ d.at \in Nat /\ Len(d.payload) \in Nat /\ FrameOf(d) \in Seq(Byte)
          /\ Len(FrameOf(d)) = Len(d.payload) + 5
      BY <2>1, CommandIsBytes
    <3> QED
      BY <3>1
  <2> QED
    BY <2>2 DEF d
<1>6. Placed(line, cs) /\ FoundUnlessStray(line, cs) /\ (StraysOf(line, cs) = {} => FoundAll(line, cs))
  BY DEF Sent
<1>7. Placed(l, C)
  <2>1. \A i \in 1 .. Len(cs) : Len(FrameOf(cs[i])) \in Nat
    BY <1>5
  <2> QED
    BY <1>1, <1>6, <2>1, PlacedWhole
<1>8. c.at = n + 1
  OBVIOUS
<1>9. \A i \in 1 .. m : cs[i].at + Len(cs[i].payload) + 4 <= n
  <2> TAKE i \in 1 .. m
  <2> DEFINE at == cs[i].at
             k == Len(cs[i].payload)
             s == Len(FrameOf(cs[i]))
  <2>1. at + s - 1 <= n
    BY <1>6 DEF Placed
  <2>2. s = k + 5 /\ at \in Nat /\ k \in Nat
    BY <1>5
  <2> HIDE DEF at, k, s, n
  <2> QED
    BY <1>2, <2>1, <2>2 DEF at, k
<1> HIDE DEF l, C, m, n, size
<1>10. StraysOf(line, cs) \subseteq StraysOf(l, C)
  <2> SUFFICES ASSUME NEW p \in StraysOf(line, cs) PROVE p \in StraysOf(l, C)
    OBVIOUS
  <2>1. /\ p \in 1 .. n
        /\ \A i \in 1 .. m : p \in cs[i].at .. cs[i].at + Len(cs[i].payload) + 4
                               => ~(Len(cs[i].payload) < 255)
    BY DEF StraysOf, n, m
  <2>2. p \in 1 .. Len(l)
    BY <1>2, <2>1
  <2>3. ASSUME NEW i \in 1 .. m + 1, p \in C[i].at .. C[i].at + Len(C[i].payload) + 4
        PROVE  ~(Len(C[i].payload) < 255)
    <3>1. CASE i \in 1 .. m
      BY <1>3, <2>1, <2>3, <3>1, Zenon
    <3>2. CASE i \notin 1 .. m
      <4>1. i = m + 1
        BY <1>3, <3>2
      <4>2. p \in n + 1 .. n + 1 + Len(c.payload) + 4
        BY <1>3, <1>8, <2>3, <4>1, Zenon
      <4> QED
        BY <1>1, <1>2, <2>1, <4>2
    <3> QED
      BY <3>1, <3>2
  <2> QED
    BY <1>3, <2>2, <2>3, Zenon DEF StraysOf
<1>11. ~(Len(c.payload) < 255) => n + 1 \in StraysOf(l, C)
  <2> SUFFICES ASSUME ~(Len(c.payload) < 255) PROVE n + 1 \in StraysOf(l, C)
    OBVIOUS
  <2>1. n + 1 \in 1 .. Len(l)
    BY <1>2
  <2>2. ASSUME NEW i \in 1 .. m + 1, n + 1 \in C[i].at .. C[i].at + Len(C[i].payload) + 4
        PROVE  ~(Len(C[i].payload) < 255)
    <3>1. CASE i \in 1 .. m
      <4> DEFINE e == cs[i].at + Len(cs[i].payload) + 4
      <4>1. n + 1 \in cs[i].at .. e
        BY <1>3, <2>2, <3>1, Zenon
      <4>2. e <= n /\ e \in Int
        BY <1>5, <1>9, <3>1
      <4> HIDE DEF e
      <4> QED
        BY <1>2, <4>1, <4>2
    <3>2. CASE i \notin 1 .. m
      <4>1. i = m + 1
        BY <1>3, <3>2
      <4> QED
        BY <1>3, <4>1, Zenon
    <3> QED
      BY <3>1, <3>2
  <2> QED
    BY <1>3, <2>1, <2>2, Zenon DEF StraysOf
<1>12. ASSUME StraysOf(line, cs) = {}, Len(c.payload) < 255
       PROVE  FoundAll(l, C) /\ Found(l, c)
  <2>1. FoundAll(line, cs)
    BY <1>6, <1>12
  <2> DEFINE d == [at |-> Len(line) + 1, payload |-> c.payload]
  <2>2. d = c
    OBVIOUS
  <2>3. FrameOf(c) = BuildSerialFrame(CMD_ESTOP, c.payload)
    BY DEF FrameOf
  <2>4. FoundAll(line \o BuildSerialFrame(CMD_ESTOP, c.payload), Append(cs, d))
        /\ Found(line \o BuildSerialFrame(CMD_ESTOP, c.payload), d)
    BY <1>1, <1>12, <2>1, WholeIsFound
  <2> HIDE DEF d
  <2> QED
    BY <2>2, <2>3, <2>4, Zenon DEF l, C
<1>13. StraysOf(l, C) = {} => FoundAll(l, C)
  <2> SUFFICES ASSUME StraysOf(l, C) = {} PROVE FoundAll(l, C)
    OBVIOUS
  <2>1. StraysOf(line, cs) = {} /\ Len(c.payload) < 255
    BY <1>10, <1>11
  <2> QED
    BY <1>12, <2>1
<1>14. FoundUnlessStray(l, C)
  <2> SUFFICES ASSUME NEW i \in 1 .. m + 1, Len(C[i].payload) < 255,
                      \A p \in StraysOf(l, C) : ~(p < C[i].at)
               PROVE  Found(l, C[i])
    BY <1>3, Zenon DEF FoundUnlessStray
  <2>1. CASE i \in 1 .. m
    <3>1. C[i] = cs[i] /\ i \in 1 .. Len(cs)
      BY <1>3, <2>1 DEF m
    <3>2. \A p \in StraysOf(line, cs) : ~(p < cs[i].at)
      BY <1>10, <3>1
    <3>3. Found(line, cs[i])
      BY <1>6, <3>1, <3>2, Zenon DEF FoundUnlessStray
    <3>4. Found(l, cs[i])
      BY <1>1, <3>3, StaysFound DEF l
    <3> QED
      BY <3>1, <3>4, Zenon
  <2>2. CASE i \notin 1 .. m
    <3>1. i = m + 1 /\ C[i] = c
      BY <1>3, <2>2
    <3>2. \A p \in StraysOf(line, cs) : p \in StraysOf(l, C) /\ p \in 1 .. n
      BY <1>10 DEF StraysOf, n
    <3>3. StraysOf(line, cs) = {}
      <4>1. \A p \in StraysOf(line, cs) : ~(p < n + 1) /\ p \in 1 .. n
        BY <1>8, <3>1, <3>2, Zenon
      <4> QED
        BY <1>2, <4>1
    <3> QED
      BY <1>12, <3>1, <3>3
  <2> QED
    BY <2>1, <2>2
<1> QED
  BY <1>7, <1>13, <1>14 DEF Sent, l, C

(* ... and one that finds a port which takes less.                         *)
LEMMA PartIsSent ==
  ASSUME NEW line \in Seq(Byte), NEW cs \in Seq(Commands), Sent(line, cs), NEW part \in Seq(Byte)
  PROVE  Sent(line \o part, cs)
<1> DEFINE l == line \o part
           m == Len(cs)
           n == Len(line)
<1>1. l \in Seq(Byte) /\ Len(l) = n + Len(part) /\ n \in Nat /\ Len(part) \in Nat
  BY ConcatProperties
<1>2. \A i \in 1 .. m : cs[i] \in Commands
  BY ElementOfSeq
<1>3. \A i \in 1 .. m : Len(FrameOf(cs[i])) \in Nat /\ Len(FrameOf(cs[i])) = Len(cs[i].payload) + 5
                        /\ cs[i].at \in Nat /\ Len(cs[i].payload) \in Nat
  <2> TAKE i \in 1 .. m
  <2> DEFINE d == cs[i]
  <2>1. d \in Commands
    BY <1>2
  <2> HIDE DEF d
  <2>2. /\ Len(FrameOf(d)) \in Nat /\ Len(FrameOf(d)) = Len(d.payload) + 5
        /\ d.at \in Nat /\ Len(d.payload) \in Nat
    <3>1. /\ d.at \in Nat /\ Len(d.payload) \in Nat /\ FrameOf(d) \in Seq(Byte)
          /\ Len(FrameOf(d)) = Len(d.payload) + 5
      BY <2>1, CommandIsBytes
    <3> QED
      BY <3>1
  <2> QED
    BY <2>2 DEF d
<1>4. Placed(line, cs) /\ FoundUnlessStray(line, cs) /\ (StraysOf(line, cs) = {} => FoundAll(line, cs))
  BY DEF Sent
<1>5. Placed(l, cs)
  BY <1>3, <1>4, PlacedBehind
<1>6. \A i \in 1 .. m : cs[i].at + Len(cs[i].payload) + 4 <= n
  <2> TAKE i \in 1 .. m
  <2> DEFINE at == cs[i].at
             k == Len(cs[i].payload)
             s == Len(FrameOf(cs[i]))
  <2>1. at + s - 1 <= n
    BY <1>4 DEF Placed
  <2>2. s = k + 5 /\ at \in Nat /\ k \in Nat
    BY <1>3
  <2> HIDE DEF at, k, s, n
  <2> QED
    BY <1>1, <2>1, <2>2 DEF at, k
<1> HIDE DEF l, m, n
<1>7. StraysOf(line, cs) \subseteq StraysOf(l, cs)
  BY <1>1 DEF StraysOf, n
<1>8. FoundUnlessStray(l, cs)
  <2> SUFFICES ASSUME NEW i \in 1 .. Len(cs), Len(cs[i].payload) < 255,
                      \A p \in StraysOf(l, cs) : ~(p < cs[i].at)
               PROVE  Found(l, cs[i])
    BY Zenon DEF FoundUnlessStray
  <2>1. \A p \in StraysOf(line, cs) : ~(p < cs[i].at)
    BY <1>7
  <2>2. Found(line, cs[i])
    BY <1>4, <2>1, Zenon DEF FoundUnlessStray
  <2> QED
    BY <2>2, StaysFound DEF l
<1>9. StraysOf(l, cs) = {} => FoundAll(l, cs)
  <2> SUFFICES ASSUME StraysOf(l, cs) = {} PROVE FoundAll(l, cs)
    OBVIOUS
  <2>1. CASE Len(part) = 0
    <3>1. part = <<>>
      BY <2>1
    <3>2. l = line
      BY <3>1, ConcatEmptySeq DEF l
    <3> QED
      BY <1>4, <3>2, Zenon
  <2>2. CASE Len(part) # 0
    <3>1. n + 1 \in 1 .. Len(l)
      BY <1>1, <2>2
    <3>2. ASSUME NEW i \in 1 .. m PROVE n + 1 \notin cs[i].at .. cs[i].at + Len(cs[i].payload) + 4
      <4> DEFINE e == cs[i].at + Len(cs[i].payload) + 4
      <4>1. e <= n /\ e \in Int
        <5>1. cs[i].at \in Nat /\ Len(cs[i].payload) \in Nat
          BY <1>3
        <5> QED
          BY <1>6, <5>1
      <4> HIDE DEF e
      <4> QED
        BY <1>1, <4>1 DEF e
    <3>3. n + 1 \in StraysOf(l, cs)
      BY <3>1, <3>2, Zenon DEF StraysOf, m
    <3> QED
      BY <3>3
  <2> QED
    BY <2>1, <2>2
<1> QED
  BY <1>5, <1>8, <1>9 DEF Sent, l

(* Every step keeps it.                                                    *)
LEMMA SendKeeps == ASSUME SenderInv, SendCmd PROVE SenderInv'
<1>0. PICK payload \in Payloads :
        LET frame == BuildSerialFrame(CMD_ESTOP, payload)
        IN  \E n \in 0 .. Len(frame) :
              /\ lineOut' = lineOut \o SubSeq(frame, 1, n)
              /\ confirmed' = IF SentWhole(n, Len(frame))
                              THEN Append(confirmed, [at |-> Len(lineOut) + 1,
                                                      payload |-> payload])
                              ELSE confirmed
  BY Zenon DEF SendCmd
<1>1. PICK n \in 0 .. Len(BuildSerialFrame(CMD_ESTOP, payload)) :
        /\ lineOut' = lineOut \o SubSeq(BuildSerialFrame(CMD_ESTOP, payload), 1, n)
        /\ confirmed' = IF SentWhole(n, Len(BuildSerialFrame(CMD_ESTOP, payload)))
                        THEN Append(confirmed, [at |-> Len(lineOut) + 1, payload |-> payload])
                        ELSE confirmed
  BY <1>0, Zenon
<1> DEFINE c == [at |-> Len(lineOut) + 1, payload |-> payload]
           b == FrameOf(c)
           part == SubSeq(b, 1, n)
<1>2. c.payload = payload /\ c.at = Len(lineOut) + 1
  OBVIOUS
<1>3. b = BuildSerialFrame(CMD_ESTOP, payload)
  BY <1>2 DEF FrameOf
<1>4. /\ lineOut \in Seq(Byte) /\ confirmed \in Seq([at : Nat, payload : Payloads])
      /\ Len(confirmed) <= sends /\ sends \in 0 .. MaxSends /\ Sent(lineOut, confirmed)
  BY DEF SenderInv, SenderTypeOK
<1>5. sends < MaxSends /\ sends' = sends + 1
  BY DEF SendCmd
<1>6. payload \in Seq(Byte) /\ Len(payload) <= 255
  BY SerialAssumption
<1>7. c \in Commands /\ c \in [at : Nat, payload : Payloads]
  <2>1. Len(lineOut) + 1 \in Nat
    BY <1>4
  <2> QED
    BY <1>6, <2>1 DEF Commands
<1>8. b \in Seq(Byte) /\ Len(b) \in Nat
  <2> HIDE DEF c
  <2>1. FrameOf(c) \in Seq(Byte)
    BY <1>7, CommandIsBytes
  <2> HIDE DEF b
  <2>2. b \in Seq(Byte)
    BY <2>1 DEF b
  <2> QED
    BY <2>2
<1>9. confirmed \in Seq(Commands)
  <2>1. [at : Nat, payload : Payloads] \subseteq Commands
    BY SerialAssumption DEF Commands
  <2> DEFINE R == [at : Nat, payload : Payloads]
  <2> HIDE DEF R
  <2>2. confirmed \in Seq(R) /\ R \subseteq Commands
    BY <1>4, <2>1 DEF R
  <2> QED
    BY <2>2
<1>10. n \in 0 .. Len(b) /\ lineOut' = lineOut \o part
  BY <1>1, <1>3, Zenon
<1> HIDE DEF c, b
<1>11. part \in Seq(Byte) /\ (n = Len(b) => part = b)
  <2>1. 1 \in Nat \ {0} /\ n \in 0 .. Len(b)
    BY <1>10
  <2>2. part \in Seq(Byte)
    BY <1>8, <2>1, PartOfBuffer
  <2>3. SubSeq(b, 1, Len(b)) = b
    BY <1>8, SubSeqFull
  <2> QED
    BY <2>2, <2>3, Zenon
<1>12. Len(confirmed) \in Nat /\ MaxSends \in Nat
  BY <1>4, SerialAssumption
<1>13. lineOut' \in Seq(Byte)
  BY <1>4, <1>10, <1>11, ConcatProperties
<1>14. CASE n = Len(b)
  <2>1. confirmed' = Append(confirmed, c) /\ lineOut' = lineOut \o b
    BY <1>1, <1>3, <1>10, <1>11, <1>14, Zenon DEF SentWhole, c
  <2>2. c = [at |-> Len(lineOut) + 1, payload |-> c.payload]
    BY <1>2 DEF c
  <2>3. Sent(lineOut \o FrameOf(c), Append(confirmed, c))
    BY <1>4, <1>7, <1>9, <2>2, WholeIsSent
  <2>4. Sent(lineOut', confirmed')
    BY <2>1, <2>3, Zenon DEF b
  <2>5. confirmed' \in Seq([at : Nat, payload : Payloads]) /\ Len(confirmed') = Len(confirmed) + 1
    BY <1>4, <1>7, <2>1, AppendProperties
  <2>6. SenderTypeOK'
    <3>1. Len(confirmed') <= sends' /\ sends' \in 0 .. MaxSends
      BY <1>4, <1>5, <1>12, <2>5
    <3> QED
      BY <1>13, <2>5, <3>1 DEF SenderTypeOK
  <2> QED
    BY <2>4, <2>6 DEF SenderInv
<1>15. CASE n # Len(b)
  <2>1. confirmed' = confirmed
    BY <1>1, <1>3, <1>15 DEF SentWhole
  <2>2. Sent(lineOut \o part, confirmed)
    BY <1>4, <1>9, <1>11, PartIsSent
  <2>3. Sent(lineOut', confirmed')
    BY <1>10, <2>1, <2>2, Zenon
  <2>4. SenderTypeOK'
    <3>1. Len(confirmed') <= sends' /\ sends' \in 0 .. MaxSends
      BY <1>4, <1>5, <1>12, <2>1
    <3> QED
      BY <1>4, <1>13, <2>1, <3>1 DEF SenderTypeOK
  <2> QED
    BY <2>3, <2>4 DEF SenderInv
<1> QED
  BY <1>14, <1>15

(* Whatever was sent, whole or in part, and however the port answered.     *)
THEOREM SenderInvariance == SerialSpec => []SenderInv
<1>1. ASSUME SenderInv, [SerialNext]_serialVars PROVE SenderInv'
  <2>1. CASE SendCmd
    BY <1>1, <2>1, SendKeeps
  <2>2. CASE UNCHANGED txVars
    BY <1>1, <2>2 DEF txVars, SenderInv, SenderTypeOK
  <2> QED
    BY <1>1, <2>1, <2>2 DEF SerialNext, OpenPort, ClosePort, LoseInput, PollPort, serialVars
<1> QED
  BY <1>1, SenderStarts, PTL DEF SerialSpec

(* The types of everything on both sides of the line.                      *)
THEOREM SerialTypes == SerialSpec => []SerialTypeOK
<1> DEFINE PortTypeOK == isOpen \in BOOLEAN /\ opens \in 0 .. MaxOpens
<1>1. SerialInit => PortTypeOK
  <2>1. 0 \in 0 .. MaxOpens
    BY SerialAssumption
  <2> QED
    BY <2>1 DEF SerialInit
<1>2. ASSUME PortTypeOK, [SerialNext]_serialVars PROVE PortTypeOK'
  <2>1. CASE OpenPort
    BY <1>2, <2>1, SerialAssumption DEF OpenPort
  <2>2. CASE ClosePort
    BY <1>2, <2>2 DEF ClosePort
  <2>3. CASE UNCHANGED <<isOpen, opens>>
    BY <1>2, <2>3
  <2> QED
    BY <1>2, <2>1, <2>2, <2>3 DEF SerialNext, LoseInput, PollPort, SendCmd, serialVars
<1>3. SerialSpec => []PortTypeOK
  BY <1>1, <1>2, PTL DEF SerialSpec
<1>4. SerialInv /\ SenderInv /\ PortTypeOK => SerialTypeOK
  BY DEF SerialInv, SenderInv, SerialTypeOK
<1> QED
  BY <1>3, <1>4, SerialInvariance, SenderInvariance, PTL
-----------------------------------------------------------------------------
(* What the loop finds is there: a good frame, at the place it says.       *)
IsThere(d, f) ==
  /\ f.at \in 1 .. Len(d) + 1 /\ Left(d, f.at) >= 5
  /\ Complete(d, f.at) /\ f = SerialFrameAt(1, d, f.at)

(* Every frame that is found, wherever the loop starts, is there.          *)
LEMMA WhatIsFound ==
  ASSUME NEW d \in Seq(Byte)
  PROVE  \A p \in 1 .. Len(d) + 1 :
           \A k \in DOMAIN SerialScanFrom(1, d)[p].frames : IsThere(d, SerialScanFrom(1, d)[p].frames[k])
<1> DEFINE n == Len(d)
           S == SerialScanFrom(1, d)
           Good(p) == \A k \in DOMAIN S[p].frames : IsThere(d, S[p].frames[k])
           D == {p \in 1 .. n + 1 : ~Good(p)}
<1> SUFFICES ASSUME D # {} PROVE FALSE
  OBVIOUS
<1>1. n \in Nat /\ D \subseteq 1 .. n + 1
  OBVIOUS
<1>2. PICK p \in D : \A q \in p + 1 .. n + 1 : q \notin D
  <2> HIDE DEF D, n
  <2> QED BY <1>1, LastPosition
<1>3. p \in 1 .. n + 1 /\ ~Good(p)
  OBVIOUS
<1> DEFINE t == SerialTurn(1, d, p)
<1>4. t.bytes \in 0 .. n - p + 1 /\ t.frames \in Seq(SerialFrames)
  BY <1>3, SerialTurnBounds, SerialTurnFinds
<1>5. CASE t.bytes = 0
  <2>1. S[p] = [frames |-> <<>>, rest |-> SubSeq(d, p, n)]
    BY <1>3, <1>5, SerialScanUnfolds
  <2> HIDE DEF S, n
  <2>2. S[p].frames = <<>>
    BY <2>1
  <2> QED
    BY <1>3, <2>2
<1>6. CASE t.bytes # 0
  <2> DEFINE q == p + t.bytes
  <2>1. q \in p + 1 .. n + 1 /\ q \in 1 .. n + 1
    <3> DEFINE k == t.bytes
    <3>1. k \in 0 .. n - p + 1 /\ k # 0
      BY <1>4, <1>6
    <3> HIDE DEF k, n, D
    <3>2. p + k \in p + 1 .. n + 1 /\ p + k \in 1 .. n + 1
      BY <1>1, <1>3, <3>1
    <3> QED
      BY <3>2 DEF k
  <2>2. S[p] = Joined(t, S[q])
    BY <1>3, <1>6, SerialScanUnfolds
  <2>3. Good(q)
    BY <1>2, <2>1
  <2>4. S[q].frames \in Seq(SerialFrames)
    BY <2>1, SerialScanType DEF Outcomes
  <2>5. \A f \in SerialFrames : t.frames = <<f>> => IsThere(d, f)
    <3>1. CASE t = Moves(0) \/ t = Moves(1)
      <4>1. t.frames = <<>>
        BY <3>1 DEF Moves
      <4>2. \A f \in SerialFrames : <<f>> # <<>>
        OBVIOUS
      <4> HIDE DEF t
      <4> QED
        BY <4>1, <4>2, Zenon
    <3>2. CASE /\ t = [bytes |-> FrameSize(d, p), frames |-> <<SerialFrameAt(1, d, p)>>]
               /\ Left(d, p) >= 5 /\ Complete(d, p)
      <4> DEFINE g == SerialFrameAt(1, d, p)
      <4>1. t.frames = <<g>>
        BY <3>2
      <4>2. g.at = p
        BY <1>3 DEF SerialFrameAt
      <4>3. IsThere(d, g)
        <5>1. g = SerialFrameAt(1, d, g.at)
          BY <4>2
        <5> HIDE DEF g
        <5> QED
          BY <1>3, <3>2, <4>2, <5>1 DEF IsThere
      <4> HIDE DEF t, g
      <4> QED
        BY <4>1, <4>3
    <3> QED
      BY <1>3, <3>1, <3>2, SerialTurnCases
  <2> HIDE DEF S
  <2> DEFINE T == t.frames
             F == S[q].frames
             A == T \o F
  <2>6. S[p].frames = A
    <3> HIDE DEF t, q, D
    <3> DEFINE a == S[p]
               b == S[q]
    <3>1. a = Joined(t, b)
      BY <2>2
    <3> HIDE DEF a, b
    <3>2. a.frames = t.frames \o b.frames
      BY <3>1 DEF Joined
    <3> QED BY <3>2 DEF a, b
  <2>7. T = <<>> \/ \E f \in SerialFrames : T = <<f>>
    <3>1. CASE t = Moves(0) \/ t = Moves(1)
      BY <3>1 DEF Moves
    <3>2. CASE t = [bytes |-> FrameSize(d, p), frames |-> <<SerialFrameAt(1, d, p)>>]
      <4> DEFINE g == SerialFrameAt(1, d, p)
      <4>1. T = <<g>>
        BY <3>2
      <4> HIDE DEF g, t
      <4>2. Len(T) = 1 /\ T[1] = g
        BY <4>1
      <4>3. g \in SerialFrames
        BY <1>4, <4>2, ElementOfSeq
      <4> QED
        BY <4>1, <4>3
    <3> QED
      BY <1>3, <3>1, <3>2, SerialTurnCases
  <2>8. T \in Seq(SerialFrames) /\ F \in Seq(SerialFrames) /\ \A k \in DOMAIN F : IsThere(d, F[k])
    BY <1>4, <2>3, <2>4
  <2>9. \A f \in SerialFrames : T = <<f>> => IsThere(d, f)
    BY <2>5
  <2> HIDE DEF T, F, q, t
  <2>10. \A k \in DOMAIN A : IsThere(d, A[k])
    <3> TAKE k \in DOMAIN A
    <3>1. /\ Len(T) \in Nat /\ Len(F) \in Nat /\ DOMAIN A = 1 .. Len(T) + Len(F)
          /\ DOMAIN F = 1 .. Len(F)
          /\ A[k] = IF k <= Len(T) THEN T[k] ELSE F[k - Len(T)]
      <4>1. A \in Seq(SerialFrames) /\ Len(A) = Len(T) + Len(F)
            /\ \A i \in 1 .. Len(T) + Len(F) : A[i] = IF i <= Len(T) THEN T[i] ELSE F[i - Len(T)]
        BY <2>8, ConcatProperties
      <4> HIDE DEF A
      <4>2. DOMAIN A = 1 .. Len(A) /\ DOMAIN F = 1 .. Len(F) /\ Len(T) \in Nat /\ Len(F) \in Nat
        BY <2>8, <4>1
      <4> QED
        BY <4>1, <4>2
    <3> HIDE DEF A
    <3>2. CASE k <= Len(T)
      <4>1. T # <<>>
        <5>1. k \in Nat /\ k >= 1
          BY <3>1
        <5>2. Len(T) # 0
          BY <3>1, <3>2, <5>1
        <5> QED
          BY <5>2
      <4>2. PICK f \in SerialFrames : T = <<f>>
        BY <2>7, <4>1
      <4>3. Len(T) = 1 /\ T[1] = f
        BY <4>2
      <4>4. k = 1
        BY <3>1, <3>2, <4>3
      <4>5. A[k] = f
        BY <3>1, <3>2, <4>3, <4>4, Zenon
      <4> QED
        BY <2>9, <4>2, <4>5, Zenon
    <3>3. CASE ~(k <= Len(T))
      <4>1. k - Len(T) \in 1 .. Len(F)
        BY <3>1, <3>3
      <4>2. A[k] = F[k - Len(T)]
        BY <3>1, <3>3
      <4> QED
        BY <2>8, <3>1, <4>1, <4>2, Zenon
    <3> QED
      BY <3>2, <3>3
  <2>11. Good(p)
    BY <2>6, <2>10, Zenon
  <2> QED
    BY <1>3, <2>11, Zenon
<1> QED
  BY <1>5, <1>6

(* A part of a frame is the same part of the line it is on.                *)
LEMMA PartOfLine ==
  ASSUME NEW line \in Seq(Byte), NEW b \in Seq(Byte), NEW at \in Nat, at >= 1,
         at + Len(b) - 1 <= Len(line),
         \A k \in 1 .. Len(b) : line[at + k - 1] = b[k],
         NEW i \in Nat \ {0}, NEW j \in 0 .. Len(b)
  PROVE  SubSeq(line, at + i - 1, at + j - 1) = SubSeq(b, i, j)
<1> DEFINE x == SubSeq(line, at + i - 1, at + j - 1)
           y == SubSeq(b, i, j)
<1>1. Len(line) \in Nat /\ Len(b) \in Nat /\ j \in Nat /\ j <= Len(b) /\ i \in Nat /\ i >= 1
  OBVIOUS
<1>2. /\ x \in Seq(Byte)
      /\ Len(x) = IF at + i - 1 <= at + j - 1 THEN at + j - 1 - (at + i - 1) + 1 ELSE 0
      /\ \A m \in 1 .. at + j - 1 - (at + i - 1) + 1 : x[m] = line[at + i - 1 + m - 1]
  <2>1. at + i - 1 \in Nat \ {0} /\ at + j - 1 \in 0 .. Len(line)
    BY <1>1
  <2> QED
    BY <2>1, PartOfBuffer
<1>3. /\ y \in Seq(Byte) /\ Len(y) = IF i <= j THEN j - i + 1 ELSE 0
      /\ \A m \in 1 .. j - i + 1 : y[m] = b[i + m - 1]
  BY PartOfBuffer
<1> HIDE DEF x, y
<1>4. Len(x) = Len(y)
  <2>1. /\ at + i - 1 <= at + j - 1 <=> i <= j
        /\ at + j - 1 - (at + i - 1) + 1 = j - i + 1
    BY <1>1
  <2> QED
    BY <1>2, <1>3, <2>1
<1>5. ASSUME NEW m \in 1 .. Len(x) PROVE x[m] = y[m]
  <2>1. /\ m \in 1 .. j - i + 1 /\ i + m - 1 \in 1 .. Len(b)
        /\ m \in 1 .. at + j - 1 - (at + i - 1) + 1
        /\ at + i - 1 + m - 1 = at + (i + m - 1) - 1
    BY <1>1, <1>3, <1>4
  <2>2. x[m] = line[at + (i + m - 1) - 1] /\ y[m] = b[i + m - 1]
    BY <1>2, <1>3, <2>1
  <2>3. line[at + (i + m - 1) - 1] = b[i + m - 1]
    BY <2>1
  <2> QED
    BY <2>2, <2>3
<1>6. x = y
  BY <1>2, <1>3, <1>4, <1>5, SeqEqual
<1> QED
  BY <1>6 DEF x, y
-----------------------------------------------------------------------------
(* A confirmed command is a good frame at its place.                       *)
LEMMA PlacedFrame ==
  ASSUME NEW line \in Seq(Byte), NEW c \in Commands, Len(c.payload) < 255, c.at >= 1,
         c.at + Len(FrameOf(c)) - 1 <= Len(line),
         \A k \in 1 .. Len(FrameOf(c)) : line[c.at + k - 1] = FrameOf(c)[k]
  PROVE  /\ InSync(line, c.at) /\ FrameSize(line, c.at) = Len(c.payload) + 5
         /\ CrcAgrees(line, c.at)
         /\ SubSeq(line, c.at + 4, c.at + 2 + line[c.at + 2]) = c.payload
<1> DEFINE b    == FrameOf(c)
           at   == c.at
           size == Len(b)
           n    == Len(c.payload)
<1>1. at \in Nat /\ at >= 1 /\ b \in Seq(Byte) /\ n \in Nat /\ size = n + 5 /\ size \in Nat
  <2>1. at \in Nat /\ b \in Seq(Byte) /\ n \in Nat /\ size = n + 5
    BY CommandIsBytes
  <2> HIDE DEF b, n, at
  <2> QED
    BY <2>1 DEF at
<1>2. /\ b[3] = n + 1 /\ InSync(b, 1) /\ FrameSize(b, 1) = size /\ CrcAgrees(b, 1)
      /\ SubSeq(b, 5, size - 1) = c.payload
  <2> DEFINE payload == c.payload
             built   == BuildSerialFrame(CMD_ESTOP, payload)
  <2>1. payload \in Seq(Byte) /\ Len(payload) < 255 /\ built \in Seq(Byte)
    BY CommandIsBytes DEF FrameOf
  <2> HIDE DEF payload
  <2>2. /\ built[3] = Len(payload) + 1 /\ InSync(built, 1) /\ FrameSize(built, 1) = Len(built)
        /\ CrcAgrees(built, 1) /\ SubSeq(built, 5, Len(built) - 1) = payload
    BY <2>1, BuiltSerialFrame
  <2>3. b = built
    BY DEF FrameOf, payload
  <2> HIDE DEF built, b
  <2> QED
    BY <2>2, <2>3 DEF payload
<1>3. at + size - 1 <= Len(line) /\ \A k \in 1 .. size : line[at + k - 1] = b[k]
  OBVIOUS
<1>4. \A i \in Nat \ {0}, j \in 0 .. size : SubSeq(line, at + i - 1, at + j - 1) = SubSeq(b, i, j)
  <2> HIDE DEF b, at
  <2> QED
    BY <1>1, <1>3, PartOfLine
<1> HIDE DEF b, at, size, n
<1>5. /\ 1 \in 1 .. size /\ 2 \in 1 .. size /\ 3 \in 1 .. size /\ size \in 1 .. size
      /\ at + 1 - 1 = at /\ at + 2 - 1 = at + 1 /\ at + 3 - 1 = at + 2
  BY <1>1
<1>6. line[at] = b[1] /\ line[at + 1] = b[2] /\ line[at + 2] = b[3] /\ line[at + size - 1] = b[size]
  BY <1>3, <1>5
<1>7. InSync(line, at)
  BY <1>2, <1>6 DEF InSync
<1>8. FrameSize(line, at) = size
  BY <1>1, <1>2, <1>6 DEF FrameSize
<1>9. CrcAgrees(line, at)
  <2>1. Crc8(SubSeq(b, 3, size - 1)) = b[size]
    <3>1. 1 + 2 = 3 /\ 1 + size - 1 = size
      BY <1>1
    <3> QED
      BY <1>2, <3>1 DEF CrcAgrees
  <2>2. SubSeq(line, at + 2, at + size - 1 - 1) = SubSeq(b, 3, size - 1)
    <3>1. 3 \in Nat \ {0} /\ size - 1 \in 0 .. size /\ at + (size - 1) - 1 = at + size - 1 - 1
      BY <1>1
    <3>2. SubSeq(line, at + 3 - 1, at + (size - 1) - 1) = SubSeq(b, 3, size - 1)
      BY <1>4, <3>1
    <3> QED
      BY <1>5, <3>1, <3>2
  <2>3. Crc8(SubSeq(line, at + 2, at + size - 1 - 1)) = line[at + size - 1]
    BY <1>6, <2>1, <2>2, Zenon
  <2> DEFINE last == at + FrameSize(line, at) - 1
  <2>4. last = at + size - 1
    BY <1>8
  <2> HIDE DEF last
  <2>5. Crc8(SubSeq(line, at + 2, last - 1)) = line[last]
    <3>1. last - 1 = at + size - 1 - 1
      BY <1>1, <2>4
    <3> QED
      BY <2>3, <2>4, <3>1, Zenon
  <2> QED
    BY <2>5, Zenon DEF CrcAgrees, last
<1>10. SubSeq(line, at + 4, at + 2 + line[at + 2]) = c.payload
  <2>1. /\ 5 \in Nat \ {0} /\ size - 1 \in 0 .. size /\ at + (size - 1) - 1 = at + 2 + (n + 1)
        /\ at + 5 - 1 = at + 4
    BY <1>1
  <2>2. SubSeq(line, at + 4, at + 2 + (n + 1)) = SubSeq(b, 5, size - 1)
    BY <1>4, <2>1
  <2> QED
    BY <1>2, <1>6, <2>2
<1> QED
  BY <1>1, <1>7, <1>8, <1>9, <1>10 DEF at, n

(* What every confirmed command is known to be.                            *)
LEMMA ConfirmedIsPlaced ==
  ASSUME SenderInv, NEW i \in DOMAIN confirmed
  PROVE  /\ i \in 1 .. Len(confirmed) /\ confirmed[i] \in Commands /\ lineOut \in Seq(Byte)
         /\ confirmed[i].at >= 1
         /\ confirmed[i].at + Len(FrameOf(confirmed[i])) - 1 <= Len(lineOut)
         /\ \A k \in 1 .. Len(FrameOf(confirmed[i])) :
              lineOut[confirmed[i].at + k - 1] = FrameOf(confirmed[i])[k]
         /\ \A j \in i + 1 .. Len(confirmed) :
              confirmed[i].at + Len(FrameOf(confirmed[i])) <= confirmed[j].at
<1>1. confirmed \in Seq([at : Nat, payload : Payloads]) /\ lineOut \in Seq(Byte)
      /\ Placed(lineOut, confirmed)
  BY DEF SenderInv, SenderTypeOK, Sent
<1>2. i \in 1 .. Len(confirmed)
  BY <1>1
<1>3. confirmed[i] \in [at : Nat, payload : Payloads]
  BY <1>1, <1>2, ElementOfSeq
<1>4. confirmed[i] \in Commands
  BY <1>3, SerialAssumption DEF Commands
<1> QED
  BY <1>1, <1>2, <1>4, Zenon DEF Placed

(* The bytes that belong to no such command, in terms of the two.          *)
LEMMA StraysAre == ASSUME SenderInv PROVE Strays = StraysOf(lineOut, confirmed)
<1>1. DOMAIN confirmed = 1 .. Len(confirmed)
  BY DEF SenderInv, SenderTypeOK
<1> QED
  BY <1>1, Zenon DEF Strays, StraysOf, Place, Tells

(* With no half commands on the line the receiver gets the confirmed       *)
(* commands, in their order, and nothing else.                             *)
THEOREM CommandsArrive == SerialSpec => []CommandsLossless
<1>1. ASSUME SenderInv PROVE CommandsLossless
  <2> DEFINE mcu == SerialScan(1, lineOut)
  <2> SUFFICES ASSUME Strays = {}
               PROVE  PayloadsOf(mcu.frames) = PayloadsOf(confirmed) /\ mcu.rest = <<>>
    BY DEF CommandsLossless
  <2>1. FoundAll(lineOut, confirmed)
    BY <1>1, StraysAre, Zenon DEF SenderInv, Sent
  <2>2. mcu.frames \in Seq(SerialFrames)
    BY <1>1, ScanIsOutcome DEF SenderInv, SenderTypeOK
  <2>3. confirmed \in Seq([at : Nat, payload : Payloads])
    BY <1>1 DEF SenderInv, SenderTypeOK
  <2>4. /\ mcu.rest = <<>> /\ Len(mcu.frames) = Len(confirmed)
        /\ \A i \in 1 .. Len(confirmed) : mcu.frames[i].payload = confirmed[i].payload
    BY <2>1, Zenon DEF FoundAll
  <2> DEFINE F == mcu.frames
  <2>5. DOMAIN F = 1 .. Len(confirmed) /\ DOMAIN confirmed = 1 .. Len(confirmed)
    <3>1. F \in Seq(SerialFrames) /\ Len(F) = Len(confirmed)
      BY <2>2, <2>4
    <3> HIDE DEF F
    <3> QED
      BY <2>3, <3>1
  <2> HIDE DEF mcu
  <2> QED
    BY <2>4, <2>5 DEF PayloadsOf
<1> QED
  BY <1>1, SenderInvariance, PTL

(* A confirmed command is found, unless a half command before it is in the *)
(* way, and how it can be; with no half commands there is nothing else.    *)
THEOREM ConfirmedAreReceivable == SerialSpec => []ConfirmedIsReceivable
<1>1. ASSUME SenderInv, NEW i \in DOMAIN confirmed, Tells(i)
      PROVE  LET mcu == SerialScan(1, lineOut)
                 c   == confirmed[i]
             IN  \/ \E k \in DOMAIN mcu.frames :
                      mcu.frames[k].at = c.at /\ mcu.frames[k].payload = c.payload
                 \/ /\ \E p \in Strays : p < c.at
                    /\ \/ c.at > Len(lineOut) - Len(mcu.rest)
                       \/ \E k \in DOMAIN mcu.frames :
                            /\ c.at \in mcu.frames[k].at + 1
                                 .. mcu.frames[k].at + FrameSize(lineOut, mcu.frames[k].at) - 1
                            /\ \A j \in DOMAIN confirmed : confirmed[j].at # mcu.frames[k].at
  <2> DEFINE mcu  == SerialScan(1, lineOut)
             F    == mcu.frames
             rest == mcu.rest
             c    == confirmed[i]
             size == Len(FrameOf(c))
  <2>1. /\ i \in 1 .. Len(confirmed) /\ c \in Commands /\ lineOut \in Seq(Byte)
        /\ c.at >= 1 /\ c.at + size - 1 <= Len(lineOut)
        /\ \A k \in 1 .. size : lineOut[c.at + k - 1] = FrameOf(c)[k]
    BY <1>1, ConfirmedIsPlaced
  <2>2. Len(c.payload) < 255
    BY <1>1 DEF Tells
  <2>3. /\ InSync(lineOut, c.at) /\ FrameSize(lineOut, c.at) = size /\ CrcAgrees(lineOut, c.at)
        /\ SubSeq(lineOut, c.at + 4, c.at + 2 + lineOut[c.at + 2]) = c.payload
        /\ size = Len(c.payload) + 5 /\ size \in Nat /\ c.at \in Nat /\ Len(c.payload) \in Nat
    <3> HIDE DEF c
    <3>1. /\ size = Len(c.payload) + 5 /\ c.at \in Nat /\ Len(c.payload) \in Nat
      BY <2>1, CommandIsBytes
    <3>2. /\ InSync(lineOut, c.at) /\ FrameSize(lineOut, c.at) = Len(c.payload) + 5
          /\ CrcAgrees(lineOut, c.at)
          /\ SubSeq(lineOut, c.at + 4, c.at + 2 + lineOut[c.at + 2]) = c.payload
      BY <2>1, <2>2, PlacedFrame
    <3> HIDE DEF size
    <3> QED
      BY <3>1, <3>2
  <2>4. CASE \A p \in StraysOf(lineOut, confirmed) : ~(p < c.at)
    <3>1. Found(lineOut, c)
      BY <1>1, <2>1, <2>2, <2>4, Zenon DEF SenderInv, Sent, FoundUnlessStray
    <3> QED
      BY <3>1, Zenon DEF Found
  <2>5. CASE \E p \in StraysOf(lineOut, confirmed) : p < c.at
    <3>1. \E p \in Strays : p < c.at
      BY <1>1, <2>5, StraysAre
    <3>2. CASE c.at > Len(lineOut) - Len(rest)
      BY <3>1, <3>2, Zenon
    <3>3. CASE ~(c.at > Len(lineOut) - Len(rest))
      <4>1. /\ c.at \in 1 .. Len(lineOut) - 4 /\ c.at <= Len(lineOut) - Len(rest)
            /\ c.at + FrameSize(lineOut, c.at) - 1 <= Len(lineOut)
        <5>1. Len(rest) \in Nat /\ Len(lineOut) \in Nat
          <6>1. rest \in Seq(Byte)
            BY <2>1, ScanIsOutcome
          <6> HIDE DEF rest
          <6> QED
            BY <2>1, <6>1
        <5>2. c.at <= Len(lineOut) - Len(rest)
          <6> HIDE DEF c, rest
          <6> QED
            BY <2>3, <3>3, <5>1
        <5> DEFINE at == c.at
                   n  == Len(c.payload)
                   l  == Len(lineOut)
        <5>3. at \in Nat /\ n \in Nat /\ l \in Nat /\ size = n + 5 /\ at >= 1 /\ at + size - 1 <= l
          BY <2>1, <2>3, <5>1
        <5> HIDE DEF at, n, l, size
        <5>4. at \in 1 .. l - 4 /\ at + size - 1 <= l
          BY <5>3
        <5> QED
          BY <2>3, <5>2, <5>4, Zenon DEF at, l
      <4>2. Holds(lineOut, F, c.at)
        <5>1. 1 \in 1 .. Len(lineOut) + 1
          BY <2>1
        <5>2. F = SerialScanFrom(1, lineOut)[1].frames /\ rest = SerialScanFrom(1, lineOut)[1].rest
          BY DEF SerialScan
        <5> HIDE DEF c, F, rest
        <5> QED
          BY <2>1, <2>3, <4>1, <5>1, <5>2, GoodFramesAreFound
      <4>3. PICK k \in DOMAIN F : c.at \in F[k].at .. F[k].at + FrameSize(lineOut, F[k].at) - 1
        BY <4>2, Zenon DEF Holds
      <4> DEFINE f == F[k].at
      <4>4. IsThere(lineOut, F[k])
        <5>1. 1 \in 1 .. Len(lineOut) + 1
          BY <2>1
        <5> QED
          BY <2>1, <5>1, WhatIsFound, Zenon DEF SerialScan
      <4>5. f \in Nat /\ F[k] = SerialFrameAt(1, lineOut, f)
        BY <4>4 DEF IsThere
      <4>6. CASE f = c.at
        <5>1. F[k].payload = c.payload
          <6> DEFINE g == SerialFrameAt(1, lineOut, c.at)
          <6>1. g.payload = SubSeq(lineOut, c.at + 4, c.at + 2 + lineOut[c.at + 2])
            BY DEF SerialFrameAt
          <6>2. F[k] = g
            BY <4>5, <4>6
          <6> HIDE DEF g, F, c
          <6> QED
            BY <2>3, <6>1, <6>2
        <5> QED
          BY <4>6, <5>1, Zenon
      <4>7. CASE f # c.at
        <5>1. c.at \in f + 1 .. f + FrameSize(lineOut, f) - 1
          <6> HIDE DEF f, F, c
          <6>1. c.at \in f .. f + FrameSize(lineOut, f) - 1
            BY <4>3 DEF f
          <6> QED
            BY <2>3, <4>5, <4>7, <6>1
        <5>2. ASSUME NEW j \in DOMAIN confirmed, confirmed[j].at = f PROVE FALSE
          <6> DEFINE d == confirmed[j]
                     s == Len(FrameOf(d))
          <6>1. /\ j \in 1 .. Len(confirmed) /\ d \in Commands
                /\ \A m \in 1 .. s : lineOut[d.at + m - 1] = FrameOf(d)[m]
                /\ \A m \in j + 1 .. Len(confirmed) : d.at + s <= confirmed[m].at
            BY <1>1, <5>2, ConfirmedIsPlaced
          <6>2. /\ d.at \in Nat /\ Len(d.payload) \in Nat /\ s = Len(d.payload) + 5
                /\ FrameOf(d)[3] = (Len(d.payload) + 1) % 256
            <7> HIDE DEF d
            <7> QED
              BY <6>1, CommandIsBytes
          <6>3. FrameSize(lineOut, f) <= s /\ FrameSize(lineOut, f) \in Nat
            <7>1. lineOut[d.at + 3 - 1] = FrameOf(d)[3] /\ d.at + 3 - 1 = f + 2
              <8>1. 3 \in 1 .. s
                <9> DEFINE n == Len(d.payload)
                <9>1. s = n + 5 /\ n \in Nat
                  BY <6>2
                <9> HIDE DEF s, n
                <9> QED
                  BY <9>1
              <8>2. d.at = f
                BY <5>2
              <8> HIDE DEF s, d, f
              <8> QED
                BY <4>5, <6>1, <8>1, <8>2
            <7> DEFINE n == Len(d.payload)
            <7>2. n \in Nat /\ lineOut[f + 2] = (n + 1) % 256 /\ s = n + 5
              BY <6>2, <7>1
            <7> HIDE DEF n, s, f
            <7> QED
              BY <7>2 DEF FrameSize
          <6>4. CASE j < i
            <7>1. i \in j + 1 .. Len(confirmed)
              BY <2>1, <6>1, <6>4
            <7>2. d.at + s <= c.at /\ d.at = f
              BY <5>2, <6>1, <7>1
            <7> HIDE DEF d, s, c, f
            <7> QED
              BY <2>3, <4>5, <5>1, <6>3, <7>2, <6>2
          <6>5. CASE i < j
            <7>1. j \in i + 1 .. Len(confirmed)
              BY <2>1, <6>1, <6>5
            <7>2. c.at + size <= d.at /\ d.at = f
              BY <1>1, <5>2, <7>1, ConfirmedIsPlaced
            <7> HIDE DEF d, s, c, f, size
            <7> QED
              BY <2>3, <4>5, <5>1, <7>2
          <6>6. CASE i = j
            BY <4>7, <5>2, <6>6
          <6>7. i \in Nat /\ j \in Nat
            BY <2>1, <6>1
          <6> QED
            BY <6>4, <6>5, <6>6, <6>7
        <5> QED
          BY <3>1, <5>1, <5>2, Zenon
      <4> QED
        BY <4>6, <4>7
    <3> QED
      BY <3>2, <3>3
  <2> QED
    BY <2>4, <2>5, Zenon
<1>2. SenderInv => FoundOrHidden
  BY <1>1, Zenon DEF FoundOrHidden
<1>3. FoundOrHidden /\ CommandsLossless => ConfirmedIsReceivable
  BY DEF ConfirmedIsReceivable
<1> QED
  BY <1>2, <1>3, CommandsArrive, SenderInvariance, PTL

(* crc8() of a zero byte is zero.                                          *)
LEMMA CrcOfZero == Crc8(<<0>>) = 0
<1>1. 0 \in Byte
  BY DEF Byte
<1>2. Xor(0, 0) = 0
  <2>1. SymDiff(Bits(0), Bits(0)) = {}
    BY DEF SymDiff
  <2>2. Number({}) = 0
    BY NumberIs DEF DigitIn
  <2> QED
    BY <2>1, <2>2 DEF Xor
<1>3. CrcShift[0] = 0
  BY <1>1 DEF CrcShift
<1>4. CrcOfByte[0] = 0
  <2>1. PICK f \in [0 .. 8 -> Byte] :
          f[0] = 0 /\ (\A j \in 1 .. 8 : f[j] = CrcShift[f[j - 1]]) /\ CrcOfByte[0] = f[8]
    BY <1>1, CrcOfByteUnfolds
  <2>2. f[1] = 0 /\ f[2] = 0 /\ f[3] = 0 /\ f[4] = 0 /\ f[5] = 0 /\ f[6] = 0 /\ f[7] = 0 /\ f[8] = 0
    BY <1>3, <2>1
  <2> QED
    BY <2>1, <2>2
<1> DEFINE data == <<0>>
<1>5. data \in Seq(Byte) /\ Len(data) = 1 /\ data[1] = 0
  BY <1>1
<1> HIDE DEF data
<1>6. PICK f \in [0 .. Len(data) -> Byte] :
        /\ f[0] = 0 /\ \A i \in 1 .. Len(data) : f[i] = CrcOfByte[Xor(data[i], f[i - 1])]
        /\ Crc8(data) = f[Len(data)]
  BY <1>5, Crc8Unfolds
<1>7. f[1] = CrcOfByte[Xor(data[1], f[0])]
  <2>1. 1 \in 1 .. Len(data) /\ 1 - 1 = 0
    BY <1>5
  <2> QED
    BY <1>6, <2>1
<1>8. Crc8(data) = 0
  BY <1>2, <1>4, <1>5, <1>6, <1>7
<1> QED
  BY <1>8 DEF data

(* A part of one byte.                                                     *)
LEMMA OneByte ==
  ASSUME NEW d \in Seq(Byte), NEW i \in 1 .. Len(d)
  PROVE  SubSeq(d, i, i) = <<d[i]>>
<1> DEFINE x == SubSeq(d, i, i)
<1>1. i \in Nat \ {0} /\ i \in 0 .. Len(d) /\ i <= i /\ i - i + 1 = 1 /\ i + 1 - 1 = i
  OBVIOUS
<1>2. /\ x \in Seq(Byte) /\ Len(x) = IF i <= i THEN i - i + 1 ELSE 0
      /\ \A k \in 1 .. i - i + 1 : x[k] = d[i + k - 1]
  BY <1>1, PartOfBuffer
<1> HIDE DEF x
<1>3. x \in Seq(Byte) /\ Len(x) = 1 /\ x[1] = d[i]
  BY <1>1, <1>2
<1>4. x = <<d[i]>>
  BY <1>3
<1> QED
  BY <1>4 DEF x

(* LEN is a byte: of a command with 255 bytes of payload it is 0, so a     *)
(* receiver takes the first four bytes of it for a frame, and its checksum *)
(* is wrong.  sendCmd() returns true for a command nobody can receive.     *)
LongestIsLost ==
  LET mcu == SerialScan(1, lineOut)
  IN  \A i \in DOMAIN confirmed : Len(confirmed[i].payload) = 255 =>
        \A k \in DOMAIN mcu.frames : mcu.frames[k].at # confirmed[i].at

(* So it is, wherever on the line it is.                                   *)
THEOREM LongestCommandIsLost == SerialSpec => []LongestIsLost
<1>1. ASSUME SenderInv, NEW i \in DOMAIN confirmed, Len(confirmed[i].payload) = 255,
             NEW k \in DOMAIN SerialScan(1, lineOut).frames,
             SerialScan(1, lineOut).frames[k].at = confirmed[i].at
      PROVE  FALSE
  <2> DEFINE c    == confirmed[i]
             b    == FrameOf(c)
             size == Len(b)
             at   == c.at
  <2>1. /\ c \in Commands /\ lineOut \in Seq(Byte)
        /\ \A m \in 1 .. size : lineOut[at + m - 1] = b[m]
    BY <1>1, ConfirmedIsPlaced
  <2>2. /\ at \in Nat /\ size = 260 /\ b[3] = 0 /\ b[4] = CMD_ESTOP
    <3> DEFINE n == Len(c.payload)
    <3>1. n = 255
      BY <1>1
    <3> HIDE DEF c
    <3>2. at \in Nat /\ size = n + 5 /\ b[3] = (n + 1) % 256 /\ b[4] = CMD_ESTOP
      BY <2>1, CommandIsBytes
    <3>3. (255 + 1) % 256 = 0 /\ 255 + 5 = 260
      OBVIOUS
    <3> HIDE DEF n, b, size
    <3> QED
      BY <3>1, <3>2, <3>3
  <2>3. IsThere(lineOut, SerialScan(1, lineOut).frames[k])
    <3>1. 1 \in 1 .. Len(lineOut) + 1
      BY <2>1
    <3>2. \A m \in DOMAIN SerialScanFrom(1, lineOut)[1].frames :
            IsThere(lineOut, SerialScanFrom(1, lineOut)[1].frames[m])
      BY <2>1, <3>1, WhatIsFound
    <3> QED
      BY <1>1, <3>2, Zenon DEF SerialScan
  <2>4. CrcAgrees(lineOut, at)
    BY <1>1, <2>3, Zenon DEF IsThere, Complete
  <2> HIDE DEF c, b, size, at
  <2>5. lineOut[at + 2] = 0 /\ lineOut[at + 3] = CMD_ESTOP
    <3>1. 3 \in 1 .. size /\ 4 \in 1 .. size /\ at + 3 - 1 = at + 2 /\ at + 4 - 1 = at + 3
      BY <2>2
    <3>2. lineOut[at + 3 - 1] = b[3] /\ lineOut[at + 4 - 1] = b[4]
      BY <2>1, <3>1
    <3> QED
      BY <2>2, <3>1, <3>2
  <2>6. FrameSize(lineOut, at) = 4
    BY <2>5 DEF FrameSize
  <2> DEFINE last == at + FrameSize(lineOut, at) - 1
  <2>7. Crc8(SubSeq(lineOut, at + 2, last - 1)) = lineOut[last]
    BY <2>4, Zenon DEF CrcAgrees
  <2>8. last - 1 = at + 2 /\ last = at + 3
    BY <2>2, <2>6
  <2> HIDE DEF last
  <2>9. SubSeq(lineOut, at + 2, at + 2) = <<0>>
    <3> DEFINE x == SubSeq(lineOut, at + 2, at + 2)
    <3>1. at + 2 \in 1 .. Len(lineOut)
      <4>1. Len(lineOut) \in Nat /\ at + size - 1 <= Len(lineOut)
        BY <1>1, <2>1, ConfirmedIsPlaced DEF at, size, b, c
      <4> QED
        BY <2>2, <4>1
    <3>2. x = <<lineOut[at + 2]>>
      BY <2>1, <3>1, OneByte
    <3> QED
      BY <2>5, <3>2 DEF x
  <2>10. CMD_ESTOP = 0
    BY <2>5, <2>7, <2>8, <2>9, CrcOfZero, Zenon
  <2> QED
    BY <2>10 DEF CMD_ESTOP
<1>2. SenderInv => LongestIsLost
  BY <1>1, Zenon DEF LongestIsLost
<1> QED
  BY <1>2, SenderInvariance, PTL

(* crc8() is CRC-8 on everything that was ever read.                       *)
THEOREM ChecksumIsCrc == SerialSpec => []CrcIsRemainder
<1>1. SerialInv => CrcIsRemainder
  BY Crc8IsRemainder DEF SerialInv, ReceiverTypeOK, CrcIsRemainder
<1> QED
  BY <1>1, SerialInvariance, PTL
=============================================================================

--------------------------- MODULE Startup_proofs ---------------------------
(***************************************************************************)
(* The two passes of main() over the command line, for any configuration   *)
(* file, any numbers and any command line made of words: StartsAsTold.     *)
(* The parser is not expanded.                                             *)
(***************************************************************************)
EXTENDS Startup, SequenceTheorems, TLAPS

Parsers == INSTANCE FrameProtocol_proofs
-----------------------------------------------------------------------------
(* Counting up: what holds of 0, and of every number up to n if it holds   *)
(* of the one before.                                                      *)
LEMMA Counting ==
  ASSUME NEW n \in Nat, NEW P, 0 \in P, \A i \in 1 .. n : i - 1 \in P => i \in P
  PROVE  \A i \in 0 .. n : i \in P
<1> DEFINE Bad == {i \in 0 .. n : i \notin P}
<1> SUFFICES ASSUME Bad # {} PROVE FALSE
  OBVIOUS
<1>1. PICK i \in Bad : \A k \in Bad : i <= k
  <2>1. Bad \subseteq Nat
    OBVIOUS
  <2> HIDE DEF Bad
  <2> QED
    BY <2>1, Parsers!LeastNat
<1>2. i \in 1 .. n /\ i - 1 \in 0 .. n /\ ~(i <= i - 1)
  OBVIOUS
<1>3. i - 1 \in P
  BY <1>1, <1>2
<1> QED
  BY <1>1, <1>2, <1>3
-----------------------------------------------------------------------------
(* The words of a command line one behind the other, as the definition of  *)
(* FlattenSeq puts them together.                                          *)
Flat(words, f) == [i \in 1 .. Len(words) |-> IF i = 1 THEN words[i] ELSE f[i - 1] \o words[i]]

LEMMA FlatDefined ==
  ASSUME NEW words \in Seq(Seq(STRING)), NEW n \in Nat, n <= Len(words), n >= 1
  PROVE  \E f \in [1 .. n -> Seq(STRING)] :
           \A i \in 1 .. n : f[i] = IF i = 1 THEN words[i] ELSE f[i - 1] \o words[i]
<1> DEFINE Is(f, m) == \A i \in 1 .. m : f[i] = IF i = 1 THEN words[i] ELSE f[i - 1] \o words[i]
           Has(m) == \E f \in [1 .. m -> Seq(STRING)] : Is(f, m)
           P == {m \in 0 .. n : m >= 1 => Has(m)}
<1>1. \A i \in 1 .. n : words[i] \in Seq(STRING)
  <2>1. \A i \in 1 .. Len(words) : words[i] \in Seq(STRING)
    BY ElementOfSeq, Zenon
  <2>2. \A i \in 1 .. n : i \in 1 .. Len(words)
    OBVIOUS
  <2> QED
    BY <2>1, <2>2
<1>2. Has(1)
  <2> DEFINE f == [i \in 1 .. 1 |-> words[1]]
  <2>1. words[1] \in Seq(STRING) /\ 1 \in 1 .. 1 /\ \A i \in 1 .. 1 : i = 1
    BY <1>1
  <2>2. f[1] = words[1] /\ f \in [1 .. 1 -> Seq(STRING)]
    BY <2>1, Zenon
  <2> HIDE DEF f
  <2>3. Is(f, 1)
    BY <2>1, <2>2
  <2> QED
    BY <2>2, <2>3, Zenon
<1>3. ASSUME NEW m \in 1 .. n, m # 1, Has(m - 1) PROVE Has(m)
  <2>1. PICK f \in [1 .. m - 1 -> Seq(STRING)] : Is(f, m - 1)
    BY <1>3, Zenon
  <2> DEFINE g == [i \in 1 .. m |-> IF i = m THEN f[m - 1] \o words[m] ELSE f[i]]
  <2>2. m - 1 \in 1 .. m - 1 /\ m \in 1 .. m
    BY <1>3
  <2>3. f[m - 1] \in Seq(STRING) /\ words[m] \in Seq(STRING)
    BY <1>1, <2>2, Zenon
  <2>4. f[m - 1] \o words[m] \in Seq(STRING)
    <3> DEFINE u == f[m - 1]
               v == words[m]
    <3>1. u \in Seq(STRING) /\ v \in Seq(STRING)
      BY <2>3
    <3> HIDE DEF u, v
    <3>2. u \o v \in Seq(STRING)
      BY <3>1, ConcatProperties, Zenon
    <3> QED
      BY <3>2 DEF u, v
  <2>5. \A i \in 1 .. m : i # m => i \in 1 .. m - 1
    OBVIOUS
  <2>6. g \in [1 .. m -> Seq(STRING)]
    <3>1. \A i \in 1 .. m : i # m => f[i] \in Seq(STRING)
      BY <2>5, Zenon
    <3> QED
      BY <2>4, <3>1, Zenon
  <2>7. ASSUME NEW i \in 1 .. m PROVE g[i] = IF i = 1 THEN words[i] ELSE g[i - 1] \o words[i]
    <3>1. CASE i = m
      <4>1. m - 1 \in 1 .. m /\ m - 1 # m
        BY <1>3
      <4>2. g[m] = f[m - 1] \o words[m] /\ g[m - 1] = f[m - 1]
        BY <2>2, <4>1, Zenon
      <4> HIDE DEF g
      <4> QED
        BY <1>3, <3>1, <4>2
    <3>2. CASE i # m
      <4>1. i \in 1 .. m - 1 /\ g[i] = f[i]
        BY <2>5, <3>2, Zenon
      <4>2. i # 1 => i - 1 \in 1 .. m /\ i - 1 # m
        BY <4>1
      <4>3. i # 1 => g[i - 1] = f[i - 1]
        BY <4>2, Zenon
      <4>4. f[i] = IF i = 1 THEN words[i] ELSE f[i - 1] \o words[i]
        BY <2>1, <4>1, Zenon
      <4> HIDE DEF g
      <4> QED
        BY <4>1, <4>3, <4>4
    <3> QED
      BY <3>1, <3>2
  <2> HIDE DEF g
  <2>8. Is(g, m)
    BY <2>7, Zenon
  <2> QED
    BY <2>6, <2>8, Zenon
<1>4. Has(n)
  <2> HIDE DEF Has
  <2>1. \A m \in 0 .. n : m \in P
    <3>1. 0 \in P
      OBVIOUS
    <3>2. ASSUME NEW m \in 1 .. n, m - 1 \in P PROVE m \in P
      BY <1>2, <1>3, <3>2
    <3> HIDE DEF P
    <3> QED
      BY <3>1, <3>2, Counting
  <2> QED
    BY <2>1
<1> QED
  BY <1>4

(* One sequence behind another. *)
LEMMA OneBehindAnother ==
  ASSUME NEW u \in Seq(STRING), NEW v \in Seq(STRING)
  PROVE  /\ u \o v \in Seq(STRING) /\ Len(u \o v) = Len(u) + Len(v)
         /\ \A i \in 1 .. Len(u) : i \in 1 .. Len(u \o v) /\ (u \o v)[i] = u[i]
         /\ \A j \in 1 .. Len(v) : Len(u) + j \in 1 .. Len(u \o v) /\ (u \o v)[Len(u) + j] = v[j]
<1> DEFINE w == u \o v
<1>1. /\ w \in Seq(STRING) /\ Len(w) = Len(u) + Len(v)
      /\ \A i \in 1 .. Len(u) + Len(v) : w[i] = IF i <= Len(u) THEN u[i] ELSE v[i - Len(u)]
  BY ConcatProperties, Zenon
<1>2. Len(u) \in Nat /\ Len(v) \in Nat
  BY LenProperties, Zenon
<1> HIDE DEF w
<1>3. ASSUME NEW i \in 1 .. Len(u) PROVE i \in 1 .. Len(w) /\ w[i] = u[i]
  BY <1>1, <1>2
<1>4. ASSUME NEW j \in 1 .. Len(v) PROVE Len(u) + j \in 1 .. Len(w) /\ w[Len(u) + j] = v[j]
  <2> DEFINE i == Len(u) + j
  <2>1. i \in 1 .. Len(u) + Len(v) /\ ~(i <= Len(u)) /\ i - Len(u) = j
    BY <1>2
  <2> HIDE DEF i
  <2>2. w[i] = IF i <= Len(u) THEN u[i] ELSE v[i - Len(u)]
    BY <1>1, <2>1, Zenon
  <2>3. i \in 1 .. Len(w) /\ w[i] = v[j]
    BY <1>1, <2>1, <2>2, Zenon
  <2> QED
    BY <2>3 DEF i
<1> QED
  BY <1>1, <1>3, <1>4 DEF w

(* Where each word begins among the arguments.                             *)
Begins(words, argv, begin) ==
  /\ begin \in [1 .. Len(words) + 1 -> Nat] /\ begin[1] = 1 /\ begin[Len(words) + 1] = Len(argv) + 1
  /\ \A k \in 1 .. Len(words) :
       /\ begin[k + 1] = begin[k] + Len(words[k])
       /\ \A j \in 1 .. Len(words[k]) : /\ begin[k] + j - 1 \in 1 .. Len(argv)
                                         /\ argv[begin[k] + j - 1] = words[k][j]

LEMMA WordsBegin ==
  ASSUME NEW words \in Seq(Seq(STRING))
  PROVE  /\ FlattenSeq(words) \in Seq(STRING)
         /\ \E begin : Begins(words, FlattenSeq(words), begin)
<1> DEFINE n == Len(words)
           argv == FlattenSeq(words)
<1>1. n \in Nat /\ \A i \in 1 .. n : words[i] \in Seq(STRING) /\ Len(words[i]) \in Nat
  <2>1. \A i \in 1 .. n : words[i] \in Seq(STRING)
    BY ElementOfSeq, Zenon
  <2> QED
    BY <2>1
<1>2. CASE n = 0
  <2> DEFINE begin == [k \in 1 .. 1 |-> 1]
  <2>1. words = <<>>
    BY <1>2
  <2>2. argv = <<>>
    BY <1>2, <2>1 DEF FlattenSeq
  <2>3. argv \in Seq(STRING) /\ Len(argv) = 0
    BY <2>2
  <2>4. /\ begin \in [1 .. 1 -> Nat] /\ begin[1] = 1
    OBVIOUS
  <2> HIDE DEF begin, argv
  <2>5. Begins(words, argv, begin)
    BY <1>2, <2>3, <2>4 DEF Begins
  <2> QED
    BY <2>3, <2>5 DEF argv
<1>3. CASE n # 0
  <2> DEFINE F == CHOOSE f : f = Flat(words, f)
  <2>1. \E f : f = Flat(words, f)
    <3>0. n \in Nat /\ n <= Len(words) /\ n >= 1
      BY <1>1, <1>3
    <3>1. PICK f \in [1 .. n -> Seq(STRING)] :
            \A i \in 1 .. n : f[i] = IF i = 1 THEN words[i] ELSE f[i - 1] \o words[i]
      BY <3>0, FlatDefined, Zenon
    <3>2. f = [i \in 1 .. n |-> f[i]]
      OBVIOUS
    <3>3. [i \in 1 .. n |-> f[i]] = Flat(words, f)
      BY <3>1 DEF Flat
    <3> QED
      BY <3>2, <3>3, Zenon
  <2>2. F = Flat(words, F)
    BY <2>1, Zenon
  <2>3. argv = F[n]
    BY <1>3, Zenon DEF FlattenSeq, Flat
  <2> HIDE DEF F
  <2>4. \A i \in 1 .. n : F[i] = IF i = 1 THEN words[i] ELSE F[i - 1] \o words[i]
    <3>1. \A i \in 1 .. n : Flat(words, F)[i] = IF i = 1 THEN words[i] ELSE F[i - 1] \o words[i]
      BY DEF Flat
    <3> QED
      BY <2>2, <3>1, Zenon
  <2> DEFINE begin == [k \in 1 .. n + 1 |-> IF k = 1 THEN 1 ELSE Len(F[k - 1]) + 1]
             At(k, m, j) == /\ begin[k] + j - 1 \in 1 .. Len(F[m])
                            /\ F[m][begin[k] + j - 1] = words[k][j]
             Inside(k, m) == \A j \in 1 .. Len(words[k]) : At(k, m, j)
             Ready(m) == /\ F[m] \in Seq(STRING)
                         /\ begin[m + 1] = begin[m] + Len(words[m]) /\ begin[m] \in Nat
                         /\ \A k \in 1 .. m : Inside(k, m)
             P == {m \in 0 .. n : m >= 1 => Ready(m)}
  <2>5. /\ begin[1] = 1
        /\ \A m \in 1 .. n : begin[m + 1] = Len(F[m]) + 1
    BY <1>1, <1>3
  <2>6. Ready(1)
    <3>1. 1 \in 1 .. n
      BY <1>1, <1>3
    <3>2. F[1] = words[1] /\ begin[1 + 1] = Len(F[1]) + 1
      BY <2>4, <2>5, <3>1
    <3>3. words[1] \in Seq(STRING) /\ Len(words[1]) \in Nat
      BY <1>1, <3>1
    <3> HIDE DEF begin
    <3>4. begin[1 + 1] = begin[1] + Len(words[1]) /\ begin[1] \in Nat
      BY <2>5, <3>2, <3>3
    <3>5. Inside(1, 1)
      BY <2>5, <3>2, <3>3
    <3>6. \A k \in 1 .. 1 : k = 1
      OBVIOUS
    <3> HIDE DEF Inside
    <3> QED
      BY <3>2, <3>3, <3>4, <3>5, <3>6
  <2>7. ASSUME NEW m \in 1 .. n, m # 1, Ready(m - 1) PROVE Ready(m)
    <3> DEFINE front == F[m - 1]
               word == words[m]
    <3>1. m - 1 \in 1 .. n /\ m - 1 + 1 = m
      BY <1>1, <2>7
    <3>2. front \in Seq(STRING) /\ word \in Seq(STRING)
      BY <1>1, <2>7, Zenon
    <3>3. F[m] = front \o word
      BY <2>4, <2>7
    <3>4. begin[m] = Len(front) + 1 /\ begin[m + 1] = Len(F[m]) + 1
      BY <2>5, <3>1, Zenon
    <3>5. \A k \in 1 .. m - 1 : Inside(k, m - 1)
      BY <2>7, Zenon
    <3> HIDE DEF begin
    <3>6. /\ F[m] \in Seq(STRING) /\ Len(F[m]) = Len(front) + Len(word)
          /\ \A i \in 1 .. Len(front) : i \in 1 .. Len(F[m]) /\ F[m][i] = front[i]
          /\ \A j \in 1 .. Len(word) : Len(front) + j \in 1 .. Len(F[m]) /\ F[m][Len(front) + j] = word[j]
      <4> DEFINE both == front \o word
      <4> HIDE DEF front, word
      <4>1. /\ both \in Seq(STRING) /\ Len(both) = Len(front) + Len(word)
            /\ \A i \in 1 .. Len(front) : i \in 1 .. Len(both) /\ both[i] = front[i]
            /\ \A j \in 1 .. Len(word) :
                 Len(front) + j \in 1 .. Len(both) /\ both[Len(front) + j] = word[j]
        BY <3>2, OneBehindAnother
      <4>2. F[m] = both
        BY <3>3
      <4> HIDE DEF both
      <4> QED
        BY <4>1, <4>2, Zenon
    <3>7. Len(front) \in Nat /\ Len(word) \in Nat
      BY <3>2, LenProperties, Zenon
    <3>8. begin[m + 1] = begin[m] + Len(word) /\ begin[m] \in Nat
      <4> HIDE DEF front, word
      <4> QED
        BY <3>4, <3>6, <3>7
    <3>9. ASSUME NEW k \in 1 .. m, NEW j \in 1 .. Len(words[k]) PROVE At(k, m, j)
      <4>1. CASE k = m
        <5>1. j \in 1 .. Len(word)
          BY <4>1
        <5>2. begin[m] + j - 1 = Len(front) + j
          <6> HIDE DEF front, word
          <6> QED
            BY <3>4, <3>7, <5>1
        <5>3. Len(front) + j \in 1 .. Len(F[m]) /\ F[m][Len(front) + j] = words[m][j]
          BY <3>6, <5>1, Zenon
        <5> QED
          BY <4>1, <5>2, <5>3, Zenon
      <4>2. CASE k # m
        <5>1. k \in 1 .. m - 1
          BY <4>2
        <5>2. begin[k] + j - 1 \in 1 .. Len(front) /\ front[begin[k] + j - 1] = words[k][j]
          BY <3>5, <5>1, Zenon
        <5> HIDE DEF front
        <5> QED
          BY <3>6, <5>2, Zenon
      <4> HIDE DEF At
      <4> QED
        BY <4>1, <4>2
    <3> HIDE DEF At, front
    <3>10. \A k \in 1 .. m : Inside(k, m)
      BY <3>9, Zenon
    <3> HIDE DEF Inside
    <3> QED
      BY <3>6, <3>8, <3>10, Zenon
  <2> HIDE DEF Ready
  <2>8. \A m \in 1 .. n : Ready(m)
    <3>1. 0 \in P
      BY <1>1
    <3>2. ASSUME NEW m \in 1 .. n, m - 1 \in P PROVE m \in P
      BY <2>6, <2>7, <3>2
    <3>3. \A m \in 0 .. n : m \in P
      <4> HIDE DEF P
      <4> QED
        BY <1>1, <3>1, <3>2, Counting
    <3>4. \A m \in 1 .. n : m \in 0 .. n /\ m >= 1
      OBVIOUS
    <3> QED
      BY <3>3, <3>4, Zenon
  <2>9. n \in 1 .. n
    BY <1>1, <1>3
  <2> USE DEF Ready
  <2>10. argv \in Seq(STRING) /\ \A k \in 1 .. n : Inside(k, n)
    <3> HIDE DEF argv, Inside
    <3> QED
      BY <2>3, <2>8, <2>9, Zenon
  <2>11. \A m \in 1 .. n : begin[m + 1] = begin[m] + Len(words[m]) /\ begin[m] \in Nat
    <3> HIDE DEF begin, Inside
    <3> QED
      BY <2>8, Zenon
  <2> HIDE DEF Ready
  <2>12. begin[1] = 1 /\ begin[n + 1] = Len(argv) + 1 /\ begin[n + 1] \in Nat
    <3>1. begin[n + 1] = Len(F[n]) + 1
      BY <2>5, <2>9, Zenon
    <3>2. Len(argv) \in Nat
      <4> HIDE DEF argv
      <4> QED
        BY <2>10, LenProperties, Zenon
    <3> HIDE DEF begin, argv
    <3> QED
      BY <2>3, <2>5, <3>1, <3>2
  <2>13. begin \in [1 .. n + 1 -> Nat]
    <3>1. \A m \in 1 .. n + 1 : m \in 1 .. n \/ m = n + 1
      BY <1>1
    <3>2. \A m \in 1 .. n + 1 : begin[m] \in Nat
      <4> HIDE DEF begin
      <4> QED
        BY <2>11, <2>12, <3>1
    <3>3. begin = [m \in 1 .. n + 1 |-> begin[m]]
      BY Zenon
    <3> HIDE DEF begin
    <3> QED
      BY <3>2, <3>3
  <2> HIDE DEF begin
  <2>14. \A k \in 1 .. n : \A j \in 1 .. Len(words[k]) : /\ begin[k] + j - 1 \in 1 .. Len(argv)
                                                        /\ argv[begin[k] + j - 1] = words[k][j]
    <3> HIDE DEF argv
    <3> QED
      BY <2>3, <2>10, Zenon
  <2>15. Begins(words, argv, begin)
    <3> HIDE DEF argv
    <3> QED
      BY <2>11, <2>12, <2>13, <2>14, Zenon DEF Begins
  <2> QED
    BY <2>10, <2>15
<1> QED
  BY <1>2, <1>3
-----------------------------------------------------------------------------
(* The loop of the first pass: f[i] is what is known after i turns. *)
ScanTurns(argv, f, n) ==
  f = [i \in 0 .. n |-> IF i = 0 THEN [i |-> 1, version |-> FALSE, path |-> DefaultPath]
                                 ELSE ScanTurn(argv, f[i - 1])]

(* Its turns one after the other. *)
LEMMA ScanDefined ==
  ASSUME NEW argv, NEW n \in Nat
  PROVE  \E f : ScanTurns(argv, f, n)
<1> DEFINE First == [i |-> 1, version |-> FALSE, path |-> DefaultPath]
           Is(f, m) == f = [i \in 0 .. m |-> IF i = 0 THEN First ELSE ScanTurn(argv, f[i - 1])]
           Has(m) == \E f : Is(f, m)
           P == {m \in 0 .. n : Has(m)}
<1> HIDE DEF First
<1>1. Has(0)
  <2> DEFINE f == [i \in 0 .. 0 |-> First]
  <2>1. \A i \in 0 .. 0 : i = 0
    OBVIOUS
  <2>2. f = [i \in 0 .. 0 |-> IF i = 0 THEN First ELSE ScanTurn(argv, f[i - 1])]
    <3> DEFINE h == f
    <3> HIDE DEF h
    <3>1. [i \in 0 .. 0 |-> First] = [i \in 0 .. 0 |-> IF i = 0 THEN First ELSE ScanTurn(argv, h[i - 1])]
      BY <2>1, Zenon
    <3> QED
      BY <3>1 DEF h
  <2> HIDE DEF f
  <2> QED
    BY <2>2, Zenon
<1>2. ASSUME NEW m \in 1 .. n, Has(m - 1) PROVE Has(m)
  <2>1. PICK f : Is(f, m - 1)
    BY <1>2, Zenon
  <2> DEFINE g == [i \in 0 .. m |-> IF i = m THEN ScanTurn(argv, f[m - 1]) ELSE f[i]]
             R(i) == IF i = 0 THEN First ELSE ScanTurn(argv, g[i - 1])
  <2>2. ASSUME NEW i \in 0 .. m PROVE g[i] = R(i)
    <3>1. CASE i = m
      <4>1. m # 0 /\ m - 1 \in 0 .. m /\ m - 1 # m /\ m \in 0 .. m
        OBVIOUS
      <4>2. g[m] = ScanTurn(argv, f[m - 1]) /\ g[m - 1] = f[m - 1]
        BY <4>1, Zenon
      <4> HIDE DEF g
      <4> QED
        BY <3>1, <4>1, <4>2, Zenon
    <3>2. CASE i # m
      <4>1. i \in 0 .. m - 1 /\ (i # 0 => i - 1 \in 0 .. m /\ i - 1 # m)
        BY <3>2
      <4>2. g[i] = f[i] /\ (i # 0 => g[i - 1] = f[i - 1])
        BY <3>2, <4>1, Zenon
      <4>3. f[i] = [j \in 0 .. m - 1 |-> IF j = 0 THEN First ELSE ScanTurn(argv, f[j - 1])][i]
        BY <2>1, Zenon
      <4>4. f[i] = IF i = 0 THEN First ELSE ScanTurn(argv, f[i - 1])
        BY <4>1, <4>3, Zenon
      <4> HIDE DEF g
      <4>5. CASE i = 0
        BY <4>2, <4>4, <4>5, Zenon
      <4>6. CASE i # 0
        BY <4>2, <4>4, <4>6, Zenon
      <4> QED
        BY <4>5, <4>6
    <3> QED
      BY <3>1, <3>2
  <2>3. g = [i \in 0 .. m |-> g[i]]
    BY Zenon
  <2> HIDE DEF g
  <2>4. g = [i \in 0 .. m |-> R(i)]
    BY <2>2, <2>3, Zenon
  <2> QED
    BY <2>4, Zenon
<1> HIDE DEF Has
<1>3. \A m \in 0 .. n : m \in P
  <2>1. 0 \in P
    BY <1>1
  <2>2. ASSUME NEW m \in 1 .. n, m - 1 \in P PROVE m \in P
    BY <1>2, <2>2
  <2> HIDE DEF P
  <2> QED
    BY <2>1, <2>2, Counting
<1>4. Has(n)
  BY <1>3
<1> QED
  BY <1>4, Zenon DEF Has, First, ScanTurns

LEMMA ScanUnfolds ==
  ASSUME NEW argv, Len(argv) \in Nat
  PROVE  \E f : /\ Prescan(argv) = f[Len(argv)]
                /\ f[0] = [i |-> 1, version |-> FALSE, path |-> DefaultPath]
                /\ \A i \in 1 .. Len(argv) : f[i] = ScanTurn(argv, f[i - 1])
<1> DEFINE n == Len(argv)
           f == CHOOSE g : ScanTurns(argv, g, n)
<1>1. ScanTurns(argv, f, n)
  BY ScanDefined, Zenon
<1>2. Prescan(argv) = f[n]
  BY Zenon DEF Prescan, ScanTurns
<1> HIDE DEF f
<1>3. 0 \in 0 .. n /\ \A i \in 1 .. n : i \in 0 .. n /\ i # 0
  OBVIOUS
<1> DEFINE F == [i \in 0 .. n |-> IF i = 0 THEN [i |-> 1, version |-> FALSE, path |-> DefaultPath] ELSE ScanTurn(argv, f[i - 1])]
<1>4. f = F
  BY <1>1, Zenon DEF ScanTurns
<1>5. F[0] = [i |-> 1, version |-> FALSE, path |-> DefaultPath]
  BY <1>3, Zenon
<1>6. \A i \in 1 .. n : F[i] = ScanTurn(argv, f[i - 1])
  BY <1>3, Zenon
<1> HIDE DEF F
<1> QED
  BY <1>2, <1>4, <1>5, <1>6, Zenon

(* The loop of the second pass. *)
OptionTurns(argv, f, n, settings) ==
  f = [i \in 0 .. n |-> IF i = 0 THEN [i |-> 1, exit |-> "run", app |-> settings]
                                 ELSE OptionTurn(argv, f[i - 1])]

(* Its turns one after the other. *)
LEMMA OptionDefined ==
  ASSUME NEW argv, NEW n \in Nat, NEW settings
  PROVE  \E f : OptionTurns(argv, f, n, settings)
<1> DEFINE First == [i |-> 1, exit |-> "run", app |-> settings]
           Is(f, m) == f = [i \in 0 .. m |-> IF i = 0 THEN First ELSE OptionTurn(argv, f[i - 1])]
           Has(m) == \E f : Is(f, m)
           P == {m \in 0 .. n : Has(m)}
<1> HIDE DEF First
<1>1. Has(0)
  <2> DEFINE f == [i \in 0 .. 0 |-> First]
  <2>1. \A i \in 0 .. 0 : i = 0
    OBVIOUS
  <2>2. f = [i \in 0 .. 0 |-> IF i = 0 THEN First ELSE OptionTurn(argv, f[i - 1])]
    <3> DEFINE h == f
    <3> HIDE DEF h
    <3>1. [i \in 0 .. 0 |-> First] = [i \in 0 .. 0 |-> IF i = 0 THEN First ELSE OptionTurn(argv, h[i - 1])]
      BY <2>1, Zenon
    <3> QED
      BY <3>1 DEF h
  <2> HIDE DEF f
  <2> QED
    BY <2>2, Zenon
<1>2. ASSUME NEW m \in 1 .. n, Has(m - 1) PROVE Has(m)
  <2>1. PICK f : Is(f, m - 1)
    BY <1>2, Zenon
  <2> DEFINE g == [i \in 0 .. m |-> IF i = m THEN OptionTurn(argv, f[m - 1]) ELSE f[i]]
             R(i) == IF i = 0 THEN First ELSE OptionTurn(argv, g[i - 1])
  <2>2. ASSUME NEW i \in 0 .. m PROVE g[i] = R(i)
    <3>1. CASE i = m
      <4>1. m # 0 /\ m - 1 \in 0 .. m /\ m - 1 # m /\ m \in 0 .. m
        OBVIOUS
      <4>2. g[m] = OptionTurn(argv, f[m - 1]) /\ g[m - 1] = f[m - 1]
        BY <4>1, Zenon
      <4> HIDE DEF g
      <4> QED
        BY <3>1, <4>1, <4>2, Zenon
    <3>2. CASE i # m
      <4>1. i \in 0 .. m - 1 /\ (i # 0 => i - 1 \in 0 .. m /\ i - 1 # m)
        BY <3>2
      <4>2. g[i] = f[i] /\ (i # 0 => g[i - 1] = f[i - 1])
        BY <3>2, <4>1, Zenon
      <4>3. f[i] = [j \in 0 .. m - 1 |-> IF j = 0 THEN First ELSE OptionTurn(argv, f[j - 1])][i]
        BY <2>1, Zenon
      <4>4. f[i] = IF i = 0 THEN First ELSE OptionTurn(argv, f[i - 1])
        BY <4>1, <4>3, Zenon
      <4> HIDE DEF g
      <4>5. CASE i = 0
        BY <4>2, <4>4, <4>5, Zenon
      <4>6. CASE i # 0
        BY <4>2, <4>4, <4>6, Zenon
      <4> QED
        BY <4>5, <4>6
    <3> QED
      BY <3>1, <3>2
  <2>3. g = [i \in 0 .. m |-> g[i]]
    BY Zenon
  <2> HIDE DEF g
  <2>4. g = [i \in 0 .. m |-> R(i)]
    BY <2>2, <2>3, Zenon
  <2> QED
    BY <2>4, Zenon
<1> HIDE DEF Has
<1>3. \A m \in 0 .. n : m \in P
  <2>1. 0 \in P
    BY <1>1
  <2>2. ASSUME NEW m \in 1 .. n, m - 1 \in P PROVE m \in P
    BY <1>2, <2>2
  <2> HIDE DEF P
  <2> QED
    BY <2>1, <2>2, Counting
<1>4. Has(n)
  BY <1>3
<1> QED
  BY <1>4, Zenon DEF Has, First, OptionTurns

LEMMA OptionUnfolds ==
  ASSUME NEW argv, Len(argv) \in Nat, NEW settings
  PROVE  \E f : /\ Options(argv, settings) = f[Len(argv)]
                /\ f[0] = [i |-> 1, exit |-> "run", app |-> settings]
                /\ \A i \in 1 .. Len(argv) : f[i] = OptionTurn(argv, f[i - 1])
<1> DEFINE n == Len(argv)
           f == CHOOSE g : OptionTurns(argv, g, n, settings)
<1>1. OptionTurns(argv, f, n, settings)
  BY OptionDefined, Zenon
<1>2. Options(argv, settings) = f[n]
  BY Zenon DEF Options, OptionTurns
<1> HIDE DEF f
<1>3. 0 \in 0 .. n /\ \A i \in 1 .. n : i \in 0 .. n /\ i # 0
  OBVIOUS
<1> DEFINE F == [i \in 0 .. n |-> IF i = 0 THEN [i |-> 1, exit |-> "run", app |-> settings] ELSE OptionTurn(argv, f[i - 1])]
<1>4. f = F
  BY <1>1, Zenon DEF OptionTurns
<1>5. F[0] = [i |-> 1, exit |-> "run", app |-> settings]
  BY <1>3, Zenon
<1>6. \A i \in 1 .. n : F[i] = OptionTurn(argv, f[i - 1])
  BY <1>3, Zenon
<1> HIDE DEF F
<1> QED
  BY <1>2, <1>4, <1>5, <1>6, Zenon
-----------------------------------------------------------------------------
(* A word of a command line among the arguments. *)
Takes(word) == word[1] \in WithValue \cup PathOptions

LEMMA WordAt ==
  ASSUME NEW words \in CommandLines, NEW argv \in Seq(STRING), NEW begin,
         Begins(words, argv, begin), NEW k \in 1 .. Len(words)
  PROVE  /\ begin[k] \in 1 .. Len(argv) /\ argv[begin[k]] = words[k][1]
         /\ \/ /\ Len(words[k]) = 1 /\ words[k] = <<words[k][1]>> /\ begin[k + 1] = begin[k] + 1
               /\ Takes(words[k]) => k = Len(words) /\ begin[k] = Len(argv)
            \/ /\ Len(words[k]) = 2 /\ Takes(words[k]) /\ begin[k + 1] = begin[k] + 2
               /\ begin[k] + 1 \in 1 .. Len(argv) /\ argv[begin[k] + 1] = words[k][2]
<1> DEFINE w == words[k]
           b == begin[k]
           n == Len(words)
           z == Len(argv)
<1>1. words \in Seq(Seq(STRING)) /\ n \in Nat /\ z \in Nat /\ w \in Seq(STRING)
  <2>1. words \in Seq(Seq(STRING))
    BY StartAssumption, Zenon
  <2>2. n \in Nat /\ z \in Nat
    BY <2>1, LenProperties, Zenon
  <2>3. w \in Seq(STRING)
    BY <2>1, ElementOfSeq, Zenon
  <2> QED
    BY <2>1, <2>2, <2>3
<1>2. \/ Len(w) = 1 /\ (Takes(w) => k = n)
      \/ Len(w) = 2 /\ Takes(w)
  <2>1. k \in DOMAIN words
    BY <1>1
  <2> QED
    BY <2>1, StartAssumption, Zenon DEF Takes
<1>3. b \in Nat /\ begin[k + 1] = b + Len(w) /\ begin[n + 1] = z + 1
  <2>1. k \in 1 .. n + 1
    BY <1>1
  <2> QED
    BY <2>1 DEF Begins
<1>4. \A j \in 1 .. Len(w) : b + j - 1 \in 1 .. z /\ argv[b + j - 1] = w[j]
  BY Zenon DEF Begins
<1>5. CASE Len(w) = 1 /\ (Takes(w) => k = n)
  <2>1. 1 \in 1 .. Len(w) /\ b + 1 - 1 = b
    BY <1>3, <1>5
  <2>2. b \in 1 .. z /\ argv[b] = w[1]
    BY <1>4, <2>1, Zenon
  <2>3. w = <<w[1]>>
    <3> HIDE DEF w
    <3> QED
      BY <1>1, <1>5
  <2>4. k = n => b = z
    <3>1. k = n => begin[k + 1] = z + 1
      BY <1>3, Zenon
    <3> HIDE DEF b, z
    <3> QED
      BY <1>1, <1>3, <1>5, <3>1
  <2> QED
    BY <1>3, <1>5, <2>2, <2>3, <2>4
<1>6. CASE Len(w) = 2 /\ Takes(w)
  <2>1. 1 \in 1 .. Len(w) /\ b + 1 - 1 = b /\ 2 \in 1 .. Len(w) /\ b + 2 - 1 = b + 1
    BY <1>3, <1>6
  <2>2. b \in 1 .. z /\ argv[b] = w[1] /\ b + 1 \in 1 .. z /\ argv[b + 1] = w[2]
    BY <1>4, <2>1, Zenon
  <2> QED
    BY <1>3, <1>6, <2>2
<1> QED
  BY <1>2, <1>5, <1>6
-----------------------------------------------------------------------------
(* The last use of an option before word k. *)
Unused(U, k)     == \A j \in U : ~(j < k)
LastUse(U, k, i) == i \in U /\ i < k /\ \A j \in U : j < k => j <= i

LEMMA UseNext ==
  ASSUME NEW U \in SUBSET Nat, NEW k \in Nat
  PROVE  /\ k \in U => LastUse(U, k + 1, k)
         /\ k \notin U => /\ Unused(U, k) => Unused(U, k + 1)
                         /\ \A i : LastUse(U, k, i) => LastUse(U, k + 1, i)
<1>1. \A j \in U : j \in Nat
  BY Zenon
<1>2. \A j \in Nat : j < k + 1 => j <= k
  OBVIOUS
<1>3. \A j \in Nat : j # k => (j < k + 1 <=> j < k)
  OBVIOUS
<1>4. k \in U => LastUse(U, k + 1, k)
  BY <1>1, <1>2 DEF LastUse
<1>5. k \notin U => \A j \in U : j < k + 1 <=> j < k
  BY <1>1, <1>3, Zenon
<1>6. k \notin U /\ Unused(U, k) => Unused(U, k + 1)
  BY <1>5, Zenon DEF Unused
<1>7. \A i : k \notin U /\ LastUse(U, k, i) => LastUse(U, k + 1, i)
  BY <1>5, Zenon DEF LastUse
<1> QED
  BY <1>4, <1>6, <1>7, Zenon

LEMMA UsesAre ==
  ASSUME NEW words \in CommandLines, NEW O
  PROVE  /\ UsesOf(words, O) \in SUBSET Nat
         /\ \A i \in UsesOf(words, O) : i \in 1 .. Len(words)
         /\ Unused(UsesOf(words, O), 1)
<1>1. DOMAIN words = 1 .. Len(words)
  BY StartAssumption
<1> QED
  BY <1>1 DEF UsesOf, Unused

(* Behind the last word, the last use is the use of the last word. *)
LEMMA LastIsMax ==
  ASSUME NEW words \in CommandLines, NEW O
  PROVE  /\ Unused(UsesOf(words, O), Len(words) + 1) => UsesOf(words, O) = {}
         /\ \A i : LastUse(UsesOf(words, O), Len(words) + 1, i) =>
                     UsesOf(words, O) # {} /\ Max(UsesOf(words, O)) = i
<1> DEFINE U == UsesOf(words, O)
           n == Len(words)
<1>1. n \in Nat
  BY StartAssumption
<1>2. U \in SUBSET Nat /\ \A i \in U : i \in 1 .. n
  BY UsesAre, Zenon
<1> HIDE DEF U, n
<1>3. Unused(U, n + 1) => U = {}
  BY <1>1, <1>2 DEF Unused
<1>4. ASSUME NEW i, LastUse(U, n + 1, i) PROVE U # {} /\ Max(U) = i
  <2>1. i \in U /\ \A j \in U : i >= j
    BY <1>1, <1>2, <1>4 DEF LastUse
  <2>2. \A x \in U : (\A y \in U : x >= y) => x = i
    BY <1>2, <2>1
  <2> QED
    BY <2>1, <2>2, Zenon DEF Max
<1> QED
  BY <1>3, <1>4 DEF U, n
-----------------------------------------------------------------------------
(* The first pass, over words that are all understood and no value of      *)
(* which is misread: the path is the last one given.                       *)
LEMMA Names ==
  /\ \A a \in WithValue : a \notin PathOptions /\ a \notin {"-V", "--version"}
  /\ \A a \in PathOptions : a \notin WithValue /\ a \notin {"-V", "--version"}
  /\ \A a \in {"-v", "--verbose"} :
        a \notin WithValue /\ a \notin PathOptions /\ a \notin {"-V", "--version"}
BY DEF WithValue, PathOptions

PathAt(words, path, k) ==
  LET U == UsesOf(words, PathOptions)
  IN  \/ Unused(U, k) /\ path = DefaultPath
      \/ \E i : LastUse(U, k, i) /\ path = words[i][2]

\* Word k is next, or its value, which the first pass takes for a word.
ScanAt(words, begin, i, k) ==
  \/ i = begin[k]
  \/ /\ k \in 1 .. Len(words) /\ words[k][1] \in WithValue /\ Len(words[k]) = 2
     /\ i = begin[k] + 1

Scanned(words, begin, at) ==
  /\ at = [i |-> at.i, version |-> FALSE, path |-> at.path] /\ at.i \in Nat
  /\ \E k \in 1 .. Len(words) + 1 : PathAt(words, at.path, k) /\ ScanAt(words, begin, at.i, k)

LEMMA ScanStep ==
  ASSUME NEW words \in CommandLines, NEW argv \in Seq(STRING), NEW begin,
         Begins(words, argv, begin), Misread(words) = {},
         \A k \in DOMAIN words : Understood(words, k),
         NEW at, Scanned(words, begin, at)
  PROVE  /\ Scanned(words, begin, ScanTurn(argv, at)) /\ at.i \in Nat
         /\ IF at.i > Len(argv) THEN ScanTurn(argv, at) = at ELSE ScanTurn(argv, at).i > at.i
<1> DEFINE n == Len(words)
           z == Len(argv)
           U == UsesOf(words, PathOptions)
           next == ScanTurn(argv, at)
           i    == at.i
           path == at.path
<1>1. n \in Nat /\ z \in Nat /\ DOMAIN words = 1 .. n
  BY StartAssumption
<1>2. PICK k \in 1 .. n + 1 : PathAt(words, path, k) /\ ScanAt(words, begin, i, k)
  BY Zenon DEF Scanned
<1>3. /\ at = [i |-> i, version |-> FALSE, path |-> path] /\ i \in Nat
      /\ at.version = FALSE
  <2>1. at = [i |-> i, version |-> FALSE, path |-> path] /\ i \in Nat
    BY Zenon DEF Scanned
  <2>2. [i |-> i, version |-> FALSE, path |-> path].version = FALSE
    OBVIOUS
  <2> QED
    BY <2>1, <2>2, Zenon
<1> HIDE DEF i, path
<1>4. CASE i > z
  BY <1>3, <1>4 DEF ScanTurn, i
<1>5. CASE ~(i > z)
  <2> DEFINE a == argv[i]
             w == words[k]
  <2>1. begin[n + 1] = z + 1
    BY DEF Begins
  <2>2. k \in 1 .. n
    <3> SUFFICES ASSUME k = n + 1 PROVE FALSE
      BY <1>1
    <3>1. k \notin 1 .. n
      BY <1>1
    <3>2. i = z + 1
      BY <1>2, <2>1, <3>1, Zenon DEF ScanAt
    <3> QED
      BY <1>1, <1>5, <3>2
  <2>3. /\ begin[k] \in 1 .. z /\ argv[begin[k]] = w[1]
        /\ \/ /\ Len(w) = 1 /\ w = <<w[1]>> /\ begin[k + 1] = begin[k] + 1
              /\ Takes(w) => k = n /\ begin[k] = z
           \/ /\ Len(w) = 2 /\ Takes(w) /\ begin[k + 1] = begin[k] + 2
              /\ begin[k] + 1 \in 1 .. z /\ argv[begin[k] + 1] = w[2]
    BY <2>2, WordAt
  <2>4. Understood(words, k) /\ k + 1 \in 1 .. n + 1 /\ k \in Nat
    BY <1>1, <2>2
  <2>5. /\ U \in SUBSET Nat
        /\ k \in U <=> w[1] \in PathOptions /\ Len(w) = 2
    BY <1>1, <2>2, UsesAre DEF UsesOf
  <2>6. k \notin U => PathAt(words, path, k + 1)
    <3>1. k \notin U => (Unused(U, k) => Unused(U, k + 1)) /\ \A j : LastUse(U, k, j) => LastUse(U, k + 1, j)
      BY <2>4, <2>5, UseNext
    <3> QED
      BY <1>2, <3>1, Zenon DEF PathAt
  <2>7. next = IF a \in {"-V", "--version"} THEN [at EXCEPT !.version = TRUE]
               ELSE IF a \in PathOptions /\ i < z THEN [at EXCEPT !.i = @ + 2, !.path = argv[i + 1]]
               ELSE [at EXCEPT !.i = @ + 1]
    BY <1>3, <1>5, Zenon DEF ScanTurn, HasValue, NeedValue, i
  <2>8. ASSUME NEW j \in Nat, NEW p, j > i, next = [i |-> j, version |-> FALSE, path |-> p],
               NEW l \in 1 .. n + 1, PathAt(words, p, l), ScanAt(words, begin, j, l)
        PROVE  Scanned(words, begin, next) /\ next.i > at.i
    <3>1. next.i = j /\ next.path = p
      BY <2>8
    <3>2. next.i > at.i
      BY <2>8, <3>1 DEF i
    <3> HIDE DEF next, i
    <3>3. Scanned(words, begin, next)
      BY <2>8, <3>1, Zenon DEF Scanned
    <3> QED
      BY <3>2, <3>3
  <2>9. a \notin PathOptions /\ a \notin {"-V", "--version"} => next = [i |-> i + 1, version |-> FALSE, path |-> path]
    BY <1>3, <2>7
  <2>10. CASE i # begin[k]
    <3>1. w[1] \in WithValue /\ Len(w) = 2 /\ i = begin[k] + 1
      BY <1>2, <2>10 DEF ScanAt
    <3>2. a = w[2] /\ begin[k + 1] = i + 1
      BY <2>3, <3>1
    <3>3. a \notin PathOptions /\ a \notin {"-V", "--version"}
      BY <1>1, <2>2, <3>1, <3>2 DEF Misread
    <3>4. k \notin U
      BY <2>5, <3>1, Names
    <3>5. ScanAt(words, begin, i + 1, k + 1)
      BY <3>2, Zenon DEF ScanAt
    <3>6. i + 1 \in Nat /\ i + 1 > i
      BY <1>3
    <3> HIDE DEF next, a
    <3>7. Scanned(words, begin, next) /\ next.i > at.i
      BY <2>4, <2>6, <2>8, <2>9, <3>3, <3>4, <3>5, <3>6
    <3> QED
      BY <1>1, <1>3, <1>5, <3>7 DEF next, i
  <2>11. CASE i = begin[k] /\ Len(w) = 2 /\ w[1] \in PathOptions
    <3>1. a = w[1] /\ argv[i + 1] = w[2] /\ i < z /\ begin[k + 1] = i + 2
      BY <1>1, <2>3, <2>11
    <3>2. next = [i |-> i + 2, version |-> FALSE, path |-> w[2]]
      BY <1>3, <2>7, <2>11, <3>1, Names
    <3>3. PathAt(words, w[2], k + 1)
      <4>1. LastUse(U, k + 1, k)
        BY <2>4, <2>5, <2>11, UseNext
      <4> QED
        BY <4>1, Zenon DEF PathAt
    <3>4. ScanAt(words, begin, i + 2, k + 1)
      BY <3>1, Zenon DEF ScanAt
    <3>5. i + 2 \in Nat /\ i + 2 > i
      BY <1>3
    <3> HIDE DEF next, a, w
    <3>6. Scanned(words, begin, next) /\ next.i > at.i
      BY <2>4, <2>8, <3>2, <3>3, <3>4, <3>5
    <3> QED
      BY <1>1, <1>3, <1>5, <3>6 DEF next, i
  <2>12. CASE i = begin[k] /\ Len(w) = 2 /\ w[1] \notin PathOptions
    <3>1. a = w[1] /\ w[1] \in WithValue
      BY <2>3, <2>12 DEF Takes
    <3>2. ScanAt(words, begin, i + 1, k)
      BY <2>2, <2>12, <3>1 DEF ScanAt
    <3>3. i + 1 \in Nat /\ i + 1 > i /\ k \in 1 .. n + 1
      BY <1>1, <1>3
    <3>4. a \notin PathOptions /\ a \notin {"-V", "--version"}
      BY <3>1, Names
    <3> HIDE DEF next, a
    <3>5. Scanned(words, begin, next) /\ next.i > at.i
      BY <1>2, <2>8, <2>9, <3>2, <3>3, <3>4
    <3> QED
      BY <1>1, <1>3, <1>5, <3>5 DEF next, i
  <2>13. CASE i = begin[k] /\ Len(w) # 2
    <3>1. /\ Len(w) = 1 /\ w = <<w[1]>> /\ begin[k + 1] = i + 1
          /\ Takes(w) => i = z
      BY <2>3, <2>13
    <3>2. a = w[1]
      BY <2>3, <2>13
    <3>3. \/ a \in {"-v", "--verbose"}
          \/ a \in PathOptions
      <4>1. w \in {<<"-v">>, <<"--verbose">>, <<"-c">>, <<"--config">>}
        BY <2>4, <2>13 DEF Understood
      <4> QED
        BY <3>2, <4>1 DEF PathOptions
    <3>4. next = [i |-> i + 1, version |-> FALSE, path |-> path]
      <4>1. CASE a \in {"-v", "--verbose"}
        BY <2>9, <4>1, Names
      <4>2. CASE a \in PathOptions
        <5>1. ~(i < z)
          BY <1>1, <3>1, <3>2, <4>2 DEF Takes
        <5>2. a \notin {"-V", "--version"}
          BY <4>2, Names
        <5> HIDE DEF a
        <5> QED
          BY <1>3, <2>7, <5>1, <5>2
      <4> QED
        BY <3>3, <4>1, <4>2
    <3>5. k \notin U
      BY <2>5, <2>13
    <3>6. ScanAt(words, begin, i + 1, k + 1)
      BY <3>1, Zenon DEF ScanAt
    <3>7. i + 1 \in Nat /\ i + 1 > i
      BY <1>3
    <3> HIDE DEF next, a
    <3>8. Scanned(words, begin, next) /\ next.i > at.i
      BY <2>4, <2>6, <2>8, <3>4, <3>5, <3>6, <3>7
    <3> QED
      BY <1>1, <1>3, <1>5, <3>8 DEF next, i
  <2> QED
    BY <2>10, <2>11, <2>12, <2>13
<1> QED
  BY <1>4, <1>5
(* What the first pass finds. *)
LEMMA PrescanFinds ==
  ASSUME NEW words \in CommandLines, NEW argv \in Seq(STRING), NEW begin,
         Begins(words, argv, begin), Misread(words) = {},
         \A k \in DOMAIN words : Understood(words, k)
  PROVE  Prescan(argv).version = FALSE /\ PathAt(words, Prescan(argv).path, Len(words) + 1)
<1> DEFINE n == Len(words)
           z == Len(argv)
<1>1. n \in Nat /\ z \in Nat
  BY StartAssumption
<1>2. PICK f : /\ Prescan(argv) = f[z]
               /\ f[0] = [i |-> 1, version |-> FALSE, path |-> DefaultPath]
               /\ \A i \in 1 .. z : f[i] = ScanTurn(argv, f[i - 1])
  BY <1>1, ScanUnfolds, Zenon
<1> DEFINE Past(m) == Scanned(words, begin, f[m]) /\ (f[m].i > m \/ f[m].i > z)
           P == {m \in 0 .. z : Past(m)}
<1>3. Past(0)
  <2>1. f[0].i = 1 /\ f[0].path = DefaultPath /\ f[0] = [i |-> f[0].i, version |-> FALSE, path |-> f[0].path]
    BY <1>2
  <2>2. 1 \in 1 .. n + 1 /\ 1 \in Nat /\ 1 > 0
    BY <1>1
  <2>3. begin[1] = 1
    BY DEF Begins
  <2>4. PathAt(words, DefaultPath, 1)
    BY UsesAre, Zenon DEF PathAt
  <2>5. Scanned(words, begin, f[0])
    BY <2>1, <2>2, <2>3, <2>4, Zenon DEF Scanned, ScanAt
  <2> QED
    BY <2>1, <2>2, <2>5, Zenon
<1>4. ASSUME NEW m \in 1 .. z, Past(m - 1) PROVE Past(m)
  <2> DEFINE at == f[m - 1]
             next == f[m]
  <2>1. next = ScanTurn(argv, at)
    BY <1>2, Zenon
  <2>2. Scanned(words, begin, at) /\ (at.i > m - 1 \/ at.i > z)
    BY <1>4, Zenon
  <2> HIDE DEF at, next
  <2>3. /\ Scanned(words, begin, next) /\ at.i \in Nat
        /\ IF at.i > z THEN next = at ELSE next.i > at.i
    BY <2>1, <2>2, ScanStep
  <2>4. CASE at.i > z
    BY <2>3, <2>4 DEF next
  <2>5. CASE ~(at.i > z)
    <3>1. next.i > at.i /\ at.i \in Nat /\ at.i > m - 1
      BY <2>2, <2>3, <2>5
    <3>2. next.i \in Nat
      BY <2>3, Zenon DEF Scanned
    <3>3. next.i > m
      BY <3>1, <3>2
    <3> QED
      BY <2>3, <3>3 DEF next
  <2> QED
    BY <2>4, <2>5
<1> HIDE DEF Past
<1>5. Past(z)
  <2>1. 0 \in P
    BY <1>1, <1>3
  <2>2. ASSUME NEW m \in 1 .. z, m - 1 \in P PROVE m \in P
    BY <1>4, <2>2
  <2>3. \A m \in 0 .. z : m \in P
    <3> HIDE DEF P
    <3> QED
      BY <1>1, <2>1, <2>2, Counting
  <2> QED
    BY <1>1, <2>3
<1> DEFINE at == f[z]
<1>6. Scanned(words, begin, at) /\ at.i > z
  BY <1>1, <1>5 DEF Past
<1> HIDE DEF at
<1>7. /\ at.i \in Nat /\ at = [i |-> at.i, version |-> FALSE, path |-> at.path]
  BY <1>6, Zenon DEF Scanned
<1>8. at.version = FALSE
  <2>1. [i |-> at.i, version |-> FALSE, path |-> at.path].version = FALSE
    OBVIOUS
  <2> QED
    BY <1>7, <2>1, Zenon
<1>9. PICK k \in 1 .. n + 1 : PathAt(words, at.path, k) /\ ScanAt(words, begin, at.i, k)
  BY <1>6, Zenon DEF Scanned
<1>10. k = n + 1
  <2> SUFFICES ASSUME k # n + 1 PROVE FALSE
    OBVIOUS
  <2>1. k \in 1 .. n
    BY <1>1
  <2>2. begin[k] \in 1 .. z /\ (Len(words[k]) = 2 => begin[k] + 1 \in 1 .. z)
    BY <2>1, WordAt
  <2> QED
    BY <1>1, <1>6, <1>9, <2>2 DEF ScanAt
<1> QED
  BY <1>2, <1>8, <1>9, <1>10, Zenon DEF at
-----------------------------------------------------------------------------
(* What an option with a value sets, and to what. *)
Fields == {"device", "width", "height", "fps", "port", "bindAddr", "verbose", "logDir", "logFile"}
AllSets == [device |-> {"-d", "--device"}, width |-> {"-W", "--width"},
            height |-> {"-H", "--height"}, fps |-> {"-f", "--fps"},
            port |-> {"-p", "--port"}, bindAddr |-> {"-b", "--bind"},
            logDir |-> {"--log-dir"}, logFile |-> {"--log-file"}]

IsApp(c) == c = [x \in Fields |-> c[x]]

Taken(f, value) == CASE f \in {"device", "bindAddr"} -> <<value>>
                     [] f \in {"width", "height", "fps"} -> Atoi(value)
                     [] f = "port" -> Atoi(value) % 65536
                     [] f \in {"logDir", "logFile"} -> value

LEMMA AssignSets ==
  ASSUME NEW c, IsApp(c), NEW a \in WithValue, NEW value
  PROVE  /\ IsApp(Assign(c, a, value))
         /\ \A f \in DOMAIN AllSets :
              Assign(c, a, value)[f] = IF a \in AllSets[f] THEN Taken(f, value) ELSE c[f]
<1> DEFINE With(g) == [x \in Fields |-> IF x = g THEN Taken(g, value) ELSE c[x]]
           d == Assign(c, a, value)
           Sets1(g) == /\ g \in DOMAIN AllSets /\ d = With(g)
                       /\ \A f \in DOMAIN AllSets : a \in AllSets[f] <=> f = g
<1>1. PICK g : Sets1(g)
  <2>1. CASE a \in {"-d", "--device"}
    <3>1. d = With("device")
      BY <2>1 DEF Assign, Taken, Uint16, IsApp, Fields
    <3>2. "device" \in DOMAIN AllSets /\ \A f \in DOMAIN AllSets : a \in AllSets[f] <=> f = "device"
      BY <2>1 DEF AllSets
    <3> HIDE DEF d, With
    <3>3. Sets1("device")
      BY <3>1, <3>2
    <3> HIDE DEF Sets1
    <3> QED
      BY <3>3, Zenon
  <2>2. CASE a \in {"-W", "--width"}
    <3>1. d = With("width")
      BY <2>2 DEF Assign, Taken, Uint16, IsApp, Fields
    <3>2. "width" \in DOMAIN AllSets /\ \A f \in DOMAIN AllSets : a \in AllSets[f] <=> f = "width"
      BY <2>2 DEF AllSets
    <3> HIDE DEF d, With
    <3>3. Sets1("width")
      BY <3>1, <3>2
    <3> HIDE DEF Sets1
    <3> QED
      BY <3>3, Zenon
  <2>3. CASE a \in {"-H", "--height"}
    <3>1. d = With("height")
      BY <2>3 DEF Assign, Taken, Uint16, IsApp, Fields
    <3>2. "height" \in DOMAIN AllSets /\ \A f \in DOMAIN AllSets : a \in AllSets[f] <=> f = "height"
      BY <2>3 DEF AllSets
    <3> HIDE DEF d, With
    <3>3. Sets1("height")
      BY <3>1, <3>2
    <3> HIDE DEF Sets1
    <3> QED
      BY <3>3, Zenon
  <2>4. CASE a \in {"-f", "--fps"}
    <3>1. d = With("fps")
      BY <2>4 DEF Assign, Taken, Uint16, IsApp, Fields
    <3>2. "fps" \in DOMAIN AllSets /\ \A f \in DOMAIN AllSets : a \in AllSets[f] <=> f = "fps"
      BY <2>4 DEF AllSets
    <3> HIDE DEF d, With
    <3>3. Sets1("fps")
      BY <3>1, <3>2
    <3> HIDE DEF Sets1
    <3> QED
      BY <3>3, Zenon
  <2>5. CASE a \in {"-p", "--port"}
    <3>1. d = With("port")
      BY <2>5 DEF Assign, Taken, Uint16, IsApp, Fields
    <3>2. "port" \in DOMAIN AllSets /\ \A f \in DOMAIN AllSets : a \in AllSets[f] <=> f = "port"
      BY <2>5 DEF AllSets
    <3> HIDE DEF d, With
    <3>3. Sets1("port")
      BY <3>1, <3>2
    <3> HIDE DEF Sets1
    <3> QED
      BY <3>3, Zenon
  <2>6. CASE a \in {"-b", "--bind"}
    <3>1. d = With("bindAddr")
      BY <2>6 DEF Assign, Taken, Uint16, IsApp, Fields
    <3>2. "bindAddr" \in DOMAIN AllSets /\ \A f \in DOMAIN AllSets : a \in AllSets[f] <=> f = "bindAddr"
      BY <2>6 DEF AllSets
    <3> HIDE DEF d, With
    <3>3. Sets1("bindAddr")
      BY <3>1, <3>2
    <3> HIDE DEF Sets1
    <3> QED
      BY <3>3, Zenon
  <2>7. CASE a = "--log-dir"
    <3>1. d = With("logDir")
      BY <2>7 DEF Assign, Taken, Uint16, IsApp, Fields
    <3>2. "logDir" \in DOMAIN AllSets /\ \A f \in DOMAIN AllSets : a \in AllSets[f] <=> f = "logDir"
      BY <2>7 DEF AllSets
    <3> HIDE DEF d, With
    <3>3. Sets1("logDir")
      BY <3>1, <3>2
    <3> HIDE DEF Sets1
    <3> QED
      BY <3>3, Zenon
  <2>8. CASE a = "--log-file"
    <3>1. d = With("logFile")
      BY <2>8 DEF Assign, Taken, Uint16, IsApp, Fields
    <3>2. "logFile" \in DOMAIN AllSets /\ \A f \in DOMAIN AllSets : a \in AllSets[f] <=> f = "logFile"
      BY <2>8 DEF AllSets
    <3> HIDE DEF d, With
    <3>3. Sets1("logFile")
      BY <3>1, <3>2
    <3> HIDE DEF Sets1
    <3> QED
      BY <3>3, Zenon
  <2> QED
    BY <2>1, <2>2, <2>3, <2>4, <2>5, <2>6, <2>7, <2>8 DEF WithValue
<1>2. DOMAIN AllSets \subseteq Fields
  BY DEF AllSets, Fields
<1> HIDE DEF d
<1> DEFINE t == Taken(g, value)
           e == [x \in Fields |-> IF x = g THEN t ELSE c[x]]
<1>3. d = e /\ g \in Fields
  BY <1>1, <1>2, Zenon
<1> HIDE DEF t
<1>4. IsApp(e) /\ \A f \in Fields : e[f] = IF f = g THEN t ELSE c[f]
  BY <1>3 DEF IsApp
<1> HIDE DEF e
<1>5. IsApp(d)
  BY <1>3, <1>4, Zenon
<1>6. ASSUME NEW f \in DOMAIN AllSets
      PROVE  d[f] = IF a \in AllSets[f] THEN Taken(f, value) ELSE c[f]
  <2>1. d[f] = IF f = g THEN t ELSE c[f]
    BY <1>2, <1>3, <1>4, Zenon
  <2>2. a \in AllSets[f] <=> f = g
    BY <1>1, Zenon
  <2> QED
    BY <2>1, <2>2 DEF t
<1> QED
  BY <1>5, <1>6, Zenon DEF d
-----------------------------------------------------------------------------
(* The second pass: what is set before word k is what the last use of each *)
(* option before it says.                                                  *)
FieldAt(words, app, settings, f, k) ==
  LET U == UsesOf(words, AllSets[f])
  IN  \/ Unused(U, k) /\ app[f] = settings[f]
      \/ \E i : LastUse(U, k, i) /\ app[f] = Taken(f, words[i][2])

AppAt(words, app, settings, k) ==
  IsApp(app) /\ \A f \in DOMAIN AllSets : FieldAt(words, app, settings, f, k)

LEMMA FieldNext ==
  ASSUME NEW words \in CommandLines, NEW k \in 1 .. Len(words), NEW app, NEW settings, NEW next,
         NEW f, FieldAt(words, app, settings, f, k),
         next[f] = IF k \in UsesOf(words, AllSets[f]) THEN Taken(f, words[k][2]) ELSE app[f]
  PROVE  FieldAt(words, next, settings, f, k + 1)
<1> DEFINE U == UsesOf(words, AllSets[f])
<1>1. U \in SUBSET Nat
  BY UsesAre, Zenon
<1>2. k \in Nat
  BY StartAssumption
<1>3. CASE k \in U
  <2>1. LastUse(U, k + 1, k)
    <3> HIDE DEF U
    <3> QED
      BY <1>1, <1>2, <1>3, UseNext, Zenon
  <2>2. next[f] = Taken(f, words[k][2])
    BY <1>3, Zenon
  <2> QED
    BY <2>1, <2>2, Zenon DEF FieldAt
<1>4. CASE k \notin U
  <2>1. (Unused(U, k) => Unused(U, k + 1)) /\ \A i : LastUse(U, k, i) => LastUse(U, k + 1, i)
    <3> HIDE DEF U
    <3> QED
      BY <1>1, <1>2, <1>4, UseNext, Zenon
  <2>2. next[f] = app[f]
    BY <1>4, Zenon
  <2> QED
    BY <2>1, <2>2, Zenon DEF FieldAt
<1> QED
  BY <1>3, <1>4

(* A word that sets nothing, or one option. *)
LEMMA AppNext ==
  ASSUME NEW words \in CommandLines, NEW k \in 1 .. Len(words), NEW app, NEW settings, NEW next,
         AppAt(words, app, settings, k), IsApp(next),
         \A f \in DOMAIN AllSets :
           next[f] = IF k \in UsesOf(words, AllSets[f]) THEN Taken(f, words[k][2]) ELSE app[f]
  PROVE  AppAt(words, next, settings, k + 1)
<1>1. ASSUME NEW f \in DOMAIN AllSets PROVE FieldAt(words, next, settings, f, k + 1)
  <2>1. FieldAt(words, app, settings, f, k)
    BY Zenon DEF AppAt
  <2>2. next[f] = IF k \in UsesOf(words, AllSets[f]) THEN Taken(f, words[k][2]) ELSE app[f]
    OBVIOUS
  <2> QED
    BY <2>1, <2>2, FieldNext
<1> QED
  BY <1>1, Zenon DEF AppAt

\* After so many turns: the pass is over, or word k is next; a -c at the end
\* takes the pass one further.
Passed(words, argv, begin, settings, at) ==
  \/ at.exit # "run" /\ \E j \in DOMAIN words : ~Understood(words, j)
  \/ /\ at = [i |-> at.i, exit |-> "run", app |-> at.app] /\ at.exit = "run" /\ at.i \in Nat
     /\ \E k \in 1 .. Len(words) + 1 :
          /\ at.i = begin[k] \/ (k = Len(words) + 1 /\ at.i > Len(argv))
          /\ \A j \in DOMAIN words : j < k => Understood(words, j)
          /\ AppAt(words, at.app, settings, k)

LEMMA PassOver ==
  ASSUME NEW argv, NEW at, at.exit # "run" \/ at.i > Len(argv)
  PROVE  OptionTurn(argv, at) = at
BY DEF OptionTurn

LEMMA OptionStep ==
  ASSUME NEW words \in CommandLines, NEW argv \in Seq(STRING), NEW begin, NEW settings,
         Begins(words, argv, begin), NEW at, Passed(words, argv, begin, settings, at),
         at.exit = "run", ~(at.i > Len(argv))
  PROVE  /\ Passed(words, argv, begin, settings, OptionTurn(argv, at)) /\ at.i \in Nat
         /\ OptionTurn(argv, at).exit = "run" => OptionTurn(argv, at).i > at.i
<1> DEFINE n == Len(words)
           z == Len(argv)
           next == OptionTurn(argv, at)
           i    == at.i
           app  == at.app
<1>1. n \in Nat /\ z \in Nat /\ DOMAIN words = 1 .. n
  BY StartAssumption
<1>2. /\ at = [i |-> i, exit |-> "run", app |-> app] /\ i \in Nat
      /\ \E k \in 1 .. n + 1 :
          /\ i = begin[k] \/ (k = n + 1 /\ i > z)
          /\ \A j \in DOMAIN words : j < k => Understood(words, j)
          /\ AppAt(words, app, settings, k)
  BY Zenon DEF Passed
<1> DEFINE a == argv[i]
           b == argv[i + 1]
<1>3. /\ a \in PathOptions => next = [at EXCEPT !.i = @ + 2]
      /\ a \in WithValue /\ i < z => next = [at EXCEPT !.i = @ + 2, !.app = Assign(@, a, b)]
      /\ a \in WithValue /\ ~(i < z) => next = [at EXCEPT !.exit = "2"]
      /\ a \in {"-v", "--verbose"} => next = [at EXCEPT !.i = @ + 1, !.app.verbose = TRUE]
      /\ \/ a \in PathOptions \/ a \in WithValue \/ a \in {"-v", "--verbose"}
         \/ next \in {[at EXCEPT !.exit = "0"], [at EXCEPT !.exit = "2"]}
  <2> DEFINE A == [at EXCEPT !.i = @ + 2]
             B == [at EXCEPT !.i = @ + 2, !.app = Assign(@, a, b)]
             C == [at EXCEPT !.exit = "2"]
             D == [at EXCEPT !.i = @ + 1, !.app.verbose = TRUE]
             E == [at EXCEPT !.exit = "0"]
  <2>1. next = CASE a \in PathOptions -> A
                 [] a \in WithValue -> IF i < z THEN B ELSE C
                 [] a \in {"-v", "--verbose"} -> D
                 [] a \in {"-V", "--version", "-h", "--help"} -> E
                 [] OTHER -> C
    BY Zenon DEF OptionTurn, HasValue, NeedValue
  <2> HIDE DEF A, B, C, D, E, next, a, i
  <2>2. a \in PathOptions => next = A
    BY <2>1 DEF WithValue, PathOptions
  <2> DEFINE ifValue == IF i < z THEN B ELSE C
  <2>3. a \in WithValue => next = ifValue
    BY <2>1 DEF WithValue, PathOptions
  <2>4. (i < z => ifValue = B) /\ (~(i < z) => ifValue = C)
    OBVIOUS
  <2>5. a \in {"-v", "--verbose"} => next = D
    BY <2>1 DEF WithValue, PathOptions
  <2>6. a \in PathOptions \/ a \in WithValue \/ a \in {"-v", "--verbose"} \/ next \in {E, C}
    BY <2>1
  <2> HIDE DEF ifValue
  <2> QED
    BY <2>2, <2>3, <2>4, <2>5, <2>6, Zenon DEF A, B, C, D, E
<1>4. ~(i > z)
  OBVIOUS
<1> HIDE DEF i, app, a, b
<1>5. PICK k \in 1 .. n + 1 :
        /\ i = begin[k] \/ (k = n + 1 /\ i > z)
        /\ \A j \in DOMAIN words : j < k => Understood(words, j)
        /\ AppAt(words, app, settings, k)
  BY <1>2, Zenon
<1>6. k \in 1 .. n /\ i = begin[k]
  <2>1. i = begin[k]
    BY <1>4, <1>5, Zenon
  <2>2. begin[n + 1] = z + 1
    BY DEF Begins
  <2>3. k # n + 1
    BY <1>1, <1>2, <1>4, <2>1, <2>2
  <2> QED
    BY <1>1, <2>1, <2>3
<1> DEFINE w == words[k]
<1>7. /\ i \in 1 .. z /\ a = w[1]
      /\ \/ /\ Len(w) = 1 /\ w = <<w[1]>> /\ begin[k + 1] = i + 1
            /\ Takes(w) => k = n /\ i = z
         \/ /\ Len(w) = 2 /\ Takes(w) /\ begin[k + 1] = i + 2
            /\ i + 1 \in 1 .. z /\ b = w[2]
  BY <1>6, WordAt DEF a, b
<1>8. k + 1 \in 1 .. n + 1
  BY <1>1, <1>6
\* The pass goes on: word k was understood.
<1>9. ASSUME NEW m \in Nat, NEW c, m > i, next = [i |-> m, exit |-> "run", app |-> c],
             Understood(words, k), AppAt(words, c, settings, k + 1),
             m = begin[k + 1] \/ (k + 1 = n + 1 /\ m > z)
      PROVE  Passed(words, argv, begin, settings, next) /\ next.i > i
  <2>1. next.i = m /\ next.exit = "run" /\ next.app = c
    BY <1>9
  <2>2. \A j \in DOMAIN words : j < k + 1 => Understood(words, j)
    <3>1. \A j \in DOMAIN words : j < k + 1 => j < k \/ j = k
      BY <1>1, <1>6
    <3> QED
      BY <1>5, <1>9, <3>1, Zenon
  <2> HIDE DEF next
  <2>3. Passed(words, argv, begin, settings, next)
    BY <1>8, <1>9, <2>1, <2>2, Zenon DEF Passed
  <2> QED
    BY <1>9, <2>1, <2>3
<1>10. ASSUME next.exit # "run", ~Understood(words, k)
       PROVE  Passed(words, argv, begin, settings, next) /\ (next.exit = "run" => next.i > i)
  BY <1>1, <1>6, <1>10, Zenon DEF Passed
\* A word that sets nothing.
<1>11. ASSUME \A f \in DOMAIN AllSets : k \notin UsesOf(words, AllSets[f]),
              NEW c, IsApp(c), \A f \in DOMAIN AllSets : c[f] = app[f]
       PROVE  AppAt(words, c, settings, k + 1)
  <2>1. \A f \in DOMAIN AllSets :
          c[f] = IF k \in UsesOf(words, AllSets[f]) THEN Taken(f, words[k][2]) ELSE app[f]
    BY <1>11, Zenon
  <2> QED
    BY <1>5, <1>6, <1>11, <2>1, AppNext
<1>12. \A f \in DOMAIN AllSets : k \in UsesOf(words, AllSets[f]) <=> a \in AllSets[f] /\ Len(w) = 2
  BY <1>1, <1>6, <1>7 DEF UsesOf
<1>13. \A f \in DOMAIN AllSets : AllSets[f] \subseteq WithValue
  BY DEF AllSets, WithValue
<1>14. IsApp(app)
  BY <1>5, Zenon DEF AppAt
<1>15. CASE a \in PathOptions
  <2>1. next = [i |-> i + 2, exit |-> "run", app |-> app]
    BY <1>2, <1>3, <1>15
  <2>2. AppAt(words, app, settings, k + 1)
    <3>1. \A f \in DOMAIN AllSets : k \notin UsesOf(words, AllSets[f])
      BY <1>12, <1>13, <1>15, Names, Zenon
    <3> QED
      BY <1>11, <1>14, <3>1
  <2>3. Understood(words, k) /\ (i + 2 = begin[k + 1] \/ (k + 1 = n + 1 /\ i + 2 > z))
    <3>1. Takes(w)
      BY <1>7, <1>15 DEF Takes
    <3>2. CASE Len(w) = 2
      BY <1>7, <1>15, <3>2 DEF Understood
    <3>3. CASE Len(w) # 2
      <4>1. w \in {<<"-c">>, <<"--config">>} /\ k = n /\ i = z
        BY <1>7, <1>15, <3>1, <3>3 DEF PathOptions
      <4> QED
        BY <1>1, <4>1 DEF Understood
    <3> QED
      BY <3>2, <3>3
  <2>4. i + 2 \in Nat /\ i + 2 > i
    BY <1>2
  <2> HIDE DEF next
  <2>5. Passed(words, argv, begin, settings, next) /\ next.i > i
    BY <1>9, <2>1, <2>2, <2>3, <2>4
  <2> QED
    BY <1>2, <2>5 DEF next, i
<1>16. CASE a \in WithValue /\ Len(w) = 2
  <2> DEFINE c == Assign(app, a, b)
  <2>1. a \notin PathOptions /\ i < z
    BY <1>1, <1>7, <1>16, Names
  <2>2. next = [i |-> i + 2, exit |-> "run", app |-> c]
    <3> HIDE DEF c
    <3>1. next = [at EXCEPT !.i = @ + 2, !.app = Assign(@, a, b)]
      BY <1>3, <1>16, <2>1
    <3> HIDE DEF next
    <3> QED
      BY <1>2, <3>1 DEF c
  <2>3. IsApp(c) /\ \A f \in DOMAIN AllSets :
                       c[f] = IF a \in AllSets[f] THEN Taken(f, b) ELSE app[f]
    BY <1>14, <1>16, AssignSets
  <2> HIDE DEF c
  <2>4. \A f \in DOMAIN AllSets :
          c[f] = IF k \in UsesOf(words, AllSets[f]) THEN Taken(f, words[k][2]) ELSE app[f]
    <3>1. b = words[k][2] /\ \A f \in DOMAIN AllSets : k \in UsesOf(words, AllSets[f]) <=> a \in AllSets[f]
      BY <1>7, <1>12, <1>16
    <3> QED
      BY <2>3, <3>1
  <2>5. AppAt(words, c, settings, k + 1)
    BY <1>5, <1>6, <2>3, <2>4, AppNext
  <2>6. Understood(words, k) /\ i + 2 = begin[k + 1]
    BY <1>7, <1>16 DEF Understood
  <2>7. i + 2 \in Nat /\ i + 2 > i
    BY <1>2
  <2> HIDE DEF next
  <2>8. Passed(words, argv, begin, settings, next) /\ next.i > i
    BY <1>9, <2>2, <2>5, <2>6, <2>7
  <2> QED
    BY <1>2, <2>8 DEF next, i
<1>17. CASE a \in WithValue /\ Len(w) # 2
  <2>1. a \notin PathOptions /\ a \notin {"-v", "--verbose"}
    BY <1>17, Names
  <2>2. Len(w) = 1 /\ w = <<a>> /\ i = z
    BY <1>7, <1>17 DEF Takes
  <2>3. ~(i < z)
    BY <1>1, <2>2
  <2>4. next = [at EXCEPT !.exit = "2"]
    BY <1>3, <1>17, <2>1, <2>3
  <2>5. next.exit # "run"
    BY <1>2, <2>4
  <2>6. ~Understood(words, k)
    BY <2>1, <2>2 DEF Understood, PathOptions
  <2> HIDE DEF next
  <2> QED
    BY <1>2, <1>10, <2>5, <2>6 DEF next, i
<1>18. CASE a \notin PathOptions /\ a \notin WithValue
  <2>1. Len(w) = 1 /\ w = <<a>> /\ begin[k + 1] = i + 1
    BY <1>7, <1>18 DEF Takes
  <2>2. CASE a \in {"-v", "--verbose"}
    <3> DEFINE c == [app EXCEPT !.verbose = TRUE]
    <3>1. next = [i |-> i + 1, exit |-> "run", app |-> c]
      BY <1>2, <1>3, <1>18, <2>2
    <3>2. IsApp(c) /\ \A f \in DOMAIN AllSets : c[f] = app[f]
      BY <1>14 DEF IsApp, Fields, AllSets
    <3> HIDE DEF c
    <3>3. \A f \in DOMAIN AllSets : k \notin UsesOf(words, AllSets[f])
      BY <1>12, <1>13, <1>18, Zenon
    <3>4. AppAt(words, c, settings, k + 1)
      BY <1>11, <3>2, <3>3
    <3>5. Understood(words, k)
      BY <2>1, <2>2 DEF Understood
    <3>6. i + 1 \in Nat /\ i + 1 > i
      BY <1>2
    <3> HIDE DEF next
    <3>7. Passed(words, argv, begin, settings, next) /\ next.i > i
      BY <1>9, <2>1, <3>1, <3>4, <3>5, <3>6
    <3> QED
      BY <1>2, <3>7 DEF next, i
  <2>3. CASE a \notin {"-v", "--verbose"}
    <3>1. next \in {[at EXCEPT !.exit = "0"], [at EXCEPT !.exit = "2"]}
      BY <1>3, <1>18, <2>3
    <3>2. next.exit # "run"
      BY <1>2, <3>1
    <3>3. ~Understood(words, k)
      BY <1>18, <2>1, <2>3 DEF Understood, PathOptions
    <3> HIDE DEF next
    <3> QED
      BY <1>2, <1>10, <3>2, <3>3 DEF next, i
  <2> QED
    BY <2>2, <2>3
<1> QED
  BY <1>15, <1>16, <1>17, <1>18
(* What the second pass finds. *)
LEMMA OptionsFind ==
  ASSUME NEW words \in CommandLines, NEW argv \in Seq(STRING), NEW begin,
         Begins(words, argv, begin), NEW settings, IsApp(settings)
  PROVE  LET ran == Options(argv, settings)
         IN  /\ ran.exit = "run" <=> \A k \in DOMAIN words : Understood(words, k)
             /\ ran.exit = "run" => AppAt(words, ran.app, settings, Len(words) + 1)
<1> DEFINE n == Len(words)
           z == Len(argv)
<1>1. n \in Nat /\ z \in Nat /\ DOMAIN words = 1 .. n
  BY StartAssumption
<1>2. PICK f : /\ Options(argv, settings) = f[z]
               /\ f[0] = [i |-> 1, exit |-> "run", app |-> settings]
               /\ \A i \in 1 .. z : f[i] = OptionTurn(argv, f[i - 1])
  BY <1>1, OptionUnfolds
<1> DEFINE Past(m) == /\ Passed(words, argv, begin, settings, f[m])
                      /\ f[m].exit # "run" \/ f[m].i > m \/ f[m].i > z
           P == {m \in 0 .. z : Past(m)}
<1>3. Past(0)
  <2>1. /\ f[0].i = 1 /\ f[0].app = settings /\ f[0].exit = "run"
        /\ f[0] = [i |-> f[0].i, exit |-> "run", app |-> f[0].app]
    BY <1>2
  <2>2. 1 \in 1 .. n + 1 /\ 1 \in Nat /\ 1 > 0
    BY <1>1
  <2>3. begin[1] = 1
    BY DEF Begins
  <2>4. AppAt(words, settings, settings, 1)
    BY UsesAre, Zenon DEF AppAt, FieldAt
  <2>5. \A j \in DOMAIN words : j < 1 => Understood(words, j)
    BY <1>1
  <2>6. Passed(words, argv, begin, settings, f[0])
    BY <2>1, <2>2, <2>3, <2>4, <2>5, Zenon DEF Passed
  <2> QED
    BY <2>1, <2>2, <2>6, Zenon
<1>4. ASSUME NEW m \in 1 .. z, Past(m - 1) PROVE Past(m)
  <2> DEFINE at == f[m - 1]
             next == f[m]
  <2>1. next = OptionTurn(argv, at)
    BY <1>2, Zenon
  <2>2. Passed(words, argv, begin, settings, at) /\ (at.exit # "run" \/ at.i > m - 1 \/ at.i > z)
    BY <1>4, Zenon
  <2> HIDE DEF at, next
  <2>3. CASE at.exit # "run" \/ at.i > z
    <3>1. next = at
      BY <2>1, <2>3, PassOver
    <3> QED
      BY <2>2, <2>3, <3>1 DEF next
  <2>4. CASE at.exit = "run" /\ ~(at.i > z)
    <3>1. /\ Passed(words, argv, begin, settings, next) /\ at.i \in Nat
          /\ next.exit = "run" => next.i > at.i
      BY <2>1, <2>2, <2>4, OptionStep
    <3>2. next.exit = "run" => next.i \in Nat
      BY <3>1, Zenon DEF Passed
    <3>3. next.exit = "run" => next.i > m
      BY <2>2, <2>4, <3>1, <3>2
    <3> QED
      BY <3>1, <3>3, Zenon DEF next
  <2> QED
    BY <2>3, <2>4
<1> HIDE DEF Past
<1>5. Past(z)
  <2>1. 0 \in P
    BY <1>1, <1>3
  <2>2. ASSUME NEW m \in 1 .. z, m - 1 \in P PROVE m \in P
    BY <1>4, <2>2
  <2>3. \A m \in 0 .. z : m \in P
    <3> HIDE DEF P
    <3> QED
      BY <1>1, <2>1, <2>2, Counting
  <2> QED
    BY <1>1, <2>3
<1> DEFINE at == f[z]
<1>6. Passed(words, argv, begin, settings, at) /\ (at.exit # "run" \/ at.i > z)
  BY <1>1, <1>5 DEF Past
<1> HIDE DEF at
<1>7. CASE at.exit # "run"
  <2>1. \E j \in DOMAIN words : ~Understood(words, j)
    BY <1>6, <1>7, Zenon DEF Passed
  <2> QED
    BY <1>2, <1>7, <2>1, Zenon DEF at
<1>8. CASE at.exit = "run"
  <2>1. PICK k \in 1 .. n + 1 :
          /\ at.i = begin[k] \/ (k = n + 1 /\ at.i > z)
          /\ \A j \in DOMAIN words : j < k => Understood(words, j)
          /\ AppAt(words, at.app, settings, k)
    BY <1>6, <1>8, Zenon DEF Passed
  <2>2. k = n + 1
    <3> SUFFICES ASSUME k # n + 1 PROVE FALSE
      OBVIOUS
    <3>1. k \in 1 .. n
      BY <1>1
    <3>2. begin[k] \in 1 .. z
      BY <3>1, WordAt
    <3> QED
      BY <1>1, <1>6, <1>8, <2>1, <3>2
  <2>3. \A j \in DOMAIN words : j < n + 1
    BY <1>1
  <2>4. \A j \in DOMAIN words : Understood(words, j)
    BY <2>1, <2>2, <2>3, Zenon
  <2> QED
    BY <1>2, <1>8, <2>1, <2>2, <2>4, Zenon DEF at
<1> QED
  BY <1>7, <1>8

(* Behind the last word: what the whole command line says of an option. *)
LEMMA FieldFinally ==
  ASSUME NEW words \in CommandLines, NEW app, NEW settings, NEW f,
         FieldAt(words, app, settings, f, Len(words) + 1)
  PROVE  /\ UsesOf(words, AllSets[f]) = {} => app[f] = settings[f]
         /\ UsesOf(words, AllSets[f]) # {} => app[f] = Taken(f, LastOf(words, AllSets[f]))
<1> DEFINE U == UsesOf(words, AllSets[f])
<1>1. \/ Unused(U, Len(words) + 1) /\ app[f] = settings[f]
      \/ \E i : LastUse(U, Len(words) + 1, i) /\ app[f] = Taken(f, words[i][2])
  BY Zenon DEF FieldAt
<1>2. /\ Unused(U, Len(words) + 1) => U = {}
      /\ \A i : LastUse(U, Len(words) + 1, i) => U # {} /\ Max(U) = i
  BY LastIsMax, Zenon
<1> HIDE DEF U
<1>3. CASE Unused(U, Len(words) + 1) /\ app[f] = settings[f]
  BY <1>2, <1>3, Zenon DEF U, LastOf
<1>4. CASE \E i : LastUse(U, Len(words) + 1, i) /\ app[f] = Taken(f, words[i][2])
  BY <1>2, <1>4, Zenon DEF U, LastOf
<1> QED
  BY <1>1, <1>3, <1>4, Zenon

LEMMA PathFinally ==
  ASSUME NEW words \in CommandLines, NEW path, PathAt(words, path, Len(words) + 1)
  PROVE  LET U == UsesOf(words, PathOptions)
         IN  path = DefaultPath <=> U = {} \/ words[Max(U)][2] = DefaultPath
<1> DEFINE U == UsesOf(words, PathOptions)
<1>1. \/ Unused(U, Len(words) + 1) /\ path = DefaultPath
      \/ \E i : LastUse(U, Len(words) + 1, i) /\ path = words[i][2]
  BY Zenon DEF PathAt
<1>2. /\ Unused(U, Len(words) + 1) => U = {}
      /\ \A i : LastUse(U, Len(words) + 1, i) => U # {} /\ Max(U) = i
  BY LastIsMax, Zenon
<1> HIDE DEF U
<1>3. CASE Unused(U, Len(words) + 1) /\ path = DefaultPath
  BY <1>2, <1>3, Zenon DEF U
<1>4. CASE \E i : LastUse(U, Len(words) + 1, i) /\ path = words[i][2]
  BY <1>2, <1>4, Zenon DEF U
<1> QED
  BY <1>1, <1>3, <1>4, Zenon
-----------------------------------------------------------------------------
(* main() starts the program as the command line and the file say. *)
LEMMA MainStarts == ASSUME NEW words \in CommandLines, Main(words) PROVE StartsAsTold'
<1> DEFINE argv  == FlattenSeq(words)
           scan  == Prescan(argv)
           text  == IF scan.path = DefaultPath THEN file ELSE <<>>
           read  == IF scan.version THEN conf ELSE TakeOver(text, conf)
           from  == FromFile(read)
           ran   == Options(argv, from)
           end   == IF scan.version THEN "0" ELSE ran.exit
           app   == ran.app
           log   == LogFile(app)
           all   == \A i \in DOMAIN words : Understood(words, i)
           known == UsesOf(words, PathOptions) = {} \/ LastOf(words, PathOptions) = DefaultPath
           said  == /\ read = TakeOver(IF known THEN file ELSE <<>>, Default)
                    /\ SettingsAsTold(words, app, from)
                    /\ LogAsTold(words, log)
<1>1. /\ conf = Default /\ conf' = read /\ file' = file
      /\ outcome' = [exit |-> end, app |-> app, logFile |-> log, words |-> words]
  <2>1. conf = Default /\ conf' = read /\ file' = file
    BY Zenon DEF Main
  <2> DEFINE ends == Options(argv, FromFile(conf'))
  <2>2. outcome' = [exit |-> IF scan.version THEN "0" ELSE ends.exit,
                    app |-> ends.app, logFile |-> LogFile(ends.app), words |-> words]
    BY Zenon DEF Main
  <2> HIDE DEF argv, scan, read
  <2>3. ends = ran
    BY <2>1
  <2> QED
    BY <2>1, <2>2, <2>3
<1>2. outcome'.exit = end /\ outcome'.app = app /\ outcome'.logFile = log /\ outcome'.words = words
  <2> HIDE DEF end, app, log
  <2> QED
    BY <1>1
<1>3. (Misread(words) = {} => (end = "run" <=> all) /\ (end = "run" => said)) => StartsAsTold'
  <2> HIDE DEF end, app, log, read
  <2> QED
    BY <1>1, <1>2 DEF StartsAsTold
<1>4. PICK begin : argv \in Seq(STRING) /\ Begins(words, argv, begin)
  BY StartAssumption, WordsBegin, Zenon
<1>5. IsApp(from)
  BY DEF FromFile, IsApp, Fields
<1> HIDE DEF argv, from
<1>6. /\ ran.exit = "run" <=> all
      /\ ran.exit = "run" => AppAt(words, app, from, Len(words) + 1)
  BY <1>4, <1>5, OptionsFind, Zenon
<1>7. Misread(words) = {} /\ all =>
        scan.version = FALSE /\ PathAt(words, scan.path, Len(words) + 1)
  BY <1>4, PrescanFinds, Zenon
<1> HIDE DEF scan, ran, all
<1>8. Misread(words) = {} => (end = "run" <=> all)
  BY <1>6, <1>7
<1>9. ASSUME Misread(words) = {}, end = "run" PROVE said
  <2>1. /\ scan.version = FALSE /\ PathAt(words, scan.path, Len(words) + 1)
        /\ AppAt(words, app, from, Len(words) + 1)
    BY <1>6, <1>7, <1>8, <1>9, Zenon
  <2>2. read = TakeOver(IF known THEN file ELSE <<>>, Default)
    <3>1. scan.path = DefaultPath <=> known
      BY <2>1, PathFinally, Zenon DEF LastOf
    <3> HIDE DEF known
    <3>2. read = TakeOver(text, Default)
      BY <1>1, <2>1
    <3>3. text = IF known THEN file ELSE <<>>
      BY <3>1
    <3> QED
      BY <3>2, <3>3, Zenon
  <2>3. ASSUME NEW f \in DOMAIN AllSets
        PROVE  /\ UsesOf(words, AllSets[f]) = {} => app[f] = from[f]
               /\ UsesOf(words, AllSets[f]) # {} => app[f] = Taken(f, LastOf(words, AllSets[f]))
    <3> HIDE DEF app
    <3> DEFINE z == Len(words) + 1
               got == app
               old == from
    <3>1. FieldAt(words, got, old, f, z)
      BY <2>1, Zenon DEF AppAt
    <3> HIDE DEF got, old
    <3>2. \A g, o : FieldAt(words, g, o, f, Len(words) + 1) =>
              /\ UsesOf(words, AllSets[f]) = {} => g[f] = o[f]
              /\ UsesOf(words, AllSets[f]) # {} => g[f] = Taken(f, LastOf(words, AllSets[f]))
      BY FieldFinally
    <3>3. /\ UsesOf(words, AllSets[f]) = {} => got[f] = old[f]
          /\ UsesOf(words, AllSets[f]) # {} => got[f] = Taken(f, LastOf(words, AllSets[f]))
      BY <3>1, <3>2, Zenon
    <3> QED
      BY <3>3 DEF got, old
  <2> HIDE DEF app
  <2>4. SettingsAsTold(words, app, from)
    <3>1. ASSUME NEW f \in DOMAIN Sets
          PROVE  app[f] =
                   CASE UsesOf(words, Sets[f]) = {} -> from[f]
                     [] UsesOf(words, Sets[f]) # {} /\ f \in {"device", "bindAddr"} ->
                          <<LastOf(words, Sets[f])>>
                     [] UsesOf(words, Sets[f]) # {} /\ f = "port" ->
                          Atoi(LastOf(words, Sets[f])) % 65536
                     [] OTHER -> Atoi(LastOf(words, Sets[f]))
      <4>1. f \in {"device", "width", "height", "fps", "port", "bindAddr"}
        BY DEF Sets
      <4>2. f \in DOMAIN AllSets /\ AllSets[f] = Sets[f]
        <5>1. f \in DOMAIN AllSets
          BY <4>1 DEF AllSets
        <5>2. /\ AllSets["device"] = Sets["device"] /\ AllSets["width"] = Sets["width"]
              /\ AllSets["height"] = Sets["height"] /\ AllSets["fps"] = Sets["fps"]
              /\ AllSets["port"] = Sets["port"] /\ AllSets["bindAddr"] = Sets["bindAddr"]
          BY DEF Sets, AllSets
        <5> QED
          BY <4>1, <5>1, <5>2
      <4> DEFINE O    == Sets[f]
                 none == UsesOf(words, O) = {}
                 v    == LastOf(words, O)
      <4>3. (none => app[f] = from[f]) /\ (~none => app[f] = Taken(f, v))
        BY <2>3, <4>2
      <4> HIDE DEF none, v, O
      <4>4. app[f] = CASE none -> from[f]
                       [] ~none /\ f \in {"device", "bindAddr"} -> <<v>>
                       [] ~none /\ f = "port" -> Atoi(v) % 65536
                       [] OTHER -> Atoi(v)
        BY <4>1, <4>3 DEF Taken
      <4> QED
        BY <4>4 DEF none, v, O
    <3> QED
      BY <3>1 DEF SettingsAsTold
  <2>5. app.logFile = Given(words, "--log-file") /\ app.logDir = Given(words, "--log-dir")
    <3>1. /\ "logFile" \in DOMAIN AllSets /\ AllSets["logFile"] = {"--log-file"}
          /\ "logDir" \in DOMAIN AllSets /\ AllSets["logDir"] = {"--log-dir"}
      BY DEF AllSets
    <3>2. from["logFile"] = "" /\ from["logDir"] = ""
      BY DEF from, FromFile
    <3>3. \A y : Taken("logFile", y) = y /\ Taken("logDir", y) = y
      BY DEF Taken
    <3>4. app["logFile"] = Given(words, "--log-file")
      <4>1. UsesOf(words, {"--log-file"}) = {} => app["logFile"] = ""
        BY <2>3, <3>1, <3>2
      <4>2. UsesOf(words, {"--log-file"}) # {} => app["logFile"] = LastOf(words, {"--log-file"})
        BY <2>3, <3>1, <3>3
      <4> QED
        BY <4>1, <4>2 DEF Given
    <3>5. app["logDir"] = Given(words, "--log-dir")
      <4>1. UsesOf(words, {"--log-dir"}) = {} => app["logDir"] = ""
        BY <2>3, <3>1, <3>2
      <4>2. UsesOf(words, {"--log-dir"}) # {} => app["logDir"] = LastOf(words, {"--log-dir"})
        BY <2>3, <3>1, <3>3
      <4> QED
        BY <4>1, <4>2 DEF Given
    <3> QED
      BY <3>4, <3>5
  <2>6. LogAsTold(words, log)
    BY <2>5 DEF LogAsTold, LogFile
  <2> HIDE DEF read, log, known
  <2> QED
    BY <2>2, <2>4, <2>6
<1> HIDE DEF said, end
<1> QED
  BY <1>3, <1>8, <1>9

(* A program starts exactly when its command line is understood, with what *)
(* the command line and the file say, whatever file and command line.      *)
THEOREM StartingAsTold == StartSpec => []StartsAsTold
<1>1. StartInit => StartsAsTold
  BY DEF StartInit, StartsAsTold
<1>2. StartsAsTold /\ [StartNext]_startVars => StartsAsTold'
  <2> SUFFICES ASSUME StartsAsTold, [StartNext]_startVars PROVE StartsAsTold'
    OBVIOUS
  <2>1. ASSUME NEW words \in CommandLines, Main(words) PROVE StartsAsTold'
    BY <2>1, MainStarts
  <2>2. CASE ConfigNext /\ outcome = NoOutcome /\ UNCHANGED outcome
    <3>1. outcome' = NoOutcome
      BY <2>2, Zenon
    <3> QED
      BY <3>1 DEF StartsAsTold, NoOutcome
  <2>3. CASE UNCHANGED startVars
    <3>1. conf' = conf /\ file' = file /\ outcome' = outcome
      BY <2>3 DEF startVars, confVars
    <3> QED
      BY <3>1 DEF StartsAsTold
  <2> QED
    BY <2>1, <2>2, <2>3, Zenon DEF StartNext
<1> QED
  BY <1>1, <1>2, PTL DEF StartSpec
=============================================================================

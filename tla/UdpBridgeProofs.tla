--------------------------- MODULE UdpBridgeProofs ---------------------------
(***************************************************************************)
(* Proofs, for every base, header length, maximum length, batch sizes and  *)
(* room of the connection, that the framing of a UDP work connection loses *)
(* nothing.  The definitions that loop over a buffer are recursive         *)
(* functions: the first part proves, once, induction over an interval in   *)
(* the form of a fact about sets and that such functions exist.            *)
(***************************************************************************)
EXTENDS UdpBridge, SequenceTheorems, WellFoundedInduction, TLAPS

-----------------------------------------------------------------------------
\* Induction and recursion

\* The order of the natural numbers, as a relation.
LessThan == {ss \in Nat \X Nat : ss[1] < ss[2]}

\* The order is well founded.
LEMMA LessThanWF == IsWellFoundedOn(LessThan, Nat)
BY NatLessThanWellFounded, Zenon DEF OpToRel, LessThan

\* A set of natural numbers that is not empty has a least element.
LEMMA Least ==
    ASSUME NEW T, T \subseteq Nat, T # {}
    PROVE  \E x \in T : \A y \in T : x <= y
<1>1. PICK x \in T : \A y \in T : ~ (<<y, x>> \in LessThan)
  BY LessThanWF, WFMin
<1>2. \A y \in T : x <= y
  <2> SUFFICES ASSUME NEW y \in T, y < x PROVE FALSE
    OBVIOUS
  <2>1. <<y, x>> \in Nat \X Nat /\ <<y, x>>[1] < <<y, x>>[2]
    OBVIOUS
  <2>2. <<y, x>> \in LessThan
    BY <2>1, Zenon DEF LessThan
  <2> QED
    BY <2>2, <1>1
<1> QED
  BY <1>2

\* Induction from 0 to N.
LEMMA Upward ==
    ASSUME NEW N \in Nat, NEW T, 0 \in T, \A k \in 0..(N - 1) : k \in T => k + 1 \in T
    PROVE  \A k \in 0..N : k \in T
<1> SUFFICES ASSUME NEW k \in 0..N, k \notin T PROVE FALSE
  OBVIOUS
<1> DEFINE U == {j \in 0..N : j \notin T}
<1>1. U \subseteq Nat /\ U # {}
  OBVIOUS
<1>2. PICK x \in U : \A y \in U : x <= y
  BY <1>1, Least
<1>3. x # 0 /\ x \in 0..N /\ x \notin T
  BY <1>2
<1>4. x - 1 \in 0..(N - 1) /\ x - 1 \notin U
  BY <1>2, <1>3
<1>5. x - 1 \in T
  BY <1>4
<1> QED
  BY <1>3, <1>4, <1>5

\* f is a function to S defined by recursion over 0..N: it begins with c, and
\* step[i] gives its value at i from the one at i - 1.
Follows(f, S, c, N, step) ==
    f \in [0..N -> S] /\ f[0] = c /\ \A i \in 1..N : f[i] = step[i][f[i - 1]]

\* There is such a function.
LEMMA Recursion ==
    ASSUME NEW S, NEW c \in S, NEW N \in Nat, NEW step \in [1..N -> [S -> S]]
    PROVE  \E f : Follows(f, S, c, N, step)
<1> DEFINE T == {n \in 0..N : \E f : Follows(f, S, c, n, step)}
<1>1. 0 \in T
  <2> DEFINE f == [i \in 0..0 |-> c]
  <2>1. Follows(f, S, c, 0, step)
    BY DEF Follows
  <2> HIDE DEF f
  <2> QED
    BY <2>1
<1>2. ASSUME NEW k \in 0..(N - 1), k \in T PROVE k + 1 \in T
  <2>1. PICK f : Follows(f, S, c, k, step)
    BY <1>2
  <2> DEFINE g == [i \in 0..(k + 1) |-> IF i = k + 1 THEN step[k + 1][f[k]] ELSE f[i]]
  <2>2. f \in [0..k -> S] /\ f[0] = c /\ \A i \in 1..k : f[i] = step[i][f[i - 1]]
    BY <2>1 DEF Follows
  <2>3. step[k + 1][f[k]] \in S
    BY <2>2
  <2>4. g \in [0..(k + 1) -> S]
    BY <2>2, <2>3
  <2>5. g[0] = c /\ \A i \in 1..(k + 1) : g[i] = step[i][g[i - 1]]
    BY <2>2
  <2>6. Follows(g, S, c, k + 1, step)
    BY <2>4, <2>5 DEF Follows
  <2> HIDE DEF g
  <2> QED
    BY <2>6
<1>3. \A k \in 0..N : k \in T
  <2> HIDE DEF T
  <2> QED
    BY <1>1, <1>2, Upward
<1> QED
  BY <1>3

\* What the value at 0 has and each value hands on, every value has.
LEMMA Within ==
    ASSUME NEW N \in Nat, NEW S, NEW f, f[0] \in S,
           \A k \in 1..N : f[k - 1] \in S => f[k] \in S
    PROVE  \A k \in 0..N : f[k] \in S
<1> DEFINE T == {k \in 0..N : f[k] \in S}
<1>1. 0 \in T
  OBVIOUS
<1>2. ASSUME NEW k \in 0..(N - 1), k \in T PROVE k + 1 \in T
  <2>1. k + 1 \in 1..N /\ (k + 1) - 1 = k
    OBVIOUS
  <2> QED
    BY <1>2, <2>1
<1>3. \A k \in 0..N : k \in T
  <2> HIDE DEF T
  <2> QED
    BY <1>1, <1>2, Upward
<1> QED
  BY <1>3

-----------------------------------------------------------------------------
\* The length prefix

\* Shifted divides by Base once per step.
LEMMA ShiftedRec ==
    ASSUME NEW n \in Nat
    PROVE  /\ \A k \in 0..HeaderLen : Shifted(n)[k] \in Nat
           /\ Shifted(n)[0] = n
           /\ \A k \in 1..HeaderLen : Shifted(n)[k] = Shifted(n)[k - 1] \div Base
<1> DEFINE P(g) == g = [k \in 0..HeaderLen |-> IF k = 0 THEN n ELSE g[k - 1] \div Base]
<1> DEFINE step == [k \in 1..HeaderLen |-> [v \in Nat |-> v \div Base]]
<1>1. HeaderLen \in Nat /\ \A v \in Nat : v \div Base \in Nat
  BY BridgeAssumption
<1>2. step \in [1..HeaderLen -> [Nat -> Nat]]
  BY <1>1
<1>3. PICK f : Follows(f, Nat, n, HeaderLen, step)
  <2> HIDE DEF step
  <2> QED
    BY <1>1, <1>2, Recursion, Zenon
<1>4. P(f)
  <2>1. f \in [0..HeaderLen -> Nat] /\ f[0] = n
    BY <1>3 DEF Follows
  <2>2. ASSUME NEW k \in 1..HeaderLen PROVE f[k] = f[k - 1] \div Base
    <3>1. f[k] = step[k][f[k - 1]]
      BY <1>3, Zenon DEF Follows
    <3>2. k - 1 \in 0..HeaderLen
      BY <1>1
    <3>3. f[k - 1] \in Nat
      BY <2>1, <3>2
    <3>4. step[k][f[k - 1]] = f[k - 1] \div Base
      BY <3>3
    <3> QED
      BY <3>1, <3>4
  <2> QED
    BY <1>1, <2>1, <2>2, SMTT(60)
<1>5. P(Shifted(n))
  <2>1. Shifted(n) = CHOOSE g : P(g)
    BY DEF Shifted
  <2> HIDE DEF P
  <2> QED
    BY <1>4, <2>1, Zenon
<1>6. Shifted(n)[0] = n
  BY <1>1, <1>5
<1>7. \A k \in 1..HeaderLen : Shifted(n)[k] = Shifted(n)[k - 1] \div Base
  <2> TAKE k \in 1..HeaderLen
  <2>1. k \in 0..HeaderLen /\ k # 0
    BY <1>1
  <2> QED
    BY <1>5, <2>1
<1>8. \A k \in 0..HeaderLen : Shifted(n)[k] \in Nat
  <2>1. \A k \in 1..HeaderLen : Shifted(n)[k - 1] \in Nat => Shifted(n)[k] \in Nat
    BY <1>1, <1>7
  <2> HIDE DEF P
  <2> QED
    BY <1>1, <1>6, <2>1, Within
<1> QED
  BY <1>6, <1>7, <1>8

\* Values reads one digit more per step.
LEMMA ValuesRec ==
    ASSUME NEW b \in Seq(Byte)
    PROVE  /\ \A k \in 0..Len(b) : Values(b)[k] \in Nat
           /\ Values(b)[0] = 0
           /\ \A k \in 1..Len(b) : Values(b)[k] = Values(b)[k - 1] * Base + b[k]
<1> DEFINE P(g) == g = [k \in 0..Len(b) |-> IF k = 0 THEN 0 ELSE g[k - 1] * Base + b[k]]
<1> DEFINE step == [k \in 1..Len(b) |-> [v \in Nat |-> v * Base + b[k]]]
<1>1. /\ Len(b) \in Nat
      /\ 0 \in Nat
      /\ \A k \in 1..Len(b), v \in Nat : v * Base + b[k] \in Nat
  <2>1. \A k \in 1..Len(b) : b[k] \in Nat
    BY BridgeAssumption DEF Byte
  <2>2. Base \in Nat /\ \A v, w \in Nat : v * Base + w \in Nat
    BY BridgeAssumption
  <2> QED
    BY <2>1, <2>2
<1>2. step \in [1..Len(b) -> [Nat -> Nat]]
  BY <1>1
<1>3. PICK f : Follows(f, Nat, 0, Len(b), step)
  <2> HIDE DEF step
  <2> QED
    BY <1>1, <1>2, Recursion, Zenon
<1>4. P(f)
  <2>1. f \in [0..Len(b) -> Nat] /\ f[0] = 0
    BY <1>3, Zenon DEF Follows
  <2>2. ASSUME NEW k \in 1..Len(b) PROVE f[k] = f[k - 1] * Base + b[k]
    <3>1. f[k] = step[k][f[k - 1]]
      BY <1>3, Zenon DEF Follows
    <3>2. f[k - 1] \in Nat
      <4>1. k - 1 \in 0..Len(b)
        BY <1>1
      <4> QED
        BY <2>1, <4>1
    <3> QED
      BY <3>1, <3>2
  <2>3. \A k \in 0..Len(b) : f[k] = IF k = 0 THEN 0 ELSE f[k - 1] * Base + b[k]
    BY <1>1, <2>1, <2>2
  <2> QED
    BY <2>1, <2>3
<1>5. P(Values(b))
  <2>1. Values(b) = CHOOSE g : P(g)
    BY DEF Values
  <2> HIDE DEF P
  <2> QED
    BY <1>4, <2>1, Zenon
<1>6. Values(b)[0] = 0
  BY <1>1, <1>5
<1>7. \A k \in 1..Len(b) : Values(b)[k] = Values(b)[k - 1] * Base + b[k]
  <2> TAKE k \in 1..Len(b)
  <2>1. k \in 0..Len(b) /\ k # 0
    BY <1>1
  <2> QED
    BY <1>5, <2>1
<1>8. \A k \in 0..Len(b) : Values(b)[k] \in Nat
  <2>1. \A k \in 1..Len(b) : Values(b)[k - 1] \in Nat => Values(b)[k] \in Nat
    BY <1>1, <1>7
  <2> HIDE DEF P
  <2> QED
    BY <1>1, <1>6, <2>1, Within
<1> QED
  BY <1>6, <1>7, <1>8

\* The prefix has HeaderLen bytes.
LEMMA ToBytesType ==
    ASSUME NEW n \in Nat
    PROVE  /\ ToBytes(n) \in Seq(Byte)
           /\ Len(ToBytes(n)) = HeaderLen
           /\ \A k \in 1..HeaderLen : ToBytes(n)[k] = Shifted(n)[HeaderLen - k] % Base
<1>1. HeaderLen \in Nat /\ \A v \in Nat : v % Base \in Byte
  BY BridgeAssumption DEF Byte
<1>2. \A k \in 1..HeaderLen : Shifted(n)[HeaderLen - k] % Base \in Byte
  <2> TAKE k \in 1..HeaderLen
  <2>1. HeaderLen - k \in 0..HeaderLen
    BY <1>1
  <2>2. Shifted(n)[HeaderLen - k] \in Nat
    BY <2>1, ShiftedRec
  <2> QED
    BY <1>1, <2>2
<1>3. ToBytes(n) \in [1..HeaderLen -> Byte]
  BY <1>2 DEF ToBytes
<1>4. ToBytes(n) \in Seq(Byte) /\ Len(ToBytes(n)) = HeaderLen
  BY <1>1, <1>3
<1> QED
  BY <1>4 DEF ToBytes

\* from_be_bytes gives back the length that to_be_bytes has encoded.
LEMMA HeaderRoundTrip ==
    ASSUME NEW n \in 0..MaxLen
    PROVE  FromBytes(ToBytes(n)) = n
<1> DEFINE b == ToBytes(n)
<1> DEFINE T == {k \in 0..HeaderLen : Values(b)[k] = Shifted(n)[HeaderLen - k]}
<1>1. HeaderLen \in Nat /\ n \in Nat /\ b \in Seq(Byte) /\ Len(b) = HeaderLen
  BY BridgeAssumption, ToBytesType
<1>2. 0 \in T
  <2>1. Values(b)[0] = 0
    BY <1>1, ValuesRec
  <2>2. Shifted(n)[HeaderLen] = 0
    BY HeaderAssumption
  <2> QED
    BY <1>1, <2>1, <2>2
<1>3. ASSUME NEW k \in 0..(HeaderLen - 1), k \in T PROVE k + 1 \in T
  <2> DEFINE j == HeaderLen - (k + 1)
  <2>1. k + 1 \in 1..HeaderLen /\ (k + 1) - 1 = k /\ j + 1 \in 1..HeaderLen
          /\ j \in 0..HeaderLen /\ (j + 1) - 1 = j /\ HeaderLen - k = j + 1
    BY <1>1
  <2>2. Values(b)[k + 1] = Values(b)[k] * Base + b[k + 1]
    BY <1>1, <2>1, ValuesRec
  <2>3. b[k + 1] = Shifted(n)[j] % Base
    BY <1>1, <2>1, ToBytesType
  <2>4. Shifted(n)[j + 1] = Shifted(n)[j] \div Base /\ Shifted(n)[j] \in Nat
    BY <1>1, <2>1, ShiftedRec
  <2>5. Values(b)[k] = Shifted(n)[j + 1]
    BY <1>3, <2>1
  <2>6. \A v \in Nat : (v \div Base) * Base + (v % Base) = v
    BY BridgeAssumption
  <2>7. Values(b)[k + 1] = Shifted(n)[j]
    BY <2>2, <2>3, <2>4, <2>5, <2>6
  <2> QED
    BY <2>1, <2>7
<1>4. \A k \in 0..HeaderLen : k \in T
  <2> HIDE DEF T
  <2> QED
    BY <1>1, <1>2, <1>3, Upward
<1>5. Values(b)[HeaderLen] = Shifted(n)[0]
  <2>1. HeaderLen \in T /\ HeaderLen - HeaderLen = 0
    BY <1>1, <1>4
  <2> QED
    BY <2>1
<1> QED
  BY <1>1, <1>5, ShiftedRec DEF FromBytes

\* A header always gives a length.
LEMMA FromBytesType ==
    ASSUME NEW b \in Seq(Byte)
    PROVE  FromBytes(b) \in Nat
<1>1. Len(b) \in 0..Len(b)
  OBVIOUS
<1> QED
  BY <1>1, ValuesRec DEF FromBytes

-----------------------------------------------------------------------------
\* Frames

\* Whatever way two halves are glued together, the first Len(a) + Len(d) elements
\* are a and d, and the rest of the first half continues with b.
LEMMA Cut ==
    ASSUME NEW S, NEW r \in Seq(S), NEW x \in Seq(S), NEW a \in Seq(S), NEW d \in Seq(S),
           NEW b \in Seq(S), r \o x = (a \o d) \o b, Len(a) + Len(d) <= Len(r)
    PROVE  /\ SubSeq(r, Len(a) + 1, Len(a) + Len(d)) = d
           /\ SubSeq(r, Len(a) + Len(d) + 1, Len(r)) \o x = b
<1> DEFINE w == r \o x
<1> DEFINE m == Len(a) + Len(d)
<1> DEFINE e == SubSeq(r, Len(a) + 1, m)
<1> DEFINE t == SubSeq(r, m + 1, Len(r))
<1>1. Len(a) \in Nat /\ Len(d) \in Nat /\ Len(r) \in Nat /\ Len(x) \in Nat /\ Len(b) \in Nat
        /\ m \in Nat /\ m <= Len(r)
  OBVIOUS
<1>2. \A i \in 1..Len(r) : r[i] = w[i]
  BY ConcatProperties
<1>3. \A i \in 1..Len(x) : x[i] = w[Len(r) + i]
  <2> TAKE i \in 1..Len(x)
  <2>1. /\ Len(r) + i \in 1..(Len(r) + Len(x)) /\ ~(Len(r) + i <= Len(r))
        /\ (Len(r) + i) - Len(r) = i
    BY <1>1
  <2> QED
    BY <2>1, ConcatProperties
<1>4. /\ a \o d \in Seq(S)
      /\ Len(a \o d) = m
      /\ \A i \in 1..Len(d) : (a \o d)[Len(a) + i] = d[i]
  BY <1>1, ConcatProperties
<1>5. /\ Len(w) = m + Len(b)
      /\ \A i \in 1..m : w[i] = (a \o d)[i]
      /\ \A i \in 1..Len(b) : w[m + i] = b[i]
  BY <1>1, <1>4, ConcatProperties
<1>6. e \in Seq(S) /\ Len(e) = Len(d) /\ \A i \in 1..Len(d) : e[i] = r[Len(a) + i]
  BY <1>1, SubSeqProperties
<1>7. \A i \in 1..Len(d) : e[i] = d[i]
  <2> TAKE i \in 1..Len(d)
  <2>1. Len(a) + i \in 1..m /\ Len(a) + i \in 1..Len(r)
    BY <1>1
  <2> HIDE DEF w, m, e
  <2> QED
    BY <1>2, <1>4, <1>5, <1>6, <2>1
<1>8. e = d
  <2> HIDE DEF e, m, w
  <2> QED
    BY <1>6, <1>7, SeqEqual
<1>9. t \in Seq(S) /\ Len(t) = Len(r) - m /\ \A i \in 1..(Len(r) - m) : t[i] = r[m + i]
  BY <1>1, SubSeqProperties
<1>10. /\ t \o x \in Seq(S)
       /\ Len(t \o x) = (Len(r) - m) + Len(x)
       /\ \A i \in 1..((Len(r) - m) + Len(x)) :
             (t \o x)[i] = IF i <= Len(r) - m THEN t[i] ELSE x[i - (Len(r) - m)]
  <2> HIDE DEF t, m
  <2>0. t \in Seq(S)
    BY <1>9
  <2>1. /\ t \o x \in Seq(S)
        /\ Len(t \o x) = Len(t) + Len(x)
        /\ \A i \in 1..(Len(t) + Len(x)) :
              (t \o x)[i] = IF i <= Len(t) THEN t[i] ELSE x[i - Len(t)]
    BY <2>0, ConcatProperties, ZenonT(60)
  <2> QED
    BY <1>9, <2>1
<1>11. Len(w) = Len(r) + Len(x)
  BY ConcatProperties
<1>12. Len(t \o x) = Len(b)
  <2> HIDE DEF t, m, w
  <2> QED
    BY <1>1, <1>5, <1>10, <1>11
<1>13. \A i \in 1..Len(b) : (t \o x)[i] = b[i]
  <2> TAKE i \in 1..Len(b)
  <2> HIDE DEF t, m, w
  <2>1. i \in 1..((Len(r) - m) + Len(x)) /\ b[i] = w[m + i]
    BY <1>1, <1>5, <1>11
  <2>2. CASE i <= Len(r) - m
    <3>1. i \in 1..(Len(r) - m) /\ m + i \in 1..Len(r)
      BY <1>1, <2>2
    <3> QED
      BY <1>2, <1>9, <1>10, <2>1, <2>2, <3>1
  <2>3. CASE ~(i <= Len(r) - m)
    <3>1. i - (Len(r) - m) \in 1..Len(x) /\ Len(r) + (i - (Len(r) - m)) = m + i
      BY <1>1, <2>1, <2>3
    <3> QED
      BY <1>3, <1>10, <2>1, <2>3, <3>1
  <2> QED
    BY <2>2, <2>3
<1>14. t \o x = b
  <2> HIDE DEF t, m, w
  <2> QED
    BY <1>10, <1>12, <1>13, SeqEqual
<1> QED
  BY <1>8, <1>14

\* A frame is a sequence of bytes.
LEMMA FrameType ==
    ASSUME NEW d \in Datagram
    PROVE  /\ d \in Seq(Byte)
           /\ Len(d) \in 0..MaxLen
           /\ Frame(d) \in Seq(Byte)
           /\ Len(Frame(d)) = HeaderLen + Len(d)
<1>1. d \in Seq(Byte) /\ Len(d) \in Nat /\ Len(d) <= MaxLen /\ MaxLen \in Nat
  BY BridgeAssumption
<1>2. ToBytes(Len(d)) \in Seq(Byte) /\ Len(ToBytes(Len(d))) = HeaderLen
  BY <1>1, ToBytesType
<1>3. Frame(d) = ToBytes(Len(d)) \o d
  BY DEF Frame
<1>4. Frame(d) \in Seq(Byte) /\ Len(Frame(d)) = HeaderLen + Len(d)
  BY <1>1, <1>2, <1>3, ConcatProperties
<1> QED
  BY <1>1, <1>4

\* Concatenation of byte sequences is associative.
LEMMA BytesAssoc ==
    \A s, t, u \in Seq(Byte) : (s \o t) \o u = s \o (t \o u)
BY ConcatAssociative

\* Appended adds one frame per step.
LEMMA AppendedRec ==
    ASSUME NEW b \in Seq(Datagram)
    PROVE  /\ \A k \in 0..Len(b) : Appended(b)[k] \in Seq(Byte)
           /\ Appended(b)[0] = <<>>
           /\ \A k \in 1..Len(b) : Appended(b)[k] = Appended(b)[k - 1] \o Frame(b[k])
<1> DEFINE P(g) == g = [k \in 0..Len(b) |-> IF k = 0 THEN <<>> ELSE g[k - 1] \o Frame(b[k])]
<1> DEFINE step == [k \in 1..Len(b) |-> [v \in Seq(Byte) |-> v \o Frame(b[k])]]
<1>1. /\ Len(b) \in Nat
      /\ <<>> \in Seq(Byte)
      /\ \A k \in 1..Len(b), v \in Seq(Byte) : v \o Frame(b[k]) \in Seq(Byte)
  <2>1. \A k \in 1..Len(b) : Frame(b[k]) \in Seq(Byte)
    BY FrameType
  <2> QED
    BY <2>1
<1>2. step \in [1..Len(b) -> [Seq(Byte) -> Seq(Byte)]]
  BY <1>1
<1>3. PICK f : Follows(f, Seq(Byte), <<>>, Len(b), step)
  <2> HIDE DEF step
  <2> QED
    BY <1>1, <1>2, Recursion, Zenon
<1>4. P(f)
  <2>1. f \in [0..Len(b) -> Seq(Byte)] /\ f[0] = <<>>
    BY <1>3, Zenon DEF Follows
  <2>2. ASSUME NEW k \in 1..Len(b) PROVE f[k] = f[k - 1] \o Frame(b[k])
    <3>1. f[k] = step[k][f[k - 1]]
      BY <1>3, Zenon DEF Follows
    <3>2. f[k - 1] \in Seq(Byte)
      <4>1. k - 1 \in 0..Len(b)
        BY <1>1
      <4> QED
        BY <2>1, <4>1
    <3> QED
      BY <3>1, <3>2
  <2>3. \A k \in 0..Len(b) : f[k] = IF k = 0 THEN <<>> ELSE f[k - 1] \o Frame(b[k])
    BY <1>1, <2>1, <2>2
  <2> QED
    BY <2>1, <2>3
<1>5. P(Appended(b))
  <2>1. Appended(b) = CHOOSE g : P(g)
    BY DEF Appended
  <2> HIDE DEF P
  <2> QED
    BY <1>4, <2>1, Zenon
<1>6. Appended(b)[0] = <<>>
  BY <1>1, <1>5
<1>7. \A k \in 1..Len(b) : Appended(b)[k] = Appended(b)[k - 1] \o Frame(b[k])
  <2> TAKE k \in 1..Len(b)
  <2>1. k \in 0..Len(b) /\ k # 0
    BY <1>1
  <2> QED
    BY <1>5, <2>1
<1>8. \A k \in 0..Len(b) : Appended(b)[k] \in Seq(Byte)
  <2>1. \A k \in 1..Len(b) : Appended(b)[k - 1] \in Seq(Byte) => Appended(b)[k] \in Seq(Byte)
    BY <1>1, <1>7
  <2> HIDE DEF P
  <2> QED
    BY <1>1, <1>6, <2>1, Within
<1> QED
  BY <1>6, <1>7, <1>8

\* The frames of a batch are bytes; no datagram makes no byte, one its frame.
LEMMA FramesType ==
    /\ \A b \in Seq(Datagram) : Frames(b) \in Seq(Byte)
    /\ Frames(<<>>) = <<>>
    /\ \A d \in Datagram : Frames(<<d>>) = Frame(d)
<1>1. ASSUME NEW b \in Seq(Datagram) PROVE Frames(b) \in Seq(Byte)
  <2>1. Len(b) \in 0..Len(b)
    OBVIOUS
  <2> QED
    BY <2>1, AppendedRec DEF Frames
<1>2. Frames(<<>>) = <<>>
  <2>1. <<>> \in Seq(Datagram) /\ Len(<<>>) = 0
    OBVIOUS
  <2>2. Appended(<<>>)[0] = <<>>
    BY <2>1, AppendedRec
  <2> QED
    BY <2>1, <2>2 DEF Frames
<1>3. ASSUME NEW d \in Datagram PROVE Frames(<<d>>) = Frame(d)
  <2> DEFINE b == <<d>>
  <2>1. b \in Seq(Datagram) /\ Len(b) = 1 /\ b[1] = d /\ 1 \in 1..Len(b) /\ 1 - 1 = 0
    OBVIOUS
  <2> HIDE DEF b
  <2>2. Appended(b)[1] = Appended(b)[0] \o Frame(d) /\ Appended(b)[0] = <<>>
    BY <2>1, AppendedRec
  <2>3. <<>> \o Frame(d) = Frame(d)
    BY FrameType, ConcatEmptySeq
  <2>4. Frames(b) = Frame(d)
    BY <2>1, <2>2, <2>3 DEF Frames
  <2> QED
    BY <2>4 DEF b
<1> QED
  BY <1>1, <1>2, <1>3

\* Two batches in one buffer are the frames of the two, one after the other.
LEMMA FramesConcat ==
    ASSUME NEW b \in Seq(Datagram), NEW c \in Seq(Datagram)
    PROVE  Frames(b \o c) = Frames(b) \o Frames(c)
<1> DEFINE bc == b \o c
<1>1. /\ bc \in Seq(Datagram)
      /\ Len(bc) = Len(b) + Len(c) /\ Len(b) \in Nat /\ Len(c) \in Nat
      /\ \A k \in 1..Len(b) : bc[k] = b[k]
      /\ \A k \in 1..Len(c) : bc[Len(b) + k] = c[k]
  BY ConcatProperties
<1> HIDE DEF bc
<1>2. \A k \in 0..Len(b) : Appended(bc)[k] = Appended(b)[k]
  <2> DEFINE T == {k \in 0..Len(b) : Appended(bc)[k] = Appended(b)[k]}
  <2>1. 0 \in T
    <3>1. Appended(bc)[0] = <<>>
      BY <1>1, AppendedRec
    <3>2. Appended(b)[0] = <<>>
      BY AppendedRec
    <3>3. 0 \in 0..Len(b)
      BY <1>1
    <3> QED
      BY <3>1, <3>2, <3>3
  <2>2. ASSUME NEW k \in 0..(Len(b) - 1), k \in T PROVE k + 1 \in T
    <3>1. k + 1 \in 1..Len(b) /\ k + 1 \in 1..Len(bc) /\ (k + 1) - 1 = k /\ k + 1 \in 0..Len(b)
      BY <1>1
    <3>2. Appended(bc)[k + 1] = Appended(bc)[k] \o Frame(bc[k + 1])
      BY <1>1, <3>1, AppendedRec
    <3>3. Appended(b)[k + 1] = Appended(b)[k] \o Frame(b[k + 1])
      BY <1>1, <3>1, AppendedRec
    <3>4. bc[k + 1] = b[k + 1] /\ Appended(bc)[k] = Appended(b)[k]
      BY <1>1, <2>2, <3>1
    <3> QED
      BY <3>1, <3>2, <3>3, <3>4
  <2>3. \A k \in 0..Len(b) : k \in T
    <3> HIDE DEF T
    <3> QED
      BY <1>1, <2>1, <2>2, Upward
  <2> QED
    BY <2>3
<1>3. \A k \in 0..Len(c) : Appended(bc)[Len(b) + k] = Frames(b) \o Appended(c)[k]
  <2> DEFINE T == {k \in 0..Len(c) : Appended(bc)[Len(b) + k] = Frames(b) \o Appended(c)[k]}
  <2>1. 0 \in T
    <3>1. Appended(c)[0] = <<>> /\ Frames(b) \in Seq(Byte)
      BY AppendedRec, FramesType
    <3>2. Appended(bc)[Len(b)] = Frames(b)
      BY <1>1, <1>2 DEF Frames
    <3>3. Frames(b) \o <<>> = Frames(b)
      BY <3>1, ConcatEmptySeq
    <3>4. 0 \in 0..Len(c) /\ Len(b) + 0 = Len(b)
      BY <1>1
    <3> QED
      BY <3>1, <3>2, <3>3, <3>4
  <2>2. ASSUME NEW k \in 0..(Len(c) - 1), k \in T PROVE k + 1 \in T
    <3> DEFINE j == Len(b) + (k + 1)
    <3>1. /\ k + 1 \in 1..Len(c) /\ (k + 1) - 1 = k /\ k \in 0..Len(c) /\ k + 1 \in 0..Len(c)
          /\ j \in 1..Len(bc) /\ j - 1 = Len(b) + k
      BY <1>1
    <3>2. Appended(bc)[j] = Appended(bc)[Len(b) + k] \o Frame(bc[j])
      BY <1>1, <3>1, AppendedRec
    <3>3. Appended(c)[k + 1] = Appended(c)[k] \o Frame(c[k + 1]) /\ Appended(c)[k] \in Seq(Byte)
      BY <3>1, AppendedRec
    <3>4. bc[j] = c[k + 1] /\ c[k + 1] \in Datagram
      BY <1>1, <3>1
    <3>5. Frames(b) \in Seq(Byte) /\ Frame(c[k + 1]) \in Seq(Byte)
      BY <3>4, FramesType, FrameType
    <3>6. (Frames(b) \o Appended(c)[k]) \o Frame(c[k + 1])
            = Frames(b) \o (Appended(c)[k] \o Frame(c[k + 1]))
      BY <3>3, <3>5, BytesAssoc
    <3>7. Appended(bc)[Len(b) + k] = Frames(b) \o Appended(c)[k]
      BY <2>2
    <3>8. Appended(bc)[j] = Frames(b) \o Appended(c)[k + 1]
      BY <3>2, <3>3, <3>4, <3>6, <3>7
    <3> QED
      BY <3>1, <3>8
  <2>3. \A k \in 0..Len(c) : k \in T
    <3> HIDE DEF T
    <3> QED
      BY <1>1, <2>1, <2>2, Upward
  <2> QED
    BY <2>3
<1>4. Len(c) \in 0..Len(c)
  BY <1>1
<1>5. Frames(bc) = Frames(b) \o Frames(c)
  BY <1>1, <1>3, <1>4 DEF Frames
<1> QED
  BY <1>5 DEF bc

\* The frames of a batch begin with the frame of its first datagram.
LEMMA FramesFirst ==
    ASSUME NEW ds \in Seq(Datagram), ds # <<>>
    PROVE  /\ ds[1] \in Datagram
           /\ SubSeq(ds, 2, Len(ds)) \in Seq(Datagram)
           /\ Frames(ds) = Frame(ds[1]) \o Frames(SubSeq(ds, 2, Len(ds)))
<1>1. Len(ds) \in Nat \ {0} /\ 1 \in 1..Len(ds) /\ Len(ds) \in 1..Len(ds) /\ ds[1] \in Datagram
  OBVIOUS
<1>2. SubSeq(ds, 2, Len(ds)) \in Seq(Datagram) /\ <<ds[1]>> \in Seq(Datagram)
  BY <1>1, SubSeqProperties
<1>3. SubSeq(ds, 1, Len(ds)) = <<ds[1]>> \o SubSeq(ds, 1 + 1, Len(ds))
  BY <1>1, SubSeqRecursiveFirst
<1>4. SubSeq(ds, 1, Len(ds)) = ds
  BY SubSeqFull
<1>5. ds = <<ds[1]>> \o SubSeq(ds, 2, Len(ds))
  BY <1>3, <1>4
<1>6. Frames(<<ds[1]>> \o SubSeq(ds, 2, Len(ds)))
        = Frames(<<ds[1]>>) \o Frames(SubSeq(ds, 2, Len(ds)))
  BY <1>2, FramesConcat
<1>7. Frames(<<ds[1]>>) = Frame(ds[1])
  BY <1>1, FramesType
<1> QED
  BY <1>1, <1>2, <1>5, <1>6, <1>7

\* What a buffer that begins a sequence of frames shows: once it has a header, the
\* header is that of the first datagram.
LEMMA HeaderRead ==
    ASSUME NEW r \in Seq(Byte), NEW x \in Seq(Byte), NEW ds \in Seq(Datagram),
           r \o x = Frames(ds), Len(r) >= HeaderLen
    PROVE  ds # <<>> /\ FromBytes(Header(r)) = Len(ds[1])
<1>1. HeaderLen \in Nat \ {0} /\ Len(r) \in Nat /\ Len(x) \in Nat
  BY BridgeAssumption
<1>2. ds # <<>>
  <2>1. Len(r \o x) = Len(r) + Len(x)
    BY ConcatProperties
  <2>2. Len(<<>>) = 0
    OBVIOUS
  <2>3. r \o x # <<>>
    BY <1>1, <2>1, <2>2
  <2> QED
    BY <2>3, FramesType
<1> DEFINE d == ds[1]
<1> DEFINE h == ToBytes(Len(d))
<1> DEFINE f == Frames(SubSeq(ds, 2, Len(ds)))
<1>3. d \in Datagram /\ d \in Seq(Byte) /\ Len(d) \in 0..MaxLen /\ Len(d) \in Nat
  BY <1>2, FramesFirst, FrameType
<1>4. f \in Seq(Byte)
  BY <1>2, FramesFirst, FramesType
<1>5. h \in Seq(Byte) /\ Len(h) = HeaderLen
  BY <1>3, ToBytesType
<1>6. r \o x = (h \o d) \o f
  BY <1>2, FramesFirst DEF Frame
<1>7. d \o f \in Seq(Byte) /\ (h \o d) \o f = h \o (d \o f)
  BY <1>3, <1>4, <1>5, BytesAssoc, ConcatProperties
<1> HIDE DEF d, h, f
<1>8. 1 \in 1..Len(r) /\ HeaderLen \in 1..Len(r) /\ 1 \in 1..Len(h) /\ HeaderLen \in 1..Len(h)
  BY <1>1, <1>5
<1>9. SubSeq(r \o x, 1, HeaderLen) = SubSeq(r, 1, HeaderLen)
  BY <1>8, SubSeqOfConcat1
<1>10. SubSeq(h \o (d \o f), 1, HeaderLen) = SubSeq(h, 1, HeaderLen)
  BY <1>5, <1>7, <1>8, SubSeqOfConcat1
<1>11. SubSeq(h, 1, HeaderLen) = h
  BY <1>5, SubSeqFull
<1>12. Header(r) = h
  BY <1>6, <1>7, <1>9, <1>10, <1>11 DEF Header
<1>13. FromBytes(h) = Len(d)
  BY <1>3, HeaderRoundTrip DEF h
<1> QED
  BY <1>2, <1>12, <1>13 DEF d

\* read_batch splits off the first datagram, and what is left begins the frames of
\* the others.
LEMMA FrameSplit ==
    ASSUME NEW r \in Seq(Byte), NEW x \in Seq(Byte), NEW ds \in Seq(Datagram),
           r \o x = Frames(ds), HasFrame(r)
    PROVE  /\ ds # <<>>
           /\ SubSeq(r, HeaderLen + 1, FrameLen(r)) = ds[1]
           /\ SubSeq(r, FrameLen(r) + 1, Len(r)) \in Seq(Byte)
           /\ SubSeq(r, FrameLen(r) + 1, Len(r)) \o x = Frames(SubSeq(ds, 2, Len(ds)))
<1> DEFINE d == ds[1]
<1> DEFINE h == ToBytes(Len(d))
<1> DEFINE f == Frames(SubSeq(ds, 2, Len(ds)))
<1>1. HeaderLen \in Nat /\ Len(r) \in Nat /\ Len(r) >= HeaderLen /\ Len(r) >= FrameLen(r)
  BY BridgeAssumption DEF HasFrame
<1>2. ds # <<>> /\ FrameLen(r) = HeaderLen + Len(d)
  BY <1>1, HeaderRead DEF FrameLen
<1>3. d \in Datagram /\ d \in Seq(Byte) /\ Len(d) \in Nat
  BY <1>2, FramesFirst, FrameType
<1>4. f \in Seq(Byte)
  BY <1>2, FramesFirst, FramesType
<1>5. h \in Seq(Byte) /\ Len(h) = HeaderLen
  BY <1>3, ToBytesType
<1>6. r \o x = (h \o d) \o f
  BY <1>2, FramesFirst DEF Frame
<1> HIDE DEF d, h, f
<1>7. Len(h) + Len(d) <= Len(r)
  BY <1>1, <1>2, <1>5
<1>8. /\ SubSeq(r, Len(h) + 1, Len(h) + Len(d)) = d
      /\ SubSeq(r, Len(h) + Len(d) + 1, Len(r)) \o x = f
  BY <1>3, <1>4, <1>5, <1>6, <1>7, Cut, ZenonT(60)
<1>9. SubSeq(r, HeaderLen + 1, FrameLen(r)) = d /\ SubSeq(r, FrameLen(r) + 1, Len(r)) \o x = f
  BY <1>2, <1>5, <1>8
<1>10. SubSeq(r, FrameLen(r) + 1, Len(r)) \in Seq(Byte)
  BY <1>1, <1>2, <1>3, SubSeqProperties
<1> QED
  BY <1>2, <1>9, <1>10 DEF d, f

-----------------------------------------------------------------------------
\* read_batch

\* What the inner loop holds: the datagrams it has split off and the bytes it has not.
Split == [out : Seq(Seq(Byte)), rest : Seq(Byte)]

\* A turn of the loop keeps the types.
LEMMA SplitFrameType ==
    ASSUME NEW s \in Split
    PROVE  SplitFrame(s) \in Split
<1>1. s.out \in Seq(Seq(Byte)) /\ s.rest \in Seq(Byte) /\ Len(s.rest) \in Nat
  BY DEF Split
<1>2. CASE ~HasFrame(s.rest)
  BY <1>2 DEF SplitFrame
<1>3. CASE HasFrame(s.rest)
  <2> DEFINE r == s.rest
  <2>1. HeaderLen \in Nat /\ Len(r) >= HeaderLen /\ Len(r) >= FrameLen(r)
    BY <1>3, BridgeAssumption DEF HasFrame
  <2>2. Header(r) \in Seq(Byte)
    BY <1>1, <2>1, SubSeqProperties DEF Header
  <2>3. FrameLen(r) \in Nat /\ FrameLen(r) >= HeaderLen
    BY <2>1, <2>2, FromBytesType DEF FrameLen
  <2>4. /\ SubSeq(r, HeaderLen + 1, FrameLen(r)) \in Seq(Byte)
        /\ SubSeq(r, FrameLen(r) + 1, Len(r)) \in Seq(Byte)
    BY <1>1, <2>1, <2>3, SubSeqProperties
  <2>5. Append(s.out, SubSeq(r, HeaderLen + 1, FrameLen(r))) \in Seq(Seq(Byte))
    BY <1>1, <2>4, AppendProperties
  <2> QED
    BY <1>3, <2>4, <2>5 DEF SplitFrame, Split
<1> QED
  BY <1>2, <1>3

\* Turns makes one turn of the loop per step.
LEMMA TurnsRec ==
    ASSUME NEW buf \in Seq(Byte)
    PROVE  /\ \A n \in 0..ReadBatch : Turns(buf)[n] \in Split
           /\ Turns(buf)[0] = [out |-> <<>>, rest |-> buf]
           /\ \A n \in 1..ReadBatch : Turns(buf)[n] = SplitFrame(Turns(buf)[n - 1])
<1> DEFINE P(g) ==
      g = [n \in 0..ReadBatch |->
             IF n = 0 THEN [out |-> <<>>, rest |-> buf] ELSE SplitFrame(g[n - 1])]
<1> DEFINE step == [n \in 1..ReadBatch |-> [v \in Split |-> SplitFrame(v)]]
<1>1. /\ ReadBatch \in Nat
      /\ [out |-> <<>>, rest |-> buf] \in Split
      /\ \A n \in 1..ReadBatch, v \in Split : SplitFrame(v) \in Split
  <2>1. [out |-> <<>>, rest |-> buf] \in Split
    BY DEF Split
  <2> QED
    BY <2>1, SplitFrameType, BridgeAssumption
<1>2. step \in [1..ReadBatch -> [Split -> Split]]
  BY <1>1
<1>3. PICK f : Follows(f, Split, [out |-> <<>>, rest |-> buf], ReadBatch, step)
  <2> HIDE DEF step
  <2> QED
    BY <1>1, <1>2, Recursion, Zenon
<1>4. P(f)
  <2>1. f \in [0..ReadBatch -> Split] /\ f[0] = [out |-> <<>>, rest |-> buf]
    BY <1>3, Zenon DEF Follows
  <2>2. ASSUME NEW n \in 1..ReadBatch PROVE f[n] = SplitFrame(f[n - 1])
    <3>1. f[n] = step[n][f[n - 1]]
      BY <1>3, Zenon DEF Follows
    <3>2. f[n - 1] \in Split
      <4>1. n - 1 \in 0..ReadBatch
        BY <1>1
      <4> QED
        BY <2>1, <4>1
    <3> QED
      BY <3>1, <3>2
  <2>3. \A n \in 0..ReadBatch :
            f[n] = IF n = 0 THEN [out |-> <<>>, rest |-> buf] ELSE SplitFrame(f[n - 1])
    BY <1>1, <2>1, <2>2
  <2> QED
    BY <2>1, <2>3
<1>5. P(Turns(buf))
  <2>1. Turns(buf) = CHOOSE g : P(g)
    BY DEF Turns
  <2> HIDE DEF P
  <2> QED
    BY <1>4, <2>1, Zenon
<1>6. Turns(buf)[0] = [out |-> <<>>, rest |-> buf]
  BY <1>1, <1>5
<1>7. \A n \in 1..ReadBatch : Turns(buf)[n] = SplitFrame(Turns(buf)[n - 1])
  <2> TAKE n \in 1..ReadBatch
  <2>1. n \in 0..ReadBatch /\ n # 0
    BY <1>1
  <2> QED
    BY <1>5, <2>1
<1>8. \A n \in 0..ReadBatch : Turns(buf)[n] \in Split
  <2>1. \A n \in 1..ReadBatch : Turns(buf)[n - 1] \in Split => Turns(buf)[n] \in Split
    BY <1>1, <1>7
  <2> HIDE DEF P
  <2> QED
    BY <1>1, <1>6, <2>1, Within
<1> QED
  BY <1>6, <1>7, <1>8

\* The datagrams s.out are the first of ds, and s.rest with x after it are the
\* frames of the others.
Begins(s, x, ds) ==
    \E k \in 0..Len(ds) :
        /\ s.out = SubSeq(ds, 1, k)
        /\ s.rest \o x = Frames(SubSeq(ds, k + 1, Len(ds)))

\* A turn of the loop keeps this.
LEMMA SplitFrameBegins ==
    ASSUME NEW s \in Split, NEW x \in Seq(Byte), NEW ds \in Seq(Datagram), Begins(s, x, ds)
    PROVE  Begins(SplitFrame(s), x, ds)
<1>1. CASE ~HasFrame(s.rest)
  BY <1>1 DEF SplitFrame
<1>2. CASE HasFrame(s.rest)
  <2>1. PICK k \in 0..Len(ds) :
            s.out = SubSeq(ds, 1, k) /\ s.rest \o x = Frames(SubSeq(ds, k + 1, Len(ds)))
    BY DEF Begins
  <2> DEFINE es == SubSeq(ds, k + 1, Len(ds))
  <2> DEFINE r == s.rest
  <2>2. r \in Seq(Byte) /\ Len(ds) \in Nat
    BY DEF Split
  <2>3. /\ es \in Seq(Datagram) /\ Len(es) = Len(ds) - k
        /\ \A i \in 1..(Len(ds) - k) : es[i] = ds[k + i]
    BY <2>2, SubSeqProperties
  <2> HIDE DEF es
  <2>4. r \o x = Frames(es)
    BY <2>1 DEF es
  <2>5. /\ es # <<>>
        /\ SubSeq(r, HeaderLen + 1, FrameLen(r)) = es[1]
        /\ SubSeq(r, FrameLen(r) + 1, Len(r)) \o x = Frames(SubSeq(es, 2, Len(es)))
    BY <1>2, <2>2, <2>3, <2>4, FrameSplit
  <2>6. Len(es) # 0
    BY <2>3, <2>5
  <2>7. k + 1 \in 1..Len(ds) /\ 1 \in 1..(k + 1) /\ k + 1 \in 0..Len(ds)
    BY <2>2, <2>3, <2>6
  <2>8. es[1] = ds[k + 1]
    BY <2>2, <2>3, <2>7
  <2>9. Append(SubSeq(ds, 1, k), ds[k + 1]) = SubSeq(ds, 1, k + 1)
    BY <2>7
  <2>10. SubSeq(es, 2, Len(es)) = SubSeq(ds, (k + 1) + 1, Len(ds))
    <3> DEFINE a == SubSeq(es, 2, Len(es))
    <3> DEFINE b == SubSeq(ds, (k + 1) + 1, Len(ds))
    <3>1. /\ a \in Seq(Datagram) /\ Len(a) = Len(ds) - k - 1
          /\ \A i \in 1..(Len(ds) - k - 1) : a[i] = es[i + 1]
      BY <2>2, <2>3, <2>7, SubSeqProperties
    <3>2. /\ b \in Seq(Datagram) /\ Len(b) = Len(ds) - k - 1
          /\ \A i \in 1..(Len(ds) - k - 1) : b[i] = ds[k + 1 + i]
      BY <2>2, <2>7, SubSeqProperties
    <3>3. \A i \in 1..(Len(ds) - k - 1) : a[i] = b[i]
      <4> TAKE i \in 1..(Len(ds) - k - 1)
      <4> HIDE DEF a, b
      <4>1. i + 1 \in 1..(Len(ds) - k) /\ k + (i + 1) = k + 1 + i
        BY <2>2
      <4> QED
        BY <2>3, <3>1, <3>2, <4>1
    <3> HIDE DEF a, b
    <3>4. a = b
      BY <3>1, <3>2, <3>3, SeqEqual
    <3> QED
      BY <3>4 DEF a, b
  <2>11. /\ SplitFrame(s).out = SubSeq(ds, 1, k + 1)
         /\ SplitFrame(s).rest = SubSeq(r, FrameLen(r) + 1, Len(r))
    BY <1>2, <2>1, <2>5, <2>8, <2>9 DEF SplitFrame
  <2>12. SplitFrame(s).rest \o x = Frames(SubSeq(ds, (k + 1) + 1, Len(ds)))
    BY <2>5, <2>10, <2>11
  <2> QED
    BY <2>7, <2>11, <2>12 DEF Begins
<1> QED
  BY <1>1, <1>2

\* The parser is the inverse of the writer: whatever part of the frames of ds is in
\* the buffer, read_batch gives the first datagrams and keeps the bytes of the others.
LEMMA ParseInverts ==
    ASSUME NEW buf \in Seq(Byte), NEW x \in Seq(Byte), NEW ds \in Seq(Datagram),
           buf \o x = Frames(ds)
    PROVE  Parse(buf) \in Split /\ Begins(Parse(buf), x, ds)
<1> DEFINE G == {s \in Split : Begins(s, x, ds)}
<1> DEFINE s0 == [out |-> <<>>, rest |-> buf]
<1>1. ReadBatch \in Nat
  BY BridgeAssumption
<1>2. Turns(buf)[0] \in G
  <2>1. Turns(buf)[0] = s0 /\ s0 \in Split
    BY TurnsRec DEF Split
  <2>2. SubSeq(ds, 1, 0) = <<>> /\ SubSeq(ds, 0 + 1, Len(ds)) = ds /\ 0 \in 0..Len(ds)
    BY SubSeqEmpty, SubSeqFull
  <2>3. Begins(s0, x, ds)
    BY <2>2 DEF Begins
  <2> QED
    BY <2>1, <2>3
<1>3. \A n \in 1..ReadBatch : Turns(buf)[n - 1] \in G => Turns(buf)[n] \in G
  <2> TAKE n \in 1..ReadBatch
  <2> HAVE Turns(buf)[n - 1] \in G
  <2>1. Turns(buf)[n] = SplitFrame(Turns(buf)[n - 1])
    BY TurnsRec
  <2> QED
    BY <2>1, SplitFrameType, SplitFrameBegins
<1>4. \A n \in 0..ReadBatch : Turns(buf)[n] \in G
  <2> HIDE DEF G
  <2> QED
    BY <1>1, <1>2, <1>3, Within
<1>5. Turns(buf)[ReadBatch] \in G
  BY <1>1, <1>4
<1> QED
  BY <1>5 DEF Parse

\* read_batch returns sequences of bytes.
LEMMA ParseType ==
    ASSUME NEW buf \in Seq(Byte)
    PROVE  Parse(buf) \in Split
<1>1. ReadBatch \in 0..ReadBatch
  BY BridgeAssumption
<1> QED
  BY <1>1, TurnsRec DEF Parse

-----------------------------------------------------------------------------
\* The invariant

\* Between writes nothing is left to write, and a batch that was read is delivered
\* before the loop goes on.
PhaseInv ==
    \A e \in End :
        /\ pc[e] # "writing" => wbuf[e] = <<>>
        /\ pc[e] \in {"select", "writing"} => down[e] = <<>>

\* The datagrams e has taken that have not come out at the other end.
Owed(e) == SubSeq(taken[e], Len(passed[Other(e)]) + 1, Len(taken[e]))

\* What has come out is what went in first and, until the reader ends, what is on
\* its way is the frames of the others.
Flow(e) ==
    /\ IsPrefix(passed[Other(e)], taken[e])
    /\ pc[Other(e)] # "ended" => rbuf[Other(e)] \o pipe[e] \o wbuf[e] = Frames(Owed(e))

FlowInv == \A e \in End : Flow(e)

BridgeInv == TypeOK /\ PhaseInv /\ FlowInv

\* There are two ends.
LEMMA Ends ==
    \A e \in End : Other(e) \in End /\ Other(e) # e /\ Other(Other(e)) = e
                       /\ \A f \in End : f = e \/ f = Other(e)
BY DEF End, Other

\* A batch is a sequence of datagrams.
LEMMA BatchType ==
    ASSUME NEW e \in End, NEW b \in Batches(e)
    PROVE  b \in Seq(Datagram)
<1>1. b \in UNION {[1..m -> Datagram] : m \in 0..Batch[e]} /\ Batch[e] \in Nat
  BY BridgeAssumption DEF Batches, BoundedSeq, SeqOf
<1>2. PICK m \in 0..Batch[e] : b \in [1..m -> Datagram]
  BY <1>1
<1>3. m \in Nat
  BY <1>1
<1> QED
  BY <1>2, <1>3

\* What SubSeq cuts out of a byte sequence is one, and two adjacent cuts make the whole.
LEMMA BytesCut ==
    ASSUME NEW s \in Seq(Byte), NEW n \in 0..Len(s)
    PROVE  /\ SubSeq(s, 1, n) \in Seq(Byte) /\ Len(SubSeq(s, 1, n)) = n
           /\ SubSeq(s, n + 1, Len(s)) \in Seq(Byte)
           /\ Len(SubSeq(s, n + 1, Len(s))) = Len(s) - n
           /\ SubSeq(s, 1, n) \o SubSeq(s, n + 1, Len(s)) = s
<1>1. Len(s) \in Nat /\ n \in Nat /\ n <= Len(s)
  OBVIOUS
<1>2. SubSeq(s, 1, n) \in Seq(Byte) /\ Len(SubSeq(s, 1, n)) = n
  BY <1>1, SubSeqProperties
<1>3. SubSeq(s, n + 1, Len(s)) \in Seq(Byte) /\ Len(SubSeq(s, n + 1, Len(s))) = Len(s) - n
  BY <1>1, SubSeqProperties
<1>4. 1 \in 1..(Len(s) + 1) /\ n \in (1 - 1)..Len(s) /\ Len(s) \in n..Len(s)
  BY <1>1
<1>5. SubSeq(s, 1, n) \o SubSeq(s, n + 1, Len(s)) = SubSeq(s, 1, Len(s))
  BY <1>4, ConcatAdjacentSubSeq
<1>6. SubSeq(s, 1, Len(s)) = s
  BY SubSeqFull
<1> QED
  BY <1>2, <1>3, <1>5, <1>6

\* Datagrams taken later are added to what is owed.
LEMMA TakenLater ==
    ASSUME NEW p \in Seq(Seq(Byte)), NEW t \in Seq(Seq(Byte)), NEW b \in Seq(Seq(Byte)),
           IsPrefix(p, t)
    PROVE  /\ IsPrefix(p, t \o b)
           /\ SubSeq(t \o b, Len(p) + 1, Len(t \o b)) = SubSeq(t, Len(p) + 1, Len(t)) \o b
<1> DEFINE m == Len(p)
<1> DEFINE u == t \o b
<1>1. /\ m \in Nat /\ Len(t) \in Nat /\ Len(b) \in Nat /\ m <= Len(t)
      /\ SubSeq(p, 1, m) = SubSeq(t, 1, m)
  BY DEF IsPrefix
<1>2. /\ u \in Seq(Seq(Byte)) /\ Len(u) = Len(t) + Len(b)
      /\ \A i \in 1..Len(t) : u[i] = t[i]
      /\ \A i \in 1..Len(b) : u[Len(t) + i] = b[i]
  BY ConcatProperties
<1> HIDE DEF u
<1>3. SubSeq(u, 1, m) = SubSeq(t, 1, m)
  <2>1. /\ SubSeq(u, 1, m) \in Seq(Seq(Byte)) /\ Len(SubSeq(u, 1, m)) = m
        /\ \A i \in 1..m : SubSeq(u, 1, m)[i] = u[i]
    BY <1>1, <1>2, SubSeqProperties
  <2>2. /\ SubSeq(t, 1, m) \in Seq(Seq(Byte)) /\ Len(SubSeq(t, 1, m)) = m
        /\ \A i \in 1..m : SubSeq(t, 1, m)[i] = t[i]
    BY <1>1, SubSeqProperties
  <2>3. \A i \in 1..m : SubSeq(u, 1, m)[i] = SubSeq(t, 1, m)[i]
    BY <1>1, <1>2, <2>1, <2>2
  <2> QED
    BY <2>1, <2>2, <2>3, SeqEqual
<1>4. IsPrefix(p, u)
  BY <1>1, <1>2, <1>3 DEF IsPrefix
<1> DEFINE v == SubSeq(u, m + 1, Len(u))
<1> DEFINE w == SubSeq(t, m + 1, Len(t))
<1>5. /\ v \in Seq(Seq(Byte)) /\ Len(v) = (Len(t) - m) + Len(b)
      /\ \A i \in 1..((Len(t) - m) + Len(b)) : v[i] = u[m + i]
  <2>1. u \in Seq(Seq(Byte)) /\ m \in Nat /\ Len(u) \in Nat /\ m <= Len(u)
    BY <1>1, <1>2
  <2> HIDE DEF u, m
  <2>2. /\ v \in Seq(Seq(Byte)) /\ Len(v) = Len(u) - m
        /\ \A i \in 1..(Len(u) - m) : v[i] = u[m + i]
    BY <2>1, SubSeqProperties
  <2>3. Len(u) - m = (Len(t) - m) + Len(b)
    BY <1>1, <1>2
  <2> HIDE DEF v
  <2> QED
    BY <2>2, <2>3
<1>6. w \in Seq(Seq(Byte)) /\ Len(w) = Len(t) - m /\ \A i \in 1..(Len(t) - m) : w[i] = t[m + i]
  BY <1>1, SubSeqProperties
<1> HIDE DEF v, w
<1>7. /\ w \o b \in Seq(Seq(Byte)) /\ Len(w \o b) = Len(w) + Len(b)
      /\ \A i \in 1..(Len(w) + Len(b)) :
             (w \o b)[i] = IF i <= Len(w) THEN w[i] ELSE b[i - Len(w)]
  <2>1. w \in Seq(Seq(Byte))
    BY <1>6
  <2> QED
    BY <2>1, ConcatProperties, Zenon
<1>8. \A i \in 1..Len(v) : v[i] = (w \o b)[i]
  <2> TAKE i \in 1..Len(v)
  <2>1. i \in 1..((Len(t) - m) + Len(b)) /\ i \in 1..(Len(w) + Len(b))
    BY <1>5, <1>6
  <2>2. CASE i <= Len(t) - m
    <3>1. m + i \in 1..Len(t) /\ i \in 1..(Len(t) - m)
      BY <1>1, <2>1, <2>2
    <3> QED
      BY <1>2, <1>5, <1>6, <1>7, <2>1, <2>2, <3>1
  <2>3. CASE ~(i <= Len(t) - m)
    <3>1. i - (Len(t) - m) \in 1..Len(b) /\ Len(t) + (i - (Len(t) - m)) = m + i
      BY <1>1, <2>1, <2>3
    <3>2. v[i] = u[m + i] /\ u[m + i] = b[i - (Len(t) - m)]
      BY <1>2, <1>5, <2>1, <3>1
    <3>3. (w \o b)[i] = b[i - (Len(t) - m)]
      BY <1>6, <1>7, <2>1, <2>3
    <3> QED
      BY <3>2, <3>3
  <2> QED
    BY <2>2, <2>3
<1>9. v = w \o b
  BY <1>5, <1>6, <1>7, <1>8, SeqEqual
<1> QED
  BY <1>4, <1>9 DEF u, v, w

\* Datagrams passed on are taken off what is owed.
LEMMA PassedOn ==
    ASSUME NEW S, NEW p \in Seq(S), NEW t \in Seq(S), IsPrefix(p, t),
           NEW k \in 0..(Len(t) - Len(p))
    PROVE  LET ds == SubSeq(t, Len(p) + 1, Len(t))
               q  == p \o SubSeq(ds, 1, k)
           IN  IsPrefix(q, t) /\ SubSeq(t, Len(q) + 1, Len(t)) = SubSeq(ds, k + 1, Len(ds))
<1> DEFINE m == Len(p)
<1> DEFINE ds == SubSeq(t, m + 1, Len(t))
<1> DEFINE h == SubSeq(ds, 1, k)
<1> DEFINE q == p \o h
<1>1. /\ m \in Nat /\ Len(t) \in Nat /\ m <= Len(t) /\ k \in Nat /\ k <= Len(t) - m
      /\ SubSeq(p, 1, m) = SubSeq(t, 1, m)
  BY DEF IsPrefix
<1>2. ds \in Seq(S) /\ Len(ds) = Len(t) - m /\ \A i \in 1..(Len(t) - m) : ds[i] = t[m + i]
  BY <1>1, SubSeqProperties
<1> HIDE DEF ds
<1>3. h \in Seq(S) /\ Len(h) = k /\ \A i \in 1..k : h[i] = ds[i]
  BY <1>1, <1>2, SubSeqProperties
<1> HIDE DEF h
<1>4. /\ q \in Seq(S) /\ Len(q) = m + k
      /\ \A i \in 1..(m + k) : q[i] = IF i <= m THEN p[i] ELSE h[i - m]
  <2>1. /\ q \in Seq(S) /\ Len(q) = m + Len(h)
        /\ \A i \in 1..(m + Len(h)) : q[i] = IF i <= m THEN p[i] ELSE h[i - m]
    <3>1. h \in Seq(S)
      BY <1>3
    <3> QED
      BY <3>1, ConcatProperties, Zenon
  <2> QED
    BY <1>3, <2>1
<1> HIDE DEF q
<1>5. \A i \in 1..m : p[i] = t[i]
  <2>1. \A i \in 1..m : SubSeq(p, 1, m)[i] = p[i]
    BY <1>1, SubSeqProperties
  <2>2. \A i \in 1..m : SubSeq(t, 1, m)[i] = t[i]
    BY <1>1, SubSeqProperties
  <2> QED
    BY <1>1, <2>1, <2>2
<1>6. \A i \in 1..(m + k) : q[i] = t[i]
  <2> TAKE i \in 1..(m + k)
  <2>1. CASE i <= m
    <3>1. i \in 1..m
      BY <1>1, <2>1
    <3> QED
      BY <1>4, <1>5, <2>1, <3>1
  <2>2. CASE ~(i <= m)
    <3>1. i - m \in 1..k /\ i - m \in 1..(Len(t) - m) /\ m + (i - m) = i
      BY <1>1, <2>2
    <3> QED
      BY <1>2, <1>3, <1>4, <2>2, <3>1
  <2> QED
    BY <2>1, <2>2
<1>7. SubSeq(q, 1, m + k) = SubSeq(t, 1, m + k)
  <2>1. /\ SubSeq(q, 1, m + k) \in Seq(S) /\ Len(SubSeq(q, 1, m + k)) = m + k
        /\ \A i \in 1..(m + k) : SubSeq(q, 1, m + k)[i] = q[i]
    BY <1>1, <1>4, SubSeqProperties
  <2>2. /\ SubSeq(t, 1, m + k) \in Seq(S) /\ Len(SubSeq(t, 1, m + k)) = m + k
        /\ \A i \in 1..(m + k) : SubSeq(t, 1, m + k)[i] = t[i]
    BY <1>1, SubSeqProperties
  <2>3. \A i \in 1..(m + k) : SubSeq(q, 1, m + k)[i] = SubSeq(t, 1, m + k)[i]
    BY <1>6, <2>1, <2>2
  <2> QED
    BY <2>1, <2>2, <2>3, SeqEqual
<1>8. IsPrefix(q, t)
  BY <1>1, <1>4, <1>7 DEF IsPrefix
<1> DEFINE a == SubSeq(t, (m + k) + 1, Len(t))
<1> DEFINE b == SubSeq(ds, k + 1, Len(ds))
<1>9. /\ a \in Seq(S) /\ Len(a) = (Len(t) - m) - k
      /\ \A i \in 1..((Len(t) - m) - k) : a[i] = t[m + k + i]
  BY <1>1, SubSeqProperties
<1>10. /\ b \in Seq(S) /\ Len(b) = (Len(t) - m) - k
       /\ \A i \in 1..((Len(t) - m) - k) : b[i] = ds[k + i]
  BY <1>1, <1>2, SubSeqProperties
<1> HIDE DEF a, b
<1>11. \A i \in 1..Len(a) : a[i] = b[i]
  <2> TAKE i \in 1..Len(a)
  <2>1. /\ i \in 1..((Len(t) - m) - k) /\ k + i \in 1..(Len(t) - m)
        /\ m + (k + i) = m + k + i
    BY <1>1, <1>9
  <2> QED
    BY <1>2, <1>9, <1>10, <2>1
<1>12. a = b
  BY <1>9, <1>10, <1>11, SeqEqual
<1> QED
  BY <1>4, <1>8, <1>12 DEF q, h, ds, a, b

\* A read takes some bytes of the connection, or none when a frame is waiting.
LEMMA ReadsSome ==
    ASSUME TypeOK, NEW e \in End, Read(e)
    PROVE  \E n \in 0..Len(pipe[Other(e)]) : ReadStep(e, n)
<1>1. Len(pipe[Other(e)]) \in Nat
  BY Ends DEF TypeOK
<1> QED
  BY <1>1 DEF Read

\* Every step keeps the types.
LEMMA TypeStep == TypeOK /\ [Next]_vars => TypeOK'
<1> SUFFICES ASSUME TypeOK, [Next]_vars PROVE TypeOK'
  OBVIOUS
<1> USE Ends DEF TypeOK, Goto
<1>1. CASE UNCHANGED vars
  BY <1>1 DEF vars
<1>2. ASSUME NEW e \in End, TakeBatch(e) PROVE TypeOK'
  <2>1. PICK b \in Batches(e) :
            /\ taken' = [taken EXCEPT ![e] = @ \o b]
            /\ wbuf' = [wbuf EXCEPT ![e] = Frames(b)]
    BY <1>2 DEF TakeBatch
  <2>2. b \in Seq(Datagram) /\ Frames(b) \in Seq(Byte)
    BY <2>1, BatchType, FramesType
  <2>3. taken[e] \o b \in Seq(Datagram)
    BY <2>2, ConcatProperties
  <2>4. taken' \in [End -> Seq(Datagram)] /\ wbuf' \in [End -> Seq(Byte)]
    BY <2>1, <2>2, <2>3
  <2>5. /\ pc' \in [End -> {"select", "writing", "deliver", "ended"}]
        /\ down' \in [End -> Seq(Seq(Byte))]
    BY <1>2 DEF TakeBatch
  <2>6. rbuf' \in [End -> Seq(Byte)] /\ UNCHANGED <<pipe, passed, stop>>
    BY <1>2 DEF TakeBatch, AfterDrop
  <2> QED
    BY <2>4, <2>5, <2>6
<1>3. ASSUME NEW e \in End, WriteSome(e) PROVE TypeOK'
  <2>1. PICK n \in 1..Len(wbuf[e]) :
            /\ Len(pipe[e]) + n <= Room
            /\ pipe' = [pipe EXCEPT ![e] = @ \o SubSeq(wbuf[e], 1, n)]
            /\ wbuf' = [wbuf EXCEPT ![e] = SubSeq(@, n + 1, Len(@))]
    BY <1>3 DEF WriteSome
  <2>2. n \in 0..Len(wbuf[e])
    OBVIOUS
  <2>3. /\ SubSeq(wbuf[e], 1, n) \in Seq(Byte) /\ Len(SubSeq(wbuf[e], 1, n)) = n
        /\ SubSeq(wbuf[e], n + 1, Len(wbuf[e])) \in Seq(Byte)
    BY <2>2, BytesCut
  <2>4. /\ pipe[e] \o SubSeq(wbuf[e], 1, n) \in Seq(Byte)
        /\ Len(pipe[e] \o SubSeq(wbuf[e], 1, n)) = Len(pipe[e]) + n
    BY <2>3, ConcatProperties
  <2>5. pipe' \in [End -> Seq(Byte)] /\ \A f \in End : Len(pipe'[f]) <= Room
    BY <2>1, <2>4
  <2>6. wbuf' \in [End -> Seq(Byte)]
    BY <2>1, <2>3
  <2>7. pc' \in [End -> {"select", "writing", "deliver", "ended"}]
    BY <1>3 DEF WriteSome
  <2> QED
    BY <1>3, <2>5, <2>6, <2>7 DEF WriteSome
<1>4. ASSUME NEW e \in End, WriteFails(e) PROVE TypeOK'
  BY <1>4 DEF WriteFails
<1>5. ASSUME NEW e \in End, Read(e) PROVE TypeOK'
  <2>1. PICK n \in 0..Len(pipe[Other(e)]) : ReadStep(e, n)
    BY <1>5, ReadsSome
  <2> DEFINE o == Other(e)
  <2> DEFINE buf == rbuf[e] \o SubSeq(pipe[o], 1, n)
  <2> DEFINE rest == SubSeq(pipe[o], n + 1, Len(pipe[o]))
  <2>2. /\ SubSeq(pipe[o], 1, n) \in Seq(Byte) /\ rest \in Seq(Byte)
        /\ Len(rest) = Len(pipe[o]) - n
    BY BytesCut
  <2>3. buf \in Seq(Byte)
    BY <2>2, ConcatProperties
  <2>4. Parse(buf) \in Split
    BY <2>3, ParseType
  <2>5. Parse(buf).out \in Seq(Seq(Byte)) /\ Parse(buf).rest \in Seq(Byte)
    BY <2>4 DEF Split
  <2>6. down[e] \o Parse(buf).out \in Seq(Seq(Byte))
    BY <2>5, ConcatProperties
  <2>7. /\ pipe' = [pipe EXCEPT ![o] = rest]
        /\ rbuf' = [rbuf EXCEPT ![e] = Parse(buf).rest]
        /\ down' = [down EXCEPT ![e] = down[e] \o Parse(buf).out]
        /\ UNCHANGED <<taken, wbuf, stop>>
    BY <2>1 DEF ReadStep
  <2>7a. \/ pc' = pc /\ passed' = passed
         \/ /\ pc' = [pc EXCEPT ![e] = "deliver"]
            /\ passed' = [passed EXCEPT ![e] = passed[e] \o down'[e]]
    <3> HIDE DEF buf, rest
    <3> QED
      BY <2>1 DEF ReadStep
  <2> HIDE DEF buf, rest
  <2>8. down' \in [End -> Seq(Seq(Byte))]
    BY <2>6, <2>7
  <2>9. passed' \in [End -> Seq(Seq(Byte))]
    <3>1. passed[e] \o down'[e] \in Seq(Seq(Byte))
      BY <2>8, ConcatProperties
    <3> QED
      BY <2>7a, <3>1
  <2>10. pipe' \in [End -> Seq(Byte)] /\ \A f \in End : Len(pipe'[f]) <= Room
    <3>1. Len(rest) <= Room
      BY <2>2, BridgeAssumption
    <3> QED
      BY <2>2, <2>7, <3>1
  <2>11. rbuf' \in [End -> Seq(Byte)]
    BY <2>5, <2>7
  <2>12. pc' \in [End -> {"select", "writing", "deliver", "ended"}]
    BY <2>7a
  <2> QED
    BY <2>7, <2>8, <2>9, <2>10, <2>11, <2>12
<1>6. ASSUME NEW e \in End, ReadEnds(e) PROVE TypeOK'
  BY <1>6 DEF ReadEnds
<1>7. ASSUME NEW e \in End, Deliver(e) PROVE TypeOK'
  BY <1>7 DEF Deliver
<1>8. ASSUME NEW e \in End, SideFails(e) PROVE TypeOK'
  BY <1>8 DEF SideFails
<1>9. CASE StopSeen
  BY <1>9 DEF StopSeen
<1>10. CASE Cancel
  BY <1>10 DEF Cancel
<1> QED
  BY <1>1, <1>2, <1>3, <1>4, <1>5, <1>6, <1>7, <1>8, <1>9, <1>10 DEF Next, EndNext

\* Every step keeps the phases.
LEMMA PhaseStep == TypeOK /\ PhaseInv /\ [Next]_vars => PhaseInv'
<1> SUFFICES ASSUME TypeOK, PhaseInv, [Next]_vars PROVE PhaseInv'
  OBVIOUS
<1> USE Ends DEF TypeOK, PhaseInv, Goto
<1>1. CASE UNCHANGED vars
  BY <1>1 DEF vars
<1>2. ASSUME NEW e \in End, TakeBatch(e) PROVE PhaseInv'
  BY <1>2 DEF TakeBatch
<1>3. ASSUME NEW e \in End, WriteSome(e) PROVE PhaseInv'
  <2>1. pc[e] = "writing" /\ UNCHANGED down /\ \A f \in End \ {e} : wbuf'[f] = wbuf[f]
    BY <1>3 DEF WriteSome
  <2>2. IF wbuf'[e] = <<>> THEN pc' = [pc EXCEPT ![e] = "select"] ELSE UNCHANGED pc
    BY <1>3 DEF WriteSome
  <2> QED
    BY <2>1, <2>2
<1>4. ASSUME NEW e \in End, WriteFails(e) PROVE PhaseInv'
  BY <1>4 DEF WriteFails
<1>5. ASSUME NEW e \in End, Read(e) PROVE PhaseInv'
  <2>1. PICK n \in 0..Len(pipe[Other(e)]) : ReadStep(e, n)
    BY <1>5, ReadsSome
  <2>2. pc[e] = "select"
    BY <1>5 DEF Read
  <2>3. IF down'[e] # <<>> THEN pc' = [pc EXCEPT ![e] = "deliver"] ELSE UNCHANGED pc
    BY <2>1 DEF ReadStep, Returns
  <2>4. UNCHANGED wbuf /\ \A f \in End \ {e} : down'[f] = down[f]
    BY <2>1 DEF ReadStep
  <2> QED
    BY <2>2, <2>3, <2>4
<1>6. ASSUME NEW e \in End, ReadEnds(e) PROVE PhaseInv'
  BY <1>6 DEF ReadEnds
<1>7. ASSUME NEW e \in End, Deliver(e) PROVE PhaseInv'
  BY <1>7 DEF Deliver
<1>8. ASSUME NEW e \in End, SideFails(e) PROVE PhaseInv'
  BY <1>8 DEF SideFails
<1>9. CASE StopSeen
  BY <1>9 DEF StopSeen
<1>10. CASE Cancel
  BY <1>10 DEF Cancel
<1> QED
  BY <1>1, <1>2, <1>3, <1>4, <1>5, <1>6, <1>7, <1>8, <1>9, <1>10 DEF Next, EndNext

\* What direction e depends on is unchanged, and its reader has not come back.
LEMMA FlowFrame ==
    ASSUME NEW e \in End, Flow(e),
           taken'[e] = taken[e], passed'[Other(e)] = passed[Other(e)],
           pc'[Other(e)] # "ended" =>
               /\ pc[Other(e)] # "ended"
               /\ rbuf'[Other(e)] = rbuf[Other(e)]
               /\ pipe'[e] = pipe[e]
               /\ wbuf'[e] = wbuf[e]
    PROVE  Flow(e)'
<1>1. Other(e)' = Other(e)
  BY DEF Other
<1> QED
  BY <1>1 DEF Flow, Owed

\* Taking a batch adds its datagrams to what is owed and its frames to the stream.
LEMMA TakeFlow ==
    ASSUME TypeOK, PhaseInv, NEW e \in End, Flow(e), TakeBatch(e)
    PROVE  Flow(e)'
<1> DEFINE r == Other(e)
<1>1. PICK b \in Batches(e) :
          taken' = [taken EXCEPT ![e] = @ \o b] /\ wbuf' = [wbuf EXCEPT ![e] = Frames(b)]
  BY DEF TakeBatch
<1>2. /\ r \in End /\ r # e /\ b \in Seq(Datagram) /\ Frames(b) \in Seq(Byte)
      /\ taken[e] \in Seq(Datagram) /\ passed[r] \in Seq(Seq(Byte))
      /\ rbuf[r] \in Seq(Byte) /\ pipe[e] \in Seq(Byte)
  BY Ends, BatchType, FramesType DEF TypeOK
<1>3. taken'[e] = taken[e] \o b /\ wbuf'[e] = Frames(b)
  BY <1>1 DEF TypeOK
<1>4. /\ pc[e] = "select" /\ wbuf[e] = <<>> /\ pc'[r] = pc[r]
      /\ rbuf'[r] = rbuf[r] /\ pipe' = pipe /\ passed' = passed
  BY <1>2 DEF TakeBatch, PhaseInv, TypeOK, Goto, AfterDrop
<1>5. Other(e)' = r
  BY DEF Other
<1> HIDE DEF r
<1>6. IsPrefix(passed[r], taken[e])
  BY DEF Flow, r
<1>7. taken[e] \in Seq(Seq(Byte)) /\ b \in Seq(Seq(Byte))
  <2>1. Datagram \subseteq Seq(Byte)
    BY BridgeAssumption
  <2> QED
    BY <1>2, <2>1, SeqMonotonic
<1>8. /\ IsPrefix(passed[r], taken[e] \o b)
      /\ SubSeq(taken[e] \o b, Len(passed[r]) + 1, Len(taken[e] \o b))
           = SubSeq(taken[e], Len(passed[r]) + 1, Len(taken[e])) \o b
  <2> DEFINE p == passed[r]
  <2> DEFINE t == taken[e]
  <2>1. p \in Seq(Seq(Byte)) /\ t \in Seq(Seq(Byte)) /\ b \in Seq(Seq(Byte)) /\ IsPrefix(p, t)
    BY <1>2, <1>6, <1>7
  <2> HIDE DEF p, t
  <2>2. /\ IsPrefix(p, t \o b)
        /\ SubSeq(t \o b, Len(p) + 1, Len(t \o b)) = SubSeq(t, Len(p) + 1, Len(t)) \o b
    BY <2>1, TakenLater
  <2> QED
    BY <2>2 DEF p, t
<1>9. Owed(e)' = Owed(e) \o b /\ Owed(e) \in Seq(Datagram)
  <2>1. Owed(e)' = SubSeq(taken[e] \o b, Len(passed[r]) + 1, Len(taken[e] \o b))
    BY <1>3, <1>4, <1>5 DEF Owed
  <2>2. Owed(e) = SubSeq(taken[e], Len(passed[r]) + 1, Len(taken[e]))
    BY DEF Owed, r
  <2>3. Owed(e) \in Seq(Datagram)
    BY <1>2, <2>2, SubSeqProperties
  <2> QED
    BY <1>8, <2>1, <2>2, <2>3
<1>10. ASSUME pc'[r] # "ended"
       PROVE  rbuf'[r] \o pipe'[e] \o wbuf'[e] = Frames(Owed(e)')
  <2>1. rbuf[r] \o pipe[e] \o wbuf[e] = Frames(Owed(e))
    BY <1>4, <1>10 DEF Flow, r
  <2>2. rbuf[r] \o pipe[e] \in Seq(Byte)
    BY <1>2, ConcatProperties
  <2>3. (rbuf[r] \o pipe[e]) \o <<>> = rbuf[r] \o pipe[e]
    BY <2>2, ConcatEmptySeq
  <2>4. rbuf[r] \o pipe[e] = Frames(Owed(e))
    BY <1>4, <2>1, <2>3
  <2>5. Frames(Owed(e) \o b) = Frames(Owed(e)) \o Frames(b)
    BY <1>2, <1>9, FramesConcat
  <2> QED
    BY <1>3, <1>4, <1>9, <2>4, <2>5
<1> QED
  BY <1>3, <1>4, <1>5, <1>8, <1>10 DEF Flow

\* A part of a batch moves from the write buffer to the connection, in order.
LEMMA WriteFlow ==
    ASSUME TypeOK, NEW e \in End, Flow(e), WriteSome(e)
    PROVE  Flow(e)'
<1> DEFINE r == Other(e)
<1> DEFINE w == wbuf[e]
<1>1. PICK n \in 1..Len(w) :
          /\ pipe' = [pipe EXCEPT ![e] = @ \o SubSeq(w, 1, n)]
          /\ wbuf' = [wbuf EXCEPT ![e] = SubSeq(@, n + 1, Len(@))]
  BY DEF WriteSome
<1>2. /\ r \in End /\ r # e /\ w \in Seq(Byte) /\ Len(w) \in Nat
      /\ rbuf[r] \in Seq(Byte) /\ pipe[e] \in Seq(Byte)
  BY Ends DEF TypeOK
<1>3. /\ pipe'[e] = pipe[e] \o SubSeq(w, 1, n) /\ wbuf'[e] = SubSeq(w, n + 1, Len(w))
      /\ taken' = taken /\ passed' = passed /\ rbuf' = rbuf
  BY <1>1 DEF WriteSome, TypeOK
<1>4. pc'[r] = pc[r]
  BY <1>2 DEF WriteSome, Goto, TypeOK
<1>5. Other(e)' = r
  BY DEF Other
<1>6. n \in 0..Len(w)
  BY <1>2
<1> HIDE DEF r, w
<1> DEFINE x == SubSeq(w, 1, n)
<1> DEFINE y == SubSeq(w, n + 1, Len(w))
<1>7. x \in Seq(Byte) /\ y \in Seq(Byte) /\ x \o y = w
  BY <1>2, <1>6, BytesCut
<1> HIDE DEF x, y
<1>8. (rbuf[r] \o (pipe[e] \o x)) \o y = (rbuf[r] \o pipe[e]) \o w
  <2>0. rbuf[r] \in Seq(Byte) /\ pipe[e] \in Seq(Byte) /\ x \in Seq(Byte)
    BY <1>2, <1>7
  <2>1. /\ rbuf[r] \o pipe[e] \in Seq(Byte)
        /\ rbuf[r] \o (pipe[e] \o x) = (rbuf[r] \o pipe[e]) \o x
    BY <2>0, BytesAssoc, ConcatProperties, ZenonT(60)
  <2>2. ((rbuf[r] \o pipe[e]) \o x) \o y = (rbuf[r] \o pipe[e]) \o (x \o y)
    BY <1>7, <2>1, BytesAssoc
  <2> QED
    BY <1>7, <2>1, <2>2
<1>9. Owed(e)' = Owed(e)
  BY <1>3, <1>5 DEF Owed, r
<1>10. /\ IsPrefix(passed[r], taken[e])
       /\ pc[r] # "ended" => rbuf[r] \o pipe[e] \o w = Frames(Owed(e))
  BY DEF Flow, r, w
<1>11. pipe'[e] = pipe[e] \o x /\ wbuf'[e] = y
  BY <1>3 DEF x, y
<1>12. pc'[r] # "ended" => rbuf'[r] \o pipe'[e] \o wbuf'[e] = Frames(Owed(e)')
  BY <1>3, <1>4, <1>8, <1>9, <1>10, <1>11
<1> QED
  BY <1>3, <1>5, <1>10, <1>12 DEF Flow

\* A read passes on the first datagrams that are owed and keeps the bytes of the others.
LEMMA ReadFlow ==
    ASSUME TypeOK, PhaseInv, NEW e \in End, Flow(e), Read(Other(e))
    PROVE  Flow(e)'
<1> DEFINE r == Other(e)
<1>1. /\ r \in End /\ r # e /\ Other(r) = e /\ taken[e] \in Seq(Datagram)
      /\ passed[r] \in Seq(Seq(Byte)) /\ rbuf[r] \in Seq(Byte) /\ pipe[e] \in Seq(Byte)
      /\ wbuf[e] \in Seq(Byte) /\ Len(pipe[e]) \in Nat
  BY Ends DEF TypeOK
<1>2. PICK n \in 0..Len(pipe[Other(r)]) : ReadStep(r, n)
  BY <1>1, ReadsSome
<1>3. pc[r] = "select" /\ down[r] = <<>>
  BY <1>1 DEF Read, PhaseInv
<1>4. Other(e)' = r
  BY DEF Other
<1> HIDE DEF r
<1> DEFINE x == SubSeq(pipe[e], 1, n)
<1> DEFINE y == SubSeq(pipe[e], n + 1, Len(pipe[e]))
<1> DEFINE buf == rbuf[r] \o x
<1> DEFINE out == Parse(buf).out
<1> DEFINE rest == Parse(buf).rest
<1>5. /\ pipe'[e] = y /\ rbuf'[r] = rest /\ down'[r] = <<>> \o out
      /\ taken' = taken /\ wbuf' = wbuf
  BY <1>1, <1>2, <1>3 DEF ReadStep, TypeOK
<1>6. /\ down'[r] # <<>> => passed'[r] = passed[r] \o down'[r]
      /\ down'[r] = <<>> => passed' = passed
  BY <1>1, <1>2 DEF ReadStep, Returns, TypeOK
<1>7. x \in Seq(Byte) /\ y \in Seq(Byte) /\ x \o y = pipe[e]
  BY <1>1, <1>2, BytesCut
<1> HIDE DEF x, y
<1>8. buf \in Seq(Byte) /\ y \o wbuf[e] \in Seq(Byte)
  BY <1>1, <1>7, ConcatProperties
<1>9. buf \o (y \o wbuf[e]) = (rbuf[r] \o pipe[e]) \o wbuf[e]
  <2> DEFINE a == rbuf[r]
  <2> DEFINE w == wbuf[e]
  <2>1. a \in Seq(Byte) /\ w \in Seq(Byte) /\ buf \in Seq(Byte) /\ buf = a \o x
    BY <1>1, <1>8
  <2> HIDE DEF a, w, buf
  <2>2. /\ a \in Seq(Byte) /\ w \in Seq(Byte) /\ buf \in Seq(Byte)
        /\ x \in Seq(Byte) /\ y \in Seq(Byte)
    BY <1>7, <2>1
  <2>3. buf \o (y \o w) = (buf \o y) \o w
    BY <2>2, BytesAssoc, SMTT(60)
  <2>4. (a \o x) \o y = a \o (x \o y)
    BY <2>2, BytesAssoc, SMTT(60)
  <2>5. x \o y = pipe[e] /\ buf = a \o x
    BY <1>7, <2>1
  <2>6. buf \o (y \o w) = (a \o pipe[e]) \o w
    BY <2>3, <2>4, <2>5, Zenon
  <2> QED
    BY <2>6 DEF a, w
<1> HIDE DEF buf
<1> DEFINE ds == Owed(e)
<1>10. /\ IsPrefix(passed[r], taken[e])
       /\ ds = SubSeq(taken[e], Len(passed[r]) + 1, Len(taken[e]))
       /\ (rbuf[r] \o pipe[e]) \o wbuf[e] = Frames(ds)
  BY <1>3 DEF Flow, Owed, r
<1>11. ds \in Seq(Datagram) /\ Len(ds) = Len(taken[e]) - Len(passed[r])
  <2>1. Len(passed[r]) <= Len(taken[e]) /\ Len(passed[r]) \in Nat /\ Len(taken[e]) \in Nat
    BY <1>1, <1>10 DEF IsPrefix
  <2> DEFINE t == taken[e]
  <2> DEFINE m == Len(passed[r])
  <2>2. t \in Seq(Datagram) /\ m \in Nat /\ m <= Len(t) /\ Len(t) \in Nat
    BY <1>1, <2>1
  <2> HIDE DEF ds, t, m
  <2>3. /\ SubSeq(t, m + 1, Len(t)) \in Seq(Datagram)
        /\ Len(SubSeq(t, m + 1, Len(t))) = Len(t) - m
    BY <2>2, SubSeqProperties
  <2> QED
    BY <1>10, <2>3 DEF t, m
<1> HIDE DEF ds
<1>12. Parse(buf) \in Split /\ Begins(Parse(buf), y \o wbuf[e], ds)
  BY <1>8, <1>9, <1>10, <1>11, ParseInverts
<1>13. PICK k \in 0..Len(ds) :
          /\ out = SubSeq(ds, 1, k)
          /\ rest \o (y \o wbuf[e]) = Frames(SubSeq(ds, k + 1, Len(ds)))
  BY <1>12 DEF Begins
<1>14. out \in Seq(Seq(Byte)) /\ rest \in Seq(Byte)
  BY <1>12 DEF Split
<1> HIDE DEF out, rest
<1>15. down'[r] = out
  BY <1>5, <1>14, ConcatEmptySeq
<1>16. passed'[r] = passed[r] \o out
  BY <1>1, <1>6, <1>15, ConcatEmptySeq
<1>17. taken[e] \in Seq(Seq(Byte))
  <2>1. Datagram \subseteq Seq(Byte)
    BY BridgeAssumption
  <2> QED
    BY <1>1, <2>1, SeqMonotonic
<1>18. /\ IsPrefix(passed[r] \o SubSeq(ds, 1, k), taken[e])
       /\ SubSeq(taken[e], Len(passed[r] \o SubSeq(ds, 1, k)) + 1, Len(taken[e]))
            = SubSeq(ds, k + 1, Len(ds))
  <2>1. k \in 0..(Len(taken[e]) - Len(passed[r]))
    BY <1>11, <1>13
  <2> DEFINE p == passed[r]
  <2> DEFINE t == taken[e]
  <2>2. /\ p \in Seq(Seq(Byte)) /\ t \in Seq(Seq(Byte)) /\ IsPrefix(p, t)
        /\ k \in 0..(Len(t) - Len(p)) /\ ds = SubSeq(t, Len(p) + 1, Len(t))
    BY <1>1, <1>10, <1>17, <2>1
  <2> HIDE DEF p, t
  <2>3. LET es == SubSeq(t, Len(p) + 1, Len(t))
            q  == p \o SubSeq(es, 1, k)
        IN  IsPrefix(q, t) /\ SubSeq(t, Len(q) + 1, Len(t)) = SubSeq(es, k + 1, Len(es))
    BY <2>2, PassedOn
  <2>4. /\ IsPrefix(p \o SubSeq(ds, 1, k), t)
        /\ SubSeq(t, Len(p \o SubSeq(ds, 1, k)) + 1, Len(t)) = SubSeq(ds, k + 1, Len(ds))
    BY <2>2, <2>3
  <2> QED
    BY <2>4 DEF p, t
<1>19. IsPrefix(passed'[r], taken'[e]) /\ Owed(e)' = SubSeq(ds, k + 1, Len(ds))
  BY <1>4, <1>5, <1>13, <1>16, <1>18 DEF Owed
<1>20. rbuf'[r] \o pipe'[e] \o wbuf'[e] = Frames(Owed(e)')
  <2> DEFINE w == wbuf[e]
  <2>0. w \in Seq(Byte)
    BY <1>1
  <2> HIDE DEF w
  <2>2. rest \o (y \o w) = (rest \o y) \o w
    BY <1>7, <1>14, <2>0, BytesAssoc
  <2>1. rest \o (y \o wbuf[e]) = (rest \o y) \o wbuf[e]
    BY <2>2 DEF w
  <2> QED
    BY <1>5, <1>13, <1>19, <2>1
<1> QED
  BY <1>4, <1>19, <1>20 DEF Flow

\* Every step keeps what is owed and what is on its way together.
LEMMA FlowStep == TypeOK /\ PhaseInv /\ FlowInv /\ [Next]_vars => FlowInv'
<1> SUFFICES ASSUME TypeOK, PhaseInv, FlowInv, [Next]_vars PROVE FlowInv'
  OBVIOUS
<1>1. CASE UNCHANGED vars
  BY <1>1 DEF vars, FlowInv, Flow, Owed, Other
<1>2. ASSUME NEW e \in End, TakeBatch(e) PROVE FlowInv'
  <2> SUFFICES ASSUME NEW f \in End PROVE Flow(f)'
    BY DEF FlowInv
  <2>1. Flow(f)
    BY DEF FlowInv
  <2>2. CASE f = e
    BY <1>2, <2>1, <2>2, TakeFlow
  <2>3. CASE f = Other(e)
    <3>1. /\ taken'[f] = taken[f] /\ passed' = passed /\ pipe' = pipe /\ wbuf'[f] = wbuf[f]
          /\ rbuf'[e] = rbuf[e] /\ pc[e] # "ended"
      BY <1>2, <2>3, Ends DEF TakeBatch, AfterDrop, TypeOK
    <3> QED
      BY <2>1, <2>3, <3>1, FlowFrame, Ends
  <2> QED
    BY <2>2, <2>3, Ends
<1>3. ASSUME NEW e \in End, WriteSome(e) PROVE FlowInv'
  <2> SUFFICES ASSUME NEW f \in End PROVE Flow(f)'
    BY DEF FlowInv
  <2>1. Flow(f)
    BY DEF FlowInv
  <2>2. CASE f = e
    BY <1>3, <2>1, <2>2, WriteFlow
  <2>3. CASE f = Other(e)
    <3>1. /\ taken' = taken /\ passed' = passed /\ pipe'[f] = pipe[f] /\ wbuf'[f] = wbuf[f]
          /\ rbuf' = rbuf /\ pc[e] # "ended"
      BY <1>3, <2>3, Ends DEF WriteSome, TypeOK
    <3> QED
      BY <2>1, <2>3, <3>1, FlowFrame, Ends
  <2> QED
    BY <2>2, <2>3, Ends
<1>4. ASSUME NEW e \in End, WriteFails(e) PROVE FlowInv'
  <2> SUFFICES ASSUME NEW f \in End PROVE Flow(f)'
    BY DEF FlowInv
  <2>1. Flow(f)
    BY DEF FlowInv
  <2>2. taken' = taken /\ passed' = passed
    BY <1>4 DEF WriteFails
  <2>3. pc'[Other(f)] = "ended"
    BY <1>4, Ends DEF WriteFails, Goto, TypeOK
  <2> QED
    BY <2>1, <2>2, <2>3, FlowFrame
<1>5. ASSUME NEW e \in End, Read(e) PROVE FlowInv'
  <2> SUFFICES ASSUME NEW f \in End PROVE Flow(f)'
    BY DEF FlowInv
  <2>1. Flow(f)
    BY DEF FlowInv
  <2>2. CASE f = Other(e)
    <3>1. Other(f) = e
      BY <2>2, Ends
    <3> QED
      BY <1>5, <2>1, <3>1, ReadFlow
  <2>3. CASE f = e
    <3>1. PICK n \in 0..Len(pipe[Other(e)]) : ReadStep(e, n)
      BY <1>5, ReadsSome
    <3>2. /\ taken' = taken /\ wbuf' = wbuf /\ pipe'[e] = pipe[e]
          /\ rbuf'[Other(e)] = rbuf[Other(e)]
      BY <3>1, Ends DEF ReadStep, TypeOK
    <3>3. passed'[Other(e)] = passed[Other(e)] /\ pc'[Other(e)] = pc[Other(e)]
      BY <3>1, Ends DEF ReadStep, TypeOK, Goto
    <3> QED
      BY <2>1, <2>3, <3>2, <3>3, FlowFrame
  <2> QED
    BY <2>2, <2>3, Ends
<1>6. ASSUME NEW e \in End, ReadEnds(e) PROVE FlowInv'
  <2> SUFFICES ASSUME NEW f \in End PROVE Flow(f)'
    BY DEF FlowInv
  <2>1. Flow(f)
    BY DEF FlowInv
  <2>2. taken' = taken /\ passed' = passed /\ rbuf' = rbuf /\ pipe' = pipe /\ wbuf' = wbuf
    BY <1>6 DEF ReadEnds
  <2>3. pc'[Other(f)] # "ended" => pc[Other(f)] # "ended"
    BY <1>6, Ends DEF ReadEnds, Goto, TypeOK, End
  <2> QED
    BY <2>1, <2>2, <2>3, FlowFrame
<1>7. ASSUME NEW e \in End, Deliver(e) PROVE FlowInv'
  <2> SUFFICES ASSUME NEW f \in End PROVE Flow(f)'
    BY DEF FlowInv
  <2>1. Flow(f)
    BY DEF FlowInv
  <2>2. taken' = taken /\ passed' = passed /\ rbuf' = rbuf /\ pipe' = pipe /\ wbuf' = wbuf
    BY <1>7 DEF Deliver
  <2>3. pc'[Other(f)] # "ended" => pc[Other(f)] # "ended"
    BY <1>7, Ends DEF Deliver, Goto, TypeOK, End
  <2> QED
    BY <2>1, <2>2, <2>3, FlowFrame
<1>8. ASSUME NEW e \in End, SideFails(e) PROVE FlowInv'
  <2> SUFFICES ASSUME NEW f \in End PROVE Flow(f)'
    BY DEF FlowInv
  <2>1. Flow(f)
    BY DEF FlowInv
  <2>2. taken' = taken /\ passed' = passed /\ rbuf' = rbuf /\ pipe' = pipe /\ wbuf' = wbuf
    BY <1>8 DEF SideFails
  <2>3. pc'[Other(f)] # "ended" => pc[Other(f)] # "ended"
    BY <1>8, Ends DEF SideFails, Goto, TypeOK, End
  <2> QED
    BY <2>1, <2>2, <2>3, FlowFrame
<1>9. CASE StopSeen
  <2> SUFFICES ASSUME NEW f \in End PROVE Flow(f)'
    BY DEF FlowInv
  <2>1. Flow(f)
    BY DEF FlowInv
  <2>2. taken' = taken /\ passed' = passed /\ rbuf' = rbuf /\ pipe' = pipe /\ wbuf' = wbuf
    BY <1>9 DEF StopSeen
  <2>3. pc'[Other(f)] # "ended" => pc[Other(f)] # "ended"
    BY <1>9, Ends DEF StopSeen, Goto, TypeOK, End
  <2> QED
    BY <2>1, <2>2, <2>3, FlowFrame
<1>10. CASE Cancel
  <2> SUFFICES ASSUME NEW f \in End PROVE Flow(f)'
    BY DEF FlowInv
  <2>1. Flow(f)
    BY DEF FlowInv
  <2>2. taken' = taken /\ passed' = passed /\ rbuf' = rbuf /\ pipe' = pipe /\ wbuf' = wbuf
    BY <1>10 DEF Cancel
  <2>3. pc'[Other(f)] # "ended" => pc[Other(f)] # "ended"
    BY <1>10, Ends DEF Cancel, Goto, TypeOK, End
  <2> QED
    BY <2>1, <2>2, <2>3, FlowFrame
<1> QED
  BY <1>1, <1>2, <1>3, <1>4, <1>5, <1>6, <1>7, <1>8, <1>9, <1>10 DEF Next, EndNext

\* The inductive invariant of the work connection: the types, the phases of the two
\* loops and, in each direction, that the bytes on their way are the frames owed.
THEOREM BridgeInductive == Spec => []BridgeInv
<1>1. Init => BridgeInv
  <2> SUFFICES ASSUME Init PROVE BridgeInv
    OBVIOUS
  <2>0. \A e \in End : Len(pipe[e]) <= Room
    <3>1. ASSUME NEW e \in End PROVE Len(pipe[e]) = 0
      BY DEF Init
    <3> QED
      BY <3>1, BridgeAssumption
  <2>1. TypeOK /\ PhaseInv
    <3>1. /\ <<>> \in Seq(Datagram) /\ <<>> \in Seq(Byte) /\ <<>> \in Seq(Seq(Byte))
      OBVIOUS
    <3>2. TypeOK
      BY <2>0, <3>1 DEF Init, TypeOK
    <3>3. PhaseInv
      BY DEF Init, PhaseInv
    <3> QED
      BY <3>2, <3>3
  <2>2. ASSUME NEW e \in End PROVE Flow(e)
    <3>1. /\ passed[Other(e)] = <<>> /\ taken[e] = <<>> /\ rbuf[Other(e)] = <<>>
          /\ pipe[e] = <<>> /\ wbuf[e] = <<>>
      BY Ends DEF Init
    <3>2. IsPrefix(<<>>, <<>>) /\ SubSeq(<<>>, Len(<<>>) + 1, Len(<<>>)) = <<>>
      BY SubSeqEmpty DEF IsPrefix
    <3>3. (<<>> \o <<>>) \o <<>> = <<>>
      OBVIOUS
    <3> QED
      BY <3>1, <3>2, <3>3, FramesType DEF Flow, Owed
  <2> QED
    BY <2>1, <2>2 DEF BridgeInv, FlowInv
<1>2. BridgeInv /\ [Next]_vars => BridgeInv'
  BY TypeStep, PhaseStep, FlowStep DEF BridgeInv
<1> QED
  BY <1>1, <1>2, PTL DEF Spec

\* The datagrams that come out at one end are the ones that went in at the other, in
\* order, none lost, split, merged or made up.
THEOREM FramesAreIntact == Spec => []FramesIntact
<1>1. BridgeInv => FramesIntact
  <2> SUFFICES ASSUME BridgeInv, NEW e \in End PROVE IsPrefix(passed[e], taken[Other(e)])
    BY DEF FramesIntact
  <2>1. Other(e) \in End /\ Other(Other(e)) = e
    BY Ends
  <2>2. Flow(Other(e))
    BY <2>1 DEF BridgeInv, FlowInv
  <2> QED
    BY <2>1, <2>2 DEF Flow
<1> QED
  BY BridgeInductive, <1>1, PTL

\* While both loops run, the bytes in the two buffers and in the connection are the
\* frames of exactly the datagrams that have not come out yet.
THEOREM NothingIsForgotten == Spec => []NothingForgotten
<1>1. BridgeInv => NothingForgotten
  <2> SUFFICES ASSUME BridgeInv, NEW e \in End, pc["server"] # "ended", pc["client"] # "ended"
               PROVE  rbuf[Other(e)] \o pipe[e] \o wbuf[e]
                        = Frames(SubSeq(taken[e], Len(passed[Other(e)]) + 1, Len(taken[e])))
    BY DEF NothingForgotten
  <2>1. pc[Other(e)] # "ended"
    BY DEF Other
  <2> QED
    BY <2>1 DEF BridgeInv, FlowInv, Flow, Owed
<1> QED
  BY BridgeInductive, <1>1, PTL

\* A loop that reads never meets a length above the maximum: with both ends of this
\* program, read_batch never returns InvalidData.
THEOREM NeverTooLarge == Spec => [](\A e \in End : pc[e] # "ended" => ~TooLarge(rbuf[e]))
<1>1. BridgeInv => \A e \in End : pc[e] # "ended" => ~TooLarge(rbuf[e])
  <2> SUFFICES ASSUME BridgeInv, NEW e \in End, pc[e] # "ended", TooLarge(rbuf[e])
               PROVE  FALSE
    OBVIOUS
  <2> DEFINE w == Other(e)
  <2>1. w \in End /\ Other(w) = e
    BY Ends
  <2>2. /\ rbuf[e] \in Seq(Byte) /\ pipe[w] \in Seq(Byte) /\ wbuf[w] \in Seq(Byte)
        /\ taken[w] \in Seq(Datagram) /\ passed[e] \in Seq(Seq(Byte))
    BY <2>1 DEF BridgeInv, TypeOK
  <2>3. (rbuf[e] \o pipe[w]) \o wbuf[w] = Frames(Owed(w))
    BY <2>1 DEF BridgeInv, FlowInv, Flow
  <2>4. rbuf[e] \o (pipe[w] \o wbuf[w]) = Frames(Owed(w)) /\ pipe[w] \o wbuf[w] \in Seq(Byte)
    BY <2>2, <2>3, BytesAssoc, ConcatProperties
  <2>5. Owed(w) \in Seq(Datagram)
    BY <2>1, <2>2, SubSeqProperties DEF Owed
  <2>6. Owed(w) # <<>> /\ FromBytes(Header(rbuf[e])) = Len(Owed(w)[1])
    <3>1. Len(rbuf[e]) >= HeaderLen
      BY DEF TooLarge
    <3> QED
      BY <2>2, <2>4, <2>5, <3>1, HeaderRead
  <2>7. Owed(w)[1] \in Datagram
    BY <2>5, <2>6, FramesFirst
  <2>8. Len(Owed(w)[1]) \in 0..MaxLen
    BY <2>7, FrameType
  <2>9. FromBytes(Header(rbuf[e])) > MaxLen /\ MaxLen \in Nat
    BY BridgeAssumption DEF TooLarge
  <2> QED
    BY <2>6, <2>8, <2>9
<1> QED
  BY BridgeInductive, <1>1, PTL
=============================================================================

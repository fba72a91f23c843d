-------------------------- MODULE WireCodec_proofs --------------------------
(***************************************************************************)
(* Theorems of WireCodec, for data of any length and numbers of any size:  *)
(* what the builders write the parser reads back, messages that are joined *)
(* are split again, and of one that is cut nothing is taken.               *)
(*                                                                         *)
(* The functions are recursive, and the provers know a recursive function  *)
(* as a CHOOSE; that it has the value its definition says at each point is *)
(* proved first, from a measure that each use of itself decreases.         *)
(***************************************************************************)
EXTENDS WireCodec, SequenceTheorems, WellFoundedInduction, TLAPS

-----------------------------------------------------------------------------
(* Induction and recursion over a measure. *)

(* A set of naturals has a least element.                                  *)
LEMMA LeastNatural ==
  ASSUME NEW T, T \subseteq Nat, T # {}
  PROVE  \E x \in T : \A y \in T : x <= y
<1> DEFINE R == OpToRel(<, Nat)
<1>1. IsWellFoundedOn(R, Nat) BY NatLessThanWellFounded
<1>2. \A x, y \in Nat : y < x => <<y, x>> \in R BY DEF OpToRel
<1> HIDE DEF R
<1>3. PICK x \in T : \A y \in T : ~ (<<y, x>> \in R) BY <1>1, WFMin
<1>4. \A y \in T : ~ (y < x) BY <1>2, <1>3
<1> QED BY <1>4

(* What follows for an element from all that are smaller holds of all.     *)
LEMMA MeasureInduction ==
  ASSUME NEW D, NEW m \in [D -> Nat], NEW P,
         \A s \in D : (\A t \in D : m[t] < m[s] => t \in P) => s \in P
  PROVE  D \subseteq P
<1> SUFFICES ASSUME D \ P # {} PROVE FALSE
  OBVIOUS
<1> DEFINE T == {m[s] : s \in D \ P}
<1>1. PICK x \in T : \A y \in T : x <= y
  <2>1. T \subseteq Nat /\ T # {} OBVIOUS
  <2> HIDE DEF T
  <2> QED BY <2>1, LeastNatural
<1>2. PICK s \in D \ P : m[s] = x BY <1>1
<1>3. ASSUME NEW t \in D, m[t] < m[s] PROVE t \in P
  <2>1. m[t] \in Nat /\ m[s] \in Nat BY <1>2
  <2>2. ~ (m[s] <= m[t]) BY <1>3, <2>1
  <2>3. m[t] \notin T BY <1>1, <1>2, <2>2
  <2> QED BY <2>3, <1>3
<1> QED BY <1>2, <1>3

(* f follows the definition B below n.                                     *)
Follows(f, B, D, m, n) == \A s \in D : m[s] < n => f[s] = B[f][s]

(* B is a definition of functions from D to V whose value at an element    *)
(* uses those at elements of smaller measure only.                         *)
Decreases(B, D, V, m) ==
  /\ m \in [D -> Nat] /\ B \in [[D -> V] -> [D -> V]] /\ [D -> V] # {}
  /\ \A f, g \in [D -> V], s \in D :
       (\A t \in D : m[t] < m[s] => f[t] = g[t]) => B[f][s] = B[g][s]

(* A function follows such a definition.                                   *)
LEMMA RecursionExists ==
  ASSUME NEW D, NEW V, NEW m, NEW B, Decreases(B, D, V, m)
  PROVE  \E f \in [D -> V] : f = B[f]
<1>0. m \in [D -> Nat] /\ B \in [[D -> V] -> [D -> V]] /\ [D -> V] # {}
  BY DEF Decreases
<1> DEFINE A == {n \in Nat : \E f \in [D -> V] : Follows(f, B, D, m, n)}
<1>1. \A s \in D : m[s] \in Nat
  BY <1>0
<1>2. \A n \in Nat : n \in A
  <2> SUFFICES ASSUME Nat \ A # {} PROVE FALSE
    OBVIOUS
  <2>1. PICK n \in Nat \ A : \A k \in Nat \ A : n <= k BY LeastNatural
  <2>2. n # 0
    <3>1. \A f : Follows(f, B, D, m, 0) BY <1>1 DEF Follows
    <3>2. 0 \in A BY <1>0, <3>1
    <3> QED BY <2>1, <3>2
  <2>3. n - 1 \in Nat /\ ~ (n <= n - 1) BY <2>1, <2>2
  <2>4. n - 1 \in A BY <2>1, <2>3
  <2>5. PICK f \in [D -> V] : Follows(f, B, D, m, n - 1) BY <2>4
  <2>6. Follows(B[f], B, D, m, n)
    <3> SUFFICES ASSUME NEW s \in D, m[s] < n PROVE B[f][s] = B[B[f]][s]
      BY DEF Follows
    <3>1. ASSUME NEW t \in D, m[t] < m[s] PROVE f[t] = B[f][t]
      <4>1. m[t] < n - 1 BY <1>1, <2>1, <3>1
      <4> QED BY <4>1, <2>5 DEF Follows
    <3>2. B[f] \in [D -> V] BY <1>0
    <3> QED BY <3>1, <3>2 DEF Decreases
  <2>7. B[f] \in [D -> V] BY <1>0
  <2> QED BY <2>1, <2>6, <2>7
<1> DEFINE At(s) == CHOOSE f \in [D -> V] : Follows(f, B, D, m, m[s] + 1)
           F == [s \in D |-> At(s)[s]]
<1>3. ASSUME NEW s \in D
      PROVE  At(s) \in [D -> V] /\ Follows(At(s), B, D, m, m[s] + 1)
  <2>1. m[s] + 1 \in A BY <1>1, <1>2
  <2> QED BY <2>1
<1>4. ASSUME NEW s \in D, NEW t \in D, m[t] <= m[s] PROVE At(t)[t] = At(s)[t]
  <2> DEFINE P == {u \in D : m[u] <= m[t] => At(t)[u] = At(s)[u]}
  <2>1. ASSUME NEW u \in D, \A v \in D : m[v] < m[u] => v \in P PROVE u \in P
    <3> SUFFICES ASSUME m[u] <= m[t] PROVE At(t)[u] = At(s)[u]
      OBVIOUS
    <3>1. \A v \in D : m[v] < m[u] => m[v] <= m[t] BY <1>1
    <3>2. \A v \in D : m[v] < m[u] => At(t)[v] = At(s)[v] BY <2>1, <3>1
    <3>3. m[u] < m[t] + 1 /\ m[u] < m[s] + 1 BY <1>1, <1>4
    <3>4. At(t)[u] = B[At(t)][u] BY <1>3, <3>3 DEF Follows
    <3>5. At(s)[u] = B[At(s)][u] BY <1>3, <3>3 DEF Follows
    <3>6. At(s) \in [D -> V] /\ At(t) \in [D -> V] BY <1>3
    <3> HIDE DEF At
    <3> QED BY <3>2, <3>4, <3>5, <3>6 DEF Decreases
  <2> HIDE DEF P, At
  <2>2. D \subseteq P BY <1>0, <2>1, MeasureInduction
  <2>3. m[t] <= m[t] BY <1>1
  <2> QED BY <2>2, <2>3 DEF P
<1>5. F \in [D -> V]
  <2> HIDE DEF At
  <2> QED BY <1>3
<1>6. ASSUME NEW s \in D PROVE F[s] = B[F][s]
  <2>1. \A t \in D : m[t] < m[s] => m[t] <= m[s] BY <1>1
  <2>2. m[s] < m[s] + 1 BY <1>1
  <2> HIDE DEF At
  <2>3. \A t \in D : m[t] < m[s] => F[t] = At(s)[t] BY <1>4, <2>1
  <2>4. At(s)[s] = B[At(s)][s] BY <1>3, <2>2 DEF Follows
  <2>5. F[s] = At(s)[s] OBVIOUS
  <2> HIDE DEF F
  <2> QED BY <1>3, <1>5, <2>3, <2>4, <2>5 DEF Decreases
<1>7. B[F] \in [D -> V]
  <2> HIDE DEF F
  <2> QED BY <1>0, <1>5
<1> HIDE DEF F
<1>8. F = B[F] BY <1>5, <1>6, <1>7
<1> QED BY <1>5, <1>8

-----------------------------------------------------------------------------
(* Sequences, and bytes. *)

(* A sequence is empty, or an element and what follows it.                 *)
LEMMA FirstOf ==
  ASSUME NEW S, NEW data \in Seq(S), data # <<>>
  PROVE  /\ data[1] \in S /\ Tail(data) \in Seq(S)
         /\ data = <<data[1]>> \o Tail(data)
         /\ Len(Tail(data)) < Len(data)
<1>1. data \in Seq(S) OBVIOUS
<1>2. /\ Tail(data) \in Seq(S) /\ Len(Tail(data)) = Len(data) - 1
      /\ \A i \in 1 .. Len(Tail(data)) : Tail(data)[i] = data[i + 1]
  BY <1>1, HeadTailProperties, Zenon
<1>3. Len(data) \in Nat \ {0} BY <1>1, EmptySeq, Zenon
<1>4. data[1] \in S
  <2>1. 1 \in 1 .. Len(data) BY <1>3
  <2> QED BY <1>1, <2>1, ElementOfSeq, Zenon
<1>5. data = <<data[1]>> \o Tail(data)
  <2> DEFINE e == <<data[1]>> \o Tail(data)
  <2>1. <<data[1]>> \in Seq(S) /\ Len(<<data[1]>>) = 1 /\ <<data[1]>>[1] = data[1]
    BY <1>4
  <2>2. /\ e \in Seq(S) /\ Len(e) = 1 + Len(Tail(data))
        /\ \A i \in 1 .. 1 + Len(Tail(data)) :
             e[i] = IF i <= 1 THEN <<data[1]>>[i] ELSE Tail(data)[i - 1]
    BY <1>2, <2>1, ConcatProperties
  <2> HIDE DEF e
  <2>3. Len(e) = Len(data) BY <1>2, <1>3, <2>2
  <2>4. \A i \in 1 .. Len(data) : data[i] = e[i]
    <3> SUFFICES ASSUME NEW i \in 1 .. Len(data) PROVE data[i] = e[i]
      OBVIOUS
    <3>1. i \in 1 .. 1 + Len(Tail(data)) BY <1>2, <1>3
    <3>2. CASE i = 1 BY <2>1, <2>2, <3>1, <3>2
    <3>3. CASE i # 1
      <4>1. ~ (i <= 1) /\ i - 1 \in 1 .. Len(Tail(data)) /\ (i - 1) + 1 = i
        BY <1>2, <1>3, <3>3
      <4> QED BY <1>2, <2>2, <3>1, <4>1
    <3> QED BY <3>2, <3>3
  <2>5. data = e BY <1>1, <2>2, <2>3, <2>4, SeqEqual
  <2> QED BY <2>5 DEF e
<1> QED BY <1>2, <1>3, <1>4, <1>5

(* An element before a sequence.                                           *)
LEMMA Then ==
  ASSUME NEW S, NEW b \in S, NEW data \in Seq(S)
  PROVE  /\ <<b>> \o data \in Seq(S) /\ <<b>> \o data # <<>>
         /\ (<<b>> \o data)[1] = b /\ Tail(<<b>> \o data) = data
         /\ Len(data) < Len(<<b>> \o data)
<1> DEFINE e == <<b>> \o data
<1>1. <<b>> \in Seq(S) /\ Len(<<b>>) = 1 /\ <<b>>[1] = b OBVIOUS
<1>2. data \in Seq(S) OBVIOUS
<1>3. Len(data) \in Nat BY <1>2, LenProperties
<1>4. /\ e \in Seq(S) /\ Len(e) = 1 + Len(data)
      /\ \A i \in 1 .. 1 + Len(data) : e[i] = IF i <= 1 THEN <<b>>[i] ELSE data[i - 1]
  BY <1>1, <1>2, ConcatProperties
<1> HIDE DEF e
<1>5. e # <<>>
  <2>1. Len(e) # 0 BY <1>3, <1>4
  <2> QED BY <2>1, EmptySeq
<1>6. e[1] = b
  <2>1. 1 \in 1 .. 1 + Len(data) /\ 1 <= 1 BY <1>3
  <2> QED BY <1>1, <1>4, <2>1
<1>7. Tail(e) = data
  <2>1. /\ Tail(e) \in Seq(S) /\ Len(Tail(e)) = Len(e) - 1
        /\ \A i \in 1 .. Len(Tail(e)) : Tail(e)[i] = e[i + 1]
    BY <1>4, <1>5, HeadTailProperties, Zenon
  <2>2. Len(Tail(e)) = Len(data) BY <1>3, <1>4, <2>1
  <2>3. \A i \in 1 .. Len(data) : Tail(e)[i] = data[i]
    <3> SUFFICES ASSUME NEW i \in 1 .. Len(data) PROVE Tail(e)[i] = data[i]
      OBVIOUS
    <3>1. i + 1 \in 1 .. 1 + Len(data) /\ ~ (i + 1 <= 1) /\ (i + 1) - 1 = i
      BY <1>3
    <3> QED BY <1>4, <2>1, <2>2, <3>1
  <2> QED BY <1>2, <2>1, <2>2, <2>3, SeqEqual
<1>8. Len(data) < Len(e) BY <1>3, <1>4
<1> QED BY <1>4, <1>5, <1>6, <1>7, <1>8 DEF e

(* The same of bytes.                                                      *)
LEMMA FirstByte ==
  ASSUME NEW data \in Bytes, data # <<>>
  PROVE  /\ data[1] \in Byte /\ Tail(data) \in Bytes
         /\ data = <<data[1]>> \o Tail(data)
         /\ Len(Tail(data)) < Len(data)
BY FirstOf DEF Bytes

(* A byte put before data.                                                 *)
LEMMA ByteThen ==
  ASSUME NEW b \in Byte, NEW data \in Bytes
  PROVE  /\ <<b>> \o data \in Bytes /\ <<b>> \o data # <<>>
         /\ (<<b>> \o data)[1] = b /\ Tail(<<b>> \o data) = data
         /\ Len(data) < Len(<<b>> \o data)
BY Then DEF Bytes

(* Data joined to data.                                                    *)
LEMMA Join ==
  ASSUME NEW a \in Bytes, NEW b \in Bytes
  PROVE  /\ a \o b \in Bytes /\ Len(a \o b) = Len(a) + Len(b)
         /\ \A c \in Bytes : (a \o b) \o c = a \o (b \o c)
<1>1. a \o b \in Bytes /\ Len(a \o b) = Len(a) + Len(b)
  BY ConcatProperties DEF Bytes
<1>2. ASSUME NEW c \in Bytes PROVE (a \o b) \o c = a \o (b \o c)
  BY ConcatAssociative DEF Bytes
<1> QED BY <1>1, <1>2

(* Data has a length, and joined to no data it is itself.                  *)
LEMMA Lengths ==
  /\ <<>> \in Bytes /\ Len(<<>>) = 0
  /\ \A data \in Bytes : Len(data) \in Nat /\ (data # <<>> => Len(data) > 0)
  /\ \A data \in Bytes : data \o <<>> = data /\ <<>> \o data = data
<1>1. <<>> \in Bytes /\ Len(<<>>) = 0 BY EmptySeq DEF Bytes
<1>2. \A data \in Bytes : Len(data) \in Nat BY LenProperties DEF Bytes
<1>3. \A data \in Bytes : data # <<>> => Len(data) \in Nat \ {0} BY EmptySeq DEF Bytes
<1>4. \A data \in Bytes : data \o <<>> = data /\ <<>> \o data = data
  BY ConcatEmptySeq, Zenon DEF Bytes
<1> QED BY <1>1, <1>2, <1>3, <1>4

-----------------------------------------------------------------------------
(* Varints. *)

(* The builder's loop ends, and makes bytes.                               *)
LEMMA VarintDef ==
  \A val \in Nat :
    /\ _pb_varint[val] = IF val > 127
                         THEN <<128 + (val % 128)>> \o _pb_varint[val \div 128]
                         ELSE <<val>>
    /\ _pb_varint[val] \in Bytes
<1> DEFINE At(f, val) == IF val > 127 THEN <<128 + (val % 128)>> \o f[val \div 128]
                         ELSE <<val>>
           Body(f) == [val \in Nat |-> At(f, val)]
           B == [f \in [Nat -> Bytes] |-> Body(f)]
           m == [n \in Nat |-> n]
<1>1. \A val \in Nat : val > 127 =>
        /\ val \div 128 \in Nat /\ val \div 128 < val
        /\ 128 + (val % 128) \in Byte
  BY DEF Byte
<1>2. ASSUME NEW f, NEW val \in Nat, val > 127 => f[val \div 128] \in Bytes
      PROVE  At(f, val) \in Bytes
  <2>1. CASE val > 127 BY <1>1, <1>2, <2>1, ByteThen
  <2>2. CASE ~ (val > 127)
    <3>1. val \in Byte BY <2>2 DEF Byte
    <3> QED BY <2>2, <3>1 DEF Bytes
  <2> QED BY <2>1, <2>2
<1>3. \A f \in [Nat -> Bytes] : Body(f) \in [Nat -> Bytes]
  <2> SUFFICES ASSUME NEW f \in [Nat -> Bytes], NEW val \in Nat PROVE At(f, val) \in Bytes
    OBVIOUS
  <2>1. val > 127 => f[val \div 128] \in Bytes BY <1>1
  <2> HIDE DEF At
  <2> QED BY <1>2, <2>1
<1>4. B \in [[Nat -> Bytes] -> [Nat -> Bytes]]
  <2> HIDE DEF Body
  <2> QED BY <1>3
<1>5. m \in [Nat -> Nat] OBVIOUS
<1>6. [Nat -> Bytes] # {}
  <2>1. [n \in Nat |-> <<>>] \in [Nat -> Bytes] BY Lengths
  <2> QED BY <2>1
<1>7. ASSUME NEW f \in [Nat -> Bytes], NEW g \in [Nat -> Bytes], NEW s \in Nat,
             \A t \in Nat : m[t] < m[s] => f[t] = g[t]
      PROVE  B[f][s] = B[g][s]
  <2>1. s > 127 => f[s \div 128] = g[s \div 128] BY <1>1, <1>7
  <2>2. At(f, s) = At(g, s) BY <2>1
  <2> HIDE DEF At
  <2> QED BY <2>2
<1>8. PICK f \in [Nat -> Bytes] : f = B[f]
  <2> HIDE DEF Body, At
  <2>1. Decreases(B, Nat, Bytes, m) BY <1>4, <1>5, <1>6, <1>7 DEF Decreases
  <2> HIDE DEF B, m
  <2> QED BY <2>1, RecursionExists, SMT
<1>9. f = Body(f)
  <2> HIDE DEF Body
  <2> QED BY <1>8
<1>10. _pb_varint = CHOOSE h : h = Body(h) BY DEF _pb_varint
<1>11. _pb_varint = Body(_pb_varint)
  <2> HIDE DEF Body
  <2> QED BY <1>9, <1>10
<1>12. \A val \in Nat : _pb_varint[val] = At(_pb_varint, val)
  <2> HIDE DEF At
  <2> QED BY <1>11
<1> DEFINE P == {n \in Nat : _pb_varint[n] \in Bytes}
<1>13. ASSUME NEW s \in Nat, \A t \in Nat : m[t] < m[s] => t \in P PROVE s \in P
  <2>1. s > 127 => _pb_varint[s \div 128] \in Bytes BY <1>1, <1>13
  <2> HIDE DEF At
  <2> QED BY <1>2, <1>12, <2>1
<1>14. Nat \subseteq P
  <2> HIDE DEF P, m
  <2> QED BY <1>5, <1>13, MeasureInduction
<1> QED BY <1>12, <1>14

Reads == [val : Nat, rest : Bytes]

(* The parts of a reading.                                                 *)
LEMMA ReadParts ==
  ASSUME NEW v, NEW rest
  PROVE  /\ Read(v, rest).val = v /\ Read(v, rest).rest = rest
         /\ v \in Nat /\ rest \in Bytes => Read(v, rest) \in Reads
BY DEF Read, Reads

(* A reading is its two parts.                                             *)
LEMMA ReadsAre ==
  ASSUME NEW r \in Reads
  PROVE  r.val \in Nat /\ r.rest \in Bytes /\ r = Read(r.val, r.rest)
BY DEF Read, Reads

(* One element.                                                            *)
Just(S, x) == S = {x}

(* What was read in S, below it the seven bits of the byte b.              *)
Carried(b, S) == {Read(b - 128 + 128 * r.val, r.rest) : r \in S}

(* One number read below the bits of b is one number.                      *)
LEMMA CarriedOne ==
  ASSUME NEW b, NEW S, NEW v, NEW rest, Just(S, Read(v, rest))
  PROVE  Just(Carried(b, S), Read(b - 128 + 128 * v, rest))
BY ReadParts DEF Carried, Just

(* At most one.                                                            *)
Single(S) == \A x, y \in S : x = y

(* The parser's loop ends; it reads at most one number, and leaves less    *)
(* than it was given.                                                      *)
LEMMA ReadDef ==
  \A data \in Bytes :
    /\ _read_varint[data] =
         IF data = <<>> THEN {}
         ELSE IF data[1] < 128 THEN {Read(data[1], Tail(data))}
         ELSE Carried(data[1], _read_varint[Tail(data)])
    /\ _read_varint[data] \subseteq Reads /\ Single(_read_varint[data])
    /\ \A r \in _read_varint[data] : Len(r.rest) < Len(data)
<1> DEFINE At(f, data) ==
             IF data = <<>> THEN {}
             ELSE IF data[1] < 128 THEN {Read(data[1], Tail(data))}
             ELSE Carried(data[1], f[Tail(data)])
           Body(f) == [data \in Bytes |-> At(f, data)]
           V == SUBSET Reads
           B == [f \in [Bytes -> V] |-> Body(f)]
           m == [data \in Bytes |-> Len(data)]
<1>1. ASSUME NEW data \in Bytes, data # <<>>
      PROVE  /\ data[1] \in Nat /\ Tail(data) \in Bytes
             /\ Len(Tail(data)) \in Nat /\ Len(data) \in Nat /\ Len(Tail(data)) < Len(data)
  <2>1. /\ data[1] \in Byte /\ Tail(data) \in Bytes
        /\ Len(Tail(data)) < Len(data)
    BY <1>1, FirstByte
  <2>2. data[1] \in Nat
    <3>1. \A b \in Byte : b \in Nat BY DEF Byte
    <3> QED BY <2>1, <3>1, Zenon
  <2>3. Len(Tail(data)) \in Nat /\ Len(data) \in Nat BY <2>1, Lengths
  <2> QED BY <2>1, <2>2, <2>3
<1>2. ASSUME NEW f, NEW data \in Bytes, data # <<>> => f[Tail(data)] \subseteq Reads
      PROVE  At(f, data) \subseteq Reads
  <2>1. CASE data = <<>> BY <2>1
  <2>2. CASE data # <<>> /\ data[1] < 128 BY <1>1, <2>2, ReadParts
  <2>3. CASE data # <<>> /\ ~ (data[1] < 128)
    <3>1. \A r \in f[Tail(data)] : r.val \in Nat /\ r.rest \in Bytes
      BY <1>2, <2>3, ReadsAre
    <3>2. \A v \in Nat : data[1] - 128 + 128 * v \in Nat BY <1>1, <2>3
    <3>3. At(f, data) = Carried(data[1], f[Tail(data)]) BY <2>3
    <3> HIDE DEF At
    <3> QED BY <3>1, <3>2, <3>3, ReadParts DEF Carried
  <2> QED BY <2>1, <2>2, <2>3
<1>3. \A f \in [Bytes -> V] : Body(f) \in [Bytes -> V]
  <2> SUFFICES ASSUME NEW f \in [Bytes -> V], NEW data \in Bytes PROVE At(f, data) \in V
    OBVIOUS
  <2>1. data # <<>> => f[Tail(data)] \subseteq Reads BY <1>1
  <2> HIDE DEF At
  <2> QED BY <1>2, <2>1
<1>4. B \in [[Bytes -> V] -> [Bytes -> V]]
  <2> HIDE DEF Body, V
  <2> QED BY <1>3
<1>5. m \in [Bytes -> Nat] BY Lengths
<1>6. [Bytes -> V] # {}
  <2>1. [data \in Bytes |-> {}] \in [Bytes -> V] OBVIOUS
  <2> QED BY <2>1
<1>7. ASSUME NEW f \in [Bytes -> V], NEW g \in [Bytes -> V], NEW s \in Bytes,
             \A t \in Bytes : m[t] < m[s] => f[t] = g[t]
      PROVE  B[f][s] = B[g][s]
  <2>1. s # <<>> => f[Tail(s)] = g[Tail(s)] BY <1>1, <1>7
  <2>2. At(f, s) = At(g, s) BY <2>1
  <2> HIDE DEF At
  <2> QED BY <2>2
<1>8. PICK f \in [Bytes -> V] : f = B[f]
  <2> HIDE DEF Body, At, V
  <2>1. Decreases(B, Bytes, V, m) BY <1>4, <1>5, <1>6, <1>7 DEF Decreases
  <2> HIDE DEF B, m
  <2> QED BY <2>1, RecursionExists, SMT
<1>9. f = Body(f)
  <2> HIDE DEF Body, V
  <2> QED BY <1>8
<1>10. _read_varint = CHOOSE h : h = Body(h) BY DEF _read_varint, Carried
<1>11. _read_varint = Body(_read_varint)
  <2> HIDE DEF Body
  <2> QED BY <1>9, <1>10
<1>12. \A data \in Bytes : _read_varint[data] = At(_read_varint, data)
  <2> HIDE DEF At
  <2> QED BY <1>11
<1> DEFINE R == _read_varint
           Good(data) == /\ R[data] \subseteq Reads /\ Single(R[data])
                         /\ \A r \in R[data] : Len(r.rest) < Len(data)
           P == {data \in Bytes : Good(data)}
<1>13. ASSUME NEW s \in Bytes, \A t \in Bytes : m[t] < m[s] => t \in P PROVE s \in P
  <2>1. s # <<>> => Good(Tail(s)) BY <1>1, <1>13
  <2>2. R[s] \subseteq Reads
    <3>1. s # <<>> => R[Tail(s)] \subseteq Reads BY <2>1
    <3> HIDE DEF At
    <3> QED BY <1>2, <1>12, <3>1
  <2>3. CASE s = <<>>
    <3>1. R[s] = {} BY <1>12, <2>3
    <3> QED BY <2>2, <3>1 DEF Single
  <2>4. CASE s # <<>> /\ s[1] < 128
    <3>1. R[s] = {Read(s[1], Tail(s))} BY <1>12, <2>4
    <3>2. Single(R[s]) BY <3>1 DEF Single
    <3>3. Len(Tail(s)) < Len(s) BY <1>1, <2>4
    <3>4. \A r \in R[s] : r.rest = Tail(s) BY <3>1 DEF Read
    <3>5. \A r \in R[s] : Len(r.rest) < Len(s) BY <3>3, <3>4
    <3> QED BY <2>2, <3>2, <3>5
  <2>5. CASE s # <<>> /\ ~ (s[1] < 128)
    <3>1. R[s] = Carried(s[1], R[Tail(s)]) BY <1>12, <2>5
    <3>2. Single(R[s])
      <4>1. Single(R[Tail(s)]) BY <2>1, <2>5
      <4> QED BY <3>1, <4>1 DEF Single, Carried
    <3>3. \A r \in R[s] : Len(r.rest) < Len(s)
      <4> SUFFICES ASSUME NEW r \in R[Tail(s)] PROVE Len(r.rest) < Len(s)
        BY <3>1, ReadParts DEF Carried
      <4>1. Len(r.rest) < Len(Tail(s)) /\ r.rest \in Bytes BY <2>1, <2>5, ReadsAre
      <4>2. Len(r.rest) \in Nat BY <4>1, Lengths
      <4> QED BY <1>1, <2>5, <4>1, <4>2
    <3> QED BY <2>2, <3>2, <3>3
  <2> QED BY <2>3, <2>4, <2>5
<1>14. Bytes \subseteq P
  <2> HIDE DEF P, m
  <2> QED BY <1>5, <1>13, MeasureInduction
<1>15. \A data \in Bytes : Good(data)
  <2> HIDE DEF Good
  <2> QED BY <1>14
<1> QED BY <1>12, <1>15

(* The first byte, and the rest.                                           *)
LEMMA ReadFirst ==
  ASSUME NEW b \in Byte, NEW data \in Bytes
  PROVE  IF b < 128 THEN Just(_read_varint[<<b>> \o data], Read(b, data))
         ELSE _read_varint[<<b>> \o data] = Carried(b, _read_varint[data])
<1> DEFINE e == <<b>> \o data
<1>1. e \in Bytes /\ e # <<>> /\ e[1] = b /\ Tail(e) = data BY ByteThen
<1> HIDE DEF e
<1>2. _read_varint[e] =
         IF e = <<>> THEN {}
         ELSE IF e[1] < 128 THEN {Read(e[1], Tail(e))}
         ELSE Carried(e[1], _read_varint[Tail(e)])
  BY <1>1, ReadDef
<1>3. IF b < 128 THEN Just(_read_varint[e], Read(b, data))
      ELSE _read_varint[e] = Carried(b, _read_varint[data])
  BY <1>1, <1>2 DEF Just
<1> QED BY <1>3 DEF e

(* A number of any size is read back as it was written, whatever comes     *)
(* after it (_pb_varint, _read_varint).                                    *)
THEOREM VarintRoundTrip ==
  \A val \in Nat, data \in Bytes :
    _read_varint[_pb_varint[val] \o data] = {Read(val, data)}
<1> DEFINE P == {val \in Nat : \A data \in Bytes :
                   Just(_read_varint[_pb_varint[val] \o data], Read(val, data))}
           m == [n \in Nat |-> n]
<1>1. m \in [Nat -> Nat] OBVIOUS
<1>2. ASSUME NEW val \in Nat, \A n \in Nat : m[n] < m[val] => n \in P,
             NEW data \in Bytes
      PROVE  Just(_read_varint[_pb_varint[val] \o data], Read(val, data))
  <2>1. CASE val > 127
    <3> DEFINE low  == 128 + (val % 128)
               high == val \div 128
               after == _pb_varint[high] \o data
    <3>1. /\ low \in Byte /\ ~ (low < 128) /\ high \in Nat /\ high < val
          /\ val = low - 128 + 128 * high
      BY <2>1 DEF Byte
    <3>2. _pb_varint[val] = <<low>> \o _pb_varint[high] BY <2>1, VarintDef
    <3>3. _pb_varint[high] \in Bytes BY <3>1, VarintDef
    <3>4. m[high] < m[val] BY <3>1
    <3> HIDE DEF low, high, m
    <3>5. Just(_read_varint[after], Read(high, data)) BY <1>2, <3>1, <3>4
    <3>6. <<low>> \in Bytes BY <3>1 DEF Bytes
    <3>7. _pb_varint[val] \o data = <<low>> \o after
      <4>1. (<<low>> \o _pb_varint[high]) \o data = <<low>> \o (_pb_varint[high] \o data)
        BY <1>2, <3>3, <3>6, Join
      <4> QED BY <3>2, <4>1
    <3>8. after \in Bytes BY <1>2, <3>3, Join
    <3> HIDE DEF after
    <3>9. _read_varint[<<low>> \o after] =
            Carried(low, _read_varint[after])
      BY <3>1, <3>8, ReadFirst
    <3>10. Just(Carried(low, _read_varint[after]), Read(low - 128 + 128 * high, data))
      BY <3>5, CarriedOne
    <3> QED BY <3>1, <3>7, <3>9, <3>10
  <2>2. CASE ~ (val > 127)
    <3>1. val \in Byte /\ val < 128 BY <2>2 DEF Byte
    <3>2. _pb_varint[val] = <<val>> BY <2>2, VarintDef
    <3>3. Just(_read_varint[<<val>> \o data], Read(val, data))
      BY <1>2, <3>1, ReadFirst
    <3> QED BY <3>2, <3>3
  <2> QED BY <2>1, <2>2
<1>3. ASSUME NEW val \in Nat, \A n \in Nat : m[n] < m[val] => n \in P PROVE val \in P
  <2> HIDE DEF m
  <2> QED BY <1>2, <1>3
<1>4. Nat \subseteq P
  <2> HIDE DEF P, m
  <2> QED BY <1>1, <1>3, MeasureInduction
<1> QED BY <1>4 DEF Just

(* What was read from data is read whatever follows the data.              *)
LEMMA ReadExtends ==
  \A a, b \in Bytes : \A r \in _read_varint[a] :
    Just(_read_varint[a \o b], Read(r.val, r.rest \o b))
<1> DEFINE P == {a \in Bytes : \A b \in Bytes : \A r \in _read_varint[a] :
                   Just(_read_varint[a \o b], Read(r.val, r.rest \o b))}
           m == [data \in Bytes |-> Len(data)]
<1>1. m \in [Bytes -> Nat] BY Lengths
<1>2. ASSUME NEW a \in Bytes, \A t \in Bytes : m[t] < m[a] => t \in P,
             NEW b \in Bytes, NEW r \in _read_varint[a]
      PROVE  Just(_read_varint[a \o b], Read(r.val, r.rest \o b))
  <2>1. a # <<>> BY <1>2, ReadDef
  <2> DEFINE c == a[1]
             d == Tail(a)
  <2>2. c \in Byte /\ d \in Bytes /\ a = <<c>> \o d /\ m[d] < m[a]
    BY <2>1, FirstByte
  <2> HIDE DEF c, d, m
  <2>3. <<c>> \in Bytes BY <2>2 DEF Bytes
  <2>4. a \o b = <<c>> \o (d \o b) /\ d \o b \in Bytes BY <2>2, <2>3, Join
  <2>5. CASE c < 128
    <3>1. Just(_read_varint[a], Read(c, d)) BY <2>2, <2>5, ReadFirst
    <3>2. Just(_read_varint[a \o b], Read(c, d \o b))
      BY <2>2, <2>4, <2>5, ReadFirst
    <3>3. r.val = c /\ r.rest = d BY <1>2, <3>1, ReadParts DEF Just
    <3> QED BY <3>2, <3>3
  <2>6. CASE ~ (c < 128)
    <3>1. _read_varint[a] = Carried(c, _read_varint[d]) BY <2>2, <2>6, ReadFirst
    <3>2. PICK x \in _read_varint[d] : r = Read(c - 128 + 128 * x.val, x.rest)
      BY <1>2, <3>1 DEF Carried
    <3>3. d \in P BY <1>2, <2>2
    <3>4. Just(_read_varint[d \o b], Read(x.val, x.rest \o b))
      BY <1>2, <3>3
    <3>5. _read_varint[a \o b] = Carried(c, _read_varint[d \o b])
      BY <2>2, <2>4, <2>6, ReadFirst
    <3>6. Just(Carried(c, _read_varint[d \o b]), Read(c - 128 + 128 * x.val, x.rest \o b))
      BY <3>4, CarriedOne
    <3>7. r.val = c - 128 + 128 * x.val /\ r.rest = x.rest BY <3>2, ReadParts
    <3> QED BY <3>5, <3>6, <3>7
  <2> QED BY <2>5, <2>6
<1>3. ASSUME NEW a \in Bytes, \A t \in Bytes : m[t] < m[a] => t \in P PROVE a \in P
  <2> HIDE DEF m
  <2> QED BY <1>2, <1>3
<1>4. Bytes \subseteq P
  <2> HIDE DEF P, m
  <2> QED BY <1>1, <1>3, MeasureInduction
<1> QED BY <1>4

-----------------------------------------------------------------------------
(* Fields. *)

(* Data cut where it was joined.                                           *)
LEMMA Cut ==
  ASSUME NEW d \in Bytes, NEW e \in Bytes
  PROVE  SubSeq(d \o e, 1, Len(d)) = d /\ Rest(d \o e, Len(d)) = e
<1> DEFINE c == d \o e
           n == Len(d)
<1>1. d \in Seq(Byte) /\ e \in Seq(Byte) BY DEF Bytes
<1>2. n \in Nat /\ Len(e) \in Nat BY Lengths
<1>3. /\ c \in Seq(Byte) /\ Len(c) = n + Len(e)
      /\ \A i \in 1 .. n + Len(e) : c[i] = IF i <= n THEN d[i] ELSE e[i - n]
  BY <1>1, ConcatProperties
<1>4. \A i \in 1 .. n + Len(e) : c[i] \in Byte BY <1>3, ElementOfSeq
<1> HIDE DEF c
<1>5. SubSeq(c, 1, n) = d
  <2> DEFINE q == SubSeq(c, 1, n)
  <2>1. \A i \in 1 .. n : c[i] \in Byte BY <1>2, <1>4
  <2>2. /\ q \in Seq(Byte) /\ Len(q) = IF 1 <= n THEN n - 1 + 1 ELSE 0
        /\ \A i \in 1 .. n - 1 + 1 : q[i] = c[1 + i - 1]
    <3> HIDE DEF n
    <3> QED BY <1>2, <2>1, SubSeqProperties
  <2>3. Len(q) = n BY <1>2, <2>2
  <2> HIDE DEF q
  <2>4. \A i \in 1 .. n : q[i] = d[i]
    <3> SUFFICES ASSUME NEW i \in 1 .. n PROVE q[i] = d[i]
      OBVIOUS
    <3>1. i \in 1 .. n - 1 + 1 /\ 1 + i - 1 = i /\ i \in 1 .. n + Len(e) /\ i <= n
      BY <1>2
    <3> QED BY <1>3, <2>2, <3>1
  <2>5. q = d BY <1>1, <2>2, <2>3, <2>4, SeqEqual
  <2> QED BY <2>5 DEF q
<1>6. SubSeq(c, n + 1, Len(c)) = e
  <2> DEFINE k == Len(e)
             q == SubSeq(c, n + 1, n + k)
  <2>1. \A i \in n + 1 .. n + k : c[i] \in Byte BY <1>2, <1>4
  <2>2. /\ q \in Seq(Byte) /\ Len(q) = IF n + 1 <= n + k THEN (n + k) - (n + 1) + 1 ELSE 0
        /\ \A i \in 1 .. (n + k) - (n + 1) + 1 : q[i] = c[(n + 1) + i - 1]
    <3>1. n + 1 \in Int /\ n + k \in Int BY <1>2
    <3> HIDE DEF n, k
    <3> QED BY <2>1, <3>1, SubSeqProperties
  <2>3. Len(q) = k BY <1>2, <2>2
  <2> HIDE DEF q
  <2>4. \A i \in 1 .. k : q[i] = e[i]
    <3> SUFFICES ASSUME NEW i \in 1 .. k PROVE q[i] = e[i]
      OBVIOUS
    <3>1. /\ i \in 1 .. (n + k) - (n + 1) + 1 /\ (n + 1) + i - 1 = n + i
          /\ n + i \in 1 .. n + Len(e) /\ ~ (n + i <= n) /\ (n + i) - n = i
      BY <1>2
    <3> QED BY <1>3, <2>2, <3>1
  <2>5. q = e BY <1>1, <2>2, <2>3, <2>4, SeqEqual
  <2> QED BY <1>3, <2>5 DEF q
<1> QED BY <1>5, <1>6 DEF c, Rest

(* Data that is long enough is two parts, the first of the length asked.   *)
LEMMA Parts ==
  ASSUME NEW data \in Bytes, NEW n \in Nat, n <= Len(data)
  PROVE  \E d, e \in Bytes : data = d \o e /\ Len(d) = n
<1> DEFINE d == SubSeq(data, 1, n)
           e == SubSeq(data, n + 1, Len(data))
<1>1. data \in Seq(Byte) BY DEF Bytes
<1>2. Len(data) \in Nat BY Lengths
<1>3. \A i \in 1 .. Len(data) : data[i] \in Byte BY <1>1, ElementOfSeq
<1>4. d \in Seq(Byte) /\ Len(d) = n
  <2>1. \A i \in 1 .. n : data[i] \in Byte BY <1>2, <1>3
  <2>2. d \in Seq(Byte) /\ Len(d) = IF 1 <= n THEN n - 1 + 1 ELSE 0
    BY <2>1, SubSeqProperties
  <2> QED BY <2>2
<1>5. e \in Seq(Byte)
  <2>1. \A i \in n + 1 .. Len(data) : data[i] \in Byte BY <1>2, <1>3
  <2> QED BY <1>2, <2>1, SubSeqProperties
<1>6. d \o e = data
  <2>1. 1 \in 1 .. Len(data) + 1 /\ n \in 1 - 1 .. Len(data) /\ Len(data) \in n .. Len(data)
    BY <1>2
  <2>2. d \o e = SubSeq(data, 1, Len(data)) BY <1>1, <2>1, ConcatAdjacentSubSeq
  <2> QED BY <1>1, <2>2, SubSeqFull
<1> QED BY <1>4, <1>5, <1>6 DEF Bytes

(* A value of bytes is the first of the two parts.                         *)
LEMMA SliceOf ==
  ASSUME NEW num, NEW wire, NEW d \in Bytes, NEW e \in Bytes
  PROVE  Just(Slice(num, wire, d \o e, Len(d)), Parsed(Field(num, wire, d), e))
<1>1. ~ (Len(d) > Len(d \o e)) BY Join, Lengths
<1> QED BY <1>1, Cut DEF Slice, Just

(* A number is read, and the same if more data follows, or none is.        *)
LEMMA ReadCases ==
  ASSUME NEW data \in Bytes
  PROVE  \/ _read_varint[data] = {}
         \/ \E v \in Nat, rest \in Bytes :
              /\ Just(_read_varint[data], Read(v, rest))
              /\ Len(rest) < Len(data)
              /\ \A b \in Bytes : Just(_read_varint[data \o b], Read(v, rest \o b))
<1>1. SUFFICES ASSUME NEW r \in _read_varint[data]
      PROVE  \E v \in Nat, rest \in Bytes :
               /\ Just(_read_varint[data], Read(v, rest))
               /\ Len(rest) < Len(data)
               /\ \A b \in Bytes : Just(_read_varint[data \o b], Read(v, rest \o b))
  OBVIOUS
<1>2. r \in Reads /\ Single(_read_varint[data]) /\ Len(r.rest) < Len(data)
  BY <1>1, ReadDef
<1>3. PICK v \in Nat, rest \in Bytes : r = Read(v, rest) BY <1>2, ReadsAre
<1>4. Just(_read_varint[data], r) BY <1>1, <1>2 DEF Single, Just
<1>5. r.val = v /\ r.rest = rest BY <1>3, ReadParts
<1>6. \A b \in Bytes : Just(_read_varint[data \o b], Read(r.val, r.rest \o b))
  BY <1>1, ReadExtends
<1> QED BY <1>2, <1>3, <1>4, <1>5, <1>6

(* The number of bytes likewise.                                           *)
LEMMA SizeCases ==
  ASSUME NEW wire \in 1 .. 7, NEW data \in Bytes
  PROVE  \/ Size(wire, data) = {}
         \/ \E n \in Nat, rest \in Bytes :
              /\ Just(Size(wire, data), Read(n, rest))
              /\ Len(rest) <= Len(data) /\ wire \in {1, 2, 5}
              /\ \A b \in Bytes : Just(Size(wire, data \o b), Read(n, rest \o b))
<1>1. CASE wire = 2
  <2>1. \A d : Size(wire, d) = _read_varint[d] BY <1>1 DEF Size
  <2>2. CASE _read_varint[data] = {} BY <2>1, <2>2
  <2>3. ASSUME NEW v \in Nat, NEW rest \in Bytes,
               Just(_read_varint[data], Read(v, rest)), Len(rest) < Len(data),
               \A b \in Bytes : Just(_read_varint[data \o b], Read(v, rest \o b))
        PROVE  \E n \in Nat, q \in Bytes :
                 /\ Just(Size(wire, data), Read(n, q))
                 /\ Len(q) <= Len(data) /\ wire \in {1, 2, 5}
                 /\ \A b \in Bytes : Just(Size(wire, data \o b), Read(n, q \o b))
    <3>1. Len(rest) <= Len(data)
      <4>1. Len(rest) \in Nat /\ Len(data) \in Nat BY Lengths
      <4> QED BY <2>3, <4>1
    <3>3. wire \in {1, 2, 5} BY <1>1
    <3>4. Just(Size(wire, data), Read(v, rest)) BY <2>1, <2>3
    <3>5. \A b \in Bytes : Just(Size(wire, data \o b), Read(v, rest \o b))
      BY <2>1, <2>3
    <3> QED BY <3>1, <3>3, <3>4, <3>5
  <2> QED BY <2>2, <2>3, ReadCases
<1>2. CASE wire # 2
  <2> DEFINE n == IF wire = 5 THEN 4 ELSE 8
  <2>1. CASE wire \in {1, 5}
    <3>1. \A d : Just(Size(wire, d), Read(n, d)) BY <2>1 DEF Size, Just
    <3>2. n \in Nat /\ wire \in {1, 2, 5} BY <2>1
    <3>3. Len(data) <= Len(data) BY Lengths
    <3> HIDE DEF n
    <3> QED BY <3>1, <3>2, <3>3
  <2>2. CASE wire \notin {1, 5}
    <3>1. Size(wire, data) = {} BY <1>2, <2>2 DEF Size
    <3> QED BY <3>1
  <2> QED BY <2>1, <2>2
<1> QED BY <1>1, <1>2

(* The parts of a field.                                                   *)
LEMMA FieldParts ==
  ASSUME NEW num \in Nat, NEW wire, NEW val,
         \/ wire = 0 /\ val \in Nat
         \/ wire \in {1, 2, 5} /\ val \in Bytes
  PROVE  /\ Field(num, wire, val) \in Fields
         /\ Field(num, wire, val).num = num /\ Field(num, wire, val).wire = wire
         /\ Field(num, wire, val).val = val
BY DEF Field, Fields

(* The parts of a parsed field.                                            *)
LEMMA ParsedParts ==
  ASSUME NEW x, NEW rest
  PROVE  Parsed(x, rest).field = x /\ Parsed(x, rest).rest = rest
BY DEF Parsed

(* The numbers, and the values of bytes, of the readings in S.             *)
Numbers(num, S) == {Parsed(Field(num, 0, r.val), r.rest) : r \in S}
Slices(num, wire, S) == UNION {Slice(num, wire, r.rest, r.val) : r \in S}

(* One reading gives one number,                                           *)
LEMMA NumbersOne ==
  ASSUME NEW num, NEW S, NEW v, NEW rest, Just(S, Read(v, rest))
  PROVE  Just(Numbers(num, S), Parsed(Field(num, 0, v), rest))
BY ReadParts DEF Numbers, Just

(* or one slice,                                                           *)
LEMMA SlicesOne ==
  ASSUME NEW num, NEW wire, NEW S, NEW n, NEW rest, Just(S, Read(n, rest))
  PROVE  Slices(num, wire, S) = Slice(num, wire, rest, n)
BY ReadParts DEF Slices, Just

(* and none gives none.                                                    *)
LEMMA NoneOfThem ==
  \A num, wire : Numbers(num, {}) = {} /\ Slices(num, wire, {}) = {}
BY DEF Numbers, Slices

(* The value of data is x, and the same if more data follows.              *)
OneValue(num, wire, data, x, rest) ==
  /\ x.num = num /\ x.wire = wire
  /\ Just(Value(num, wire, data), Parsed(x, rest))
  /\ Len(rest) <= Len(data)
  /\ wire # 0 => Len(x.val) <= Len(data)
  /\ \A b \in Bytes : Just(Value(num, wire, data \o b), Parsed(x, rest \o b))

(* A value is found or it is not.                                          *)
LEMMA ValueCases ==
  ASSUME NEW num \in Nat, NEW wire \in 0 .. 7, NEW data \in Bytes
  PROVE  \/ Value(num, wire, data) = {}
         \/ \E x \in Fields, rest \in Bytes : OneValue(num, wire, data, x, rest)
<1>1. CASE wire = 0
  <2>1. \A d : Value(num, wire, d) = Numbers(num, _read_varint[d])
    BY <1>1 DEF Value, Numbers, _pb_field_varint
  <2>2. CASE _read_varint[data] = {} BY <2>1, <2>2, NoneOfThem
  <2>3. ASSUME NEW v \in Nat, NEW rest \in Bytes,
               Just(_read_varint[data], Read(v, rest)), Len(rest) < Len(data),
               \A b \in Bytes : Just(_read_varint[data \o b], Read(v, rest \o b))
        PROVE  \E x \in Fields, q \in Bytes : OneValue(num, wire, data, x, q)
    <3> DEFINE x == Field(num, 0, v)
    <3>1. x \in Fields /\ x.num = num /\ x.wire = wire BY <1>1, FieldParts
    <3>2. Just(Value(num, wire, data), Parsed(x, rest)) BY <2>1, <2>3, NumbersOne
    <3>3. Len(rest) <= Len(data)
      <4>1. Len(rest) \in Nat /\ Len(data) \in Nat BY Lengths
      <4> QED BY <2>3, <4>1
    <3>4. ASSUME NEW b \in Bytes
          PROVE  Just(Value(num, wire, data \o b), Parsed(x, rest \o b))
      <4>1. Just(_read_varint[data \o b], Read(v, rest \o b)) BY <2>3
      <4> QED BY <2>1, <4>1, NumbersOne
    <3> HIDE DEF x
    <3> QED BY <1>1, <3>1, <3>2, <3>3, <3>4 DEF OneValue
  <2> QED BY <2>2, <2>3, ReadCases, Zenon
<1>2. CASE wire # 0
  <2>1. wire \in 1 .. 7 BY <1>2
  <2>2. \A d : Value(num, wire, d) = Slices(num, wire, Size(wire, d))
    BY <1>2 DEF Value, Slices
  <2>3. CASE Size(wire, data) = {} BY <2>2, <2>3, NoneOfThem
  <2>4. ASSUME NEW n \in Nat, NEW rest \in Bytes,
               Just(Size(wire, data), Read(n, rest)),
               Len(rest) <= Len(data), wire \in {1, 2, 5},
               \A b \in Bytes : Just(Size(wire, data \o b), Read(n, rest \o b))
        PROVE  \/ Value(num, wire, data) = {}
               \/ \E x \in Fields, q \in Bytes : OneValue(num, wire, data, x, q)
    <3>1. Value(num, wire, data) = Slice(num, wire, rest, n) BY <2>2, <2>4, SlicesOne
    <3>2. Len(rest) \in Nat /\ Len(data) \in Nat BY Lengths
    <3>3. CASE n > Len(rest) BY <3>1, <3>3 DEF Slice
    <3>4. CASE n <= Len(rest)
      <4>1. PICK d, e \in Bytes : rest = d \o e /\ Len(d) = n BY <3>4, Parts
      <4> DEFINE x == Field(num, wire, d)
      <4>2. x \in Fields /\ x.num = num /\ x.wire = wire /\ x.val = d
        BY <2>4, FieldParts
      <4>3. Just(Value(num, wire, data), Parsed(x, e)) BY <3>1, <4>1, SliceOf
      <4>4. Len(e) <= Len(data) /\ Len(d) <= Len(data)
        <5>1. Len(d) \in Nat /\ Len(e) \in Nat /\ Len(rest) = Len(d) + Len(e)
          BY <4>1, Join, Lengths
        <5> QED BY <2>4, <3>2, <5>1
      <4>5. ASSUME NEW b \in Bytes
            PROVE  Just(Value(num, wire, data \o b), Parsed(x, e \o b))
        <5>1. Just(Size(wire, data \o b), Read(n, rest \o b)) BY <2>4
        <5>2. Value(num, wire, data \o b) = Slice(num, wire, rest \o b, n)
          BY <2>2, <5>1, SlicesOne
        <5>3. (d \o e) \o b = d \o (e \o b) /\ e \o b \in Bytes
          <6>1. \A c \in Bytes : (d \o e) \o c = d \o (e \o c) BY Join
          <6>2. e \o b \in Bytes BY Join
          <6> QED BY <6>1, <6>2
        <5>4. Just(Slice(num, wire, d \o (e \o b), Len(d)), Parsed(x, e \o b))
          BY <5>3, SliceOf
        <5> QED BY <4>1, <5>2, <5>3, <5>4
      <4> HIDE DEF x
      <4> QED BY <4>2, <4>3, <4>4, <4>5 DEF OneValue
    <3> QED BY <3>2, <3>3, <3>4
  <2> QED BY <2>1, <2>3, <2>4, SizeCases, Zenon
<1> QED BY <1>1, <1>2

(* The first field of data is x, and the same if more data follows; its    *)
(* bytes are fewer than the data's.                                        *)
OneField(data, x, rest) ==
  /\ Just(FirstField(data), Parsed(x, rest))
  /\ Len(rest) < Len(data)
  /\ x.wire # 0 => Len(x.val) < Len(data)
  /\ \A b \in Bytes : Just(FirstField(data \o b), Parsed(x, rest \o b))

(* The values that follow the tags in S.                                   *)
Tagged(S) == UNION {Value(tag.val \div 8, tag.val % 8, tag.rest) : tag \in S}

(* One tag has its value.                                                  *)
LEMMA TaggedOne ==
  ASSUME NEW S, NEW tag, NEW rest, Just(S, Read(tag, rest))
  PROVE  Tagged(S) = Value(tag \div 8, tag % 8, rest)
BY ReadParts DEF Tagged, Just

(* A first field is found or it is not.                                    *)
LEMMA FieldCases ==
  ASSUME NEW data \in Bytes
  PROVE  \/ FirstField(data) = {}
         \/ \E x \in Fields, rest \in Bytes : OneField(data, x, rest)
<1>1. \A d : FirstField(d) = Tagged(_read_varint[d]) BY DEF FirstField, Tagged
<1>2. CASE _read_varint[data] = {}
  <2>1. Tagged({}) = {} BY DEF Tagged
  <2> QED BY <1>1, <1>2, <2>1
<1>3. ASSUME NEW tag \in Nat, NEW body \in Bytes,
             Just(_read_varint[data], Read(tag, body)), Len(body) < Len(data),
             \A b \in Bytes : Just(_read_varint[data \o b], Read(tag, body \o b))
      PROVE  \/ FirstField(data) = {}
             \/ \E x \in Fields, rest \in Bytes : OneField(data, x, rest)
  <2> DEFINE num  == tag \div 8
             wire == tag % 8
  <2>1. num \in Nat /\ wire \in 0 .. 7 OBVIOUS
  <2>2. FirstField(data) = Value(num, wire, body) BY <1>1, <1>3, TaggedOne
  <2>3. ASSUME NEW b \in Bytes PROVE FirstField(data \o b) = Value(num, wire, body \o b)
    BY <1>1, <1>3, TaggedOne
  <2> HIDE DEF num, wire
  <2>4. CASE Value(num, wire, body) = {} BY <2>2, <2>4
  <2>5. ASSUME NEW x \in Fields, NEW rest \in Bytes, OneValue(num, wire, body, x, rest)
        PROVE  OneField(data, x, rest)
    <3>1. Just(FirstField(data), Parsed(x, rest)) BY <2>2, <2>5 DEF OneValue
    <3>2. \A b \in Bytes : Just(FirstField(data \o b), Parsed(x, rest \o b))
      BY <2>3, <2>5 DEF OneValue
    <3>3. Len(rest) \in Nat /\ Len(body) \in Nat /\ Len(data) \in Nat BY Lengths
    <3>4. Len(rest) <= Len(body) BY <2>5 DEF OneValue
    <3>5. Len(rest) < Len(data) BY <1>3, <3>3, <3>4
    <3>6. ASSUME x.wire # 0 PROVE Len(x.val) < Len(data)
      <4>1. Len(x.val) <= Len(body) BY <2>5, <3>6 DEF OneValue
      <4>2. x.val \in Bytes BY <3>6 DEF Fields
      <4>3. Len(x.val) \in Nat BY <4>2, Lengths
      <4> QED BY <1>3, <3>3, <4>1, <4>3
    <3> QED BY <3>1, <3>2, <3>5, <3>6 DEF OneField
  <2> QED BY <2>1, <2>4, <2>5, ValueCases, Zenon
<1> QED BY <1>2, <1>3, ReadCases, Zenon

(* A field that was built is the first field read.                         *)
LEMMA FieldRoundTrip ==
  ASSUME NEW x \in Built, NEW data \in Bytes
  PROVE  Encoded(x) \in Bytes /\ Just(FirstField(Encoded(x) \o data), Parsed(x, data))
<1>1. /\ x.num \in Nat /\ x.wire \in {0, 2}
      /\ x = Field(x.num, x.wire, x.val)
      /\ x.wire = 0 => x.val \in Nat
      /\ x.wire = 2 => x.val \in Bytes
  BY DEF Built, Fields, Field
<1> DEFINE num  == x.num
           wire == x.wire
           tag  == 8 * num + wire
<1>2. tag \in Nat /\ tag \div 8 = num /\ tag % 8 = wire
  <2>1. PICK n \in Nat : n = num BY <1>1
  <2>2. \A w \in {0, 2} : 8 * n + w \in Nat /\ (8 * n + w) \div 8 = n /\ (8 * n + w) % 8 = w
    OBVIOUS
  <2>3. wire \in {0, 2} BY <1>1
  <2> HIDE DEF num, wire
  <2> QED BY <2>1, <2>2, <2>3
<1> HIDE DEF tag
<1>3. \A d : FirstField(d) = Tagged(_read_varint[d]) BY DEF FirstField, Tagged
<1>4. ASSUME NEW body \in Bytes, Encoded(x) = _pb_varint[tag] \o body
      PROVE  /\ Encoded(x) \in Bytes
             /\ FirstField(Encoded(x) \o data) = Value(num, wire, body \o data)
  <2>1. _pb_varint[tag] \in Bytes BY <1>2, VarintDef
  <2>2. Encoded(x) \in Bytes /\ body \o data \in Bytes BY <1>4, <2>1, Join
  <2>3. (_pb_varint[tag] \o body) \o data = _pb_varint[tag] \o (body \o data)
    BY <1>4, <2>1, Join
  <2>4. Just(_read_varint[_pb_varint[tag] \o (body \o data)], Read(tag, body \o data))
    BY <1>2, <2>2, VarintRoundTrip DEF Just
  <2>5. FirstField(_pb_varint[tag] \o (body \o data))
          = Value(tag \div 8, tag % 8, body \o data)
    BY <1>3, <2>4, TaggedOne
  <2> QED BY <1>2, <1>4, <2>2, <2>3, <2>5
<1>5. CASE wire = 0
  <2> DEFINE body == _pb_varint[x.val]
  <2>1. x.val \in Nat /\ x = Field(num, 0, x.val) BY <1>1, <1>5
  <2>2. body \in Bytes BY <2>1, VarintDef
  <2>3. Encoded(x) = _pb_varint[tag] \o body BY <1>5 DEF Encoded, tag
  <2>4. Just(_read_varint[body \o data], Read(x.val, data))
    BY <2>1, VarintRoundTrip DEF Just
  <2> HIDE DEF body
  <2>5. Value(num, wire, body \o data) = Numbers(num, _read_varint[body \o data])
    BY <1>5 DEF Value, Numbers, _pb_field_varint
  <2>6. Just(Numbers(num, _read_varint[body \o data]), Parsed(Field(num, 0, x.val), data))
    BY <2>4, NumbersOne
  <2> HIDE DEF num, wire
  <2>7. Just(Numbers(num, _read_varint[body \o data]), Parsed(x, data))
    BY <2>1, <2>6
  <2> QED BY <1>4, <2>2, <2>3, <2>5, <2>7
<1>6. CASE wire = 2
  <2> DEFINE size == _pb_varint[Len(x.val)]
             d    == x.val
  <2>1. d \in Bytes /\ x = Field(num, 2, d) BY <1>1, <1>6
  <2>2. Len(d) \in Nat BY <2>1, Lengths
  <2>3. size \in Bytes BY <2>2, VarintDef
  <2>4. Encoded(x) = _pb_varint[tag] \o (size \o d) BY <1>6 DEF Encoded, tag
  <2>5. size \o d \in Bytes /\ d \o data \in Bytes BY <2>1, <2>3, Join
  <2>6. (size \o d) \o data = size \o (d \o data) BY <2>1, <2>3, Join
  <2>7. Just(_read_varint[size \o (d \o data)], Read(Len(d), d \o data))
    BY <2>2, <2>5, VarintRoundTrip DEF Just
  <2> HIDE DEF size, d
  <2>8. Value(num, wire, size \o (d \o data)) = Slices(num, wire, _read_varint[size \o (d \o data)])
    BY <1>6 DEF Value, Size, Slices
  <2>9. Slices(num, wire, _read_varint[size \o (d \o data)]) = Slice(num, wire, d \o data, Len(d))
    BY <2>7, SlicesOne
  <2>10. Just(Slice(num, wire, d \o data, Len(d)), Parsed(Field(num, wire, d), data))
    BY <2>1, SliceOf
  <2> HIDE DEF num, wire
  <2>11. Just(Value(num, wire, (size \o d) \o data), Parsed(x, data))
    BY <1>6, <2>1, <2>6, <2>8, <2>9, <2>10
  <2> QED BY <1>4, <2>4, <2>5, <2>11
<1> QED BY <1>1, <1>5, <1>6

-----------------------------------------------------------------------------
(* Messages. *)

(* The field lists in S, after those of fs.                                *)
After(fs, S) == {fs \o gs : gs \in S}

(* Lists put before lists, in either order.                                *)
LEMMA AfterAfter ==
  ASSUME NEW fs \in Seq(Fields), NEW gs \in Seq(Fields), NEW S, S \subseteq Seq(Fields)
  PROVE  After(fs, After(gs, S)) = After(fs \o gs, S)
<1>1. \A hs \in Seq(Fields) : (fs \o gs) \o hs = fs \o (gs \o hs) BY ConcatAssociative
<1>2. ASSUME NEW q \in After(fs, After(gs, S)) PROVE q \in After(fs \o gs, S)
  <2>1. PICK h \in S : q = fs \o (gs \o h) BY <1>2 DEF After
  <2>2. q = (fs \o gs) \o h BY <1>1, <2>1
  <2> QED BY <2>2 DEF After
<1>3. ASSUME NEW q \in After(fs \o gs, S) PROVE q \in After(fs, After(gs, S))
  <2>1. PICK h \in S : q = (fs \o gs) \o h BY <1>3 DEF After
  <2>2. q = fs \o (gs \o h) BY <1>1, <2>1
  <2> QED BY <2>2 DEF After
<1> QED BY <1>2, <1>3

(* No list put before lists.                                               *)
LEMMA AfterNone ==
  ASSUME NEW S, S \subseteq Seq(Fields)
  PROVE  After(<<>>, S) = S
<1>1. \A hs \in Seq(Fields) : <<>> \o hs = hs BY ConcatEmptySeq
<1> QED BY <1>1 DEF After

(* What the parser makes of data when it makes f of the rests.             *)
Parses(f, data) ==
  IF data = <<>> THEN {<<>>}
  ELSE UNION {After(<<p.field>>, f[p.rest]) : p \in FirstField(data)}

(* Data with a first field gives it and then those of the rest.            *)
LEMMA ParsesFirst ==
  ASSUME NEW f, NEW data, data # <<>>, NEW x, NEW rest, Just(FirstField(data), Parsed(x, rest))
  PROVE  Parses(f, data) = After(<<x>>, f[rest])
BY ParsedParts DEF Parses, Just

(* No data gives no fields, and data without a first field is malformed.   *)
LEMMA ParsesNone ==
  ASSUME NEW f, NEW data
  PROVE  /\ Parses(f, <<>>) = {<<>>}
         /\ data # <<>> /\ FirstField(data) = {} => Parses(f, data) = {}
BY DEF Parses

(* The parser's loop ends, on any bytes, with one list or none.            *)
LEMMA ParseDef ==
  \A data \in Bytes :
    /\ pb_parse[data] = Parses(pb_parse, data)
    /\ pb_parse[data] \subseteq Seq(Fields) /\ Single(pb_parse[data])
<1> DEFINE Body(f) == [data \in Bytes |-> Parses(f, data)]
           V == SUBSET Seq(Fields)
           B == [f \in [Bytes -> V] |-> Body(f)]
           m == [data \in Bytes |-> Len(data)]
<1>1. \A x \in Fields, S \in V : After(<<x>>, S) \in V
  <2>1. \A x \in Fields, fs \in Seq(Fields) : <<x>> \o fs \in Seq(Fields) BY Then
  <2> QED BY <2>1 DEF After
<1>2. ASSUME NEW f, NEW data \in Bytes,
             \A t \in Bytes : Len(t) < Len(data) => f[t] \in V
      PROVE  Parses(f, data) \in V
  <2>1. CASE data = <<>>
    <3>1. Parses(f, data) = {<<>>} BY <2>1, ParsesNone
    <3>2. <<>> \in Seq(Fields) BY EmptySeq
    <3> QED BY <3>1, <3>2
  <2>2. CASE data # <<>> /\ FirstField(data) = {} BY <2>2, ParsesNone
  <2>3. ASSUME data # <<>>, NEW x \in Fields, NEW rest \in Bytes, OneField(data, x, rest)
        PROVE  Parses(f, data) \in V
    <3>1. Parses(f, data) = After(<<x>>, f[rest]) BY <2>3, ParsesFirst DEF OneField
    <3>2. f[rest] \in V BY <1>2, <2>3 DEF OneField
    <3> HIDE DEF V
    <3> QED BY <1>1, <2>3, <3>1, <3>2
  <2> HIDE DEF V
  <2> QED BY <2>1, <2>2, <2>3, FieldCases
<1>3. \A f \in [Bytes -> V] : Body(f) \in [Bytes -> V]
  <2> HIDE DEF V
  <2> QED BY <1>2
<1>4. B \in [[Bytes -> V] -> [Bytes -> V]]
  <2> HIDE DEF Body, V
  <2> QED BY <1>3
<1>5. m \in [Bytes -> Nat] BY Lengths
<1>6. [Bytes -> V] # {}
  <2>1. [data \in Bytes |-> {}] \in [Bytes -> V] OBVIOUS
  <2> QED BY <2>1
<1>7. ASSUME NEW f \in [Bytes -> V], NEW g \in [Bytes -> V], NEW s \in Bytes,
             \A t \in Bytes : m[t] < m[s] => f[t] = g[t]
      PROVE  B[f][s] = B[g][s]
  <2>1. Parses(f, s) = Parses(g, s)
    <3>1. CASE s = <<>> BY <3>1, ParsesNone
    <3>2. CASE s # <<>> /\ FirstField(s) = {} BY <3>2, ParsesNone
    <3>3. ASSUME s # <<>>, NEW x \in Fields, NEW rest \in Bytes, OneField(s, x, rest)
          PROVE  Parses(f, s) = Parses(g, s)
      <4>1. f[rest] = g[rest] BY <1>7, <3>3 DEF OneField
      <4>2. /\ Parses(f, s) = After(<<x>>, f[rest])
            /\ Parses(g, s) = After(<<x>>, g[rest])
        BY <3>3, ParsesFirst DEF OneField
      <4> QED BY <4>1, <4>2
    <3> QED BY <3>1, <3>2, <3>3, FieldCases
  <2> QED BY <2>1
<1>8. PICK f \in [Bytes -> V] : f = B[f]
  <2> HIDE DEF Body, V
  <2>1. Decreases(B, Bytes, V, m) BY <1>4, <1>5, <1>6, <1>7 DEF Decreases
  <2> HIDE DEF B, m
  <2> QED BY <2>1, RecursionExists, SMT
<1>9. f = Body(f)
  <2> HIDE DEF Body, V
  <2> QED BY <1>8
<1>10. pb_parse = CHOOSE h : h = Body(h) BY DEF pb_parse, Parses, After
<1>11. pb_parse = Body(pb_parse)
  <2> HIDE DEF Body
  <2> QED BY <1>9, <1>10
<1>12. \A data \in Bytes : pb_parse[data] = Parses(pb_parse, data) BY <1>11
<1> DEFINE Good(data) == pb_parse[data] \in V /\ Single(pb_parse[data])
           P == {data \in Bytes : Good(data)}
<1>13. ASSUME NEW s \in Bytes, \A t \in Bytes : m[t] < m[s] => t \in P PROVE s \in P
  <2>1. pb_parse[s] \in V
    <3>1. \A t \in Bytes : Len(t) < Len(s) => pb_parse[t] \in V BY <1>13
    <3> HIDE DEF V
    <3> QED BY <1>2, <1>12, <3>1
  <2>2. Single(pb_parse[s])
    <3>1. CASE s = <<>>
      <4>1. pb_parse[s] = {<<>>} BY <1>12, <3>1, ParsesNone
      <4> QED BY <4>1 DEF Single
    <3>2. CASE s # <<>> /\ FirstField(s) = {}
      <4>1. pb_parse[s] = {} BY <1>12, <3>2, ParsesNone
      <4> QED BY <4>1 DEF Single
    <3>3. ASSUME s # <<>>, NEW x \in Fields, NEW rest \in Bytes, OneField(s, x, rest)
          PROVE  Single(pb_parse[s])
      <4>1. pb_parse[s] = After(<<x>>, pb_parse[rest])
        BY <1>12, <3>3, ParsesFirst DEF OneField
      <4>2. Single(pb_parse[rest]) BY <1>13, <3>3 DEF OneField
      <4> QED BY <4>1, <4>2 DEF Single, After
    <3> QED BY <3>1, <3>2, <3>3, FieldCases
  <2> HIDE DEF V
  <2> QED BY <2>1, <2>2
<1>14. Bytes \subseteq P
  <2> HIDE DEF P, m
  <2> QED BY <1>5, <1>13, MeasureInduction
<1>15. \A data \in Bytes : Good(data)
  <2> HIDE DEF Good
  <2> QED BY <1>14
<1> QED BY <1>12, <1>15

(* A list that was parsed from a has a first field and others, or none.    *)
LEMMA ParseCases ==
  ASSUME NEW a \in Bytes, NEW fs \in pb_parse[a]
  PROVE  \/ a = <<>> /\ fs = <<>>
         \/ \E x \in Fields, rest \in Bytes : \E gs \in pb_parse[rest] :
              OneField(a, x, rest) /\ gs \in Seq(Fields) /\ fs = <<x>> \o gs
<1>1. pb_parse[a] = Parses(pb_parse, a) BY ParseDef
<1>2. CASE a = <<>> BY <1>1, <1>2, ParsesNone
<1>3. CASE a # <<>>
  <2>1. FirstField(a) # {} BY <1>1, <1>3, ParsesNone
  <2>2. PICK x \in Fields, rest \in Bytes : OneField(a, x, rest) BY <2>1, FieldCases
  <2>3. pb_parse[a] = After(<<x>>, pb_parse[rest])
    BY <1>1, <1>3, <2>2, ParsesFirst DEF OneField
  <2>4. PICK gs \in pb_parse[rest] : fs = <<x>> \o gs BY <2>3 DEF After
  <2>5. gs \in Seq(Fields) BY ParseDef
  <2> QED BY <2>2, <2>4, <2>5
<1> QED BY <1>2, <1>3

(* The parser reads the first field and then those of the rest.            *)
LEMMA ParseFirst ==
  ASSUME NEW data \in Bytes, NEW x, NEW rest, Just(FirstField(data), Parsed(x, rest))
  PROVE  pb_parse[data] = After(<<x>>, pb_parse[rest])
<1>1. data # <<>>
  <2>1. _read_varint[<<>>] = {} BY ReadDef, Lengths
  <2>2. FirstField(<<>>) = {} BY <2>1 DEF FirstField
  <2> QED BY <2>2 DEF Just
<1>2. pb_parse[data] = Parses(pb_parse, data) BY ParseDef
<1> QED BY <1>1, <1>2, ParsesFirst

(* What was parsed from data is parsed first whatever follows the data, so *)
(* that a message cut between two fields gives the fields before the cut.  *)
THEOREM ParseJoins ==
  \A a, b \in Bytes : \A fs \in pb_parse[a] :
    pb_parse[a \o b] = {fs \o gs : gs \in pb_parse[b]}
<1> DEFINE P == {a \in Bytes : \A b \in Bytes : \A fs \in pb_parse[a] :
                   pb_parse[a \o b] = After(fs, pb_parse[b])}
           m == [data \in Bytes |-> Len(data)]
<1>1. m \in [Bytes -> Nat] BY Lengths
<1>2. ASSUME NEW a \in Bytes, \A t \in Bytes : m[t] < m[a] => t \in P,
             NEW b \in Bytes, NEW fs \in pb_parse[a]
      PROVE  pb_parse[a \o b] = After(fs, pb_parse[b])
  <2>0. pb_parse[b] \subseteq Seq(Fields) BY ParseDef
  <2>1. CASE a = <<>> /\ fs = <<>>
    <3>1. a \o b = b BY <2>1, Lengths
    <3> QED BY <2>0, <2>1, <3>1, AfterNone
  <2>2. ASSUME NEW x \in Fields, NEW rest \in Bytes, NEW gs \in pb_parse[rest],
               OneField(a, x, rest), gs \in Seq(Fields), fs = <<x>> \o gs
        PROVE  pb_parse[a \o b] = After(fs, pb_parse[b])
    <3>1. rest \in P
      <4>1. m[rest] < m[a] BY <2>2 DEF OneField
      <4> QED BY <1>2, <4>1
    <3>2. pb_parse[rest \o b] = After(gs, pb_parse[b]) BY <2>2, <3>1
    <3>3. Just(FirstField(a \o b), Parsed(x, rest \o b)) BY <2>2 DEF OneField
    <3>4. a \o b \in Bytes BY Join
    <3>5. pb_parse[a \o b] = After(<<x>>, pb_parse[rest \o b]) BY <3>3, <3>4, ParseFirst
    <3>6. <<x>> \in Seq(Fields) OBVIOUS
    <3>7. After(<<x>>, After(gs, pb_parse[b])) = After(<<x>> \o gs, pb_parse[b])
      BY <2>0, <2>2, <3>6, AfterAfter
    <3> QED BY <2>2, <3>2, <3>5, <3>7
  <2> HIDE DEF P, m
  <2> QED BY <2>1, <2>2, ParseCases
<1>3. ASSUME NEW a \in Bytes, \A t \in Bytes : m[t] < m[a] => t \in P PROVE a \in P
  <2> HIDE DEF m
  <2> QED BY <1>2, <1>3
<1>4. Bytes \subseteq P
  <2> HIDE DEF P, m
  <2> QED BY <1>1, <1>3, MeasureInduction
<1> QED BY <1>4 DEF After

(* What the builders make of fields when they make f of the others.        *)
Joins(f, fields) == IF fields = <<>> THEN <<>> ELSE Encoded(fields[1]) \o f[Tail(fields)]

(* The lists that builders are given, as a set the provers need not open.  *)
BuiltLists == Seq(Built)

(* A message is bytes.                                                     *)
LEMMA MessageDef ==
  \A fs \in BuiltLists : Message[fs] = Joins(Message, fs) /\ Message[fs] \in Bytes
<1> DEFINE Body(f) == [fs \in BuiltLists |-> Joins(f, fs)]
           B == [f \in [BuiltLists -> Bytes] |-> Body(f)]
           m == [fs \in BuiltLists |-> Len(fs)]
<1>1. ASSUME NEW f, NEW fs \in BuiltLists,
             \A t \in BuiltLists : Len(t) < Len(fs) => f[t] \in Bytes
      PROVE  Joins(f, fs) \in Bytes
  <2>1. CASE fs = <<>> BY <2>1, Lengths DEF Joins
  <2>2. CASE fs # <<>>
    <3>1. fs[1] \in Built /\ Tail(fs) \in BuiltLists /\ Len(Tail(fs)) < Len(fs)
      BY <2>2, FirstOf DEF BuiltLists
    <3>2. Encoded(fs[1]) \in Bytes BY <3>1, FieldRoundTrip, Lengths
    <3>3. f[Tail(fs)] \in Bytes BY <1>1, <3>1
    <3>4. Joins(f, fs) = Encoded(fs[1]) \o f[Tail(fs)] BY <2>2 DEF Joins
    <3> QED BY <3>2, <3>3, <3>4, Join
  <2> QED BY <2>1, <2>2
<1>2. \A f \in [BuiltLists -> Bytes] : Body(f) \in [BuiltLists -> Bytes] BY <1>1
<1>3. B \in [[BuiltLists -> Bytes] -> [BuiltLists -> Bytes]]
  <2> HIDE DEF Body
  <2> QED BY <1>2
<1>4. m \in [BuiltLists -> Nat]
  <2>1. \A fs \in BuiltLists : Len(fs) \in Nat BY LenProperties DEF BuiltLists
  <2> QED BY <2>1
<1>5. [BuiltLists -> Bytes] # {}
  <2>1. [fs \in BuiltLists |-> <<>>] \in [BuiltLists -> Bytes] BY Lengths
  <2> QED BY <2>1
<1>6. ASSUME NEW f \in [BuiltLists -> Bytes], NEW g \in [BuiltLists -> Bytes],
             NEW fs \in BuiltLists,
             \A t \in BuiltLists : m[t] < m[fs] => f[t] = g[t]
      PROVE  B[f][fs] = B[g][fs]
  <2>1. fs # <<>> => Tail(fs) \in BuiltLists /\ Len(Tail(fs)) < Len(fs)
    BY FirstOf DEF BuiltLists
  <2>2. fs # <<>> => f[Tail(fs)] = g[Tail(fs)] BY <1>6, <2>1
  <2>3. Joins(f, fs) = Joins(g, fs) BY <2>2 DEF Joins
  <2> QED BY <2>3
<1>7. PICK f \in [BuiltLists -> Bytes] : f = B[f]
  <2> HIDE DEF Body
  <2>1. Decreases(B, BuiltLists, Bytes, m) BY <1>3, <1>4, <1>5, <1>6 DEF Decreases
  <2> HIDE DEF B, m
  <2> QED BY <2>1, RecursionExists, SMT
<1>8. f = Body(f)
  <2> HIDE DEF Body
  <2> QED BY <1>7
<1>9. Message = CHOOSE h : h = Body(h) BY DEF Message, Joins, BuiltLists
<1>10. Message = Body(Message)
  <2> HIDE DEF Body
  <2> QED BY <1>8, <1>9
<1>11. \A fs \in BuiltLists : Message[fs] = Joins(Message, fs) BY <1>10
<1> DEFINE P == {fs \in BuiltLists : Message[fs] \in Bytes}
<1>12. ASSUME NEW fs \in BuiltLists, \A t \in BuiltLists : m[t] < m[fs] => t \in P
       PROVE  fs \in P
  <2>1. \A t \in BuiltLists : Len(t) < Len(fs) => Message[t] \in Bytes BY <1>12
  <2> QED BY <1>1, <1>11, <2>1
<1>13. BuiltLists \subseteq P
  <2> HIDE DEF P, m
  <2> QED BY <1>4, <1>12, MeasureInduction
<1> QED BY <1>11, <1>13

(* What the builders write the parser reads back: the fields, in their     *)
(* order, with their values (_pb_field_varint, _pb_field_bytes, pb_parse). *)
THEOREM MessageRoundTrip ==
  \A fields \in Seq(Built) : pb_parse[Message[fields]] = {fields}
<1> DEFINE P == {fs \in BuiltLists : Just(pb_parse[Message[fs]], fs)}
           m == [fs \in BuiltLists |-> Len(fs)]
<1>1. m \in [BuiltLists -> Nat]
  <2>1. \A fs \in BuiltLists : Len(fs) \in Nat BY LenProperties DEF BuiltLists
  <2> QED BY <2>1
<1>2. ASSUME NEW fs \in BuiltLists, \A t \in BuiltLists : m[t] < m[fs] => t \in P
      PROVE  Just(pb_parse[Message[fs]], fs)
  <2>1. CASE fs = <<>>
    <3>1. Message[fs] = <<>> BY <2>1, MessageDef DEF Joins
    <3>2. pb_parse[<<>>] = {<<>>} BY ParseDef, ParsesNone, Lengths
    <3> QED BY <2>1, <3>1, <3>2 DEF Just
  <2>2. CASE fs # <<>>
    <3> DEFINE x == fs[1]
               gs == Tail(fs)
               rest == Message[gs]
    <3>1. x \in Built /\ gs \in BuiltLists /\ fs = <<x>> \o gs /\ m[gs] < m[fs]
      BY <2>2, FirstOf DEF BuiltLists
    <3>2. Message[fs] = Encoded(x) \o rest BY <2>2, MessageDef DEF Joins
    <3> HIDE DEF x, gs, m
    <3>3. rest \in Bytes BY <3>1, MessageDef
    <3>4. Just(pb_parse[rest], gs) BY <1>2, <3>1
    <3> HIDE DEF rest
    <3>5. /\ Encoded(x) \o rest \in Bytes
          /\ Just(FirstField(Encoded(x) \o rest), Parsed(x, rest))
      BY <3>1, <3>3, FieldRoundTrip, Join
    <3>6. pb_parse[Encoded(x) \o rest] = After(<<x>>, pb_parse[rest])
      BY <3>5, ParseFirst
    <3>7. Just(After(<<x>>, pb_parse[rest]), <<x>> \o gs) BY <3>4 DEF Just, After
    <3> QED BY <3>1, <3>2, <3>6, <3>7
  <2> QED BY <2>1, <2>2
<1>3. ASSUME NEW fs \in BuiltLists, \A t \in BuiltLists : m[t] < m[fs] => t \in P
      PROVE  fs \in P
  <2> HIDE DEF m
  <2> QED BY <1>2, <1>3
<1>4. BuiltLists \subseteq P
  <2> HIDE DEF P, m
  <2> QED BY <1>1, <1>3, MeasureInduction
<1> QED BY <1>4 DEF Just, BuiltLists

-----------------------------------------------------------------------------
(* Start times. *)

NatLists == Seq(Nat)
FieldLists == Seq(Fields)

(* Lists of numbers, joined.                                               *)
LEMMA NatJoin ==
  /\ <<>> \in NatLists
  /\ \A a, b \in NatLists : a \o b \in NatLists
  /\ \A a \in NatLists : a \o <<>> = a /\ <<>> \o a = a
  /\ \A v \in Nat : <<v>> \in NatLists
<1>1. <<>> \in NatLists BY EmptySeq DEF NatLists
<1>2. \A a, b \in NatLists : a \o b \in NatLists BY ConcatProperties DEF NatLists
<1>3. \A a \in NatLists : a \o <<>> = a /\ <<>> \o a = a
  BY ConcatEmptySeq, Zenon DEF NatLists
<1>4. \A v \in Nat : <<v>> \in NatLists BY DEF NatLists
<1> QED BY <1>1, <1>2, <1>3, <1>4

(* The first of a list of numbers.                                         *)
LEMMA NatFirst ==
  ASSUME NEW vals \in NatLists, vals # <<>>
  PROVE  /\ vals[1] \in Nat /\ Tail(vals) \in NatLists
         /\ vals = <<vals[1]>> \o Tail(vals) /\ Len(Tail(vals)) < Len(vals)
BY FirstOf DEF NatLists

(* What Packed, _decode_packed_varints and start_mins make of a list when  *)
(* they make f of the rest of it.                                          *)
Packs(f, vals) == IF vals = <<>> THEN <<>> ELSE _pb_varint[vals[1]] \o f[Tail(vals)]

Unpacks(f, data) ==
  IF _read_varint[data] = {} THEN <<>>
  ELSE LET r == CHOOSE r \in _read_varint[data] : TRUE IN <<r.val>> \o f[r.rest]

Starts(f, fields) == IF fields = <<>> THEN <<>> ELSE Times(fields[1]) \o f[Tail(fields)]

(* Data with a first number gives it and then those of the rest.           *)
LEMMA UnpacksOne ==
  ASSUME NEW f, NEW data, NEW v, NEW rest, Just(_read_varint[data], Read(v, rest))
  PROVE  Unpacks(f, data) = <<v>> \o f[rest]
<1>1. (CHOOSE r \in _read_varint[data] : TRUE) = Read(v, rest) BY DEF Just
<1>2. _read_varint[data] # {} BY DEF Just
<1> DEFINE c == CHOOSE r \in _read_varint[data] : TRUE
<1>3. Unpacks(f, data) = <<c.val>> \o f[c.rest] BY <1>2 DEF Unpacks
<1>4. c = Read(v, rest) BY <1>1
<1> HIDE DEF c
<1>5. c.val = v /\ c.rest = rest BY <1>4, ReadParts
<1> QED BY <1>3, <1>5

(* Packed numbers are bytes.                                               *)
LEMMA PackedDef ==
  \A vals \in NatLists : Packed[vals] = Packs(Packed, vals) /\ Packed[vals] \in Bytes
<1> DEFINE Body(f) == [vals \in NatLists |-> Packs(f, vals)]
           B == [f \in [NatLists -> Bytes] |-> Body(f)]
           m == [vals \in NatLists |-> Len(vals)]
<1>1. ASSUME NEW f, NEW vals \in NatLists,
             \A t \in NatLists : Len(t) < Len(vals) => f[t] \in Bytes
      PROVE  Packs(f, vals) \in Bytes
  <2>1. CASE vals = <<>> BY <2>1, Lengths DEF Packs
  <2>2. CASE vals # <<>>
    <3>1. vals[1] \in Nat /\ Tail(vals) \in NatLists /\ Len(Tail(vals)) < Len(vals)
      BY <2>2, NatFirst
    <3>2. _pb_varint[vals[1]] \in Bytes BY <3>1, VarintDef
    <3>3. f[Tail(vals)] \in Bytes BY <1>1, <3>1
    <3>4. Packs(f, vals) = _pb_varint[vals[1]] \o f[Tail(vals)] BY <2>2 DEF Packs
    <3> QED BY <3>2, <3>3, <3>4, Join
  <2> QED BY <2>1, <2>2
<1>2. \A f \in [NatLists -> Bytes] : Body(f) \in [NatLists -> Bytes] BY <1>1
<1>3. B \in [[NatLists -> Bytes] -> [NatLists -> Bytes]]
  <2> HIDE DEF Body
  <2> QED BY <1>2
<1>4. m \in [NatLists -> Nat]
  <2>1. \A vals \in NatLists : Len(vals) \in Nat BY LenProperties DEF NatLists
  <2> QED BY <2>1
<1>5. [NatLists -> Bytes] # {}
  <2>1. [vals \in NatLists |-> <<>>] \in [NatLists -> Bytes] BY Lengths
  <2> QED BY <2>1
<1>6. ASSUME NEW f \in [NatLists -> Bytes], NEW g \in [NatLists -> Bytes],
             NEW vals \in NatLists,
             \A t \in NatLists : m[t] < m[vals] => f[t] = g[t]
      PROVE  B[f][vals] = B[g][vals]
  <2>1. vals # <<>> => Tail(vals) \in NatLists /\ Len(Tail(vals)) < Len(vals) BY NatFirst
  <2>2. vals # <<>> => f[Tail(vals)] = g[Tail(vals)] BY <1>6, <2>1
  <2>3. Packs(f, vals) = Packs(g, vals) BY <2>2 DEF Packs
  <2> QED BY <2>3
<1>7. PICK f \in [NatLists -> Bytes] : f = B[f]
  <2> HIDE DEF Body
  <2>1. Decreases(B, NatLists, Bytes, m) BY <1>3, <1>4, <1>5, <1>6 DEF Decreases
  <2> HIDE DEF B, m
  <2> QED BY <2>1, RecursionExists, SMT
<1>8. f = Body(f)
  <2> HIDE DEF Body
  <2> QED BY <1>7
<1>9. Packed = CHOOSE h : h = Body(h) BY DEF Packed, Packs, NatLists
<1>10. Packed = Body(Packed)
  <2> HIDE DEF Body
  <2> QED BY <1>8, <1>9
<1>11. \A vals \in NatLists : Packed[vals] = Packs(Packed, vals) BY <1>10
<1> DEFINE P == {vals \in NatLists : Packed[vals] \in Bytes}
<1>12. ASSUME NEW vals \in NatLists, \A t \in NatLists : m[t] < m[vals] => t \in P
       PROVE  vals \in P
  <2>1. \A t \in NatLists : Len(t) < Len(vals) => Packed[t] \in Bytes BY <1>12
  <2> QED BY <1>1, <1>11, <2>1
<1>13. NatLists \subseteq P
  <2> HIDE DEF P, m
  <2> QED BY <1>4, <1>12, MeasureInduction
<1> QED BY <1>11, <1>13

(* Any bytes unpack to numbers.                                            *)
LEMMA UnpackDef ==
  \A data \in Bytes :
    /\ _decode_packed_varints[data] = Unpacks(_decode_packed_varints, data)
    /\ _decode_packed_varints[data] \in NatLists
<1> DEFINE Body(f) == [data \in Bytes |-> Unpacks(f, data)]
           B == [f \in [Bytes -> NatLists] |-> Body(f)]
           m == [data \in Bytes |-> Len(data)]
<1>1. ASSUME NEW f, NEW data \in Bytes,
             \A t \in Bytes : Len(t) < Len(data) => f[t] \in NatLists
      PROVE  Unpacks(f, data) \in NatLists
  <2>1. CASE _read_varint[data] = {} BY <2>1, NatJoin DEF Unpacks
  <2>2. ASSUME NEW v \in Nat, NEW rest \in Bytes,
               Just(_read_varint[data], Read(v, rest)), Len(rest) < Len(data)
        PROVE  Unpacks(f, data) \in NatLists
    <3>1. Unpacks(f, data) = <<v>> \o f[rest] BY <2>2, UnpacksOne
    <3>2. f[rest] \in NatLists BY <1>1, <2>2
    <3> QED BY <3>1, <3>2, NatJoin
  <2> QED BY <2>1, <2>2, ReadCases
<1>2. \A f \in [Bytes -> NatLists] : Body(f) \in [Bytes -> NatLists] BY <1>1
<1>3. B \in [[Bytes -> NatLists] -> [Bytes -> NatLists]]
  <2> HIDE DEF Body
  <2> QED BY <1>2
<1>4. m \in [Bytes -> Nat]
  <2>1. \A data \in Bytes : Len(data) \in Nat BY Lengths
  <2> QED BY <2>1
<1>5. [Bytes -> NatLists] # {}
  <2>1. [data \in Bytes |-> <<>>] \in [Bytes -> NatLists] BY NatJoin
  <2> QED BY <2>1
<1>6. ASSUME NEW f \in [Bytes -> NatLists], NEW g \in [Bytes -> NatLists], NEW data \in Bytes,
             \A t \in Bytes : m[t] < m[data] => f[t] = g[t]
      PROVE  B[f][data] = B[g][data]
  <2>1. CASE _read_varint[data] = {}
    <3>1. Unpacks(f, data) = Unpacks(g, data) BY <2>1 DEF Unpacks
    <3> QED BY <3>1
  <2>2. ASSUME NEW v \in Nat, NEW rest \in Bytes,
               Just(_read_varint[data], Read(v, rest)), Len(rest) < Len(data)
        PROVE  Unpacks(f, data) = Unpacks(g, data)
    <3>1. f[rest] = g[rest] BY <1>6, <2>2
    <3>2. Unpacks(f, data) = <<v>> \o f[rest] /\ Unpacks(g, data) = <<v>> \o g[rest]
      BY <2>2, UnpacksOne
    <3> QED BY <3>1, <3>2
  <2>3. Unpacks(f, data) = Unpacks(g, data) BY <2>1, <2>2, ReadCases
  <2> QED BY <2>3
<1>7. PICK f \in [Bytes -> NatLists] : f = B[f]
  <2> HIDE DEF Body
  <2>1. Decreases(B, Bytes, NatLists, m) BY <1>3, <1>4, <1>5, <1>6 DEF Decreases
  <2> HIDE DEF B, m
  <2> QED BY <2>1, RecursionExists, SMT
<1>8. f = Body(f)
  <2> HIDE DEF Body
  <2> QED BY <1>7
<1>9. _decode_packed_varints = CHOOSE h : h = Body(h) BY DEF _decode_packed_varints, Unpacks
<1>10. _decode_packed_varints = Body(_decode_packed_varints)
  <2> HIDE DEF Body
  <2> QED BY <1>8, <1>9
<1>11. \A data \in Bytes :
         _decode_packed_varints[data] = Unpacks(_decode_packed_varints, data)
  BY <1>10
<1> DEFINE P == {data \in Bytes : _decode_packed_varints[data] \in NatLists}
<1>12. ASSUME NEW data \in Bytes, \A t \in Bytes : m[t] < m[data] => t \in P PROVE data \in P
  <2>1. \A t \in Bytes : Len(t) < Len(data) => _decode_packed_varints[t] \in NatLists BY <1>12
  <2> QED BY <1>1, <1>11, <2>1
<1>13. Bytes \subseteq P
  <2> HIDE DEF P, m
  <2> QED BY <1>4, <1>12, MeasureInduction
<1> QED BY <1>11, <1>13

(* The first of a list of fields.                                          *)
LEMMA FieldFirst ==
  ASSUME NEW fs \in FieldLists, fs # <<>>
  PROVE  /\ fs[1] \in Fields /\ Tail(fs) \in FieldLists
         /\ fs = <<fs[1]>> \o Tail(fs) /\ Len(Tail(fs)) < Len(fs)
BY FirstOf DEF FieldLists

(* The start times of a field are numbers.                                 *)
LEMMA TimesAreNumbers ==
  ASSUME NEW x \in Fields
  PROVE  Times(x) \in NatLists
<1>1. CASE x.wire = 0
  <2>1. x.val \in Nat BY <1>1 DEF Fields
  <2> QED BY <1>1, <2>1, NatJoin DEF Times
<1>2. CASE x.wire # 0
  <2>1. x.val \in Bytes BY <1>2 DEF Fields
  <2>2. _decode_packed_varints[x.val] \in NatLists BY <2>1, UnpackDef
  <2> QED BY <1>2, <2>2, NatJoin DEF Times
<1> QED BY <1>1, <1>2

(* Any fields have start times.                                            *)
LEMMA StartsDef ==
  \A fs \in FieldLists : start_mins[fs] = Starts(start_mins, fs) /\ start_mins[fs] \in NatLists
<1> DEFINE Body(f) == [fs \in FieldLists |-> Starts(f, fs)]
           B == [f \in [FieldLists -> NatLists] |-> Body(f)]
           m == [fs \in FieldLists |-> Len(fs)]
<1>1. ASSUME NEW f, NEW fs \in FieldLists,
             \A t \in FieldLists : Len(t) < Len(fs) => f[t] \in NatLists
      PROVE  Starts(f, fs) \in NatLists
  <2>1. CASE fs = <<>> BY <2>1, NatJoin DEF Starts
  <2>2. CASE fs # <<>>
    <3>1. fs[1] \in Fields /\ Tail(fs) \in FieldLists /\ Len(Tail(fs)) < Len(fs)
      BY <2>2, FieldFirst
    <3>2. Times(fs[1]) \in NatLists BY <3>1, TimesAreNumbers
    <3>3. f[Tail(fs)] \in NatLists BY <1>1, <3>1
    <3>4. Starts(f, fs) = Times(fs[1]) \o f[Tail(fs)] BY <2>2 DEF Starts
    <3> QED BY <3>2, <3>3, <3>4, NatJoin
  <2> QED BY <2>1, <2>2
<1>2. \A f \in [FieldLists -> NatLists] : Body(f) \in [FieldLists -> NatLists] BY <1>1
<1>3. B \in [[FieldLists -> NatLists] -> [FieldLists -> NatLists]]
  <2> HIDE DEF Body
  <2> QED BY <1>2
<1>4. m \in [FieldLists -> Nat]
  <2>1. \A fs \in FieldLists : Len(fs) \in Nat BY LenProperties DEF FieldLists
  <2> QED BY <2>1
<1>5. [FieldLists -> NatLists] # {}
  <2>1. [fs \in FieldLists |-> <<>>] \in [FieldLists -> NatLists] BY NatJoin
  <2> QED BY <2>1
<1>6. ASSUME NEW f \in [FieldLists -> NatLists], NEW g \in [FieldLists -> NatLists],
             NEW fs \in FieldLists,
             \A t \in FieldLists : m[t] < m[fs] => f[t] = g[t]
      PROVE  B[f][fs] = B[g][fs]
  <2>1. fs # <<>> => Tail(fs) \in FieldLists /\ Len(Tail(fs)) < Len(fs) BY FieldFirst
  <2>2. fs # <<>> => f[Tail(fs)] = g[Tail(fs)] BY <1>6, <2>1
  <2>3. Starts(f, fs) = Starts(g, fs) BY <2>2 DEF Starts
  <2> QED BY <2>3
<1>7. PICK f \in [FieldLists -> NatLists] : f = B[f]
  <2> HIDE DEF Body
  <2>1. Decreases(B, FieldLists, NatLists, m) BY <1>3, <1>4, <1>5, <1>6 DEF Decreases
  <2> HIDE DEF B, m
  <2> QED BY <2>1, RecursionExists, SMT
<1>8. f = Body(f)
  <2> HIDE DEF Body
  <2> QED BY <1>7
<1>9. start_mins = CHOOSE h : h = Body(h) BY DEF start_mins, Starts, FieldLists
<1>10. start_mins = Body(start_mins)
  <2> HIDE DEF Body
  <2> QED BY <1>8, <1>9
<1>11. \A fs \in FieldLists : start_mins[fs] = Starts(start_mins, fs) BY <1>10
<1> DEFINE P == {fs \in FieldLists : start_mins[fs] \in NatLists}
<1>12. ASSUME NEW fs \in FieldLists, \A t \in FieldLists : m[t] < m[fs] => t \in P
       PROVE  fs \in P
  <2>1. \A t \in FieldLists : Len(t) < Len(fs) => start_mins[t] \in NatLists BY <1>12
  <2> QED BY <1>1, <1>11, <2>1
<1>13. FieldLists \subseteq P
  <2> HIDE DEF P, m
  <2> QED BY <1>4, <1>12, MeasureInduction
<1> QED BY <1>11, <1>13

(* The first start times, and those of the other fields.                   *)
LEMMA StartsFirst ==
  ASSUME NEW fs \in FieldLists, fs # <<>>
  PROVE  start_mins[fs] = Times(fs[1]) \o start_mins[Tail(fs)]
<1>1. start_mins[fs] = Starts(start_mins, fs) BY StartsDef
<1> QED BY <1>1 DEF Starts

(* Packed numbers are unpacked in their order                              *)
(* (_decode_packed_varints).                                               *)
THEOREM PackedRoundTrip ==
  \A vals \in Seq(Nat) : _decode_packed_varints[Packed[vals]] = vals
<1> DEFINE P == {vals \in NatLists : _decode_packed_varints[Packed[vals]] = vals}
           m == [vals \in NatLists |-> Len(vals)]
<1>1. m \in [NatLists -> Nat]
  <2>1. \A vals \in NatLists : Len(vals) \in Nat BY LenProperties DEF NatLists
  <2> QED BY <2>1
<1>2. ASSUME NEW vals \in NatLists, \A t \in NatLists : m[t] < m[vals] => t \in P
      PROVE  _decode_packed_varints[Packed[vals]] = vals
  <2>1. CASE vals = <<>>
    <3>1. Packed[vals] = <<>> BY <2>1, PackedDef DEF Packs
    <3>2. _read_varint[<<>>] = {} BY ReadDef, Lengths
    <3>3. _decode_packed_varints[<<>>] = Unpacks(_decode_packed_varints, <<>>)
      BY UnpackDef, Lengths
    <3>4. _decode_packed_varints[<<>>] = <<>> BY <3>2, <3>3 DEF Unpacks
    <3> QED BY <2>1, <3>1, <3>4
  <2>2. CASE vals # <<>>
    <3> DEFINE v    == vals[1]
               q    == Tail(vals)
               rest == Packed[q]
               data == _pb_varint[v] \o rest
    <3>1. v \in Nat /\ q \in NatLists /\ vals = <<v>> \o q /\ m[q] < m[vals]
      BY <2>2, NatFirst
    <3>2. Packed[vals] = data
      <4>1. Packed[vals] = Packs(Packed, vals) BY PackedDef
      <4> QED BY <2>2, <4>1 DEF Packs
    <3> HIDE DEF v, q, m
    <3>3. rest \in Bytes BY <3>1, PackedDef
    <3>4. _decode_packed_varints[rest] = q BY <1>2, <3>1
    <3> HIDE DEF rest
    <3>5. data \in Bytes
      <4>1. _pb_varint[v] \in Bytes BY <3>1, VarintDef
      <4> QED BY <3>3, <4>1, Join
    <3>6. Just(_read_varint[data], Read(v, rest)) BY <3>1, <3>3, VarintRoundTrip DEF Just
    <3> HIDE DEF data
    <3>7. _decode_packed_varints[data] = Unpacks(_decode_packed_varints, data)
      BY <3>5, UnpackDef
    <3>8. Unpacks(_decode_packed_varints, data) = <<v>> \o _decode_packed_varints[rest]
      BY <3>6, UnpacksOne
    <3> QED BY <3>1, <3>2, <3>4, <3>7, <3>8
  <2> QED BY <2>1, <2>2
<1>3. ASSUME NEW vals \in NatLists, \A t \in NatLists : m[t] < m[vals] => t \in P
      PROVE  vals \in P
  <2> HIDE DEF m
  <2> QED BY <1>2, <1>3
<1>4. NatLists \subseteq P
  <2> HIDE DEF P, m
  <2> QED BY <1>1, <1>3, MeasureInduction
<1> QED BY <1>4 DEF NatLists

(* fs has one field of a start time for each of vals.                      *)
OneByOne(fs, vals) ==
  Len(fs) = Len(vals) /\ \A i \in 1 .. Len(vals) : fs[i] = _pb_field_varint(8, vals[i])

(* The start times that are written one a field, and those that the device *)
(* sends packed in one field, are read back as the same list               *)
(* (_build_program_pb, parse_program_body).                                *)
THEOREM StartTimesRoundTrip ==
  \A vals \in Seq(Nat) :
    /\ start_mins[<<_pb_field_bytes(8, Packed[vals])>>] = vals
    /\ \A fs \in Seq(Fields) : OneByOne(fs, vals) => start_mins[fs] = vals
<1>1. start_mins[<<>>] = <<>>
  <2>1. <<>> \in FieldLists BY EmptySeq DEF FieldLists
  <2>2. start_mins[<<>>] = Starts(start_mins, <<>>) BY <2>1, StartsDef
  <2> QED BY <2>2 DEF Starts
<1>2. ASSUME NEW vals \in NatLists
      PROVE  start_mins[<<_pb_field_bytes(8, Packed[vals])>>] = vals
  <2> DEFINE x  == _pb_field_bytes(8, Packed[vals])
             fs == <<x>>
  <2>1. Packed[vals] \in Bytes BY PackedDef
  <2>2. /\ x \in Fields /\ x.num = 8 /\ x.wire = 2 /\ x.val = Packed[vals]
    BY <2>1, FieldParts DEF _pb_field_bytes
  <2> HIDE DEF x
  <2>3. <<>> \in Seq(Fields) /\ fs = <<x>> \o <<>>
    <3>1. <<>> \in Seq(Fields) /\ <<x>> \in Seq(Fields) BY <2>2
    <3> QED BY <3>1, ConcatEmptySeq
  <2>4. fs \in FieldLists /\ fs # <<>> /\ fs[1] = x /\ Tail(fs) = <<>>
    BY <2>2, <2>3, Then DEF FieldLists
  <2> HIDE DEF fs
  <2>5. start_mins[fs] = Times(x) \o start_mins[<<>>] BY <2>4, StartsFirst
  <2>6. Times(x) = _decode_packed_varints[x.val] BY <2>2 DEF Times
  <2>7. _decode_packed_varints[Packed[vals]] = vals BY PackedRoundTrip DEF NatLists
  <2>8. start_mins[fs] = vals BY <1>1, <2>2, <2>5, <2>6, <2>7, NatJoin
  <2> QED BY <2>8 DEF fs, x
<1> DEFINE P == {fs \in FieldLists : \A vals \in NatLists :
                   OneByOne(fs, vals) => start_mins[fs] = vals}
           m == [fs \in FieldLists |-> Len(fs)]
<1>3. m \in [FieldLists -> Nat]
  <2>1. \A fs \in FieldLists : Len(fs) \in Nat BY LenProperties DEF FieldLists
  <2> QED BY <2>1
<1>4. ASSUME NEW fs \in FieldLists, \A t \in FieldLists : m[t] < m[fs] => t \in P,
             NEW vals \in NatLists, OneByOne(fs, vals)
      PROVE  start_mins[fs] = vals
  <2>1. Len(vals) \in Nat /\ (vals = <<>> <=> Len(vals) = 0)
    BY EmptySeq, LenProperties DEF NatLists
  <2>2. Len(fs) \in Nat /\ (fs = <<>> <=> Len(fs) = 0)
    BY EmptySeq, LenProperties DEF FieldLists
  <2>3. Len(fs) = Len(vals) BY <1>4 DEF OneByOne
  <2>4. CASE fs = <<>>
    <3>1. vals = <<>> BY <2>1, <2>2, <2>3, <2>4
    <3> QED BY <1>1, <2>4, <3>1
  <2>5. CASE fs # <<>>
    <3> DEFINE x == fs[1]
               v == vals[1]
               gs == Tail(fs)
               q  == Tail(vals)
    <3>1. vals # <<>> BY <2>1, <2>2, <2>3, <2>5
    <3>2. v \in Nat /\ q \in NatLists /\ vals = <<v>> \o q BY <3>1, NatFirst
    <3>3. gs \in FieldLists /\ m[gs] < m[fs] BY <2>5, FieldFirst
    <3>4. x = _pb_field_varint(8, v)
      <4>1. 1 \in 1 .. Len(vals) BY <2>1, <3>1
      <4> QED BY <1>4, <4>1 DEF OneByOne
    <3>5. OneByOne(gs, q)
      <4>1. /\ Len(gs) = Len(fs) - 1
            /\ \A i \in 1 .. Len(gs) : gs[i] = fs[i + 1]
        BY <2>5, HeadTailProperties DEF FieldLists
      <4>2. /\ Len(q) = Len(vals) - 1
            /\ \A i \in 1 .. Len(q) : q[i] = vals[i + 1]
        BY <3>1, HeadTailProperties DEF NatLists
      <4> HIDE DEF gs, q
      <4>3. Len(gs) = Len(q) BY <2>3, <4>1, <4>2
      <4>4. ASSUME NEW i \in 1 .. Len(q) PROVE gs[i] = _pb_field_varint(8, q[i])
        <5>1. i + 1 \in 1 .. Len(vals) BY <2>1, <4>2
        <5>2. fs[i + 1] = _pb_field_varint(8, vals[i + 1]) BY <1>4, <5>1 DEF OneByOne
        <5> QED BY <4>1, <4>2, <4>3, <5>2
      <4> QED BY <4>3, <4>4 DEF OneByOne
    <3>6. Times(x) = <<v>>
      <4>1. x.num = 8 /\ x.wire = 0 /\ x.val = v
        BY <3>2, <3>4, FieldParts DEF _pb_field_varint
      <4> HIDE DEF x, v
      <4> QED BY <4>1 DEF Times
    <3>7. start_mins[fs] = Times(x) \o start_mins[gs] BY <2>5, StartsFirst
    <3> HIDE DEF x, v, gs, q, m
    <3>8. start_mins[gs] = q BY <1>4, <3>2, <3>3, <3>5
    <3> QED BY <3>2, <3>6, <3>7, <3>8
  <2> QED BY <2>4, <2>5
<1>5. ASSUME NEW fs \in FieldLists, \A t \in FieldLists : m[t] < m[fs] => t \in P
      PROVE  fs \in P
  <2> HIDE DEF m
  <2> QED BY <1>4, <1>5
<1>6. FieldLists \subseteq P
  <2> HIDE DEF P, m
  <2> QED BY <1>3, <1>5, MeasureInduction
<1> QED BY <1>2, <1>6 DEF NatLists, FieldLists

-----------------------------------------------------------------------------
(* Inner messages. *)

(* A CRC is sent as two bytes.                                             *)
LEMMA EightBits ==
  ASSUME NEW a \in {0, 1}, NEW b \in {0, 2}, NEW c \in {0, 4}, NEW d \in {0, 8},
         NEW e \in {0, 16}, NEW f \in {0, 32}, NEW g \in {0, 64}, NEW h \in {0, 128}
  PROVE  a + b + c + d + e + f + g + h \in Byte
<1>1. /\ a \in 0 .. 1 /\ b \in 0 .. 2 /\ c \in 0 .. 4 /\ d \in 0 .. 8
      /\ e \in 0 .. 16 /\ f \in 0 .. 32 /\ g \in 0 .. 64 /\ h \in 0 .. 128
  OBVIOUS
<1> QED BY <1>1 DEF Byte

(* Whatever the register holds, its two bytes are bytes.                   *)
LEMMA CrcIsBytes ==
  ASSUME NEW data
  PROVE  CrcBytes(data) \in Bytes /\ Len(CrcBytes(data)) = 2
<1> DEFINE crc == _crc16_ccitt(data)
           bit(i, weight) == IF i \in crc THEN weight ELSE 0
           byte(i) == bit(i, 1) + bit(i + 1, 2) + bit(i + 2, 4) + bit(i + 3, 8)
                      + bit(i + 4, 16) + bit(i + 5, 32) + bit(i + 6, 64) + bit(i + 7, 128)
<1>1. \A i, weight : bit(i, weight) \in {0, weight} OBVIOUS
<1> HIDE DEF bit
<1>2. \A i : byte(i) \in Byte
  <2> SUFFICES ASSUME NEW i PROVE byte(i) \in Byte
    OBVIOUS
  <2>1. /\ bit(i, 1) \in {0, 1} /\ bit(i + 1, 2) \in {0, 2}
        /\ bit(i + 2, 4) \in {0, 4} /\ bit(i + 3, 8) \in {0, 8}
    BY <1>1
  <2>2. /\ bit(i + 4, 16) \in {0, 16} /\ bit(i + 5, 32) \in {0, 32}
        /\ bit(i + 6, 64) \in {0, 64} /\ bit(i + 7, 128) \in {0, 128}
    BY <1>1
  <2> QED BY <2>1, <2>2, EightBits
<1>3. CrcBytes(data) = <<byte(0), byte(8)>> BY DEF CrcBytes, bit
<1> HIDE DEF byte
<1>4. <<byte(0), byte(8)>> \in Bytes /\ Len(<<byte(0), byte(8)>>) = 2 BY <1>2 DEF Bytes
<1> QED BY <1>3, <1>4

(* The part that follows a and is followed by c.                           *)
LEMMA Middle ==
  ASSUME NEW a \in Bytes, NEW b \in Bytes, NEW c \in Bytes
  PROVE  SubSeq(a \o (b \o c), Len(a) + 1, Len(a) + Len(b)) = b
<1> DEFINE m == Len(a)
           n == Len(b)
           t == b \o c
<1>1. m \in Nat /\ n \in Nat /\ Len(c) \in Nat BY Lengths
<1>2. t \in Bytes /\ Len(t) = n + Len(c) BY Join
<1>3. SubSeq(t, 1, n) = b BY Cut
<1>4. n = 0 => b = <<>> BY Lengths
<1> HIDE DEF m, n, t
<1>5. CASE n = 0
  <2>1. SubSeq(a \o t, m + 1, m) = <<>>
    <3>1. \A s : \A i \in Int : \A j \in i + 1 .. i + 1 : SubSeq(s, j, i) = <<>>
      BY SubSeqEmpty
    <3> QED BY <1>1, <3>1
  <2> QED BY <1>1, <1>4, <1>5, <2>1 DEF m, n, t
<1>6. CASE n # 0
  <2>1. m + 1 \in m + 1 .. m + Len(t) /\ m + n \in m + 1 .. m + Len(t)
    BY <1>1, <1>2, <1>6
  <2>2. SubSeq(a \o t, m + 1, m + n) = SubSeq(t, (m + 1) - m, (m + n) - m)
    BY <1>2, <2>1, SubSeqOfConcat2 DEF m, Bytes
  <2>3. (m + 1) - m = 1 /\ (m + n) - m = n BY <1>1
  <2> QED BY <1>3, <2>2, <2>3 DEF m, n, t
<1> QED BY <1>5, <1>6

(* Parts joined in either order.                                           *)
LEMMA JoinJoin ==
  ASSUME NEW a \in Bytes, NEW b \in Bytes, NEW c \in Bytes
  PROVE  (a \o b) \o c = a \o (b \o c)
BY ConcatAssociative DEF Bytes

(* What precedes the protobuf in a message.                                *)
Head6(n) == MSG_HEADER \o <<n + 2, 0>>

(* It has six bytes, the fifth of them the length.                         *)
LEMMA HeadOf ==
  ASSUME NEW n \in Nat, n + 2 \in Byte
  PROVE  /\ MSG_HEADER \in Bytes /\ Len(MSG_HEADER) = 4 /\ <<n + 2, 0>> \in Bytes
         /\ Head6(n) \in Bytes /\ Len(Head6(n)) = 6 /\ Head6(n)[5] = n + 2
<1>1. MSG_HEADER \in Bytes /\ Len(MSG_HEADER) = 4 BY DEF MSG_HEADER, Bytes, Byte
<1>2. <<n + 2, 0>> \in Bytes /\ Len(<<n + 2, 0>>) = 2 /\ <<n + 2, 0>>[1] = n + 2
  <2>1. 0 \in Byte BY DEF Byte
  <2> QED BY <2>1 DEF Bytes
<1>3. /\ Head6(n) \in Bytes /\ Len(Head6(n)) = Len(MSG_HEADER) + Len(<<n + 2, 0>>)
  BY <1>1, <1>2, Join DEF Head6
<1>4. Head6(n)[5] = n + 2
  <2> DEFINE t == <<n + 2, 0>>
  <2>1. t \in Seq(Byte) /\ MSG_HEADER \in Seq(Byte) BY <1>1, <1>2 DEF Bytes
  <2>2. Len(t) = 2 /\ t[1] = n + 2 BY <1>2
  <2> HIDE DEF t
  <2>3. \A i \in 1 .. Len(MSG_HEADER) + Len(t) :
          (MSG_HEADER \o t)[i] = IF i <= Len(MSG_HEADER) THEN MSG_HEADER[i]
                                 ELSE t[i - Len(MSG_HEADER)]
    BY <2>1, ConcatProperties
  <2>4. 5 \in 1 .. 4 + 2 /\ ~ (5 <= 4) /\ 5 - 4 = 1 OBVIOUS
  <2>5. (MSG_HEADER \o t)[5] = t[1] BY <1>1, <2>2, <2>3, <2>4
  <2> QED BY <2>2, <2>5 DEF Head6, t
<1> QED BY <1>1, <1>2, <1>3, <1>4

(* The parts of a message.                                                 *)
LEMMA MessageParts ==
  ASSUME NEW pb \in Bytes, NEW msg \in _build_message(pb)
  PROVE  /\ Len(pb) + 2 \in Byte
         /\ msg = (Head6(Len(pb)) \o pb) \o CrcBytes(Head6(Len(pb)) \o pb)
         /\ Head6(Len(pb)) \in Bytes /\ Len(Head6(Len(pb))) = 6
         /\ CrcBytes(Head6(Len(pb)) \o pb) \in Bytes
         /\ Head6(Len(pb)) \o pb \in Bytes
         /\ Len(Head6(Len(pb)) \o pb) = Len(pb) + 6
         /\ msg \in Bytes /\ Len(msg) = Len(pb) + 8
         /\ msg = Head6(Len(pb)) \o (pb \o CrcBytes(Head6(Len(pb)) \o pb))
<1> DEFINE h == Head6(Len(pb))
           body == h \o pb
           crc == CrcBytes(body)
<1>1. Len(pb) \in Nat BY Lengths
<1>2. Len(pb) + 2 \in Byte /\ msg = body \o crc BY DEF _build_message, Head6
<1>3. h \in Bytes /\ Len(h) = 6 BY <1>1, <1>2, HeadOf
<1> HIDE DEF h
<1>4. body \in Bytes /\ Len(body) = 6 + Len(pb) /\ body = h \o pb BY <1>3, Join
<1> HIDE DEF body
<1>5. crc \in Bytes /\ Len(crc) = 2 BY CrcIsBytes
<1> HIDE DEF crc
<1>6. msg \in Bytes /\ Len(msg) = Len(body) + 2 BY <1>2, <1>4, <1>5, Join
<1>7. msg = h \o (pb \o crc)
  <2>1. h \in Bytes /\ crc \in Bytes BY <1>3, <1>5
  <2>2. (h \o pb) \o crc = h \o (pb \o crc) BY <2>1, JoinJoin
  <2> QED BY <1>2, <1>4, <2>2
<1> QED BY <1>1, <1>2, <1>3, <1>4, <1>5, <1>6, <1>7 DEF h, body, crc

(* A message is found in what it begins, however it goes on.               *)
LEMMA HeadRead ==
  ASSUME NEW n \in Nat, n + 2 \in Byte, NEW more \in Bytes
  PROVE  /\ Head6(n) \o more \in Bytes
         /\ SubSeq(Head6(n) \o more, 1, 4) = MSG_HEADER
         /\ (Head6(n) \o more)[5] = n + 2
         /\ Len(Head6(n) \o more) = 6 + Len(more)
<1>1. /\ MSG_HEADER \in Bytes /\ Len(MSG_HEADER) = 4 /\ <<n + 2, 0>> \in Bytes
      /\ Head6(n) \in Bytes /\ Len(Head6(n)) = 6 /\ Head6(n)[5] = n + 2
  BY HeadOf
<1>2. Head6(n) \o more \in Bytes /\ Len(Head6(n) \o more) = 6 + Len(more) BY <1>1, Join
<1>3. SubSeq(Head6(n) \o more, 1, 4) = MSG_HEADER
  <2> DEFINE t == <<n + 2, 0>>
  <2>1. t \in Bytes BY <1>1
  <2>2. Head6(n) = MSG_HEADER \o t BY DEF Head6
  <2> HIDE DEF t
  <2>3. Head6(n) \o more = MSG_HEADER \o (t \o more)
    <3>1. MSG_HEADER \in Bytes BY <1>1
    <3>2. (MSG_HEADER \o t) \o more = MSG_HEADER \o (t \o more) BY <2>1, <3>1, JoinJoin
    <3> QED BY <2>2, <3>2
  <2>4. t \o more \in Bytes BY <2>1, Join
  <2> QED BY <1>1, <2>3, <2>4, Cut
<1>4. (Head6(n) \o more)[5] = n + 2
  <2>1. Len(more) \in Nat BY Lengths
  <2>2. \A i \in 1 .. Len(Head6(n)) + Len(more) :
          (Head6(n) \o more)[i] = IF i <= Len(Head6(n)) THEN Head6(n)[i]
                                  ELSE more[i - Len(Head6(n))]
    BY <1>1, ConcatProperties DEF Bytes
  <2>3. 5 \in 1 .. 6 + Len(more) /\ 5 <= 6 BY <2>1
  <2> QED BY <1>1, <2>2, <2>3
<1> QED BY <1>2, <1>3, <1>4

(* What _build_message makes of a protobuf decode_inner takes back out of  *)
(* it: the header, the length and the CRC are those it looks for, whatever *)
(* follows the message in the data.                                        *)
THEOREM InnerRoundTrip ==
  \A pb, more \in Bytes : \A msg \in _build_message(pb) :
    decode_inner(msg \o more) = {pb}
<1> SUFFICES ASSUME NEW pb \in Bytes, NEW more \in Bytes, NEW msg \in _build_message(pb)
             PROVE  decode_inner(msg \o more) = {pb}
  OBVIOUS
<1> DEFINE n    == Len(pb)
           h    == Head6(n)
           body == h \o pb
           crc  == CrcBytes(body)
           pt   == msg \o more
           end  == 4 + (n + 2)
<1>1. n \in Nat /\ Len(more) \in Nat BY Lengths
<1>2. /\ n + 2 \in Byte /\ msg = body \o crc
      /\ h \in Bytes /\ Len(h) = 6 /\ body \in Bytes /\ Len(body) = n + 6
      /\ crc \in Bytes /\ msg \in Bytes /\ Len(msg) = n + 8
  BY MessageParts
<1>3. Len(crc) = 2 BY CrcIsBytes
<1>4. body = h \o pb /\ pt = msg \o more OBVIOUS
<1>5. crc = CrcBytes(body) OBVIOUS
<1> HIDE DEF n, end, h, body, crc, pt
<1>6. pt \in Bytes /\ Len(pt) = n + 8 + Len(more)
  <2>1. msg \o more \in Bytes /\ Len(msg \o more) = Len(msg) + Len(more) BY <1>2, Join
  <2> QED BY <1>2, <1>4, <2>1
<1>7. crc \o more \in Bytes /\ pb \o (crc \o more) \in Bytes BY <1>2, Join
<1>8. pt = body \o (crc \o more)
  <2>1. body \in Bytes /\ crc \in Bytes BY <1>2
  <2>2. (body \o crc) \o more = body \o (crc \o more) BY <2>1, JoinJoin
  <2> QED BY <1>2, <1>4, <2>2
<1>9. pt = h \o (pb \o (crc \o more))
  <2> DEFINE t == crc \o more
  <2>1. t \in Bytes BY <1>7
  <2> HIDE DEF t
  <2>2. h \in Bytes BY <1>2
  <2>3. (h \o pb) \o t = h \o (pb \o t) BY <2>1, <2>2, JoinJoin
  <2> QED BY <1>4, <1>8, <2>3 DEF t
<1>10. SubSeq(pt, 1, 4) = MSG_HEADER /\ pt[5] = n + 2
  BY <1>1, <1>2, <1>7, <1>9, HeadRead DEF h
<1>11. end = n + 6 /\ end + 1 = Len(body) + 1 /\ end + 2 = Len(body) + Len(crc)
  BY <1>1, <1>2, <1>3 DEF end
<1>12. SubSeq(pt, end + 1, end + 2) = crc
  <2>1. SubSeq(body \o (crc \o more), Len(body) + 1, Len(body) + Len(crc)) = crc
    BY <1>2, Middle
  <2> QED BY <1>8, <1>11, <2>1
<1>13. SubSeq(pt, 1, end) = body
  <2>1. SubSeq(pt, 1, Len(body)) = body BY <1>2, <1>7, <1>8, Cut
  <2> QED BY <1>2, <1>11, <2>1
<1>14. SubSeq(pt, 7, end) = pb
  <2>1. SubSeq(pt, Len(h) + 1, Len(h) + n) = pb BY <1>2, <1>7, <1>9, Middle DEF n
  <2>2. Len(h) + 1 = 7 /\ Len(h) + n = end BY <1>1, <1>2 DEF end
  <2> QED BY <2>1, <2>2
<1>15. Len(pt) >= 6 /\ n + 2 >= 2 /\ end + 2 <= Len(pt)
  BY <1>1, <1>6 DEF end
<1>16. decode_inner(pt) =
         IF /\ Len(pt) >= 6 /\ SubSeq(pt, 1, 4) = MSG_HEADER
            /\ pt[5] >= 2 /\ (4 + pt[5]) + 2 <= Len(pt)
            /\ SubSeq(pt, (4 + pt[5]) + 1, (4 + pt[5]) + 2) = CrcBytes(SubSeq(pt, 1, 4 + pt[5]))
         THEN {SubSeq(pt, 7, 4 + pt[5])}
         ELSE {}
  BY DEF decode_inner
<1>17. 4 + pt[5] = end BY <1>10 DEF end
<1>18. decode_inner(pt) = {SubSeq(pt, 7, end)}
  BY <1>5, <1>10, <1>12, <1>13, <1>15, <1>16, <1>17
<1> QED BY <1>14, <1>18 DEF pt

-----------------------------------------------------------------------------
(* Streams of messages. *)

(* Data cut at n: n bytes, and the others.                                 *)
LEMMA RestOf ==
  ASSUME NEW data \in Bytes, NEW n \in Nat, n <= Len(data)
  PROVE  /\ SubSeq(data, 1, n) \in Bytes /\ Len(SubSeq(data, 1, n)) = n
         /\ Rest(data, n) \in Bytes /\ Len(Rest(data, n)) = Len(data) - n
<1>1. PICK d \in Bytes, e \in Bytes : data = d \o e /\ Len(d) = n BY Parts
<1>2. SubSeq(data, 1, n) = d /\ Rest(data, n) = e BY <1>1, Cut
<1>3. Len(data) = n + Len(e) /\ Len(e) \in Nat BY <1>1, Join, Lengths
<1>4. SubSeq(data, 1, n) \in Bytes /\ Len(SubSeq(data, 1, n)) = n BY <1>1, <1>2, Zenon
<1>5. Rest(data, n) \in Bytes /\ Rest(data, n) = e BY <1>2, Zenon
<1>6. Len(data) - n = Len(e) BY <1>3
<1> QED BY <1>4, <1>5, <1>6, Zenon

(* A byte is a number.                                                     *)
LEMMA ByteOf ==
  ASSUME NEW data \in Bytes, NEW i \in 1 .. Len(data)
  PROVE  data[i] \in Nat
<1>1. data[i] \in Byte BY ElementOfSeq DEF Bytes
<1>2. \A b \in Byte : b \in Nat BY DEF Byte
<1> QED BY <1>1, <1>2, Zenon

(* Nothing but the least of a set has the least's property.                *)
LeastOf(T) == {i \in T : \A j \in T : i <= j}

(* There is one least place, unless there is no place.                     *)
LEMMA LeastOne ==
  ASSUME NEW T, T \subseteq Nat
  PROVE  IF T = {} THEN LeastOf(T) = {} ELSE \E i \in T : Just(LeastOf(T), i)
<1>1. T = {} => LeastOf(T) = {} BY DEF LeastOf
<1>2. ASSUME T # {} PROVE \E i \in T : Just(LeastOf(T), i)
  <2>1. PICK i \in T : \A j \in T : i <= j BY <1>2, LeastNatural
  <2>2. \A k \in LeastOf(T) : k = i
    <3>1. SUFFICES ASSUME NEW k \in T, \A j \in T : k <= j PROVE k = i
      BY DEF LeastOf
    <3>2. k \in Nat /\ i \in Nat /\ k <= i /\ i <= k BY <2>1, <3>1
    <3> QED BY <3>2
  <2>3. i \in LeastOf(T) BY <2>1 DEF LeastOf
  <2> QED BY <2>2, <2>3 DEF Just
<1> QED BY <1>1, <1>2

(* The data that starts at each of the places in T.                        *)
StartingAt(stream, T) == {Rest(stream, i - 1) : i \in T}

(* One place has one rest,                                                 *)
LEMMA StartingAtOne ==
  ASSUME NEW stream, NEW T, NEW i, Just(T, i)
  PROVE  Just(StartingAt(stream, T), Rest(stream, i - 1))
BY DEF StartingAt, Just

(* none has none.                                                          *)
LEMMA StartingNowhere ==
  \A stream : StartingAt(stream, {}) = {}
BY DEF StartingAt

(* FromHeader looks from the first header on.                              *)
LEMMA FromHeaderAt ==
  \A stream : FromHeader(stream) = StartingAt(stream, LeastOf(Headers(stream)))
BY DEF FromHeader, StartingAt, LeastOf

(* The messages that are whole among the data in S.                        *)
IsWhole(m) == m[5] >= 2 /\ m[5] + 6 <= Len(m)
WholeOf(S) == {Read(SubSeq(m, 1, m[5] + 6), Rest(m, m[5] + 6)) : m \in {m \in S : IsWhole(m)}}

(* A message that is whole is cut off, one that is not is none.            *)
LEMMA WholeOne ==
  ASSUME NEW S, NEW m, Just(S, m)
  PROVE  /\ IsWhole(m) => Just(WholeOf(S), Read(SubSeq(m, 1, m[5] + 6), Rest(m, m[5] + 6)))
         /\ ~ IsWhole(m) => WholeOf(S) = {}
BY DEF WholeOf, Just

(* Nothing has no message.                                                 *)
LEMMA WholeNone ==
  WholeOf({}) = {}
BY DEF WholeOf

(* FirstMessage is the message there if it is whole.                       *)
LEMMA FirstMessageWhole ==
  \A stream : FirstMessage(stream) = WholeOf(FromHeader(stream))
BY DEF FirstMessage, WholeOf, IsWhole

(* A message is decoded or it is not.                                      *)
LEMMA InnerCases ==
  ASSUME NEW pt \in Bytes
  PROVE  decode_inner(pt) = {} \/ \E pb \in Bytes : Just(decode_inner(pt), pb)
<1> DEFINE end == 4 + pt[5]
           q   == SubSeq(pt, 7, end)
           good == /\ Len(pt) >= 6 /\ SubSeq(pt, 1, 4) = MSG_HEADER
                   /\ pt[5] >= 2 /\ end + 2 <= Len(pt)
                   /\ SubSeq(pt, end + 1, end + 2) = CrcBytes(SubSeq(pt, 1, end))
<1>1. decode_inner(pt) = IF good THEN {q} ELSE {} BY DEF decode_inner
<1>2. good => q \in Bytes
  <2>1. HAVE good
  <2>2. Len(pt) \in Nat /\ Len(pt) >= 6 BY <2>1, Lengths
  <2>3. pt[5] \in Nat BY <2>2, ByteOf
  <2>4. end \in Nat /\ end + 2 <= Len(pt) BY <2>1, <2>3
  <2>5. \A i \in 1 .. Len(pt) : pt[i] \in Byte BY ElementOfSeq DEF Bytes
  <2> HIDE DEF end
  <2>6. \A i \in 7 .. end : pt[i] \in Byte BY <2>2, <2>4, <2>5
  <2>7. pt \in Seq(Byte) BY DEF Bytes
  <2>8. q \in Seq(Byte) BY <2>4, <2>6, <2>7, SubSeqProperties
  <2> QED BY <2>8 DEF Bytes
<1> HIDE DEF good, q
<1> QED BY <1>1, <1>2 DEF Just

(* The first message of a stream, if it has one that is whole, is bytes,   *)
(* and what follows it is shorter than the stream.                         *)
LEMMA FirstMessageCases ==
  ASSUME NEW stream \in Bytes
  PROVE  \/ FirstMessage(stream) = {}
         \/ \E m, rest \in Bytes :
              Just(FirstMessage(stream), Read(m, rest)) /\ Len(rest) < Len(stream)
<1> DEFINE T == Headers(stream)
<1>1. T \subseteq 1 .. Len(stream) - 5 /\ Len(stream) \in Nat BY Lengths DEF Headers
<1>2. FirstMessage(stream) = WholeOf(StartingAt(stream, LeastOf(T)))
  BY FirstMessageWhole, FromHeaderAt
<1> HIDE DEF T
<1>3. T \subseteq Nat BY <1>1
<1>4. CASE T = {} BY <1>2, <1>3, <1>4, LeastOne, StartingNowhere, WholeNone
<1>5. ASSUME NEW i \in T, Just(LeastOf(T), i)
      PROVE  \/ FirstMessage(stream) = {}
             \/ \E m, rest \in Bytes :
                  Just(FirstMessage(stream), Read(m, rest)) /\ Len(rest) < Len(stream)
  <2> DEFINE w == Rest(stream, i - 1)
             n == w[5] + 6
  <2>1. Just(StartingAt(stream, LeastOf(T)), w) BY <1>5, StartingAtOne
  <2>2. i - 1 \in Nat /\ i - 1 <= Len(stream) /\ Len(stream) - (i - 1) >= 6 BY <1>1, <1>5
  <2>3. w \in Bytes /\ Len(w) = Len(stream) - (i - 1) BY <2>2, RestOf
  <2> HIDE DEF w
  <2>4. Len(w) \in Nat /\ Len(w) >= 6 /\ Len(w) <= Len(stream) BY <1>1, <2>2, <2>3
  <2>5. w[5] \in Nat BY <2>3, <2>4, ByteOf
  <2>6. CASE ~ IsWhole(w) BY <1>2, <2>1, <2>6, WholeOne
  <2>7. CASE IsWhole(w)
    <3>1. n \in Nat /\ n <= Len(w) /\ n > 0 BY <2>5, <2>7 DEF IsWhole
    <3>2. Just(FirstMessage(stream), Read(SubSeq(w, 1, n), Rest(w, n)))
      BY <1>2, <2>1, <2>7, WholeOne
    <3> HIDE DEF n
    <3>3. /\ SubSeq(w, 1, n) \in Bytes /\ Rest(w, n) \in Bytes
          /\ Len(Rest(w, n)) = Len(w) - n
      BY <2>3, <3>1, RestOf
    <3>4. Len(Rest(w, n)) < Len(stream) BY <1>1, <2>4, <3>1, <3>3
    <3> QED BY <3>2, <3>3, <3>4
  <2> QED BY <2>6, <2>7
<1> QED BY <1>3, <1>4, <1>5, LeastOne

(* Lists of protobufs.                                                     *)
ByteLists == Seq(Bytes)

(* Such lists joined.                                                      *)
LEMMA ByteListJoin ==
  /\ <<>> \in ByteLists /\ \A l \in ByteLists : <<>> \o l = l
  /\ \A pb \in Bytes : <<pb>> \in ByteLists
  /\ \A k, l \in ByteLists : k \o l \in ByteLists
<1>1. \A pb \in Bytes : <<pb>> \in ByteLists BY DEF ByteLists
<1>2. <<>> \in ByteLists BY EmptySeq DEF ByteLists
<1>3. \A l \in ByteLists : <<>> \o l = l BY ConcatEmptySeq DEF ByteLists
<1>4. \A k, l \in ByteLists : k \o l \in ByteLists BY ConcatProperties DEF ByteLists
<1> QED BY <1>1, <1>2, <1>3, <1>4

(* A message that is decoded gives its protobuf.                           *)
LEMMA ValidOne ==
  ASSUME NEW S, NEW pb, Just(S, pb)
  PROVE  Valid(S) = <<pb>>
BY DEF Valid, Just

(* Any message gives at most one protobuf.                                 *)
LEMMA ValidIs ==
  ASSUME NEW m \in Bytes
  PROVE  Valid(decode_inner(m)) \in ByteLists
<1>1. CASE decode_inner(m) = {} BY <1>1, ByteListJoin DEF Valid
<1>2. ASSUME NEW pb \in Bytes, Just(decode_inner(m), pb)
      PROVE  Valid(decode_inner(m)) \in ByteLists
  BY <1>2, ValidOne, ByteListJoin
<1> QED BY <1>1, <1>2, InnerCases

(* What a stream is split into when its rests are split by f.              *)
Splits(f, stream) ==
  IF FirstMessage(stream) = {} THEN <<>>
  ELSE Valid(decode_inner((CHOOSE m \in FirstMessage(stream) : TRUE).val))
         \o f[(CHOOSE m \in FirstMessage(stream) : TRUE).rest]

(* A stream with a first message gives it and then those of the rest.      *)
LEMMA SplitsOne ==
  ASSUME NEW f, NEW stream, NEW m, NEW rest, Just(FirstMessage(stream), Read(m, rest))
  PROVE  Splits(f, stream) = Valid(decode_inner(m)) \o f[rest]
<1> DEFINE S == FirstMessage(stream)
           x == CHOOSE x \in S : TRUE
<1>1. S = {Read(m, rest)} BY DEF Just
<1>2. Splits(f, stream) = IF S = {} THEN <<>> ELSE Valid(decode_inner(x.val)) \o f[x.rest]
  BY DEF Splits
<1> HIDE DEF S
<1>3. S # {} /\ x = Read(m, rest) BY <1>1
<1> HIDE DEF x
<1>4. x.val = m /\ x.rest = rest BY <1>3, ReadParts
<1> QED BY <1>2, <1>3, <1>4

(* Any stream is split into protobufs.                                     *)
LEMMA SplitDef ==
  \A stream \in Bytes :
    /\ split_inner_messages[stream] = Splits(split_inner_messages, stream)
    /\ split_inner_messages[stream] \in ByteLists
<1> DEFINE Body(f) == [stream \in Bytes |-> Splits(f, stream)]
           B == [f \in [Bytes -> ByteLists] |-> Body(f)]
           m == [stream \in Bytes |-> Len(stream)]
<1>1. ASSUME NEW f, NEW stream \in Bytes,
             \A t \in Bytes : Len(t) < Len(stream) => f[t] \in ByteLists
      PROVE  Splits(f, stream) \in ByteLists
  <2>1. CASE FirstMessage(stream) = {} BY <2>1, ByteListJoin DEF Splits
  <2>2. ASSUME NEW msg \in Bytes, NEW rest \in Bytes,
               Just(FirstMessage(stream), Read(msg, rest)), Len(rest) < Len(stream)
        PROVE  Splits(f, stream) \in ByteLists
    <3>1. Splits(f, stream) = Valid(decode_inner(msg)) \o f[rest] BY <2>2, SplitsOne
    <3>2. f[rest] \in ByteLists BY <1>1, <2>2
    <3>3. Valid(decode_inner(msg)) \in ByteLists BY ValidIs
    <3> QED BY <3>1, <3>2, <3>3, ByteListJoin
  <2> QED BY <2>1, <2>2, FirstMessageCases
<1>2. \A f \in [Bytes -> ByteLists] : Body(f) \in [Bytes -> ByteLists] BY <1>1
<1>3. B \in [[Bytes -> ByteLists] -> [Bytes -> ByteLists]]
  <2> HIDE DEF Body
  <2> QED BY <1>2
<1>4. m \in [Bytes -> Nat]
  <2>1. \A stream \in Bytes : Len(stream) \in Nat BY Lengths
  <2> QED BY <2>1
<1>5. [Bytes -> ByteLists] # {}
  <2>1. [stream \in Bytes |-> <<>>] \in [Bytes -> ByteLists] BY ByteListJoin
  <2> QED BY <2>1
<1>6. ASSUME NEW f \in [Bytes -> ByteLists], NEW g \in [Bytes -> ByteLists],
             NEW stream \in Bytes,
             \A t \in Bytes : m[t] < m[stream] => f[t] = g[t]
      PROVE  B[f][stream] = B[g][stream]
  <2>1. CASE FirstMessage(stream) = {}
    <3>1. Splits(f, stream) = Splits(g, stream) BY <2>1 DEF Splits
    <3> QED BY <3>1
  <2>2. ASSUME NEW msg \in Bytes, NEW rest \in Bytes,
               Just(FirstMessage(stream), Read(msg, rest)), Len(rest) < Len(stream)
        PROVE  Splits(f, stream) = Splits(g, stream)
    <3>1. f[rest] = g[rest] BY <1>6, <2>2
    <3>2. /\ Splits(f, stream) = Valid(decode_inner(msg)) \o f[rest]
          /\ Splits(g, stream) = Valid(decode_inner(msg)) \o g[rest]
      BY <2>2, SplitsOne
    <3> QED BY <3>1, <3>2
  <2>3. Splits(f, stream) = Splits(g, stream) BY <2>1, <2>2, FirstMessageCases
  <2> QED BY <2>3
<1>7. PICK f \in [Bytes -> ByteLists] : f = B[f]
  <2> HIDE DEF Body
  <2>1. Decreases(B, Bytes, ByteLists, m) BY <1>3, <1>4, <1>5, <1>6 DEF Decreases
  <2> HIDE DEF B, m
  <2> QED BY <2>1, RecursionExists, SMT
<1>8. f = Body(f)
  <2> HIDE DEF Body
  <2> QED BY <1>7
<1>9. split_inner_messages = CHOOSE h : h = Body(h) BY DEF split_inner_messages, Splits
<1>10. split_inner_messages = Body(split_inner_messages)
  <2> HIDE DEF Body
  <2> QED BY <1>8, <1>9
<1>11. \A stream \in Bytes : split_inner_messages[stream] = Splits(split_inner_messages, stream)
  BY <1>10
<1> DEFINE P == {stream \in Bytes : split_inner_messages[stream] \in ByteLists}
<1>12. ASSUME NEW stream \in Bytes, \A t \in Bytes : m[t] < m[stream] => t \in P
       PROVE  stream \in P
  <2>1. \A t \in Bytes : Len(t) < Len(stream) => split_inner_messages[t] \in ByteLists
    BY <1>12
  <2> QED BY <1>1, <1>11, <2>1
<1>13. Bytes \subseteq P
  <2> HIDE DEF P, m
  <2> QED BY <1>4, <1>12, MeasureInduction
<1> QED BY <1>11, <1>13

(* A message that begins data is what FromHeader finds.                    *)
LEMMA HeaderFirst ==
  ASSUME NEW n \in Nat, n + 2 \in Byte, NEW more \in Bytes
  PROVE  Just(FromHeader(Head6(n) \o more), Head6(n) \o more)
<1> DEFINE stream == Head6(n) \o more
           T == Headers(stream)
<1>1. /\ stream \in Bytes /\ SubSeq(stream, 1, 4) = MSG_HEADER
      /\ Len(stream) = 6 + Len(more) /\ Len(more) \in Nat
  BY HeadRead, Lengths
<1> HIDE DEF stream
<1>2. T \subseteq Nat /\ 1 \in T /\ \A i \in T : 1 <= i
  <2>1. 1 \in 1 .. Len(stream) - 5 /\ 1 + 3 = 4 BY <1>1
  <2>2. Len(stream) \in Nat BY <1>1
  <2> QED BY <1>1, <2>1, <2>2 DEF Headers
<1> HIDE DEF T
<1>3. Just(LeastOf(T), 1)
  <2>1. \A i \in LeastOf(T) : i = 1
    <3>1. SUFFICES ASSUME NEW i \in T, i <= 1 PROVE i = 1
      BY <1>2 DEF LeastOf
    <3> QED BY <1>2, <3>1
  <2>2. 1 \in LeastOf(T) BY <1>2 DEF LeastOf
  <2> QED BY <2>1, <2>2 DEF Just
<1>4. Just(StartingAt(stream, LeastOf(T)), Rest(stream, 1 - 1)) BY <1>3, StartingAtOne
<1>5. Rest(stream, 1 - 1) = stream
  <2>1. Rest(stream, 1 - 1) = SubSeq(stream, 1, Len(stream)) BY DEF Rest
  <2>2. stream \in Seq(Byte) BY <1>1 DEF Bytes
  <2> QED BY <2>1, <2>2, SubSeqFull
<1>6. FromHeader(stream) = StartingAt(stream, LeastOf(T)) BY FromHeaderAt DEF T
<1>7. Just(FromHeader(stream), stream) BY <1>4, <1>5, <1>6
<1> QED BY <1>7 DEF stream

(* A stream that begins with a message of _build_message gives its         *)
(* protobuf, and then those of what follows: the messages that follow one  *)
(* another are split where they were joined (split_inner_messages).        *)
THEOREM SplitJoins ==
  \A pb, more \in Bytes : \A msg \in _build_message(pb) :
    split_inner_messages[msg \o more] = <<pb>> \o split_inner_messages[more]
<1> SUFFICES ASSUME NEW pb \in Bytes, NEW more \in Bytes, NEW msg \in _build_message(pb)
             PROVE  split_inner_messages[msg \o more] = <<pb>> \o split_inner_messages[more]
  OBVIOUS
<1> DEFINE n      == Len(pb)
           h      == Head6(n)
           crc    == CrcBytes(h \o pb)
           tail   == pb \o crc
           stream == msg \o more
<1>1. n \in Nat /\ Len(more) \in Nat BY Lengths
<1>2. /\ n + 2 \in Byte /\ msg = h \o (pb \o crc)
      /\ h \in Bytes /\ crc \in Bytes /\ msg \in Bytes /\ Len(msg) = n + 8
  BY MessageParts
<1> HIDE DEF n, crc
<1>3. tail \in Bytes /\ tail \o more \in Bytes
  <2>1. tail \in Bytes BY <1>2, Join
  <2> HIDE DEF tail
  <2> QED BY <2>1, Join
<1>4. msg = h \o tail BY <1>2
<1> HIDE DEF tail
<1>5. stream = h \o (tail \o more)
  <2> HIDE DEF h
  <2>1. h \in Bytes /\ tail \in Bytes BY <1>2, <1>3
  <2>2. (h \o tail) \o more = h \o (tail \o more) BY <2>1, JoinJoin
  <2> QED BY <1>4, <2>2
<1>6. stream \in Bytes /\ Len(stream) = Len(msg) + Len(more) BY <1>2, Join
<1>7. SubSeq(stream, 1, Len(msg)) = msg /\ Rest(stream, Len(msg)) = more BY <1>2, Cut
<1> HIDE DEF stream
<1>8. stream[5] = n + 2 BY <1>1, <1>2, <1>3, <1>5, HeadRead
<1>9. Just(FromHeader(stream), stream) BY <1>1, <1>2, <1>3, <1>5, HeaderFirst
<1>10. stream[5] + 6 = Len(msg) BY <1>1, <1>2, <1>8
<1>11. IsWhole(stream)
  <2>1. stream[5] >= 2 /\ Len(msg) <= Len(stream) BY <1>1, <1>2, <1>6, <1>8
  <2> QED BY <1>10, <2>1 DEF IsWhole
<1>12. Just(FirstMessage(stream), Read(msg, more))
  BY <1>7, <1>9, <1>10, <1>11, WholeOne, FirstMessageWhole
<1>13. Just(decode_inner(msg), pb)
  <2>1. <<>> \in Bytes /\ msg \o <<>> = msg BY <1>2, Lengths
  <2>2. decode_inner(msg \o <<>>) = {pb} BY <2>1, InnerRoundTrip
  <2> QED BY <2>1, <2>2 DEF Just
<1>14. Valid(decode_inner(msg)) = <<pb>> BY <1>13, ValidOne
<1>15. split_inner_messages[stream] = Splits(split_inner_messages, stream)
  BY <1>6, SplitDef
<1>16. Splits(split_inner_messages, stream)
         = Valid(decode_inner(msg)) \o split_inner_messages[more]
  BY <1>12, SplitsOne
<1> QED BY <1>14, <1>15, <1>16 DEF stream

(* Of a message that has not all arrived nothing is taken, and so a stream *)
(* that was cut gives the messages before the cut (split_inner_messages    *)
(* breaks at an incomplete message).                                       *)
THEOREM SplitWaits ==
  \A pb, part, more \in Bytes :
    part \o more \in _build_message(pb) /\ more # <<>> => split_inner_messages[part] = <<>>
<1> SUFFICES ASSUME NEW pb \in Bytes, NEW part \in Bytes, NEW more \in Bytes,
                    part \o more \in _build_message(pb), more # <<>>
             PROVE  split_inner_messages[part] = <<>>
  OBVIOUS
<1> DEFINE n   == Len(pb)
           h   == Head6(n)
           msg == part \o more
<1>1. n \in Nat /\ Len(part) \in Nat /\ Len(more) \in Nat /\ Len(more) > 0 BY Lengths
<1>2. /\ n + 2 \in Byte /\ h \in Bytes /\ Len(h) = 6
      /\ msg = h \o (pb \o CrcBytes(h \o pb))
      /\ CrcBytes(h \o pb) \in Bytes /\ Len(msg) = n + 8
  BY MessageParts
<1>3. Len(msg) = Len(part) + Len(more) BY Join
<1>4. Len(part) < n + 8
  <2> HIDE DEF n, msg
  <2> QED BY <1>1, <1>2, <1>3
<1>5. FirstMessage(part) = {}
  <2>1. CASE Len(part) < 6
    <3>1. 1 .. Len(part) - 5 = {} BY <1>1, <2>1
    <3>2. Headers(part) = {} BY <3>1 DEF Headers
    <3> QED BY <3>2, LeastOne, StartingNowhere, WholeNone, FirstMessageWhole, FromHeaderAt
  <2>2. CASE Len(part) >= 6
    <3>1. 6 \in Nat /\ 6 <= Len(part) BY <2>2
    <3>2. PICK d \in Bytes, f \in Bytes : part = d \o f /\ Len(d) = 6 BY <3>1, Parts
    <3>3. d = h
      <4> DEFINE t == CrcBytes(h \o pb)
      <4>1. t \in Bytes /\ pb \o t \in Bytes /\ f \o more \in Bytes BY <1>2, Join
      <4>2. msg = h \o (pb \o t) BY <1>2
      <4>3. msg = d \o (f \o more)
        <5>1. (d \o f) \o more = d \o (f \o more) BY JoinJoin
        <5> QED BY <3>2, <5>1
      <4> HIDE DEF msg, h, t
      <4>4. SubSeq(msg, 1, 6) = h BY <1>2, <4>1, <4>2, Cut
      <4>5. SubSeq(msg, 1, 6) = d BY <3>2, <4>1, <4>3, Cut
      <4> QED BY <4>4, <4>5
    <3> HIDE DEF n, msg
    <3>4. part = Head6(n) \o f BY <3>2, <3>3
    <3>5. part[5] = n + 2 BY <1>1, <1>2, <3>4, HeadRead
    <3>6. Just(FromHeader(part), part) BY <1>1, <1>2, <3>4, HeaderFirst
    <3>7. ~ IsWhole(part) BY <1>1, <1>4, <3>5 DEF IsWhole
    <3> QED BY <3>6, <3>7, WholeOne, FirstMessageWhole
  <2> QED BY <1>1, <2>1, <2>2
<1>6. split_inner_messages[part] = Splits(split_inner_messages, part) BY SplitDef
<1> QED BY <1>5, <1>6 DEF Splits
=============================================================================

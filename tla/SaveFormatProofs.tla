-------------------------- MODULE SaveFormatProofs --------------------------
(****************************************************************************)
(* Proofs about the save format, for every base: a save is read back as the *)
(* state that was saved, no beginning of it is, and what is read from any   *)
(* file is a state.  What the recursive functions of the format compute is  *)
(* proved over the least number of frames at which it would differ.         *)
(****************************************************************************)
EXTENDS SaveFormat, SequenceTheorems, NaturalsInduction, WellFoundedInduction, TLAPS

-----------------------------------------------------------------------------
(* Least elements, and division.                                            *)

Less == OpToRel(<, Nat)

LEMMA LessPairs ==
    ASSUME NEW i \in Nat, NEW j \in Nat
    PROVE  <<i, j>> \in Less <=> i < j
<1>1. <<i, j>> \in Less <=> \E k, l \in Nat : <<i, j>> = <<k, l>> /\ k < l
    BY Zenon DEF Less, OpToRel
<1> QED
    BY <1>1, SMT

LEMMA LeastElement ==
    ASSUME NEW T, T \subseteq Nat, T # {}
    PROVE  \E k \in T : \A j \in T : k <= j
<1>1. \E k \in T : \A j \in T : <<j, k>> \notin Less
    BY NatLessThanWellFounded, WFMin DEF Less
<1>2. PICK k \in T : \A j \in T : <<j, k>> \notin Less
    BY <1>1
<1>3. \A j \in T : ~(j < k) /\ j \in Nat /\ k \in Nat
    BY <1>2, LessPairs
<1> QED
    BY <1>3

LEMMA DividedBy ==
    ASSUME NEW w \in Nat \ {0}, NEW v \in Nat
    PROVE  /\ v = w * (v \div w) + (v % w)
           /\ v \div w \in Nat /\ v % w \in Nat /\ v % w < w
BY SMT

\* There is only one way to divide.
LEMMA QuotientIsUnique ==
    ASSUME NEW w \in Nat \ {0}, NEW a \in Nat, NEW b \in Nat, NEW q \in Nat, NEW r \in Nat,
           w * a + q = w * b + r, q < w, r < w
    PROVE  a = b /\ q = r
<1>1. \A c, d \in Nat : c < d => w * c + w <= w * d
    BY SMT
<1>2. ~(a < b) /\ ~(b < a)
    BY <1>1
<1> QED
    BY <1>2

LEMMA DivisionIs ==
    ASSUME NEW w \in Nat \ {0}, NEW a \in Nat, NEW q \in Nat, q < w, NEW v, v = w * a + q
    PROVE  v \div w = a /\ v % w = q
<1>1. v \in Nat
  <2>1. w * a \in Nat
      BY SMT
  <2> QED
      BY <2>1
<1>2. v \div w \in Nat /\ v % w \in Nat /\ v % w < w /\ w * (v \div w) + (v % w) = w * a + q
    BY <1>1, DividedBy, Zenon
<1> QED
    BY <1>2, QuotientIsUnique

-----------------------------------------------------------------------------
(* Sequences.                                                               *)

\* The sequence u is s, of length m, and then t, of length n.
IsJoin(u, S, s, m, t, n) ==
    /\ u \in Seq(S) /\ Len(u) = m + n /\ m \in Nat /\ n \in Nat
    /\ \A i \in 1..m : u[i] = s[i]
    /\ \A i \in 1..n : u[m + i] = t[i]

LEMMA Concatenated ==
    ASSUME NEW S, NEW s \in Seq(S), NEW t \in Seq(S)
    PROVE  IsJoin(s \o t, S, s, Len(s), t, Len(t))
<1> DEFINE m == Len(s)
           n == Len(t)
<1>1. s \o t \in Seq(S) /\ Len(s \o t) = m + n
    BY ConcatProperties
<1>2. m \in Nat /\ n \in Nat
    OBVIOUS
<1>3. \A i \in 1..(m + n) : (s \o t)[i] = IF i <= m THEN s[i] ELSE t[i - m]
    BY ConcatProperties
<1> HIDE DEF m, n
<1>4. \A i \in 1..m : i \in 1..(m + n) /\ i <= m
    BY <1>2
<1>5. \A i \in 1..n : m + i \in 1..(m + n) /\ ~(m + i <= m) /\ (m + i) - m = i
    BY <1>2
<1>6. /\ \A i \in 1..m : (s \o t)[i] = s[i]
      /\ \A i \in 1..n : (s \o t)[m + i] = t[i]
    BY <1>3, <1>4, <1>5
<1> QED
    BY <1>1, <1>2, <1>6 DEF m, n, IsJoin

LEMMA Joined ==
    ASSUME NEW S, NEW s \in Seq(S), NEW t \in Seq(S), NEW m, NEW n, Len(s) = m, Len(t) = n
    PROVE  IsJoin(s \o t, S, s, m, t, n)
BY Concatenated

-----------------------------------------------------------------------------
(* Numbers and their bytes.                                                 *)

LEMMA BaseFacts == Base \in Nat \ {0} /\ Square \in Nat \ {0} /\ Square = Base * Base
<1>1. Base \in Nat /\ Base > 0
    BY BaseAssumption
<1>2. Base * Base \in Nat /\ Base * Base > 0
    BY <1>1, SMT
<1> QED
    BY <1>1, <1>2 DEF Square

LEMMA SmallNumber ==
    ASSUME NEW w \in Nat \ {0}, NEW v \in 0..(w - 1)
    PROVE  v % w = v /\ v \div w = 0
<1>1. v = w * 0 + v /\ v \in Nat /\ v < w
    OBVIOUS
<1> QED
    BY <1>1, DivisionIs

LEMMA DigitOfNumber ==
    ASSUME NEW x \in Nat
    PROVE  x % Base \in UInt8 /\ x \div Base \in Nat /\ x = Base * (x \div Base) + (x % Base)
<1>1. /\ x = Base * (x \div Base) + (x % Base) /\ x \div Base \in Nat
      /\ x % Base \in Nat /\ x % Base < Base
    BY BaseFacts, DividedBy
<1> DEFINE b == x % Base
<1> HIDE DEF b
<1>2. b \in Nat /\ b < Base => b \in UInt8
    BY BaseFacts DEF UInt8
<1> QED
    BY <1>1, <1>2 DEF b

\* Two bytes stand for what is left of a number modulo 2^16.
LEMMA TwoBytesAre ==
    ASSUME NEW x \in Nat
    PROVE  /\ TwoBytes(x) \in Seq(UInt8) /\ Len(TwoBytes(x)) = 2
           /\ TwoBytes(x)[1] \in UInt8 /\ TwoBytes(x)[2] \in UInt8
           /\ Base * TwoBytes(x)[1] + TwoBytes(x)[2] = x % Square
<1> DEFINE a == x \div Base
           b == x % Base
           c == a \div Base
           d == a % Base
<1>1. b \in UInt8 /\ a \in Nat /\ x = Base * a + b
    BY DigitOfNumber
<1> HIDE DEF a, b
<1>2. d \in UInt8 /\ c \in Nat /\ a = Base * c + d
    BY <1>1, DigitOfNumber
<1> HIDE DEF c, d
<1>3. TwoBytes(x) = <<d, b>>
    BY DEF TwoBytes, a, b, d
<1>4. Base * d + b \in Nat /\ Base * d + b < Square /\ x = Square * c + (Base * d + b)
  <2>1. Base \in Nat /\ b \in Nat /\ b <= Base - 1 /\ d \in Nat /\ d <= Base - 1 /\ Base - 1 \in Nat
      BY <1>1, <1>2, BaseFacts DEF UInt8
  <2>2. Base * d <= Base * (Base - 1) /\ Base * d \in Nat
      BY <2>1, SMT
  <2>3. Base * (Base - 1) = Square - Base /\ Square \in Nat
      BY <2>1, BaseFacts, SMT
  <2>4. Base * (Base * c + d) = Square * c + Base * d /\ Square * c \in Nat
      BY <1>2, <2>1, BaseFacts, SMT
  <2> QED
      BY <1>1, <1>2, <2>1, <2>2, <2>3, <2>4
<1> DEFINE r == Base * d + b
<1>5. r = x % Square
  <2>1. r \in Nat /\ r < Square /\ x = Square * c + r
      BY <1>4
  <2> HIDE DEF r
  <2>2. Square \in Nat \ {0} /\ c \in Nat
      BY <1>2, BaseFacts
  <2>3. x \div Square = c /\ x % Square = r
      BY <2>1, <2>2, DivisionIs
  <2> QED
      BY <2>3
<1> HIDE DEF r
<1>6. <<d, b>> \in Seq(UInt8) /\ Len(<<d, b>>) = 2 /\ <<d, b>>[1] = d /\ <<d, b>>[2] = b
    BY <1>1, <1>2
<1> QED
    BY <1>1, <1>2, <1>3, <1>5, <1>6 DEF r

LEMMA FourBytesAre ==
    ASSUME NEW x \in UInt32
    PROVE  /\ FourBytes(x) \in Seq(UInt8) /\ Len(FourBytes(x)) = 4
           /\ \A k \in 1..4 : FourBytes(x)[k] \in UInt8
           /\ Square * (Base * FourBytes(x)[1] + FourBytes(x)[2])
                + (Base * FourBytes(x)[3] + FourBytes(x)[4]) = x
<1> DEFINE q == x \div Square
           high == TwoBytes(q)
           low == TwoBytes(x)
<1>1. x \in Nat /\ x < Square * Square
  <2>1. Square * Square \in Int
      BY BaseFacts, SMT
  <2> QED
      BY <2>1 DEF UInt32
<1>2. q \in Nat /\ x = Square * q + (x % Square) /\ x % Square \in Nat
    BY <1>1, BaseFacts, DividedBy
<1> HIDE DEF q
<1>3. q < Square
  <2>1. Square * q <= x /\ Square * q \in Nat
      BY <1>1, <1>2, BaseFacts, SMT
  <2>2. Square <= q => Square * Square <= Square * q
      BY <1>2, BaseFacts, SMT
  <2>3. Square * Square \in Nat
      BY BaseFacts, SMT
  <2> QED
      BY <1>1, <1>2, <2>1, <2>2, <2>3, BaseFacts
<1>4. /\ high \in Seq(UInt8) /\ Len(high) = 2 /\ high[1] \in UInt8 /\ high[2] \in UInt8
      /\ Base * high[1] + high[2] = q
  <2>1. q \in 0..(Square - 1)
      BY <1>2, <1>3, BaseFacts
  <2>2. q % Square = q
      BY <2>1, BaseFacts, SmallNumber
  <2> QED
      BY <1>2, <2>2, TwoBytesAre
<1>5. /\ low \in Seq(UInt8) /\ Len(low) = 2 /\ low[1] \in UInt8 /\ low[2] \in UInt8
      /\ Base * low[1] + low[2] = x % Square
    BY <1>1, TwoBytesAre
<1>6. FourBytes(x) = high \o low
    BY DEF FourBytes, q
<1> HIDE DEF high, low
<1>7. /\ high \o low \in Seq(UInt8) /\ Len(high \o low) = 4
      /\ (high \o low)[1] = high[1] /\ (high \o low)[2] = high[2]
      /\ (high \o low)[3] = low[1] /\ (high \o low)[4] = low[2]
  <2> DEFINE both == high \o low
  <2>1. IsJoin(both, UInt8, high, 2, low, 2)
      BY <1>4, <1>5, Joined, Zenon
  <2> HIDE DEF both
  <2>2. both \in Seq(UInt8) /\ Len(both) = 4
      BY <2>1 DEF IsJoin
  <2>3. both[1] = high[1] /\ both[2] = high[2] /\ both[3] = low[1] /\ both[4] = low[2]
      BY <2>1 DEF IsJoin
  <2> QED
      BY <2>2, <2>3 DEF both
<1>8. Square * (Base * high[1] + high[2]) + (Base * low[1] + low[2]) = x
    BY <1>2, <1>4, <1>5
<1> QED
    BY <1>4, <1>5, <1>6, <1>7, <1>8

LEMMA PairPlaces ==
    ASSUME NEW k \in Nat
    PROVE  /\ (2 * k + 1) \div 2 = k /\ (2 * k) \div 2 = k
           /\ 2 - ((2 * k + 1) % 2) = 1 /\ 2 - ((2 * k) % 2) = 2
OBVIOUS

LEMMA BytePairsAre ==
    ASSUME NEW values \in Seq(UInt16)
    PROVE  /\ BytePairs(values) \in Seq(UInt8) /\ Len(BytePairs(values)) = 2 * Len(values)
           /\ \A k \in 1..Len(values) :
                Base * BytePairs(values)[2 * k - 1] + BytePairs(values)[2 * k] = values[k]
<1> DEFINE n == Len(values)
           b == BytePairs(values)
<1>1. n \in Nat /\ \A k \in 1..n : values[k] \in UInt16
    BY ElementOfSeq
<1>2. \A k \in 1..n : /\ values[k] \in Nat /\ values[k] % Square = values[k]
  <2> SUFFICES ASSUME NEW k \in 1..n PROVE values[k] \in Nat /\ values[k] % Square = values[k]
      OBVIOUS
  <2>1. values[k] \in 0..(Square - 1)
      BY <1>1 DEF UInt16
  <2> HIDE DEF n
  <2>2. values[k] \in Nat
      BY <2>1, BaseFacts
  <2> QED
      BY <2>1, <2>2, BaseFacts, SmallNumber
<1>3. b = [k \in 1..(2 * n) |-> TwoBytes(values[(k + 1) \div 2])[2 - (k % 2)]]
    BY DEF BytePairs
<1> HIDE DEF n, b
<1>4. \A k \in 1..n : /\ b[2 * k - 1] = TwoBytes(values[k])[1]
                      /\ b[2 * k] = TwoBytes(values[k])[2]
  <2> SUFFICES ASSUME NEW k \in 1..n
               PROVE  b[2 * k - 1] = TwoBytes(values[k])[1] /\ b[2 * k] = TwoBytes(values[k])[2]
      OBVIOUS
  <2>1. 2 * k - 1 \in 1..(2 * n) /\ 2 * k \in 1..(2 * n) /\ k - 1 \in Nat /\ k \in Nat
      BY <1>1
  <2>2. ((2 * k - 1) + 1) \div 2 = k /\ (2 * k + 1) \div 2 = k
      BY <2>1
  <2>3. 2 - ((2 * k - 1) % 2) = 1 /\ 2 - ((2 * k) % 2) = 2
      BY <2>1
  <2> QED
      BY <1>3, <2>1, <2>2, <2>3
<1>5. \A k \in 1..(2 * n) : b[k] \in UInt8
  <2> SUFFICES ASSUME NEW k \in 1..(2 * n) PROVE b[k] \in UInt8
      OBVIOUS
  <2>1. (k + 1) \div 2 \in 1..n /\ (2 - (k % 2) = 1 \/ 2 - (k % 2) = 2)
      BY <1>1
  <2> DEFINE v == values[(k + 1) \div 2]
  <2>2. v \in Nat
      BY <1>2, <2>1
  <2>3. b[k] = TwoBytes(v)[2 - (k % 2)]
      BY <1>3
  <2> HIDE DEF v
  <2> QED
      BY <2>1, <2>2, <2>3, TwoBytesAre
<1>6. b \in Seq(UInt8) /\ Len(b) = 2 * n
  <2>1. b \in [1..(2 * n) -> UInt8]
      BY <1>3, <1>5
  <2> QED
      BY <1>1, <2>1
<1> QED
    BY <1>2, <1>4, <1>6, TwoBytesAre DEF n, b

-----------------------------------------------------------------------------
(* The bytes of a frame.                                                    *)

LEMMA FrameFields ==
    ASSUME NEW f \in SavedFrames
    PROVE  /\ f.pc \in UInt32 /\ f.framePointer \in UInt32 /\ f.routineType \in UInt8
           /\ f.numValuesPassed \in UInt16 /\ f.locals \in Seq(UInt16)
           /\ f.routineStack \in Seq(UInt16)
           /\ f = [pc |-> f.pc, framePointer |-> f.framePointer, routineType |-> f.routineType,
                   numValuesPassed |-> f.numValuesPassed, locals |-> f.locals,
                   routineStack |-> f.routineStack]
BY DEF SavedFrames

LEMMA ShortNumber ==
    ASSUME NEW x \in UInt16
    PROVE  x \in Nat /\ x % Square = x
<1>1. x \in 0..(Square - 1)
    BY DEF UInt16
<1>2. x \in Nat
    BY <1>1, BaseFacts
<1> QED
    BY <1>1, <1>2, BaseFacts, SmallNumber

LEMMA FrameHeadIs ==
    ASSUME NEW f \in SavedFrames
    PROVE  /\ FrameHead(f) \in Seq(UInt8) /\ Len(FrameHead(f)) = 13
           /\ FourByteNumber(FrameHead(f), 1) = f.pc
           /\ FourByteNumber(FrameHead(f), 5) = f.framePointer
           /\ FrameHead(f)[9] = f.routineType
           /\ TwoByteNumber(FrameHead(f), 10) = f.numValuesPassed
           /\ TwoByteNumber(FrameHead(f), 12) = Len(f.locals) % Square
<1> DEFINE a == FourBytes(f.pc)
           b == FourBytes(f.framePointer)
           c == <<f.routineType % Base>>
           d == TwoBytes(f.numValuesPassed)
           e == TwoBytes(Len(f.locals))
           ab == a \o b
           abc == ab \o c
           abcd == abc \o d
           all == abcd \o e
<1>1. /\ a \in Seq(UInt8) /\ Len(a) = 4
      /\ Square * (Base * a[1] + a[2]) + (Base * a[3] + a[4]) = f.pc
    BY FrameFields, FourBytesAre
<1>2. /\ b \in Seq(UInt8) /\ Len(b) = 4
      /\ Square * (Base * b[1] + b[2]) + (Base * b[3] + b[4]) = f.framePointer
    BY FrameFields, FourBytesAre
<1>3. c \in Seq(UInt8) /\ Len(c) = 1 /\ c[1] = f.routineType
  <2>1. f.routineType \in 0..(Base - 1)
      BY FrameFields DEF UInt8
  <2>2. f.routineType % Base = f.routineType
      BY <2>1, BaseFacts, SmallNumber
  <2> QED
      BY <2>2, FrameFields
<1>4. /\ d \in Seq(UInt8) /\ Len(d) = 2
      /\ Base * d[1] + d[2] = f.numValuesPassed
  <2>1. f.numValuesPassed \in Nat /\ f.numValuesPassed % Square = f.numValuesPassed
      BY FrameFields, ShortNumber
  <2> QED
      BY <2>1, TwoBytesAre
<1>5. /\ e \in Seq(UInt8) /\ Len(e) = 2
      /\ Base * e[1] + e[2] = Len(f.locals) % Square
  <2>1. Len(f.locals) \in Nat
      BY FrameFields
  <2> QED
      BY <2>1, TwoBytesAre
<1>6. FrameHead(f) = all
    BY DEF FrameHead
<1> HIDE DEF a, b, c, d, e
<1>7. /\ ab \in Seq(UInt8) /\ Len(ab) = 8
      /\ \A i \in 1..4 : ab[i] = a[i] /\ ab[4 + i] = b[i]
  <2>1. IsJoin(ab, UInt8, a, 4, b, 4)
      BY <1>1, <1>2, Joined, Zenon
  <2> HIDE DEF ab
  <2> QED
      BY <2>1 DEF IsJoin
<1> HIDE DEF ab
<1>8. /\ abc \in Seq(UInt8) /\ Len(abc) = 9
      /\ \A i \in 1..8 : abc[i] = ab[i]
      /\ abc[9] = c[1]
  <2>1. IsJoin(abc, UInt8, ab, 8, c, 1)
      BY <1>3, <1>7, Joined, Zenon
  <2> HIDE DEF abc
  <2> QED
      BY <2>1 DEF IsJoin
<1> HIDE DEF abc
<1>9. /\ abcd \in Seq(UInt8) /\ Len(abcd) = 11
      /\ \A i \in 1..9 : abcd[i] = abc[i]
      /\ abcd[10] = d[1] /\ abcd[11] = d[2]
  <2>1. IsJoin(abcd, UInt8, abc, 9, d, 2)
      BY <1>4, <1>8, Joined, Zenon
  <2> HIDE DEF abcd
  <2> QED
      BY <2>1 DEF IsJoin
<1> HIDE DEF abcd
<1>10. /\ all \in Seq(UInt8) /\ Len(all) = 13
       /\ \A i \in 1..11 : all[i] = abcd[i]
       /\ all[12] = e[1] /\ all[13] = e[2]
  <2>1. IsJoin(all, UInt8, abcd, 11, e, 2)
      BY <1>5, <1>9, Joined, Zenon
  <2> HIDE DEF all
  <2> QED
      BY <2>1 DEF IsJoin
<1> HIDE DEF all
<1>11. /\ all[1] = a[1] /\ all[2] = a[2] /\ all[3] = a[3] /\ all[4] = a[4]
       /\ all[5] = b[1] /\ all[6] = b[2] /\ all[7] = b[3] /\ all[8] = b[4]
       /\ all[9] = c[1] /\ all[10] = d[1] /\ all[11] = d[2]
  <2>1. \A i \in 1..9 : all[i] = abc[i]
      BY <1>9, <1>10
  <2>2. \A i \in 1..8 : all[i] = ab[i]
      BY <1>8, <2>1
  <2>3. \A i \in 1..4 : all[i] = a[i] /\ all[4 + i] = b[i]
      BY <1>7, <2>2
  <2>4. /\ all[1] = a[1] /\ all[2] = a[2] /\ all[3] = a[3] /\ all[4] = a[4]
        /\ all[5] = b[1] /\ all[6] = b[2] /\ all[7] = b[3] /\ all[8] = b[4]
      BY <2>3
  <2>5. all[9] = c[1] /\ all[10] = d[1] /\ all[11] = d[2]
      BY <1>8, <1>9, <1>10, <2>1
  <2> QED
      BY <2>4, <2>5
<1>12. /\ FourByteNumber(all, 1) = f.pc /\ FourByteNumber(all, 5) = f.framePointer
       /\ TwoByteNumber(all, 10) = f.numValuesPassed
       /\ TwoByteNumber(all, 12) = Len(f.locals) % Square
  <2>1. /\ 1 + 1 = 2 /\ 1 + 2 = 3 /\ 3 + 1 = 4 /\ 5 + 1 = 6 /\ 5 + 2 = 7 /\ 7 + 1 = 8
        /\ 10 + 1 = 11 /\ 12 + 1 = 13
      OBVIOUS
  <2>2. /\ FourByteNumber(all, 1) = Square * (Base * all[1] + all[2]) + (Base * all[3] + all[4])
        /\ FourByteNumber(all, 5) = Square * (Base * all[5] + all[6]) + (Base * all[7] + all[8])
        /\ TwoByteNumber(all, 10) = Base * all[10] + all[11]
        /\ TwoByteNumber(all, 12) = Base * all[12] + all[13]
      BY <2>1, Zenon DEF FourByteNumber, TwoByteNumber
  <2> QED
      BY <1>1, <1>2, <1>4, <1>5, <1>10, <1>11, <2>2, Zenon
<1> QED
    BY <1>3, <1>6, <1>10, <1>11, <1>12

LEMMA PairsFollow ==
    ASSUME NEW c \in Nat, NEW n \in Nat, NEW k \in 1..n
    PROVE  /\ 16 + 2 * c + 2 * (k - 1) = 15 + 2 * c + (2 * k - 1)
           /\ (16 + 2 * c + 2 * (k - 1)) + 1 = 15 + 2 * c + 2 * k
           /\ 2 * k - 1 \in 1..(2 * n) /\ 2 * k \in 1..(2 * n)
OBVIOUS

\* What is at which place of the frame f, with c local variables and z values.
FrameLayout(b, f, c, z) ==
    /\ c \in Nat /\ z \in Nat
    /\ b \in Seq(UInt8) /\ Len(b) = 15 + 2 * c + 2 * z
    /\ \A i \in 1..13 : b[i] = FrameHead(f)[i]
    /\ \A k \in 1..c : TwoByteNumber(b, 14 + 2 * (k - 1)) = f.locals[k]
    /\ TwoByteNumber(b, 14 + 2 * c) = z % Square
    /\ \A k \in 1..z : TwoByteNumber(b, 16 + 2 * c + 2 * (k - 1)) = f.routineStack[k]

LEMMA FrameBytesAre ==
    ASSUME NEW f \in SavedFrames, NEW c, c = Len(f.locals), NEW z, z = Len(f.routineStack)
    PROVE  FrameLayout(FrameBytes(f), f, c, z)
<1> DEFINE h == FrameHead(f)
           p == BytePairs(f.locals)
           t == TwoBytes(z)
           q == BytePairs(f.routineStack)
           hp == h \o p
           hpt == hp \o t
           b == hpt \o q
<1>1. h \in Seq(UInt8) /\ Len(h) = 13
    BY FrameHeadIs
<1>2. /\ c \in Nat /\ p \in Seq(UInt8) /\ Len(p) = 2 * c
      /\ \A k \in 1..c : Base * p[2 * k - 1] + p[2 * k] = f.locals[k]
    BY FrameFields, BytePairsAre
<1>3. /\ z \in Nat /\ q \in Seq(UInt8) /\ Len(q) = 2 * z
      /\ \A k \in 1..z : Base * q[2 * k - 1] + q[2 * k] = f.routineStack[k]
    BY FrameFields, BytePairsAre
<1>4. t \in Seq(UInt8) /\ Len(t) = 2 /\ Base * t[1] + t[2] = z % Square
    BY <1>3, TwoBytesAre
<1>5. FrameBytes(f) = b
    BY DEF FrameBytes
<1> HIDE DEF h, p, t, q
<1>6. /\ hp \in Seq(UInt8) /\ Len(hp) = 13 + 2 * c
      /\ \A i \in 1..13 : hp[i] = h[i]
      /\ \A i \in 1..(2 * c) : hp[13 + i] = p[i]
  <2>1. IsJoin(hp, UInt8, h, 13, p, 2 * c)
      BY <1>1, <1>2, Joined, Zenon
  <2> HIDE DEF hp
  <2> QED
      BY <2>1, Zenon DEF IsJoin
<1> HIDE DEF hp
<1>7. /\ hpt \in Seq(UInt8) /\ Len(hpt) = 15 + 2 * c
      /\ \A i \in 1..(13 + 2 * c) : hpt[i] = hp[i]
      /\ hpt[14 + 2 * c] = t[1] /\ hpt[15 + 2 * c] = t[2]
  <2>1. IsJoin(hpt, UInt8, hp, 13 + 2 * c, t, 2)
      BY <1>4, <1>6, Joined, Zenon
  <2> HIDE DEF hpt
  <2>2. /\ hpt \in Seq(UInt8) /\ Len(hpt) = 13 + 2 * c + 2
        /\ \A i \in 1..(13 + 2 * c) : hpt[i] = hp[i]
        /\ \A i \in 1..2 : hpt[13 + 2 * c + i] = t[i]
      BY <2>1, Zenon DEF IsJoin
  <2>3. 13 + 2 * c + 1 = 14 + 2 * c /\ 13 + 2 * c + 2 = 15 + 2 * c
      BY <1>2
  <2>4. 1 \in 1..2 /\ 2 \in 1..2
      OBVIOUS
  <2> QED
      BY <2>2, <2>3, <2>4, Zenon
<1> HIDE DEF hpt
<1>8. /\ b \in Seq(UInt8) /\ Len(b) = 15 + 2 * c + 2 * z
      /\ \A i \in 1..(15 + 2 * c) : b[i] = hpt[i]
      /\ \A i \in 1..(2 * z) : b[15 + 2 * c + i] = q[i]
  <2>1. IsJoin(b, UInt8, hpt, 15 + 2 * c, q, 2 * z)
      BY <1>3, <1>7, Joined, Zenon
  <2> HIDE DEF b
  <2> QED
      BY <2>1, Zenon DEF IsJoin
<1> HIDE DEF b
<1>9. \A i \in 1..(13 + 2 * c) : b[i] = hp[i]
  <2>1. \A i \in 1..(13 + 2 * c) : i \in 1..(15 + 2 * c)
      BY <1>2
  <2> QED
      BY <1>7, <1>8, <2>1, Zenon
<1>10. \A i \in 1..13 : b[i] = h[i]
  <2>1. \A i \in 1..13 : i \in 1..(13 + 2 * c)
      BY <1>2
  <2> QED
      BY <1>6, <1>9, <2>1, Zenon
<1>11. \A i \in 1..(2 * c) : b[13 + i] = p[i]
  <2>1. \A i \in 1..(2 * c) : 13 + i \in 1..(13 + 2 * c)
      BY <1>2
  <2> QED
      BY <1>6, <1>9, <2>1, Zenon
<1>12. \A k \in 1..c : TwoByteNumber(b, 14 + 2 * (k - 1)) = f.locals[k]
  <2> SUFFICES ASSUME NEW k \in 1..c
               PROVE  TwoByteNumber(b, 14 + 2 * (k - 1)) = f.locals[k]
      OBVIOUS
  <2>1. /\ 14 + 2 * (k - 1) = 13 + (2 * k - 1) /\ (14 + 2 * (k - 1)) + 1 = 13 + 2 * k
        /\ 2 * k - 1 \in 1..(2 * c) /\ 2 * k \in 1..(2 * c)
      BY <1>2
  <2>2. b[14 + 2 * (k - 1)] = p[2 * k - 1] /\ b[(14 + 2 * (k - 1)) + 1] = p[2 * k]
      BY <1>11, <2>1, Zenon
  <2> QED
      BY <1>2, <2>2, Zenon DEF TwoByteNumber
<1>13. TwoByteNumber(b, 14 + 2 * c) = z % Square
  <2>1. /\ 14 + 2 * c \in 1..(15 + 2 * c) /\ 15 + 2 * c \in 1..(15 + 2 * c)
        /\ (14 + 2 * c) + 1 = 15 + 2 * c
      BY <1>2
  <2>2. b[14 + 2 * c] = t[1] /\ b[(14 + 2 * c) + 1] = t[2]
      BY <1>7, <1>8, <2>1, Zenon
  <2> QED
      BY <1>4, <2>2, Zenon DEF TwoByteNumber
<1>14. \A k \in 1..z : TwoByteNumber(b, 16 + 2 * c + 2 * (k - 1)) = f.routineStack[k]
  <2> SUFFICES ASSUME NEW k \in 1..z
               PROVE  TwoByteNumber(b, 16 + 2 * c + 2 * (k - 1)) = f.routineStack[k]
      OBVIOUS
  <2>1. /\ 16 + 2 * c + 2 * (k - 1) = 15 + 2 * c + (2 * k - 1)
        /\ (16 + 2 * c + 2 * (k - 1)) + 1 = 15 + 2 * c + 2 * k
        /\ 2 * k - 1 \in 1..(2 * z) /\ 2 * k \in 1..(2 * z)
      BY <1>2, <1>3, PairsFollow
  <2>2. /\ b[16 + 2 * c + 2 * (k - 1)] = q[2 * k - 1]
        /\ b[(16 + 2 * c + 2 * (k - 1)) + 1] = q[2 * k]
      BY <1>8, <2>1, Zenon
  <2> QED
      BY <1>3, <2>2, Zenon DEF TwoByteNumber
<1> QED
    BY <1>2, <1>3, <1>5, <1>8, <1>10, <1>12, <1>13, <1>14, Zenon DEF h, FrameLayout

-----------------------------------------------------------------------------
(* Reading a frame back.                                                    *)

\* As far as the data go, they have the bytes b from place i on.
Shows(data, i, b) == \A j \in 1..Len(b) : i + j - 1 <= Len(data) => data[i + j - 1] = b[j]

LEMMA ShownNumbers ==
    ASSUME NEW data, NEW i \in Nat, NEW b, Shows(data, i, b), Len(b) \in Nat, Len(data) \in Nat
    PROVE  /\ \A j \in 1..(Len(b) - 1) : i + j <= Len(data) =>
                TwoByteNumber(data, i + j - 1) = TwoByteNumber(b, j)
           /\ \A j \in 1..(Len(b) - 3) : i + j + 2 <= Len(data) =>
                FourByteNumber(data, i + j - 1) = FourByteNumber(b, j)
<1> DEFINE m == Len(b)
           n == Len(data)
<1>1. \A j \in 1..m : i + j - 1 <= n => data[i + j - 1] = b[j]
    BY DEF Shows
<1>2. m \in Nat /\ n \in Nat
    OBVIOUS
<1> HIDE DEF m, n
<1>3. ASSUME NEW j \in 1..(m - 1), i + j <= n
      PROVE  TwoByteNumber(data, i + j - 1) = TwoByteNumber(b, j)
  <2>1. /\ j \in 1..m /\ j + 1 \in 1..m /\ i + j - 1 <= n /\ i + (j + 1) - 1 <= n
        /\ (i + j - 1) + 1 = i + (j + 1) - 1
      BY <1>2, <1>3
  <2>2. data[i + j - 1] = b[j] /\ data[i + (j + 1) - 1] = b[j + 1]
      BY <1>1, <2>1
  <2>3. data[(i + j - 1) + 1] = b[j + 1]
      BY <2>1, <2>2, Zenon
  <2> QED
      BY <2>2, <2>3, Zenon DEF TwoByteNumber
<1>4. ASSUME NEW j \in 1..(m - 3), i + j + 2 <= n
      PROVE  FourByteNumber(data, i + j - 1) = FourByteNumber(b, j)
  <2>1. /\ j \in 1..(m - 1) /\ j + 2 \in 1..(m - 1) /\ i + j <= n /\ i + (j + 2) <= n
        /\ (i + j - 1) + 2 = i + (j + 2) - 1
      BY <1>2, <1>4
  <2>2. /\ TwoByteNumber(data, i + j - 1) = TwoByteNumber(b, j)
        /\ TwoByteNumber(data, (i + j - 1) + 2) = TwoByteNumber(b, j + 2)
      BY <1>3, <2>1, Zenon
  <2> QED
      BY <2>2, Zenon DEF FourByteNumber
<1>5. /\ \A j \in 1..(m - 1) : i + j <= n => TwoByteNumber(data, i + j - 1) = TwoByteNumber(b, j)
      /\ \A j \in 1..(m - 3) : i + j + 2 <= n =>
           FourByteNumber(data, i + j - 1) = FourByteNumber(b, j)
    BY <1>3, <1>4, Zenon
<1> QED
    BY <1>5, Zenon DEF m, n

\* A frame is read back as it was written, or refused if the data end within it.
LEMMA ReadFrameIs ==
    ASSUME NEW f \in SavedFrames, Len(f.locals) < Square, Len(f.routineStack) < Square,
           NEW data, NEW n \in Nat, Len(data) = n, NEW i \in Nat \ {0},
           Shows(data, i, FrameBytes(f)),
           NEW size, size = Len(FrameBytes(f))
    PROVE  /\ size \in Nat
           /\ ReadFrame(data, i) = IF i + size <= n + 1
                                   THEN [ok |-> TRUE, frame |-> f, next |-> i + size]
                                   ELSE Unreadable
<1> DEFINE b == FrameBytes(f)
           h == FrameHead(f)
           c == Len(f.locals)
           z == Len(f.routineStack)
           count == TwoByteNumber(data, i + 11)
           j == i + 13 + 2 * count
           more == TwoByteNumber(data, j)
           whole == [pc |-> FourByteNumber(data, i),
                     framePointer |-> FourByteNumber(data, i + 4),
                     routineType |-> data[i + 8],
                     numValuesPassed |-> TwoByteNumber(data, i + 9),
                     locals |-> Numbers(data, i + 13, count),
                     routineStack |-> Numbers(data, j + 2, more)]
<1>1. /\ c \in Nat /\ z \in Nat
      /\ b \in Seq(UInt8) /\ Len(b) = 15 + 2 * c + 2 * z
      /\ \A k \in 1..13 : b[k] = h[k]
      /\ \A k \in 1..c : TwoByteNumber(b, 14 + 2 * (k - 1)) = f.locals[k]
      /\ TwoByteNumber(b, 14 + 2 * c) = z % Square
      /\ \A k \in 1..z : TwoByteNumber(b, 16 + 2 * c + 2 * (k - 1)) = f.routineStack[k]
  <2>1. FrameLayout(b, f, c, z)
      BY FrameBytesAre
  <2> HIDE DEF b, c, z, count, j, more, whole
  <2> QED
      BY <2>1, Zenon DEF FrameLayout, h
<1>2. /\ FourByteNumber(h, 1) = f.pc /\ FourByteNumber(h, 5) = f.framePointer
      /\ h[9] = f.routineType /\ TwoByteNumber(h, 10) = f.numValuesPassed
      /\ TwoByteNumber(h, 12) = c % Square
    BY FrameHeadIs, Zenon
<1>3. c % Square = c /\ z % Square = z
  <2>1. c \in 0..(Square - 1) /\ z \in 0..(Square - 1)
      BY <1>1, BaseFacts
  <2> HIDE DEF c, z
  <2> QED
      BY <2>1, BaseFacts, SmallNumber
<1>4. ReadFrame(data, i)
        = IF i + 12 > n \/ j - 1 > n \/ j + 1 > n \/ j + 1 + 2 * more > n THEN Unreadable
          ELSE [ok |-> TRUE, frame |-> whole, next |-> j + 2 + 2 * more]
    BY Zenon DEF ReadFrame
<1>5. f.locals \in Seq(UInt16) /\ f.routineStack \in Seq(UInt16)
    BY FrameFields
<1>6. /\ c \in Nat /\ z \in Nat
      /\ size = 15 + 2 * c + 2 * z /\ Len(b) = size /\ size \in Nat /\ i \in Nat
  <2>1. c \in Nat /\ z \in Nat /\ size = 15 + 2 * c + 2 * z /\ Len(b) = size
      BY <1>1, Zenon
  <2> HIDE DEF b, c, z
  <2>2. 15 + 2 * c + 2 * z \in Nat
      BY <2>1
  <2> QED
      BY <2>1, <2>2
<1>7. /\ \A l \in 1..(size - 1) : i + l <= n => TwoByteNumber(data, i + l - 1) = TwoByteNumber(b, l)
      /\ \A l \in 1..(size - 3) : i + l + 2 <= n =>
           FourByteNumber(data, i + l - 1) = FourByteNumber(b, l)
      /\ \A l \in 1..size : i + l - 1 <= n => data[i + l - 1] = b[l]
      /\ c = Len(f.locals) /\ z = Len(f.routineStack)
  <2>1. Shows(data, i, b) /\ Len(b) \in Nat /\ Len(data) \in Nat /\ i \in Nat
      BY <1>6
  <2>2. /\ \A l \in 1..(Len(b) - 1) : i + l <= Len(data) =>
              TwoByteNumber(data, i + l - 1) = TwoByteNumber(b, l)
        /\ \A l \in 1..(Len(b) - 3) : i + l + 2 <= Len(data) =>
             FourByteNumber(data, i + l - 1) = FourByteNumber(b, l)
    <3> HIDE DEF b
    <3> QED
        BY <2>1, ShownNumbers
  <2> QED
      BY <1>6, <2>1, <2>2, Zenon DEF Shows
<1>8. b = FrameBytes(f)
    OBVIOUS
<1>9. /\ FourByteNumber(b, 1) = f.pc /\ FourByteNumber(b, 5) = f.framePointer
      /\ b[9] = f.routineType /\ TwoByteNumber(b, 10) = f.numValuesPassed
      /\ TwoByteNumber(b, 12) = c
  <2> HIDE DEF b, h, c
  <2>1. /\ 1 + 1 = 2 /\ 1 + 2 = 3 /\ 3 + 1 = 4 /\ 5 + 1 = 6 /\ 5 + 2 = 7 /\ 7 + 1 = 8
        /\ 10 + 1 = 11 /\ 12 + 1 = 13
      OBVIOUS
  <2>4. \A k \in 1..13 : b[k] = h[k]
      BY <1>1
  <2>2. /\ b[1] = h[1] /\ b[2] = h[2] /\ b[3] = h[3] /\ b[4] = h[4] /\ b[5] = h[5]
        /\ b[6] = h[6] /\ b[7] = h[7] /\ b[8] = h[8] /\ b[9] = h[9] /\ b[10] = h[10]
        /\ b[11] = h[11] /\ b[12] = h[12] /\ b[13] = h[13]
      BY <2>4
  <2>3. /\ FourByteNumber(b, 1) = FourByteNumber(h, 1)
        /\ FourByteNumber(b, 5) = FourByteNumber(h, 5)
        /\ TwoByteNumber(b, 10) = TwoByteNumber(h, 10)
        /\ TwoByteNumber(b, 12) = TwoByteNumber(h, 12)
      BY <2>1, <2>2, Zenon DEF FourByteNumber, TwoByteNumber
  <2> QED
      BY <1>2, <1>3, <2>2, <2>3, Zenon
<1> HIDE DEF b, h, c, z, count, more, whole
<1>10. ASSUME i + 12 <= n PROVE count = c
  <2>1. 12 \in 1..(size - 1) /\ i + 12 <= n /\ i + 11 = i + 12 - 1
      BY <1>6, <1>10
  <2>2. TwoByteNumber(data, i + 11) = TwoByteNumber(b, 12)
      BY <1>7, <2>1
  <2> QED
      BY <1>9, <2>2, Zenon DEF count
<1>11. ASSUME i + 12 <= n, j + 1 <= n PROVE more = z
  <2>1. count = c
      BY <1>10, <1>11
  <2>2. /\ 14 + 2 * c \in 1..(size - 1) /\ i + (14 + 2 * c) <= n
        /\ j = i + (14 + 2 * c) - 1
      BY <1>6, <1>11, <2>1
  <2>3. TwoByteNumber(data, j) = TwoByteNumber(b, 14 + 2 * c)
      BY <1>7, <2>2, Zenon
  <2> QED
      BY <1>1, <1>3, <2>3, Zenon DEF more
<1>12. CASE i + 12 > n \/ j + 1 > n \/ j + 1 + 2 * more > n
  <2>1. ReadFrame(data, i) = Unreadable
      BY <1>4, <1>12
  <2>2. ~(i + size <= n + 1)
    <3>1. CASE i + 12 > n
        BY <1>6, <3>1
    <3>2. CASE i + 12 <= n /\ j + 1 > n
      <4>1. count = c
          BY <1>10, <3>2
      <4> QED
          BY <1>6, <3>2, <4>1
    <3>3. CASE i + 12 <= n /\ j + 1 <= n /\ j + 1 + 2 * more > n
      <4>1. count = c /\ more = z
          BY <1>10, <1>11, <3>3
      <4> QED
          BY <1>6, <3>3, <4>1
    <3>4. /\ i + 12 > n \/ i + 12 <= n
          /\ (i + 12 <= n) => (j + 1 > n \/ j + 1 <= n)
      <4>1. i + 12 <= n => count \in Nat
          BY <1>6, <1>10
      <4> QED
          BY <4>1
    <3> QED
        BY <1>12, <3>1, <3>2, <3>3, <3>4
  <2> QED
      BY <1>6, <2>1, <2>2
<1>13. CASE ~(i + 12 > n \/ j + 1 > n \/ j + 1 + 2 * more > n)
  <2>1. i + 12 <= n /\ count = c
    <3>1. i + 12 <= n
        BY <1>13
    <3> QED
        BY <1>10, <3>1
  <2>2. j + 1 <= n /\ more = z
    <3>1. j + 1 <= n
        BY <1>6, <1>13, <2>1
    <3> QED
        BY <1>11, <2>1, <3>1
  <2>3. /\ j = i + 13 + 2 * c /\ j + 1 + 2 * z <= n /\ i + size <= n + 1
        /\ j + 2 + 2 * more = i + size
      BY <1>6, <1>13, <2>1, <2>2
  <2>4. ReadFrame(data, i) = [ok |-> TRUE, frame |-> whole, next |-> i + size]
    <3>1. ~(i + 12 > n \/ j - 1 > n \/ j + 1 > n \/ j + 1 + 2 * more > n)
        BY <1>6, <1>13, <2>1, <2>2
    <3> QED
        BY <1>4, <2>3, <3>1, Zenon
  <2>5. whole.pc = f.pc /\ whole.framePointer = f.framePointer
    <3>1. /\ 1 \in 1..(size - 3) /\ 5 \in 1..(size - 3) /\ i + 1 + 2 <= n /\ i + 5 + 2 <= n
          /\ i = i + 1 - 1 /\ i + 4 = i + 5 - 1
        BY <1>6, <2>1
    <3>2. /\ FourByteNumber(data, i) = FourByteNumber(b, 1)
          /\ FourByteNumber(data, i + 4) = FourByteNumber(b, 5)
        BY <1>7, <3>1, Zenon
    <3> QED
        BY <1>9, <3>2 DEF whole
  <2>6. whole.routineType = f.routineType /\ whole.numValuesPassed = f.numValuesPassed
    <3>1. /\ 9 \in 1..size /\ i + 9 - 1 <= n /\ i + 8 = i + 9 - 1
          /\ 10 \in 1..(size - 1) /\ i + 10 <= n /\ i + 9 = i + 10 - 1
        BY <1>6, <2>1
    <3>2. data[i + 8] = b[9]
        BY <1>7, <3>1, Zenon
    <3>3. TwoByteNumber(data, i + 9) = TwoByteNumber(b, 10)
        BY <1>7, <3>1, Zenon
    <3> QED
        BY <1>9, <3>2, <3>3 DEF whole
  <2>7. Numbers(data, i + 13, c) = f.locals
    <3>1. f.locals = [k \in 1..c |-> f.locals[k]]
      <4>1. f.locals = [k \in 1..Len(f.locals) |-> f.locals[k]]
          BY <1>5
      <4> QED
          BY <4>1, Zenon DEF c
    <3>2. ASSUME NEW k \in 1..c
          PROVE  TwoByteNumber(data, i + 13 + 2 * (k - 1)) = f.locals[k]
      <4> DEFINE l == 14 + 2 * (k - 1)
      <4>1. /\ l \in 1..(size - 1) /\ i + l <= n
            /\ i + 13 + 2 * (k - 1) = i + l - 1
          BY <1>6, <2>3
      <4>2. TwoByteNumber(b, l) = f.locals[k]
          BY <1>1, <3>2
      <4> HIDE DEF l
      <4> QED
          BY <1>7, <4>1, <4>2, Zenon
    <3> QED
        BY <3>1, <3>2 DEF Numbers
  <2>8. Numbers(data, j + 2, z) = f.routineStack
    <3>1. f.routineStack = [k \in 1..z |-> f.routineStack[k]]
      <4>1. f.routineStack = [k \in 1..Len(f.routineStack) |-> f.routineStack[k]]
          BY <1>5
      <4> QED
          BY <4>1, Zenon DEF z
    <3>2. ASSUME NEW k \in 1..z
          PROVE  TwoByteNumber(data, j + 2 + 2 * (k - 1)) = f.routineStack[k]
      <4> DEFINE l == 16 + 2 * c + 2 * (k - 1)
      <4>1. /\ l \in 1..(size - 1) /\ i + l <= n
            /\ j + 2 + 2 * (k - 1) = i + l - 1
          BY <1>6, <2>1, <2>3
      <4>2. TwoByteNumber(b, l) = f.routineStack[k]
          BY <1>1, <3>2
      <4> HIDE DEF l
      <4> QED
          BY <1>7, <4>1, <4>2, Zenon
    <3> QED
        BY <3>1, <3>2 DEF Numbers
  <2>9. whole = f
    <3>1. whole = [pc |-> f.pc, framePointer |-> f.framePointer, routineType |-> f.routineType,
                   numValuesPassed |-> f.numValuesPassed, locals |-> f.locals,
                   routineStack |-> f.routineStack]
        BY <2>1, <2>2, <2>5, <2>6, <2>7, <2>8 DEF whole
    <3> QED
        BY <3>1, FrameFields, Zenon
  <2> QED
      BY <1>6, <2>3, <2>4, <2>9
<1> QED
    BY <1>12, <1>13

-----------------------------------------------------------------------------
(* Reading all frames back.                                                 *)

\* What the recursive functions compute from one step to the next.
LEMMA FramesBytesUnfold ==
    ASSUME NEW frames, Len(frames) \in Nat
    PROVE  \E f : /\ FramesBytes(frames) = f[Len(frames)]
                  /\ f[0] = <<>>
                  /\ \A k \in 1..Len(frames) : f[k] = f[k - 1] \o FrameBytes(frames[k])
<1> DEFINE n == Len(frames)
           More(read, i) == read \o FrameBytes(frames[i])
           Whole(f) == f = [i \in 0..n |-> IF i = 0 THEN <<>> ELSE More(f[i - 1], i)]
           UpTo(f, k) == f = [i \in 0..k |-> IF i = 0 THEN <<>> ELSE More(f[i - 1], i)]
           T == {k \in 0..n : ~\E f : UpTo(f, k)}
<1>1. FramesBytes(frames) = (CHOOSE f : Whole(f))[n]
    BY Zenon DEF FramesBytes
<1>2. n \in Nat
    OBVIOUS
<1> HIDE DEF More, n
<1>3. ASSUME T # {} PROVE FALSE
  <2>1. T \subseteq Nat
      BY <1>2
  <2>2. PICK k \in T : \A j \in T : k <= j
      BY <1>3, <2>1, LeastElement
  <2>3. k \in 0..n /\ ~\E f : UpTo(f, k)
      BY <2>2
  <2>4. CASE k = 0
    <3> DEFINE f == [i \in 0..0 |-> <<>>]
    <3>1. \A i \in 0..0 : i = 0
        OBVIOUS
    <3>2. f = [i \in 0..0 |-> IF i = 0 THEN <<>> ELSE More(f[i - 1], i)]
        BY <3>1
    <3> HIDE DEF f
    <3> QED
        BY <2>3, <2>4, <3>2
  <2>5. CASE k # 0
    <3>1. k - 1 \in 0..n /\ ~(k <= k - 1) /\ k \in Nat
        BY <1>2, <2>3, <2>5
    <3>2. k - 1 \notin T
        BY <2>2, <3>1
    <3>3. PICK f : UpTo(f, k - 1)
        BY <3>1, <3>2
    <3> DEFINE g == [i \in 0..k |-> IF i = k THEN More(f[k - 1], k) ELSE f[i]]
    <3>4. \A i \in 0..k : g[i] = IF i = 0 THEN <<>> ELSE More(g[i - 1], i)
      <4> SUFFICES ASSUME NEW i \in 0..k
                   PROVE  g[i] = IF i = 0 THEN <<>> ELSE More(g[i - 1], i)
          OBVIOUS
      <4>1. CASE i = k
        <5>1. k - 1 \in 0..k /\ k - 1 # k /\ k # 0
            BY <2>5, <3>1
        <5>2. g[k - 1] = f[k - 1] /\ g[k] = More(f[k - 1], k)
            BY <3>1, <5>1
        <5> QED
            BY <4>1, <5>1, <5>2, Zenon
      <4>2. CASE i # k
        <5>1. i \in 0..(k - 1) /\ (i # 0 => i - 1 \in 0..k /\ i - 1 # k)
            BY <3>1, <4>2
        <5>2. g[i] = f[i] /\ (i # 0 => g[i - 1] = f[i - 1])
            BY <4>2, <5>1
        <5>3. f[i] = IF i = 0 THEN <<>> ELSE More(f[i - 1], i)
            BY <3>3, <5>1
        <5> QED
            BY <5>2, <5>3, Zenon
      <4> QED
          BY <4>1, <4>2
    <3>5. g = [i \in 0..k |-> g[i]]
        OBVIOUS
    <3> HIDE DEF g
    <3>6. UpTo(g, k)
        BY <3>4, <3>5, Zenon
    <3> QED
        BY <2>3, <3>6
  <2> QED
      BY <2>4, <2>5
<1>4. \E f : Whole(f)
  <2>1. n \in 0..n
      BY <1>2
  <2> QED
      BY <1>3, <2>1
<1> DEFINE f == CHOOSE f : Whole(f)
<1>5. Whole(f)
    BY <1>4, Zenon
<1>6. FramesBytes(frames) = f[n]
    BY <1>1, Zenon
<1> HIDE DEF f
<1>7. 0 \in 0..n /\ \A k \in 1..n : k \in 0..n /\ k # 0
    BY <1>2
<1>8. f[0] = <<>>
    BY <1>5, <1>7
<1>9. \A k \in 1..n : f[k] = More(f[k - 1], k)
    BY <1>5, <1>7
<1> QED
    BY <1>6, <1>8, <1>9, Zenon DEF More, n

\* The frames read so far, and one more.
OneMore(data, read) ==
    IF ~read.ok THEN Unreadable
    ELSE LET r == ReadFrame(data, read.next)
         IN IF ~r.ok THEN Unreadable
            ELSE [ok |-> TRUE, frames |-> Append(read.frames, r.frame), next |-> r.next]

NothingRead(first) == [ok |-> TRUE, frames |-> <<>>, next |-> first]

Reading(r, data, first, count) ==
    /\ ReadFrames(data, first, count) = r[count]
    /\ r[0] = NothingRead(first)
    /\ \A k \in 1..count : r[k] = OneMore(data, r[k - 1])

LEMMA ReadFramesUnfold ==
    ASSUME NEW data, NEW first, NEW count \in Nat
    PROVE  \E r : Reading(r, data, first, count)
<1> DEFINE n == count
           More(read, i) == OneMore(data, read)
           Whole(f) == f = [i \in 0..n |-> IF i = 0 THEN NothingRead(first) ELSE More(f[i - 1], i)]
           UpTo(f, k) ==
             f = [i \in 0..k |-> IF i = 0 THEN NothingRead(first) ELSE More(f[i - 1], i)]
           T == {k \in 0..n : ~\E f : UpTo(f, k)}
<1>1. ReadFrames(data, first, count) = (CHOOSE f : Whole(f))[n]
    BY Zenon DEF ReadFrames, OneMore, NothingRead
<1>2. n \in Nat
    OBVIOUS
<1> HIDE DEF More, n
<1>3. ASSUME T # {} PROVE FALSE
  <2>1. T \subseteq Nat
      BY <1>2
  <2>2. PICK k \in T : \A j \in T : k <= j
      BY <1>3, <2>1, LeastElement
  <2>3. k \in 0..n /\ ~\E f : UpTo(f, k)
      BY <2>2
  <2>4. CASE k = 0
    <3> DEFINE f == [i \in 0..0 |-> NothingRead(first)]
    <3>1. \A i \in 0..0 : i = 0
        OBVIOUS
    <3>2. f = [i \in 0..0 |-> IF i = 0 THEN NothingRead(first) ELSE More(f[i - 1], i)]
        BY <3>1
    <3> HIDE DEF f
    <3> QED
        BY <2>3, <2>4, <3>2
  <2>5. CASE k # 0
    <3>1. k - 1 \in 0..n /\ ~(k <= k - 1) /\ k \in Nat
        BY <1>2, <2>3, <2>5
    <3>2. k - 1 \notin T
        BY <2>2, <3>1
    <3>3. PICK f : UpTo(f, k - 1)
        BY <3>1, <3>2
    <3> DEFINE g == [i \in 0..k |-> IF i = k THEN More(f[k - 1], k) ELSE f[i]]
    <3>4. \A i \in 0..k : g[i] = IF i = 0 THEN NothingRead(first) ELSE More(g[i - 1], i)
      <4> SUFFICES ASSUME NEW i \in 0..k
                   PROVE  g[i] = IF i = 0 THEN NothingRead(first) ELSE More(g[i - 1], i)
          OBVIOUS
      <4>1. CASE i = k
        <5>1. k - 1 \in 0..k /\ k - 1 # k /\ k # 0
            BY <2>5, <3>1
        <5>2. g[k - 1] = f[k - 1] /\ g[k] = More(f[k - 1], k)
            BY <3>1, <5>1
        <5> QED
            BY <4>1, <5>1, <5>2, Zenon
      <4>2. CASE i # k
        <5>1. i \in 0..(k - 1) /\ (i # 0 => i - 1 \in 0..k /\ i - 1 # k)
            BY <3>1, <4>2
        <5>2. g[i] = f[i] /\ (i # 0 => g[i - 1] = f[i - 1])
            BY <4>2, <5>1
        <5>3. f[i] = IF i = 0 THEN NothingRead(first) ELSE More(f[i - 1], i)
            BY <3>3, <5>1
        <5> QED
            BY <5>2, <5>3, Zenon
      <4> QED
          BY <4>1, <4>2
    <3>5. g = [i \in 0..k |-> g[i]]
        OBVIOUS
    <3> HIDE DEF g
    <3>6. UpTo(g, k)
        BY <3>4, <3>5, Zenon
    <3> QED
        BY <2>3, <3>6
  <2> QED
      BY <2>4, <2>5
<1>4. \E f : Whole(f)
  <2>1. n \in 0..n
      BY <1>2
  <2> QED
      BY <1>3, <2>1
<1> DEFINE f == CHOOSE f : Whole(f)
<1>5. Whole(f)
    BY <1>4, Zenon
<1>6. ReadFrames(data, first, count) = f[n]
    BY <1>1, Zenon
<1> HIDE DEF f
<1>7. 0 \in 0..n /\ \A k \in 1..n : k \in 0..n /\ k # 0
    BY <1>2
<1>8. f[0] = NothingRead(first)
    BY <1>5, <1>7
<1>9. \A k \in 1..n : f[k] = More(f[k - 1], k)
    BY <1>5, <1>7
<1> QED
    BY <1>6, <1>8, <1>9, Zenon DEF More, n, Reading

LEMMA ShowsParts ==
    ASSUME NEW S, NEW s \in Seq(S), NEW t \in Seq(S), NEW data, NEW i \in Nat,
           Shows(data, i, s \o t), Len(data) \in Nat
    PROVE  Shows(data, i, s) /\ Shows(data, i + Len(s), t)
<1> DEFINE m == Len(s)
           l == Len(t)
           n == Len(data)
           u == s \o t
<1>1. IsJoin(u, S, s, m, t, l)
    BY Concatenated
<1>2. \A j \in 1..Len(u) : i + j - 1 <= n => data[i + j - 1] = u[j]
    BY DEF Shows
<1>3. n \in Nat
    OBVIOUS
<1> HIDE DEF u, m, l, n
<1>4. /\ Len(u) = m + l /\ m \in Nat /\ l \in Nat
      /\ \A j \in 1..m : u[j] = s[j]
      /\ \A j \in 1..l : u[m + j] = t[j]
    BY <1>1, Zenon DEF IsJoin
<1>5. \A j \in 1..m : i + j - 1 <= n => data[i + j - 1] = s[j]
    BY <1>2, <1>4
<1>6. \A j \in 1..l : (i + m) + j - 1 <= n => data[(i + m) + j - 1] = t[j]
  <2> SUFFICES ASSUME NEW j \in 1..l, (i + m) + j - 1 <= n
               PROVE  data[(i + m) + j - 1] = t[j]
      OBVIOUS
  <2>1. m + j \in 1..Len(u) /\ i + (m + j) - 1 = (i + m) + j - 1
      BY <1>4
  <2>2. data[i + (m + j) - 1] = u[m + j]
    <3>1. i + (m + j) - 1 <= n
        BY <2>1, Zenon
    <3> QED
        BY <1>2, <2>1, <3>1, Zenon
  <2> QED
      BY <1>4, <2>1, <2>2, Zenon
<1> QED
    BY <1>5, <1>6, Zenon DEF Shows, m, l, n

\* What is written for the first k frames.
Written(B, frames) ==
    /\ B[0] = <<>>
    /\ \A k \in 1..Len(frames) : B[k] = B[k - 1] \o FrameBytes(frames[k])

LEMMA WrittenBytes ==
    ASSUME NEW frames \in Seq(SavedFrames), NEW B, Written(B, frames)
    PROVE  \A k \in 0..Len(frames) : B[k] \in Seq(UInt8)
<1> DEFINE c == Len(frames)
           T == {k \in 0..c : B[k] \notin Seq(UInt8)}
<1>1. c \in Nat /\ \A k \in 1..c : frames[k] \in SavedFrames
    BY ElementOfSeq
<1>2. B[0] = <<>> /\ \A k \in 1..c : B[k] = B[k - 1] \o FrameBytes(frames[k])
    BY DEF Written
<1> HIDE DEF c
<1>3. ASSUME T # {} PROVE FALSE
  <2>1. T \subseteq Nat
      BY <1>1
  <2>2. PICK k \in T : \A j \in T : k <= j
      BY <1>3, <2>1, LeastElement
  <2>3. k \in 0..c /\ B[k] \notin Seq(UInt8)
      BY <2>2
  <2>4. k # 0
      BY <1>2, <2>3, EmptySeq
  <2>5. k - 1 \in 0..c /\ ~(k <= k - 1) /\ k \in 1..c
      BY <1>1, <2>3, <2>4
  <2>6. B[k - 1] \in Seq(UInt8)
      BY <2>2, <2>5
  <2>7. FrameBytes(frames[k]) \in Seq(UInt8)
      BY <1>1, <2>5, FrameBytesAre DEF FrameLayout
  <2>8. B[k - 1] \o FrameBytes(frames[k]) \in Seq(UInt8)
      BY <2>6, <2>7, ConcatProperties, Zenon
  <2> QED
      BY <1>2, <2>3, <2>5, <2>8
<1> QED
    BY <1>3 DEF c

\* Data that show all frames show the first k, and then the next.
LEMMA ShowsFrames ==
    ASSUME NEW frames \in Seq(SavedFrames), NEW B, Written(B, frames),
           NEW data, Len(data) \in Nat, NEW i \in Nat, Shows(data, i, B[Len(frames)])
    PROVE  \A k \in 1..Len(frames) : Shows(data, i + Len(B[k - 1]), FrameBytes(frames[k]))
<1> DEFINE c == Len(frames)
           T == {d \in 0..c : ~Shows(data, i, B[c - d])}
<1>1. c \in Nat /\ \A k \in 1..c : frames[k] \in SavedFrames
    BY ElementOfSeq
<1>2. \A k \in 1..c : B[k] = B[k - 1] \o FrameBytes(frames[k])
    BY DEF Written
<1>3. \A k \in 0..c : B[k] \in Seq(UInt8)
    BY WrittenBytes
<1>4. Shows(data, i, B[c])
    OBVIOUS
<1> HIDE DEF c
<1>5. ASSUME NEW k \in 1..c, Shows(data, i, B[k])
      PROVE  Shows(data, i, B[k - 1]) /\ Shows(data, i + Len(B[k - 1]), FrameBytes(frames[k]))
  <2> DEFINE s == B[k - 1]
             t == FrameBytes(frames[k])
  <2>1. s \in Seq(UInt8)
    <3>1. k - 1 \in 0..c
        BY <1>1
    <3> QED
        BY <1>3, <3>1
  <2>2. t \in Seq(UInt8)
      BY <1>1, FrameBytesAre DEF FrameLayout
  <2>3. Shows(data, i, s \o t)
      BY <1>2, <1>5, Zenon
  <2> HIDE DEF s, t
  <2>4. Shows(data, i, s) /\ Shows(data, i + Len(s), t)
      BY <2>1, <2>2, <2>3, ShowsParts
  <2> QED
      BY <2>4 DEF s, t
<1>6. ASSUME T # {} PROVE FALSE
  <2>1. T \subseteq Nat
      BY <1>1
  <2>2. PICK d \in T : \A j \in T : d <= j
      BY <1>6, <2>1, LeastElement
  <2>3. d \in 0..c /\ ~Shows(data, i, B[c - d])
      BY <2>2
  <2>4. d # 0
    <3>1. c - 0 = c
        BY <1>1
    <3> QED
        BY <1>4, <2>3, <3>1, Zenon
  <2>5. d - 1 \in 0..c /\ ~(d <= d - 1)
      BY <1>1, <2>3, <2>4
  <2>6. Shows(data, i, B[c - (d - 1)])
      BY <2>2, <2>5
  <2> DEFINE k == c - (d - 1)
  <2>7. k \in 1..c /\ k - 1 = c - d
      BY <1>1, <2>3, <2>4
  <2>8. Shows(data, i, B[k])
      BY <2>6
  <2> HIDE DEF k
  <2> QED
      BY <1>5, <2>3, <2>7, <2>8, Zenon
<1>7. ASSUME NEW k \in 1..c PROVE Shows(data, i, B[k])
  <2>1. c - k \in 0..c /\ c - (c - k) = k
      BY <1>1
  <2> QED
      BY <1>6, <2>1
<1> QED
    BY <1>5, <1>7 DEF c

FrameCountsFit(f) == Len(f.locals) < Square /\ Len(f.routineStack) < Square

\* Frames are read back as they were written, or refused if the data end before them.
LEMMA ReadFramesIs ==
    ASSUME NEW frames \in Seq(SavedFrames), \A k \in 1..Len(frames) : FrameCountsFit(frames[k]),
           NEW data, NEW n \in Nat, Len(data) = n, NEW i \in Nat \ {0}, i <= n + 1,
           Shows(data, i, FramesBytes(frames))
    PROVE  LET all == FramesBytes(frames) IN
           /\ all \in Seq(UInt8)
           /\ ReadFrames(data, i, Len(frames))
                = IF i + Len(all) <= n + 1
                  THEN [ok |-> TRUE, frames |-> frames, next |-> i + Len(all)]
                  ELSE Unreadable
<1> DEFINE c == Len(frames)
<1>1. c \in Nat /\ \A k \in 1..c : frames[k] \in SavedFrames
    BY ElementOfSeq
<1>2. PICK B : /\ FramesBytes(frames) = B[c]
               /\ B[0] = <<>>
               /\ \A k \in 1..c : B[k] = B[k - 1] \o FrameBytes(frames[k])
    BY <1>1, FramesBytesUnfold
<1>3. PICK r : Reading(r, data, i, c)
    BY <1>1, ReadFramesUnfold
<1>4. Written(B, frames)
    BY <1>2 DEF Written
<1>5. \A k \in 0..c : B[k] \in Seq(UInt8)
    BY <1>4, WrittenBytes
<1>6. \A k \in 1..c : Shows(data, i + Len(B[k - 1]), FrameBytes(frames[k]))
  <2>1. i \in Nat /\ Len(data) \in Nat /\ Shows(data, i, B[c])
      BY <1>2
  <2> QED
      BY <1>4, <2>1, ShowsFrames
<1>7. frames \in Seq(SavedFrames) /\ c = Len(frames) /\ \A k \in 1..c : FrameCountsFit(frames[k])
    OBVIOUS
<1> HIDE DEF c
<1>8. \A k \in 0..c : Len(B[k]) \in Nat
  <2> SUFFICES ASSUME NEW k \in 0..c PROVE Len(B[k]) \in Nat
      OBVIOUS
  <2>1. B[k] \in Seq(UInt8)
      BY <1>5
  <2> QED
      BY <2>1
<1> DEFINE Read(k) == IF i + Len(B[k]) <= n + 1
                      THEN [ok |-> TRUE, frames |-> SubSeq(frames, 1, k),
                            next |-> i + Len(B[k])]
                      ELSE Unreadable
           T == {k \in 0..c : r[k] # Read(k)}
<1>9. r[0] = Read(0)
  <2>1. Len(B[0]) = 0 /\ i + 0 = i
      BY <1>2, EmptySeq
  <2>2. SubSeq(frames, 1, 0) = <<>>
      BY <1>7, SubSeqEmpty
  <2> QED
      BY <1>3, <2>1, <2>2, Zenon DEF NothingRead, Reading
<1>10. ASSUME NEW k \in 1..c, r[k - 1] = Read(k - 1) PROVE r[k] = Read(k)
  <2> DEFINE f == frames[k]
             b == FrameBytes(f)
             size == Len(b)
             m == Len(B[k - 1])
             place == i + m
  <2>1. f \in SavedFrames /\ FrameCountsFit(f) /\ k - 1 \in 0..c /\ k \in 0..c
      BY <1>1, <1>7
  <2>2. b \in Seq(UInt8) /\ size \in Nat
    <3>1. b \in Seq(UInt8)
        BY <2>1, FrameBytesAre DEF FrameLayout
    <3> QED
        BY <3>1
  <2>3. m \in Nat /\ Len(B[k]) = m + size
    <3>1. B[k] = B[k - 1] \o b /\ B[k - 1] \in Seq(UInt8)
        BY <1>2, <1>5, <2>1
    <3> QED
        BY <1>8, <2>1, <2>2, <3>1, ConcatProperties
  <2>4. r[k] = OneMore(data, r[k - 1])
      BY <1>3 DEF Reading
  <2>5. Shows(data, place, b)
      BY <1>6
  <2>6. SubSeq(frames, 1, k) = Append(SubSeq(frames, 1, k - 1), f)
    <3>1. 1 <= k /\ k <= Len(frames) /\ k \in Nat
        BY <1>1, <1>7
    <3> QED
        BY <1>7, <3>1
  <2> HIDE DEF f, b, size, m
  <2>7. CASE i + m <= n + 1
    <3>1. /\ place \in Nat \ {0}
          /\ place + size <= n + 1 <=> i + Len(B[k]) <= n + 1
          /\ place + size = i + Len(B[k])
        BY <2>2, <2>3
    <3> HIDE DEF place
    <3>2. ReadFrame(data, place) = IF place + size <= n + 1
                                   THEN [ok |-> TRUE, frame |-> f, next |-> place + size]
                                   ELSE Unreadable
      <4>1. Shows(data, place, FrameBytes(f)) /\ size = Len(FrameBytes(f))
            /\ Len(f.locals) < Square /\ Len(f.routineStack) < Square
          BY <2>1, <2>5 DEF b, size, FrameCountsFit
      <4> QED
          BY <2>1, <3>1, <4>1, ReadFrameIs
    <3>3. r[k - 1] = [ok |-> TRUE, frames |-> SubSeq(frames, 1, k - 1), next |-> place]
        BY <1>10, <2>7, Zenon DEF place, m
    <3>4. CASE place + size <= n + 1
      <4>1. r[k] = [ok |-> TRUE, frames |-> Append(SubSeq(frames, 1, k - 1), f),
                    next |-> place + size]
        <5> DEFINE one == ReadFrame(data, place)
        <5>1. one.ok /\ one.frame = f /\ one.next = place + size
            BY <3>2, <3>4
        <5>2. /\ r[k - 1].ok /\ r[k - 1].next = place
              /\ r[k - 1].frames = SubSeq(frames, 1, k - 1)
            BY <3>3
        <5> QED
            BY <2>4, <5>1, <5>2, Zenon DEF OneMore
      <4> QED
          BY <2>6, <3>1, <3>4, <4>1, Zenon
    <3>5. CASE ~(place + size <= n + 1)
      <4>1. r[k] = Unreadable
          BY <2>4, <3>2, <3>3, <3>5 DEF OneMore, Unreadable
      <4> QED
          BY <3>1, <3>5, <4>1, Zenon
    <3> QED
        BY <3>4, <3>5
  <2>8. CASE ~(i + m <= n + 1)
    <3>1. r[k - 1] = Unreadable
        BY <1>10, <2>8, Zenon DEF m
    <3>2. r[k] = Unreadable
        BY <2>4, <3>1 DEF OneMore, Unreadable
    <3>3. ~(i + Len(B[k]) <= n + 1)
        BY <2>2, <2>3, <2>8
    <3> QED
        BY <3>2, <3>3, Zenon
  <2> QED
      BY <2>7, <2>8
<1> HIDE DEF Read
<1>11. ASSUME T # {} PROVE FALSE
  <2>1. T \subseteq Nat
      BY <1>1
  <2>2. PICK k \in T : \A j \in T : k <= j
      BY <1>11, <2>1, LeastElement
  <2>3. k \in 0..c /\ r[k] # Read(k)
      BY <2>2
  <2>4. k # 0
      BY <1>9, <2>3
  <2>5. k - 1 \in 0..c /\ ~(k <= k - 1) /\ k \in 1..c
      BY <1>1, <2>3, <2>4
  <2>6. r[k - 1] = Read(k - 1)
      BY <2>2, <2>5
  <2> QED
      BY <1>10, <2>3, <2>5, <2>6
<1>12. r[c] = Read(c) /\ c \in 0..c
    BY <1>1, <1>11
<1>13. SubSeq(frames, 1, c) = frames
    BY <1>7, SubSeqFull
<1> QED
    BY <1>2, <1>3, <1>5, <1>12, <1>13, Zenon DEF c, Read, Reading

-----------------------------------------------------------------------------
(* Reading a file back.                                                     *)

StateCountsFit(s) ==
    Len(s.frames) < Square /\ \A k \in 1..Len(s.frames) : FrameCountsFit(s.frames[k])

LEMMA StateFields ==
    ASSUME NEW s \in SavedStates
    PROVE  /\ s.staticMemoryBase \in UInt16 /\ s.staticMemoryBase \in Nat
           /\ s.dynamicMemory \in Seq(UInt8) /\ Len(s.dynamicMemory) = s.staticMemoryBase
           /\ s.frames \in Seq(SavedFrames) /\ Len(s.frames) \in Nat
           /\ s = [staticMemoryBase |-> s.staticMemoryBase, dynamicMemory |-> s.dynamicMemory,
                   frames |-> s.frames]
<1>1. /\ s.staticMemoryBase \in UInt16
      /\ s.dynamicMemory \in Seq(UInt8) /\ Len(s.dynamicMemory) = s.staticMemoryBase
      /\ s.frames \in Seq(SavedFrames)
      /\ s = [staticMemoryBase |-> s.staticMemoryBase, dynamicMemory |-> s.dynamicMemory,
              frames |-> s.frames]
    BY DEF SavedStates
<1>2. s.staticMemoryBase \in Nat
    BY <1>1, ShortNumber
<1>3. Len(s.frames) \in Nat
    BY <1>1
<1> QED
    BY <1>1, <1>2, <1>3, Zenon

\* A file is "GOZM" and bytes.
Symbols == UInt8 \cup {Magic}

LEMMA BytesAreSymbols ==
    ASSUME NEW b \in Seq(UInt8)
    PROVE  b \in Seq(Symbols)
BY DEF Symbols

LEMMA FramesBytesAre ==
    ASSUME NEW frames \in Seq(SavedFrames)
    PROVE  FramesBytes(frames) \in Seq(UInt8)
<1>1. Len(frames) \in Nat
    OBVIOUS
<1>2. PICK B : /\ FramesBytes(frames) = B[Len(frames)]
               /\ B[0] = <<>>
               /\ \A k \in 1..Len(frames) : B[k] = B[k - 1] \o FrameBytes(frames[k])
    BY <1>1, FramesBytesUnfold
<1>3. \A k \in 0..Len(frames) : B[k] \in Seq(UInt8)
    BY <1>2, WrittenBytes DEF Written
<1>4. Len(frames) \in 0..Len(frames)
    BY <1>1
<1> QED
    BY <1>2, <1>3, <1>4, Zenon

\* The parts of a file, and what data show that start like it.
LEMMA SerializeIs ==
    ASSUME NEW s \in SavedStates
    PROVE  LET base == s.staticMemoryBase
               rest == FramesBytes(s.frames)
               file == Serialize(s)
           IN /\ file \in Seq(Symbols) /\ Len(file) = 5 + base + Len(rest)
              /\ rest \in Seq(UInt8)
              /\ file[1] = Magic
              /\ \A k \in 2..Len(file) : file[k] \in UInt8
              /\ \A data : Len(data) \in Nat /\ Shows(data, 1, file) =>
                   /\ Shows(data, 1, <<Magic>>)
                   /\ Shows(data, 2, TwoBytes(base))
                   /\ Shows(data, 4, s.dynamicMemory)
                   /\ Shows(data, 4 + base, TwoBytes(Len(s.frames)))
                   /\ Shows(data, 6 + base, rest)
<1> DEFINE base == s.staticMemoryBase
           count == Len(s.frames)
           a == <<Magic>>
           b == TwoBytes(base)
           c == s.dynamicMemory
           d == TwoBytes(count)
           e == FramesBytes(s.frames)
           ab == a \o b
           abc == ab \o c
           abcd == abc \o d
           all == abcd \o e
<1>1. a \in Seq(Symbols) /\ Len(a) = 1 /\ a[1] = Magic
    BY DEF Symbols
<1>2. base \in Nat /\ b \in Seq(UInt8) /\ Len(b) = 2
    BY StateFields, TwoBytesAre
<1>3. c \in Seq(UInt8) /\ Len(c) = base
    BY StateFields
<1>4. count \in Nat /\ d \in Seq(UInt8) /\ Len(d) = 2
    BY StateFields, TwoBytesAre
<1>5. e \in Seq(UInt8)
    BY StateFields, FramesBytesAre
<1>6. Serialize(s) = all
    BY DEF Serialize
<1> HIDE DEF base, count, a, b, c, d, e
<1> DEFINE l == Len(e)
<1>7. /\ b \in Seq(Symbols) /\ c \in Seq(Symbols) /\ d \in Seq(Symbols) /\ e \in Seq(Symbols)
      /\ l \in Nat
    BY <1>2, <1>3, <1>4, <1>5, BytesAreSymbols
<1>8. IsJoin(ab, Symbols, a, 1, b, 2)
    BY <1>1, <1>2, <1>7, Joined, Zenon
<1>9. ab \in Seq(Symbols) /\ Len(ab) = 3
    BY <1>8 DEF IsJoin
<1>10. IsJoin(abc, Symbols, ab, 3, c, base)
  <2> HIDE DEF ab
  <2> QED
      BY <1>3, <1>7, <1>9, Joined, Zenon
<1>11. abc \in Seq(Symbols) /\ Len(abc) = 3 + base
    BY <1>10, Zenon DEF IsJoin
<1>12. IsJoin(abcd, Symbols, abc, 3 + base, d, 2)
  <2> HIDE DEF abc
  <2> QED
      BY <1>4, <1>7, <1>11, Joined, Zenon
<1>13. abcd \in Seq(Symbols) /\ Len(abcd) = 5 + base
  <2>1. 3 + base + 2 = 5 + base
      BY <1>2
  <2> QED
      BY <1>12, <2>1, Zenon DEF IsJoin
<1>14. IsJoin(all, Symbols, abcd, 5 + base, e, l)
  <2> HIDE DEF abcd
  <2> QED
      BY <1>7, <1>13, Joined, Zenon
<1>15. all \in Seq(Symbols) /\ Len(all) = 5 + base + l
    BY <1>14, Zenon DEF IsJoin
<1>16. ASSUME NEW data, Len(data) \in Nat, Shows(data, 1, all)
       PROVE  /\ Shows(data, 1, a) /\ Shows(data, 2, b) /\ Shows(data, 4, c)
              /\ Shows(data, 4 + base, d) /\ Shows(data, 6 + base, e)
  <2>1. Shows(data, 1, abcd) /\ Shows(data, 1 + (5 + base), e)
    <3> HIDE DEF abcd
    <3>1. Shows(data, 1, abcd \o e)
        BY <1>16
    <3>2. Shows(data, 1, abcd) /\ Shows(data, 1 + Len(abcd), e)
        BY <1>7, <1>13, <1>16, <3>1, ShowsParts
    <3> QED
        BY <1>13, <3>2, Zenon
  <2>2. Shows(data, 1, abc) /\ Shows(data, 1 + (3 + base), d)
    <3> HIDE DEF abc
    <3>1. Shows(data, 1, abc \o d)
        BY <2>1
    <3>2. Shows(data, 1, abc) /\ Shows(data, 1 + Len(abc), d)
        BY <1>7, <1>11, <1>16, <3>1, ShowsParts
    <3> QED
        BY <1>11, <3>2, Zenon
  <2>3. Shows(data, 1, ab) /\ Shows(data, 1 + 3, c)
    <3> HIDE DEF ab
    <3>1. Shows(data, 1, ab \o c)
        BY <2>2
    <3>2. Shows(data, 1, ab) /\ Shows(data, 1 + Len(ab), c)
        BY <1>7, <1>9, <1>16, <3>1, ShowsParts
    <3> QED
        BY <1>9, <3>2, Zenon
  <2>4. Shows(data, 1, a) /\ Shows(data, 1 + 1, b)
    <3>1. Shows(data, 1, a) /\ Shows(data, 1 + Len(a), b)
        BY <1>1, <1>7, <1>16, <2>3, ShowsParts
    <3> QED
        BY <1>1, <3>1, Zenon
  <2>5. 1 + (5 + base) = 6 + base /\ 1 + (3 + base) = 4 + base /\ 1 + 3 = 4 /\ 1 + 1 = 2
      BY <1>2
  <2> QED
      BY <2>1, <2>2, <2>3, <2>4, <2>5, Zenon
<1>17. all[1] = Magic /\ \A k \in 2..Len(all) : all[k] \in UInt8
  <2> HIDE DEF all
  <2>1. /\ \A k \in 1..(5 + base) : all[k] = abcd[k]
        /\ \A k \in 1..l : all[5 + base + k] = e[k]
      BY <1>14, Zenon DEF IsJoin
  <2> HIDE DEF abcd
  <2>2. /\ \A k \in 1..(3 + base) : abcd[k] = abc[k]
        /\ \A k \in 1..2 : abcd[3 + base + k] = d[k]
      BY <1>12, Zenon DEF IsJoin
  <2> HIDE DEF abc
  <2>3. /\ \A k \in 1..3 : abc[k] = ab[k]
        /\ \A k \in 1..base : abc[3 + k] = c[k]
      BY <1>10, Zenon DEF IsJoin
  <2> HIDE DEF ab
  <2>4. /\ \A k \in 1..1 : ab[k] = a[k]
        /\ \A k \in 1..2 : ab[1 + k] = b[k]
      BY <1>8, Zenon DEF IsJoin
  <2>5. /\ \A k \in 1..2 : b[k] \in UInt8 /\ d[k] \in UInt8
        /\ \A k \in 1..base : c[k] \in UInt8
        /\ \A k \in 1..l : e[k] \in UInt8
      BY <1>2, <1>3, <1>4, <1>5, ElementOfSeq
  <2> HIDE DEF l
  <2>6. all[1] = Magic
      BY <1>1, <1>2, <2>1, <2>2, <2>3, <2>4
  <2>7. ASSUME NEW k \in 2..Len(all) PROVE all[k] \in UInt8
    <3>1. CASE k \in 2..3
      <4>1. k - 1 \in 1..2 /\ 1 + (k - 1) = k /\ k \in 1..3 /\ k \in 1..(3 + base)
            /\ k \in 1..(5 + base)
          BY <1>2, <3>1
      <4> QED
          BY <2>1, <2>2, <2>3, <2>4, <2>5, <4>1
    <3>2. CASE k \in 4..(3 + base)
      <4>1. k - 3 \in 1..base /\ 3 + (k - 3) = k /\ k \in 1..(3 + base) /\ k \in 1..(5 + base)
          BY <1>2, <3>2
      <4> QED
          BY <2>1, <2>2, <2>3, <2>5, <4>1
    <3>3. CASE k \in (4 + base)..(5 + base)
      <4>1. /\ k - (3 + base) \in 1..2 /\ 3 + base + (k - (3 + base)) = k
            /\ k \in 1..(5 + base)
          BY <1>2, <3>3
      <4> QED
          BY <2>1, <2>2, <2>5, <4>1, Zenon
    <3>4. CASE k \in (6 + base)..(5 + base + l)
      <4>1. k - (5 + base) \in 1..l /\ 5 + base + (k - (5 + base)) = k
          BY <1>2, <1>7, <3>4
      <4> QED
          BY <2>1, <2>5, <4>1, Zenon
    <3>5. k \in 2..(5 + base + l)
        BY <1>15, <2>7 DEF l
    <3> QED
        BY <1>2, <1>7, <3>1, <3>2, <3>3, <3>4, <3>5
  <2> QED
      BY <2>6, <2>7
<1> HIDE DEF all, l
<1> QED
    BY <1>5, <1>6, <1>15, <1>16, <1>17, Zenon DEF base, count, a, b, c, d, e, l

\* What deserializeSaveState makes of a save: the state that was saved, whatever its
\* memory and call stack; and nothing, if the save lost its end, at whatever place.
THEOREM SavesComeBack ==
    ASSUME NEW s \in SavedStates, StateCountsFit(s),
           NEW data, NEW n \in Nat, Len(data) = n, n <= Len(Serialize(s)),
           Shows(data, 1, Serialize(s))
    PROVE  Deserialize(data) = IF n = Len(Serialize(s)) THEN [ok |-> TRUE, state |-> s]
                               ELSE Unreadable
<1> DEFINE base == s.staticMemoryBase
           frames == s.frames
           rest == FramesBytes(frames)
           file == Serialize(s)
           start == TwoByteNumber(data, 2)
           count == TwoByteNumber(data, 4 + start)
           read == ReadFrames(data, 6 + start, count)
<1>1. /\ base \in UInt16 /\ base \in Nat
      /\ s.dynamicMemory \in Seq(UInt8) /\ Len(s.dynamicMemory) = base
      /\ frames \in Seq(SavedFrames) /\ Len(frames) \in Nat
      /\ s = [staticMemoryBase |-> base, dynamicMemory |-> s.dynamicMemory, frames |-> frames]
    BY StateFields, Zenon
<1>2. rest \in Seq(UInt8) /\ Len(file) = 5 + base + Len(rest)
    BY SerializeIs, Zenon
<1>3. /\ Shows(data, 1, <<Magic>>) /\ Shows(data, 2, TwoBytes(base))
      /\ Shows(data, 4, s.dynamicMemory) /\ Shows(data, 4 + base, TwoBytes(Len(frames)))
      /\ Shows(data, 6 + base, rest)
  <2>1. Len(data) \in Nat /\ Shows(data, 1, file)
      OBVIOUS
  <2> QED
      BY <2>1, SerializeIs, Zenon
<1>4. Deserialize(data)
        = IF Len(data) < 5 \/ data[1] # Magic \/ Len(data) < 5 + start THEN Unreadable
          ELSE IF ~read.ok THEN Unreadable
          ELSE [ok |-> TRUE,
                state |-> [staticMemoryBase |-> start, dynamicMemory |-> SubSeq(data, 4, 3 + start),
                           frames |-> read.frames]]
    BY Zenon DEF Deserialize
<1>5. /\ Len(frames) < Square
      /\ \A k \in 1..Len(frames) : FrameCountsFit(frames[k])
    BY DEF StateCountsFit
<1>6. Len(rest) \in Nat
    BY <1>2
<1>7. n <= Len(file)
    OBVIOUS
<1> DEFINE l == Len(rest)
<1> HIDE DEF base, frames, rest, file, start, count, read
<1>8. n <= 5 + base + l /\ l \in Nat /\ base \in Nat
    BY <1>1, <1>2, <1>6, <1>7
<1> HIDE DEF l
<1>9. CASE n < 5
  <2>1. Deserialize(data) = Unreadable
      BY <1>4, <1>9
  <2>2. n # Len(file)
      BY <1>2, <1>8, <1>9 DEF l
  <2> QED
      BY <2>1, <2>2, Zenon DEF file
<1>10. ASSUME n >= 5 PROVE start = base
  <2> DEFINE b == TwoBytes(base)
  <2>1. Len(b) = 2 /\ Base * b[1] + b[2] = base % Square
      BY <1>1, TwoBytesAre
  <2>2. base % Square = base
      BY <1>1, ShortNumber
  <2>3. \A j \in 1..2 : 2 + j - 1 <= n => data[2 + j - 1] = b[j]
      BY <1>3, <2>1, Zenon DEF Shows
  <2> HIDE DEF b
  <2>4. data[2] = b[1] /\ data[2 + 1] = b[2]
      BY <1>10, <2>3
  <2> QED
      BY <2>1, <2>2, <2>4, Zenon DEF start, TwoByteNumber
<1>11. CASE n >= 5 /\ n < 5 + base
  <2>1. Deserialize(data) = Unreadable
      BY <1>4, <1>10, <1>11
  <2>2. n # Len(file)
      BY <1>2, <1>8, <1>11 DEF l
  <2> QED
      BY <2>1, <2>2, Zenon DEF file
<1>12. CASE n >= 5 /\ n >= 5 + base
  <2>1. start = base
      BY <1>10, <1>12
  <2>2. count = Len(frames)
    <3> DEFINE b == TwoBytes(Len(frames))
    <3>1. Len(b) = 2 /\ Base * b[1] + b[2] = Len(frames) % Square
        BY <1>1, TwoBytesAre
    <3>2. Len(frames) % Square = Len(frames)
      <4>1. Len(frames) \in 0..(Square - 1)
          BY <1>1, <1>5, BaseFacts
      <4> DEFINE c == Len(frames)
      <4>2. c \in 0..(Square - 1)
          BY <4>1
      <4> HIDE DEF c
      <4>3. c % Square = c
          BY <4>2, BaseFacts, SmallNumber
      <4> QED
          BY <4>3 DEF c
    <3>3. \A j \in 1..2 : (4 + base) + j - 1 <= n => data[(4 + base) + j - 1] = b[j]
        BY <1>3, <3>1, Zenon DEF Shows
    <3> HIDE DEF b
    <3>4. /\ 1 \in 1..2 /\ 2 \in 1..2
          /\ (4 + base) + 1 - 1 <= n /\ (4 + base) + 1 - 1 = 4 + base
          /\ (4 + base) + 2 - 1 <= n /\ (4 + base) + 2 - 1 = (4 + base) + 1
        BY <1>8, <1>12
    <3>5. data[4 + base] = b[1] /\ data[(4 + base) + 1] = b[2]
        BY <3>3, <3>4
    <3> QED
        BY <2>1, <3>1, <3>2, <3>5, Zenon DEF count, TwoByteNumber
  <2>3. data[1] = Magic
    <3>1. \A j \in 1..Len(<<Magic>>) : 1 + j - 1 <= n => data[1 + j - 1] = <<Magic>>[j]
        BY <1>3 DEF Shows
    <3>2. Len(<<Magic>>) = 1 /\ <<Magic>>[1] = Magic
        OBVIOUS
    <3> QED
        BY <1>12, <3>1, <3>2
  <2>4. read = IF (6 + base) + l <= n + 1
               THEN [ok |-> TRUE, frames |-> frames, next |-> (6 + base) + l]
               ELSE Unreadable
    <3>1. 6 + base \in Nat \ {0} /\ 6 + base <= n + 1
        BY <1>8, <1>12
    <3>2. /\ Shows(data, 6 + base, FramesBytes(frames)) /\ frames \in Seq(SavedFrames)
          /\ \A k \in 1..Len(frames) : FrameCountsFit(frames[k])
        BY <1>1, <1>3, <1>5 DEF rest
    <3>3. ReadFrames(data, 6 + base, Len(frames))
            = IF (6 + base) + Len(FramesBytes(frames)) <= n + 1
              THEN [ok |-> TRUE, frames |-> frames,
                    next |-> (6 + base) + Len(FramesBytes(frames))]
              ELSE Unreadable
        BY <3>1, <3>2, ReadFramesIs
    <3> QED
        BY <2>1, <2>2, <3>3, Zenon DEF read, rest, l
  <2>5. CASE n = 5 + base + l
    <3>1. read.ok /\ read.frames = frames
      <4>1. (6 + base) + l <= n + 1
          BY <1>8, <2>5
      <4> QED
          BY <2>4, <4>1
    <3>2. SubSeq(data, 4, 3 + base) = s.dynamicMemory
      <4>1. \A j \in 1..base : 4 + j - 1 <= n => data[4 + j - 1] = s.dynamicMemory[j]
          BY <1>1, <1>3, Zenon DEF Shows
      <4>2. SubSeq(data, 4, 3 + base) = [j \in 1..base |-> data[4 + j - 1]]
          BY <1>8
      <4>3. s.dynamicMemory = [j \in 1..base |-> s.dynamicMemory[j]]
          BY <1>1
      <4>4. \A j \in 1..base : 4 + j - 1 <= n
          BY <1>8, <2>5
      <4> QED
          BY <4>1, <4>2, <4>3, <4>4
    <3>3. Deserialize(data)
            = [ok |-> TRUE,
               state |-> [staticMemoryBase |-> base, dynamicMemory |-> s.dynamicMemory,
                          frames |-> frames]]
      <4>1. ~(Len(data) < 5 \/ data[1] # Magic \/ Len(data) < 5 + start)
          BY <1>8, <1>12, <2>1, <2>3
      <4> QED
          BY <1>4, <2>1, <3>1, <3>2, <4>1, Zenon
    <3>4. n = Len(file)
        BY <1>2, <2>5, Zenon DEF l
    <3> QED
        BY <1>1, <3>3, <3>4, Zenon DEF file
  <2>6. CASE n # 5 + base + l
    <3>1. ~((6 + base) + l <= n + 1)
        BY <1>8, <2>6
    <3>2. ~read.ok
        BY <2>4, <3>1 DEF Unreadable
    <3>3. Deserialize(data) = Unreadable
        BY <1>4, <3>2, Zenon
    <3>4. n # Len(file)
        BY <1>2, <2>6, Zenon DEF l
    <3> QED
        BY <3>3, <3>4, Zenon DEF file
  <2> QED
      BY <2>5, <2>6
<1>13. n < 5 \/ (n >= 5 /\ n < 5 + base) \/ (n >= 5 /\ n >= 5 + base)
    BY <1>8
<1> QED
    BY <1>9, <1>11, <1>12, <1>13

-----------------------------------------------------------------------------
(* What can be read from any file.                                          *)

\* Data of bytes, after the first place.
ByteData(data) == Len(data) \in Nat /\ \A k \in 2..Len(data) : data[k] \in UInt8

LEMMA TwoByteValue ==
    ASSUME NEW data, ByteData(data), NEW i \in Nat, 2 <= i, i + 1 <= Len(data)
    PROVE  TwoByteNumber(data, i) \in UInt16 /\ TwoByteNumber(data, i) \in Nat
<1> DEFINE x == data[i]
           y == data[i + 1]
<1>1. x \in UInt8 /\ y \in UInt8
  <2>1. i \in 2..Len(data) /\ i + 1 \in 2..Len(data)
      BY DEF ByteData
  <2> QED
      BY <2>1 DEF ByteData
<1>2. TwoByteNumber(data, i) = Base * x + y
    BY DEF TwoByteNumber
<1> HIDE DEF x, y
<1>3. Base \in Nat /\ x \in Nat /\ x <= Base - 1 /\ y \in Nat /\ y <= Base - 1 /\ Base - 1 \in Nat
    BY <1>1, BaseFacts DEF UInt8
<1>4. Base * x <= Base * (Base - 1) /\ Base * x \in Nat /\ Base * (Base - 1) = Square - Base
      /\ Square \in Nat
    BY <1>3, BaseFacts, SMT
<1>5. Base * x + y \in Nat /\ Base * x + y <= Square - 1
    BY <1>3, <1>4
<1> DEFINE v == Base * x + y
<1> HIDE DEF v
<1>6. v \in Nat /\ v <= Square - 1 => v \in UInt16
    BY <1>4 DEF UInt16
<1> QED
    BY <1>2, <1>5, <1>6 DEF v

LEMMA FourByteValue ==
    ASSUME NEW data, ByteData(data), NEW i \in Nat, 2 <= i, i + 3 <= Len(data)
    PROVE  FourByteNumber(data, i) \in UInt32
<1> DEFINE x == TwoByteNumber(data, i)
           y == TwoByteNumber(data, i + 2)
<1>1. x \in UInt16 /\ y \in UInt16
  <2>1. Len(data) \in Nat
      BY DEF ByteData
  <2>2. i + 1 <= Len(data) /\ i + 2 \in Nat /\ 2 <= i + 2 /\ (i + 2) + 1 <= Len(data)
      BY <2>1
  <2> QED
      BY <2>2, TwoByteValue
<1>2. FourByteNumber(data, i) = Square * x + y
    BY DEF FourByteNumber
<1> HIDE DEF x, y
<1>3. Square \in Nat /\ x \in Nat /\ x <= Square - 1 /\ y \in Nat /\ y <= Square - 1
      /\ Square - 1 \in Nat
    BY <1>1, BaseFacts DEF UInt16
<1>4. /\ Square * x <= Square * (Square - 1) /\ Square * x \in Nat
      /\ Square * (Square - 1) = Square * Square - Square
      /\ Square * Square \in Nat
    BY <1>3, SMT
<1> DEFINE q == Square * Square
           p == Square * x
<1>5. q \in Nat /\ p \in Nat /\ p <= q - Square
    BY <1>3, <1>4
<1> HIDE DEF p, q
<1>6. p + y \in 0..(q - 1)
    BY <1>3, <1>5
<1> QED
    BY <1>2, <1>6 DEF UInt32, p, q

LEMMA NumbersValue ==
    ASSUME NEW data, ByteData(data), NEW i \in Nat, 2 <= i, NEW count \in Nat,
           i + 2 * count - 1 <= Len(data)
    PROVE  Numbers(data, i, count) \in Seq(UInt16)
<1>1. ASSUME NEW k \in 1..count PROVE TwoByteNumber(data, i + 2 * (k - 1)) \in UInt16
  <2> DEFINE p == i + 2 * (k - 1)
  <2>1. Len(data) \in Nat
      BY DEF ByteData
  <2>2. p \in Nat /\ 2 <= p /\ p + 1 <= Len(data)
      BY <2>1
  <2> HIDE DEF p
  <2>3. TwoByteNumber(data, p) \in UInt16
      BY <2>2, TwoByteValue
  <2> QED
      BY <2>3 DEF p
<1>2. Numbers(data, i, count) \in [1..count -> UInt16]
    BY <1>1 DEF Numbers
<1> QED
    BY <1>2

LEMMA ReadFrameValue ==
    ASSUME NEW data, ByteData(data), NEW i \in Nat, 2 <= i, ReadFrame(data, i).ok
    PROVE  /\ ReadFrame(data, i).frame \in SavedFrames
           /\ ReadFrame(data, i).next \in Nat /\ 2 <= ReadFrame(data, i).next
<1> DEFINE n == Len(data)
           count == TwoByteNumber(data, i + 11)
           j == i + 13 + 2 * count
           more == TwoByteNumber(data, j)
           whole == [pc |-> FourByteNumber(data, i),
                     framePointer |-> FourByteNumber(data, i + 4),
                     routineType |-> data[i + 8],
                     numValuesPassed |-> TwoByteNumber(data, i + 9),
                     locals |-> Numbers(data, i + 13, count),
                     routineStack |-> Numbers(data, j + 2, more)]
<1>1. ReadFrame(data, i)
        = IF i + 12 > n \/ j - 1 > n \/ j + 1 > n \/ j + 1 + 2 * more > n THEN Unreadable
          ELSE [ok |-> TRUE, frame |-> whole, next |-> j + 2 + 2 * more]
    BY Zenon DEF ReadFrame
<1>2. n \in Nat /\ \A k \in 2..n : data[k] \in UInt8
    BY DEF ByteData
<1> HIDE DEF n, count, more, whole
<1>3. ~(i + 12 > n \/ j - 1 > n \/ j + 1 > n \/ j + 1 + 2 * more > n)
  <2>1. ~Unreadable.ok
      BY DEF Unreadable
  <2> QED
      BY <1>1, <2>1, Zenon
<1>4. ReadFrame(data, i) = [ok |-> TRUE, frame |-> whole, next |-> j + 2 + 2 * more]
    BY <1>1, <1>3, Zenon
<1>5. i + 12 <= n
    BY <1>2, <1>3
<1>6. count \in Nat
  <2>1. i + 11 \in Nat /\ 2 <= i + 11 /\ (i + 11) + 1 <= n
      BY <1>2, <1>5
  <2> QED
      BY <2>1, TwoByteValue DEF count, n
<1>7. j \in Nat /\ 2 <= j /\ j + 1 <= n
    BY <1>2, <1>3, <1>6
<1>8. more \in Nat
  <2> HIDE DEF j
  <2> QED
      BY <1>7, TwoByteValue DEF more, n
<1>9. j + 1 + 2 * more <= n
    BY <1>2, <1>3, <1>7, <1>8
<1>10. FourByteNumber(data, i) \in UInt32 /\ FourByteNumber(data, i + 4) \in UInt32
  <2>1. i + 3 <= n /\ i + 4 \in Nat /\ 2 <= i + 4 /\ (i + 4) + 3 <= n
      BY <1>2, <1>5
  <2> QED
      BY <2>1, FourByteValue DEF n
<1>11. data[i + 8] \in UInt8 /\ TwoByteNumber(data, i + 9) \in UInt16
  <2>1. i + 8 \in 2..n /\ i + 9 \in Nat /\ 2 <= i + 9 /\ (i + 9) + 1 <= n
      BY <1>2, <1>5
  <2>2. data[i + 8] \in UInt8
      BY <1>2, <2>1
  <2> QED
      BY <2>1, <2>2, TwoByteValue DEF n
<1>12. Numbers(data, i + 13, count) \in Seq(UInt16)
  <2>1. i + 13 \in Nat /\ 2 <= i + 13 /\ (i + 13) + 2 * count - 1 <= n
      BY <1>2, <1>6, <1>7
  <2> QED
      BY <1>6, <2>1, NumbersValue DEF n
<1>13. Numbers(data, j + 2, more) \in Seq(UInt16)
  <2> DEFINE p == j + 2
  <2>1. p \in Nat /\ 2 <= p /\ p + 2 * more - 1 <= n
      BY <1>2, <1>7, <1>8, <1>9
  <2> HIDE DEF p
  <2>2. Numbers(data, p, more) \in Seq(UInt16)
      BY <1>8, <2>1, NumbersValue DEF n
  <2> QED
      BY <2>2 DEF p
<1>14. whole \in SavedFrames
    BY <1>10, <1>11, <1>12, <1>13 DEF whole, SavedFrames
<1>15. j + 2 + 2 * more \in Nat /\ 2 <= j + 2 + 2 * more
    BY <1>7, <1>8
<1> HIDE DEF j
<1> QED
    BY <1>4, <1>14, <1>15

\* What was read without an error.
Sound(read) ==
    read.ok => read.frames \in Seq(SavedFrames) /\ read.next \in Nat /\ 2 <= read.next

LEMMA ReadFramesValue ==
    ASSUME NEW data, ByteData(data), NEW first \in Nat, 2 <= first, NEW count \in Nat
    PROVE  Sound(ReadFrames(data, first, count))
<1>1. PICK r : Reading(r, data, first, count)
    BY ReadFramesUnfold
<1>2. /\ ReadFrames(data, first, count) = r[count]
      /\ r[0] = NothingRead(first)
      /\ \A k \in 1..count : r[k] = OneMore(data, r[k - 1])
    BY <1>1, Zenon DEF Reading
<1> DEFINE T == {k \in 0..count : ~Sound(r[k])}
<1>3. Sound(r[0])
    BY <1>2, EmptySeq DEF NothingRead, Sound
<1>4. ASSUME NEW k \in 1..count, Sound(r[k - 1]) PROVE Sound(r[k])
  <2> DEFINE before == r[k - 1]
             one == ReadFrame(data, before.next)
  <2>1. r[k] = OneMore(data, before)
      BY <1>2
  <2>2. Sound(before)
      BY <1>4
  <2> HIDE DEF before
  <2>3. CASE ~before.ok \/ ~one.ok
    <3>1. r[k] = Unreadable
        BY <2>1, <2>3, Zenon DEF OneMore
    <3> QED
        BY <3>1 DEF Unreadable, Sound
  <2>4. CASE before.ok /\ one.ok
    <3>1. before.frames \in Seq(SavedFrames) /\ before.next \in Nat /\ 2 <= before.next
        BY <2>2, <2>4 DEF Sound
    <3>2. one.frame \in SavedFrames /\ one.next \in Nat /\ 2 <= one.next
        BY <2>4, <3>1, ReadFrameValue
    <3>3. r[k] = [ok |-> TRUE, frames |-> Append(before.frames, one.frame), next |-> one.next]
        BY <2>1, <2>4, Zenon DEF OneMore
    <3> HIDE DEF one
    <3>4. Append(before.frames, one.frame) \in Seq(SavedFrames)
        BY <3>1, <3>2, AppendProperties, Zenon
    <3> QED
        BY <3>2, <3>3, <3>4 DEF Sound
  <2> QED
      BY <2>3, <2>4
<1>5. ASSUME T # {} PROVE FALSE
  <2>1. T \subseteq Nat
      OBVIOUS
  <2>2. PICK k \in T : \A j \in T : k <= j
      BY <1>5, <2>1, LeastElement
  <2>3. k \in 0..count /\ ~Sound(r[k])
      BY <2>2
  <2>4. k # 0
      BY <1>3, <2>3
  <2>5. k - 1 \in 0..count /\ ~(k <= k - 1) /\ k \in 1..count
      BY <2>3, <2>4
  <2>6. Sound(r[k - 1])
      BY <2>2, <2>5
  <2> QED
      BY <1>4, <2>3, <2>5, <2>6
<1>6. count \in 0..count
    OBVIOUS
<1>7. Sound(r[count])
    BY <1>5, <1>6
<1> QED
    BY <1>2, <1>7, Zenon

\* Whatever bytes a file has, what can be read from it is a state.
LEMMA DeserializeValue ==
    ASSUME NEW data, ByteData(data), Deserialize(data).ok
    PROVE  Deserialize(data).state \in SavedStates
<1> DEFINE start == TwoByteNumber(data, 2)
           count == TwoByteNumber(data, 4 + start)
           read == ReadFrames(data, 6 + start, count)
           n == Len(data)
           dynamic == SubSeq(data, 4, 3 + start)
<1>1. Deserialize(data)
        = IF n < 5 \/ data[1] # Magic \/ n < 5 + start THEN Unreadable
          ELSE IF ~read.ok THEN Unreadable
          ELSE [ok |-> TRUE,
                state |-> [staticMemoryBase |-> start, dynamicMemory |-> dynamic,
                           frames |-> read.frames]]
    BY Zenon DEF Deserialize
<1>2. n \in Nat /\ \A k \in 2..n : data[k] \in UInt8
    BY DEF ByteData
<1> HIDE DEF start, count, read, n, dynamic
<1>3. ~(n < 5 \/ data[1] # Magic \/ n < 5 + start) /\ read.ok
  <2>1. ~Unreadable.ok
      BY DEF Unreadable
  <2> QED
      BY <1>1, <2>1, Zenon
<1>4. Deserialize(data)
        = [ok |-> TRUE,
           state |-> [staticMemoryBase |-> start, dynamicMemory |-> dynamic,
                      frames |-> read.frames]]
    BY <1>1, <1>3, Zenon
<1>5. start \in UInt16 /\ start \in Nat
  <2>1. 2 + 1 <= n
      BY <1>2, <1>3
  <2> QED
      BY <2>1, TwoByteValue DEF start, n
<1>6. 5 + start <= n
    BY <1>2, <1>3, <1>5
<1>7. count \in Nat
  <2> DEFINE p == 4 + start
  <2>1. p \in Nat /\ 2 <= p /\ p + 1 <= n
      BY <1>2, <1>5, <1>6
  <2> HIDE DEF p
  <2>2. TwoByteNumber(data, p) \in Nat
      BY <2>1, TwoByteValue DEF n
  <2> QED
      BY <2>2 DEF p, count
<1>8. Sound(read)
  <2> DEFINE p == 6 + start
  <2>1. p \in Nat /\ 2 <= p
      BY <1>5
  <2> HIDE DEF p
  <2>2. Sound(ReadFrames(data, p, count))
      BY <1>7, <2>1, ReadFramesValue
  <2> QED
      BY <2>2 DEF p, read
<1>9. dynamic \in Seq(UInt8) /\ Len(dynamic) = start
  <2>1. dynamic = [j \in 1..start |-> data[j + 3]]
    <3>1. SubSeq(data, 4, 3 + start) = [j \in 1..start |-> data[4 + j - 1]]
        BY <1>5
    <3>2. \A j \in 1..start : 4 + j - 1 = j + 3
        BY <1>5
    <3> QED
        BY <3>1, <3>2 DEF dynamic
  <2>2. \A j \in 1..start : data[j + 3] \in UInt8
      BY <1>2, <1>5, <1>6
  <2>3. dynamic \in [1..start -> UInt8]
      BY <2>1, <2>2
  <2> QED
      BY <1>5, <2>3
<1>10. read.frames \in Seq(SavedFrames)
    BY <1>3, <1>8 DEF Sound
<1> QED
    BY <1>4, <1>5, <1>9, <1>10 DEF SavedStates
=============================================================================

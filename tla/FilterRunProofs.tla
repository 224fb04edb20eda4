-------------------------- MODULE FilterRunProofs --------------------------
(***************************************************************************)
(* Proofs about FilterConvert and FilterRun: what bpf_convert_filter makes  *)
(* of any classic program answers as that program does, for any packet and  *)
(* machine words of any size.                                              *)
(*                                                                         *)
(* The argument: the lemmas say where each block is and what each of its    *)
(* instructions does; the inductive invariant IInv has an assertion for     *)
(* every instruction of every block, in terms of the classic machine at the *)
(* classic instruction; a step leads from one assertion to the next, and    *)
(* from the last of a block to the first of another.                        *)
(***************************************************************************)
EXTENDS FilterRun, SequenceTheorems, WellFoundedInduction, TLAPS

-----------------------------------------------------------------------------
(* Induction on the natural numbers, for sets of numbers.                   *)

Below == {ss \in Nat \X Nat : ss[1] < ss[2]}

LEMMA BelowWellFounded == IsWellFoundedOn(Below, Nat)
BY NatLessThanWellFounded DEF OpToRel, Below

LEMMA Least ==
  ASSUME NEW T, T \subseteq Nat, T # {}
  PROVE  \E n \in T : \A m \in T : n <= m
<1>1. PICK n \in T : \A m \in T : <<m, n>> \notin Below
  BY BelowWellFounded, WFMin
<1>2. ASSUME NEW m \in T PROVE n <= m
  <2>1. <<m, n>> \notin Below
    BY <1>1
  <2>2. m \in Nat /\ n \in Nat
    OBVIOUS
  <2>3. ~(m < n)
    BY <2>1, <2>2 DEF Below
  <2> QED
    BY <2>2, <2>3
<1> QED
  BY <1>2

LEMMA SetInduction ==
  ASSUME NEW T, T \subseteq Nat, 0 \in T, \A n \in T : n + 1 \in T
  PROVE  Nat \subseteq T
<1> SUFFICES ASSUME Nat \ T # {} PROVE FALSE
  OBVIOUS
<1>1. PICK n \in Nat \ T : \A m \in Nat \ T : n <= m
  BY Least
<1>2. n # 0 /\ n - 1 \in T
  BY <1>1
<1> QED
  BY <1>2

-----------------------------------------------------------------------------
(* The sizes of machine words.                                              *)

\* power is the function in Power2(n).
IsPower(power, n) ==
  power = [i \in 0 .. n |-> IF i = 0 THEN 1 ELSE 2 * power[i - 1]]

LEMMA PowerExists == \A n \in Nat : \E power : IsPower(power, n)
<1> DEFINE T == {n \in Nat : \E power : IsPower(power, n)}
<1>1. 0 \in T
  <2>1. IsPower([i \in 0 .. 0 |-> 1], 0)
    BY DEF IsPower
  <2> QED
    BY <2>1
<1>2. ASSUME NEW n \in T PROVE n + 1 \in T
  <2>1. PICK f : IsPower(f, n)
    OBVIOUS
  <2> DEFINE g == [i \in 0 .. n + 1 |-> IF i = 0 THEN 1 ELSE 2 * f[i - 1]]
  <2>2. ASSUME NEW i \in 0 .. n PROVE g[i] = f[i]
    BY <2>1 DEF IsPower
  <2>3. ASSUME NEW i \in 0 .. n + 1, i # 0 PROVE g[i - 1] = f[i - 1]
    <3>1. i - 1 \in 0 .. n
      BY <2>3
    <3> QED
      BY <3>1, <2>2
  <2>4. IsPower(g, n + 1)
    BY <2>3 DEF IsPower
  <2> QED
    BY <2>4
<1> QED
  BY <1>1, <1>2, SetInduction

LEMMA PowerPositive ==
  ASSUME NEW n \in Nat, NEW f, IsPower(f, n)
  PROVE  \A i \in 0 .. n : f[i] \in Nat \ {0}
<1> DEFINE T == {i \in Nat : i \in 0 .. n => f[i] \in Nat \ {0}}
<1>1. 0 \in T
  BY DEF IsPower
<1>2. ASSUME NEW i \in T PROVE i + 1 \in T
  <2>1. CASE i + 1 \in 0 .. n
    <3>1. f[i + 1] = 2 * f[i]
      BY <2>1 DEF IsPower
    <3> QED
      BY <2>1, <3>1
  <2> QED
    BY <2>1
<1>3. Nat \subseteq T
  BY <1>1, <1>2, SetInduction
<1> QED
  BY <1>3

\* Power2 is what it should be.
LEMMA Power2Def ==
  ASSUME NEW n \in Nat
  PROVE  \E f : IsPower(f, n) /\ Power2(n) = f[n]
BY PowerExists DEF Power2, IsPower

LEMMA Power2Type ==
  ASSUME NEW n \in Nat
  PROVE  Power2(n) \in Nat \ {0} /\ (n # 0 => Power2(n) >= 2)
<1>1. PICK f : IsPower(f, n) /\ Power2(n) = f[n]
  BY Power2Def
<1>2. \A i \in 0 .. n : f[i] \in Nat \ {0}
  BY <1>1, PowerPositive
<1>3. n # 0 => f[n] = 2 * f[n - 1] /\ f[n - 1] \in Nat \ {0}
  <2>1. n # 0 => n - 1 \in 0 .. n /\ n \in 0 .. n
    OBVIOUS
  <2>2. n # 0 => f[n] = 2 * f[n - 1]
    BY <1>1, <2>1 DEF IsPower
  <2> QED
    BY <1>2, <2>1, <2>2
<1> QED
  BY <1>1, <1>2, <1>3

LEMMA Power2Two == Power2(2) = 4
<1>1. PICK f : IsPower(f, 2) /\ Power2(2) = f[2]
  BY Power2Def
<1>2. f[0] = 1 /\ f[1] = 2 * f[0] /\ f[2] = 2 * f[1]
  BY <1>1 DEF IsPower
<1> QED
  BY <1>1, <1>2

LEMMA Sizes ==
  /\ NibbleMod \in Nat /\ NibbleMod >= 2
  /\ ByteMod \in Nat /\ ByteMod >= 2 * NibbleMod /\ ByteMod >= 4
  /\ HalfMod \in Nat /\ HalfMod >= 4 * ByteMod /\ HalfMod >= 16
  /\ WordMod \in Nat /\ WordMod >= 16 * HalfMod /\ WordMod >= 256
  /\ DwMod \in Nat /\ DwMod >= 256 * WordMod
  /\ WordBits \in Nat /\ WordBits >= 8
<1>1. NibbleMod \in Nat /\ NibbleMod >= 2
  BY Power2Type, SizesAssumption DEF NibbleMod
<1>2. ASSUME NEW a \in Nat, NEW c \in Nat, a >= c
      PROVE  a * a \in Nat /\ a * a >= c * a /\ c * a >= c * c
  BY <1>2
<1>3. ByteMod \in Nat /\ ByteMod >= 2 * NibbleMod /\ ByteMod >= 4
  BY <1>1, <1>2 DEF ByteMod
<1>4. HalfMod \in Nat /\ HalfMod >= 4 * ByteMod /\ HalfMod >= 16
  BY <1>3, <1>2 DEF HalfMod
<1>5. WordMod \in Nat /\ WordMod >= 16 * HalfMod /\ WordMod >= 256
  BY <1>4, <1>2 DEF WordMod
<1>6. DwMod \in Nat /\ DwMod >= 256 * WordMod
  BY <1>5, <1>2 DEF DwMod
<1> QED
  BY <1>1, <1>3, <1>4, <1>5, <1>6, SizesAssumption DEF WordBits

-----------------------------------------------------------------------------
(* Numbers and their bytes.                                                 *)

LEMMA Division ==
  ASSUME NEW a \in Int, NEW m \in Nat \ {0}
  PROVE  /\ a % m \in 0 .. m - 1 /\ a \div m \in Int
         /\ (a % m) + m * (a \div m) = a
         /\ a \in Nat => a \div m \in Nat /\ a \div m <= a
<1> DEFINE q == a \div m
<1>1. a % m \in 0 .. m - 1 /\ q \in Int
  OBVIOUS
<1>2. a % m = a - m * q
  OBVIOUS
<1>3. m * q \in Int
  BY <1>1
<1>4. ASSUME a \in Nat PROVE q \in Nat /\ q <= a
  <2> HIDE DEF q
  <2>1. m * q <= a /\ a < m * q + m
    BY <1>1, <1>2, <1>3
  <2>2. q >= 0
    <3>1. q < 0 => m * q <= -m
      BY <1>1
    <3> QED
      BY <2>1, <3>1, <1>1, <1>3, <1>4
  <2>3. q >= 0 => m * q >= q
    BY <1>1
  <2> QED
    BY <1>1, <2>1, <2>2, <2>3, <1>3, <1>4
<1> QED
  BY <1>1, <1>2, <1>3, <1>4

LEMMA Split ==
  ASSUME NEW m \in Nat \ {0}, NEW n \in Nat \ {0}, NEW v \in 0 .. m * n - 1
  PROVE  v % m \in 0 .. m - 1 /\ v \div m \in 0 .. n - 1 /\ (v % m) + m * (v \div m) = v
<1> DEFINE q == v \div m
           r == v % m
<1>1. r \in 0 .. m - 1 /\ q \in Nat /\ r + m * q = v
  BY Division
<1> HIDE DEF q, r
<1>2. ASSUME q >= n PROVE m * q >= m * n
  BY <1>1, <1>2
<1>3. m * q \in Nat /\ m * n \in Nat
  BY <1>1
<1>4. q <= n - 1
  BY <1>1, <1>2, <1>3
<1> QED
  BY <1>1, <1>4 DEF q, r

LEMMA Joined ==
  ASSUME NEW m \in Nat \ {0}, NEW n \in Nat \ {0},
         NEW lo \in 0 .. m - 1, NEW hi \in 0 .. n - 1
  PROVE  /\ lo + m * hi \in 0 .. m * n - 1
         /\ (lo + m * hi) % m = lo /\ (lo + m * hi) \div m = hi
<1>1. m * hi + m <= m * n
  <2>1. m * (hi + 1) <= m * n
    OBVIOUS
  <2> QED
    BY <2>1
<1>2. m * hi \in Nat /\ m * n \in Nat
  OBVIOUS
<1>3. (m * hi + lo) % m = lo /\ (m * hi + lo) \div m = hi
  OBVIOUS
<1>4. lo + m * hi = m * hi + lo
  BY <1>2
<1> QED
  BY <1>1, <1>2, <1>3, <1>4

LEMMA Pairs ==
  ASSUME NEW a, NEW b, NEW c, NEW d
  PROVE  <<a, b>> \o <<c, d>> = <<a, b, c, d>>
<1> DEFINE s == <<a, b>> \o <<c, d>>
           t == <<a, b, c, d>>
<1>1. s \in Seq({a, b, c, d}) /\ t \in Seq({a, b, c, d})
  OBVIOUS
<1>2. Len(s) = Len(t) /\ \A i \in 1 .. Len(s) : s[i] = t[i]
  OBVIOUS
<1>3. \A u, v \in Seq({a, b, c, d}) :
        Len(u) = Len(v) /\ (\A i \in 1 .. Len(u) : u[i] = v[i]) => u = v
  BY SeqEqual
<1> QED
  BY ONLY <1>1, <1>2, <1>3

LEMMA Quads ==
  ASSUME NEW a, NEW b, NEW c, NEW d, NEW e, NEW f, NEW g, NEW h
  PROVE  <<a, b, c, d>> \o <<e, f, g, h>> = <<a, b, c, d, e, f, g, h>>
<1> DEFINE s == <<a, b, c, d>> \o <<e, f, g, h>>
           t == <<a, b, c, d, e, f, g, h>>
<1>1. s \in Seq({a, b, c, d, e, f, g, h}) /\ t \in Seq({a, b, c, d, e, f, g, h})
  OBVIOUS
<1>2. Len(s) = Len(t) /\ \A i \in 1 .. Len(s) : s[i] = t[i]
  OBVIOUS
<1>3. \A u, v \in Seq({a, b, c, d, e, f, g, h}) :
        Len(u) = Len(v) /\ (\A i \in 1 .. Len(u) : u[i] = v[i]) => u = v
  BY SeqEqual
<1> QED
  BY ONLY <1>1, <1>2, <1>3

LEMMA Bytes4Seq ==
  ASSUME NEW v
  PROVE  LET b == Bytes4(v)
         IN  /\ b = <<b[1], b[2], b[3], b[4]>>
             /\ b = <<Bytes2(v % HalfMod)[1], Bytes2(v % HalfMod)[2],
                      Bytes2(v \div HalfMod)[1], Bytes2(v \div HalfMod)[2]>>
<1>1. ASSUME NEW u PROVE Bytes2(u) = <<Bytes2(u)[1], Bytes2(u)[2]>>
  BY DEF Bytes2
<1>2. Bytes4(v) = Bytes2(v % HalfMod) \o Bytes2(v \div HalfMod)
  BY DEF Bytes4
<1>3. /\ Bytes2(v % HalfMod) = <<Bytes2(v % HalfMod)[1], Bytes2(v % HalfMod)[2]>>
      /\ Bytes2(v \div HalfMod)
           = <<Bytes2(v \div HalfMod)[1], Bytes2(v \div HalfMod)[2]>>
  BY <1>1
<1>4. Bytes4(v) = <<Bytes2(v % HalfMod)[1], Bytes2(v % HalfMod)[2],
                    Bytes2(v \div HalfMod)[1], Bytes2(v \div HalfMod)[2]>>
  BY <1>2, <1>3, Pairs
<1> QED
  BY <1>4

LEMMA Bytes2Value ==
  ASSUME NEW v \in 0 .. HalfMod - 1
  PROVE  /\ Bytes2(v)[1] \in Byte /\ Bytes2(v)[2] \in Byte
         /\ Value2(Bytes2(v)[1], Bytes2(v)[2]) = v
<1>1. /\ v % ByteMod \in 0 .. ByteMod - 1 /\ v \div ByteMod \in 0 .. ByteMod - 1
      /\ (v % ByteMod) + ByteMod * (v \div ByteMod) = v
  <2>1. ByteMod \in Nat \ {0} /\ v \in 0 .. ByteMod * ByteMod - 1
    BY Sizes DEF HalfMod
  <2> QED
    BY <2>1, Split
<1> QED
  BY <1>1 DEF Bytes2, Value2, Byte

LEMMA Bytes4Value ==
  ASSUME NEW v \in Word
  PROVE  /\ \A i \in 1 .. 4 : Bytes4(v)[i] \in Byte
         /\ Value4(Bytes4(v)[1], Bytes4(v)[2], Bytes4(v)[3], Bytes4(v)[4]) = v
<1> DEFINE lo == v % HalfMod
           hi == v \div HalfMod
<1>1. lo \in 0 .. HalfMod - 1 /\ hi \in 0 .. HalfMod - 1 /\ lo + HalfMod * hi = v
  <2>1. HalfMod \in Nat \ {0} /\ v \in 0 .. HalfMod * HalfMod - 1
    BY Sizes DEF WordMod, Word
  <2> QED
    BY <2>1, Split
<1> HIDE DEF lo, hi
<1>2. /\ Bytes2(lo)[1] \in Byte /\ Bytes2(lo)[2] \in Byte
      /\ Bytes2(hi)[1] \in Byte /\ Bytes2(hi)[2] \in Byte
      /\ Value2(Bytes2(lo)[1], Bytes2(lo)[2]) = lo
      /\ Value2(Bytes2(hi)[1], Bytes2(hi)[2]) = hi
  BY <1>1, Bytes2Value
<1>3. Bytes4(v) = <<Bytes2(lo)[1], Bytes2(lo)[2], Bytes2(hi)[1], Bytes2(hi)[2]>>
  BY Bytes4Seq DEF lo, hi
<1> QED
  BY <1>1, <1>2, <1>3 DEF Value4

LEMMA Value2Bytes ==
  ASSUME NEW a \in Byte, NEW b \in Byte
  PROVE  Value2(a, b) \in 0 .. HalfMod - 1 /\ Bytes2(Value2(a, b)) = <<a, b>>
BY Sizes, Joined DEF Byte, Value2, Bytes2, HalfMod

LEMMA Value4Bytes ==
  ASSUME NEW a \in Byte, NEW b \in Byte, NEW c \in Byte, NEW d \in Byte
  PROVE  Value4(a, b, c, d) \in Word /\ Bytes4(Value4(a, b, c, d)) = <<a, b, c, d>>
<1> DEFINE lo == Value2(a, b)
           hi == Value2(c, d)
           v == lo + HalfMod * hi
<1>1. /\ lo \in 0 .. HalfMod - 1 /\ hi \in 0 .. HalfMod - 1
      /\ Bytes2(lo) = <<a, b>> /\ Bytes2(hi) = <<c, d>>
  BY Value2Bytes
<1> HIDE DEF lo, hi
<1>2. v \in Word /\ v % HalfMod = lo /\ v \div HalfMod = hi
  BY <1>1, Sizes, Joined DEF WordMod, Word
<1> HIDE DEF v
<1>3. Bytes4(v) = <<a, b>> \o <<c, d>>
  BY <1>1, <1>2 DEF Bytes4
<1> QED
  BY <1>2, <1>3 DEF Value4, v, lo, hi

LEMMA SmallMod ==
  ASSUME NEW m \in Nat \ {0}, NEW a \in 0 .. m - 1
  PROVE  a % m = a
OBVIOUS

\* What is stored is loaded again.
LEMMA WordStored ==
  ASSUME NEW v \in Word
  PROVE  /\ DOMAIN BytesOf(v, 4) = 1 .. 4
         /\ \A j \in 1 .. 4 : BytesOf(v, 4)[j] \in Byte
         /\ LittleEndian(BytesOf(v, 4), 4) = v
<1>1. v % WordMod = v
  BY Sizes, SmallMod DEF Word
<1>2. BytesOf(v, 4) = Bytes4(v)
  BY <1>1 DEF BytesOf
<1>3. DOMAIN Bytes4(v) = 1 .. 4
  BY DEF Bytes4, Bytes2
<1> QED
  BY <1>2, <1>3, Bytes4Value DEF LittleEndian

LEMMA DwordStored ==
  ASSUME NEW v \in 0 .. DwMod - 1
  PROVE  /\ DOMAIN BytesOf(v, 8) = 1 .. 8
         /\ \A j \in 1 .. 8 : BytesOf(v, 8)[j] \in Byte
         /\ LittleEndian(BytesOf(v, 8), 8) = v
<1> DEFINE lo == v % WordMod
           hi == v \div WordMod
           a == Bytes4(lo)
           b == Bytes4(hi)
<1>1. lo \in Word /\ hi \in Word /\ lo + WordMod * hi = v
  <2>1. WordMod \in Nat \ {0} /\ v \in 0 .. WordMod * WordMod - 1
    BY Sizes DEF DwMod
  <2> QED
    BY <2>1, Split DEF Word
<1> HIDE DEF lo, hi
<1>2. /\ \A i \in 1 .. 4 : a[i] \in Byte /\ b[i] \in Byte
      /\ Value4(a[1], a[2], a[3], a[4]) = lo
      /\ Value4(b[1], b[2], b[3], b[4]) = hi
  BY <1>1, Bytes4Value
<1>3. a = <<a[1], a[2], a[3], a[4]>> /\ b = <<b[1], b[2], b[3], b[4]>>
  BY Bytes4Seq
<1>4. BytesOf(v, 8) = a \o b
  BY DEF BytesOf, lo, hi
<1> HIDE DEF a, b
<1>5. BytesOf(v, 8) = <<a[1], a[2], a[3], a[4], b[1], b[2], b[3], b[4]>>
  <2>1. <<a[1], a[2], a[3], a[4]>> \o <<b[1], b[2], b[3], b[4]>>
          = <<a[1], a[2], a[3], a[4], b[1], b[2], b[3], b[4]>>
    BY Quads
  <2> QED
    BY <1>3, <1>4, <2>1
<1> QED
  BY <1>1, <1>2, <1>5 DEF LittleEndian

\* Bytes that were loaded and turned round are those of the packet.
LEMMA TurnedRound ==
  ASSUME NEW b, NEW n \in {1, 2, 4}, \A j \in 1 .. n : b[j] \in Byte
  PROVE  /\ LittleEndian(b, n) \in Word /\ BigEndian(b, n) \in Word
         /\ n = 1 => LittleEndian(b, n) = BigEndian(b, n)
         /\ n # 1 => BigEndian(BytesOf(LittleEndian(b, n), n), n) = BigEndian(b, n)
<1>1. CASE n = 1
  BY <1>1, Sizes DEF LittleEndian, BigEndian, Byte, Word
<1>2. CASE n = 2
  <2>1. b[1] \in Byte /\ b[2] \in Byte
    BY <1>2
  <2>2. /\ Value2(b[1], b[2]) \in 0 .. HalfMod - 1
        /\ Bytes2(Value2(b[1], b[2])) = <<b[1], b[2]>>
        /\ Value2(b[2], b[1]) \in 0 .. HalfMod - 1
    BY <2>1, Value2Bytes
  <2>3. LittleEndian(b, 2) = Value2(b[1], b[2]) /\ BigEndian(b, 2) = Value2(b[2], b[1])
    BY DEF LittleEndian, BigEndian
  <2>4. Value2(b[1], b[2]) % HalfMod = Value2(b[1], b[2])
    BY <2>2, Sizes, SmallMod
  <2>5. BytesOf(LittleEndian(b, 2), 2) = <<b[1], b[2]>>
    BY <2>2, <2>3, <2>4 DEF BytesOf
  <2>6. BigEndian(<<b[1], b[2]>>, 2) = Value2(b[2], b[1])
    BY DEF BigEndian, LittleEndian
  <2>7. 0 .. HalfMod - 1 \subseteq Word
    BY Sizes DEF Word
  <2> QED
    BY <1>2, <2>2, <2>3, <2>5, <2>6, <2>7
<1>3. CASE n = 4
  <2>1. b[1] \in Byte /\ b[2] \in Byte /\ b[3] \in Byte /\ b[4] \in Byte
    BY <1>3
  <2> DEFINE v == Value4(b[1], b[2], b[3], b[4])
             w == Value4(b[4], b[3], b[2], b[1])
  <2>2. v \in Word /\ Bytes4(v) = <<b[1], b[2], b[3], b[4]>> /\ w \in Word
    BY <2>1, Value4Bytes
  <2>3. LittleEndian(b, 4) = v /\ BigEndian(b, 4) = w
    BY DEF LittleEndian, BigEndian
  <2>4. v % WordMod = v
    BY <2>2, Sizes, SmallMod DEF Word
  <2>5. BytesOf(LittleEndian(b, 4), 4) = <<b[1], b[2], b[3], b[4]>>
    BY <2>2, <2>3, <2>4 DEF BytesOf
  <2>6. BigEndian(<<b[1], b[2], b[3], b[4]>>, 4) = w
    BY DEF BigEndian, LittleEndian
  <2> QED
    BY <1>3, <2>2, <2>3, <2>5, <2>6
<1> QED
  BY <1>1, <1>2, <1>3

-----------------------------------------------------------------------------
(* Sequences of any values.                                                 *)

IsSeq(s) == s \in Seq({s[i] : i \in DOMAIN s})

LEMMA FunctionIsSeq ==
  ASSUME NEW n \in Nat, NEW f, f = [i \in 1 .. n |-> f[i]]
  PROVE  IsSeq(f) /\ Len(f) = n
<1> DEFINE S == {f[i] : i \in DOMAIN f}
<1>1. DOMAIN f = 1 .. n /\ f \in [1 .. n -> S]
  OBVIOUS
<1>2. f \in Seq(S)
  BY <1>1, SeqDef
<1>3. DOMAIN f = 1 .. Len(f) /\ Len(f) \in Nat
  BY <1>2, LenProperties
<1> QED
  BY <1>1, <1>2, <1>3 DEF IsSeq

LEMMA SeqIsSeq ==
  ASSUME NEW S, NEW s \in Seq(S)
  PROVE  IsSeq(s)
<1>1. Len(s) \in Nat /\ s \in [1 .. Len(s) -> S]
  BY LenProperties
<1>2. s = [i \in 1 .. Len(s) |-> s[i]]
  BY <1>1
<1> QED
  BY <1>1, <1>2, FunctionIsSeq

LEMMA Concatenated ==
  ASSUME NEW s, IsSeq(s), NEW t, IsSeq(t), NEW w, w = s \o t
  PROVE  /\ IsSeq(w) /\ Len(w) = Len(s) + Len(t)
         /\ Len(s) \in Nat /\ Len(t) \in Nat
         /\ \A i \in 1 .. Len(s) : w[i] = s[i]
         /\ \A i \in 1 .. Len(t) : w[Len(s) + i] = t[i]
<1> DEFINE S == {s[i] : i \in DOMAIN s} \cup {t[i] : i \in DOMAIN t}
<1>1. s \in Seq(S) /\ t \in Seq(S)
  BY DEF IsSeq
<1>2. /\ s \o t \in Seq(S) /\ Len(s \o t) = Len(s) + Len(t)
      /\ Len(s) \in Nat /\ Len(t) \in Nat
      /\ \A i \in 1 .. Len(s) : (s \o t)[i] = s[i]
      /\ \A i \in 1 .. Len(t) : (s \o t)[Len(s) + i] = t[i]
  BY <1>1, ConcatProperties
<1> HIDE DEF S
<1>3. IsSeq(s \o t)
  BY <1>2, SeqIsSeq
<1> QED
  BY <1>2, <1>3

\* The same of a concatenation that the provers do not look into.
Cat(s, t) == s \o t

LEMMA ChainedSeq ==
  ASSUME NEW s, IsSeq(s), NEW t, IsSeq(t)
  PROVE  IsSeq(Cat(s, t))
BY Concatenated DEF Cat

LEMMA ChainedLen ==
  ASSUME NEW s, IsSeq(s), NEW t, IsSeq(t)
  PROVE  Len(Cat(s, t)) = Len(s) + Len(t)
BY Concatenated DEF Cat

LEMMA ChainedFirst ==
  ASSUME NEW s, IsSeq(s), NEW t, IsSeq(t), NEW i \in 1 .. Len(s)
  PROVE  Cat(s, t)[i] = s[i]
BY Concatenated DEF Cat

LEMMA ChainedSecond ==
  ASSUME NEW s, IsSeq(s), NEW t, IsSeq(t), NEW i \in 1 .. Len(t)
  PROVE  Cat(s, t)[Len(s) + i] = t[i]
BY Concatenated DEF Cat

LEMMA Associative ==
  ASSUME NEW s, IsSeq(s), NEW t, IsSeq(t), NEW u, IsSeq(u)
  PROVE  (s \o t) \o u = s \o (t \o u)
<1> DEFINE S == {s[i] : i \in DOMAIN s} \cup {t[i] : i \in DOMAIN t}
                  \cup {u[i] : i \in DOMAIN u}
<1>1. s \in Seq(S) /\ t \in Seq(S) /\ u \in Seq(S)
  BY DEF IsSeq
<1> HIDE DEF S
<1> QED
  BY <1>1, ConcatAssociative

-----------------------------------------------------------------------------
(* The fields of instructions.                                              *)

LEMMA AluFields ==
  ASSUME NEW op, NEW dst, NEW src, NEW imm
  PROVE  LET n == Alu32(op, dst, src, imm)
             d == Alu64(op, dst, src, imm)
         IN  /\ n.cls = "alu" /\ n.w = 32 /\ n.op = op /\ n.dst = dst
             /\ n.src = src /\ n.imm = imm /\ n.off = 0 /\ n.over = Short
             /\ d.cls = "alu" /\ d.w = 64 /\ d.op = op /\ d.dst = dst
             /\ d.src = src /\ d.imm = imm /\ d.off = 0 /\ d.over = Short
BY DEF Alu32, Alu64, Op

LEMMA JumpFields ==
  ASSUME NEW w, NEW op, NEW dst, NEW src, NEW imm, NEW off
  PROVE  LET n == Jump(w, op, dst, src, imm, off)
             j == JumpAlways(off)
         IN  /\ n.cls = "jmp" /\ n.w = w /\ n.op = op /\ n.dst = dst
             /\ n.src = src /\ n.imm = imm /\ n.off = off /\ n.over = Short
             /\ j.cls = "jmp" /\ j.w = 64 /\ j.op = "ja" /\ j.dst = 0
             /\ j.src = Imm /\ j.imm = 0 /\ j.off = off /\ j.over = Short
BY DEF Jump, JumpAlways, Op

LEMMA MemFields ==
  ASSUME NEW size, NEW r, NEW off
  PROVE  LET l == Load(size, r, off)
             s == Store(size, r, off)
         IN  /\ l.cls = "ldx" /\ l.w = size /\ l.dst = r /\ l.off = off
             /\ l.over = Short
             /\ s.cls = "stx" /\ s.w = size /\ s.src = r /\ s.off = off
             /\ s.over = Short
BY DEF Load, Store, Op

LEMMA OtherFields ==
  ASSUME NEW size, NEW r
  PROVE  /\ LET e == FromBigEndian(r, size)
            IN  e.cls = "be" /\ e.w = size /\ e.dst = r /\ e.off = 0
                /\ e.over = Short
         /\ CallProbeRead.cls = "call" /\ CallProbeRead.off = 0
         /\ CallProbeRead.over = Short
         /\ Exit.cls = "exit" /\ Exit.off = 0 /\ Exit.over = Short
BY DEF FromBigEndian, CallProbeRead, Exit, Op

-----------------------------------------------------------------------------
(* The instructions of a packet load.                                       *)

LEMMA PatchedAt ==
  ASSUME NEW s, IsSeq(s)
  PROVE  /\ IsSeq(Patched(s)) /\ Len(Patched(s)) = Len(s) /\ Len(s) \in Nat
         /\ \A j \in 1 .. Len(s) :
              /\ s[j].off # Fail => Patched(s)[j] = s[j]
              /\ s[j].off = Fail =>
                   Patched(s)[j] = [s[j] EXCEPT !.off = Len(s) - j]
<1>1. DOMAIN s = 1 .. Len(s) /\ Len(s) \in Nat
  BY DEF IsSeq
<1>2. Patched(s) = [j \in 1 .. Len(s) |->
                      IF s[j].off = Fail THEN [s[j] EXCEPT !.off = Len(s) - j]
                      ELSE s[j]]
  BY <1>1 DEF Patched
<1>3. Patched(s) = [j \in 1 .. Len(s) |-> Patched(s)[j]]
  BY <1>2
<1>4. IsSeq(Patched(s)) /\ Len(Patched(s)) = Len(s)
  BY <1>1, <1>3, FunctionIsSeq
<1> QED
  BY <1>1, <1>2, <1>4

OffsetLen(op) == IF op = "ind" THEN 4 ELSE 1

LEMMA OffsetCode ==
  ASSUME NEW op \in {"abs", "ind"}, NEW k
  PROVE  LET o == OffsetOf(op, k)
         IN  /\ IsSeq(o) /\ Len(o) = OffsetLen(op)
             /\ op = "abs" => o[1] = Alu32("mov", 2, Imm, k)
             /\ op = "ind" => /\ o[1] = Alu32("mov", 2, X, 0)
                              /\ o[2] = Alu32("mov", 1, 2, 0)
                              /\ o[3] = Alu32("add", 2, Imm, k)
                              /\ o[4] = Jump(64, "jlt", 2, 1, 0, Fail)
<1>1. CASE op = "abs"
  BY <1>1 DEF OffsetOf, OffsetLen, IsSeq
<1>2. CASE op = "ind"
  BY <1>2 DEF OffsetOf, OffsetLen, IsSeq
<1> QED
  BY <1>1, <1>2

\* What follows the offset, before it is patched.
Checked(size) == CheckBounds(size) \o ReadBytes(size)

LEMMA ReadCode ==
  ASSUME NEW size
  PROVE  LET t == Checked(size)
         IN  /\ IsSeq(CheckBounds(size)) /\ IsSeq(ReadBytes(size))
             /\ IsSeq(t) /\ Len(t) = 17
             /\ t[1] = Jump(32, "jslt", 2, Imm, 0, Fail)
             /\ t[2] = Alu32("mov", 3, 2, 0)
             /\ t[3] = Alu32("add", 3, Imm, size)
             /\ t[4] = Jump(64, "jlt", 3, 2, 0, Fail)
             /\ t[5] = Load(8, 4, DataAt)
             /\ t[6] = Load(8, 5, DataEndAt)
             /\ t[7] = Jump(64, "jlt", 5, 4, 0, Fail)
             /\ t[8] = Alu64("sub", 5, 4, 0)
             /\ t[9] = Jump(64, "jgt", 3, 5, 0, Fail)
             /\ t[10] = Alu64("mov", 1, FP, 0)
             /\ t[11] = Alu64("add", 1, Imm, BytesAt)
             /\ t[12] = Alu64("mov", 3, 4, 0)
             /\ t[13] = Alu64("add", 3, 2, 0)
             /\ t[14] = Alu64("mov", 2, Imm, size)
             /\ t[15] = CallProbeRead
             /\ t[16] = Jump(64, "jne", A, Imm, 0, Fail)
             /\ t[17] = JumpAlways(2)
<1> DEFINE t == Checked(size)
<1>1. IsSeq(CheckBounds(size))
  BY DEF CheckBounds, IsSeq
<1>2. IsSeq(ReadBytes(size))
  BY DEF ReadBytes, IsSeq
<1>3. IsSeq(t)
  BY <1>1, <1>2, Concatenated DEF Checked
<1> QED
  BY <1>1, <1>2, <1>3 DEF Checked, CheckBounds, ReadBytes

\* What follows the jumps to Fail.
Loaded(size) == <<Load(size, A, BytesAt)>>
Turned(size) == IF size = 1 THEN <<>> ELSE <<FromBigEndian(A, size)>>
Last(size) == EpilogueFail \o Loaded(size) \o Turned(size)

LEMMA EpilogueCode ==
  ASSUME NEW size \in {1, 2, 4}
  PROVE  LET z == Last(size)
         IN  /\ IsSeq(EpilogueFail) /\ IsSeq(Loaded(size)) /\ IsSeq(Turned(size))
             /\ IsSeq(z) /\ Len(z) = IF size = 1 THEN 3 ELSE 4
             /\ z[1] = Alu64("mov", A, Imm, 0)
             /\ z[2] = Exit
             /\ z[3] = Load(size, A, BytesAt)
             /\ size # 1 => z[4] = FromBigEndian(A, size)
<1>1. IsSeq(EpilogueFail) /\ IsSeq(Loaded(size))
  BY DEF EpilogueFail, Loaded, IsSeq
<1>2. IsSeq(Turned(size))
  <2>1. IsSeq(<<>>) /\ IsSeq(<<FromBigEndian(A, size)>>)
    BY DEF IsSeq
  <2> QED
    BY <2>1 DEF Turned
<1>3. IsSeq(EpilogueFail \o Loaded(size))
  BY <1>1, Concatenated
<1>4. IsSeq(Last(size))
  BY <1>2, <1>3, Concatenated DEF Last
<1>5. CASE size = 1
  BY <1>1, <1>2, <1>4, <1>5 DEF Last, Loaded, Turned, EpilogueFail
<1>6. CASE size # 1
  BY <1>1, <1>2, <1>4, <1>6 DEF Last, Loaded, Turned, EpilogueFail
<1> QED
  BY <1>5, <1>6

\* A packet load before it is patched.
Unpatched(op, size, k) == OffsetOf(op, k) \o Checked(size)

LEMMA LoadParts ==
  ASSUME NEW op \in {"abs", "ind"}, NEW size \in {1, 2, 4}, NEW k
  PROVE  PacketLoad(op, size, k) = Patched(Unpatched(op, size, k)) \o Last(size)
<1> DEFINE o == OffsetOf(op, k)
           c == CheckBounds(size)
           d == ReadBytes(size)
           p == Patched(Unpatched(op, size, k))
           e == EpilogueFail
           f == Loaded(size)
           g == Turned(size)
<1>1. IsSeq(o) /\ IsSeq(c) /\ IsSeq(d)
  BY OffsetCode, ReadCode
<1>2. (o \o c) \o d = o \o (c \o d)
  BY <1>1, Associative
<1>3. PacketLoad(op, size, k) = ((p \o e) \o f) \o g
  BY <1>2 DEF PacketLoad, Unpatched, Checked, Loaded, Turned
<1>4. IsSeq(Unpatched(op, size, k))
  BY <1>1, ReadCode, Concatenated DEF Unpatched
<1>5. IsSeq(p) /\ IsSeq(e) /\ IsSeq(f) /\ IsSeq(g)
  BY <1>4, PatchedAt, EpilogueCode
<1> HIDE DEF p, e, f, g
<1>6. (p \o e) \o f = p \o (e \o f)
  BY <1>5, Associative
<1>7. IsSeq(e \o f)
  BY <1>5, Concatenated
<1>8. (p \o (e \o f)) \o g = p \o ((e \o f) \o g)
  <2> DEFINE h == e \o f
  <2>1. IsSeq(h)
    BY <1>7
  <2> HIDE DEF h
  <2>2. (p \o h) \o g = p \o (h \o g)
    BY <2>1, <1>5, Associative, SMTT(20)
  <2> QED
    BY <2>2 DEF h
<1> QED
  BY <1>3, <1>6, <1>8 DEF Last, p, e, f, g

LoadCodeIs(b, l, op, size, k) ==
  /\ IsSeq(b) /\ Len(b) = l + (IF size = 1 THEN 20 ELSE 21)
  /\ op = "abs" => b[1] = Alu32("mov", 2, Imm, k)
  /\ op = "ind" => /\ b[1] = Alu32("mov", 2, X, 0)
                   /\ b[2] = Alu32("mov", 1, 2, 0)
                   /\ b[3] = Alu32("add", 2, Imm, k)
                   /\ b[4] = Jump(64, "jlt", 2, 1, 0, 17)
  /\ b[l + 1] = Jump(32, "jslt", 2, Imm, 0, 16)
  /\ b[l + 2] = Alu32("mov", 3, 2, 0)
  /\ b[l + 3] = Alu32("add", 3, Imm, size)
  /\ b[l + 4] = Jump(64, "jlt", 3, 2, 0, 13)
  /\ b[l + 5] = Load(8, 4, DataAt)
  /\ b[l + 6] = Load(8, 5, DataEndAt)
  /\ b[l + 7] = Jump(64, "jlt", 5, 4, 0, 10)
  /\ b[l + 8] = Alu64("sub", 5, 4, 0)
  /\ b[l + 9] = Jump(64, "jgt", 3, 5, 0, 8)
  /\ b[l + 10] = Alu64("mov", 1, FP, 0)
  /\ b[l + 11] = Alu64("add", 1, Imm, BytesAt)
  /\ b[l + 12] = Alu64("mov", 3, 4, 0)
  /\ b[l + 13] = Alu64("add", 3, 2, 0)
  /\ b[l + 14] = Alu64("mov", 2, Imm, size)
  /\ b[l + 15] = CallProbeRead
  /\ b[l + 16] = Jump(64, "jne", A, Imm, 0, 1)
  /\ b[l + 17] = JumpAlways(2)
  /\ b[l + 18] = Alu64("mov", A, Imm, 0)
  /\ b[l + 19] = Exit
  /\ b[l + 20] = Load(size, A, BytesAt)
  /\ size # 1 => b[l + 21] = FromBigEndian(A, size)

LEMMA LoadCode ==
  ASSUME NEW op \in {"abs", "ind"}, NEW size \in {1, 2, 4}, NEW k
  PROVE  LoadCodeIs(PacketLoad(op, size, k), OffsetLen(op), op, size, k)
<1> DEFINE b == PacketLoad(op, size, k)
           l == OffsetLen(op)
           o == OffsetOf(op, k)
           t == Checked(size)
           s == Unpatched(op, size, k)
           p == Patched(s)
           z == Last(size)
<1>1. /\ IsSeq(o) /\ Len(o) = l /\ l \in {1, 4} /\ (op = "ind" <=> l = 4)
      /\ op = "abs" => o[1] = Alu32("mov", 2, Imm, k)
      /\ op = "ind" => /\ o[1] = Alu32("mov", 2, X, 0)
                       /\ o[2] = Alu32("mov", 1, 2, 0)
                       /\ o[3] = Alu32("add", 2, Imm, k)
                       /\ o[4] = Jump(64, "jlt", 2, 1, 0, Fail)
  BY OffsetCode DEF OffsetLen
<1>2. IsSeq(t) /\ Len(t) = 17
  BY ReadCode
<1>3. /\ IsSeq(z) /\ Len(z) = IF size = 1 THEN 3 ELSE 4
      /\ z[1] = Alu64("mov", A, Imm, 0)
      /\ z[2] = Exit
      /\ z[3] = Load(size, A, BytesAt)
      /\ size # 1 => z[4] = FromBigEndian(A, size)
  BY EpilogueCode
<1>6. /\ IsSeq(s) /\ Len(s) = l + 17
      /\ \A i \in 1 .. l : s[i] = o[i]
      /\ \A i \in 1 .. 17 : s[l + i] = t[i]
  <2>1. s = o \o t
    BY DEF Unpatched
  <2> HIDE DEF o, t, s
  <2>2. IsSeq(o) /\ IsSeq(t)
    BY <1>1, <1>2
  <2>3. /\ IsSeq(s) /\ Len(s) = Len(o) + Len(t)
        /\ \A i \in 1 .. Len(o) : s[i] = o[i]
        /\ \A i \in 1 .. Len(t) : s[Len(o) + i] = t[i]
    <3>1. IsSeq(s) /\ Len(s) = Len(o) + Len(t)
      BY <2>1, <2>2, Concatenated
    <3>2. \A i \in 1 .. Len(o) : s[i] = o[i]
      BY <2>1, <2>2, Concatenated
    <3>3. \A i \in 1 .. Len(t) : s[Len(o) + i] = t[i]
      BY <2>1, <2>2, Concatenated
    <3> QED
      BY <3>1, <3>2, <3>3
  <2>4. Len(o) = l /\ Len(t) = 17
    BY <1>1, <1>2
  <2> QED
    BY ONLY <2>3, <2>4
<1> HIDE DEF s, o, t, l
<1>7. /\ IsSeq(p) /\ Len(p) = l + 17
      /\ \A j \in 1 .. l + 17 :
           /\ s[j].off # Fail => p[j] = s[j]
           /\ s[j].off = Fail => p[j] = [s[j] EXCEPT !.off = l + 17 - j]
  <2>1. /\ IsSeq(p) /\ Len(p) = Len(s)
        /\ \A j \in 1 .. Len(s) :
             /\ s[j].off # Fail => p[j] = s[j]
             /\ s[j].off = Fail => p[j] = [s[j] EXCEPT !.off = Len(s) - j]
    BY <1>6, PatchedAt
  <2>2. Len(s) = l + 17
    BY <1>6
  <2> HIDE DEF p
  <2>3. ASSUME NEW j \in 1 .. l + 17
        PROVE  /\ s[j].off # Fail => p[j] = s[j]
               /\ s[j].off = Fail => p[j] = [s[j] EXCEPT !.off = l + 17 - j]
    <3>1. j \in 1 .. Len(s)
      BY <2>2, <2>3
    <3>2. /\ s[j].off # Fail => p[j] = s[j]
          /\ s[j].off = Fail => p[j] = [s[j] EXCEPT !.off = Len(s) - j]
      BY <2>1, <3>1
    <3>3. Len(s) - j = l + 17 - j
      BY <2>2, <1>1
    <3> QED
      BY ONLY <3>2, <3>3
  <2> QED
    BY <2>1, <2>2, <2>3
<1>8. b = p \o z
  BY LoadParts DEF s
<1> HIDE DEF p, z, b
<1>9. /\ IsSeq(b) /\ Len(b) = l + 17 + Len(z)
      /\ \A i \in 1 .. l + 17 : b[i] = p[i]
      /\ \A i \in 1 .. Len(z) : b[l + 17 + i] = z[i]
  <2>1. IsSeq(p) /\ IsSeq(z) /\ Len(p) = l + 17
    BY <1>3, <1>7
  <2>2. /\ IsSeq(b) /\ Len(b) = Len(p) + Len(z)
        /\ \A i \in 1 .. Len(p) : b[i] = p[i]
        /\ \A i \in 1 .. Len(z) : b[Len(p) + i] = z[i]
    <3>1. IsSeq(b)
      BY <1>8, <2>1, Concatenated
    <3>4. Len(b) = Len(p) + Len(z)
      BY <1>8, <2>1, Concatenated
    <3>2. \A i \in 1 .. Len(p) : b[i] = p[i]
      BY <1>8, <2>1, Concatenated
    <3>3. \A i \in 1 .. Len(z) : b[Len(p) + i] = z[i]
      BY <1>8, <2>1, Concatenated
    <3> QED
      BY <3>1, <3>2, <3>3, <3>4
  <2> QED
    BY ONLY <2>1, <2>2
<1>10. ASSUME NEW i \in 1 .. l
       PROVE  /\ o[i].off # Fail => b[i] = o[i]
              /\ o[i].off = Fail => b[i] = [o[i] EXCEPT !.off = l + 17 - i]
  <2>1. l \in {1, 4} /\ i \in 1 .. l + 17
    BY <1>1
  <2>2. s[i] = o[i] /\ b[i] = p[i]
    BY <1>6, <1>9, <2>1
  <2>3. /\ s[i].off # Fail => p[i] = s[i]
        /\ s[i].off = Fail => p[i] = [s[i] EXCEPT !.off = l + 17 - i]
    BY <1>7, <2>1
  <2> QED
    BY <2>2, <2>3
<1>11. ASSUME NEW i \in 1 .. 17
       PROVE  /\ t[i].off # Fail => b[l + i] = t[i]
              /\ t[i].off = Fail => b[l + i] = [t[i] EXCEPT !.off = 17 - i]
  <2>1. l + i \in 1 .. l + 17 /\ l + 17 - (l + i) = 17 - i
    BY <1>1
  <2> QED
    <3>1. s[l + i] = t[i] /\ b[l + i] = p[l + i]
      BY <1>6, <1>9, <2>1
    <3>2. /\ s[l + i].off # Fail => p[l + i] = s[l + i]
          /\ s[l + i].off = Fail => p[l + i] = [s[l + i] EXCEPT !.off = l + 17 - (l + i)]
      BY <1>7, <2>1
    <3> QED
      BY <2>1, <3>1, <3>2
<1>12. ASSUME NEW w, NEW x, NEW dst, NEW src, NEW imm, NEW n
       PROVE  /\ Jump(w, x, dst, src, imm, Fail).off = Fail
              /\ [Jump(w, x, dst, src, imm, Fail) EXCEPT !.off = n]
                   = Jump(w, x, dst, src, imm, n)
  BY DEF Jump, Op
<1>13. /\ op = "abs" => b[1] = Alu32("mov", 2, Imm, k)
       /\ op = "ind" => /\ b[1] = Alu32("mov", 2, X, 0)
                        /\ b[2] = Alu32("mov", 1, 2, 0)
                        /\ b[3] = Alu32("add", 2, Imm, k)
                        /\ b[4] = Jump(64, "jlt", 2, 1, 0, 17)
  <2>1. CASE op = "abs"
    <3>1. o[1] = Alu32("mov", 2, Imm, k) /\ l = 1
      BY <1>1, <2>1
    <3>2. o[1].off # Fail
      BY <3>1 DEF Alu32, Op, Fail
    <3> QED
      BY <2>1, <3>1, <3>2, <1>10
  <2>2. CASE op = "ind"
    <3>1. l = 4
      BY <1>1, <2>2
    <3>4. o[1].off # Fail /\ o[2].off # Fail /\ o[3].off # Fail /\ o[4].off = Fail
      BY <1>1, <2>2 DEF Alu32, Jump, Op, Fail
    <3>2. /\ b[1] = o[1] /\ b[2] = o[2] /\ b[3] = o[3]
          /\ b[4] = [o[4] EXCEPT !.off = 17]
      BY <3>1, <3>4, <1>10
    <3>3. [o[4] EXCEPT !.off = 17] = Jump(64, "jlt", 2, 1, 0, 17)
      BY <2>2, <1>1, <1>12
    <3> QED
      BY <2>2, <3>2, <3>3, <1>1
  <2> QED
    BY <2>1, <2>2
<1>14. b[l + 1] = Jump(32, "jslt", 2, Imm, 0, 16)
  <2>1. t[1] = Jump(32, "jslt", 2, Imm, 0, Fail)
    BY ReadCode DEF t
  <2>2. b[l + 1] = [t[1] EXCEPT !.off = 16]
    BY <1>11, <1>12, <2>1
  <2> QED
    BY <1>12, <2>1, <2>2
<1>15. b[l + 2] = Alu32("mov", 3, 2, 0)
  <2>1. t[2] = Alu32("mov", 3, 2, 0)
    BY ReadCode DEF t
  <2>2. t[2].off # Fail
    BY <2>1, AluFields, OtherFields DEF Fail
  <2> QED
    BY <1>11, <2>1, <2>2
<1>16. b[l + 3] = Alu32("add", 3, Imm, size)
  <2>1. t[3] = Alu32("add", 3, Imm, size)
    BY ReadCode DEF t
  <2>2. t[3].off # Fail
    BY <2>1, AluFields, OtherFields DEF Fail
  <2> QED
    BY <1>11, <2>1, <2>2
<1>17. b[l + 4] = Jump(64, "jlt", 3, 2, 0, 13)
  <2>1. t[4] = Jump(64, "jlt", 3, 2, 0, Fail)
    BY ReadCode DEF t
  <2>2. b[l + 4] = [t[4] EXCEPT !.off = 13]
    BY <1>11, <1>12, <2>1
  <2> QED
    BY <1>12, <2>1, <2>2
<1>18. b[l + 5] = Load(8, 4, DataAt)
  <2>1. t[5] = Load(8, 4, DataAt)
    BY ReadCode DEF t
  <2>2. t[5].off # Fail
    <3>1. t[5].off = DataAt
      BY <2>1, MemFields
    <3> QED
      BY <3>1 DEF DataAt, DataEndAt, Fail
  <2> QED
    BY <1>11, <2>1, <2>2
<1>19. b[l + 6] = Load(8, 5, DataEndAt)
  <2>1. t[6] = Load(8, 5, DataEndAt)
    BY ReadCode DEF t
  <2>2. t[6].off # Fail
    <3>1. t[6].off = DataEndAt
      BY <2>1, MemFields
    <3> QED
      BY <3>1 DEF DataAt, DataEndAt, Fail
  <2> QED
    BY <1>11, <2>1, <2>2
<1>20. b[l + 7] = Jump(64, "jlt", 5, 4, 0, 10)
  <2>1. t[7] = Jump(64, "jlt", 5, 4, 0, Fail)
    BY ReadCode DEF t
  <2>2. b[l + 7] = [t[7] EXCEPT !.off = 10]
    BY <1>11, <1>12, <2>1
  <2> QED
    BY <1>12, <2>1, <2>2
<1>21. b[l + 8] = Alu64("sub", 5, 4, 0)
  <2>1. t[8] = Alu64("sub", 5, 4, 0)
    BY ReadCode DEF t
  <2>2. t[8].off # Fail
    BY <2>1, AluFields, OtherFields DEF Fail
  <2> QED
    BY <1>11, <2>1, <2>2
<1>22. b[l + 9] = Jump(64, "jgt", 3, 5, 0, 8)
  <2>1. t[9] = Jump(64, "jgt", 3, 5, 0, Fail)
    BY ReadCode DEF t
  <2>2. b[l + 9] = [t[9] EXCEPT !.off = 8]
    BY <1>11, <1>12, <2>1
  <2> QED
    BY <1>12, <2>1, <2>2
<1>23. b[l + 10] = Alu64("mov", 1, FP, 0)
  <2>1. t[10] = Alu64("mov", 1, FP, 0)
    BY ReadCode DEF t
  <2>2. t[10].off # Fail
    BY <2>1, AluFields, OtherFields DEF Fail
  <2> QED
    BY <1>11, <2>1, <2>2
<1>24. b[l + 11] = Alu64("add", 1, Imm, BytesAt)
  <2>1. t[11] = Alu64("add", 1, Imm, BytesAt)
    BY ReadCode DEF t
  <2>2. t[11].off # Fail
    BY <2>1, AluFields, OtherFields DEF Fail
  <2> QED
    BY <1>11, <2>1, <2>2
<1>25. b[l + 12] = Alu64("mov", 3, 4, 0)
  <2>1. t[12] = Alu64("mov", 3, 4, 0)
    BY ReadCode DEF t
  <2>2. t[12].off # Fail
    BY <2>1, AluFields, OtherFields DEF Fail
  <2> QED
    BY <1>11, <2>1, <2>2
<1>26. b[l + 13] = Alu64("add", 3, 2, 0)
  <2>1. t[13] = Alu64("add", 3, 2, 0)
    BY ReadCode DEF t
  <2>2. t[13].off # Fail
    BY <2>1, AluFields, OtherFields DEF Fail
  <2> QED
    BY <1>11, <2>1, <2>2
<1>27. b[l + 14] = Alu64("mov", 2, Imm, size)
  <2>1. t[14] = Alu64("mov", 2, Imm, size)
    BY ReadCode DEF t
  <2>2. t[14].off # Fail
    BY <2>1, AluFields, OtherFields DEF Fail
  <2> QED
    BY <1>11, <2>1, <2>2
<1>28. b[l + 15] = CallProbeRead
  <2>1. t[15] = CallProbeRead
    BY ReadCode DEF t
  <2>2. t[15].off # Fail
    BY <2>1, AluFields, OtherFields DEF Fail
  <2> QED
    BY <1>11, <2>1, <2>2
<1>29. b[l + 16] = Jump(64, "jne", A, Imm, 0, 1)
  <2>1. t[16] = Jump(64, "jne", A, Imm, 0, Fail)
    BY ReadCode DEF t
  <2>2. b[l + 16] = [t[16] EXCEPT !.off = 1]
    BY <1>11, <1>12, <2>1
  <2> QED
    BY <1>12, <2>1, <2>2
<1>30. b[l + 17] = JumpAlways(2)
  <2>1. t[17] = JumpAlways(2)
    BY ReadCode DEF t
  <2>2. t[17].off # Fail
    BY <2>1, JumpFields DEF Fail
  <2> QED
    BY <1>11, <2>1, <2>2
<1>31. b[l + 18] = z[1] /\ b[l + 19] = z[2] /\ b[l + 20] = z[3]
  BY <1>1, <1>3, <1>9
<1>32. size # 1 => b[l + 21] = z[4]
  BY <1>1, <1>3, <1>9
<1>33. Len(b) = l + (IF size = 1 THEN 20 ELSE 21)
  BY <1>1, <1>3, <1>9
<1> HIDE DEF l
<1>34. LoadCodeIs(b, l, op, size, k)
  BY <1>3, <1>9, <1>13, <1>14, <1>15, <1>16, <1>17, <1>18, <1>19, <1>20, <1>21,
     <1>22, <1>23, <1>24, <1>25, <1>26, <1>27, <1>28, <1>29, <1>30, <1>31, <1>32,
     <1>33
     DEF LoadCodeIs
<1> QED
  BY <1>34 DEF b, l

-----------------------------------------------------------------------------
(* Where the blocks are.                                                    *)

Size(p, i) == Len(Block(p[i]))

IsAddrs(p, at) ==
  at = [i \in 1 .. Len(p) + 1 |->
          IF i = 1 THEN Len(Prologue) ELSE at[i - 1] + Len(Block(p[i - 1]))]

\* Every instruction of p has a block.
HasBlocks(p) ==
  /\ Len(p) \in Nat /\ DOMAIN p = 1 .. Len(p)
  /\ \A i \in 1 .. Len(p) : IsSeq(Block(p[i])) /\ Size(p, i) \in Nat \ {0}

LEMMA PrologueCode ==
  /\ Len(Prologue) = 5
  /\ Prologue[1] = Store(8, 4, DataAt)
  /\ Prologue[2] = Store(8, 5, DataEndAt)
  /\ Prologue[3] = Alu64("mov", CTX, 1, 0)
  /\ Prologue[4] = Alu64("mov", A, Imm, 0)
  /\ Prologue[5] = Alu64("mov", X, Imm, 0)
BY DEF Prologue

\* The addresses up to the n-th.
IsAddrsTo(p, n, at) ==
  at = [i \in 1 .. n + 1 |->
          IF i = 1 THEN Len(Prologue) ELSE at[i - 1] + Len(Block(p[i - 1]))]

LEMMA AddrsExist == \A p : \A n \in Nat : \E at : IsAddrsTo(p, n, at)
<1> SUFFICES ASSUME NEW p PROVE \A n \in Nat : \E at : IsAddrsTo(p, n, at)
  OBVIOUS
<1> DEFINE T == {n \in Nat : \E at : IsAddrsTo(p, n, at)}
<1>1. 0 \in T
  <2>1. IsAddrsTo(p, 0, [i \in 1 .. 1 |-> Len(Prologue)])
    BY DEF IsAddrsTo
  <2> QED
    BY <2>1
<1>2. ASSUME NEW n \in T PROVE n + 1 \in T
  <2>1. PICK f : IsAddrsTo(p, n, f)
    OBVIOUS
  <2> DEFINE g == [i \in 1 .. n + 2 |->
                     IF i = 1 THEN Len(Prologue)
                     ELSE f[i - 1] + Len(Block(p[i - 1]))]
  <2>2. ASSUME NEW i \in 1 .. n + 1 PROVE g[i] = f[i]
    BY <2>1 DEF IsAddrsTo
  <2>3. ASSUME NEW i \in 1 .. n + 2, i # 1 PROVE g[i - 1] = f[i - 1]
    <3>1. i - 1 \in 1 .. n + 1
      BY <2>3
    <3> QED
      BY <3>1, <2>2
  <2>4. n + 1 + 1 = n + 2
    OBVIOUS
  <2>5. IsAddrsTo(p, n + 1, g)
    BY <2>3, <2>4 DEF IsAddrsTo
  <2> QED
    BY <2>5
<1> QED
  BY <1>1, <1>2, SetInduction

LEMMA AddrsDef ==
  ASSUME NEW p, HasBlocks(p)
  PROVE  LET at == Addrs(p)
         IN  /\ DOMAIN at = 1 .. Len(p) + 1 /\ at[1] = 5
             /\ \A i \in 1 .. Len(p) : at[i + 1] = at[i] + Size(p, i)
<1> DEFINE at == Addrs(p)
<1>1. PICK f : IsAddrs(p, f)
  BY AddrsExist DEF HasBlocks, IsAddrs, IsAddrsTo
<1>2. IsAddrs(p, at)
  BY <1>1 DEF Addrs, IsAddrs
<1> HIDE DEF at
<1>3. DOMAIN at = 1 .. Len(p) + 1 /\ at[1] = 5
  BY <1>2, PrologueCode DEF IsAddrs, HasBlocks
<1>4. ASSUME NEW i \in 1 .. Len(p)
      PROVE  at[i + 1] = at[i] + Size(p, i)
  <2>1. i + 1 \in 1 .. Len(p) + 1 /\ i + 1 # 1 /\ i + 1 - 1 = i
    BY DEF HasBlocks
  <2> QED
    BY <1>2, <2>1 DEF IsAddrs, Size
<1> QED
  BY <1>3, <1>4 DEF at

LEMMA AddrsType ==
  ASSUME NEW p, HasBlocks(p)
  PROVE  \A i \in 1 .. Len(p) + 1 : Addrs(p)[i] \in Nat /\ Addrs(p)[i] >= 5
<1> DEFINE at == Addrs(p)
           T == {n \in Nat : n + 1 \in 1 .. Len(p) + 1 =>
                               at[n + 1] \in Nat /\ at[n + 1] >= 5}
<1>1. /\ at[1] = 5
      /\ \A i \in 1 .. Len(p) : at[i + 1] = at[i] + Size(p, i)
  BY AddrsDef
<1>2. Len(p) \in Nat /\ \A i \in 1 .. Len(p) : Size(p, i) \in Nat
  BY DEF HasBlocks
<1> HIDE DEF at
<1>3. 0 \in T
  BY <1>1
<1>4. ASSUME NEW n \in T PROVE n + 1 \in T
  <2>1. CASE n + 1 + 1 \in 1 .. Len(p) + 1
    <3>1. n + 1 \in 1 .. Len(p)
      BY <2>1, <1>2
    <3> QED
      BY <3>1, <1>1, <1>2
  <2> QED
    BY <2>1
<1>5. Nat \subseteq T
  BY <1>3, <1>4, SetInduction
<1>6. ASSUME NEW i \in 1 .. Len(p) + 1 PROVE at[i] \in Nat /\ at[i] >= 5
  <2>1. i - 1 \in Nat /\ i - 1 + 1 = i
    BY <1>2
  <2>2. i - 1 \in T
    BY ONLY <2>1, <1>5
  <2> QED
    BY <2>1, <2>2
<1> QED
  BY <1>6 DEF at

\* Later blocks begin behind earlier ones.
LEMMA AddrsIncrease ==
  ASSUME NEW p, HasBlocks(p), NEW i \in 1 .. Len(p), NEW j \in 1 .. Len(p) + 1, i < j
  PROVE  Addrs(p)[i] + Size(p, i) <= Addrs(p)[j]
<1> DEFINE at == Addrs(p)
           T == {n \in Nat : i + 1 + n \in 1 .. Len(p) + 1 =>
                               at[i] + Size(p, i) <= at[i + 1 + n]}
<1>1. \A m \in 1 .. Len(p) : at[m + 1] = at[m] + Size(p, m)
  BY AddrsDef
<1>2. Len(p) \in Nat /\ \A m \in 1 .. Len(p) : Size(p, m) \in Nat
  BY DEF HasBlocks
<1>3. \A m \in 1 .. Len(p) + 1 : at[m] \in Nat
  BY AddrsType
<1> HIDE DEF at
<1>4. 0 \in T
  BY <1>1, <1>2, <1>3
<1>5. ASSUME NEW n \in T PROVE n + 1 \in T
  <2>1. CASE i + 1 + (n + 1) \in 1 .. Len(p) + 1
    <3> DEFINE m == i + 1 + n
    <3>1. m \in 1 .. Len(p) /\ i + 1 + (n + 1) = m + 1
      BY <2>1, <1>2
    <3>2. at[i] + Size(p, i) <= at[m]
      BY <3>1
    <3>3. at[m + 1] = at[m] + Size(p, m)
      BY <3>1, <1>1
    <3> HIDE DEF m
    <3>4. at[m] \in Nat /\ Size(p, m) \in Nat /\ at[i] \in Nat /\ Size(p, i) \in Nat
      BY <3>1, <1>2, <1>3
    <3> QED
      BY <3>1, <3>2, <3>3, <3>4, SMTT(20)
  <2> QED
    BY <2>1
<1>6. Nat \subseteq T
  BY <1>4, <1>5, SetInduction
<1>7. j - i - 1 \in Nat /\ i + 1 + (j - i - 1) = j
  BY <1>2
<1>8. j - i - 1 \in T
  BY ONLY <1>6, <1>7
<1> QED
  BY <1>7, <1>8 DEF at

-----------------------------------------------------------------------------
(* What is where in the converted program.                                  *)

Placed(p, i, j) ==
  LET e == Block(p[i])[j]
  IN  IF e.over = Short THEN e
      ELSE [e EXCEPT !.off = Offset2(Addrs(p), i, j, e.over)]

LEMMA ConvertLen ==
  ASSUME NEW p, HasBlocks(p)
  PROVE  Len(Convert(p)) = Addrs(p)[Len(p) + 1]
<1>1. Addrs(p)[Len(p) + 1] \in Nat
  BY AddrsType DEF HasBlocks
<1>2. Convert(p) = [n \in 1 .. Addrs(p)[Len(p) + 1] |-> Convert(p)[n]]
  BY SMTT(20) DEF Convert
<1> QED
  BY <1>1, <1>2, FunctionIsSeq

LEMMA ConvertPrologue ==
  ASSUME NEW p, HasBlocks(p), NEW n \in 1 .. 5
  PROVE  n \in 1 .. Addrs(p)[Len(p) + 1] /\ Convert(p)[n] = Prologue[n]
<1>1. Addrs(p)[Len(p) + 1] \in Nat /\ Addrs(p)[Len(p) + 1] >= 5
  BY AddrsType DEF HasBlocks
<1> QED
  <2>1. n \in 1 .. Addrs(p)[Len(p) + 1] /\ n <= Len(Prologue)
    BY <1>1, PrologueCode
  <2> QED
    BY <2>1 DEF Convert

LEMMA ConvertBlock ==
  ASSUME NEW p, HasBlocks(p), NEW i \in 1 .. Len(p), NEW j \in 1 .. Size(p, i)
  PROVE  /\ Addrs(p)[i] + j \in 1 .. Addrs(p)[Len(p) + 1]
         /\ Convert(p)[Addrs(p)[i] + j] = Placed(p, i, j)
<1> DEFINE at == Addrs(p)
           n == at[i] + j
<1>1. /\ Len(p) \in Nat /\ DOMAIN p = 1 .. Len(p) /\ Size(p, i) \in Nat
      /\ i \in 1 .. Len(p) + 1 /\ i + 1 \in 1 .. Len(p) + 1
      /\ Len(p) + 1 \in 1 .. Len(p) + 1
  BY DEF HasBlocks
<1>2. at[i] \in Nat /\ at[i] >= 5 /\ at[i + 1] = at[i] + Size(p, i)
  BY <1>1, AddrsDef, AddrsType
<1>3. at[i] + Size(p, i) <= at[Len(p) + 1] /\ at[Len(p) + 1] \in Nat
  BY <1>1, AddrsIncrease, AddrsType
<1>4. n \in 1 .. at[Len(p) + 1] /\ n > 5 /\ at[i] < n /\ n <= at[i + 1]
  BY <1>1, <1>2, <1>3
<1>5. ASSUME NEW k \in DOMAIN p, at[k] < n, n <= at[k + 1]
      PROVE  k = i
  <2>1. k \in 1 .. Len(p) /\ k + 1 \in 1 .. Len(p) + 1 /\ k \in 1 .. Len(p) + 1
    BY <1>1
  <2>2. at[k] \in Nat /\ at[k + 1] \in Nat
    BY <2>1, AddrsType
  <2>3. k < i => at[k + 1] <= at[i]
    <3>1. k < i => at[k] + Size(p, k) <= at[i]
      BY <1>1, <2>1, AddrsIncrease
    <3>2. at[k + 1] = at[k] + Size(p, k)
      BY <2>1, AddrsDef
    <3> QED
      BY <3>1, <3>2
  <2>4. i < k => at[i + 1] <= at[k]
    <3>1. i < k => at[i] + Size(p, i) <= at[k]
      BY <1>1, <2>1, AddrsIncrease
    <3> QED
      BY <3>1, <1>2
  <2> HIDE DEF at, n
  <2>5. ~(k < i) /\ ~(i < k)
    <3>1. n \in Nat /\ at[i] \in Nat /\ at[i + 1] \in Nat
      BY <1>1, <1>2, <1>3, <1>4
    <3> QED
      BY <1>4, <1>5, <2>2, <2>3, <2>4, <3>1
  <2> QED
    BY <2>1, <2>5, <1>1
<1> DEFINE c == CHOOSE k \in DOMAIN p : at[k] < n /\ n <= at[k + 1]
<1>6. c = i
  <2>1. i \in DOMAIN p
    BY <1>1
  <2> HIDE DEF at, n
  <2> QED
    BY <2>1, <1>4, <1>5
<1>7. n - at[i] = j /\ ~(n <= Len(Prologue))
  BY <1>2, <1>4, PrologueCode, SMTT(20)
<1>8. Convert(p)[n] =
        LET e == Block(p[c])[n - at[c]]
        IN  IF e.over = Short THEN e
            ELSE [e EXCEPT !.off = Offset2(at, c, n - at[c], e.over)]
  BY <1>4, <1>7, Zenon DEF Convert
<1> HIDE DEF at, n, c
<1>9. Convert(p)[n] = Placed(p, i, j)
  BY <1>6, <1>7, <1>8 DEF Placed, at
<1> QED
  BY <1>4, <1>9 DEF at, n

-----------------------------------------------------------------------------
(* The blocks of the other instructions.                                    *)

\* Instructions whose block is one instruction.
OneInsn(c) ==
  CASE c.cls = "st"   -> Store(4, A, MemAt(c.k))
    [] c.cls = "stx"  -> Store(4, X, MemAt(c.k))
    [] c.cls = "ldm"  -> Load(4, A, MemAt(c.k))
    [] c.cls = "ldxm" -> Load(4, X, MemAt(c.k))
    [] c.cls = "ldi"  -> Alu32("mov", A, Imm, c.k)
    [] c.cls = "ldxi" -> Alu32("mov", X, Imm, c.k)
    [] c.cls = "tax"  -> Alu64("mov", X, A, 0)
    [] c.cls = "txa"  -> Alu64("mov", A, X, 0)

Singles == {"st", "stx", "ldm", "ldxm", "ldi", "ldxi", "tax", "txa"}

LEMMA OneSeq ==
  ASSUME NEW a
  PROVE  IsSeq(<<a>>) /\ Len(<<a>>) = 1 /\ <<a>>[1] = a
BY DEF IsSeq

LEMMA SingleCode ==
  ASSUME NEW c, c.cls \in Singles
  PROVE  IsSeq(Block(c)) /\ Len(Block(c)) = 1 /\ Block(c)[1] = OneInsn(c)
<1>1. Block(c) = <<OneInsn(c)>>
  BY DEF Block, OneInsn, Singles
<1> HIDE DEF OneInsn
<1> QED
  BY <1>1, OneSeq

\* A division by X tests it first.
Divides(c) == c.op \in {"div", "mod"} /\ c.src = "x"

AluInsn(c) == Alu32(c.op, A, IF c.src = "x" THEN X ELSE Imm, c.k)

LEMMA AluCode ==
  ASSUME NEW c, c.cls = "alu"
  PROVE  /\ IsSeq(Block(c))
         /\ ~Divides(c) => Len(Block(c)) = 1 /\ Block(c)[1] = AluInsn(c)
         /\ Divides(c) =>
              /\ Len(Block(c)) = 5
              /\ Block(c)[1] = Alu32("mov", X, X, 0)
              /\ Block(c)[2] = Jump(64, "jne", X, Imm, 0, 2)
              /\ Block(c)[3] = Alu64("mov", A, Imm, 0)
              /\ Block(c)[4] = Exit
              /\ Block(c)[5] = AluInsn(c)
<1>1. Block(c) = AluBlock(c)
  BY DEF Block
<1>2. CASE ~Divides(c)
  <2>1. AluBlock(c) = <<>> \o <<AluInsn(c)>>
    BY <1>2 DEF AluBlock, Divides, AluInsn
  <2> HIDE DEF AluInsn
  <2>2. IsSeq(<<>>) /\ IsSeq(<<AluInsn(c)>>)
    BY DEF IsSeq
  <2>3. IsSeq(AluBlock(c))
    BY <2>1, <2>2, Concatenated
  <2>4. Len(<<>> \o <<AluInsn(c)>>) = 1 /\ (<<>> \o <<AluInsn(c)>>)[1] = AluInsn(c)
    OBVIOUS
  <2> QED
    BY <1>1, <1>2, <2>1, <2>3, <2>4
<1>3. CASE Divides(c)
  <2> DEFINE t == <<Alu32("mov", X, X, 0), Jump(64, "jne", X, Imm, 0, 2)>>
             i == <<AluInsn(c)>>
  <2>1. AluBlock(c) = t \o EpilogueFail \o i
    BY <1>3 DEF AluBlock, Divides, AluInsn
  <2> HIDE DEF AluInsn
  <2>2. IsSeq(t) /\ IsSeq(EpilogueFail) /\ IsSeq(i)
    BY DEF IsSeq, EpilogueFail
  <2>3. IsSeq(t \o EpilogueFail)
    BY <2>2, Concatenated
  <2>4. IsSeq(AluBlock(c))
    BY <2>1, <2>2, <2>3, Concatenated
  <2>5. LET b == t \o EpilogueFail \o i
        IN  /\ Len(b) = 5
            /\ b[1] = Alu32("mov", X, X, 0)
            /\ b[2] = Jump(64, "jne", X, Imm, 0, 2)
            /\ b[3] = Alu64("mov", A, Imm, 0)
            /\ b[4] = Exit
            /\ b[5] = AluInsn(c)
    BY DEF EpilogueFail
  <2> QED
    BY <1>1, <1>3, <2>1, <2>4, <2>5
<1> QED
  BY <1>2, <1>3

\* The packet load of msh begins behind its first instruction.
LEMMA MshCode ==
  ASSUME NEW c, c.cls = "msh"
  PROVE  LET b == Block(c)
             l == PacketLoad("abs", 1, c.k)
         IN  /\ IsSeq(b) /\ Len(b) = 27 /\ Len(l) = 21
             /\ b[1] = Alu64("mov", X, A, 0)
             /\ \A q \in 1 .. 21 : b[1 + q] = l[q]
             /\ b[23] = Alu32("and", A, Imm, NibbleMod - 1)
             /\ b[24] = Alu32("lsh", A, Imm, 2)
             /\ b[25] = Alu64("mov", TMP, X, 0)
             /\ b[26] = Alu64("mov", X, A, 0)
             /\ b[27] = Alu64("mov", A, TMP, 0)
<1> DEFINE b == Block(c)
           l == PacketLoad("abs", 1, c.k)
           f == <<Alu64("mov", X, A, 0)>>
           e == <<Alu32("and", A, Imm, NibbleMod - 1), Alu32("lsh", A, Imm, 2),
                  Alu64("mov", TMP, X, 0), Alu64("mov", X, A, 0),
                  Alu64("mov", A, TMP, 0)>>
           g == f \o l
<1>1. b = g \o e
  BY DEF Block, MshBlock
<1>2. IsSeq(l) /\ Len(l) = 21
  <2>1. Len(l) = OffsetLen("abs") + 20
    BY LoadCode DEF LoadCodeIs
  <2> QED
    BY <2>1, LoadCode DEF OffsetLen, LoadCodeIs
<1>3. IsSeq(f) /\ Len(f) = 1 /\ f[1] = Alu64("mov", X, A, 0)
  BY OneSeq
<1>4. /\ IsSeq(e) /\ Len(e) = 5
      /\ e[1] = Alu32("and", A, Imm, NibbleMod - 1)
      /\ e[2] = Alu32("lsh", A, Imm, 2)
      /\ e[3] = Alu64("mov", TMP, X, 0)
      /\ e[4] = Alu64("mov", X, A, 0)
      /\ e[5] = Alu64("mov", A, TMP, 0)
  BY DEF IsSeq
<1> HIDE DEF b, l, f, e
<1>5. g = Cat(f, l) /\ b = Cat(g, e)
  BY <1>1 DEF Cat
<1> HIDE DEF g
<1>6. /\ IsSeq(g) /\ Len(g) = 22 /\ g[1] = f[1]
      /\ \A i \in 1 .. 21 : g[1 + i] = l[i]
  <2>1. /\ IsSeq(g) /\ Len(g) = Len(f) + Len(l)
        /\ \A i \in 1 .. Len(f) : g[i] = f[i]
        /\ \A i \in 1 .. Len(l) : g[Len(f) + i] = l[i]
    <3>1. IsSeq(f) /\ IsSeq(l) /\ g = Cat(f, l)
      BY <1>2, <1>3, <1>5
    <3>2. IsSeq(g)
      BY <3>1, ChainedSeq
    <3>3. Len(g) = Len(f) + Len(l)
      BY <3>1, ChainedLen
    <3>4. \A i \in 1 .. Len(f) : g[i] = f[i]
      BY <3>1, ChainedFirst
    <3>5. \A i \in 1 .. Len(l) : g[Len(f) + i] = l[i]
      BY <3>1, ChainedSecond
    <3> QED
      BY <3>2, <3>3, <3>4, <3>5
  <2>2. Len(f) = 1 /\ Len(l) = 21
    BY <1>2, <1>3
  <2> QED
    BY ONLY <2>1, <2>2
<1>9. /\ IsSeq(b) /\ Len(b) = 27
      /\ \A i \in 1 .. 22 : b[i] = g[i]
      /\ \A i \in 1 .. 5 : b[22 + i] = e[i]
  <2>1. /\ IsSeq(b) /\ Len(b) = Len(g) + Len(e)
        /\ \A i \in 1 .. Len(g) : b[i] = g[i]
        /\ \A i \in 1 .. Len(e) : b[Len(g) + i] = e[i]
    <3>1. IsSeq(g) /\ IsSeq(e) /\ b = Cat(g, e)
      BY <1>4, <1>5, <1>6
    <3>2. IsSeq(b)
      BY <3>1, ChainedSeq
    <3>3. Len(b) = Len(g) + Len(e)
      BY <3>1, ChainedLen
    <3>4. \A i \in 1 .. Len(g) : b[i] = g[i]
      BY <3>1, ChainedFirst
    <3>5. \A i \in 1 .. Len(e) : b[Len(g) + i] = e[i]
      BY <3>1, ChainedSecond
    <3> QED
      BY <3>2, <3>3, <3>4, <3>5
  <2>2. Len(g) = 22 /\ Len(e) = 5
    BY <1>4, <1>6
  <2> QED
    BY ONLY <2>1, <2>2
<1>13. ASSUME NEW q \in 1 .. 21 PROVE b[1 + q] = l[q]
  <2>1. 1 + q \in 1 .. 22
    OBVIOUS
  <2> QED
    BY <2>1, <1>6, <1>9
<1>14. b[1] = f[1]
  BY <1>6, <1>9
<1>15. b[23] = e[1] /\ b[24] = e[2] /\ b[25] = e[3] /\ b[26] = e[4] /\ b[27] = e[5]
  BY <1>9
<1> QED
  BY <1>2, <1>3, <1>4, <1>9, <1>13, <1>14, <1>15 DEF b, l

LEMMA RetCode ==
  ASSUME NEW c, c.cls = "ret"
  PROVE  /\ IsSeq(Block(c))
         /\ c.src = "k" =>
              /\ Len(Block(c)) = 2
              /\ Block(c)[1] = Alu32("mov", A, Imm, IF c.k # 0 THEN 1 ELSE 0)
              /\ Block(c)[2] = Exit
         /\ c.src # "k" =>
              /\ Len(Block(c)) = 5
              /\ Block(c)[1] = Jump(64, "jeq", A, Imm, 0, 2)
              /\ Block(c)[2] = Alu32("mov", A, Imm, 1)
              /\ Block(c)[3] = JumpAlways(1)
              /\ Block(c)[4] = Alu32("mov", A, Imm, 0)
              /\ Block(c)[5] = Exit
<1>1. Block(c) = RetBlock(c)
  BY DEF Block
<1>2. CASE c.src = "k"
  BY <1>1, <1>2 DEF RetBlock, IsSeq
<1>3. CASE c.src # "k"
  BY <1>1, <1>3 DEF RetBlock, IsSeq
<1> QED
  BY <1>2, <1>3

LEMMA OverFields ==
  ASSUME NEW n, NEW op, NEW src, NEW imm
  PROVE  LET o == Over(n, op, src, imm)
         IN  /\ o.cls = "jmp" /\ o.w = 64 /\ o.op = op /\ o.dst = A
             /\ o.src = src /\ o.imm = imm /\ o.off = 0 /\ o.over = n
             /\ \A off : LET p == [o EXCEPT !.off = off]
                         IN  /\ p.cls = "jmp" /\ p.w = 64 /\ p.op = op
                             /\ p.dst = A /\ p.src = src /\ p.imm = imm
                             /\ p.off = off /\ p.over = n
BY DEF Over, Jump, Op

\* A negative immediate is put into a register first.
Pre(c) == IF IsNegative(c) THEN 1 ELSE 0
Source(c) == IF IsNegative(c) THEN TMP ELSE IF c.src = "x" THEN X ELSE Imm
JumpImm(c) == IF IsNegative(c) THEN 0 ELSE c.k

LEMMA JumpCode ==
  ASSUME NEW c, c.cls = "jmp"
  PROVE  LET b == Block(c)
             n == Pre(c)
         IN  /\ IsSeq(b)
             /\ c.op = "ja" => Len(b) = 1 /\ b[1] = Over(c.k, "ja", Imm, 0)
             /\ c.op # "ja" /\ IsNegative(c) => b[1] = Alu32("mov", TMP, Imm, c.k)
             /\ c.op # "ja" /\ c.jf = 0 =>
                  /\ Len(b) = n + 1
                  /\ b[n + 1] = Over(c.jt, c.op, Source(c), JumpImm(c))
             /\ c.op \notin {"ja", "jset"} /\ c.jf # 0 /\ c.jt = 0 =>
                  /\ Len(b) = n + 1
                  /\ b[n + 1] = Over(c.jf, Opposite[c.op], Source(c), JumpImm(c))
             /\ c.op # "ja" /\ c.jf # 0 /\ (c.jt # 0 \/ c.op = "jset") =>
                  /\ Len(b) = n + 2
                  /\ b[n + 1] = Over(c.jt, c.op, Source(c), JumpImm(c))
                  /\ b[n + 2] = Over(c.jf, "ja", Imm, 0)
<1> DEFINE first == Over(c.jt, c.op, Source(c), JumpImm(c))
           other == Over(c.jf, Opposite[c.op], Source(c), JumpImm(c))
           always == Over(c.jf, "ja", Imm, 0)
           load == Alu32("mov", TMP, Imm, c.k)
           pre == IF IsNegative(c) THEN <<load>> ELSE <<>>
<1>1. Block(c) = JumpBlock(c)
  BY DEF Block
<1>2. Block(c) =
        IF c.op = "ja" THEN <<Over(c.k, "ja", Imm, 0)>>
        ELSE IF c.jf = 0 THEN Append(pre, first)
        ELSE IF c.jt = 0 /\ c.op # "jset" THEN Append(pre, other)
        ELSE Append(Append(pre, first), always)
  BY <1>1 DEF JumpBlock, Source, JumpImm
<1> HIDE DEF first, other, always, load
<1>3. ASSUME NEW a, NEW b
      PROVE  /\ Len(Append(<<>>, a)) = 1 /\ Append(<<>>, a)[1] = a
             /\ Len(Append(<<load>>, a)) = 2 /\ Append(<<load>>, a)[1] = load
             /\ Append(<<load>>, a)[2] = a
             /\ Len(Append(Append(<<>>, a), b)) = 2
             /\ Append(Append(<<>>, a), b)[1] = a
             /\ Append(Append(<<>>, a), b)[2] = b
             /\ Len(Append(Append(<<load>>, a), b)) = 3
             /\ Append(Append(<<load>>, a), b)[1] = load
             /\ Append(Append(<<load>>, a), b)[2] = a
             /\ Append(Append(<<load>>, a), b)[3] = b
  OBVIOUS
<1>4. ASSUME NEW a, NEW b
      PROVE  /\ IsSeq(<<a>>) /\ IsSeq(Append(<<>>, a)) /\ IsSeq(Append(<<load>>, a))
             /\ IsSeq(Append(Append(<<>>, a), b))
             /\ IsSeq(Append(Append(<<load>>, a), b))
  <2> DEFINE S == {a, b, load}
  <2>1. <<>> \in Seq(S) /\ <<load>> \in Seq(S) /\ <<a>> \in Seq(S)
    OBVIOUS
  <2>2. \A u \in Seq(S) : Append(u, a) \in Seq(S) /\ Append(u, b) \in Seq(S)
    BY AppendProperties
  <2> HIDE DEF S
  <2>3. \A u \in Seq(S) : IsSeq(u)
    BY SeqIsSeq
  <2> QED
    BY <2>1, <2>2, <2>3
<1>5. CASE IsNegative(c)
  <2>1. Pre(c) = 1 /\ pre = <<load>>
    BY <1>5 DEF Pre
  <2>2. CASE c.op = "ja"
    BY <2>2, <1>2, <1>4, OneSeq
  <2>3. CASE c.op # "ja" /\ c.jf = 0
    BY <2>1, <2>3, <1>2, <1>3, <1>4 DEF first, load
  <2>4. CASE c.op \notin {"ja", "jset"} /\ c.jf # 0 /\ c.jt = 0
    BY <2>1, <2>4, <1>2, <1>3, <1>4 DEF other, load
  <2>5. CASE c.op # "ja" /\ c.jf # 0 /\ (c.jt # 0 \/ c.op = "jset")
    <3>1. Block(c) = Append(Append(<<load>>, first), always)
      BY <2>1, <2>5, <1>2
    <3>2. IsSeq(Block(c))
      BY <3>1, <1>4
    <3>3. /\ Len(Block(c)) = 3 /\ Block(c)[1] = load
          /\ Block(c)[2] = first /\ Block(c)[3] = always
      BY <3>1
    <3> QED
      BY <2>1, <2>5, <3>2, <3>3 DEF first, always, load
  <2> QED
    BY <2>2, <2>3, <2>4, <2>5
<1>6. CASE ~IsNegative(c)
  BY <1>2, <1>3, <1>4, <1>6 DEF Pre, first, other, always
<1> QED
  BY <1>5, <1>6

-----------------------------------------------------------------------------
(* The inductive invariant.  Between the instructions of a block it says    *)
(* what the registers and the frame hold, in terms of the classic machine    *)
(* ref at the instruction that the block was made from.  q counts the        *)
(* instructions of a block from 1 and is the next one to be executed.        *)

Dword == 0 .. DwMod - 1

LEMMA WordInDword == Word \subseteq Dword
BY Sizes DEF Word, Dword

\* R0 and R7 are the registers of the classic machine.
Matches == reg[A] = ref.a /\ reg[X] = ref.x

FrameHas(at, bytes, n) == \A j \in 1 .. n : frame[at + j - 1] = bytes[j]

\* The bounds of the packet and the scratch words are in the frame.
HasData == FrameHas(DataAt, BytesOf(PacketAt, 8), 8)
HasDataEnd == FrameHas(DataEndAt, BytesOf(PacketAt + Len(pkt), 8), 8)
HasScratch ==
  \A k \in Scratch : ref.m[k] # Undef => FrameHas(MemAt(k), BytesOf(ref.m[k], 4), 4)

\* The bytes of the packet were read.
HasBytes(c) == FrameHas(BytesAt, PacketBytes(ref, c), c.size)

\* In a packet load: p counts from what follows the offset.
OffsetInv(c, q) ==
  c.op = "ind" =>
    /\ q = 1 => reg[X] = ref.x
    /\ q \in {2, 3} => reg[2] = ref.x
    /\ q \in {3, 4} => reg[1] = ref.x
    /\ q = 4 => reg[2] = (ref.x + c.k) % WordMod

CheckInv(c, p) ==
  LET from == LoadFrom(ref, c)
  IN  /\ p \in 1 .. 14 => reg[2] = from
      /\ p \in 1 .. 17 => from \in Word
      /\ p \in 2 .. 17 => from < WordMod \div 2
      /\ p = 3 => reg[3] = from
      /\ p \in 4 .. 9 => reg[3] = from + c.size
      /\ p \in 6 .. 12 => reg[4] = PacketAt
      /\ p \in {7, 8} => reg[5] = PacketAt + Len(pkt)
      /\ p = 9 => reg[5] = Len(pkt)
      /\ p \in 10 .. 17 \cup {20, 21} => InPacket(ref, c)

ReadInv(c, p) ==
  LET from == LoadFrom(ref, c)
  IN  /\ p = 11 => reg[1] = FrameAt
      /\ p \in 12 .. 15 => reg[1] = FrameAt + BytesAt
      /\ p = 13 => reg[3] = PacketAt
      /\ p \in {14, 15} => reg[3] = PacketAt + from
      /\ p = 15 => reg[2] = c.size
      /\ p = 16 /\ ~faulted => reg[A] = 0 /\ HasBytes(c)
      /\ p = 16 /\ faulted => reg[A] \in Dword \ {0}
      /\ p \in {17, 20} => HasBytes(c)
      /\ p \in {18, 19} => faulted \/ ~InPacket(ref, c)
      /\ p = 19 => reg[A] = 0
      /\ p = 21 => reg[A] = LittleEndian(PacketBytes(ref, c), c.size)
      /\ faulted => p \in {16, 18, 19}

LoadInv(c, q) ==
  LET p == q - OffsetLen(c.op)
  IN  OffsetInv(c, q) /\ CheckInv(c, p) /\ ReadInv(c, p)

LdInv(c, q) ==
  /\ q = 1 => Matches
  /\ reg[X] = ref.x
  /\ LoadInv(c, q)

\* The length of an IP header, from its first byte.
HeaderByte(c) == PacketBytes(ref, c)[1]

MshInv(c, q) ==
  /\ q = 1 => Matches
  /\ q \in 2 .. 22 => LoadInv(c, q - 1)
  /\ q \in 23 .. 27 => InPacket(ref, c)
  /\ q \in 2 .. 25 => reg[X] = ref.a
  /\ q = 23 => reg[A] = HeaderByte(c)
  /\ q = 24 => reg[A] = HeaderByte(c) % NibbleMod
  /\ q \in {25, 26} => reg[A] = (HeaderByte(c) % NibbleMod) * 4
  /\ q \in {26, 27} => reg[TMP] = ref.a
  /\ q = 27 => reg[X] = (HeaderByte(c) % NibbleMod) * 4
  /\ q \in {1} \cup 23 .. 27 => ~faulted

AluInv(c, q) ==
  /\ q \in {1, 2, 5} => Matches
  /\ q \in {3, 4} => ref.x = 0
  /\ q = 4 => reg[A] = 0
  /\ q = 5 => ref.x # 0
  /\ ~faulted

ClassicOperand(c) == IF c.src = "x" THEN ref.x ELSE c.k

JumpInv(c, q) ==
  /\ Matches
  /\ q > 1 /\ c.op # "ja" /\ IsNegative(c) => reg[TMP] = c.k
  /\ q = Pre(c) + 2 => ~Compare(c.op, ref.a, ClassicOperand(c), WordMod)
  /\ ~faulted

RetInv(c, q) ==
  /\ q = 1 => Matches
  /\ c.src = "k" /\ q = 2 => reg[A] = IF c.k # 0 THEN 1 ELSE 0
  /\ c.src = "a" /\ q \in {2, 3} => ref.a # 0
  /\ c.src = "a" /\ q = 3 => reg[A] = 1
  /\ c.src = "a" /\ q = 4 => ref.a = 0
  /\ c.src = "a" /\ q = 5 => reg[A] = IF ref.a # 0 THEN 1 ELSE 0
  /\ ~faulted

BlockInv(c, q) ==
  /\ c.cls = "alu" => AluInv(c, q)
  /\ c.cls = "ld" => LdInv(c, q)
  /\ c.cls = "msh" => MshInv(c, q)
  /\ c.cls = "jmp" => JumpInv(c, q)
  /\ c.cls = "ret" => RetInv(c, q)
  /\ c.cls \in Singles => Matches /\ ~faulted

\* The registers of the classic machine hold words, and no word is loaded
\* from the scratch memory that was not stored.
RefInv ==
  /\ ref.at \in 1 .. Len(prog) /\ ref.res = "run"
  /\ ref = [at |-> ref.at, a |-> ref.a, x |-> ref.x, m |-> ref.m, res |-> ref.res]
  /\ ref.a \in Word /\ ref.x \in Word
  /\ ref.m \in [Scratch -> Word \cup {Undef}]
  /\ \A k \in StoredBefore(prog)[ref.at] \cap Scratch : ref.m[k] # Undef

Pos == pc - addrs[ref.at] + 1

InBlock ==
  /\ HasData /\ HasDataEnd /\ HasScratch
  /\ Pos \in 1 .. Size(prog, ref.at)
  /\ BlockInv(prog[ref.at], Pos)
  /\ status = "exit" => Block(prog[ref.at])[Pos] = Exit

InPrologue ==
  /\ status = "run" /\ ~faulted /\ pc \in Nat
  /\ ref.at = 1 /\ ref.a = 0 /\ ref.x = 0 /\ \A k \in Scratch : ref.m[k] = Undef
  /\ reg[1] = 1 /\ reg[4] = PacketAt /\ reg[5] = PacketAt + Len(pkt)
  /\ pc > 0 => HasData
  /\ pc > 1 => HasDataEnd
  /\ pc > 3 => reg[A] = 0

Base ==
  /\ prog \in Programs /\ pkt \in Packets
  /\ status \in {"run", "exit", "rejected"}
  /\ DOMAIN reg = 0 .. 10 /\ DOMAIN frame = Frame

Converted ==
  /\ Converts(prog) /\ code = Convert(prog) /\ addrs = Addrs(prog)
  /\ reg[FP] = FrameAt

IInv ==
  /\ Base
  /\ status # "rejected" =>
       /\ Converted /\ RefInv
       /\ pc \in Nat
       /\ pc < 5 => InPrologue
       /\ pc >= 5 => InBlock

-----------------------------------------------------------------------------
(* Where the program is.                                                    *)

LEMMA ProgramShape ==
  ASSUME NEW p \in Programs
  PROVE  /\ p \in Seq(Insn) /\ Len(p) \in Nat \ {0} /\ DOMAIN p = 1 .. Len(p)
         /\ \A i \in 1 .. Len(p) : ShapeOK(p[i]) /\ p[i] \in Insn
         /\ p[Len(p)].cls = "ret"
         /\ LoadsStored(p, StoredBefore(p))
<1>1. /\ p \in Seq(Insn) /\ p # <<>> /\ p[Len(p)].cls = "ret"
      /\ \A i \in DOMAIN p : ShapeOK(p[i])
      /\ LoadsStored(p, StoredBefore(p))
  BY ProgramsAssumption
<1>2. Len(p) \in Nat /\ DOMAIN p = 1 .. Len(p) /\ \A i \in 1 .. Len(p) : p[i] \in Insn
  BY <1>1, LenProperties
<1>3. Len(p) # 0
  BY <1>1, EmptySeq
<1> QED
  BY <1>1, <1>2, <1>3

LEMMA BlockLen ==
  ASSUME NEW c, ShapeOK(c), Supported(c)
  PROVE  IsSeq(Block(c)) /\ Len(Block(c)) \in Nat \ {0}
<1>1. CASE c.cls = "alu"
  <2>1. Len(Block(c)) \in {1, 5}
    BY <1>1, AluCode
  <2> QED
    BY <1>1, <2>1, AluCode
<1>2. CASE c.cls = "ld"
  <2>1. Block(c) = PacketLoad(c.op, c.size, c.k)
    BY <1>2 DEF Block
  <2>2. c.op \in {"abs", "ind"} /\ c.size \in {1, 2, 4}
    BY <1>2 DEF ShapeOK
  <2>3. OffsetLen(c.op) \in {1, 4}
    BY DEF OffsetLen
  <2> DEFINE b == PacketLoad(c.op, c.size, c.k)
  <2>4. IsSeq(b)
    BY <2>2, LoadCode DEF LoadCodeIs
  <2>5. Len(b) = OffsetLen(c.op) + (IF c.size = 1 THEN 20 ELSE 21)
    BY <2>2, LoadCode DEF LoadCodeIs
  <2> HIDE DEF b
  <2> QED
    BY <2>1, <2>3, <2>4, <2>5 DEF b
<1>3. CASE c.cls = "msh"
  <2> DEFINE b == Block(c)
  <2>1. IsSeq(b) /\ Len(b) = 27
    BY <1>3, MshCode
  <2> HIDE DEF b
  <2>2. IsSeq(b) /\ Len(b) \in Nat \ {0}
    BY <2>1
  <2> QED
    BY <2>2 DEF b
<1>4. CASE c.cls = "jmp"
  <2> DEFINE b == Block(c)
             n == Pre(c)
  <2>1. n \in {0, 1}
    BY DEF Pre
  <2>2. IsSeq(b) /\ Len(b) \in {1, n + 1, n + 2}
    BY <1>4, JumpCode
  <2> HIDE DEF b, n
  <2>3. IsSeq(b) /\ Len(b) \in Nat \ {0}
    BY <2>1, <2>2
  <2> QED
    BY <2>3 DEF b
<1>5. CASE c.cls = "ret"
  <2>1. Len(Block(c)) \in {2, 5}
    BY <1>5, RetCode
  <2> QED
    BY <1>5, <2>1, RetCode
<1>6. CASE c.cls \in Singles
  BY <1>6, SingleCode
<1> QED
  BY <1>1, <1>2, <1>3, <1>4, <1>5, <1>6 DEF Supported, Singles

LEMMA BlocksExist ==
  ASSUME NEW p \in Programs, Converts(p)
  PROVE  HasBlocks(p) /\ \A i \in 1 .. Len(p) : Supported(p[i])
<1>1. \A i \in 1 .. Len(p) : Supported(p[i]) /\ ShapeOK(p[i])
  BY ProgramShape DEF Converts
<1>2. \A i \in 1 .. Len(p) : IsSeq(Block(p[i])) /\ Size(p, i) \in Nat \ {0}
  BY <1>1, BlockLen DEF Size
<1> QED
  BY <1>1, <1>2, ProgramShape DEF HasBlocks

\* The q-th instruction of the block made from instruction i, which is c, is
\* the next.
At(i, c, q) ==
  /\ i \in 1 .. Len(prog) /\ ref.at = i /\ c = prog[i]
  /\ q \in 1 .. Len(Block(c)) /\ pc = addrs[i] + (q - 1) /\ pc >= 5
  /\ addrs = Addrs(prog) /\ HasBlocks(prog)

LEMMA Located ==
  ASSUME IInv, status # "rejected", pc >= 5
  PROVE  /\ At(ref.at, prog[ref.at], Pos)
         /\ pc \in Nat /\ pc < Len(code)
         /\ insn = Placed(prog, ref.at, Pos)
         /\ ShapeOK(prog[ref.at]) /\ Supported(prog[ref.at])
<1> DEFINE i == ref.at
           q == Pos
<1>1. /\ prog \in Programs /\ Converts(prog) /\ addrs = Addrs(prog)
      /\ i \in 1 .. Len(prog) /\ q \in 1 .. Size(prog, i) /\ pc \in Nat
      /\ code = Convert(prog)
  BY DEF IInv, Base, Converted, RefInv, InBlock
<1>2. HasBlocks(prog) /\ ShapeOK(prog[i]) /\ Supported(prog[i])
  BY <1>1, BlocksExist, ProgramShape
<1>3. addrs[i] \in Nat /\ Size(prog, i) \in Nat
  <2>1. i \in 1 .. Len(prog) + 1
    BY <1>1, <1>2 DEF HasBlocks
  <2> QED
    BY <1>1, <1>2, <2>1, AddrsType DEF HasBlocks
<1>4. q = pc - addrs[i] + 1
  BY DEF Pos
<1> HIDE DEF i, q
<1>5. pc = addrs[i] + (q - 1) /\ pc + 1 = addrs[i] + q
  BY <1>1, <1>3, <1>4
<1>6. /\ addrs[i] + q \in 1 .. addrs[Len(prog) + 1]
      /\ code[addrs[i] + q] = Placed(prog, i, q)
  BY <1>1, <1>2, ConvertBlock
<1>7. Len(code) = addrs[Len(prog) + 1]
  BY <1>1, <1>2, ConvertLen
<1>8. addrs[Len(prog) + 1] \in Nat
  <2>1. Len(prog) + 1 \in 1 .. Len(prog) + 1
    BY <1>2 DEF HasBlocks
  <2> QED
    BY <1>1, <1>2, <2>1, AddrsType
<1>9. pc < Len(code)
  BY <1>1, <1>5, <1>6, <1>7, <1>8
<1>10. insn = Placed(prog, i, q)
  BY <1>5, <1>6 DEF insn
<1>11. At(i, prog[i], q)
  BY <1>1, <1>2, <1>5 DEF At, Size, i
<1> QED
  BY <1>1, <1>2, <1>9, <1>10, <1>11 DEF i, q

-----------------------------------------------------------------------------
(* Where a step leads.                                                      *)

\* To another instruction of the block.
LEMMA Stays ==
  ASSUME NEW i, NEW c, NEW q, At(i, c, q),
         NEW r \in 2 .. Len(Block(c)), Reach(pc + (r - q))
  PROVE  At(i, c, r)' /\ ref' = ref /\ UNCHANGED <<prog, code, pkt, addrs>>
<1>1. /\ i \in 1 .. Len(prog) /\ c = prog[i] /\ pc = addrs[i] + (q - 1)
      /\ q \in 1 .. Len(Block(c)) /\ addrs = Addrs(prog) /\ HasBlocks(prog)
  BY DEF At
<1>2. /\ Len(prog) \in Nat /\ DOMAIN prog = 1 .. Len(prog)
      /\ Len(Block(c)) = Size(prog, i) /\ Size(prog, i) \in Nat
  BY <1>1 DEF HasBlocks, Size
<1>3. \A n \in 1 .. Len(prog) : addrs[n] \in Nat /\ addrs[n] >= 5
  BY <1>1, <1>2, AddrsType
<1> DEFINE to == addrs[i] + (r - 1)
<1>4. pc + (r - q) = to /\ to >= 5
  BY <1>1, <1>2, <1>3, SMTT(20)
<1>5. ASSUME NEW n \in DOMAIN prog PROVE addrs[n] # to
  <2>1. n \in 1 .. Len(prog) /\ i \in 1 .. Len(prog) + 1 /\ n \in 1 .. Len(prog) + 1
    BY <1>1, <1>2
  <2>2. n < i => addrs[n] < addrs[i]
    <3>1. n < i => addrs[n] + Size(prog, n) <= addrs[i]
      BY <1>1, <2>1, AddrsIncrease
    <3>2. Size(prog, n) \in Nat \ {0}
      BY <1>1, <2>1 DEF HasBlocks
    <3>3. n < i => addrs[n] + Size(prog, n) <= addrs[i]
      BY <1>1, <3>1
    <3>4. addrs[n] \in Nat /\ addrs[i] \in Nat
      BY <1>1, <1>3, <2>1
    <3> QED
      BY ONLY <3>2, <3>3, <3>4
  <2>3. i < n => addrs[i] + Size(prog, i) <= addrs[n]
    BY <1>1, <2>1, AddrsIncrease
  <2>4. addrs[n] \in Nat /\ addrs[i] \in Nat
    BY <1>1, <1>3, <2>1
  <2> QED
    BY <1>2, <2>1, <2>2, <2>3, <2>4
<1>6. Reach(to)
  BY <1>4
<1>7. pc' = to /\ UNCHANGED <<prog, code, pkt, addrs>> /\ ref' = ref
  BY <1>5, <1>6 DEF Reach
<1>8. At(i, c, r)'
  BY <1>1, <1>2, <1>4, <1>7 DEF At
<1> QED
  BY <1>7, <1>8

\* To another block, as the classic program does.
LEMMA Follows ==
  ASSUME NEW i, NEW c, NEW q, At(i, c, q),
         NEW n \in 1 .. Len(prog), Reach(addrs[n]),
         RefStep(ref).res = "run", RefStep(ref).at = n
  PROVE  /\ At(n, prog[n], 1)' /\ ref' = RefStep(ref)
         /\ UNCHANGED <<prog, code, pkt, addrs>>
<1>1. /\ addrs = Addrs(prog) /\ HasBlocks(prog) /\ pc >= 5
  BY DEF At
<1>2. /\ Len(prog) \in Nat /\ DOMAIN prog = 1 .. Len(prog)
      /\ Len(Block(prog[n])) = Size(prog, n) /\ Size(prog, n) \in Nat \ {0}
  BY <1>1 DEF HasBlocks, Size
<1>3. addrs[n] \in Nat /\ addrs[n] >= 5
  BY <1>1, <1>2, AddrsType
<1>4. pc >= 5 => ~(pc < Len(Prologue))
  <2>1. pc \in Int
    <3>1. /\ i \in 1 .. Len(prog) /\ pc = addrs[i] + (q - 1)
          /\ q \in 1 .. Len(Block(c)) /\ Len(Block(c)) = Size(prog, i)
      BY DEF At, Size
    <3>2. addrs[i] \in Nat /\ q \in Int
      BY <1>1, <1>2, <3>1, AddrsType
    <3> QED
      BY <3>1, <3>2
  <2> QED
    BY <2>1, PrologueCode
<1>5. pc' = addrs[n] /\ ref' = RefStep(ref) /\ UNCHANGED <<prog, code, pkt, addrs>>
  BY <1>1, <1>2, <1>4 DEF Reach
<1>6. At(n, prog[n], 1)'
  BY <1>1, <1>2, <1>3, <1>5 DEF At
<1> QED
  BY <1>5, <1>6

-----------------------------------------------------------------------------
(* What instructions do.                                                    *)

\* A step that sets register d, and one that only goes elsewhere.
Sets(d, v) ==
  reg' = [reg EXCEPT ![d] = v] /\ Reach(pc + 1) /\ UNCHANGED <<frame, faulted, status>>
Goes(off) ==
  Reach(pc + 1 + off) /\ UNCHANGED <<reg, frame, faulted, status>>

AluSets(d, op, a, b, mod, bits) == Sets(d, Calc(op, a % mod, b, mod, bits))

\* Operands as the kernel extends their sign.
LEMMA Immediate ==
  ASSUME NEW k \in Word
  PROVE  /\ Signed(k % WordMod, WordMod) % WordMod = k
         /\ k < WordMod \div 2 => Signed(k % WordMod, WordMod) % DwMod = k
<1>1. k % WordMod = k
  BY Sizes, SmallMod DEF Word
<1>2. WordMod \in Nat /\ WordMod >= 256 /\ DwMod \in Nat /\ DwMod >= WordMod /\ k \in 0 .. WordMod - 1
  BY Sizes DEF Word
<1>3. Signed(k, WordMod) = IF k >= WordMod \div 2 THEN k - WordMod ELSE k
  BY DEF Signed
<1>4. k % DwMod = k
  BY <1>2, SmallMod
<1>5. (k - WordMod) % WordMod = k
  BY <1>2
<1> QED
  BY <1>1, <1>2, <1>3, <1>4, <1>5

LEMMA BytesAtImmediate ==
  Signed(BytesAt % WordMod, WordMod) % DwMod = DwMod + BytesAt
<1>1. WordMod \in Nat /\ WordMod >= 256 /\ DwMod \in Nat /\ DwMod >= 256 * WordMod
  BY Sizes
<1>2. BytesAt % WordMod = WordMod - 56
  BY <1>1 DEF BytesAt
<1>3. Signed(WordMod - 56, WordMod) = -56
  BY <1>1 DEF Signed
<1>4. (-56) % DwMod = DwMod - 56
  BY <1>1
<1> QED
  BY <1>1, <1>2, <1>3, <1>4 DEF BytesAt

LEMMA StepAlu ==
  ASSUME Next, insn.cls = "alu"
  PROVE  /\ AluSets(insn.dst, insn.op, reg[insn.dst], Operand, ModOf(insn.w),
                    BitsOf(insn.w))
         /\ status = "run"
<1>1. AluStep
  BY DEF Next, JumpStep, LoadStep, StoreStep, EndianStep, ProbeRead,
         ProbeReadFaults, ExitStep, Running
<1> QED
  BY <1>1 DEF AluStep, AluSets, Sets, Running

LEMMA StepJump ==
  ASSUME Next, insn.cls = "jmp"
  PROVE  /\ Goes(IF Compare(insn.op, reg[insn.dst] % ModOf(insn.w), Operand,
                            ModOf(insn.w))
                 THEN insn.off ELSE 0)
         /\ status = "run"
<1>1. JumpStep
  BY DEF Next, AluStep, LoadStep, StoreStep, EndianStep, ProbeRead,
         ProbeReadFaults, ExitStep, Running
<1> QED
  BY <1>1 DEF JumpStep, Goes, Running

LEMMA MovImm ==
  ASSUME Next, NEW d, NEW k \in Word, insn = Alu32("mov", d, Imm, k)
  PROVE  Sets(d, k)
<1>1. /\ insn.cls = "alu" /\ insn.op = "mov" /\ insn.dst = d /\ insn.src = Imm
      /\ insn.imm = k /\ insn.w = 32
  BY AluFields
<1>2. Operand = k
  BY <1>1, Immediate DEF Operand, ModOf
<1> QED
  BY <1>1, <1>2, StepAlu DEF AluSets, Calc

LEMMA MovSmall ==
  ASSUME Next, NEW d, NEW k \in 0 .. 4, insn = Alu64("mov", d, Imm, k)
  PROVE  Sets(d, k)
<1>1. /\ insn.cls = "alu" /\ insn.op = "mov" /\ insn.dst = d /\ insn.src = Imm
      /\ insn.imm = k /\ insn.w = 64
  BY AluFields
<1>2. k \in Word /\ k < WordMod \div 2
  BY Sizes DEF Word
<1>3. Operand = k
  BY <1>1, <1>2, Immediate DEF Operand, ModOf
<1> QED
  BY <1>1, <1>3, StepAlu DEF AluSets, Calc

LEMMA MovReg ==
  ASSUME Next, NEW d, NEW s, s # Imm,
         \/ insn = Alu32("mov", d, s, 0) /\ reg[s] \in Word
         \/ insn = Alu64("mov", d, s, 0) /\ reg[s] \in Dword
  PROVE  Sets(d, reg[s])
<1>1. /\ insn.cls = "alu" /\ insn.op = "mov" /\ insn.dst = d /\ insn.src = s
      /\ \/ insn.w = 32 /\ reg[s] \in Word
         \/ insn.w = 64 /\ reg[s] \in Dword
  <2>1. CASE insn = Alu32("mov", d, s, 0) /\ reg[s] \in Word
    BY <2>1, AluFields
  <2>2. CASE insn = Alu64("mov", d, s, 0) /\ reg[s] \in Dword
    BY <2>2, AluFields
  <2> QED
    BY <2>1, <2>2
<1>2. reg[s] % ModOf(insn.w) = reg[s]
  BY <1>1, Sizes, SmallMod DEF ModOf, Word, Dword
<1>3. Operand = reg[s]
  BY <1>1, <1>2 DEF Operand
<1> QED
  BY <1>1, <1>3, StepAlu DEF AluSets, Calc

LEMMA AddImm ==
  ASSUME Next, NEW d, NEW k \in Word, insn = Alu32("add", d, Imm, k), reg[d] \in Word
  PROVE  Sets(d, (reg[d] + k) % WordMod)
<1>1. /\ insn.cls = "alu" /\ insn.op = "add" /\ insn.dst = d /\ insn.src = Imm
      /\ insn.imm = k /\ insn.w = 32
  BY AluFields
<1>2. Operand = k /\ reg[d] % WordMod = reg[d] /\ ModOf(insn.w) = WordMod
  BY <1>1, Immediate, Sizes, SmallMod DEF Operand, ModOf, Word
<1> QED
  BY <1>1, <1>2, StepAlu DEF AluSets, Calc

LEMMA AddBytesAt ==
  ASSUME Next, insn = Alu64("add", 1, Imm, BytesAt), reg[1] = FrameAt
  PROVE  Sets(1, FrameAt + BytesAt)
<1>1. /\ insn.cls = "alu" /\ insn.op = "add" /\ insn.dst = 1 /\ insn.src = Imm
      /\ insn.imm = BytesAt /\ insn.w = 64
  BY AluFields
<1>2. Operand = DwMod + BytesAt /\ ModOf(insn.w) = DwMod
  BY <1>1, BytesAtImmediate DEF Operand, ModOf
<1>3. FrameAt \in 64 .. DwMod - 1 /\ DwMod \in Nat
  BY MemoryAssumption, Sizes
<1>4. FrameAt % DwMod = FrameAt
  BY <1>3, SmallMod
<1>5. (FrameAt + (DwMod + BytesAt)) % DwMod = FrameAt + BytesAt
  BY <1>3 DEF BytesAt
<1> QED
  BY <1>1, <1>2, <1>4, <1>5, StepAlu DEF AluSets, Calc

LEMMA AddSubReg ==
  ASSUME Next, NEW op \in {"add", "sub"}, NEW d, NEW s, s # Imm,
         insn = Alu64(op, d, s, 0), reg[d] \in Dword, reg[s] \in Dword
  PROVE  Sets(d, (IF op = "add" THEN reg[d] + reg[s] ELSE reg[d] - reg[s]) % DwMod)
<1>1. /\ insn.cls = "alu" /\ insn.op = op /\ insn.dst = d /\ insn.src = s
      /\ insn.w = 64
  BY AluFields
<1>2. reg[s] % DwMod = reg[s] /\ reg[d] % DwMod = reg[d]
  BY Sizes, SmallMod DEF Dword
<1>3. Operand = reg[s] /\ ModOf(insn.w) = DwMod
  BY <1>1, <1>2 DEF Operand, ModOf
<1>4. AluSets(d, op, reg[d], reg[s], DwMod, BitsOf(64))
  BY <1>1, <1>3, StepAlu
<1>5. CASE op = "add"
  BY <1>2, <1>4, <1>5 DEF AluSets, Calc
<1>6. CASE op = "sub"
  BY <1>2, <1>4, <1>6 DEF AluSets, Calc
<1> QED
  BY <1>5, <1>6

LEMMA JumpReg ==
  ASSUME Next, NEW op, NEW d, NEW s, s # Imm, NEW imm, NEW off,
         insn = Jump(64, op, d, s, imm, off), reg[d] \in Dword, reg[s] \in Dword
  PROVE  Goes(IF Compare(op, reg[d], reg[s], DwMod) THEN off ELSE 0)
<1>1. /\ insn.cls = "jmp" /\ insn.op = op /\ insn.dst = d /\ insn.src = s
      /\ insn.w = 64 /\ insn.off = off
  BY JumpFields
<1>2. reg[s] % DwMod = reg[s] /\ reg[d] % DwMod = reg[d]
  BY Sizes, SmallMod, SMTT(20) DEF Dword
<1>3. Operand = reg[s] /\ ModOf(insn.w) = DwMod
  BY <1>1, <1>2 DEF Operand, ModOf
<1> QED
  BY <1>1, <1>2, <1>3, StepJump

\* Sums and differences that do not wrap around.
LEMMA Adds ==
  ASSUME Next, NEW d, NEW s, s # Imm, insn = Alu64("add", d, s, 0),
         reg[d] \in Dword, reg[s] \in Dword, NEW v \in Dword, v = reg[d] + reg[s]
  PROVE  Sets(d, v)
<1>1. v % DwMod = v
  BY Sizes, SmallMod DEF Dword
<1>2. Sets(d, (reg[d] + reg[s]) % DwMod)
  BY AddSubReg
<1> QED
  BY <1>1, <1>2

LEMMA Subtracts ==
  ASSUME Next, NEW d, NEW s, s # Imm, insn = Alu64("sub", d, s, 0),
         reg[d] \in Dword, reg[s] \in Dword, NEW v \in Dword, v = reg[d] - reg[s]
  PROVE  Sets(d, v)
<1>1. v % DwMod = v
  BY Sizes, SmallMod DEF Dword
<1>2. Sets(d, (reg[d] - reg[s]) % DwMod)
  BY AddSubReg
<1> QED
  BY <1>1, <1>2

LEMMA AddsImm ==
  ASSUME Next, NEW d, NEW k \in Word, insn = Alu32("add", d, Imm, k),
         reg[d] \in Word, NEW v \in Word, v = reg[d] + k
  PROVE  Sets(d, v)
<1>1. v % WordMod = v
  BY Sizes, SmallMod DEF Word
<1>2. Sets(d, (reg[d] + k) % WordMod)
  BY AddImm
<1> QED
  BY <1>1, <1>2

\* Comparisons of registers.
LEMMA JumpLess ==
  ASSUME Next, NEW d, NEW s, s # Imm, NEW off, insn = Jump(64, "jlt", d, s, 0, off),
         reg[d] \in Dword, reg[s] \in Dword
  PROVE  Goes(IF reg[d] < reg[s] THEN off ELSE 0)
<1>1. Compare("jlt", reg[d], reg[s], DwMod) <=> reg[d] < reg[s]
  BY DEF Compare
<1>2. Goes(IF Compare("jlt", reg[d], reg[s], DwMod) THEN off ELSE 0)
  BY JumpReg
<1> QED
  BY <1>1, <1>2

LEMMA JumpGreater ==
  ASSUME Next, NEW d, NEW s, s # Imm, NEW off, insn = Jump(64, "jgt", d, s, 0, off),
         reg[d] \in Dword, reg[s] \in Dword
  PROVE  Goes(IF reg[d] > reg[s] THEN off ELSE 0)
<1>1. Compare("jgt", reg[d], reg[s], DwMod) <=> reg[d] > reg[s]
  BY DEF Compare
<1>2. Goes(IF Compare("jgt", reg[d], reg[s], DwMod) THEN off ELSE 0)
  BY JumpReg
<1> QED
  BY <1>1, <1>2

LEMMA JumpZero ==
  ASSUME Next, NEW op, NEW d, NEW off,
         insn = Jump(64, op, d, Imm, 0, off), reg[d] \in Dword
  PROVE  Goes(IF Compare(op, reg[d], 0, DwMod) THEN off ELSE 0)
<1>1. /\ insn.cls = "jmp" /\ insn.op = op /\ insn.dst = d /\ insn.src = Imm
      /\ insn.w = 64 /\ insn.off = off /\ insn.imm = 0
  BY JumpFields
<1>2. 0 \in Word /\ 0 < WordMod \div 2
  BY Sizes DEF Word
<1>3. reg[d] % DwMod = reg[d]
  BY Sizes, SmallMod DEF Dword
<1>4. Operand = 0 /\ ModOf(insn.w) = DwMod
  BY <1>1, <1>2, Immediate DEF Operand, ModOf
<1> QED
  BY <1>1, <1>3, <1>4, StepJump

LEMMA JumpNegative ==
  ASSUME Next, NEW d, NEW off,
         insn = Jump(32, "jslt", d, Imm, 0, off), reg[d] \in Word
  PROVE  Goes(IF reg[d] >= WordMod \div 2 THEN off ELSE 0)
<1>1. /\ insn.cls = "jmp" /\ insn.op = "jslt" /\ insn.dst = d /\ insn.src = Imm
      /\ insn.w = 32 /\ insn.off = off /\ insn.imm = 0
  BY JumpFields
<1>2. 0 \in Word /\ 0 < WordMod \div 2 /\ WordMod \in Nat \ {0}
  BY Sizes DEF Word
<1>3. reg[d] % WordMod = reg[d]
  BY Sizes, SmallMod DEF Word
<1>4. Operand = 0 /\ ModOf(insn.w) = WordMod
  BY <1>1, <1>2, Immediate DEF Operand, ModOf
<1>5. Compare("jslt", reg[d], 0, WordMod) <=> reg[d] >= WordMod \div 2
  BY <1>2, Sizes DEF Compare, Signed, Word
<1> QED
  BY <1>1, <1>3, <1>4, <1>5, StepJump

LEMMA JumpAnyway ==
  ASSUME Next, NEW off, insn.cls = "jmp", insn.op = "ja", insn.off = off
  PROVE  Goes(off)
BY StepJump DEF Compare

LEMMA LoadsFrom ==
  ASSUME Next, NEW n \in {1, 2, 4, 8}, NEW d, NEW off, insn = Load(n, d, off),
         NEW b, FrameHas(off, b, n)
  PROVE  Sets(d, LittleEndian(b, n)) /\ status = "run"
<1>1. insn.cls = "ldx" /\ insn.w = n /\ insn.dst = d /\ insn.off = off
  BY MemFields
<1>2. LoadStep
  BY <1>1 DEF Next, AluStep, JumpStep, StoreStep, EndianStep, ProbeRead,
         ProbeReadFaults, ExitStep, Running
<1> DEFINE f == [j \in 1 .. n |-> frame[off + j - 1]]
<1>3. \A j \in 1 .. n : f[j] = b[j]
  BY DEF FrameHas
<1>4. LittleEndian(f, n) = LittleEndian(b, n)
  <2> HIDE DEF f
  <2>1. CASE n = 1
    BY <2>1, <1>3 DEF LittleEndian
  <2>2. CASE n = 2
    BY <2>2, <1>3 DEF LittleEndian
  <2>3. CASE n = 4
    BY <2>3, <1>3 DEF LittleEndian
  <2>4. CASE n = 8
    BY <2>4, <1>3 DEF LittleEndian
  <2> QED
    BY <2>1, <2>2, <2>3, <2>4
<1> QED
  BY <1>1, <1>2, <1>4 DEF LoadStep, Sets, Running

\* A step that writes n bytes into the frame.
Puts(off, b, n) ==
  /\ \A j \in 1 .. n : frame'[off + j - 1] = b[j]
  /\ \A s \in Frame : s \notin off .. off + n - 1 => frame'[s] = frame[s]
  /\ DOMAIN frame' = Frame

LEMMA WritesPut ==
  ASSUME NEW n \in {1, 2, 4, 8}, NEW off \in Int, NEW b, DOMAIN b = 1 .. n,
         off .. off + n - 1 \subseteq Frame, frame' = Written(off, b)
  PROVE  Puts(off, b, n)
<1>1. ASSUME NEW j \in 1 .. n PROVE frame'[off + j - 1] = b[j]
  <2>1. off + j - 1 \in Frame /\ off + j - 1 - off + 1 = j
    OBVIOUS
  <2> QED
    BY <2>1 DEF Written
<1>2. ASSUME NEW s \in Frame, s \notin off .. off + n - 1
      PROVE  frame'[s] = frame[s]
  <2>1. s \in Int
    BY MemoryAssumption DEF Frame
  <2>2. s - off + 1 \notin 1 .. n
    BY <1>2, <2>1
  <2> QED
    BY <2>2 DEF Written
<1> QED
  BY <1>1, <1>2 DEF Puts, Written

LEMMA StoresTo ==
  ASSUME Next, NEW n \in {4, 8}, NEW s, NEW off \in Int, insn = Store(n, s, off),
         n = 4 => reg[s] \in Word, n = 8 => reg[s] \in Dword,
         off .. off + n - 1 \subseteq Frame
  PROVE  /\ Puts(off, BytesOf(reg[s], n), n)
         /\ Reach(pc + 1) /\ UNCHANGED <<reg, faulted, status>>
<1>1. insn.cls = "stx" /\ insn.w = n /\ insn.src = s /\ insn.off = off
  BY MemFields
<1>2. StoreStep
  BY <1>1 DEF Next, AluStep, JumpStep, LoadStep, EndianStep, ProbeRead,
         ProbeReadFaults, ExitStep, Running
<1> DEFINE b == BytesOf(reg[s], n)
<1>3. DOMAIN b = 1 .. n
  BY WordStored, DwordStored DEF Dword
<1>4. frame' = Written(off, b)
  BY <1>1, <1>2 DEF StoreStep
<1>5. Puts(off, b, n)
  BY <1>3, <1>4, WritesPut
<1> QED
  BY <1>2, <1>5 DEF StoreStep

LEMMA TurnsRound ==
  ASSUME Next, NEW n, NEW d, insn = FromBigEndian(d, n)
  PROVE  Sets(d, BigEndian(BytesOf(reg[d], n), n)) /\ status = "run"
<1>1. insn.cls = "be" /\ insn.w = n /\ insn.dst = d
  BY OtherFields
<1>2. EndianStep
  BY <1>1 DEF Next, AluStep, JumpStep, LoadStep, StoreStep, ProbeRead,
         ProbeReadFaults, ExitStep, Running
<1> QED
  BY <1>1, <1>2 DEF EndianStep, Sets, Running

LEMMA Calls ==
  ASSUME Next, insn = CallProbeRead, NEW n \in {1, 2, 4}, NEW from \in Nat,
         reg[1] = FrameAt + BytesAt, reg[2] = n, reg[3] = PacketAt + from,
         from + n <= Len(pkt), pkt \in Packets, DOMAIN reg = 0 .. 10
  PROVE  /\ Reach(pc + 1) /\ status' = status
         /\ DOMAIN reg' = 0 .. 10 /\ reg'[X] = reg[X] /\ reg'[FP] = reg[FP]
         /\ \E b : /\ Puts(BytesAt, b, n)
                   /\ \/ /\ faulted' = faulted /\ reg'[A] = 0
                         /\ b = [j \in 1 .. n |-> pkt[from + j]]
                      \/ faulted' = TRUE /\ reg'[A] \in Dword \ {0}
<1>1. insn.cls = "call"
  BY OtherFields
<1>2. ProbeRead \/ ProbeReadFaults
  BY <1>1 DEF Next, AluStep, JumpStep, LoadStep, StoreStep, EndianStep,
         ExitStep, Running
<1>3. PacketAt \in Nat /\ FrameAt \in Nat /\ DwMod \in Nat /\ DwMod >= 65536
  BY MemoryAssumption, Sizes
<1>4. reg[1] - FrameAt = BytesAt /\ From = from
  BY <1>3 DEF From, BytesAt
<1>5. BytesAt .. BytesAt + n - 1 \subseteq Frame /\ BytesAt \in Int
  BY MemoryAssumption DEF Frame, BytesAt
<1>6. pkt \in Seq(Byte) /\ DOMAIN pkt = 1 .. Len(pkt) /\ Len(pkt) \in Nat
  <2>1. pkt \in Seq(Byte)
    BY PacketsAssumption
  <2> QED
    BY <2>1, LenProperties
<1>7. CASE ProbeRead
  <2> DEFINE b == [j \in 1 .. n |-> pkt[from + j]]
  <2>1. b = [j \in 1 .. reg[2] |->
               IF From + j \in DOMAIN pkt THEN pkt[From + j] ELSE 0]
    BY <1>4, <1>6
  <2>2. frame' = Written(BytesAt, b)
    BY <1>4, <1>7, <2>1 DEF ProbeRead
  <2>3. DOMAIN b = 1 .. n
    OBVIOUS
  <2> HIDE DEF b
  <2>4. Puts(BytesAt, b, n)
    BY <1>5, <2>2, <2>3, WritesPut
  <2>5. /\ Reach(pc + 1) /\ status' = status /\ faulted' = faulted
        /\ DOMAIN reg' = 0 .. 10 /\ reg'[X] = reg[X] /\ reg'[FP] = reg[FP]
        /\ reg'[A] = 0
    BY <1>7 DEF ProbeRead, AfterCall, X, FP, A
  <2> QED
    BY <2>4, <2>5 DEF b
<1>8. CASE ProbeReadFaults
  <2> DEFINE b == [j \in 1 .. n |-> 0]
  <2>1. frame' = Written(BytesAt, b)
    BY <1>4, <1>8 DEF ProbeReadFaults
  <2>2. DOMAIN b = 1 .. n
    OBVIOUS
  <2> HIDE DEF b
  <2>3. Puts(BytesAt, b, n)
    BY <1>5, <2>1, <2>2, WritesPut
  <2>4. /\ Reach(pc + 1) /\ status' = status /\ faulted' = TRUE
        /\ DOMAIN reg' = 0 .. 10 /\ reg'[X] = reg[X] /\ reg'[FP] = reg[FP]
        /\ reg'[A] = DwMod - 14
    BY <1>8 DEF ProbeReadFaults, AfterCall, X, FP, A
  <2>5. DwMod - 14 \in Dword \ {0}
    BY <1>3 DEF Dword
  <2> QED
    BY <2>3, <2>4, <2>5
<1> QED
  BY <1>2, <1>7, <1>8

LEMMA StepExit ==
  ASSUME Next, insn.cls = "exit"
  PROVE  /\ status = "run" /\ status' = "exit"
         /\ UNCHANGED <<prog, code, pkt, pc, reg, frame, addrs, faulted, ref>>
<1>1. ExitStep
  BY DEF Next, AluStep, JumpStep, LoadStep, StoreStep, EndianStep, ProbeRead,
         ProbeReadFaults, Running
<1> QED
  BY <1>1 DEF ExitStep, Running

-----------------------------------------------------------------------------
(* A packet load, step by step.                                             *)

LoadBlock(c) == PacketLoad(c.op, c.size, c.k)

LoadShape(c) == c.op \in {"abs", "ind"} /\ c.size \in {1, 2, 4} /\ c.k \in Word

\* The frame holds the packet's bounds, the packet's length is a word that is
\* not negative, and the classic machine's registers hold words.
Sound ==
  /\ HasData /\ HasDataEnd /\ reg[FP] = FrameAt
  /\ DOMAIN reg = 0 .. 10 /\ DOMAIN frame = Frame
  /\ ref.a \in Word /\ ref.x \in Word /\ pkt \in Packets /\ pc \in Int

\* The q-th instruction of a packet load is the next.
Loading(c, q) ==
  /\ LoadShape(c) /\ q \in 1 .. Len(LoadBlock(c)) /\ insn = LoadBlock(c)[q]
  /\ Sound /\ LoadInv(c, q)

\* A step from the q-th to the r-th instruction, which keeps the registers
\* and the part of the frame that packet loads leave alone.
Moves(q, r) ==
  /\ Reach(pc + (r - q)) /\ status' = status
  /\ DOMAIN reg' = 0 .. 10 /\ reg'[X] = reg[X] /\ reg'[FP] = reg[FP]
  /\ DOMAIN frame' = Frame
  /\ \A s \in Frame : s \notin BytesAt .. BytesAt + 3 => frame'[s] = frame[s]

\* Such a step, to an instruction of the load.
Proceeds(c, q) ==
  \E r \in 2 .. Len(LoadBlock(c)) : Moves(q, r) /\ (ref' = ref => LoadInv(c, r)')

LEMMA LoadLen ==
  ASSUME NEW c, LoadShape(c)
  PROVE  /\ OffsetLen(c.op) \in {1, 4} /\ (OffsetLen(c.op) = 4 <=> c.op = "ind")
         /\ Len(LoadBlock(c)) = OffsetLen(c.op) + (IF c.size = 1 THEN 20 ELSE 21)
<1>1. OffsetLen(c.op) \in {1, 4} /\ (OffsetLen(c.op) = 4 <=> c.op = "ind")
  BY DEF OffsetLen, LoadShape
<1>2. Len(LoadBlock(c)) = OffsetLen(c.op) + (IF c.size = 1 THEN 20 ELSE 21)
  BY LoadCode DEF LoadBlock, LoadShape, LoadCodeIs
<1> QED
  BY <1>1, <1>2

LEMMA PacketSize ==
  ASSUME pkt \in Packets
  PROVE  /\ Len(pkt) \in Nat /\ Len(pkt) <= WordMod \div 2
         /\ DOMAIN pkt = 1 .. Len(pkt) /\ \A n \in 1 .. Len(pkt) : pkt[n] \in Byte
         /\ PacketAt \in Dword /\ PacketAt + Len(pkt) \in Dword
<1>1. pkt \in Seq(Byte) /\ Len(pkt) <= WordMod \div 2
  BY PacketsAssumption
<1>2. Len(pkt) \in Nat /\ DOMAIN pkt = 1 .. Len(pkt) /\ \A n \in 1 .. Len(pkt) : pkt[n] \in Byte
  BY <1>1, LenProperties
<1>3. PacketAt \in 0 .. DwMod - WordMod /\ DwMod \in Nat /\ WordMod \in Nat
      /\ WordMod >= 256 /\ DwMod >= 256 * WordMod
  BY MemoryAssumption, Sizes
<1> QED
  BY <1>1, <1>2, <1>3 DEF Dword

\* Steps that set a register of the load, and those that set none.
LEMMA SetsMoves ==
  ASSUME NEW c, NEW q, Loading(c, q), NEW d \in 0 .. 5, NEW v, Sets(d, v)
  PROVE  /\ Moves(q, q + 1) /\ q \in Nat /\ q + 1 \in 2 .. 26
         /\ q < Len(LoadBlock(c)) => q + 1 \in 2 .. Len(LoadBlock(c))
         /\ reg'[d] = v /\ \A e \in 0 .. 10 : e # d => reg'[e] = reg[e]
         /\ frame' = frame /\ faulted' = faulted /\ pkt' = pkt
<1> DEFINE n == Len(LoadBlock(c))
<1>1. q \in 1 .. n /\ n \in 21 .. 25
  <2>1. LoadShape(c) /\ q \in 1 .. n
    BY DEF Loading
  <2>2. OffsetLen(c.op) \in {1, 4} /\ n = OffsetLen(c.op) + (IF c.size = 1 THEN 20 ELSE 21)
    BY <2>1, LoadLen
  <2> HIDE DEF n
  <2> QED
    BY <2>1, <2>2
<1> HIDE DEF n
<1>2. q \in Nat /\ (q + 1) - q = 1 /\ q + 1 \in 2 .. 26
      /\ (q < n => q + 1 \in 2 .. n)
  BY <1>1
<1>3. DOMAIN reg = 0 .. 10 /\ DOMAIN frame = Frame
  BY DEF Loading, Sound
<1>4. /\ reg' = [reg EXCEPT ![d] = v] /\ Reach(pc + 1)
      /\ frame' = frame /\ faulted' = faulted /\ status' = status
  BY DEF Sets
<1>5. pkt' = pkt
  BY <1>4 DEF Reach
<1>6. reg'[d] = v /\ \A e \in 0 .. 10 : e # d => reg'[e] = reg[e]
  BY <1>3, <1>4
<1>7. Moves(q, q + 1)
  BY <1>2, <1>3, <1>4, <1>6 DEF Moves, X, FP
<1> QED
  BY <1>2, <1>4, <1>5, <1>6, <1>7 DEF n

LEMMA GoesMoves ==
  ASSUME NEW c, NEW q, Loading(c, q), NEW off \in Int, Goes(off)
  PROVE  Moves(q, q + 1 + off) /\ UNCHANGED <<reg, frame, faulted, pkt>>
<1>1. q \in Int /\ (q + 1 + off) - q = 1 + off /\ pc \in Int
  <2>1. q \in Int /\ pc \in Int
    BY DEF Loading, Sound
  <2> QED
    BY <2>1
<1>2. DOMAIN reg = 0 .. 10 /\ DOMAIN frame = Frame
  BY DEF Loading, Sound
<1>3. /\ Reach(pc + 1 + off) /\ UNCHANGED <<reg, frame, faulted, status>>
  BY DEF Goes
<1>4. UNCHANGED pkt
  BY <1>3 DEF Reach
<1>5. pc + 1 + off = pc + (1 + off)
  BY <1>1
<1> QED
  BY <1>1, <1>2, <1>3, <1>4, <1>5 DEF Moves

\* The numbers of a packet load.
LEMMA LoadSizes ==
  ASSUME NEW c, NEW q, Loading(c, q)
  PROVE  /\ c.size \in {1, 2, 4} /\ c.k \in Word /\ ref.x \in Word
         /\ OffsetLen(c.op) \in {1, 4} /\ q \in Nat /\ pc \in Int
         /\ WordMod \in Nat /\ WordMod >= 256
         /\ DwMod \in Nat /\ DwMod >= 256 * WordMod /\ DwMod >= 65536
         /\ Word = 0 .. WordMod - 1 /\ Dword = 0 .. DwMod - 1
         /\ Len(pkt) \in Nat /\ Len(pkt) <= WordMod \div 2 /\ Len(pkt) < WordMod
         /\ PacketAt \in Nat /\ PacketAt + WordMod <= DwMod
         /\ FrameAt \in 64 .. DwMod - 1
         /\ reg[FP] = FrameAt /\ pkt \in Packets /\ DOMAIN reg = 0 .. 10
<1>1. /\ c.size \in {1, 2, 4} /\ c.k \in Word /\ ref.x \in Word
      /\ OffsetLen(c.op) \in {1, 4} /\ pc \in Int /\ q \in Nat
      /\ pkt \in Packets /\ reg[FP] = FrameAt /\ DOMAIN reg = 0 .. 10
  BY LoadLen DEF Loading, LoadShape, Sound
<1>2. /\ WordMod \in Nat /\ WordMod >= 256
      /\ DwMod \in Nat /\ DwMod >= 256 * WordMod /\ DwMod >= 65536
  BY Sizes
<1>3. Len(pkt) \in Nat /\ Len(pkt) <= WordMod \div 2
  BY <1>1, PacketSize
<1>4. Len(pkt) < WordMod
  BY <1>2, <1>3
<1>5. PacketAt \in Nat /\ PacketAt + WordMod <= DwMod
  BY <1>2, MemoryAssumption
<1>6. FrameAt \in 64 .. DwMod - 1
  BY <1>2, MemoryAssumption
<1> QED
  BY <1>1, <1>2, <1>3, <1>4, <1>5, <1>6 DEF Word, Dword

\* It is enough to show what holds at the instruction that is reached.
LEMMA Reached ==
  ASSUME NEW c, NEW q, LoadShape(c), NEW l, l = OffsetLen(c.op),
         NEW p \in 1 .. 21, NEW r, r = l + p, r \in 2 .. Len(LoadBlock(c)),
         Moves(q, r), ref' = ref => CheckInv(c, p)' /\ ReadInv(c, p)'
  PROVE  Proceeds(c, q)
<1>1. l \in {1, 4} /\ (l = 4 <=> c.op = "ind") /\ r - l = p /\ r \in Nat
  BY LoadLen
<1>2. ASSUME ref' = ref PROVE LoadInv(c, r)'
  <2>1. OffsetInv(c, r)'
    BY <1>1 DEF OffsetInv
  <2>2. CheckInv(c, p)' /\ ReadInv(c, p)'
    BY <1>2
  <2>3. LoadInv(c, r)' <=> OffsetInv(c, r)' /\ CheckInv(c, r - l)' /\ ReadInv(c, r - l)'
    BY DEF LoadInv
  <2> QED
    BY <1>1, <2>1, <2>2, <2>3
<1> QED
  BY <1>2 DEF Proceeds

\* The offset is checked to be one of a byte of the packet, whose bounds are
\* loaded from the frame.
LEMMA LoadChecks ==
  ASSUME Next, NEW c, NEW q, Loading(c, q), NEW p \in 1 .. 9,
         NEW l, l = OffsetLen(c.op), q = l + p,
         NEW b, b = LoadBlock(c), NEW n, n = LoadFrom(ref, c)
  PROVE  Proceeds(c, q)
<1>0. /\ c.size \in {1, 2, 4} /\ c.k \in Word /\ ref.x \in Word
      /\ l \in {1, 4} /\ pc \in Int
      /\ WordMod \in Nat /\ WordMod >= 256
      /\ DwMod \in Nat /\ DwMod >= 256 * WordMod /\ DwMod >= 65536
      /\ Word = 0 .. WordMod - 1 /\ Dword = 0 .. DwMod - 1
      /\ Len(pkt) \in Nat /\ Len(pkt) <= WordMod \div 2 /\ Len(pkt) < WordMod
      /\ PacketAt \in Nat /\ PacketAt + WordMod <= DwMod
      /\ FrameAt \in 64 .. DwMod - 1
      /\ reg[FP] = FrameAt /\ pkt \in Packets /\ DOMAIN reg = 0 .. 10
  BY LoadSizes
<1>1. LoadShape(c) /\ insn = b[l + p] /\ Sound /\ CheckInv(c, p) /\ ReadInv(c, p)
  <2>1. q - l = p
    BY <1>0
  <2> QED
    BY <2>1 DEF Loading, LoadInv
<1>2. \A r \in 1 .. 19 : l + r \in 1 .. Len(b) /\ (r > 1 => l + r \in 2 .. Len(b))
  <2>1. Len(b) = l + (IF c.size = 1 THEN 20 ELSE 21)
    BY <1>1, LoadLen
  <2>2. l \in {1, 4}
    BY <1>0
  <2> DEFINE len == Len(b)
  <2>3. len \in 21 .. 25 /\ len >= l + 20
    BY ONLY <2>1, <2>2
  <2> HIDE DEF len
  <2>4. \A r \in 1 .. 19 : l + r \in 1 .. len /\ (r > 1 => l + r \in 2 .. len)
    BY ONLY <2>2, <2>3
  <2> QED
    BY <2>4 DEF len
\* No sum of the numbers in question wraps around.
<1>N. ASSUME n \in Word, n < WordMod \div 2
      PROVE  /\ n \in Nat /\ n + c.size \in Nat /\ ~(n + c.size < n)
             /\ n + c.size \in Word
             /\ n \in Dword /\ n + c.size \in Dword
             /\ PacketAt + n \in Dword
  <2> DEFINE w == WordMod
             d == DwMod
             m == c.size
             t == PacketAt
  <2>1. /\ m \in {1, 2, 4} /\ w \in Nat /\ w >= 256 /\ d \in Nat /\ t \in Nat
        /\ t + w <= d /\ n \in 0 .. w - 1 /\ n < w \div 2
        /\ Dword = 0 .. d - 1 /\ Word = 0 .. w - 1
    BY <1>0, <1>N
  <2> HIDE DEF w, d, m, t
  <2>2. n + m < w /\ n + m \in 0 .. w - 1 /\ n + m \in Nat /\ ~(n + m < n)
    BY ONLY <2>1
  <2>4. n \in 0 .. d - 1 /\ n + m \in 0 .. d - 1 /\ t + n \in 0 .. d - 1
    BY ONLY <2>1, <2>2
  <2> QED
    BY <2>1, <2>2, <2>4 DEF w, d, m, t
<1>P. /\ PacketAt \in Dword /\ PacketAt + Len(pkt) \in Dword /\ Len(pkt) \in Dword
      /\ ~(PacketAt + Len(pkt) < PacketAt)
      /\ PacketAt + Len(pkt) - PacketAt = Len(pkt)
  <2> DEFINE w == WordMod
             d == DwMod
             m == Len(pkt)
             t == PacketAt
  <2>1. /\ m \in Nat /\ w \in Nat /\ d \in Nat /\ t \in Nat
        /\ t + w <= d /\ m < w /\ Dword = 0 .. d - 1
    BY <1>0
  <2> HIDE DEF w, d, m, t
  <2>2. /\ t \in 0 .. d - 1 /\ t + m \in 0 .. d - 1 /\ m \in 0 .. d - 1
        /\ ~(t + m < t) /\ t + m - t = m
    BY ONLY <2>1
  <2> QED
    BY <2>1, <2>2 DEF w, d, m, t
<1>3. /\ b[l + 1] = Jump(32, "jslt", 2, Imm, 0, 16)
      /\ b[l + 2] = Alu32("mov", 3, 2, 0)
      /\ b[l + 3] = Alu32("add", 3, Imm, c.size)
      /\ b[l + 4] = Jump(64, "jlt", 3, 2, 0, 13)
      /\ b[l + 5] = Load(8, 4, DataAt)
      /\ b[l + 6] = Load(8, 5, DataEndAt)
      /\ b[l + 7] = Jump(64, "jlt", 5, 4, 0, 10)
      /\ b[l + 8] = Alu64("sub", 5, 4, 0)
      /\ b[l + 9] = Jump(64, "jgt", 3, 5, 0, 8)
  <2>1. LoadCodeIs(b, l, c.op, c.size, c.k)
    BY <1>1, LoadCode DEF LoadBlock, LoadShape
  <2> QED
    BY <2>1 DEF LoadCodeIs
<1>4. CASE p = 1
  <2>1. n \in Word /\ reg[2] = n /\ ~faulted
    BY <1>1, <1>4 DEF CheckInv, ReadInv
  <2>2. Goes(IF n >= WordMod \div 2 THEN 16 ELSE 0)
    BY <1>1, <1>3, <1>4, <2>1, JumpNegative
  <2>3. CASE n >= WordMod \div 2
    <3>1. Moves(q, q + 1 + 16) /\ UNCHANGED <<reg, frame, faulted, pkt>>
      BY <2>2, <2>3, GoesMoves
    <3>2. q + 1 + 16 = l + 18
      BY <1>0, <1>4
    <3>3. ~InPacket(ref, c)
      BY <2>1, <2>3, <1>0, SMTT(20) DEF InPacket
    <3>4. ref' = ref => CheckInv(c, 18)' /\ ReadInv(c, 18)'
      BY <2>1, <3>1, <3>3 DEF CheckInv, ReadInv, InPacket
    <3> QED
      BY <1>1, <1>2, <3>1, <3>2, <3>4, Reached
  <2>4. CASE ~(n >= WordMod \div 2)
    <3>1. Moves(q, q + 1 + 0) /\ UNCHANGED <<reg, frame, faulted, pkt>>
      BY <2>2, <2>4, GoesMoves
    <3>2. q + 1 + 0 = l + 2
      BY <1>0, <1>4
    <3>3. ref' = ref => CheckInv(c, 2)' /\ ReadInv(c, 2)'
      BY <2>1, <2>4, <3>1, <1>0 DEF CheckInv, ReadInv
    <3> QED
      BY <1>1, <1>2, <3>1, <3>2, <3>3, Reached
  <2> QED
    BY <2>3, <2>4
<1>5. CASE p = 2
  <2>1. n \in Word /\ reg[2] = n /\ ~faulted /\ n < WordMod \div 2
    BY <1>1, <1>5 DEF CheckInv, ReadInv
  <2>2. Sets(3, n)
    BY <1>1, <1>3, <1>5, <2>1, MovReg DEF Imm
  <2>3. /\ Moves(q, q + 1) /\ UNCHANGED <<frame, faulted, pkt>>
        /\ reg'[3] = n /\ reg'[2] = n
    BY <2>1, <2>2, SetsMoves
  <2>4. q + 1 = l + 3
    BY <1>0, <1>5
  <2>5. ref' = ref => CheckInv(c, 3)' /\ ReadInv(c, 3)'
    BY <2>1, <2>3 DEF CheckInv, ReadInv
  <2> QED
    BY <1>1, <1>2, <2>3, <2>4, <2>5, Reached
<1>6. CASE p = 3
  <2>1. n \in Word /\ reg[2] = n /\ reg[3] = n /\ ~faulted /\ n < WordMod \div 2
    BY <1>1, <1>6 DEF CheckInv, ReadInv
  <2>2. c.size \in Word /\ n + c.size \in Word
    <3>1. c.size \in {1, 2, 4} /\ WordMod \in Nat /\ WordMod >= 256 /\ Word = 0 .. WordMod - 1
      BY <1>0
    <3>2. c.size \in Word
      BY ONLY <3>1
    <3> QED
      BY <2>1, <3>2, <1>N
  <2>3. Sets(3, n + c.size)
    BY <1>1, <1>3, <1>6, <2>1, <2>2, AddsImm
  <2>4. /\ Moves(q, q + 1) /\ UNCHANGED <<frame, faulted, pkt>>
        /\ reg'[3] = n + c.size /\ reg'[2] = n
    BY <2>1, <2>3, SetsMoves
  <2>5. q + 1 = l + 4
    BY <1>0, <1>6
  <2>6. ref' = ref => CheckInv(c, 4)' /\ ReadInv(c, 4)'
    BY <2>1, <2>4 DEF CheckInv, ReadInv
  <2> QED
    BY <1>1, <1>2, <2>4, <2>5, <2>6, Reached
<1>7. CASE p = 4
  <2>1. /\ n \in Word /\ reg[2] = n /\ reg[3] = n + c.size /\ ~faulted
        /\ n < WordMod \div 2
    BY <1>1, <1>7 DEF CheckInv, ReadInv
  <2>2. reg[2] \in Dword /\ reg[3] \in Dword /\ ~(reg[3] < reg[2])
    BY <2>1, <1>N
  <2>3. Goes(0)
    BY <1>1, <1>3, <1>7, <2>2, JumpLess DEF Imm
  <2>4. Moves(q, q + 1 + 0) /\ UNCHANGED <<reg, frame, faulted, pkt>>
    BY <2>3, GoesMoves
  <2>5. q + 1 + 0 = l + 5
    BY <1>0, <1>7
  <2>6. ref' = ref => CheckInv(c, 5)' /\ ReadInv(c, 5)'
    BY <2>1, <2>4 DEF CheckInv, ReadInv
  <2> QED
    BY <1>1, <1>2, <2>4, <2>5, <2>6, Reached, SMTT(20)
<1>8. CASE p = 5
  <2>1. /\ n \in Word /\ reg[2] = n /\ reg[3] = n + c.size /\ ~faulted
        /\ n < WordMod \div 2
    BY <1>1, <1>8 DEF CheckInv, ReadInv
  <2>2. Sets(4, PacketAt)
    <3>1. FrameHas(DataAt, BytesOf(PacketAt, 8), 8)
      BY <1>1 DEF Sound, HasData
    <3>2. LittleEndian(BytesOf(PacketAt, 8), 8) = PacketAt
      BY <1>0, DwordStored, PacketSize DEF Dword
    <3> QED
      BY <1>1, <1>3, <1>8, <3>1, <3>2, LoadsFrom
  <2>3. /\ Moves(q, q + 1) /\ UNCHANGED <<frame, faulted, pkt>>
        /\ reg'[3] = reg[3] /\ reg'[2] = n /\ reg'[4] = PacketAt
    BY <2>1, <2>2, SetsMoves
  <2>4. q + 1 = l + 6
    BY <1>0, <1>8
  <2>5. ref' = ref => CheckInv(c, 6)' /\ ReadInv(c, 6)'
    BY <2>1, <2>3 DEF CheckInv, ReadInv
  <2> QED
    BY <1>1, <1>2, <2>3, <2>4, <2>5, Reached
<1>9. CASE p = 6
  <2>1. /\ n \in Word /\ reg[2] = n /\ reg[3] = n + c.size /\ ~faulted
        /\ n < WordMod \div 2 /\ reg[4] = PacketAt
    BY <1>1, <1>9 DEF CheckInv, ReadInv
  <2>2. Sets(5, PacketAt + Len(pkt))
    <3>1. FrameHas(DataEndAt, BytesOf(PacketAt + Len(pkt), 8), 8)
      BY <1>1 DEF Sound, HasDataEnd
    <3>2. LittleEndian(BytesOf(PacketAt + Len(pkt), 8), 8) = PacketAt + Len(pkt)
      BY <1>0, DwordStored, PacketSize DEF Dword
    <3> QED
      BY <1>1, <1>3, <1>9, <3>1, <3>2, LoadsFrom
  <2>3. /\ Moves(q, q + 1) /\ UNCHANGED <<frame, faulted, pkt>>
        /\ reg'[3] = reg[3] /\ reg'[2] = n /\ reg'[4] = PacketAt
        /\ reg'[5] = PacketAt + Len(pkt)
    BY <2>1, <2>2, SetsMoves
  <2>4. q + 1 = l + 7
    BY <1>0, <1>9
  <2>5. ref' = ref => CheckInv(c, 7)' /\ ReadInv(c, 7)'
    BY <2>1, <2>3 DEF CheckInv, ReadInv
  <2> QED
    BY <1>1, <1>2, <2>3, <2>4, <2>5, Reached, SMTT(20)
<1>10. CASE p = 7
  <2>1. /\ n \in Word /\ reg[2] = n /\ reg[3] = n + c.size /\ ~faulted
        /\ n < WordMod \div 2 /\ reg[4] = PacketAt /\ reg[5] = PacketAt + Len(pkt)
    BY <1>1, <1>10 DEF CheckInv, ReadInv
  <2>2. reg[4] \in Dword /\ reg[5] \in Dword /\ ~(reg[5] < reg[4])
    BY <2>1, <1>P
  <2>3. Goes(0)
    BY <1>1, <1>3, <1>10, <2>2, JumpLess DEF Imm
  <2>4. Moves(q, q + 1 + 0) /\ UNCHANGED <<reg, frame, faulted, pkt>>
    BY <2>3, GoesMoves
  <2>5. q + 1 + 0 = l + 8
    BY <1>0, <1>10
  <2>6. ref' = ref => CheckInv(c, 8)' /\ ReadInv(c, 8)'
    BY <2>1, <2>4 DEF CheckInv, ReadInv
  <2> QED
    BY <1>1, <1>2, <2>4, <2>5, <2>6, Reached, SMTT(20)
<1>11. CASE p = 8
  <2>1. /\ n \in Word /\ reg[2] = n /\ reg[3] = n + c.size /\ ~faulted
        /\ n < WordMod \div 2 /\ reg[4] = PacketAt /\ reg[5] = PacketAt + Len(pkt)
    BY <1>1, <1>11 DEF CheckInv, ReadInv
  <2>2. /\ reg[4] \in Dword /\ reg[5] \in Dword
        /\ Len(pkt) \in Dword /\ Len(pkt) = reg[5] - reg[4]
    <3>1. reg[4] = PacketAt /\ reg[5] = PacketAt + Len(pkt)
      BY <2>1
    <3>2. PacketAt \in Nat /\ Len(pkt) \in Nat
      BY <1>0
    <3>3. Len(pkt) = reg[5] - reg[4]
      BY ONLY <3>1, <3>2
    <3> QED
      BY <3>1, <3>3, <1>P
  <2>3. Sets(5, Len(pkt))
    BY <1>1, <1>3, <1>11, <2>2, Subtracts DEF Imm
  <2>4. /\ Moves(q, q + 1) /\ UNCHANGED <<frame, faulted, pkt>>
        /\ reg'[3] = reg[3] /\ reg'[2] = n /\ reg'[4] = PacketAt
        /\ reg'[5] = Len(pkt)
    BY <2>1, <2>3, SetsMoves
  <2>5. q + 1 = l + 9
    BY <1>0, <1>11
  <2>6. ref' = ref => CheckInv(c, 9)' /\ ReadInv(c, 9)'
    BY <2>1, <2>4 DEF CheckInv, ReadInv
  <2> QED
    BY <1>1, <1>2, <2>4, <2>5, <2>6, Reached, SMTT(20)
<1>12. CASE p = 9
  <2>1. /\ n \in Word /\ reg[2] = n /\ reg[3] = n + c.size /\ ~faulted
        /\ n < WordMod \div 2 /\ reg[4] = PacketAt /\ reg[5] = Len(pkt)
    BY <1>1, <1>12 DEF CheckInv, ReadInv
  <2>2. /\ reg[3] \in Dword /\ reg[5] \in Dword
        /\ reg[3] > reg[5] <=> ~InPacket(ref, c)
    <3>1. n + c.size \in Nat /\ Len(pkt) \in Nat
      BY <2>1, <1>0, <1>N
    <3>2. n + c.size > Len(pkt) <=> ~(n + c.size <= Len(pkt))
      BY ONLY <3>1
    <3>3. reg[3] \in Dword /\ reg[5] \in Dword
      BY <2>1, <1>N, <1>P
    <3> QED
      BY <2>1, <3>2, <3>3 DEF InPacket
  <2>3. Goes(IF ~InPacket(ref, c) THEN 8 ELSE 0)
    BY <1>1, <1>3, <1>12, <2>2, JumpGreater DEF Imm
  <2>4. CASE ~InPacket(ref, c)
    <3>1. Moves(q, q + 1 + 8) /\ UNCHANGED <<reg, frame, faulted, pkt>>
      BY <2>3, <2>4, GoesMoves
    <3>2. q + 1 + 8 = l + 18
      BY <1>0, <1>12
    <3>3. ref' = ref => CheckInv(c, 18)' /\ ReadInv(c, 18)'
      BY <2>1, <2>4, <3>1 DEF CheckInv, ReadInv, InPacket
    <3> QED
      BY <1>1, <1>2, <3>1, <3>2, <3>3, Reached, SMTT(20)
  <2>5. CASE InPacket(ref, c)
    <3>1. Moves(q, q + 1 + 0) /\ UNCHANGED <<reg, frame, faulted, pkt>>
      BY <2>3, <2>5, GoesMoves
    <3>2. q + 1 + 0 = l + 10
      BY <1>0, <1>12
    <3>3. ref' = ref => CheckInv(c, 10)' /\ ReadInv(c, 10)'
      BY <2>1, <2>5, <3>1 DEF CheckInv, ReadInv, InPacket
    <3> QED
      BY <1>1, <1>2, <3>1, <3>2, <3>3, Reached, SMTT(20)
  <2> QED
    BY <2>4, <2>5
<1> QED
  BY <1>4, <1>5, <1>6, <1>7, <1>8, <1>9, <1>10, <1>11, <1>12

\* A sum of words wraps around if it is less than one of them.
LEMMA Wraps ==
  ASSUME NEW x \in Word, NEW k \in Word
  PROVE  /\ (x + k) % WordMod \in Word
         /\ (x + k) % WordMod < x => x + k >= WordMod
         /\ ~((x + k) % WordMod < x) => (x + k) % WordMod = x + k /\ x + k \in Word
<1> DEFINE w == WordMod
           r == (x + k) % w
<1>1. w \in Nat \ {0} /\ x \in 0 .. w - 1 /\ k \in 0 .. w - 1 /\ Word = 0 .. w - 1
  BY Sizes DEF Word
<1> HIDE DEF w
<1>2. x + k < w => r = x + k
  <2>1. x + k < w => x + k \in 0 .. w - 1
    BY ONLY <1>1
  <2> QED
    BY ONLY <1>1, <2>1, SmallMod
<1>3. x + k >= w => r = x + k - w
  <2>1. x + k >= w => x + k - w \in 0 .. w - 1
    BY ONLY <1>1
  <2>2. (x + k) % w = (x + k - w) % w
    BY ONLY <1>1
  <2> QED
    BY ONLY <1>1, <2>1, <2>2, SmallMod
<1>4. x + k < w => r \in 0 .. w - 1 /\ ~(r < x) /\ r = x + k /\ x + k \in 0 .. w - 1
  <2> HIDE DEF r
  <2> QED
    BY ONLY <1>1, <1>2
<1>5. x + k >= w => r \in 0 .. w - 1 /\ r < x
  <2> HIDE DEF r
  <2> QED
    BY ONLY <1>1, <1>3
<1>6. x + k < w \/ x + k >= w
  BY ONLY <1>1
<1> QED
  BY <1>1, <1>4, <1>5, <1>6 DEF w

\* A load from an offset first makes the offset.
LEMMA LoadOffsets ==
  ASSUME Next, NEW c, NEW q, Loading(c, q), q <= OffsetLen(c.op),
         NEW b, b = LoadBlock(c)
  PROVE  Proceeds(c, q)
<1>1. /\ LoadShape(c) /\ insn = b[q] /\ Sound
      /\ OffsetInv(c, q) /\ ~faulted /\ q \in Nat /\ q >= 1
      /\ LoadCodeIs(b, OffsetLen(c.op), c.op, c.size, c.k)
  <2>1. q \in 1 .. Len(b) /\ LoadShape(c) /\ insn = b[q] /\ Sound /\ LoadInv(c, q)
    BY DEF Loading
  <2>2. OffsetLen(c.op) \in {1, 4}
    BY <2>1, LoadLen
  <2>3. OffsetInv(c, q) /\ ReadInv(c, q - OffsetLen(c.op))
    BY <2>1 DEF LoadInv
  <2>4. q - OffsetLen(c.op) \notin {16, 18, 19}
    BY <2>1, <2>2
  <2>5. LoadCodeIs(b, OffsetLen(c.op), c.op, c.size, c.k)
    BY <2>1, LoadCode DEF LoadBlock, LoadShape
  <2> QED
    BY <2>1, <2>3, <2>4, <2>5 DEF ReadInv
<1>2. c.k \in Word /\ ref.x \in Word
  BY <1>1 DEF LoadShape, Sound
<1>3. CASE c.op = "abs"
  <2>1. OffsetLen(c.op) = 1 /\ q = 1
    BY <1>1, <1>3 DEF OffsetLen
  <2>2. b[1] = Alu32("mov", 2, Imm, c.k)
    BY <1>1, <1>3 DEF LoadCodeIs
  <2>3. Sets(2, c.k)
    BY <1>1, <1>2, <2>1, <2>2, MovImm
  <2>4. /\ Moves(q, q + 1) /\ UNCHANGED <<frame, faulted, pkt>>
        /\ reg'[2] = c.k /\ q + 1 = 1 + 1
    BY <2>1, <2>3, SetsMoves
  <2>5. LoadFrom(ref, c) = c.k
    BY <1>3 DEF LoadFrom
  <2>6. ref' = ref => CheckInv(c, 1)' /\ ReadInv(c, 1)'
    BY <1>1, <1>2, <2>4, <2>5 DEF CheckInv, ReadInv
  <2>7. Len(LoadBlock(c)) >= 21 /\ Len(LoadBlock(c)) \in Nat
    BY <1>1, <2>1, LoadLen
  <2>8. q + 1 \in 2 .. Len(LoadBlock(c))
    BY <2>1, <2>7
  <2>9. 1 = OffsetLen(c.op) /\ 1 \in 1 .. 21
    BY <2>1
  <2> QED
    BY <1>1, <2>4, <2>6, <2>8, <2>9, Reached
<1>4. CASE c.op = "ind"
  <2>1. OffsetLen(c.op) = 4 /\ 4 = OffsetLen(c.op) /\ q \in 1 .. 4
    BY <1>1, <1>4 DEF OffsetLen
  <2>2. /\ b[1] = Alu32("mov", 2, X, 0) /\ b[2] = Alu32("mov", 1, 2, 0)
        /\ b[3] = Alu32("add", 2, Imm, c.k) /\ b[4] = Jump(64, "jlt", 2, 1, 0, 17)
    BY <1>1, <1>4 DEF LoadCodeIs
  <2>3. Len(b) >= 24 /\ Len(b) \in Nat
    BY <1>1, <2>1, LoadLen
  <2>4. LoadFrom(ref, c) = ref.x + c.k
    BY <1>4 DEF LoadFrom
  \* Before the offset is made nothing is claimed of the rest.
  <2>5. ASSUME NEW r \in 2 .. 4, ref' = ref, OffsetInv(c, r)', ~faulted'
        PROVE  LoadInv(c, r)'
    <3>1. r - OffsetLen(c.op) \notin 1 .. 21 /\ OffsetInv(c, r)'
      BY <2>1, <2>5
    <3>2. CheckInv(c, r - OffsetLen(c.op))'
      BY <3>1 DEF CheckInv
    <3>3. ReadInv(c, r - OffsetLen(c.op))'
      BY <2>5, <3>1 DEF ReadInv
    <3> QED
      BY <3>1, <3>2, <3>3 DEF LoadInv
  <2>6. CASE q = 1
    <3>1. reg[X] = ref.x
      BY <1>1, <1>4, <2>6 DEF OffsetInv
    <3>2. Sets(2, ref.x)
      BY <1>1, <1>2, <2>2, <2>6, <3>1, MovReg DEF X, Imm
    <3>3. /\ Moves(q, q + 1) /\ UNCHANGED <<frame, faulted, pkt>>
          /\ reg'[2] = ref.x /\ q + 1 = 2
      BY <2>6, <3>2, SetsMoves
    <3>4. ref' = ref => OffsetInv(c, 2)'
      BY <3>3 DEF OffsetInv
    <3>5. ref' = ref => LoadInv(c, 2)'
      BY <1>1, <2>5, <3>3, <3>4
    <3> QED
      BY <2>3, <3>3, <3>5 DEF Proceeds
  <2>7. CASE q = 2
    <3>1. reg[2] = ref.x
      BY <1>1, <1>4, <2>7 DEF OffsetInv
    <3>2. Sets(1, ref.x)
      BY <1>1, <1>2, <2>2, <2>7, <3>1, MovReg DEF Imm
    <3>3. /\ Moves(q, q + 1) /\ UNCHANGED <<frame, faulted, pkt>>
          /\ reg'[2] = ref.x /\ reg'[1] = ref.x /\ q + 1 = 3
      BY <2>7, <3>1, <3>2, SetsMoves
    <3>4. ref' = ref => OffsetInv(c, 3)'
      BY <3>3 DEF OffsetInv
    <3>5. ref' = ref => LoadInv(c, 3)'
      BY <1>1, <2>5, <3>3, <3>4
    <3> QED
      BY <2>3, <3>3, <3>5 DEF Proceeds
  <2>8. CASE q = 3
    <3>1. reg[2] = ref.x /\ reg[1] = ref.x
      BY <1>1, <1>4, <2>8 DEF OffsetInv
    <3>2. Sets(2, (ref.x + c.k) % WordMod)
      BY <1>1, <1>2, <2>2, <2>8, <3>1, AddImm
    <3>3. /\ Moves(q, q + 1) /\ UNCHANGED <<frame, faulted, pkt>>
          /\ reg'[2] = (ref.x + c.k) % WordMod /\ reg'[1] = ref.x /\ q + 1 = 4
      BY <2>8, <3>1, <3>2, SetsMoves
    <3>4. ref' = ref => OffsetInv(c, 4)'
      BY <3>3 DEF OffsetInv
    <3>5. ref' = ref => LoadInv(c, 4)'
      BY <1>1, <2>5, <3>3, <3>4
    <3> QED
      BY <2>3, <3>3, <3>5 DEF Proceeds
  <2>9. CASE q = 4
    <3> DEFINE sum == (ref.x + c.k) % WordMod
    <3>1. reg[2] = sum /\ reg[1] = ref.x
      BY <1>1, <1>4, <2>9 DEF OffsetInv
    <3>2. /\ sum \in Word /\ (sum < ref.x => ref.x + c.k >= WordMod)
          /\ ~(sum < ref.x) => sum = ref.x + c.k /\ ref.x + c.k \in Word
      BY <1>2, Wraps
    <3> HIDE DEF sum
    <3>3. reg[1] \in Dword /\ reg[2] \in Dword
      BY <1>2, <3>1, <3>2, Sizes DEF Word, Dword
    <3>4. Goes(IF sum < ref.x THEN 17 ELSE 0)
      <4>1. insn = Jump(64, "jlt", 2, 1, 0, 17)
        BY <1>1, <2>2, <2>9
      <4>2. 1 # Imm
        BY DEF Imm
      <4>3. Goes(IF reg[2] < reg[1] THEN 17 ELSE 0)
        BY <3>3, <4>1, <4>2, JumpLess
      <4> QED
        BY <3>1, <4>3
    <3>5. CASE sum < ref.x
      <4>1. Moves(q, q + 1 + 17) /\ UNCHANGED <<reg, frame, faulted, pkt>>
        BY <3>4, <3>5, GoesMoves
      <4>2. q + 1 + 17 = 4 + 18 /\ q + 1 + 17 \in 2 .. Len(LoadBlock(c))
        BY <2>3, <2>9
      <4>3. ~InPacket(ref, c)
        <5>1. /\ Len(pkt) \in Nat /\ Len(pkt) < WordMod /\ WordMod \in Nat
              /\ c.size \in {1, 2, 4} /\ ref.x + c.k \in Nat
          BY LoadSizes, SMTT(20)
        <5>2. ref.x + c.k >= WordMod
          BY <3>2, <3>5
        <5>3. ~(ref.x + c.k + c.size <= Len(pkt))
          BY ONLY <5>1, <5>2
        <5> QED
          BY <2>4, <5>3 DEF InPacket
      <4>4. ref' = ref => CheckInv(c, 18)' /\ ReadInv(c, 18)'
        BY <1>1, <4>1, <4>3 DEF CheckInv, ReadInv, InPacket
      <4>5. 18 \in 1 .. 21
        OBVIOUS
      <4> QED
        BY <1>1, <2>1, <4>1, <4>2, <4>4, <4>5, Reached
    <3>6. CASE ~(sum < ref.x)
      <4>1. Moves(q, q + 1 + 0) /\ UNCHANGED <<reg, frame, faulted, pkt>>
        BY <3>4, <3>6, GoesMoves
      <4>2. q + 1 + 0 = 4 + 1 /\ q + 1 + 0 \in 2 .. Len(LoadBlock(c))
        BY <2>3, <2>9
      <4>3. ref' = ref => CheckInv(c, 1)' /\ ReadInv(c, 1)'
        BY <1>1, <2>4, <3>1, <3>2, <3>6, <4>1 DEF CheckInv, ReadInv
      <4>4. 1 \in 1 .. 21
        OBVIOUS
      <4> QED
        BY <1>1, <2>1, <4>1, <4>2, <4>3, <4>4, Reached
    <3> QED
      BY <3>5, <3>6
  <2> QED
    BY <2>1, <2>6, <2>7, <2>8, <2>9
<1> QED
  BY <1>1, <1>3, <1>4 DEF LoadShape

\* What the classic machine loads.
LEMMA PacketWord ==
  ASSUME NEW c, LoadShape(c), Sound, LoadFrom(ref, c) \in Nat, InPacket(ref, c)
  PROVE  /\ \A j \in 1 .. c.size : PacketBytes(ref, c)[j] \in Byte
         /\ DOMAIN PacketBytes(ref, c) = 1 .. c.size
         /\ LittleEndian(PacketBytes(ref, c), c.size) \in Word
         /\ BigEndian(PacketBytes(ref, c), c.size) \in Word
<1> DEFINE b == PacketBytes(ref, c)
           n == LoadFrom(ref, c)
           m == c.size
<1>1. m \in {1, 2, 4} /\ n \in Nat /\ n + m <= Len(pkt)
  BY DEF LoadShape, InPacket
<1>2. Len(pkt) \in Nat /\ \A i \in 1 .. Len(pkt) : pkt[i] \in Byte
  BY PacketSize DEF Sound
<1>3. b = [j \in 1 .. m |-> pkt[n + j]]
  BY DEF PacketBytes
<1> HIDE DEF b, n, m
<1>4. ASSUME NEW j \in 1 .. m PROVE b[j] \in Byte
  <2>1. n + j \in 1 .. Len(pkt)
    BY ONLY <1>1, <1>2
  <2> QED
    BY <1>2, <1>3, <2>1
<1>5. LittleEndian(b, m) \in Word /\ BigEndian(b, m) \in Word
  BY <1>1, <1>4, TurnedRound
<1> QED
  BY <1>3, <1>4, <1>5 DEF b, m

\* The bytes are read, if they are in the packet, into the frame.
LEMMA LoadReads ==
  ASSUME Next, NEW c, NEW q, Loading(c, q), NEW p \in 10 .. 20,
         NEW l, l = OffsetLen(c.op), q = l + p, q < Len(LoadBlock(c)), p # 19,
         NEW b, b = LoadBlock(c), NEW n, n = LoadFrom(ref, c)
  PROVE  Proceeds(c, q)
<1>0. /\ c.size \in {1, 2, 4} /\ l \in {1, 4} /\ pc \in Int
      /\ Len(pkt) \in Nat /\ DwMod \in Nat /\ DwMod >= 65536
      /\ Dword = 0 .. DwMod - 1
      /\ PacketAt \in Nat /\ PacketAt + WordMod <= DwMod /\ WordMod \in Nat
      /\ Len(pkt) < WordMod /\ FrameAt \in 64 .. DwMod - 1
      /\ reg[FP] = FrameAt /\ pkt \in Packets /\ DOMAIN reg = 0 .. 10
  BY LoadSizes
<1>1. LoadShape(c) /\ insn = b[l + p] /\ Sound /\ CheckInv(c, p) /\ ReadInv(c, p)
  <2>1. q - l = p
    BY <1>0
  <2> QED
    BY <2>1 DEF Loading, LoadInv
<1>L. Len(b) = l + (IF c.size = 1 THEN 20 ELSE 21)
  BY <1>1, LoadLen
<1>2. \A r \in 1 .. 20 : l + r \in 1 .. Len(b) /\ (r > 1 => l + r \in 2 .. Len(b))
  <2>1. l \in {1, 4}
    BY <1>0
  <2> DEFINE len == Len(b)
  <2>2. len \in 21 .. 25 /\ len >= l + 20
    BY ONLY <1>L, <2>1
  <2> HIDE DEF len
  <2>3. \A r \in 1 .. 20 : l + r \in 1 .. len /\ (r > 1 => l + r \in 2 .. len)
    BY ONLY <2>1, <2>2
  <2> QED
    BY <2>3 DEF len
<1>3. /\ b[l + 10] = Alu64("mov", 1, FP, 0)
      /\ b[l + 11] = Alu64("add", 1, Imm, BytesAt)
      /\ b[l + 12] = Alu64("mov", 3, 4, 0)
      /\ b[l + 13] = Alu64("add", 3, 2, 0)
      /\ b[l + 14] = Alu64("mov", 2, Imm, c.size)
      /\ b[l + 15] = CallProbeRead
      /\ b[l + 16] = Jump(64, "jne", A, Imm, 0, 1)
      /\ b[l + 17] = JumpAlways(2)
      /\ b[l + 18] = Alu64("mov", A, Imm, 0)
      /\ b[l + 20] = Load(c.size, A, BytesAt)
  <2>1. LoadCodeIs(b, l, c.op, c.size, c.k)
    BY <1>1, LoadCode DEF LoadBlock, LoadShape
  <2> QED
    BY <2>1 DEF LoadCodeIs
<1>N. ASSUME n \in Word, n < WordMod \div 2
      PROVE  n \in Nat /\ n \in Dword /\ PacketAt + n \in Dword
  <2>1. /\ n \in Nat /\ n < WordMod /\ WordMod \in Nat /\ DwMod \in Nat
        /\ PacketAt \in Nat /\ PacketAt + WordMod <= DwMod
    BY <1>0, <1>N, Sizes DEF Word
  <2>2. n \in 0 .. DwMod - 1 /\ PacketAt + n \in 0 .. DwMod - 1
    BY ONLY <2>1
  <2> QED
    BY <1>0, <2>1, <2>2
<1>P. PacketAt \in Dword /\ FrameAt \in Dword
  BY <1>0, PacketSize DEF Dword
<1>4. CASE p = 10
  <2>1. /\ n \in Word /\ n < WordMod \div 2 /\ reg[2] = n /\ reg[4] = PacketAt
        /\ InPacket(ref, c) /\ ~faulted
    BY <1>1, <1>4 DEF CheckInv, ReadInv
  <2>2. Sets(1, FrameAt)
    <3>1. insn = Alu64("mov", 1, FP, 0)
      BY <1>1, <1>3, <1>4
    <3>2. reg[FP] = FrameAt /\ reg[FP] \in Dword /\ FP # Imm
      BY <1>0, <1>P DEF FP, Imm
    <3>3. Sets(1, reg[FP])
      BY <3>1, <3>2, MovReg
    <3> QED
      BY <3>2, <3>3
  <2>3. /\ Moves(q, q + 1) /\ UNCHANGED <<frame, faulted, pkt>>
        /\ reg'[1] = FrameAt /\ reg'[2] = n /\ reg'[4] = PacketAt
    BY <2>1, <2>2, SetsMoves
  <2>4. q + 1 = l + 11
    BY <1>0, <1>4
  <2>5. ref' = ref => CheckInv(c, 11)' /\ ReadInv(c, 11)'
    BY <2>1, <2>3 DEF CheckInv, ReadInv, InPacket
  <2> QED
    BY <1>1, <1>2, <2>3, <2>4, <2>5, Reached
<1>5. CASE p = 11
  <2>1. /\ n \in Word /\ n < WordMod \div 2 /\ reg[2] = n /\ reg[4] = PacketAt
        /\ InPacket(ref, c) /\ ~faulted /\ reg[1] = FrameAt
    BY <1>1, <1>5 DEF CheckInv, ReadInv
  <2>2. Sets(1, FrameAt + BytesAt)
    BY <1>1, <1>3, <1>5, <2>1, AddBytesAt
  <2>3. /\ Moves(q, q + 1) /\ UNCHANGED <<frame, faulted, pkt>>
        /\ reg'[1] = FrameAt + BytesAt /\ reg'[2] = n /\ reg'[4] = PacketAt
    BY <2>1, <2>2, SetsMoves
  <2>4. q + 1 = l + 12
    BY <1>0, <1>5
  <2>5. ref' = ref => CheckInv(c, 12)' /\ ReadInv(c, 12)'
    BY <2>1, <2>3 DEF CheckInv, ReadInv, InPacket
  <2> QED
    BY <1>1, <1>2, <2>3, <2>4, <2>5, Reached, SMTT(20)
<1>6. CASE p = 12
  <2>1. /\ n \in Word /\ n < WordMod \div 2 /\ reg[2] = n /\ reg[4] = PacketAt
        /\ InPacket(ref, c) /\ ~faulted /\ reg[1] = FrameAt + BytesAt
    BY <1>1, <1>6 DEF CheckInv, ReadInv
  <2>2. Sets(3, PacketAt)
    <3>1. insn = Alu64("mov", 3, 4, 0)
      BY <1>1, <1>3, <1>6
    <3>2. reg[4] = PacketAt /\ reg[4] \in Dword /\ 4 # Imm
      BY <2>1, <1>P DEF Imm
    <3>3. Sets(3, reg[4])
      BY <3>1, <3>2, MovReg
    <3> QED
      BY <3>2, <3>3
  <2>3. /\ Moves(q, q + 1) /\ UNCHANGED <<frame, faulted, pkt>>
        /\ reg'[1] = FrameAt + BytesAt /\ reg'[2] = n /\ reg'[3] = PacketAt
    BY <2>1, <2>2, SetsMoves
  <2>4. q + 1 = l + 13
    BY <1>0, <1>6
  <2>5. ref' = ref => CheckInv(c, 13)' /\ ReadInv(c, 13)'
    BY <2>1, <2>3 DEF CheckInv, ReadInv, InPacket
  <2> QED
    BY <1>1, <1>2, <2>3, <2>4, <2>5, Reached
<1>7. CASE p = 13
  <2>1. /\ n \in Word /\ n < WordMod \div 2 /\ reg[2] = n /\ reg[3] = PacketAt
        /\ InPacket(ref, c) /\ ~faulted /\ reg[1] = FrameAt + BytesAt
    BY <1>1, <1>7 DEF CheckInv, ReadInv
  <2>2. insn = Alu64("add", 3, 2, 0)
    BY <1>1, <1>3, <1>7
  <2>3. Sets(3, PacketAt + n)
    BY <1>N, <1>P, <2>1, <2>2, Adds DEF Imm
  <2>4. /\ Moves(q, q + 1) /\ UNCHANGED <<frame, faulted, pkt>>
        /\ reg'[1] = FrameAt + BytesAt /\ reg'[2] = n /\ reg'[3] = PacketAt + n
    BY <2>1, <2>3, SetsMoves
  <2>5. q + 1 = l + 14
    BY <1>0, <1>7
  <2>6. ref' = ref => CheckInv(c, 14)' /\ ReadInv(c, 14)'
    BY <2>1, <2>4 DEF CheckInv, ReadInv, InPacket
  <2> QED
    BY <1>1, <1>2, <2>4, <2>5, <2>6, Reached, SMTT(20)
<1>8. CASE p = 14
  <2>1. /\ n \in Word /\ n < WordMod \div 2 /\ reg[3] = PacketAt + n
        /\ InPacket(ref, c) /\ ~faulted /\ reg[1] = FrameAt + BytesAt
    BY <1>1, <1>8 DEF CheckInv, ReadInv
  <2>2. Sets(2, c.size)
    <3>1. insn = Alu64("mov", 2, Imm, c.size)
      BY <1>1, <1>3, <1>8
    <3>2. c.size \in {1, 2, 4}
      BY <1>0
    <3>3. c.size \in 0 .. 4
      BY ONLY <3>2
    <3> QED
      BY <3>1, <3>3, MovSmall
  <2>3. /\ Moves(q, q + 1) /\ UNCHANGED <<frame, faulted, pkt>>
        /\ reg'[1] = FrameAt + BytesAt /\ reg'[2] = c.size /\ reg'[3] = PacketAt + n
    BY <2>1, <2>2, SetsMoves
  <2>4. q + 1 = l + 15
    BY <1>0, <1>8
  <2>5. ref' = ref => CheckInv(c, 15)' /\ ReadInv(c, 15)'
    BY <2>1, <2>3 DEF CheckInv, ReadInv, InPacket
  <2> QED
    BY <1>1, <1>2, <2>3, <2>4, <2>5, Reached, SMTT(20)
<1>9. CASE p = 15
  <2>1. /\ n \in Word /\ n < WordMod \div 2 /\ reg[3] = PacketAt + n
        /\ InPacket(ref, c) /\ ~faulted /\ reg[1] = FrameAt + BytesAt
        /\ reg[2] = c.size
    BY <1>1, <1>9 DEF CheckInv, ReadInv
  <2>2. insn = CallProbeRead /\ n + c.size <= Len(pkt)
    BY <1>1, <1>3, <1>9, <2>1 DEF InPacket
  <2>3. /\ Reach(pc + 1) /\ status' = status
        /\ DOMAIN reg' = 0 .. 10 /\ reg'[X] = reg[X] /\ reg'[FP] = reg[FP]
        /\ \E d : /\ Puts(BytesAt, d, c.size)
                  /\ \/ /\ faulted' = faulted /\ reg'[A] = 0
                        /\ d = [j \in 1 .. c.size |-> pkt[n + j]]
                     \/ faulted' = TRUE /\ reg'[A] \in Dword \ {0}
    <3>1. n \in Nat /\ c.size \in {1, 2, 4} /\ pkt \in Packets /\ DOMAIN reg = 0 .. 10
      BY <1>0, <1>N, <2>1
    <3> QED
      BY <2>1, <2>2, <3>1, Calls
  <2>4. PICK d : /\ Puts(BytesAt, d, c.size)
                 /\ \/ /\ faulted' = faulted /\ reg'[A] = 0
                       /\ d = [j \in 1 .. c.size |-> pkt[n + j]]
                    \/ faulted' = TRUE /\ reg'[A] \in Dword \ {0}
    BY <2>3
  <2>5. q + 1 = l + 16 /\ (q + 1) - q = 1
    BY <1>0, <1>9
  <2>6. Moves(q, q + 1)
    <3>1. ASSUME NEW s \in Frame, s \notin BytesAt .. BytesAt + 3
          PROVE  frame'[s] = frame[s]
      <4>1. c.size \in {1, 2, 4}
        BY <1>0
      <4>2. BytesAt .. BytesAt + c.size - 1 \subseteq BytesAt .. BytesAt + 3
        BY ONLY <4>1 DEF BytesAt
      <4> QED
        BY <2>4, <3>1, <4>2 DEF Puts
    <3>2. DOMAIN frame' = Frame
      BY <2>4 DEF Puts
    <3> QED
      BY <2>3, <2>5, <3>1, <3>2 DEF Moves
  <2>7. pkt' = pkt
    BY <2>3 DEF Reach
  <2>8. ref' = ref => CheckInv(c, 16)'
    BY <2>1, <2>7 DEF CheckInv, InPacket
  <2>9. ~faulted' /\ ref' = ref => reg'[A] = 0 /\ HasBytes(c)'
    <3>1. ~faulted' => reg'[A] = 0 /\ d = [j \in 1 .. c.size |-> pkt[n + j]]
      BY <2>4
    <3>2. \A j \in 1 .. c.size : frame'[BytesAt + j - 1] = d[j]
      BY <2>4 DEF Puts
    <3>3. d = [j \in 1 .. c.size |-> pkt[n + j]] => d = PacketBytes(ref, c)
      BY DEF PacketBytes
    <3>4. ref' = ref => PacketBytes(ref, c)' = PacketBytes(ref, c)
      BY <2>7 DEF PacketBytes
    <3> QED
      BY <3>1, <3>2, <3>3, <3>4 DEF HasBytes, FrameHas
  <2>10. ref' = ref => ReadInv(c, 16)'
    <3>1. faulted' => reg'[A] \in Dword \ {0}
      BY <2>1, <2>4
    <3> QED
      BY <2>9, <3>1 DEF ReadInv
  <2>11. ref' = ref => CheckInv(c, 16)' /\ ReadInv(c, 16)'
    BY <2>8, <2>10
  <2> QED
    BY <1>1, <1>2, <2>5, <2>6, <2>11, Reached, SMTT(20)
<1>10. CASE p = 16
  <2>1. /\ n \in Word /\ n < WordMod \div 2 /\ InPacket(ref, c)
        /\ ~faulted => reg[A] = 0 /\ HasBytes(c)
        /\ faulted => reg[A] \in Dword \ {0}
    BY <1>1, <1>10 DEF CheckInv, ReadInv
  <2>2. insn = Jump(64, "jne", A, Imm, 0, 1) /\ reg[A] \in Dword
    <3>1. insn = Jump(64, "jne", A, Imm, 0, 1)
      BY <1>1, <1>3, <1>10
    <3>2. DwMod \in Nat /\ DwMod >= 65536
      BY <1>0
    <3>3. 0 \in Dword
      BY ONLY <3>2 DEF Dword
    <3> QED
      BY <2>1, <3>1, <3>3
  <2>3. Goes(IF Compare("jne", reg[A], 0, DwMod) THEN 1 ELSE 0)
    BY <2>2, JumpZero
  <2>4. Goes(IF reg[A] # 0 THEN 1 ELSE 0)
    BY <2>3 DEF Compare
  <2>5. CASE faulted
    <3>0. Goes(1)
      BY <2>1, <2>4, <2>5
    <3>1. Moves(q, q + 1 + 1) /\ UNCHANGED <<reg, frame, faulted, pkt>>
      BY <3>0, GoesMoves
    <3>2. q + 1 + 1 = l + 18
      BY <1>0, <1>10
    <3>3. ref' = ref => CheckInv(c, 18)' /\ ReadInv(c, 18)'
      BY <2>5, <3>1 DEF CheckInv, ReadInv
    <3> QED
      BY <1>1, <1>2, <3>1, <3>2, <3>3, Reached, SMTT(20)
  <2>6. CASE ~faulted
    <3>0. Goes(0)
      BY <2>1, <2>4, <2>6
    <3>1. Moves(q, q + 1 + 0) /\ UNCHANGED <<reg, frame, faulted, pkt>>
      BY <3>0, GoesMoves
    <3>2. q + 1 + 0 = l + 17
      BY <1>0, <1>10
    <3>3. ref' = ref => CheckInv(c, 17)'
      BY <2>1, <2>6, <3>1 DEF CheckInv, InPacket
    <3>4. ref' = ref => HasBytes(c)'
      BY <2>1, <2>6, <3>1 DEF HasBytes, FrameHas, PacketBytes
    <3>5. ref' = ref => ReadInv(c, 17)'
      BY <2>6, <3>1, <3>4 DEF ReadInv
    <3>6. ref' = ref => CheckInv(c, 17)' /\ ReadInv(c, 17)'
      BY <3>3, <3>5
    <3> QED
      BY <1>1, <1>2, <3>1, <3>2, <3>6, Reached, SMTT(20)
  <2> QED
    BY <2>5, <2>6
<1>11. CASE p = 17
  <2>1. ~faulted /\ InPacket(ref, c) /\ HasBytes(c)
    BY <1>1, <1>11 DEF CheckInv, ReadInv
  <2>2. insn.cls = "jmp" /\ insn.op = "ja" /\ insn.off = 2
    <3>1. insn = JumpAlways(2)
      BY <1>1, <1>3, <1>11
    <3> QED
      BY <3>1, JumpFields
  <2>3. Goes(2)
    BY <2>2, JumpAnyway
  <2>4. Moves(q, q + 1 + 2) /\ UNCHANGED <<reg, frame, faulted, pkt>>
    BY <2>3, GoesMoves
  <2>5. q + 1 + 2 = l + 20
    BY <1>0, <1>11
  <2>6. ref' = ref => CheckInv(c, 20)' /\ ReadInv(c, 20)'
    <3>1. ref' = ref => CheckInv(c, 20)'
      BY <2>1, <2>4 DEF CheckInv, InPacket
    <3>2. ref' = ref => HasBytes(c)'
      BY <2>1, <2>4 DEF HasBytes, FrameHas, PacketBytes
    <3>3. ref' = ref => ReadInv(c, 20)'
      BY <2>1, <2>4, <3>2 DEF ReadInv
    <3> QED
      BY <3>1, <3>3
  <2> QED
    BY <1>1, <1>2, <2>4, <2>5, <2>6, Reached
<1>12. CASE p = 18
  <2>1. faulted \/ ~InPacket(ref, c)
    BY <1>1, <1>12 DEF CheckInv, ReadInv
  <2>2. Sets(0, 0)
    BY <1>1, <1>3, <1>12, MovSmall DEF A
  <2>3. Moves(q, q + 1) /\ UNCHANGED <<frame, faulted, pkt>> /\ reg'[0] = 0
    BY <2>1, <2>2, SetsMoves
  <2>4. q + 1 = l + 19
    BY <1>0, <1>12
  <2>5. ref' = ref => CheckInv(c, 19)' /\ ReadInv(c, 19)'
    BY <2>1, <2>3 DEF CheckInv, ReadInv, InPacket, A
  <2> QED
    BY <1>1, <1>2, <2>3, <2>4, <2>5, Reached
<1>13. CASE p = 20
  <2>1. ~faulted /\ InPacket(ref, c) /\ HasBytes(c)
    BY <1>1, <1>13 DEF CheckInv, ReadInv
  <2>2. insn = Load(c.size, 0, BytesAt)
    BY <1>1, <1>3, <1>13 DEF A
  <2>3. Sets(0, LittleEndian(PacketBytes(ref, c), c.size))
    BY <1>0, <2>1, <2>2, LoadsFrom DEF HasBytes
  <2>4. /\ Moves(q, q + 1) /\ UNCHANGED <<frame, faulted, pkt>>
        /\ reg'[0] = LittleEndian(PacketBytes(ref, c), c.size)
    BY <2>1, <2>3, SetsMoves
  <2>5. q + 1 = l + 21
    BY <1>0, <1>13
  <2>6. l + 21 \in 2 .. Len(b)
    BY <1>0, <1>L, <1>13
  <2>7. ref' = ref => CheckInv(c, 21)' /\ ReadInv(c, 21)'
    BY <2>1, <2>4 DEF CheckInv, ReadInv, InPacket, PacketBytes, A
  <2> QED
    BY <1>1, <2>4, <2>5, <2>6, <2>7, Reached
<1> QED
  BY <1>4, <1>5, <1>6, <1>7, <1>8, <1>9, <1>10, <1>11, <1>12, <1>13

\* The last step makes a number of the bytes, the first being the highest.
LEMMA LoadEnds ==
  ASSUME Next, NEW c, NEW q, Loading(c, q), q = Len(LoadBlock(c))
  PROVE  /\ Sets(A, BigEndian(PacketBytes(ref, c), c.size))
         /\ ~faulted /\ InPacket(ref, c) /\ LoadFrom(ref, c) \in Nat
<1> DEFINE b == LoadBlock(c)
           l == OffsetLen(c.op)
           v == PacketBytes(ref, c)
           m == c.size
<1>1. LoadShape(c) /\ insn = b[q] /\ Sound /\ LoadInv(c, q)
  BY DEF Loading
<1>2. l \in {1, 4} /\ Len(b) = l + (IF m = 1 THEN 20 ELSE 21) /\ m \in {1, 2, 4}
  BY <1>1, LoadLen DEF LoadShape
<1>3. LoadCodeIs(b, l, c.op, m, c.k)
  BY <1>1, LoadCode DEF LoadBlock, LoadShape
<1>4. LoadFrom(ref, c) \in Nat
  <2>1. ref.x \in Nat /\ c.k \in Nat
    BY <1>1, Sizes DEF Sound, LoadShape, Word
  <2> QED
    BY <2>1 DEF LoadFrom
<1> HIDE DEF b, l, v, m
<1>5. q - l \in {20, 21} /\ (q - l = 20 <=> m = 1) /\ q \in Nat
  BY <1>2 DEF b
<1>6. CheckInv(c, q - l) /\ ReadInv(c, q - l)
  BY <1>1 DEF LoadInv, l
<1>7. ~faulted /\ InPacket(ref, c)
  <2>1. q - l \in {20, 21}
    BY <1>5
  <2> DEFINE p == q - l
  <2>2. p \in {20, 21} /\ CheckInv(c, p) /\ ReadInv(c, p)
    BY <2>1, <1>6
  <2> HIDE DEF p
  <2> QED
    BY <2>2 DEF CheckInv, ReadInv
<1>8. \A j \in 1 .. m : v[j] \in Byte
  BY <1>1, <1>4, <1>7, PacketWord DEF v, m
<1>9. CASE m = 1
  <2>1. q - l = 20 /\ q = l + 20
    BY <1>2, <1>5, <1>9
  <2>2. HasBytes(c)
    BY <1>6, <2>1 DEF ReadInv
  <2>3. insn = Load(m, A, BytesAt)
    BY <1>1, <1>3, <2>1 DEF LoadCodeIs
  <2>4. Sets(A, LittleEndian(v, m))
    BY <1>2, <2>2, <2>3, LoadsFrom DEF HasBytes, v, m
  <2>5. LittleEndian(v, m) = BigEndian(v, m)
    BY <1>2, <1>8, <1>9, TurnedRound
  <2> QED
    BY <1>4, <1>7, <2>4, <2>5 DEF v, m
<1>10. CASE m # 1
  <2>1. q - l = 21 /\ q = l + 21
    BY <1>2, <1>5, <1>10
  <2>2. reg[A] = LittleEndian(v, m)
    BY <1>6, <2>1 DEF ReadInv, v, m
  <2>3. insn = FromBigEndian(A, m)
    BY <1>1, <1>3, <1>10, <2>1 DEF LoadCodeIs
  <2>4. Sets(A, BigEndian(BytesOf(reg[A], m), m))
    BY <2>3, TurnsRound
  <2>5. BigEndian(BytesOf(LittleEndian(v, m), m), m) = BigEndian(v, m)
    BY <1>2, <1>8, <1>10, TurnedRound
  <2> QED
    BY <1>4, <1>7, <2>2, <2>4, <2>5 DEF v, m
<1> QED
  BY <1>9, <1>10

\* Every step of a packet load.
LEMMA LoadSteps ==
  ASSUME Next, NEW c, NEW q, Loading(c, q)
  PROVE  \/ insn = Exit
         \/ Proceeds(c, q) /\ q < Len(LoadBlock(c))
         \/ /\ q = Len(LoadBlock(c))
            /\ Sets(A, BigEndian(PacketBytes(ref, c), c.size))
            /\ ~faulted /\ InPacket(ref, c) /\ LoadFrom(ref, c) \in Nat
<1> DEFINE l == OffsetLen(c.op)
           n == Len(LoadBlock(c))
<1>1. LoadShape(c) /\ q \in 1 .. n /\ insn = LoadBlock(c)[q]
  BY DEF Loading
<1>2. l \in {1, 4} /\ n = l + (IF c.size = 1 THEN 20 ELSE 21)
  BY <1>1, LoadLen
<1>3. LoadCodeIs(LoadBlock(c), l, c.op, c.size, c.k)
  BY <1>1, LoadCode DEF LoadBlock, LoadShape
<1> HIDE DEF l, n
<1>4. CASE q = n
  BY <1>4, LoadEnds DEF n
<1>5. CASE q # n /\ q <= l
  <2>1. q < n
    BY <1>1, <1>2, <1>5
  <2> QED
    BY <1>5, <2>1, LoadOffsets DEF l, n
<1>6. CASE q # n /\ q > l
  <2> DEFINE p == q - l
  <2>1. q < n /\ p \in 1 .. 20 /\ q = l + p
    BY ONLY <1>1, <1>2, <1>6
  <2> HIDE DEF p
  <2>2. CASE p \in 1 .. 9
    BY <2>1, <2>2, LoadChecks DEF l, n
  <2>3. CASE p = 19
    BY <1>1, <1>3, <2>1, <2>3 DEF LoadCodeIs
  <2>4. CASE p \in 10 .. 20 /\ p # 19
    BY <2>1, <2>4, LoadReads DEF l, n
  <2> QED
    BY <2>1, <2>2, <2>3, <2>4
<1> QED
  BY <1>1, <1>2, <1>4, <1>5, <1>6

-----------------------------------------------------------------------------
(* What a step within a block and a step to a block have to show.           *)

\* Steps that leave the packet's bounds and the scratch words alone.
Quiet ==
  /\ DOMAIN reg' = 0 .. 10 /\ reg'[FP] = reg[FP] /\ DOMAIN frame' = Frame
  /\ \A s \in Frame : s \notin BytesAt .. BytesAt + 3 => frame'[s] = frame[s]
  /\ status' = status

LEMMA FrameParts ==
  /\ \A j \in 1 .. 8 : /\ DataAt + j - 1 \in Frame \ (BytesAt .. BytesAt + 3)
                       /\ DataEndAt + j - 1 \in Frame \ (BytesAt .. BytesAt + 3)
  /\ \A k \in Scratch : \A j \in 1 .. 4 :
       MemAt(k) + j - 1 \in Frame \ (BytesAt .. BytesAt + 3)
<1>1. MemWords \in Nat /\ MemWords >= 1
  BY MemoryAssumption
<1>2. ASSUME NEW j \in 1 .. 8
      PROVE  /\ DataAt + j - 1 \in Frame \ (BytesAt .. BytesAt + 3)
             /\ DataEndAt + j - 1 \in Frame \ (BytesAt .. BytesAt + 3)
  BY <1>1 DEF Frame, DataAt, DataEndAt, BytesAt
<1>3. ASSUME NEW k \in Scratch, NEW j \in 1 .. 4
      PROVE  MemAt(k) + j - 1 \in Frame \ (BytesAt .. BytesAt + 3)
  <2>1. k \in 0 .. MemWords - 1
    BY DEF Scratch
  <2> QED
    BY <1>1, <2>1 DEF Frame, BytesAt, MemAt
<1> QED
  BY <1>2, <1>3

LEMMA QuietFrame ==
  ASSUME Quiet, pkt' = pkt, HasData, HasDataEnd
  PROVE  /\ HasData' /\ HasDataEnd'
         /\ HasScratch /\ ref'.m = ref.m => HasScratch'
<1>1. ASSUME NEW j \in 1 .. 8
      PROVE  /\ frame'[DataAt + j - 1] = frame[DataAt + j - 1]
             /\ frame'[DataEndAt + j - 1] = frame[DataEndAt + j - 1]
  BY FrameParts DEF Quiet
<1>2. ASSUME NEW k \in Scratch, NEW j \in 1 .. 4
      PROVE  frame'[MemAt(k) + j - 1] = frame[MemAt(k) + j - 1]
  BY FrameParts DEF Quiet
<1>3. HasData'
  BY <1>1 DEF HasData, FrameHas
<1>4. HasDataEnd'
  BY <1>1 DEF HasDataEnd, FrameHas
<1>5. ASSUME HasScratch, ref'.m = ref.m PROVE HasScratch'
  BY <1>2, <1>5 DEF HasScratch, FrameHas
<1> QED
  BY <1>3, <1>4, <1>5

\* Any block may be entered when the registers are those of the classic
\* machine.
LEMMA Entry ==
  ASSUME NEW c, ShapeOK(c), Supported(c), Matches', ~faulted'
  PROVE  BlockInv(c, 1)'
<1>1. c.cls = "alu" => AluInv(c, 1)'
  BY DEF AluInv
<1>2. c.cls = "ld" => LdInv(c, 1)'
  <2> SUFFICES ASSUME c.cls = "ld" PROVE LdInv(c, 1)'
    OBVIOUS
  <2>1. OffsetInv(c, 1)' /\ reg'[X] = ref'.x
    BY DEF OffsetInv, Matches
  <2>2. 1 - OffsetLen(c.op) \in {0, -3}
    BY DEF OffsetLen
  <2>3. CheckInv(c, 1 - OffsetLen(c.op))' /\ ReadInv(c, 1 - OffsetLen(c.op))'
    BY <2>2 DEF CheckInv, ReadInv
  <2> QED
    BY <2>1, <2>3 DEF LdInv, LoadInv
<1>3. c.cls = "msh" => MshInv(c, 1)'
  BY DEF MshInv
<1>4. c.cls = "jmp" => JumpInv(c, 1)'
  <2>1. Pre(c) + 2 # 1
    BY DEF Pre
  <2> QED
    BY <2>1 DEF JumpInv
<1>5. c.cls = "ret" => RetInv(c, 1)'
  BY DEF RetInv
<1> QED
  BY <1>1, <1>2, <1>3, <1>4, <1>5 DEF BlockInv

\* The parts of the invariant that no step of a block changes.
LEMMA Kept ==
  ASSUME IInv, status = "run", Quiet, UNCHANGED <<prog, code, pkt, addrs>>
  PROVE  Base' /\ Converted'
BY DEF IInv, Base, Converted, Quiet

\* A step within a block.
LEMMA StayInv ==
  ASSUME IInv, status = "run", pc >= 5, NEW i, NEW c, NEW q, At(i, c, q),
         NEW r \in 2 .. Len(Block(c)), Reach(pc + (r - q)), Quiet,
         ref' = ref => BlockInv(c, r)'
  PROVE  IInv'
<1>1. At(i, c, r)' /\ ref' = ref /\ UNCHANGED <<prog, code, pkt, addrs>>
  BY Stays
<1>2. Base' /\ Converted' /\ status' = "run"
  BY <1>1, Kept DEF Quiet
<1>3. RefInv /\ HasData /\ HasDataEnd /\ HasScratch
  BY DEF IInv, InBlock
<1>4. RefInv'
  BY <1>1, <1>3 DEF RefInv
<1>5. HasData' /\ HasDataEnd' /\ HasScratch'
  BY <1>1, <1>3, QuietFrame
<1>6. pc' \in Nat /\ pc' >= 5 /\ Pos' = r /\ c = prog'[ref'.at] /\ r \in 1 .. Size(prog', ref'.at)
  <2>1. /\ i \in 1 .. Len(prog') /\ ref'.at = i /\ c = prog'[i]
        /\ r \in 1 .. Len(Block(c)) /\ pc' = addrs'[i] + (r - 1) /\ pc' >= 5
        /\ addrs' = Addrs(prog') /\ HasBlocks(prog')
    BY <1>1 DEF At
  <2>2. Len(prog') \in Nat /\ Len(Block(c)) \in Nat /\ Len(Block(c)) = Size(prog', i)
    BY <2>1 DEF HasBlocks, Size
  <2>3. addrs'[i] \in Nat
    <3>1. i \in 1 .. Len(prog') + 1
      BY <2>1, <2>2
    <3> QED
      BY <2>1, <3>1, AddrsType
  <2>4. pc' \in Nat /\ pc' - addrs'[i] + 1 = r
    BY <2>1, <2>2, <2>3
  <2> QED
    BY <2>1, <2>2, <2>4 DEF Pos
<1>7. BlockInv(c, r)'
  BY <1>1
<1>8. InBlock'
  BY <1>2, <1>5, <1>6, <1>7 DEF InBlock
<1> QED
  BY <1>2, <1>4, <1>6, <1>8 DEF IInv

\* A step to another block.
LEMMA EnterInv ==
  ASSUME IInv, status = "run", pc >= 5, NEW i, NEW c, NEW q, At(i, c, q),
         NEW n \in 1 .. Len(prog), Reach(addrs[n]),
         RefStep(ref).res = "run", RefStep(ref).at = n,
         DOMAIN reg' = 0 .. 10, reg'[FP] = reg[FP], DOMAIN frame' = Frame,
         status' = "run", ~faulted',
         ref' = RefStep(ref) => Matches' /\ RefInv' /\ HasScratch',
         HasData', HasDataEnd'
  PROVE  IInv'
<1>1. /\ At(n, prog[n], 1)' /\ ref' = RefStep(ref)
      /\ UNCHANGED <<prog, code, pkt, addrs>>
  BY Follows
<1>2. Base' /\ Converted'
  BY <1>1 DEF IInv, Base, Converted
<1>3. ShapeOK(prog'[n]) /\ Supported(prog'[n])
  <2>1. prog \in Programs /\ Converts(prog)
    BY DEF IInv, Base, Converted
  <2> QED
    BY <1>1, <2>1, ProgramShape, BlocksExist
<1>4. Matches' /\ RefInv' /\ HasScratch'
  BY <1>1
<1>5. /\ pc' \in Nat /\ pc' >= 5 /\ Pos' = 1 /\ ref'.at = n
      /\ 1 \in 1 .. Size(prog', ref'.at)
  <2>1. /\ n \in 1 .. Len(prog') /\ ref'.at = n
        /\ 1 \in 1 .. Len(Block(prog'[n])) /\ pc' = addrs'[n] + (1 - 1) /\ pc' >= 5
        /\ addrs' = Addrs(prog') /\ HasBlocks(prog')
    BY <1>1 DEF At
  <2>2. addrs'[n] \in Nat
    <3>1. n \in 1 .. Len(prog') + 1
      BY <2>1 DEF HasBlocks
    <3> QED
      BY <2>1, <3>1, AddrsType
  <2> QED
    BY <2>1, <2>2 DEF Pos, Size
<1>6. ASSUME NEW e, e = prog'[n] PROVE BlockInv(e, 1)'
  BY <1>3, <1>4, <1>6, Entry
<1>7. InBlock'
  <2>1. PICK e : e = prog'[n]
    OBVIOUS
  <2>2. BlockInv(e, 1)'
    BY <1>6, <2>1
  <2>3. prog'[ref'.at] = e
    BY <1>5, <2>1
  <2>4. BlockInv(prog[ref.at], Pos)'
    BY <1>5, <2>2, <2>3
  <2> QED
    BY <1>4, <1>5, <2>4 DEF InBlock
<1> QED
  BY <1>2, <1>4, <1>5, <1>7 DEF IInv

-----------------------------------------------------------------------------
(* Steps of any block.                                                      *)

\* The q-th instruction of the block made from c is the next.
Busy(c, q) ==
  /\ IInv /\ status = "run" /\ pc >= 5 /\ At(ref.at, c, q)
  /\ insn = Placed(prog, ref.at, q)
  /\ ShapeOK(c) /\ Supported(c) /\ BlockInv(c, q)

LEMMA BusyFacts ==
  ASSUME NEW c, NEW q, Busy(c, q)
  PROVE  /\ prog \in Programs /\ Converts(prog) /\ HasBlocks(prog)
         /\ addrs = Addrs(prog) /\ c = prog[ref.at] /\ ref.at \in 1 .. Len(prog)
         /\ Len(prog) \in Nat
         /\ Sound /\ RefInv /\ HasScratch
         /\ q \in 1 .. Len(Block(c)) /\ IsSeq(Block(c)) /\ Len(Block(c)) \in Nat
         /\ Block(c)[q].over = Short => insn = Block(c)[q]
<1>1. At(ref.at, c, q) /\ IInv /\ status = "run" /\ pc >= 5
  BY DEF Busy
<1>2. /\ c = prog[ref.at] /\ ref.at \in 1 .. Len(prog) /\ q \in 1 .. Len(Block(c))
      /\ addrs = Addrs(prog) /\ HasBlocks(prog)
  BY <1>1 DEF At
<1>3. /\ prog \in Programs /\ Converts(prog) /\ RefInv /\ HasScratch /\ HasData
      /\ HasDataEnd /\ reg[FP] = FrameAt /\ pc \in Nat /\ pkt \in Packets
      /\ DOMAIN reg = 0 .. 10 /\ DOMAIN frame = Frame
  BY <1>1 DEF IInv, Base, Converted, InBlock
<1>4. Sound
  BY <1>3 DEF Sound, RefInv
<1>5. IsSeq(Block(c)) /\ Len(Block(c)) \in Nat /\ Len(prog) \in Nat
  BY <1>2 DEF HasBlocks, Size
<1>6. Block(c)[q].over = Short => insn = Block(c)[q]
  BY <1>2 DEF Busy, Placed
<1> QED
  BY <1>2, <1>3, <1>4, <1>5, <1>6

\* A block is of one class.
LEMMA OfOneClass ==
  ASSUME NEW c, NEW q
  PROVE  /\ c.cls = "alu" => (BlockInv(c, q)' <=> AluInv(c, q)')
         /\ c.cls = "ld" => (BlockInv(c, q)' <=> LdInv(c, q)')
         /\ c.cls = "msh" => (BlockInv(c, q)' <=> MshInv(c, q)')
         /\ c.cls = "jmp" => (BlockInv(c, q)' <=> JumpInv(c, q)')
         /\ c.cls = "ret" => (BlockInv(c, q)' <=> RetInv(c, q)')
         /\ c.cls \in Singles => (BlockInv(c, q)' <=> (Matches' /\ ~faulted'))
BY DEF BlockInv, Singles

LEMMA SetsKeeps ==
  ASSUME NEW d \in 0 .. 9, NEW v, Sets(d, v), Sound
  PROVE  /\ Quiet /\ faulted' = faulted /\ frame' = frame /\ reg'[d] = v
         /\ \A r \in 0 .. 10 : r # d => reg'[r] = reg[r]
         /\ pkt' = pkt /\ Reach(pc + 1)
BY DEF Sets, Sound, Quiet, Reach, FP

LEMMA GoesKeeps ==
  ASSUME NEW off, Goes(off), Sound
  PROVE  Quiet /\ UNCHANGED <<reg, frame, faulted, pkt>>
BY DEF Goes, Sound, Quiet, Reach

\* To the next instruction of the block.
LEMMA SetsStays ==
  ASSUME NEW c, NEW q, Busy(c, q), q # Len(Block(c)),
         NEW d \in 0 .. 9, NEW v, Sets(d, v), ref' = ref => BlockInv(c, q + 1)'
  PROVE  IInv'
<1>1. IInv /\ status = "run" /\ pc >= 5 /\ At(ref.at, c, q)
  BY DEF Busy
<1>2. Sound /\ q \in 1 .. Len(Block(c)) /\ Len(Block(c)) \in Nat
  BY BusyFacts
<1>3. q + 1 \in 2 .. Len(Block(c)) /\ (q + 1) - q = 1
  BY <1>2
<1>4. Quiet /\ Reach(pc + ((q + 1) - q))
  BY <1>2, <1>3, SetsKeeps
<1>5. PICK r : r = q + 1
  OBVIOUS
<1>6. r \in 2 .. Len(Block(c)) /\ Reach(pc + (r - q))
  BY <1>3, <1>4, <1>5
<1>7. ref' = ref => BlockInv(c, r)'
  BY <1>5
<1> QED
  BY <1>1, <1>4, <1>6, <1>7, StayInv

\* Within the block.
LEMMA GoesStays ==
  ASSUME NEW c, NEW q, Busy(c, q), NEW off, Goes(off),
         NEW r \in 2 .. Len(Block(c)), r = q + 1 + off, off \in Nat,
         ref' = ref => BlockInv(c, r)'
  PROVE  IInv'
<1>1. IInv /\ status = "run" /\ pc >= 5 /\ At(ref.at, c, q)
  BY DEF Busy
<1>2. Sound /\ q \in 1 .. Len(Block(c)) /\ pc \in Int
  BY BusyFacts DEF Sound
<1>3. Quiet
  BY <1>2, GoesKeeps
<1>4. pc + 1 + off = pc + (r - q)
  BY <1>2
<1>5. Reach(pc + (r - q))
  BY <1>4 DEF Goes
<1> QED
  BY <1>1, <1>3, <1>5, StayInv

\* What the invariant says of a block depends on these variables only.
LEMMA BlockUnchanged ==
  ASSUME NEW c, NEW q, BlockInv(c, q), UNCHANGED <<pkt, reg, frame, faulted, ref>>
  PROVE  BlockInv(c, q)'
<1>1. /\ LoadFrom(ref, c)' = LoadFrom(ref, c) /\ InPacket(ref, c)' = InPacket(ref, c)
      /\ PacketBytes(ref, c)' = PacketBytes(ref, c)
  BY DEF LoadFrom, InPacket, PacketBytes
<1>2. HasBytes(c)' = HasBytes(c) /\ HeaderByte(c)' = HeaderByte(c)
  BY <1>1 DEF HasBytes, FrameHas, HeaderByte
<1>3. ASSUME NEW p PROVE CheckInv(c, p)' = CheckInv(c, p)
  BY <1>1 DEF CheckInv
<1>4. ASSUME NEW p PROVE ReadInv(c, p)' = ReadInv(c, p)
  BY <1>1, <1>2 DEF ReadInv
<1>5. ASSUME NEW p PROVE LoadInv(c, p)' = LoadInv(c, p)
  BY <1>3, <1>4 DEF LoadInv, OffsetInv
<1>6. Matches' = Matches
  BY DEF Matches
<1>7. AluInv(c, q)' = AluInv(c, q)
  BY <1>6 DEF AluInv
<1>8. LdInv(c, q)' = LdInv(c, q)
  BY <1>5, <1>6 DEF LdInv
<1>9. MshInv(c, q)' = MshInv(c, q)
  BY <1>1, <1>2, <1>5, <1>6 DEF MshInv
<1>10. JumpInv(c, q)' = JumpInv(c, q)
  BY <1>6 DEF JumpInv, ClassicOperand
<1>11. RetInv(c, q)' = RetInv(c, q)
  BY <1>6 DEF RetInv
<1> QED
  BY <1>6, <1>7, <1>8, <1>9, <1>10, <1>11 DEF BlockInv

\* The end of the program.
LEMMA Exits ==
  ASSUME Next, NEW c, NEW q, Busy(c, q), Block(c)[q] = Exit
  PROVE  IInv'
<1>1. insn = Exit
  BY BusyFacts, OtherFields
<1>2. /\ status = "run" /\ status' = "exit"
      /\ UNCHANGED <<prog, code, pkt, pc, reg, frame, addrs, faulted, ref>>
  BY <1>1, StepExit, OtherFields
<1>3. At(ref.at, c, q) /\ IInv /\ pc >= 5
  BY DEF Busy
<1>4. pc = addrs[ref.at] + (q - 1) /\ c = prog[ref.at]
  BY <1>3 DEF At
<1>5. addrs[ref.at] \in Nat /\ q \in Int
  <2>1. ref.at \in 1 .. Len(prog) + 1
    BY BusyFacts
  <2> QED
    BY <2>1, BusyFacts, AddrsType
<1>6. Pos = q
  BY <1>4, <1>5 DEF Pos
<1>7. InBlock
  BY <1>3, <1>2 DEF IInv
<1>8. PICK p : p = Pos
  OBVIOUS
<1>9. Pos' = Pos /\ prog'[ref'.at] = c
  BY <1>2, <1>4 DEF Pos
<1>10. BlockInv(prog[ref.at], Pos)'
  <2>1. BlockInv(c, p)
    BY <1>7, <1>8, <1>4 DEF InBlock
  <2>2. BlockInv(c, p)'
    BY <1>2, <2>1, BlockUnchanged
  <2>3. p = Pos'
    BY <1>8, <1>9
  <2> QED
    BY <1>9, <2>2, <2>3
<1>11. HasData' /\ HasDataEnd' /\ HasScratch'
  BY <1>2, <1>7 DEF InBlock, HasData, HasDataEnd, HasScratch, FrameHas
<1>12. InBlock'
  BY <1>2, <1>4, <1>6, <1>7, <1>9, <1>10, <1>11 DEF InBlock
<1>13. Base' /\ Converted' /\ RefInv' /\ pc' \in Nat /\ pc' >= 5
  BY <1>2, <1>3 DEF IInv, Base, Converted, RefInv
<1> QED
  BY <1>2, <1>12, <1>13 DEF IInv

-----------------------------------------------------------------------------
(* Steps from block to block.                                               *)

LEMMA StoredNext ==
  ASSUME NEW p \in Programs, NEW i \in 1 .. Len(p), NEW n \in 1 .. Len(p),
         n \in Successors(p, i)
  PROVE  StoredBefore(p)[n] \subseteq StoredBefore(p)[i] \cup Stores(p[i])
BY ProgramShape DEF LoadsStored

\* Only the last instruction has no block behind its own.
LEMMA EndOfBlock ==
  ASSUME NEW c, NEW q, Busy(c, q), q = Len(Block(c)), c.cls # "ret"
  PROVE  ref.at + 1 \in 1 .. Len(prog) /\ addrs[ref.at + 1] = pc + 1
<1>1. /\ prog \in Programs /\ HasBlocks(prog) /\ addrs = Addrs(prog)
      /\ c = prog[ref.at] /\ ref.at \in 1 .. Len(prog) /\ Len(prog) \in Nat
      /\ Len(Block(c)) \in Nat
  BY BusyFacts
<1>2. ref.at # Len(prog)
  BY <1>1, ProgramShape
<1>3. addrs[ref.at + 1] = addrs[ref.at] + q
  BY <1>1, AddrsDef DEF Size
<1>4. pc = addrs[ref.at] + (q - 1)
  BY DEF Busy, At
<1>5. addrs[ref.at] \in Nat
  <2>1. ref.at \in 1 .. Len(prog) + 1
    BY <1>1
  <2> QED
    BY <1>1, <2>1, AddrsType
<1>6. ref.at + 1 \in 1 .. Len(prog)
  BY <1>1, <1>2
<1>7. addrs[ref.at + 1] = pc + 1
  <2>1. q \in Int
    BY <1>1
  <2> QED
    BY ONLY <2>1, <1>3, <1>4, <1>5
<1> QED
  BY <1>6, <1>7

\* The classic machine's state after a step.
Machine(n, a, x, m) == [at |-> n, a |-> a, x |-> x, m |-> m, res |-> "run"]

LEMMA Enters ==
  ASSUME NEW c, NEW q, Busy(c, q), NEW n \in 1 .. Len(prog),
         n \in Successors(prog, ref.at), Reach(addrs[n]),
         NEW a \in Word, NEW x \in Word, NEW m \in [Scratch -> Word \cup {Undef}],
         RefStep(ref) = Machine(n, a, x, m),
         \A k \in Stores(c) : m[k] # Undef,
         \A k \in Scratch : ref.m[k] # Undef => m[k] # Undef,
         DOMAIN reg' = 0 .. 10, reg'[FP] = reg[FP], DOMAIN frame' = Frame,
         reg'[A] = a, reg'[X] = x, status' = "run", ~faulted',
         HasData', HasDataEnd', ref'.m = m => HasScratch'
  PROVE  IInv'
<1>1. /\ IInv /\ status = "run" /\ pc >= 5 /\ At(ref.at, c, q)
      /\ c = prog[ref.at] /\ prog \in Programs /\ ref.at \in 1 .. Len(prog)
      /\ RefInv
  BY BusyFacts DEF Busy
<1>2. RefStep(ref).at = n /\ RefStep(ref).res = "run"
  BY DEF Machine
<1>3. prog' = prog
  BY DEF Reach
<1>4. ASSUME ref' = RefStep(ref) PROVE Matches' /\ RefInv' /\ HasScratch'
  <2>1. ref' = Machine(n, a, x, m)
    BY <1>4
  <2>2. /\ ref'.at = n /\ ref'.a = a /\ ref'.x = x /\ ref'.m = m /\ ref'.res = "run"
        /\ ref' = [at |-> ref'.at, a |-> ref'.a, x |-> ref'.x, m |-> ref'.m,
                   res |-> ref'.res]
    BY <2>1 DEF Machine
  <2>3. ASSUME NEW k \in StoredBefore(prog)[n] \cap Scratch PROVE m[k] # Undef
    <3>1. k \in StoredBefore(prog)[ref.at] \cup Stores(c)
      BY <1>1, StoredNext
    <3>2. CASE k \in Stores(c)
      BY <3>2
    <3>3. CASE k \in StoredBefore(prog)[ref.at]
      BY <1>1, <3>3 DEF RefInv
    <3> QED
      BY <3>1, <3>2, <3>3
  <2>4. Matches'
    BY <2>2 DEF Matches
  <2>5. HasScratch'
    BY <2>2
  <2>6. RefInv'
    BY <1>3, <2>2, <2>3 DEF RefInv
  <2> QED
    BY <2>4, <2>5, <2>6
<1> QED
  BY <1>1, <1>2, <1>4, EnterInv

\* The end of a block whose last instruction sets a register.
LEMMA SetsEnters ==
  ASSUME NEW c, NEW q, Busy(c, q), q = Len(Block(c)), c.cls \notin {"ret", "jmp"},
         Stores(c) = {},
         NEW d \in 0 .. 9, NEW v, Sets(d, v), NEW a \in Word, NEW x \in Word,
         RefStep(ref) = Machine(ref.at + 1, a, x, ref.m),
         reg'[A] = a, reg'[X] = x, ~faulted
  PROVE  IInv'
<1>1. /\ ref.at \in 1 .. Len(prog) /\ c = prog[ref.at] /\ Sound /\ RefInv
      /\ HasScratch
  BY BusyFacts
<1>2. ref.at + 1 \in 1 .. Len(prog) /\ addrs[ref.at + 1] = pc + 1
  BY EndOfBlock
<1>3. ref.at + 1 \in Successors(prog, ref.at)
  BY <1>1 DEF Successors
<1>4. Quiet /\ faulted' = faulted /\ pkt' = pkt /\ Reach(addrs[ref.at + 1])
  BY <1>1, <1>2, SetsKeeps
<1>5. HasData' /\ HasDataEnd' /\ (ref'.m = ref.m => HasScratch')
  BY <1>1, <1>4, QuietFrame DEF Sound
<1>6. ref.m \in [Scratch -> Word \cup {Undef}]
  BY <1>1 DEF RefInv
<1>7. /\ DOMAIN reg' = 0 .. 10 /\ reg'[FP] = reg[FP] /\ DOMAIN frame' = Frame
      /\ status' = "run"
  BY <1>4 DEF Quiet, Busy
<1> QED
  BY <1>2, <1>3, <1>4, <1>5, <1>6, <1>7, Enters, ZenonT(30)

\* A jump to a block.
LEMMA GoesEnters ==
  ASSUME NEW c, NEW q, Busy(c, q), NEW n \in 1 .. Len(prog),
         n \in Successors(prog, ref.at), NEW off, Goes(off), addrs[n] = pc + 1 + off,
         Stores(c) = {}, RefStep(ref) = Machine(n, ref.a, ref.x, ref.m), Matches,
         ~faulted
  PROVE  IInv'
<1>1. Sound /\ RefInv /\ HasScratch
  BY BusyFacts
<1>2. Quiet /\ UNCHANGED <<reg, frame, faulted, pkt>> /\ Reach(addrs[n])
  BY <1>1, GoesKeeps DEF Goes
<1>3. HasData' /\ HasDataEnd' /\ (ref'.m = ref.m => HasScratch')
  BY <1>1, <1>2, QuietFrame DEF Sound
<1>4. /\ ref.m \in [Scratch -> Word \cup {Undef}] /\ ref.a \in Word /\ ref.x \in Word
  BY <1>1 DEF RefInv
<1>5. /\ DOMAIN reg' = 0 .. 10 /\ reg'[FP] = reg[FP] /\ DOMAIN frame' = Frame
      /\ status' = "run" /\ reg'[A] = ref.a /\ reg'[X] = ref.x
  BY <1>2 DEF Quiet, Busy, Matches
<1> QED
  BY <1>2, <1>3, <1>4, <1>5, Enters

-----------------------------------------------------------------------------
(* The classic machine.                                                     *)

LEMMA LowerWord ==
  ASSUME NEW a \in Word, NEW n \in Nat, n <= a
  PROVE  n \in Word
BY Sizes DEF Word

LEMMA CalcType ==
  ASSUME NEW op \in AluOps, NEW a \in Word, NEW b \in Word
  PROVE  Calc(op, a, b, WordMod, WordBits) \in Word
<1>1. WordMod \in Nat \ {0} /\ a \in Nat /\ b \in Nat /\ WordBits \in Nat \ {0}
  BY Sizes DEF Word
<1>2. \A v \in Int : v % WordMod \in Word
  BY <1>1, Division DEF Word
<1>3. CASE op \in {"add", "sub", "neg"}
  <2>1. a + b \in Int /\ a - b \in Int /\ -a \in Int
    BY <1>1
  <2> QED
    BY <2>1, <1>2, <1>3 DEF Calc
<1>4. CASE op = "mul"
  <2>1. a * b \in Int
    BY <1>1
  <2> QED
    BY <2>1, <1>2, <1>4 DEF Calc
<1>5. CASE op = "div"
  <2>2. ASSUME b # 0 PROVE a \div b \in Word
    <3>1. b \in Nat \ {0} /\ a \in Int /\ a \in Nat
      BY <1>1, <2>2
    <3>2. a \div b \in Nat /\ a \div b <= a
      BY ONLY <3>1, Division, Zenon
    <3> QED
      BY <3>2, <1>1, LowerWord
  <2>3. 0 \in Word
    BY <1>1 DEF Word
  <2> QED
    BY <2>2, <2>3, <1>5 DEF Calc
<1>6. CASE op = "mod"
  <2>1. b # 0 => a % b \in 0 .. b - 1
    BY <1>1, Division
  <2>2. b # 0 => a % b \in Word
    BY <2>1, <1>1 DEF Word
  <2> QED
    BY <2>2, <1>6 DEF Calc
<1>7. CASE op \in {"and", "or", "xor"}
  BY <1>7, BitsAssumption DEF Calc
<1>8. CASE op \in {"lsh", "rsh"}
  <2>1. b % WordBits \in Nat
    BY <1>1, Division
  <2>2. PICK n \in Nat : n = b % WordBits
    BY <2>1
  <2>3. PICK m \in Nat \ {0} : m = Power2(n)
    BY Power2Type
  <2>4. a \div m \in Nat /\ a \div m <= a
    <3>1. m \in Nat \ {0} /\ a \in Int /\ a \in Nat
      BY <1>1
    <3> QED
      BY ONLY <3>1, Division, Zenon
  <2>7. a * m \in Int
    BY <1>1
  <2>5. (a * m) % WordMod \in Word /\ a \div m \in Word
    BY <2>4, <2>7, <1>2, LowerWord
  <2>6. Calc(op, a, b, WordMod, WordBits) \in {(a * m) % WordMod, a \div m}
    BY <1>8, <2>2, <2>3 DEF Calc
  <2> QED
    BY <2>5, <2>6
<1> QED
  BY <1>3, <1>4, <1>5, <1>6, <1>7, <1>8 DEF AluOps

LEMMA MachineFields ==
  ASSUME NEW r, NEW i, NEW a, NEW x, NEW m, r = Machine(i, a, x, m)
  PROVE  /\ r.at = i /\ r.a = a /\ r.x = x /\ r.m = m
         /\ \A d : [r EXCEPT !.at = d] = Machine(d, a, x, m)
         /\ \A v : [r EXCEPT !.a = v] = Machine(i, v, x, m)
         /\ \A v : [r EXCEPT !.x = v] = Machine(i, a, v, m)
         /\ \A d, v : [r EXCEPT !.m[d] = v] = Machine(i, a, x, [m EXCEPT ![d] = v])
         /\ \A v : Ended(r, v).res = v
<1>1. ASSUME NEW d, NEW v
      PROVE  /\ [r EXCEPT !.at = d] = Machine(d, a, x, m)
             /\ [r EXCEPT !.a = v] = Machine(i, v, x, m)
             /\ [r EXCEPT !.x = v] = Machine(i, a, v, m)
             /\ [r EXCEPT !.m[d] = v] = Machine(i, a, x, [m EXCEPT ![d] = v])
             /\ Ended(r, v).res = v
  BY DEF Machine, Ended
<1>2. r.at = i /\ r.a = a /\ r.x = x /\ r.m = m
  BY DEF Machine
<1> QED
  BY <1>1, <1>2, Zenon

LEMMA MachineNext ==
  ASSUME NEW r, r = Machine(r.at, r.a, r.x, r.m)
  PROVE  [r EXCEPT !.at = @ + 1] = Machine(r.at + 1, r.a, r.x, r.m)
<1>1. \A d : [r EXCEPT !.at = d] = Machine(d, r.a, r.x, r.m)
  BY MachineFields
<1> QED
  BY <1>1, Zenon

LEMMA OperandWord ==
  ASSUME RefInv, NEW c, ShapeOK(c)
  PROVE  ClassicOperand(c) \in Word
BY DEF RefInv, ShapeOK, ClassicOperand

LEMMA RefAlu ==
  ASSUME RefInv, NEW c, c = prog[ref.at], c.cls = "alu"
  PROVE  IF c.op \in {"div", "mod"} /\ ClassicOperand(c) = 0
         THEN RefStep(ref).res = "reject"
         ELSE RefStep(ref)
                = Machine(ref.at + 1,
                          Calc(c.op, ref.a, ClassicOperand(c), WordMod, WordBits),
                          ref.x, ref.m)
<1>1. PICK r : r = ref
  OBVIOUS
<1>2. r = Machine(r.at, r.a, r.x, r.m)
  BY <1>1 DEF RefInv, Machine
<1> DEFINE n == [r EXCEPT !.at = @ + 1]
<1>N. n = Machine(r.at + 1, r.a, r.x, r.m)
  BY <1>2, MachineNext
<1> HIDE DEF n
<1>3. PICK v : v = Calc(c.op, ref.a, ClassicOperand(c), WordMod, WordBits)
  OBVIOUS
<1>4. RefStep(r) = IF c.op \in {"div", "mod"} /\ ClassicOperand(c) = 0
                   THEN Ended(r, "reject")
                   ELSE [n EXCEPT !.a = v]
  BY <1>1, <1>3 DEF n, RefStep, ClassicOperand
<1>5. [n EXCEPT !.a = v] = Machine(r.at + 1, v, r.x, r.m)
  BY <1>N, MachineFields
<1>6. Ended(r, "reject").res = "reject"
  BY <1>2, MachineFields
<1> QED
  BY <1>1, <1>3, <1>4, <1>5, <1>6

LEMMA RefLoad ==
  ASSUME RefInv, NEW c, c = prog[ref.at], c.cls \in {"ld", "msh"}
  PROVE  /\ ~InPacket(ref, c) => RefStep(ref).res = "reject"
         /\ InPacket(ref, c) /\ c.cls = "ld" =>
              RefStep(ref) = Machine(ref.at + 1, BigEndian(PacketBytes(ref, c), c.size),
                                     ref.x, ref.m)
         /\ InPacket(ref, c) /\ c.cls = "msh" =>
              RefStep(ref) = Machine(ref.at + 1, ref.a,
                                     (HeaderByte(c) % NibbleMod) * 4, ref.m)
<1>1. PICK r : r = ref
  OBVIOUS
<1>2. r = Machine(r.at, r.a, r.x, r.m)
  BY <1>1 DEF RefInv, Machine
<1> DEFINE n == [r EXCEPT !.at = @ + 1]
<1>N. n = Machine(r.at + 1, r.a, r.x, r.m)
  BY <1>2, MachineNext
<1> HIDE DEF n
<1>3. PICK v, h : v = BigEndian(PacketBytes(ref, c), c.size)
                  /\ h = (HeaderByte(c) % NibbleMod) * 4
  OBVIOUS
<1>4. ~InPacket(ref, c) => RefStep(r) = Ended(r, "reject")
  BY <1>1 DEF n, RefStep
<1>5. InPacket(ref, c) /\ c.cls = "ld" =>
        RefStep(r) = [n EXCEPT !.a = v]
  BY <1>1, <1>3 DEF n, RefStep
<1>6. InPacket(ref, c) /\ c.cls = "msh" =>
        RefStep(r) = [n EXCEPT !.x = h]
  BY <1>1, <1>3 DEF n, RefStep, HeaderByte
<1>7. [n EXCEPT !.a = v] = Machine(r.at + 1, v, r.x, r.m)
  BY <1>N, MachineFields
<1>8. [n EXCEPT !.x = h] = Machine(r.at + 1, r.a, h, r.m)
  BY <1>N, MachineFields
<1>9. Ended(r, "reject").res = "reject"
  BY <1>2, MachineFields
<1> QED
  BY <1>1, <1>3, <1>4, <1>5, <1>6, <1>7, <1>8, <1>9

\* How far a jump goes.
Distance(c) == IF c.op = "ja" THEN c.k
               ELSE IF Compare(c.op, ref.a, ClassicOperand(c), WordMod) THEN c.jt
               ELSE c.jf

LEMMA RefJump ==
  ASSUME RefInv, NEW c, c = prog[ref.at], c.cls = "jmp", ShapeOK(c)
  PROVE  /\ Distance(c) \in Nat
         /\ RefStep(ref) = Machine(ref.at + 1 + Distance(c), ref.a, ref.x, ref.m)
         /\ ref.at + 1 + Distance(c) \in Successors(prog, ref.at)
<1>1. PICK r : r = ref
  OBVIOUS
<1>2. r = Machine(r.at, r.a, r.x, r.m)
  BY <1>1 DEF RefInv, Machine
<1> DEFINE n == [r EXCEPT !.at = @ + 1]
<1>N. n = Machine(r.at + 1, r.a, r.x, r.m)
  BY <1>2, MachineNext
<1> HIDE DEF n
<1>3. PICK d : d = Distance(c)
  OBVIOUS
<1>4. RefStep(r) = [n EXCEPT !.at = @ + d]
  BY <1>1, <1>3 DEF n, RefStep, Distance, ClassicOperand
<1>5. [n EXCEPT !.at = @ + d]
        = Machine(r.at + 1 + d, r.a, r.x, r.m)
  <2>1. n.at = r.at + 1
    BY <1>N, MachineFields
  <2> QED
    BY <1>N, <2>1, MachineFields
<1>6. d \in Nat
  BY <1>3, Sizes DEF Distance, ShapeOK, Word
<1>7. r.at + 1 + d \in Successors(prog, r.at)
  BY <1>1, <1>3 DEF Distance, Successors
<1> QED
  BY <1>1, <1>3, <1>4, <1>5, <1>6, <1>7

LEMMA RefRet ==
  ASSUME RefInv, NEW c, c = prog[ref.at], c.cls = "ret"
  PROVE  /\ c.src = "k" => RefStep(ref).res = IF c.k # 0 THEN "accept" ELSE "reject"
         /\ c.src # "k" => RefStep(ref).res = IF ref.a # 0 THEN "accept" ELSE "reject"
<1>1. PICK r : r = ref
  OBVIOUS
<1>2. r = Machine(r.at, r.a, r.x, r.m)
  BY <1>1 DEF RefInv, Machine
<1> DEFINE n == [r EXCEPT !.at = @ + 1]
<1>N. n = Machine(r.at + 1, r.a, r.x, r.m)
  BY <1>2, MachineNext
<1> HIDE DEF n
<1>3. \A v : Ended(r, v).res = v
  BY <1>2, MachineFields
<1>4. RefStep(r) = Ended(r, IF (IF c.src = "k" THEN c.k ELSE r.a) # 0 THEN "accept"
                            ELSE "reject")
  BY <1>1 DEF n, RefStep
<1> QED
  BY <1>1, <1>3, <1>4

LEMMA RefSingle ==
  ASSUME RefInv, NEW c, c = prog[ref.at], c.cls \in Singles
  PROVE  LET To(a, x, m) == RefStep(ref) = Machine(ref.at + 1, a, x, m)
         IN  /\ c.cls = "st"   => To(ref.a, ref.x, [ref.m EXCEPT ![c.k] = ref.a])
             /\ c.cls = "stx"  => To(ref.a, ref.x, [ref.m EXCEPT ![c.k] = ref.x])
             /\ c.cls = "ldm"  => To(ref.m[c.k], ref.x, ref.m)
             /\ c.cls = "ldxm" => To(ref.a, ref.m[c.k], ref.m)
             /\ c.cls = "ldi"  => To(c.k, ref.x, ref.m)
             /\ c.cls = "ldxi" => To(ref.a, c.k, ref.m)
             /\ c.cls = "tax"  => To(ref.a, ref.a, ref.m)
             /\ c.cls = "txa"  => To(ref.x, ref.x, ref.m)
<1>1. PICK r : r = ref
  OBVIOUS
<1>2. r = Machine(r.at, r.a, r.x, r.m)
  BY <1>1 DEF RefInv, Machine
<1> DEFINE n == [r EXCEPT !.at = @ + 1]
<1>N. n = Machine(r.at + 1, r.a, r.x, r.m)
  BY <1>2, MachineNext, SMTT(20)
<1> HIDE DEF n
<1>3. /\ c.cls = "st"   => RefStep(r) = [n EXCEPT !.m[c.k] = r.a]
      /\ c.cls = "stx"  => RefStep(r) = [n EXCEPT !.m[c.k] = r.x]
      /\ c.cls = "ldm"  => RefStep(r) = [n EXCEPT !.a = r.m[c.k]]
      /\ c.cls = "ldxm" => RefStep(r) = [n EXCEPT !.x = r.m[c.k]]
      /\ c.cls = "ldi"  => RefStep(r) = [n EXCEPT !.a = c.k]
      /\ c.cls = "ldxi" => RefStep(r) = [n EXCEPT !.x = c.k]
      /\ c.cls = "tax"  => RefStep(r) = [n EXCEPT !.x = r.a]
      /\ c.cls = "txa"  => RefStep(r) = [n EXCEPT !.a = r.x]
  BY <1>1, Zenon DEF n, RefStep
<1>4. \A v : [n EXCEPT !.a = v] = Machine(r.at + 1, v, r.x, r.m)
  BY <1>N, MachineFields
<1>5. \A v : [n EXCEPT !.x = v] = Machine(r.at + 1, r.a, v, r.m)
  BY <1>N, MachineFields
<1>6. ASSUME NEW v
      PROVE  [n EXCEPT !.m[c.k] = v] = Machine(r.at + 1, r.a, r.x, [r.m EXCEPT ![c.k] = v])
  <2>1. PICK i, a, x, m : i = r.at + 1 /\ a = r.a /\ x = r.x /\ m = r.m
    OBVIOUS
  <2>2. n = Machine(i, a, x, m)
    BY <1>N, <2>1
  <2>3. [n EXCEPT !.m[c.k] = v] = Machine(i, a, x, [m EXCEPT ![c.k] = v])
    BY <2>2 DEF Machine
  <2> QED
    BY <2>1, <2>3
<1>7. /\ [n EXCEPT !.m[c.k] = r.a] = Machine(r.at + 1, r.a, r.x, [r.m EXCEPT ![c.k] = r.a])
      /\ [n EXCEPT !.m[c.k] = r.x] = Machine(r.at + 1, r.a, r.x, [r.m EXCEPT ![c.k] = r.x])
  BY <1>6, Zenon
<1>8. CASE c.cls \in {"st", "stx"}
  BY <1>1, <1>3, <1>7, <1>8
<1>9. CASE c.cls \in {"ldm", "ldi", "txa"}
  BY <1>1, <1>3, <1>4, <1>9
<1>10. CASE c.cls \in {"ldxm", "ldxi", "tax"}
  BY <1>1, <1>3, <1>5, <1>10
<1> QED
  BY <1>8, <1>9, <1>10 DEF Singles

-----------------------------------------------------------------------------
(* Arithmetic and logic.                                                    *)

\* The instruction itself: its operand is that of the classic one.
LEMMA AluComputes ==
  ASSUME Next, NEW c, ShapeOK(c), c.cls = "alu", insn = AluInsn(c), RefInv, Matches
  PROVE  Sets(A, Calc(c.op, ref.a, ClassicOperand(c), WordMod, WordBits))
<1> DEFINE s == IF c.src = "x" THEN X ELSE Imm
<1>1. /\ insn.cls = "alu" /\ insn.op = c.op /\ insn.dst = A /\ insn.src = s
      /\ insn.imm = c.k /\ insn.w = 32
  BY AluFields DEF AluInsn
<1>2. ref.a \in Word /\ ref.x \in Word /\ c.k \in Word
  BY DEF RefInv, ShapeOK
<1>3. ref.a % WordMod = ref.a /\ ref.x % WordMod = ref.x
  BY <1>2, Sizes, SmallMod DEF Word
<1>4. ModOf(insn.w) = WordMod /\ BitsOf(insn.w) = WordBits
  BY <1>1 DEF ModOf, BitsOf
<1>5. Operand = ClassicOperand(c)
  <2>1. CASE c.src = "x"
    BY <1>1, <1>3, <1>4, <2>1 DEF Operand, ClassicOperand, Matches, X, Imm
  <2>2. CASE c.src # "x"
    <3>1. Signed(c.k % WordMod, WordMod) % WordMod = c.k
      BY <1>2, Immediate
    <3> QED
      BY <1>1, <1>4, <2>2, <3>1 DEF Operand, ClassicOperand
  <2> QED
    BY <2>1, <2>2
<1>6. AluSets(A, c.op, reg[A], ClassicOperand(c), WordMod, WordBits)
  BY <1>1, <1>4, <1>5, StepAlu
<1> QED
  BY <1>3, <1>6 DEF AluSets, Matches

\* It is the last of its block.
LEMMA AluEnds ==
  ASSUME Next, NEW c, NEW q, Busy(c, q), c.cls = "alu", q = Len(Block(c)),
         insn = AluInsn(c), Matches, ~faulted,
         ~(c.op \in {"div", "mod"} /\ ClassicOperand(c) = 0)
  PROVE  IInv'
<1>1. /\ ShapeOK(c) /\ RefInv /\ c = prog[ref.at] /\ Sound
      /\ ref.a \in Word /\ ref.x \in Word
  BY BusyFacts DEF Busy, Sound
<1>2. PICK v : v = Calc(c.op, ref.a, ClassicOperand(c), WordMod, WordBits)
  OBVIOUS
<1>3. v \in Word
  BY <1>1, <1>2, CalcType, OperandWord DEF ShapeOK
<1>4. Sets(0, v)
  BY <1>1, <1>2, AluComputes DEF A
<1>5. RefStep(ref) = Machine(ref.at + 1, v, ref.x, ref.m)
  BY <1>1, <1>2, RefAlu
<1>6. reg'[A] = v /\ reg'[X] = ref.x
  BY <1>1, <1>4, SetsKeeps DEF A, X, Matches
<1>7. Stores(c) = {}
  BY DEF Stores
<1> QED
  BY <1>1, <1>3, <1>4, <1>5, <1>6, <1>7, SetsEnters

LEMMA AluStepInv ==
  ASSUME Next, NEW c, NEW q, Busy(c, q), c.cls = "alu"
  PROVE  IInv'
<1>1. /\ ShapeOK(c) /\ RefInv /\ Sound /\ q \in 1 .. Len(Block(c))
      /\ Block(c)[q].over = Short => insn = Block(c)[q]
      /\ ref.x \in Word /\ c.k \in Word
  BY BusyFacts DEF Busy, Sound, ShapeOK
<1>2. AluInv(c, q)
  BY DEF Busy, BlockInv
<1>3. ASSUME Block(c)[q] = AluInsn(c) PROVE insn = AluInsn(c)
  BY <1>1, <1>3, AluFields DEF AluInsn
<1>4. CASE ~Divides(c)
  <2>1. q = 1 /\ q = Len(Block(c)) /\ insn = AluInsn(c)
    <3>1. Len(Block(c)) = 1 /\ Block(c)[1] = AluInsn(c)
      BY <1>4, AluCode
    <3> QED
      BY <1>1, <1>3, <3>1
  <2>2. Matches /\ ~faulted
    BY <1>2, <2>1 DEF AluInv
  <2>3. ~(c.op \in {"div", "mod"} /\ ClassicOperand(c) = 0)
    BY <1>1, <1>4 DEF Divides, ClassicOperand, ShapeOK
  <2> QED
    BY <2>1, <2>2, <2>3, AluEnds
<1>5. CASE Divides(c)
  <2>0. /\ Len(Block(c)) = 5
        /\ Block(c)[1] = Alu32("mov", X, X, 0)
        /\ Block(c)[2] = Jump(64, "jne", X, Imm, 0, 2)
        /\ Block(c)[3] = Alu64("mov", A, Imm, 0)
        /\ Block(c)[4] = Exit
        /\ Block(c)[5] = AluInsn(c)
    BY <1>5, AluCode
  <2>1. CASE q = 1
    <3>1. insn = Alu32("mov", X, X, 0)
      BY <1>1, <2>0, <2>1, AluFields
    <3>2. Matches /\ ~faulted
      BY <1>2, <2>1 DEF AluInv
    <3>3. Sets(7, reg[7])
      <4>1. reg[X] \in Word /\ X # Imm
        BY <1>1, <3>2 DEF Matches, X, Imm
      <4> QED
        BY <3>1, <4>1, MovReg DEF X
    <3>4. reg'[X] = reg[X] /\ reg'[A] = reg[A] /\ faulted' = faulted
      BY <1>1, <3>3, SetsKeeps DEF A, X
    <3>5. ref' = ref => AluInv(c, 2)'
      BY <3>2, <3>4 DEF AluInv, Matches
    <3>6. ref' = ref => BlockInv(c, 2)'
      BY <3>5, OfOneClass
    <3>7. q # Len(Block(c)) /\ q + 1 = 2
      BY <2>0, <2>1
    <3> QED
      BY <3>3, <3>6, <3>7, SetsStays
  <2>2. CASE q = 2
    <3>1. insn = Jump(64, "jne", X, Imm, 0, 2)
      BY <1>1, <2>0, <2>2, JumpFields
    <3>2. Matches /\ ~faulted
      BY <1>2, <2>2 DEF AluInv
    <3>3. reg[X] = ref.x /\ reg[X] \in Dword
      BY <1>1, <3>2, WordInDword DEF Matches
    <3>4. Goes(IF ref.x # 0 THEN 2 ELSE 0)
      <4>1. Goes(IF Compare("jne", reg[X], 0, DwMod) THEN 2 ELSE 0)
        BY <3>1, <3>3, JumpZero
      <4> QED
        BY <3>3, <4>1 DEF Compare
    <3>5. CASE ref.x # 0
      <4>1. Goes(2) /\ UNCHANGED <<reg, faulted>>
        BY <3>4, <3>5 DEF Goes
      <4>2. ref' = ref => AluInv(c, 5)'
        BY <3>2, <3>5, <4>1 DEF AluInv, Matches
      <4>3. ref' = ref => BlockInv(c, 5)'
        BY <4>2, OfOneClass
      <4>4. 5 \in 2 .. Len(Block(c)) /\ 5 = q + 1 + 2 /\ 2 \in Nat
        BY <2>0, <2>2
      <4> QED
        BY <4>1, <4>3, <4>4, GoesStays
    <3>6. CASE ref.x = 0
      <4>1. Goes(0) /\ UNCHANGED <<reg, faulted>>
        BY <3>4, <3>6 DEF Goes
      <4>2. ref' = ref => AluInv(c, 3)'
        BY <3>2, <3>6, <4>1 DEF AluInv, Matches
      <4>3. ref' = ref => BlockInv(c, 3)'
        BY <4>2, OfOneClass
      <4>4. 3 \in 2 .. Len(Block(c)) /\ 3 = q + 1 + 0 /\ 0 \in Nat
        BY <2>0, <2>2
      <4> QED
        BY <4>1, <4>3, <4>4, GoesStays
    <3> QED
      BY <3>5, <3>6
  <2>3. CASE q = 3
    <3>1. insn = Alu64("mov", A, Imm, 0)
      BY <1>1, <2>0, <2>3, AluFields
    <3>2. ref.x = 0 /\ ~faulted
      BY <1>2, <2>3 DEF AluInv
    <3>3. Sets(0, 0)
      BY <3>1, MovSmall DEF A
    <3>4. reg'[A] = 0 /\ faulted' = faulted
      BY <1>1, <3>3, SetsKeeps DEF A
    <3>5. ref' = ref => AluInv(c, 4)'
      BY <3>2, <3>4 DEF AluInv
    <3>6. ref' = ref => BlockInv(c, 4)'
      BY <3>5, OfOneClass
    <3>7. q # Len(Block(c)) /\ q + 1 = 4
      BY <2>0, <2>3
    <3> QED
      BY <3>3, <3>6, <3>7, SetsStays
  <2>4. CASE q = 4
    BY <2>0, <2>4, Exits
  <2>5. CASE q = 5
    <3>1. Matches /\ ~faulted /\ ref.x # 0
      BY <1>2, <2>5 DEF AluInv
    <3>2. insn = AluInsn(c)
      BY <1>3, <2>0, <2>5
    <3>3. ~(c.op \in {"div", "mod"} /\ ClassicOperand(c) = 0)
      BY <1>5, <3>1 DEF Divides, ClassicOperand
    <3> QED
      BY <2>0, <2>5, <3>1, <3>2, <3>3, AluEnds
  <2> QED
    BY <1>1, <2>0, <2>1, <2>2, <2>3, <2>4, <2>5
<1> QED
  BY <1>4, <1>5

-----------------------------------------------------------------------------
(* Packet loads.                                                            *)

\* No jump of a packet load leaves it.
LEMMA LoadShort ==
  ASSUME NEW c, LoadShape(c), NEW q \in 1 .. Len(LoadBlock(c))
  PROVE  LoadBlock(c)[q].over = Short
<1> DEFINE b == LoadBlock(c)
           l == OffsetLen(c.op)
<1>1. l \in {1, 4} /\ (l = 4 <=> c.op = "ind") /\ Len(b) = l + (IF c.size = 1 THEN 20 ELSE 21)
  BY LoadLen
<1>2. LoadCodeIs(b, l, c.op, c.size, c.k) /\ c.op \in {"abs", "ind"}
  BY LoadCode DEF LoadBlock, LoadShape
<1>0. q \in 1 .. Len(b)
  OBVIOUS
<1> SUFFICES b[q].over = Short
  OBVIOUS
<1> HIDE DEF b, l
<1>3. \A op, d, s, i : /\ Alu32(op, d, s, i).over = Short
                       /\ Alu64(op, d, s, i).over = Short
  BY AluFields
<1>4. \A w, op, d, s, i, o : Jump(w, op, d, s, i, o).over = Short
  BY JumpFields
<1>5. JumpAlways(2).over = Short /\ CallProbeRead.over = Short /\ Exit.over = Short
  BY JumpFields, OtherFields
<1>6. /\ \A w, d, o : Load(w, d, o).over = Short
      /\ \A w, d : FromBigEndian(d, w).over = Short
  BY MemFields, OtherFields
<1>7. CASE q <= l
  <2>1. CASE c.op = "abs"
    <3>1. q = 1 /\ b[1] = Alu32("mov", 2, Imm, c.k)
      BY <1>0, <1>1, <1>2, <1>7, <2>1 DEF LoadCodeIs
    <3> QED
      BY <1>3, <3>1
  <2>2. CASE c.op = "ind"
    <3>1. /\ q \in 1 .. 4 /\ b[1] = Alu32("mov", 2, X, 0) /\ b[2] = Alu32("mov", 1, 2, 0)
          /\ b[3] = Alu32("add", 2, Imm, c.k) /\ b[4] = Jump(64, "jlt", 2, 1, 0, 17)
      BY <1>0, <1>1, <1>2, <1>7, <2>2 DEF LoadCodeIs
    <3> QED
      BY <1>3, <1>4, <3>1
  <2> QED
    BY <1>2, <2>1, <2>2
<1>8. CASE q > l
  <2>1. PICK p \in 1 .. 21 : q = l + p /\ (p = 21 => c.size # 1)
    <3>1. q - l \in 1 .. 21 /\ q = l + (q - l) /\ (q - l = 21 => c.size # 1)
      BY ONLY <1>0, <1>1, <1>8
    <3> QED
      BY <3>1
  <2>2. /\ b[l + 1].over = Short /\ b[l + 2].over = Short
        /\ b[l + 3].over = Short /\ b[l + 4].over = Short
        /\ b[l + 5].over = Short /\ b[l + 6].over = Short
        /\ b[l + 7].over = Short /\ b[l + 8].over = Short
        /\ b[l + 9].over = Short
    <3>1. /\ b[l + 1] = Jump(32, "jslt", 2, Imm, 0, 16)
          /\ b[l + 4] = Jump(64, "jlt", 3, 2, 0, 13)
          /\ b[l + 7] = Jump(64, "jlt", 5, 4, 0, 10)
          /\ b[l + 9] = Jump(64, "jgt", 3, 5, 0, 8)
      BY <1>2 DEF LoadCodeIs
    <3>2. /\ b[l + 2] = Alu32("mov", 3, 2, 0)
          /\ b[l + 3] = Alu32("add", 3, Imm, c.size)
          /\ b[l + 8] = Alu64("sub", 5, 4, 0)
      BY <1>2 DEF LoadCodeIs
    <3>3. b[l + 5] = Load(8, 4, DataAt) /\ b[l + 6] = Load(8, 5, DataEndAt)
      BY <1>2 DEF LoadCodeIs
    <3>4. /\ b[l + 1].over = Short /\ b[l + 4].over = Short
          /\ b[l + 7].over = Short /\ b[l + 9].over = Short
      BY ONLY <1>4, <3>1
    <3>5. b[l + 2].over = Short /\ b[l + 3].over = Short /\ b[l + 8].over = Short
      BY ONLY <1>3, <3>2
    <3>6. b[l + 5].over = Short /\ b[l + 6].over = Short
      BY ONLY <1>6, <3>3
    <3> QED
      BY ONLY <3>4, <3>5, <3>6
  <2>3. /\ b[l + 10].over = Short /\ b[l + 11].over = Short
        /\ b[l + 12].over = Short /\ b[l + 13].over = Short
        /\ b[l + 14].over = Short /\ b[l + 15].over = Short
    BY <1>2, <1>3, <1>5 DEF LoadCodeIs
  <2>4. /\ b[l + 16].over = Short /\ b[l + 17].over = Short
        /\ b[l + 18].over = Short
    BY <1>2, <1>3, <1>4, <1>5 DEF LoadCodeIs
  <2>5. b[l + 19].over = Short
    BY <1>2, <1>5 DEF LoadCodeIs
  <2>6. b[l + 20].over = Short /\ (c.size # 1 => b[l + 21].over = Short)
    <3>1. /\ b[l + 20] = Load(c.size, A, BytesAt)
          /\ c.size # 1 => b[l + 21] = FromBigEndian(A, c.size)
      BY <1>2 DEF LoadCodeIs
    <3>2. /\ Load(c.size, A, BytesAt).over = Short
          /\ FromBigEndian(A, c.size).over = Short
      BY <1>6
    <3> QED
      BY <3>1, <3>2
  <2>7. CASE p \in 1 .. 9
    BY ONLY <2>1, <2>2, <2>7
  <2>8. CASE p \in 10 .. 15
    BY ONLY <2>1, <2>3, <2>8
  <2>9. CASE p \in 16 .. 21
    BY ONLY <2>1, <2>4, <2>5, <2>6, <2>9
  <2> QED
    BY <2>7, <2>8, <2>9
<1> QED
  BY <1>0, <1>1, <1>7, <1>8

LEMMA MovesQuietly ==
  ASSUME NEW q, NEW r, Moves(q, r)
  PROVE  Quiet /\ reg'[X] = reg[X]
BY DEF Moves, Quiet

LEMMA LdStepInv ==
  ASSUME Next, NEW c, NEW q, Busy(c, q), c.cls = "ld"
  PROVE  IInv'
<1>1. /\ ShapeOK(c) /\ RefInv /\ Sound /\ q \in 1 .. Len(Block(c)) /\ c = prog[ref.at]
      /\ Block(c)[q].over = Short => insn = Block(c)[q]
      /\ IInv /\ status = "run" /\ pc >= 5 /\ At(ref.at, c, q)
  BY BusyFacts DEF Busy
<1>2. LdInv(c, q)
  BY DEF Busy, BlockInv
<1>3. Block(c) = LoadBlock(c) /\ LoadShape(c)
  BY <1>1 DEF Block, LoadBlock, LoadShape, ShapeOK
<1>4. insn = LoadBlock(c)[q]
  BY <1>1, <1>3, LoadShort
<1>5. Loading(c, q) /\ reg[X] = ref.x
  BY <1>1, <1>2, <1>3, <1>4 DEF Loading, LdInv
<1>6. CASE insn = Exit
  BY <1>3, <1>4, <1>6, Exits
<1>7. CASE Proceeds(c, q)
  <2>1. PICK r \in 2 .. Len(LoadBlock(c)) : Moves(q, r) /\ (ref' = ref => LoadInv(c, r)')
    BY <1>7 DEF Proceeds
  <2>2. Quiet /\ reg'[X] = reg[X] /\ Reach(pc + (r - q))
    BY <2>1, MovesQuietly DEF Moves
  <2>3. r # 1
    BY <1>1, <1>3, <2>1
  <2>4. ref' = ref => LdInv(c, r)'
    BY <1>5, <2>1, <2>2, <2>3 DEF LdInv
  <2>5. ref' = ref => BlockInv(c, r)'
    BY <2>4, OfOneClass
  <2> QED
    BY <1>1, <1>3, <2>1, <2>2, <2>5, StayInv
<1>8. CASE /\ q = Len(LoadBlock(c))
           /\ Sets(A, BigEndian(PacketBytes(ref, c), c.size))
           /\ ~faulted /\ InPacket(ref, c) /\ LoadFrom(ref, c) \in Nat
  <2>1. PICK v : v = BigEndian(PacketBytes(ref, c), c.size)
    OBVIOUS
  <2>2. v \in Word
    BY <1>1, <1>3, <1>8, <2>1, PacketWord
  <2>3. Sets(0, v)
    BY <1>8, <2>1 DEF A
  <2>4. RefStep(ref) = Machine(ref.at + 1, v, ref.x, ref.m)
    BY <1>1, <1>8, <2>1, RefLoad
  <2>5. reg'[A] = v /\ reg'[X] = ref.x /\ ref.x \in Word
    BY <1>1, <1>5, <2>3, SetsKeeps DEF A, X, Sound
  <2>6. Stores(c) = {} /\ q = Len(Block(c))
    BY <1>3, <1>8 DEF Stores
  <2> QED
    BY <1>8, <2>2, <2>3, <2>4, <2>5, <2>6, SetsEnters
<1> QED
  BY <1>5, <1>6, <1>7, <1>8, LoadSteps

-----------------------------------------------------------------------------
(* The length of an IP header.                                              *)

\* What the two instructions that compute it do.
LEMMA TakesNibble ==
  ASSUME Next, insn = Alu32("and", A, Imm, NibbleMod - 1), reg[A] \in Word
  PROVE  Sets(A, reg[A] % NibbleMod)
<1>1. /\ insn.cls = "alu" /\ insn.op = "and" /\ insn.dst = A /\ insn.src = Imm
      /\ insn.imm = NibbleMod - 1 /\ insn.w = 32
  BY AluFields
<1>2. NibbleMod - 1 \in Word
  BY Sizes DEF Word
<1>3. Operand = NibbleMod - 1 /\ ModOf(insn.w) = WordMod
  BY <1>1, <1>2, Immediate DEF Operand, ModOf
<1>4. reg[A] % WordMod = reg[A]
  BY Sizes, SmallMod DEF Word
<1>5. Calc("and", reg[A], NibbleMod - 1, WordMod, BitsOf(insn.w)) = reg[A] % NibbleMod
  BY BitsAssumption DEF Calc
<1> QED
  BY <1>1, <1>3, <1>4, <1>5, StepAlu DEF AluSets

LEMMA TakesFourTimes ==
  ASSUME Next, insn = Alu32("lsh", A, Imm, 2), NEW n \in 0 .. NibbleMod - 1, reg[A] = n
  PROVE  Sets(A, n * 4) /\ n * 4 \in Word
<1>1. /\ insn.cls = "alu" /\ insn.op = "lsh" /\ insn.dst = A /\ insn.src = Imm
      /\ insn.imm = 2 /\ insn.w = 32
  BY AluFields
<1>2. /\ 2 \in Word /\ n \in Word /\ n * 4 \in Word /\ n * 4 \in 0 .. WordMod - 1
      /\ n \in 0 .. WordMod - 1 /\ WordMod \in Nat \ {0}
  BY Sizes DEF Word
<1>3. Operand = 2 /\ ModOf(insn.w) = WordMod /\ BitsOf(insn.w) = WordBits
  BY <1>1, <1>2, Immediate DEF Operand, ModOf, BitsOf
<1>4. reg[A] % WordMod = n /\ (n * 4) % WordMod = n * 4
  BY <1>2, SmallMod
<1>5. 2 % WordBits = 2
  <2>1. WordBits \in Nat \ {0} /\ 2 \in 0 .. WordBits - 1
    BY Sizes
  <2> QED
    BY <2>1, SmallMod
<1>6. Calc("lsh", n, 2, WordMod, WordBits) = n * 4
  BY <1>4, <1>5, Power2Two DEF Calc
<1> QED
  BY <1>1, <1>2, <1>3, <1>4, <1>6, StepAlu DEF AluSets

LEMMA NibbleInWord == 0 .. NibbleMod - 1 \subseteq Word /\ Byte \subseteq Word
BY Sizes DEF Word, Byte

LEMMA MshStepInv ==
  ASSUME Next, NEW c, NEW q, Busy(c, q), c.cls = "msh"
  PROVE  IInv'
<1>1. /\ ShapeOK(c) /\ RefInv /\ Sound /\ q \in 1 .. Len(Block(c)) /\ c = prog[ref.at]
      /\ Block(c)[q].over = Short => insn = Block(c)[q]
      /\ IInv /\ status = "run" /\ pc >= 5 /\ At(ref.at, c, q)
      /\ ref.a \in Word /\ ref.x \in Word
  BY BusyFacts DEF Busy, Sound
<1>2. MshInv(c, q)
  BY DEF Busy, BlockInv
<1>3. /\ LoadShape(c) /\ c.op = "abs" /\ c.size = 1
      /\ LoadBlock(c) = PacketLoad("abs", 1, c.k)
  BY <1>1 DEF LoadBlock, LoadShape, ShapeOK
<1>4. /\ Len(Block(c)) = 27 /\ Len(LoadBlock(c)) = 21
      /\ Block(c)[1] = Alu64("mov", X, A, 0)
      /\ \A p \in 1 .. 21 : Block(c)[1 + p] = LoadBlock(c)[p]
      /\ Block(c)[23] = Alu32("and", A, Imm, NibbleMod - 1)
      /\ Block(c)[24] = Alu32("lsh", A, Imm, 2)
      /\ Block(c)[25] = Alu64("mov", TMP, X, 0)
      /\ Block(c)[26] = Alu64("mov", X, A, 0)
      /\ Block(c)[27] = Alu64("mov", A, TMP, 0)
  BY <1>3, MshCode
<1>5. ASSUME InPacket(ref, c), LoadFrom(ref, c) \in Nat
      PROVE  /\ HeaderByte(c) \in Byte /\ HeaderByte(c) % NibbleMod \in 0 .. NibbleMod - 1
             /\ BigEndian(PacketBytes(ref, c), 1) = HeaderByte(c)
  <2>1. HeaderByte(c) \in Byte
    BY <1>1, <1>3, <1>5, PacketWord DEF HeaderByte
  <2>2. NibbleMod \in Nat \ {0} /\ HeaderByte(c) \in Int
    BY <2>1, Sizes DEF Byte
  <2>3. BigEndian(PacketBytes(ref, c), 1) = HeaderByte(c)
    BY DEF BigEndian, LittleEndian, HeaderByte
  <2> QED
    BY <2>1, <2>2, <2>3, Division
<1>6. LoadFrom(ref, c) \in Nat
  BY <1>3, Sizes DEF LoadFrom, LoadShape, Word
<1>7. CASE q = 1
  <2>1. insn = Alu64("mov", X, A, 0)
    BY <1>1, <1>4, <1>7, AluFields
  <2>2. Matches /\ ~faulted
    BY <1>2, <1>7 DEF MshInv
  <2>3. Sets(7, ref.a)
    <3>1. reg[A] \in Dword /\ A # Imm /\ reg[A] = ref.a
      BY <1>1, <2>2, WordInDword DEF Matches, A, Imm
    <3> QED
      BY <2>1, <3>1, MovReg DEF X
  <2>4. reg'[X] = ref.a /\ faulted' = faulted
    BY <1>1, <2>3, SetsKeeps DEF X
  <2>5. LoadInv(c, 1)'
    <3>1. 1 - OffsetLen(c.op) = 0
      BY <1>3 DEF OffsetLen
    <3>2. CheckInv(c, 0)' /\ ReadInv(c, 0)' /\ OffsetInv(c, 1)'
      BY <1>3, <2>2, <2>4 DEF CheckInv, ReadInv, OffsetInv
    <3> QED
      BY <3>1, <3>2 DEF LoadInv
  <2>6. ref' = ref => MshInv(c, 2)'
    BY <2>4, <2>5 DEF MshInv
  <2>7. ref' = ref => BlockInv(c, 2)'
    BY <2>6, OfOneClass
  <2>8. q # Len(Block(c)) /\ q + 1 = 2
    BY <1>4, <1>7
  <2> QED
    BY <2>3, <2>7, <2>8, SetsStays
<1>8. CASE q \in 2 .. 22
  <2>1. PICK p \in 1 .. 21 : p = q - 1 /\ q = 1 + p
    BY <1>8
  <2>2. insn = LoadBlock(c)[p] /\ LoadInv(c, p) /\ reg[X] = ref.a
    <3>1. Block(c)[q] = LoadBlock(c)[p]
      BY <1>4, <2>1
    <3>2. LoadBlock(c)[p].over = Short
      BY <1>3, <1>4, LoadShort, ZenonT(30)
    <3>3. LoadInv(c, p) /\ reg[X] = ref.a
      BY <1>2, <1>8, <2>1 DEF MshInv
    <3> QED
      BY <1>1, <3>1, <3>2, <3>3
  <2>3. Loading(c, p)
    BY <1>1, <1>3, <1>4, <2>2 DEF Loading
  <2>4. CASE insn = Exit
    BY <1>4, <2>1, <2>2, <2>4, Exits
  <2>5. CASE Proceeds(c, p)
    <3>1. PICK s \in 2 .. Len(LoadBlock(c)) : Moves(p, s) /\ (ref' = ref => LoadInv(c, s)')
      BY <2>5 DEF Proceeds
    <3>2. PICK r : r = s + 1
      OBVIOUS
    <3>3. s \in 2 .. 21 /\ r \in 3 .. 22 /\ r \in 2 .. Len(Block(c)) /\ s = r - 1 /\ s - p = r - q
      BY <1>4, <2>1, <3>1, <3>2
    <3>4. Quiet /\ reg'[X] = reg[X] /\ Reach(pc + (r - q))
      BY <3>1, <3>3, MovesQuietly DEF Moves
    <3>5. ref' = ref => LoadInv(c, r - 1)'
      BY <3>1, <3>3
    <3>6. ref' = ref => MshInv(c, r)'
      BY <2>2, <3>3, <3>4, <3>5 DEF MshInv
    <3>7. ref' = ref => BlockInv(c, r)'
      BY <3>6, OfOneClass
    <3> QED
      BY <1>1, <3>3, <3>4, <3>7, StayInv
  <2>6. CASE /\ p = Len(LoadBlock(c))
             /\ Sets(A, BigEndian(PacketBytes(ref, c), c.size))
             /\ ~faulted /\ InPacket(ref, c) /\ LoadFrom(ref, c) \in Nat
    <3>1. q = 22
      BY <1>4, <2>1, <2>6
    <3>2. Sets(0, HeaderByte(c))
      BY <1>3, <1>5, <2>6 DEF A
    <3>3. reg'[A] = HeaderByte(c) /\ reg'[X] = ref.a /\ faulted' = faulted /\ pkt' = pkt
      BY <1>1, <2>2, <3>2, SetsKeeps DEF A, X
    <3>4. ref' = ref => MshInv(c, 23)'
      BY <2>6, <3>3 DEF MshInv, InPacket, HeaderByte, PacketBytes
    <3>5. ref' = ref => BlockInv(c, 23)'
      BY <3>4, OfOneClass
    <3>6. q # Len(Block(c)) /\ q + 1 = 23
      BY <1>4, <3>1
    <3> QED
      BY <3>2, <3>5, <3>6, SetsStays
  <2> QED
    BY <2>3, <2>4, <2>5, <2>6, LoadSteps
<1>9. CASE q = 23
  <2>1. insn = Alu32("and", A, Imm, NibbleMod - 1)
    BY <1>1, <1>4, <1>9, AluFields
  <2>2. InPacket(ref, c) /\ reg[A] = HeaderByte(c) /\ reg[X] = ref.a /\ ~faulted
    BY <1>2, <1>9 DEF MshInv
  <2>3. Sets(0, HeaderByte(c) % NibbleMod)
    BY <1>5, <1>6, <2>1, <2>2, TakesNibble, NibbleInWord DEF A
  <2>4. /\ reg'[A] = HeaderByte(c) % NibbleMod /\ reg'[X] = ref.a
        /\ faulted' = faulted /\ pkt' = pkt
    BY <1>1, <2>2, <2>3, SetsKeeps DEF A, X
  <2>5. ref' = ref => MshInv(c, 24)'
    BY <2>2, <2>4 DEF MshInv, InPacket, HeaderByte, PacketBytes
  <2>6. ref' = ref => BlockInv(c, 24)'
    BY <2>5, OfOneClass
  <2>7. q # Len(Block(c)) /\ q + 1 = 24
    BY <1>4, <1>9
  <2> QED
    BY <2>3, <2>6, <2>7, SetsStays
<1>10. CASE q = 24
  <2>1. insn = Alu32("lsh", A, Imm, 2)
    BY <1>1, <1>4, <1>10, AluFields
  <2>2. InPacket(ref, c) /\ reg[A] = HeaderByte(c) % NibbleMod /\ reg[X] = ref.a /\ ~faulted
    BY <1>2, <1>10 DEF MshInv
  <2>3. Sets(0, (HeaderByte(c) % NibbleMod) * 4)
    BY <1>5, <1>6, <2>1, <2>2, TakesFourTimes DEF A
  <2>4. /\ reg'[A] = (HeaderByte(c) % NibbleMod) * 4 /\ reg'[X] = ref.a
        /\ faulted' = faulted /\ pkt' = pkt
    BY <1>1, <2>2, <2>3, SetsKeeps DEF A, X
  <2>5. ref' = ref => MshInv(c, 25)'
    BY <2>2, <2>4 DEF MshInv, InPacket, HeaderByte, PacketBytes
  <2>6. ref' = ref => BlockInv(c, 25)'
    BY <2>5, OfOneClass
  <2>7. q # Len(Block(c)) /\ q + 1 = 25
    BY <1>4, <1>10
  <2> QED
    BY <2>3, <2>6, <2>7, SetsStays
<1>11. ASSUME q \in 25 .. 27
       PROVE  \E n \in Word : n = (HeaderByte(c) % NibbleMod) * 4
  <2>1. InPacket(ref, c)
    BY <1>2, <1>11 DEF MshInv
  <2>2. PICK n \in 0 .. NibbleMod - 1 : n = HeaderByte(c) % NibbleMod
    BY <1>5, <1>6, <2>1
  <2>3. n * 4 \in Word
    BY Sizes DEF Word
  <2> QED
    BY <2>2, <2>3
<1>12. CASE q = 25
  <2>1. insn = Alu64("mov", TMP, X, 0)
    BY <1>1, <1>4, <1>12, AluFields
  <2>2. /\ InPacket(ref, c) /\ reg[A] = (HeaderByte(c) % NibbleMod) * 4
        /\ reg[X] = ref.a /\ ~faulted
    BY <1>2, <1>12 DEF MshInv
  <2>3. Sets(2, ref.a)
    <3>1. reg[X] \in Dword /\ X # Imm /\ reg[X] = ref.a
      BY <1>1, <2>2, WordInDword DEF X, Imm
    <3> QED
      BY <2>1, <3>1, MovReg DEF TMP
  <2>4. reg'[TMP] = ref.a /\ reg'[A] = reg[A] /\ faulted' = faulted /\ pkt' = pkt
    BY <1>1, <2>3, SetsKeeps DEF A, TMP
  <2>5. ref' = ref => MshInv(c, 26)'
    BY <2>2, <2>4 DEF MshInv, InPacket, HeaderByte, PacketBytes
  <2>6. ref' = ref => BlockInv(c, 26)'
    BY <2>5, OfOneClass
  <2>7. q # Len(Block(c)) /\ q + 1 = 26
    BY <1>4, <1>12
  <2> QED
    BY <2>3, <2>6, <2>7, SetsStays
<1>13. CASE q = 26
  <2>1. insn = Alu64("mov", X, A, 0)
    BY <1>1, <1>4, <1>13, AluFields
  <2>2. /\ InPacket(ref, c) /\ reg[A] = (HeaderByte(c) % NibbleMod) * 4
        /\ reg[TMP] = ref.a /\ ~faulted
    BY <1>2, <1>13 DEF MshInv
  <2>3. Sets(7, reg[0])
    <3>1. reg[A] \in Dword /\ A # Imm
      BY <1>11, <1>13, <2>2, WordInDword DEF A, Imm
    <3> QED
      BY <2>1, <3>1, MovReg DEF X, A
  <2>4. reg'[X] = reg[A] /\ reg'[TMP] = reg[TMP] /\ faulted' = faulted /\ pkt' = pkt
    BY <1>1, <2>3, SetsKeeps DEF A, X, TMP
  <2>5. ref' = ref => MshInv(c, 27)'
    BY <2>2, <2>4 DEF MshInv, InPacket, HeaderByte, PacketBytes
  <2>6. ref' = ref => BlockInv(c, 27)'
    BY <2>5, OfOneClass
  <2>7. q # Len(Block(c)) /\ q + 1 = 27
    BY <1>4, <1>13
  <2> QED
    BY <2>3, <2>6, <2>7, SetsStays
<1>14. CASE q = 27
  <2>1. insn = Alu64("mov", A, TMP, 0)
    BY <1>1, <1>4, <1>14, AluFields
  <2>2. /\ InPacket(ref, c) /\ reg[X] = (HeaderByte(c) % NibbleMod) * 4
        /\ reg[TMP] = ref.a /\ ~faulted
    BY <1>2, <1>14 DEF MshInv
  <2>3. Sets(0, ref.a)
    <3>1. reg[TMP] \in Dword /\ TMP # Imm /\ reg[TMP] = ref.a
      BY <1>1, <2>2, WordInDword DEF TMP, Imm
    <3> QED
      BY <2>1, <3>1, MovReg DEF A
  <2>4. reg'[A] = ref.a /\ reg'[X] = reg[X]
    BY <1>1, <2>3, SetsKeeps DEF A, X
  <2>5. PICK n \in Word : n = (HeaderByte(c) % NibbleMod) * 4
    BY <1>11, <1>14
  <2>6. RefStep(ref) = Machine(ref.at + 1, ref.a, n, ref.m)
    BY <1>1, <2>2, <2>5, RefLoad
  <2>7. reg'[X] = n
    BY <2>2, <2>4, <2>5
  <2>8. Stores(c) = {} /\ q = Len(Block(c))
    BY <1>4, <1>14 DEF Stores
  <2> QED
    BY <1>1, <2>2, <2>3, <2>4, <2>6, <2>7, <2>8, SetsEnters
<1> QED
  BY <1>1, <1>4, <1>7, <1>8, <1>9, <1>10, <1>12, <1>13, <1>14

-----------------------------------------------------------------------------
(* Jumps.                                                                   *)

\* A jump out of the block, over n others.
JumpIs(op, src, imm, off) ==
  /\ insn.cls = "jmp" /\ insn.w = 64 /\ insn.op = op /\ insn.dst = A
  /\ insn.src = src /\ insn.imm = imm /\ insn.off = off

LEMMA OverTarget ==
  ASSUME NEW c, NEW q, Busy(c, q), NEW n \in Nat, NEW op, NEW src, NEW imm,
         Block(c)[q] = Over(n, op, src, imm)
  PROVE  /\ ref.at + 1 + n \in 1 .. Len(prog)
         /\ \E off : JumpIs(op, src, imm, off) /\ addrs[ref.at + 1 + n] = pc + 1 + off
<1>1. /\ prog \in Programs /\ Converts(prog) /\ HasBlocks(prog) /\ addrs = Addrs(prog)
      /\ c = prog[ref.at] /\ ref.at \in 1 .. Len(prog) /\ Len(prog) \in Nat
      /\ DOMAIN prog = 1 .. Len(prog)
      /\ q \in 1 .. Len(Block(c)) /\ IsSeq(Block(c)) /\ Len(Block(c)) \in Nat
      /\ insn = Placed(prog, ref.at, q) /\ At(ref.at, c, q)
  BY BusyFacts DEF Busy, HasBlocks
<1>2. Block(c)[q].over = n /\ n # Short
  BY OverFields DEF Short
<1>3. q \in Jumps(Block(c))
  <2>1. DOMAIN Block(c) = 1 .. Len(Block(c))
    BY <1>1, LenProperties DEF IsSeq
  <2> QED
    BY <1>1, <1>2, <2>1 DEF Jumps
<1>4. ref.at + n + 1 <= Len(prog)
  BY <1>1, <1>2, <1>3 DEF Converts
<1>5. PICK t : t = ref.at + n + 1
  OBVIOUS
<1>6. t \in 1 .. Len(prog) /\ t = ref.at + 1 + n
  BY <1>1, <1>4, <1>5
<1> DEFINE off == addrs[t] - addrs[ref.at] - q
<1>7. insn = [Over(n, op, src, imm) EXCEPT !.off = off]
  <2>1. Placed(prog, ref.at, q)
          = [Block(c)[q] EXCEPT !.off = Offset2(addrs, ref.at, q, n)]
    BY <1>1, <1>2 DEF Placed
  <2>2. Offset2(addrs, ref.at, q, n) = off
    BY <1>5 DEF Offset2
  <2> QED
    BY <1>1, <2>1, <2>2
<1>8. /\ addrs[t] \in Nat /\ addrs[ref.at] \in Nat
      /\ pc = addrs[ref.at] + (q - 1) /\ q \in Int
  <2>1. t \in 1 .. Len(prog) + 1 /\ ref.at \in 1 .. Len(prog) + 1
    BY <1>1, <1>6
  <2> QED
    BY <1>1, <2>1, AddrsType DEF At
<1>9. addrs[t] = pc + 1 + off
  BY <1>8
<1> HIDE DEF off
<1>10. JumpIs(op, src, imm, off)
  BY <1>7, OverFields DEF JumpIs
<1> QED
  BY <1>6, <1>9, <1>10

\* The operand is that of the classic instruction: a negative one is not
\* used as an immediate.
LEMMA JumpDecides ==
  ASSUME Next, NEW c, ShapeOK(c), c.cls = "jmp", RefInv, Matches,
         NEW op \in {"jeq", "jgt", "jge", "jset", "jne", "jle", "jlt"}, NEW off,
         JumpIs(op, Source(c), JumpImm(c), off),
         IsNegative(c) => reg[TMP] = c.k
  PROVE  Goes(IF Compare(op, ref.a, ClassicOperand(c), WordMod) THEN off ELSE 0)
<1>1. ref.a \in Word /\ ref.x \in Word /\ c.k \in Word
  BY DEF RefInv, ShapeOK
<1>2. \A v \in Word : v % DwMod = v
  BY WordInDword, Sizes, SmallMod DEF Dword
<1>3. insn.w = 64 /\ ModOf(insn.w) = DwMod
  BY DEF JumpIs, ModOf
<1>4. Operand = ClassicOperand(c)
  <2>1. CASE IsNegative(c)
    BY <1>1, <1>2, <1>3, <2>1
       DEF JumpIs, Source, Operand, ClassicOperand, IsNegative, TMP, Imm
  <2>2. CASE ~IsNegative(c) /\ c.src = "x"
    BY <1>1, <1>2, <1>3, <2>2
       DEF JumpIs, Source, Operand, ClassicOperand, Matches, X, Imm
  <2>3. CASE ~IsNegative(c) /\ c.src # "x"
    <3>1. c.src = "k" /\ c.k < WordMod \div 2
      <4>1. c.src = "k" /\ ~(c.k >= WordMod \div 2)
        BY <2>3 DEF IsNegative, ShapeOK
      <4>2. c.k \in Int /\ WordMod \div 2 \in Int
        BY <1>1, Sizes DEF Word
      <4> QED
        BY <4>1, <4>2
    <3>2. Signed(c.k % WordMod, WordMod) % DwMod = c.k
      BY <1>1, <3>1, Immediate
    <3> QED
      BY <1>3, <2>3, <3>1, <3>2
         DEF JumpIs, Source, JumpImm, Operand, ClassicOperand
  <2> QED
    BY <2>1, <2>2, <2>3
<1>5. reg[insn.dst] % ModOf(insn.w) = ref.a
  BY <1>1, <1>2, <1>3 DEF JumpIs, Matches
<1>6. Goes(IF Compare(op, ref.a, ClassicOperand(c), DwMod) THEN off ELSE 0)
  BY <1>3, <1>4, <1>5, StepJump DEF JumpIs
<1>7. Compare(op, ref.a, ClassicOperand(c), DwMod)
        = Compare(op, ref.a, ClassicOperand(c), WordMod)
  BY DEF Compare
<1> QED
  BY <1>6, <1>7

LEMMA OppositeCompares ==
  ASSUME NEW op \in {"jeq", "jgt", "jge"}, NEW a \in Word, NEW b \in Word
  PROVE  /\ Opposite[op] \in {"jne", "jle", "jlt"}
         /\ Compare(Opposite[op], a, b, WordMod) <=> ~Compare(op, a, b, WordMod)
<1>1. a \in Int /\ b \in Int
  BY Sizes DEF Word
<1>2. CASE op = "jeq"
  BY <1>2 DEF Opposite, Compare
<1>3. CASE op = "jgt"
  BY <1>1, <1>3 DEF Opposite, Compare
<1>4. CASE op = "jge"
  BY <1>1, <1>4 DEF Opposite, Compare
<1> QED
  BY <1>2, <1>3, <1>4

\* To where the classic machine goes.
LEMMA GoesAlong ==
  ASSUME NEW c, NEW q, Busy(c, q), c.cls = "jmp", Matches, ~faulted,
         NEW d \in Nat, d = Distance(c), ref.at + 1 + d \in 1 .. Len(prog),
         NEW off, Goes(off), addrs[ref.at + 1 + d] = pc + 1 + off
  PROVE  IInv'
<1>1. RefInv /\ c = prog[ref.at] /\ ShapeOK(c)
  BY BusyFacts DEF Busy
<1>2. PICK n : n = ref.at + 1 + d
  OBVIOUS
<1>3. /\ RefStep(ref) = Machine(n, ref.a, ref.x, ref.m)
      /\ n \in Successors(prog, ref.at)
  BY <1>1, <1>2, RefJump
<1>4. n \in 1 .. Len(prog) /\ addrs[n] = pc + 1 + off
  BY <1>2
<1>5. Stores(c) = {}
  BY DEF Stores
<1> QED
  BY <1>3, <1>4, <1>5, GoesEnters

LEMMA JumpStepInv ==
  ASSUME Next, NEW c, NEW q, Busy(c, q), c.cls = "jmp"
  PROVE  IInv'
<1>1. /\ ShapeOK(c) /\ RefInv /\ Sound /\ q \in 1 .. Len(Block(c)) /\ c = prog[ref.at]
      /\ Block(c)[q].over = Short => insn = Block(c)[q]
      /\ ref.a \in Word /\ c.k \in Word /\ c.k \in Nat /\ c.jt \in Nat /\ c.jf \in Nat
      /\ ref.at \in 1 .. Len(prog) /\ Len(prog) \in Nat
  <2>1. c.k \in Nat
    BY Sizes DEF Busy, ShapeOK, Word
  <2> QED
    BY <2>1, BusyFacts DEF Busy, Sound, ShapeOK
<1>2. Matches /\ ~faulted
  BY DEF Busy, BlockInv, JumpInv
<1>3. JumpInv(c, q)
  BY DEF Busy, BlockInv
<1> DEFINE n == Pre(c)
<1>4. n \in {0, 1} /\ (n = 1 <=> IsNegative(c))
  BY DEF Pre
<1> HIDE DEF n
<1>5. CASE c.op = "ja"
  <2>1. Block(c)[q] = Over(c.k, "ja", Imm, 0)
    <3>1. Len(Block(c)) = 1 /\ Block(c)[1] = Over(c.k, "ja", Imm, 0)
      BY <1>5, JumpCode
    <3> QED
      BY <1>1, <3>1
  <2>2. PICK m \in Nat : m = c.k
    BY <1>1
  <2>3. /\ ref.at + 1 + m \in 1 .. Len(prog)
        /\ \E off : JumpIs("ja", Imm, 0, off) /\ addrs[ref.at + 1 + m] = pc + 1 + off
    BY <2>1, <2>2, OverTarget
  <2>6. PICK off : JumpIs("ja", Imm, 0, off) /\ addrs[ref.at + 1 + m] = pc + 1 + off
    BY <2>3
  <2>4. Goes(off)
    BY <2>6, JumpAnyway DEF JumpIs
  <2>5. m = Distance(c)
    BY <1>5, <2>2 DEF Distance
  <2> QED
    BY <1>2, <2>3, <2>4, <2>5, <2>6, GoesAlong
<1>6. ASSUME c.op # "ja", q # n + 1, q # n + 2 PROVE IInv'
  <2>1. Len(Block(c)) \in {n + 1, n + 2}
    BY <1>6, JumpCode DEF n
  <2>2. n = 1 /\ q = 1 /\ q # Len(Block(c)) /\ q + 1 = 2 /\ n + 2 = 3
    BY <1>1, <1>4, <1>6, <2>1
  <2>3. IsNegative(c) /\ Block(c)[1] = Alu32("mov", TMP, Imm, c.k)
    BY <1>4, <1>6, <2>2, JumpCode
  <2>4. insn = Alu32("mov", TMP, Imm, c.k)
    BY <1>1, <2>2, <2>3, AluFields
  <2>5. Sets(2, c.k)
    BY <1>1, <2>4, MovImm DEF TMP
  <2>6. /\ reg'[TMP] = c.k /\ reg'[A] = reg[A] /\ reg'[X] = reg[X]
        /\ faulted' = faulted
    BY <1>1, <2>5, SetsKeeps DEF A, X, TMP
  <2>7. Pre(c) + 2 # 2
    BY <2>2 DEF n
  <2>8. ref' = ref => JumpInv(c, 2)'
    BY <1>2, <2>6, <2>7 DEF JumpInv, Matches
  <2>9. ref' = ref => BlockInv(c, 2)'
    BY <2>8, OfOneClass
  <2>10. q # Len(Block(c)) /\ q + 1 = 2
    BY <2>2
  <2> QED
    BY <2>5, <2>9, <2>10, SetsStays
\* A jump that decides, and falls through to the next block.
<1>7. ASSUME c.op # "ja", q = n + 1, q = Len(Block(c)),
             NEW op \in {"jeq", "jgt", "jge", "jset", "jne", "jle", "jlt"},
             NEW m \in Nat, Block(c)[q] = Over(m, op, Source(c), JumpImm(c)),
             Distance(c) = IF Compare(op, ref.a, ClassicOperand(c), WordMod) THEN m ELSE 0
      PROVE  IInv'
  <2>1. PICK off : /\ JumpIs(op, Source(c), JumpImm(c), off)
                   /\ addrs[ref.at + 1 + m] = pc + 1 + off
    BY <1>7, OverTarget
  <2>2. ref.at + 1 + m \in 1 .. Len(prog)
    BY <1>7, OverTarget
  <2>3. IsNegative(c) => reg[TMP] = c.k
    <3>1. IsNegative(c) => q > 1
      BY <1>4, <1>7
    <3> QED
      BY <1>3, <1>7, <3>1 DEF JumpInv
  <2>4. Goes(IF Compare(op, ref.a, ClassicOperand(c), WordMod) THEN off ELSE 0)
    BY <1>1, <1>2, <2>1, <2>3, JumpDecides
  <2>5. CASE Compare(op, ref.a, ClassicOperand(c), WordMod)
    <3>1. Goes(off) /\ m = Distance(c)
      BY <1>7, <2>4, <2>5
    <3> QED
      BY <1>2, <2>1, <2>2, <3>1, GoesAlong
  <2>6. CASE ~Compare(op, ref.a, ClassicOperand(c), WordMod)
    <3>1. Goes(0) /\ 0 = Distance(c)
      BY <1>7, <2>4, <2>6
    <3>2. ref.at + 1 \in 1 .. Len(prog) /\ addrs[ref.at + 1] = pc + 1
      BY <1>7, EndOfBlock
    <3>3. ref.at + 1 + 0 = ref.at + 1 /\ pc + 1 + 0 = pc + 1
      BY <1>1 DEF Sound
    <3>4. ref.at + 1 + 0 \in 1 .. Len(prog) /\ addrs[ref.at + 1 + 0] = pc + 1 + 0
      BY <3>2, <3>3
    <3> QED
      BY <1>2, <3>1, <3>4, GoesAlong
  <2> QED
    BY <2>5, <2>6
<1>8. CASE c.op # "ja" /\ q = n + 1 /\ c.jf = 0
  <2>1. q = Len(Block(c)) /\ Block(c)[q] = Over(c.jt, c.op, Source(c), JumpImm(c))
    BY <1>8, JumpCode DEF n
  <2>2. c.op \in {"jeq", "jgt", "jge", "jset"}
    BY <1>1, <1>8 DEF ShapeOK
  <2>3. Distance(c) = IF Compare(c.op, ref.a, ClassicOperand(c), WordMod) THEN c.jt
                      ELSE 0
    BY <1>8 DEF Distance
  <2> QED
    BY <1>1, <1>7, <1>8, <2>1, <2>2, <2>3
<1>9. CASE c.op \notin {"ja", "jset"} /\ q = n + 1 /\ c.jf # 0 /\ c.jt = 0
  <2>1. /\ q = Len(Block(c))
        /\ Block(c)[q] = Over(c.jf, Opposite[c.op], Source(c), JumpImm(c))
    BY <1>9, JumpCode DEF n
  <2>2. c.op \in {"jeq", "jgt", "jge"}
    BY <1>1, <1>9 DEF ShapeOK
  <2>3. /\ Opposite[c.op] \in {"jne", "jle", "jlt"}
        /\ Compare(Opposite[c.op], ref.a, ClassicOperand(c), WordMod)
             <=> ~Compare(c.op, ref.a, ClassicOperand(c), WordMod)
    BY <1>1, <2>2, OperandWord, OppositeCompares
  <2>4. Distance(c) = IF Compare(Opposite[c.op], ref.a, ClassicOperand(c), WordMod)
                      THEN c.jf ELSE 0
    BY <1>9, <2>3 DEF Distance
  <2> QED
    BY <1>1, <1>7, <1>9, <2>1, <2>3, <2>4
<1>10. ASSUME c.op # "ja", c.jf # 0, c.jt # 0 \/ c.op = "jset"
       PROVE  /\ Len(Block(c)) = n + 2
              /\ Block(c)[n + 1] = Over(c.jt, c.op, Source(c), JumpImm(c))
              /\ Block(c)[n + 2] = Over(c.jf, "ja", Imm, 0)
              /\ c.op \in {"jeq", "jgt", "jge", "jset"}
  BY <1>1, <1>10, JumpCode DEF n, ShapeOK
<1>11. CASE c.op # "ja" /\ q = n + 1 /\ c.jf # 0 /\ (c.jt # 0 \/ c.op = "jset")
  <2>1. PICK off : /\ JumpIs(c.op, Source(c), JumpImm(c), off)
                   /\ addrs[ref.at + 1 + c.jt] = pc + 1 + off
    BY <1>1, <1>10, <1>11, OverTarget
  <2>2. ref.at + 1 + c.jt \in 1 .. Len(prog)
    BY <1>1, <1>10, <1>11, OverTarget
  <2>3. IsNegative(c) => reg[TMP] = c.k
    <3>1. IsNegative(c) => q > 1
      BY <1>4, <1>11
    <3> QED
      BY <1>3, <1>11, <3>1 DEF JumpInv
  <2>4. Goes(IF Compare(c.op, ref.a, ClassicOperand(c), WordMod) THEN off ELSE 0)
    BY <1>1, <1>2, <1>10, <1>11, <2>1, <2>3, JumpDecides
  <2>5. CASE Compare(c.op, ref.a, ClassicOperand(c), WordMod)
    <3>1. Goes(off) /\ c.jt = Distance(c)
      BY <1>11, <2>4, <2>5 DEF Distance
    <3> QED
      BY <1>1, <1>2, <2>1, <2>2, <3>1, GoesAlong
  <2>6. CASE ~Compare(c.op, ref.a, ClassicOperand(c), WordMod)
    <3>1. Goes(0) /\ UNCHANGED <<reg, faulted>>
      BY <2>4, <2>6 DEF Goes
    <3>2. PICK r : r = n + 2
      OBVIOUS
    <3>3. r \in 2 .. Len(Block(c)) /\ r = q + 1 + 0 /\ 0 \in Nat
      BY <1>4, <1>10, <1>11, <3>2
    <3>4. ref' = ref => JumpInv(c, r)'
      <4>1. IsNegative(c) => reg'[TMP] = c.k
        BY <2>3, <3>1
      <4>2. ref' = ref => ClassicOperand(c)' = ClassicOperand(c)
        BY DEF ClassicOperand
      <4>3. ref' = ref => ~Compare(c.op, ref'.a, ClassicOperand(c)', WordMod)
        BY <2>6, <4>2
      <4> QED
        BY <1>2, <3>1, <4>1, <4>3 DEF JumpInv, Matches
    <3>5. ref' = ref => BlockInv(c, r)'
      BY <3>4, OfOneClass
    <3> QED
      BY <3>1, <3>3, <3>5, GoesStays
  <2> QED
    BY <2>5, <2>6
<1>12. CASE c.op # "ja" /\ q = n + 2
  <2>1. c.jf # 0 /\ (c.jt # 0 \/ c.op = "jset")
    <3>1. Len(Block(c)) # n + 1
      BY <1>1, <1>4, <1>12
    <3> QED
      BY <1>12, <3>1, JumpCode DEF n
  <2>2. Block(c)[q] = Over(c.jf, "ja", Imm, 0)
    BY <1>10, <1>12, <2>1
  <2>3. PICK off : /\ JumpIs("ja", Imm, 0, off)
                   /\ addrs[ref.at + 1 + c.jf] = pc + 1 + off
    BY <1>1, <2>2, OverTarget, SMTT(20)
  <2>4. ref.at + 1 + c.jf \in 1 .. Len(prog)
    BY <1>1, <2>2, OverTarget
  <2>5. Goes(off)
    BY <2>3, JumpAnyway DEF JumpIs
  <2>6. ~Compare(c.op, ref.a, ClassicOperand(c), WordMod)
    BY <1>3, <1>12 DEF JumpInv, n
  <2>7. c.jf = Distance(c)
    BY <1>12, <2>6 DEF Distance
  <2> QED
    BY <1>1, <1>2, <2>3, <2>4, <2>5, <2>7, GoesAlong
<1> QED
  BY <1>1, <1>5, <1>6, <1>8, <1>9, <1>11, <1>12

-----------------------------------------------------------------------------
(* The answer.                                                              *)

LEMMA RetStepInv ==
  ASSUME Next, NEW c, NEW q, Busy(c, q), c.cls = "ret"
  PROVE  IInv'
<1>1. /\ ShapeOK(c) /\ RefInv /\ Sound /\ q \in 1 .. Len(Block(c)) /\ c = prog[ref.at]
      /\ Block(c)[q].over = Short => insn = Block(c)[q]
      /\ ref.a \in Word
  BY BusyFacts DEF Busy, Sound, ShapeOK
<1>2. RetInv(c, q)
  BY DEF Busy, BlockInv
<1>3. 0 \in Word /\ 1 \in Word
  BY Sizes DEF Word
\* A step that puts 0 or 1 into R0.
<1>4. ASSUME NEW b \in {0, 1}, insn = Alu32("mov", A, Imm, b), q # Len(Block(c)),
             NEW r, r = q + 1, reg'[A] = b /\ ref' = ref => RetInv(c, r)'
      PROVE  IInv'
  <2>1. Sets(0, b)
    BY <1>3, <1>4, MovImm DEF A
  <2>2. reg'[A] = b
    BY <1>1, <2>1, SetsKeeps DEF A
  <2>3. ref' = ref => BlockInv(c, r)'
    BY <1>4, <2>2, OfOneClass
  <2> QED
    BY <1>4, <2>1, <2>3, SetsStays
<1>5. CASE c.src = "k"
  <2>1. /\ Len(Block(c)) = 2
        /\ Block(c)[1] = Alu32("mov", A, Imm, IF c.k # 0 THEN 1 ELSE 0)
        /\ Block(c)[2] = Exit
    BY <1>5, RetCode
  <2>2. CASE q = 1
    <3>1. PICK b \in {0, 1} : b = IF c.k # 0 THEN 1 ELSE 0
      OBVIOUS
    <3>2. insn = Alu32("mov", A, Imm, b)
      BY <1>1, <2>1, <2>2, <3>1, AluFields
    <3>3. faulted' = faulted /\ ~faulted
      <4>1. Sets(0, b)
        BY <1>3, <3>2, MovImm DEF A
      <4> QED
        BY <1>1, <1>2, <4>1, SetsKeeps DEF RetInv
    <3>4. reg'[A] = b /\ ref' = ref => RetInv(c, 2)'
      BY <1>5, <3>1, <3>3 DEF RetInv
    <3>5. q # Len(Block(c)) /\ 2 = q + 1
      BY <2>1, <2>2
    <3> QED
      BY <1>4, <3>2, <3>4, <3>5
  <2>3. CASE q = 2
    BY <2>1, <2>3, Exits
  <2> QED
    BY <1>1, <2>1, <2>2, <2>3
<1>6. CASE c.src # "k"
  <2>0. c.src = "a"
    BY <1>1, <1>6 DEF ShapeOK
  <2>1. /\ Len(Block(c)) = 5
        /\ Block(c)[1] = Jump(64, "jeq", A, Imm, 0, 2)
        /\ Block(c)[2] = Alu32("mov", A, Imm, 1)
        /\ Block(c)[3] = JumpAlways(1)
        /\ Block(c)[4] = Alu32("mov", A, Imm, 0)
        /\ Block(c)[5] = Exit
    BY <1>6, RetCode
  <2>2. CASE q = 1
    <3>1. insn = Jump(64, "jeq", A, Imm, 0, 2)
      BY <1>1, <2>1, <2>2, JumpFields
    <3>2. Matches /\ ~faulted
      BY <1>2, <2>2 DEF RetInv
    <3>3. reg[A] = ref.a /\ reg[A] \in Dword
      BY <1>1, <3>2, WordInDword DEF Matches
    <3>4. Goes(IF ref.a = 0 THEN 2 ELSE 0)
      <4>1. Goes(IF Compare("jeq", reg[A], 0, DwMod) THEN 2 ELSE 0)
        BY <3>1, <3>3, JumpZero
      <4> QED
        BY <3>3, <4>1 DEF Compare
    <3>5. CASE ref.a = 0
      <4>1. Goes(2) /\ UNCHANGED <<reg, faulted>>
        BY <3>4, <3>5 DEF Goes
      <4>2. ref' = ref => RetInv(c, 4)'
        BY <2>0, <3>2, <3>5, <4>1 DEF RetInv
      <4>3. ref' = ref => BlockInv(c, 4)'
        BY <4>2, OfOneClass
      <4>4. 4 \in 2 .. Len(Block(c)) /\ 4 = q + 1 + 2 /\ 2 \in Nat
        BY <2>1, <2>2
      <4> QED
        BY <4>1, <4>3, <4>4, GoesStays
    <3>6. CASE ref.a # 0
      <4>1. Goes(0) /\ UNCHANGED <<reg, faulted>>
        BY <3>4, <3>6 DEF Goes
      <4>2. ref' = ref => RetInv(c, 2)'
        BY <2>0, <3>2, <3>6, <4>1 DEF RetInv
      <4>3. ref' = ref => BlockInv(c, 2)'
        BY <4>2, OfOneClass
      <4>4. 2 \in 2 .. Len(Block(c)) /\ 2 = q + 1 + 0 /\ 0 \in Nat
        BY <2>1, <2>2
      <4> QED
        BY <4>1, <4>3, <4>4, GoesStays
    <3> QED
      BY <3>5, <3>6
  <2>3. CASE q = 2
    <3>1. insn = Alu32("mov", A, Imm, 1)
      BY <1>1, <2>1, <2>3, AluFields
    <3>2. ref.a # 0 /\ ~faulted
      BY <1>2, <2>0, <2>3 DEF RetInv
    <3>3. faulted' = faulted
      <4>1. Sets(0, 1)
        BY <1>3, <3>1, MovImm DEF A
      <4> QED
        BY <1>1, <4>1, SetsKeeps
    <3>4. reg'[A] = 1 /\ ref' = ref => RetInv(c, 3)'
      BY <2>0, <3>2, <3>3 DEF RetInv
    <3>5. q # Len(Block(c)) /\ 3 = q + 1 /\ 1 \in {0, 1}
      BY <2>1, <2>3
    <3> QED
      BY <1>4, <3>1, <3>4, <3>5
  <2>4. CASE q = 3
    <3>1. insn = JumpAlways(1)
      BY <1>1, <2>1, <2>4, JumpFields
    <3>2. ref.a # 0 /\ ~faulted /\ reg[A] = 1
      BY <1>2, <2>0, <2>4 DEF RetInv
    <3>3. Goes(1)
      BY <3>1, JumpAnyway, JumpFields
    <3>4. UNCHANGED <<reg, faulted>>
      BY <3>3 DEF Goes
    <3>5. ref' = ref => RetInv(c, 5)'
      BY <2>0, <3>2, <3>4 DEF RetInv
    <3>6. ref' = ref => BlockInv(c, 5)'
      BY <3>5, OfOneClass
    <3>7. 5 \in 2 .. Len(Block(c)) /\ 5 = q + 1 + 1 /\ 1 \in Nat
      BY <2>1, <2>4
    <3> QED
      BY <3>3, <3>6, <3>7, GoesStays
  <2>5. CASE q = 4
    <3>1. insn = Alu32("mov", A, Imm, 0)
      BY <1>1, <2>1, <2>5, AluFields
    <3>2. ref.a = 0 /\ ~faulted
      BY <1>2, <2>0, <2>5 DEF RetInv
    <3>3. faulted' = faulted
      <4>1. Sets(0, 0)
        BY <1>3, <3>1, MovImm DEF A
      <4> QED
        BY <1>1, <4>1, SetsKeeps
    <3>4. reg'[A] = 0 /\ ref' = ref => RetInv(c, 5)'
      BY <2>0, <3>2, <3>3 DEF RetInv
    <3>5. q # Len(Block(c)) /\ 5 = q + 1 /\ 0 \in {0, 1}
      BY <2>1, <2>5
    <3> QED
      BY <1>4, <3>1, <3>4, <3>5
  <2>6. CASE q = 5
    BY <2>1, <2>6, Exits
  <2> QED
    BY <1>1, <2>1, <2>2, <2>3, <2>4, <2>5, <2>6
<1> QED
  BY <1>5, <1>6

-----------------------------------------------------------------------------
(* Instructions that become one instruction.                                *)

\* A scratch word is where no other and neither bound of the packet is.
LEMMA ScratchApart ==
  ASSUME NEW k \in Scratch
  PROVE  /\ MemAt(k) \in Int /\ MemAt(k) .. MemAt(k) + 4 - 1 \subseteq Frame
         /\ \A j \in 1 .. 8 :
              /\ DataAt + j - 1 \in Frame \ (MemAt(k) .. MemAt(k) + 4 - 1)
              /\ DataEndAt + j - 1 \in Frame \ (MemAt(k) .. MemAt(k) + 4 - 1)
         /\ \A n \in Scratch : \A j \in 1 .. 4 :
              n # k => MemAt(n) + j - 1 \in Frame \ (MemAt(k) .. MemAt(k) + 4 - 1)
<1>1. MemWords \in Nat /\ MemWords >= 1 /\ k \in 0 .. MemWords - 1
  BY MemoryAssumption DEF Scratch
<1>2. MemAt(k) \in Int /\ MemAt(k) .. MemAt(k) + 4 - 1 \subseteq Frame
  BY <1>1 DEF Frame, MemAt
<1>3. ASSUME NEW j \in 1 .. 8
      PROVE  /\ DataAt + j - 1 \in Frame \ (MemAt(k) .. MemAt(k) + 4 - 1)
             /\ DataEndAt + j - 1 \in Frame \ (MemAt(k) .. MemAt(k) + 4 - 1)
  BY <1>1 DEF Frame, DataAt, DataEndAt, MemAt
<1>4. ASSUME NEW n \in Scratch, NEW j \in 1 .. 4, n # k
      PROVE  MemAt(n) + j - 1 \in Frame \ (MemAt(k) .. MemAt(k) + 4 - 1)
  <2>1. n \in 0 .. MemWords - 1
    BY DEF Scratch
  <2> QED
    BY <1>1, <1>4, <2>1 DEF Frame, MemAt
<1> QED
  BY <1>2, <1>3, <1>4

LEMMA StoreFrame ==
  ASSUME NEW k \in Scratch, NEW v \in Word, Puts(MemAt(k), BytesOf(v, 4), 4),
         pkt' = pkt, HasData, HasDataEnd, HasScratch,
         ref.m \in [Scratch -> Word \cup {Undef}]
  PROVE  /\ HasData' /\ HasDataEnd'
         /\ ref'.m = [ref.m EXCEPT ![k] = v] => HasScratch'
<1>1. ASSUME NEW j \in 1 .. 8
      PROVE  /\ frame'[DataAt + j - 1] = frame[DataAt + j - 1]
             /\ frame'[DataEndAt + j - 1] = frame[DataEndAt + j - 1]
  BY ScratchApart DEF Puts
<1>2. ASSUME NEW n \in Scratch, NEW j \in 1 .. 4, n # k
      PROVE  frame'[MemAt(n) + j - 1] = frame[MemAt(n) + j - 1]
  BY <1>2, ScratchApart DEF Puts
<1>3. \A j \in 1 .. 4 : frame'[MemAt(k) + j - 1] = BytesOf(v, 4)[j]
  BY DEF Puts
<1>4. HasData'
  BY <1>1 DEF HasData, FrameHas
<1>5. HasDataEnd'
  BY <1>1 DEF HasDataEnd, FrameHas
<1>6. ASSUME ref'.m = [ref.m EXCEPT ![k] = v] PROVE HasScratch'
  <2> SUFFICES ASSUME NEW n \in Scratch, ref'.m[n] # Undef
               PROVE  FrameHas(MemAt(n), BytesOf(ref.m[n], 4), 4)'
    BY DEF HasScratch
  <2>1. CASE n = k
    <3>1. ref'.m[n] = v
      BY <1>6, <2>1
    <3> QED
      BY <1>3, <2>1, <3>1 DEF FrameHas
  <2>2. CASE n # k
    <3>1. ref'.m[n] = ref.m[n]
      BY <1>6, <2>2
    <3>2. FrameHas(MemAt(n), BytesOf(ref.m[n], 4), 4)
      BY <3>1 DEF HasScratch
    <3> QED
      BY <1>2, <2>2, <3>1, <3>2 DEF FrameHas
  <2> QED
    BY <2>1, <2>2
<1> QED
  BY <1>4, <1>5, <1>6

LEMMA SingleAt ==
  ASSUME NEW c, NEW q, Busy(c, q), c.cls \in Singles
  PROVE  /\ q = Len(Block(c)) /\ insn = OneInsn(c) /\ Matches /\ ~faulted
         /\ ShapeOK(c) /\ RefInv /\ Sound /\ HasScratch /\ c = prog[ref.at]
         /\ prog \in Programs /\ ref.at \in 1 .. Len(prog)
         /\ ref.a \in Word /\ ref.x \in Word
<1>1. q = 1 /\ q = Len(Block(c)) /\ Block(c)[q] = OneInsn(c)
  <2>1. Len(Block(c)) = 1 /\ Block(c)[1] = OneInsn(c)
    BY SingleCode
  <2> QED
    BY <2>1, BusyFacts
<1>2. OneInsn(c).over = Short
  BY AluFields, MemFields DEF OneInsn, Singles
<1>3. Matches /\ ~faulted
  BY DEF Busy, BlockInv
<1> QED
  BY <1>1, <1>2, <1>3, BusyFacts DEF Busy, Sound

\* A register is put into the scratch memory.
LEMMA StoreStepInv ==
  ASSUME Next, NEW c, NEW q, Busy(c, q), c.cls \in {"st", "stx"}
  PROVE  IInv'
<1> DEFINE s == IF c.cls = "st" THEN A ELSE X
           v == IF c.cls = "st" THEN ref.a ELSE ref.x
           i == ref.at
<1>1. /\ q = Len(Block(c)) /\ insn = OneInsn(c) /\ Matches /\ ~faulted
      /\ ShapeOK(c) /\ RefInv /\ Sound /\ HasScratch /\ c = prog[ref.at]
      /\ ref.a \in Word /\ ref.x \in Word /\ c.cls \in Singles
  BY SingleAt DEF Singles
<1>2. insn = Store(4, s, MemAt(c.k))
  BY <1>1 DEF OneInsn
<1>3. reg[s] = v /\ v \in Word /\ c.k \in Scratch
  BY <1>1 DEF Matches, ShapeOK
<1>4. /\ RefStep(ref) = Machine(i + 1, ref.a, ref.x, [ref.m EXCEPT ![c.k] = v])
  BY <1>1, RefSingle
<1> HIDE DEF s, v
<1>5. /\ Puts(MemAt(c.k), BytesOf(v, 4), 4)
      /\ Reach(pc + 1) /\ UNCHANGED <<reg, faulted, status>>
  <2>1. /\ Puts(MemAt(c.k), BytesOf(reg[s], 4), 4)
        /\ Reach(pc + 1) /\ UNCHANGED <<reg, faulted, status>>
    BY <1>2, <1>3, ScratchApart, StoresTo
  <2> QED
    BY <1>3, <2>1
<1>6. i + 1 \in 1 .. Len(prog) /\ addrs[i + 1] = pc + 1
  BY <1>1, EndOfBlock
<1>7. i + 1 \in Successors(prog, ref.at)
  BY <1>1 DEF Successors
<1>8. PICK m : m = [ref.m EXCEPT ![c.k] = v]
  OBVIOUS
<1>9. ref.m \in [Scratch -> Word \cup {Undef}]
  BY <1>1 DEF RefInv
<1>10. v # Undef
  BY <1>3, Sizes DEF Undef, Word
<1>11. /\ m \in [Scratch -> Word \cup {Undef}]
       /\ \A k \in Stores(c) : m[k] # Undef
       /\ \A k \in Scratch : ref.m[k] # Undef => m[k] # Undef
  BY <1>3, <1>8, <1>9, <1>10 DEF Stores
<1>12. pkt' = pkt
  BY <1>5 DEF Reach
<1>13. HasData' /\ HasDataEnd' /\ (ref'.m = m => HasScratch')
  BY <1>1, <1>3, <1>5, <1>8, <1>9, <1>12, StoreFrame DEF Sound
<1>14. /\ DOMAIN reg' = 0 .. 10 /\ reg'[FP] = reg[FP] /\ DOMAIN frame' = Frame
       /\ reg'[A] = ref.a /\ reg'[X] = ref.x /\ status' = "run" /\ ~faulted'
  BY <1>1, <1>5 DEF Sound, Puts, Matches, Busy
<1>15. /\ Reach(addrs[i + 1]) /\ RefStep(ref) = Machine(i + 1, ref.a, ref.x, m)
  BY <1>4, <1>5, <1>6, <1>8
<1>16. PICK n : n = i + 1
  OBVIOUS
<1>17. /\ n \in 1 .. Len(prog) /\ n \in Successors(prog, ref.at) /\ Reach(addrs[n])
       /\ RefStep(ref) = Machine(n, ref.a, ref.x, m)
  BY <1>6, <1>7, <1>15, <1>16
<1> QED
  BY <1>1, <1>11, <1>13, <1>14, <1>17, Enters

\* A scratch word that was stored is read as it was.
LEMMA ScratchRead ==
  ASSUME Next, NEW c, NEW q, Busy(c, q), c.cls \in {"ldm", "ldxm"},
         NEW d, insn = Load(4, d, MemAt(c.k))
  PROVE  ref.m[c.k] \in Word /\ Sets(d, ref.m[c.k])
<1>1. /\ ShapeOK(c) /\ RefInv /\ HasScratch /\ c = prog[ref.at]
      /\ prog \in Programs /\ ref.at \in 1 .. Len(prog)
  BY SingleAt DEF Singles
<1>2. c.k \in Scratch /\ c.k \in StoredBefore(prog)[ref.at]
  <2>1. c.k \in Scratch
    BY <1>1 DEF ShapeOK
  <2>2. LoadsStored(prog, StoredBefore(prog)) /\ ref.at \in DOMAIN prog
    BY <1>1, ProgramShape
  <2> QED
    BY <1>1, <2>1, <2>2 DEF LoadsStored
<1>3. ref.m[c.k] # Undef /\ ref.m[c.k] \in Word
  BY <1>1, <1>2 DEF RefInv
<1>4. FrameHas(MemAt(c.k), BytesOf(ref.m[c.k], 4), 4)
  BY <1>1, <1>2, <1>3 DEF HasScratch
<1>5. Sets(d, LittleEndian(BytesOf(ref.m[c.k], 4), 4))
  BY <1>4, LoadsFrom
<1> QED
  BY <1>3, <1>5, WordStored

LEMMA SingleStepInv ==
  ASSUME Next, NEW c, NEW q, Busy(c, q), c.cls \in Singles
  PROVE  IInv'
<1>1. /\ q = Len(Block(c)) /\ insn = OneInsn(c) /\ Matches /\ ~faulted
      /\ ShapeOK(c) /\ RefInv /\ Sound /\ c = prog[ref.at]
      /\ ref.a \in Word /\ ref.x \in Word /\ c.k \in Word
  BY SingleAt DEF ShapeOK
<1>2. CASE c.cls \in {"st", "stx"}
  BY <1>2, StoreStepInv
\* Instructions that set R0 or R7.
<1>3. ASSUME c.cls \notin {"st", "stx"}, NEW v \in Word,
             \/ Sets(A, v) /\ RefStep(ref) = Machine(ref.at + 1, v, ref.x, ref.m)
             \/ Sets(X, v) /\ RefStep(ref) = Machine(ref.at + 1, ref.a, v, ref.m)
      PROVE  IInv'
  <2>1. Stores(c) = {} /\ c.cls \notin {"ret", "jmp"}
    BY <1>3 DEF Stores, Singles
  <2>2. CASE Sets(A, v) /\ RefStep(ref) = Machine(ref.at + 1, v, ref.x, ref.m)
    <3>1. Sets(0, v)
      BY <2>2 DEF A
    <3>2. reg'[A] = v /\ reg'[X] = ref.x
      BY <1>1, <3>1, SetsKeeps DEF A, X, Matches
    <3> QED
      BY <1>1, <2>1, <2>2, <3>1, <3>2, SetsEnters
  <2>3. CASE Sets(X, v) /\ RefStep(ref) = Machine(ref.at + 1, ref.a, v, ref.m)
    <3>1. Sets(7, v)
      BY <2>3 DEF X
    <3>2. reg'[A] = ref.a /\ reg'[X] = v
      BY <1>1, <3>1, SetsKeeps DEF A, X, Matches
    <3> QED
      BY <1>1, <2>1, <2>3, <3>1, <3>2, SetsEnters
  <2> QED
    BY <1>3, <2>2, <2>3
<1>4. CASE c.cls = "ldm"
  <2>1. insn = Load(4, A, MemAt(c.k))
    BY <1>1, <1>4 DEF OneInsn
  <2>2. ref.m[c.k] \in Word /\ Sets(A, ref.m[c.k])
    BY <1>4, <2>1, ScratchRead
  <2>3. RefStep(ref) = Machine(ref.at + 1, ref.m[c.k], ref.x, ref.m)
    BY <1>1, <1>4, RefSingle
  <2> QED
    BY <1>3, <1>4, <2>2, <2>3
<1>5. CASE c.cls = "ldxm"
  <2>1. insn = Load(4, X, MemAt(c.k))
    BY <1>1, <1>5 DEF OneInsn
  <2>2. ref.m[c.k] \in Word /\ Sets(X, ref.m[c.k])
    BY <1>5, <2>1, ScratchRead
  <2>3. RefStep(ref) = Machine(ref.at + 1, ref.a, ref.m[c.k], ref.m)
    BY <1>1, <1>5, RefSingle
  <2> QED
    BY <1>3, <1>5, <2>2, <2>3
<1>6. CASE c.cls = "ldi"
  <2>1. insn = Alu32("mov", A, Imm, c.k)
    BY <1>1, <1>6 DEF OneInsn
  <2>2. Sets(A, c.k)
    BY <1>1, <2>1, MovImm
  <2>3. RefStep(ref) = Machine(ref.at + 1, c.k, ref.x, ref.m)
    BY <1>1, <1>6, RefSingle
  <2> QED
    BY <1>1, <1>3, <1>6, <2>2, <2>3
<1>7. CASE c.cls = "ldxi"
  <2>1. insn = Alu32("mov", X, Imm, c.k)
    BY <1>1, <1>7 DEF OneInsn
  <2>2. Sets(X, c.k)
    BY <1>1, <2>1, MovImm
  <2>3. RefStep(ref) = Machine(ref.at + 1, ref.a, c.k, ref.m)
    BY <1>1, <1>7, RefSingle
  <2> QED
    BY <1>1, <1>3, <1>7, <2>2, <2>3
<1>8. CASE c.cls = "tax"
  <2>1. insn = Alu64("mov", X, A, 0)
    BY <1>1, <1>8 DEF OneInsn
  <2>2. Sets(X, ref.a)
    <3>1. reg[A] \in Dword /\ A # Imm /\ reg[A] = ref.a
      BY <1>1, WordInDword DEF Matches, A, Imm
    <3> QED
      BY <2>1, <3>1, MovReg
  <2>3. RefStep(ref) = Machine(ref.at + 1, ref.a, ref.a, ref.m)
    BY <1>1, <1>8, RefSingle
  <2> QED
    BY <1>1, <1>3, <1>8, <2>2, <2>3
<1>9. CASE c.cls = "txa"
  <2>1. insn = Alu64("mov", A, X, 0)
    BY <1>1, <1>9 DEF OneInsn
  <2>2. Sets(A, ref.x)
    <3>1. reg[X] \in Dword /\ X # Imm /\ reg[X] = ref.x
      BY <1>1, WordInDword DEF Matches, X, Imm
    <3> QED
      BY <2>1, <3>1, MovReg
  <2>3. RefStep(ref) = Machine(ref.at + 1, ref.x, ref.x, ref.m)
    BY <1>1, <1>9, RefSingle
  <2> QED
    BY <1>1, <1>3, <1>9, <2>2, <2>3
<1> QED
  BY <1>2, <1>4, <1>5, <1>6, <1>7, <1>8, <1>9 DEF Singles

-----------------------------------------------------------------------------
(* Every step.                                                              *)

LEMMA OnlyRunning == ASSUME Next PROVE status = "run"
BY DEF Next, AluStep, JumpStep, LoadStep, StoreStep, EndianStep, ProbeRead,
       ProbeReadFaults, ExitStep, Running

LEMMA IsBusy ==
  ASSUME IInv, status = "run", pc >= 5
  PROVE  Busy(prog[ref.at], Pos)
<1>1. BlockInv(prog[ref.at], Pos)
  BY DEF IInv, InBlock
<1> QED
  BY <1>1, Located DEF Busy

LEMMA BlockStepInv ==
  ASSUME IInv, Next, pc >= 5
  PROVE  IInv'
<1>1. status = "run"
  BY OnlyRunning
<1>2. PICK c : c = prog[ref.at]
  OBVIOUS
<1>3. PICK q : q = Pos
  OBVIOUS
<1>4. Busy(c, q)
  BY <1>1, <1>2, <1>3, IsBusy
<1>5. \/ c.cls \in {"alu", "ld", "msh", "jmp", "ret"}
      \/ c.cls \in Singles
  BY <1>4 DEF Busy, Supported, Singles
<1>6. CASE c.cls = "alu"
  BY <1>4, <1>6, AluStepInv
<1>7. CASE c.cls = "ld"
  BY <1>4, <1>7, LdStepInv
<1>8. CASE c.cls = "msh"
  BY <1>4, <1>8, MshStepInv
<1>9. CASE c.cls = "jmp"
  BY <1>4, <1>9, JumpStepInv
<1>10. CASE c.cls = "ret"
  BY <1>4, <1>10, RetStepInv
<1>11. CASE c.cls \in Singles
  BY <1>4, <1>11, SingleStepInv
<1> QED
  BY <1>5, <1>6, <1>7, <1>8, <1>9, <1>10, <1>11

LEMMA BeforeBlocks ==
  ASSUME IInv, status # "rejected", pc < 5
  PROVE  /\ pc \in 0 .. 4 /\ status = "run" /\ ~faulted
         /\ insn = Prologue[pc + 1] /\ pc < Len(code)
         /\ prog \in Programs /\ Converts(prog) /\ HasBlocks(prog)
         /\ addrs = Addrs(prog) /\ addrs[1] = 5
         /\ 1 \in 1 .. Len(prog) /\ Len(prog) \in Nat
<1>1. /\ prog \in Programs /\ Converts(prog) /\ addrs = Addrs(prog)
      /\ code = Convert(prog) /\ pc \in Nat /\ status = "run" /\ ~faulted
  BY DEF IInv, Base, Converted, InPrologue
<1>2. HasBlocks(prog) /\ Len(prog) \in Nat \ {0}
  BY <1>1, BlocksExist, ProgramShape
<1>3. pc \in 0 .. 4 /\ pc + 1 \in 1 .. 5
  BY <1>1
<1>4. PICK n : n = pc + 1
  OBVIOUS
<1>5. n \in 1 .. Addrs(prog)[Len(prog) + 1] /\ code[n] = Prologue[n]
  BY <1>1, <1>2, <1>3, <1>4, ConvertPrologue
<1>6. Len(code) = Addrs(prog)[Len(prog) + 1]
  BY <1>1, <1>2, ConvertLen
<1>7. Addrs(prog)[Len(prog) + 1] \in Nat
  <2>1. Len(prog) + 1 \in 1 .. Len(prog) + 1
    BY <1>2
  <2> QED
    BY <1>2, <2>1, AddrsType
<1>8. addrs[1] = 5
  BY <1>1, <1>2, AddrsDef
<1>9. insn = Prologue[pc + 1] /\ pc < Len(code)
  BY <1>3, <1>4, <1>5, <1>6, <1>7 DEF insn
<1> QED
  BY <1>1, <1>2, <1>3, <1>8, <1>9

\* A step of the prologue that is not its last.
LEMMA PrologueStays ==
  ASSUME IInv, pc \in 0 .. 3, Reach(pc + 1), status = "run", ~faulted,
         DOMAIN reg' = 0 .. 10, DOMAIN frame' = Frame,
         \A r \in 0 .. 10 : r \notin {A, CTX} => reg'[r] = reg[r],
         pc = 3 => reg'[A] = 0,
         HasData', pc > 0 => HasDataEnd',
         UNCHANGED <<faulted, status>>
  PROVE  IInv'
<1>1. /\ Base /\ Converted /\ RefInv /\ InPrologue
  BY DEF IInv
<1>2. pc' = pc + 1 /\ UNCHANGED <<prog, code, pkt, addrs>> /\ ref' = ref
  BY PrologueCode DEF Reach
<1>3. Base' /\ Converted'
  BY <1>1, <1>2 DEF Base, Converted, FP, A, CTX
<1>4. RefInv'
  BY <1>1, <1>2 DEF RefInv
<1>5. InPrologue'
  BY <1>1, <1>2 DEF InPrologue, A, CTX
<1>6. pc' \in Nat /\ pc' < 5
  BY <1>2
<1> QED
  BY <1>3, <1>4, <1>5, <1>6 DEF IInv

LEMMA PrologueData ==
  ASSUME IInv, status = "run", pc < 5
  PROVE  PacketAt \in Dword /\ PacketAt + Len(pkt) \in Dword
<1>1. /\ Base /\ Converted /\ RefInv /\ InPrologue
  BY DEF IInv
<1>2. pkt \in Seq(Byte) /\ Len(pkt) <= WordMod \div 2
  BY <1>1, PacketsAssumption DEF Base
<1>3. Len(pkt) \in Nat
  BY <1>2, LenProperties
<1>4. PacketAt \in 0 .. DwMod - WordMod
  BY MemoryAssumption
<1>5. PacketAt \in Dword /\ PacketAt + Len(pkt) \in Dword
  BY <1>2, <1>3, <1>4, Sizes DEF Dword
<1> QED
  BY <1>1, <1>5

\* The first two store the bounds of the packet.
LEMMA StoresBounds ==
  ASSUME IInv, Next, pc \in {0, 1}
  PROVE  IInv'
<1>1. /\ status = "run" /\ ~faulted /\ insn = Prologue[pc + 1] /\ pc \in 0 .. 3
  BY OnlyRunning, BeforeBlocks
<1>2. /\ Base /\ Converted /\ RefInv /\ InPrologue
  BY <1>1 DEF IInv
<1>3. reg[4] \in Dword /\ reg[5] \in Dword
  BY <1>1, <1>2, PrologueData DEF InPrologue
<1>4. /\ DataAt \in Int /\ DataAt .. DataAt + 8 - 1 \subseteq Frame
      /\ DataEndAt \in Int /\ DataEndAt .. DataEndAt + 8 - 1 \subseteq Frame
      /\ \A j \in 1 .. 8 : /\ DataAt + j - 1 \in Frame
                           /\ DataAt + j - 1 \notin DataEndAt .. DataEndAt + 8 - 1
  BY MemoryAssumption DEF Frame, DataAt, DataEndAt
<1>5. DOMAIN reg = 0 .. 10 /\ DOMAIN frame = Frame
  BY <1>2 DEF Base
<1>6. CASE pc = 0
  <2>1. insn = Store(8, 4, DataAt)
    BY <1>1, <1>6, PrologueCode
  <2>2. /\ Puts(DataAt, BytesOf(reg[4], 8), 8)
        /\ Reach(pc + 1) /\ UNCHANGED <<reg, faulted, status>>
    BY <1>3, <1>4, <2>1, StoresTo
  <2>3. HasData'
    BY <1>2, <2>2 DEF InPrologue, HasData, FrameHas, Puts
  <2>4. DOMAIN frame' = Frame
    BY <2>2 DEF Puts
  <2> QED
    BY <1>1, <1>5, <1>6, <2>2, <2>3, <2>4, PrologueStays
<1>7. CASE pc = 1
  <2>1. insn = Store(8, 5, DataEndAt)
    BY <1>1, <1>7, PrologueCode
  <2>2. /\ Puts(DataEndAt, BytesOf(reg[5], 8), 8)
        /\ Reach(pc + 1) /\ UNCHANGED <<reg, faulted, status>>
    BY <1>3, <1>4, <2>1, StoresTo
  <2>3. pkt' = pkt
    BY <2>2 DEF Reach
  <2>4. HasDataEnd'
    BY <1>2, <2>2, <2>3 DEF InPrologue, HasDataEnd, FrameHas, Puts
  <2>5. HasData
    BY <1>2, <1>7 DEF InPrologue
  <2>6. HasData'
    BY <1>4, <2>2, <2>5 DEF HasData, FrameHas, Puts
  <2>7. DOMAIN frame' = Frame
    BY <2>2 DEF Puts
  <2> QED
    BY <1>1, <1>5, <1>7, <2>2, <2>4, <2>6, <2>7, PrologueStays
<1> QED
  BY <1>6, <1>7

\* The last one of the prologue leads to the first block.
LEMMA PrologueLeaves ==
  ASSUME IInv, pc = 4, Sets(X, 0), status = "run"
  PROVE  IInv'
<1>1. /\ ~faulted /\ prog \in Programs /\ Converts(prog) /\ HasBlocks(prog)
      /\ addrs = Addrs(prog) /\ addrs[1] = 5
      /\ 1 \in 1 .. Len(prog) /\ Len(prog) \in Nat
  BY BeforeBlocks
<1>2. /\ Base /\ Converted /\ RefInv /\ InPrologue /\ HasData /\ HasDataEnd
      /\ reg[A] = 0 /\ ref.at = 1 /\ ref.a = 0 /\ ref.x = 0
  BY DEF IInv, InPrologue
<1>3. pc' = 5 /\ UNCHANGED <<prog, code, pkt, addrs, frame, faulted, status>> /\ ref' = ref
  BY PrologueCode DEF Reach, Sets
<1>4. /\ DOMAIN reg' = 0 .. 10 /\ reg'[X] = 0 /\ reg'[A] = 0 /\ reg'[FP] = reg[FP]
  BY <1>2 DEF Sets, Base, X, A, FP
<1>5. Base' /\ Converted' /\ RefInv'
  BY <1>2, <1>3, <1>4 DEF Base, Converted, RefInv
<1>6. HasData' /\ HasDataEnd' /\ HasScratch'
  BY <1>2, <1>3 DEF HasData, HasDataEnd, HasScratch, FrameHas, InPrologue
<1>7. Matches' /\ ~faulted'
  BY <1>1, <1>2, <1>3, <1>4 DEF Matches
<1>8. PICK c : c = prog[1]
  OBVIOUS
<1>9. ShapeOK(c) /\ Supported(c) /\ Size(prog, 1) \in Nat \ {0}
  BY <1>1, <1>8, ProgramShape, BlocksExist DEF HasBlocks
<1>10. BlockInv(c, 1)'
  BY <1>7, <1>9, Entry
<1>11. Pos' = 1 /\ prog'[ref'.at] = c /\ 1 \in 1 .. Size(prog', ref'.at)
  BY <1>1, <1>2, <1>3, <1>8, <1>9 DEF Pos
<1>12. BlockInv(prog[ref.at], Pos)'
  BY <1>10, <1>11
<1>13. InBlock'
  BY <1>3, <1>6, <1>11, <1>12 DEF InBlock
<1> QED
  BY <1>3, <1>5, <1>13 DEF IInv

LEMMA PrologueStepInv ==
  ASSUME IInv, Next, pc < 5
  PROVE  IInv'
<1>1. /\ status = "run" /\ ~faulted /\ insn = Prologue[pc + 1] /\ pc \in 0 .. 4
  BY OnlyRunning, BeforeBlocks
<1>2. /\ Base /\ InPrologue /\ reg[1] = 1
  BY <1>1 DEF IInv, InPrologue
<1>3. DOMAIN reg = 0 .. 10 /\ DOMAIN frame = Frame
  BY <1>2 DEF Base
\* A step that sets one of the registers which the prologue prepares.
<1>4. ASSUME NEW d \in {A, CTX}, NEW v, Sets(d, v), pc \in {2, 3}, pc = 3 => d = A /\ v = 0
      PROVE  IInv'
  <2>1. /\ Reach(pc + 1) /\ DOMAIN reg' = 0 .. 10 /\ frame' = frame
        /\ \A r \in 0 .. 10 : r \notin {A, CTX} => reg'[r] = reg[r]
        /\ pc = 3 => reg'[A] = 0
        /\ UNCHANGED <<faulted, status>>
    BY <1>3, <1>4 DEF Sets, A, CTX
  <2>2. HasData /\ HasDataEnd
    BY <1>2, <1>4 DEF InPrologue
  <2>3. pkt' = pkt
    BY <2>1 DEF Reach
  <2>4. HasData' /\ HasDataEnd'
    BY <2>1, <2>2, <2>3 DEF HasData, HasDataEnd, FrameHas
  <2>5. pc \in 0 .. 3
    BY <1>4
  <2> QED
    BY <1>1, <1>3, <2>1, <2>4, <2>5, PrologueStays
<1>5. CASE pc \in {0, 1}
  BY <1>5, StoresBounds
<1>6. CASE pc = 2
  <2>1. insn = Alu64("mov", CTX, 1, 0)
    BY <1>1, <1>6, PrologueCode
  <2>2. 1 \in Dword /\ 1 # Imm
    BY Sizes DEF Dword, Imm
  <2>3. Sets(CTX, reg[1])
    BY <1>2, <2>1, <2>2, MovReg
  <2> QED
    BY <1>4, <1>6, <2>3
<1>7. CASE pc = 3
  <2>1. insn = Alu64("mov", A, Imm, 0)
    BY <1>1, <1>7, PrologueCode
  <2>2. Sets(A, 0)
    BY <2>1, MovSmall
  <2> QED
    BY <1>4, <1>7, <2>2
<1>8. CASE pc = 4
  <2>1. insn = Alu64("mov", X, Imm, 0)
    BY <1>1, <1>8, PrologueCode
  <2>2. Sets(X, 0)
    BY <2>1, MovSmall
  <2> QED
    BY <1>1, <1>8, <2>2, PrologueLeaves
<1> QED
  BY <1>1, <1>5, <1>6, <1>7, <1>8

LEMMA UnchangedInv ==
  ASSUME IInv, UNCHANGED vars
  PROVE  IInv'
<1>1. UNCHANGED <<prog, code, pkt, pc, reg, frame, addrs, faulted, ref, status>>
  BY DEF vars
<1>2. Base' /\ (Converted => Converted') /\ (RefInv => RefInv')
  BY <1>1 DEF IInv, Base, Converted, RefInv
<1>3. /\ HasData => HasData'
      /\ HasDataEnd => HasDataEnd'
      /\ HasScratch => HasScratch'
  BY <1>1 DEF HasData, HasDataEnd, HasScratch, FrameHas
<1>4. InPrologue => InPrologue'
  BY <1>1, <1>3 DEF InPrologue
<1>5. ASSUME InBlock PROVE InBlock'
  <2>1. PICK c : c = prog[ref.at]
    OBVIOUS
  <2>2. PICK q : q = Pos
    OBVIOUS
  <2>3. BlockInv(c, q)
    BY <1>5, <2>1, <2>2 DEF InBlock
  <2>4. BlockInv(c, q)'
    BY <1>1, <2>3, BlockUnchanged
  <2>5. Pos' = Pos /\ prog'[ref'.at] = c
    BY <1>1, <2>1 DEF Pos
  <2>6. BlockInv(prog[ref.at], Pos)'
    BY <2>2, <2>4, <2>5
  <2> QED
    BY <1>1, <1>3, <1>5, <2>5, <2>6 DEF InBlock
<1> QED
  BY <1>1, <1>2, <1>4, <1>5 DEF IInv

LEMMA InitInv ==
  ASSUME Init
  PROVE  IInv
<1>1. /\ prog \in Programs /\ pkt \in Packets /\ pc = 0 /\ faulted = FALSE
      /\ status = IF Converts(prog) THEN "run" ELSE "rejected"
      /\ DOMAIN reg = 0 .. 10 /\ DOMAIN frame = Frame
      /\ reg[1] = 1 /\ reg[4] = PacketAt /\ reg[5] = PacketAt + Len(pkt)
      /\ reg[FP] = FrameAt
      /\ Converts(prog) => (code = Convert(prog) /\ addrs = Addrs(prog))
      /\ ref = [at |-> 1, a |-> 0, x |-> 0, m |-> [k \in Scratch |-> Undef],
                res |-> "run"]
  BY DEF Init, FP
<1>2. Base
  BY <1>1 DEF Base
<1>3. ASSUME Converts(prog) PROVE Converted /\ RefInv /\ InPrologue
  <2>1. Converted
    BY <1>1, <1>3 DEF Converted
  <2>2. 1 \in 1 .. Len(prog) /\ StoredBefore(prog)[1] = {}
    BY <1>1, ProgramShape DEF LoadsStored
  <2>3. 0 \in Word
    BY Sizes DEF Word
  <2>4. RefInv
    BY <1>1, <2>2, <2>3 DEF RefInv
  <2>5. InPrologue
    BY <1>1, <1>3 DEF InPrologue
  <2> QED
    BY <2>1, <2>4, <2>5
<1> QED
  BY <1>1, <1>2, <1>3 DEF IInv

LEMMA Inductive ==
  ASSUME IInv, [Next]_vars
  PROVE  IInv'
<1>1. CASE UNCHANGED vars
  BY <1>1, UnchangedInv
<1>2. CASE Next
  <2>1. status = "run"
    BY <1>2, OnlyRunning
  <2>2. pc \in Nat
    BY <2>1 DEF IInv
  <2>3. pc < 5 \/ pc >= 5
    BY <2>2
  <2> QED
    BY <1>2, <2>3, PrologueStepInv, BlockStepInv
<1> QED
  BY <1>1, <1>2

\* In every state the registers and the frame are what the position of the
\* program in the block of a classic instruction demands (bpf_convert_filter).
THEOREM Invariance == Spec => []IInv
<1>1. Init => IInv
  BY InitInv
<1>2. IInv /\ [Next]_vars => IInv'
  BY Inductive
<1> QED
  BY <1>1, <1>2, PTL DEF Spec

-----------------------------------------------------------------------------
(* What holds at every instruction.                                         *)

\* What the reference does decides what the filter has to answer.
RightAnswer ==
  reg[A] = IF RefStep(ref).res = "accept" /\ ~faulted THEN 1 ELSE 0

ReadWithin == From >= 0 /\ From + reg[2] <= Len(pkt)

Safe ==
  /\ Defined
  /\ insn.cls = "call" => ReadWithin
  /\ insn.cls = "exit" => RightAnswer

LEMMA NotUndef == \A n \in Nat : n # Undef
BY DEF Undef

LEMMA SafeAlu ==
  ASSUME NEW op, NEW d, NEW s, NEW k,
         insn = Alu32(op, d, s, k) \/ insn = Alu64(op, d, s, k),
         s # Imm => reg[s] # Undef, op # "mov" => reg[d] # Undef
  PROVE  Safe
<1>1. insn.cls = "alu" /\ insn.op = op /\ insn.dst = d /\ insn.src = s
  BY AluFields
<1>2. RegsRead = (IF s = Imm THEN {} ELSE {s}) \cup (IF op = "mov" THEN {} ELSE {d})
  BY <1>1 DEF RegsRead
<1>3. FrameRead = {}
  BY <1>1 DEF FrameRead
<1> QED
  BY <1>1, <1>2, <1>3 DEF Safe, Defined

LEMMA SafeJump ==
  ASSUME insn.cls = "jmp",
         insn.op # "ja" => /\ reg[insn.dst] # Undef
                           /\ insn.src # Imm => reg[insn.src] # Undef
  PROVE  Safe
<1>1. RegsRead = IF insn.op = "ja" THEN {}
                 ELSE {insn.dst} \cup (IF insn.src = Imm THEN {} ELSE {insn.src})
  BY DEF RegsRead
<1>2. FrameRead = {}
  BY DEF FrameRead
<1> QED
  BY <1>1, <1>2 DEF Safe, Defined

LEMMA SafeCompare ==
  ASSUME NEW w, NEW op, NEW d, NEW s, NEW k, NEW off, insn = Jump(w, op, d, s, k, off),
         reg[d] # Undef, s # Imm => reg[s] # Undef
  PROVE  Safe
BY JumpFields, SafeJump

LEMMA SafeAlways ==
  ASSUME NEW off, insn = JumpAlways(off)
  PROVE  Safe
BY JumpFields, SafeJump

LEMMA SafeLoad ==
  ASSUME NEW n \in {1, 2, 4, 8}, NEW d, NEW off \in Int, insn = Load(n, d, off),
         reg[FP] # Undef, NEW b, FrameHas(off, b, n),
         \A j \in 1 .. n : off + j - 1 \in Frame /\ b[j] # Undef
  PROVE  Safe
<1>1. insn.cls = "ldx" /\ insn.w = n /\ insn.off = off
  BY MemFields
<1>2. RegsRead = {FP} /\ FrameRead = off .. off + n - 1
  BY <1>1 DEF RegsRead, FrameRead
<1>3. ASSUME NEW s \in off .. off + n - 1 PROVE s \in Frame /\ frame[s] # Undef
  <2>1. PICK j \in 1 .. n : s = off + j - 1
    <3>1. s - off + 1 \in 1 .. n /\ s = off + (s - off + 1) - 1
      OBVIOUS
    <3> QED
      BY <3>1
  <2>2. frame[off + j - 1] = b[j]
    BY DEF FrameHas
  <2> QED
    BY <2>1, <2>2
<1> QED
  BY <1>1, <1>2, <1>3 DEF Safe, Defined

LEMMA SafeStore ==
  ASSUME NEW n, NEW s, NEW off, insn = Store(n, s, off), reg[s] # Undef
  PROVE  Safe
<1>1. insn.cls = "stx" /\ insn.src = s
  BY MemFields
<1> QED
  BY <1>1 DEF Safe, Defined, RegsRead, FrameRead

LEMMA SafeTurn ==
  ASSUME NEW n, NEW d, insn = FromBigEndian(d, n), reg[d] # Undef
  PROVE  Safe
<1>1. insn.cls = "be" /\ insn.dst = d
  BY OtherFields
<1> QED
  BY <1>1 DEF Safe, Defined, RegsRead, FrameRead

LEMMA SafeCall ==
  ASSUME insn = CallProbeRead, reg[1] # Undef, reg[2] # Undef, reg[3] # Undef,
         ReadWithin
  PROVE  Safe
<1>1. insn.cls = "call"
  BY OtherFields
<1> QED
  BY <1>1 DEF Safe, Defined, RegsRead, FrameRead

LEMMA SafeExit ==
  ASSUME insn = Exit, RightAnswer
  PROVE  Safe
<1>1. insn.cls = "exit"
  BY OtherFields
<1>2. reg[0] \in {0, 1}
  BY DEF RightAnswer, A
<1> QED
  BY <1>1, <1>2 DEF Safe, Defined, RegsRead, FrameRead, Undef

\* The bounds of the packet are loaded from where they were stored.
LEMMA SafeBounds ==
  ASSUME Sound, NEW d, insn = Load(8, d, DataAt) \/ insn = Load(8, d, DataEndAt)
  PROVE  Safe
<1>1. /\ DataAt \in Int /\ DataEndAt \in Int
      /\ \A j \in 1 .. 8 : DataAt + j - 1 \in Frame /\ DataEndAt + j - 1 \in Frame
  BY FrameParts DEF DataAt, DataEndAt
<1>2. PacketAt \in 0 .. DwMod - 1 /\ PacketAt + Len(pkt) \in 0 .. DwMod - 1
  BY PacketSize DEF Sound, Dword
<1>3. \A j \in 1 .. 8 : /\ BytesOf(PacketAt, 8)[j] \in Byte
                        /\ BytesOf(PacketAt + Len(pkt), 8)[j] \in Byte
  BY <1>2, DwordStored
<1>4. \A j \in 1 .. 8 : /\ BytesOf(PacketAt, 8)[j] # Undef
                        /\ BytesOf(PacketAt + Len(pkt), 8)[j] # Undef
  <2>1. \A v \in Byte : v # Undef
    BY Sizes DEF Byte, Undef
  <2> QED
    BY <1>3, <2>1
<1>5. reg[FP] # Undef
  BY MemoryAssumption DEF Sound, Undef
<1>6. HasData /\ HasDataEnd
  BY DEF Sound
<1>7. CASE insn = Load(8, d, DataAt)
  <2>1. PICK b : b = BytesOf(PacketAt, 8)
    OBVIOUS
  <2>2. FrameHas(DataAt, b, 8) /\ \A j \in 1 .. 8 : b[j] # Undef
    BY <1>4, <1>6, <2>1 DEF HasData
  <2> QED
    BY <1>1, <1>5, <1>7, <2>2, SafeLoad
<1>8. CASE insn = Load(8, d, DataEndAt)
  <2>1. PICK b : b = BytesOf(PacketAt + Len(pkt), 8)
    OBVIOUS
  <2>2. FrameHas(DataEndAt, b, 8) /\ \A j \in 1 .. 8 : b[j] # Undef
    BY <1>4, <1>6, <2>1 DEF HasDataEnd
  <2> QED
    BY <1>1, <1>5, <1>8, <2>2, SafeLoad
<1> QED
  BY <1>7, <1>8

LEMMA LoadSafe ==
  ASSUME NEW c, NEW q, Loading(c, q),
         reg[X] # Undef,
         reg[A] = 0 /\ (faulted \/ ~InPacket(ref, c)) => RightAnswer
  PROVE  Safe
<1> DEFINE l == OffsetLen(c.op)
           p == q - l
           n == LoadFrom(ref, c)
           b == LoadBlock(c)
<1>0. /\ c.size \in {1, 2, 4} /\ ref.x \in Word /\ c.k \in Word /\ l \in {1, 4}
      /\ Len(pkt) \in Nat /\ PacketAt \in Nat /\ FrameAt \in Nat /\ reg[FP] = FrameAt
      /\ WordMod \in Nat /\ WordMod >= 256 /\ Word = 0 .. WordMod - 1
      /\ Dword \subseteq Nat /\ q \in Nat /\ FrameAt >= 64
  BY LoadSizes DEF Dword
<1>1. /\ LoadShape(c) /\ Sound /\ OffsetInv(c, q) /\ CheckInv(c, p) /\ ReadInv(c, p)
      /\ insn = b[q] /\ q \in 1 .. Len(b)
  BY DEF Loading, LoadInv
<1>2. LoadCodeIs(b, l, c.op, c.size, c.k) /\ c.op \in {"abs", "ind"}
  BY <1>1, LoadCode DEF LoadBlock, LoadShape
<1>3. l \in {1, 4} /\ (l = 4 <=> c.op = "ind") /\ Len(b) = l + (IF c.size = 1 THEN 20 ELSE 21)
  BY <1>1, LoadLen
<1> HIDE DEF b, l, n
<1>4. CASE q <= l
  <2>1. CASE c.op = "abs"
    <3>1. q = 1 /\ b[1] = Alu32("mov", 2, Imm, c.k)
      BY <1>1, <1>2, <1>3, <1>4, <2>1 DEF LoadCodeIs
    <3> QED
      BY <1>1, <3>1, SafeAlu
  <2>2. CASE c.op = "ind"
    <3>1. /\ q \in 1 .. 4 /\ b[1] = Alu32("mov", 2, X, 0) /\ b[2] = Alu32("mov", 1, 2, 0)
          /\ b[3] = Alu32("add", 2, Imm, c.k) /\ b[4] = Jump(64, "jlt", 2, 1, 0, 17)
      BY <1>1, <1>2, <1>3, <1>4, <2>2 DEF LoadCodeIs
    <3>2. /\ q \in {2, 3} => reg[2] = ref.x
          /\ q \in {3, 4} => reg[1] = ref.x
          /\ q = 4 => reg[2] = (ref.x + c.k) % WordMod
      BY <1>1, <2>2 DEF OffsetInv
    <3>3. (ref.x + c.k) % WordMod \in Nat /\ ref.x \in Nat
      <4>1. ref.x + c.k \in Nat /\ WordMod \in Nat \ {0} /\ ref.x \in Nat
        BY <1>0
      <4> QED
        BY <4>1, Division
    <3>4. CASE q = 1
      BY <1>1, <3>1, <3>4, SafeAlu
    <3>5. CASE q = 2
      <4>1. reg[2] # Undef
        BY <3>2, <3>3, <3>5, NotUndef
      <4> QED
        BY <1>1, <3>1, <3>5, <4>1, SafeAlu
    <3>6. CASE q = 3
      <4>1. reg[2] # Undef
        BY <3>2, <3>3, <3>6, NotUndef
      <4> QED
        BY <1>1, <3>1, <3>6, <4>1, SafeAlu
    <3>7. CASE q = 4
      <4>1. reg[2] # Undef /\ reg[1] # Undef
        BY <3>2, <3>3, <3>7, NotUndef
      <4> QED
        BY <1>1, <3>1, <3>7, <4>1, SafeCompare
    <3> QED
      BY <3>1, <3>4, <3>5, <3>6, <3>7
  <2> QED
    BY <1>2, <2>1, <2>2
<1>5. ASSUME q > l PROVE p \in 1 .. 21 /\ q = l + p /\ (p = 21 => c.size # 1)
  <2> HIDE DEF p
  <2>1. p = q - l
    BY DEF p
  <2> QED
    BY ONLY <1>1, <1>3, <1>5, <2>1
<1> HIDE DEF p
<1>6. /\ p \in 1 .. 17 => n \in Nat
      /\ p \in 1 .. 14 => reg[2] = n
      /\ p = 3 => reg[3] = n
      /\ p \in 4 .. 9 => reg[3] = n + c.size
      /\ p \in 6 .. 12 => reg[4] = PacketAt
      /\ p \in {7, 8} => reg[5] = PacketAt + Len(pkt)
      /\ p = 9 => reg[5] = Len(pkt)
      /\ p \in 10 .. 17 \cup {20, 21} => InPacket(ref, c)
  BY <1>0, <1>1 DEF CheckInv, n
<1>7. /\ p \in 12 .. 15 => reg[1] = FrameAt + BytesAt
      /\ p = 11 => reg[1] = FrameAt
      /\ p = 13 => reg[3] = PacketAt
      /\ p \in {14, 15} => reg[3] = PacketAt + n
      /\ p = 15 => reg[2] = c.size
      /\ p = 20 => HasBytes(c)
      /\ p \in {18, 19} => faulted \/ ~InPacket(ref, c)
      /\ p = 19 => reg[A] = 0
      /\ p = 21 => reg[A] = LittleEndian(PacketBytes(ref, c), c.size)
  BY <1>1 DEF ReadInv, n
<1>A. p = 16 => reg[A] \in Nat
  <2>1. /\ p = 16 /\ ~faulted => reg[A] = 0
        /\ p = 16 /\ faulted => reg[A] \in Dword \ {0}
    BY <1>1 DEF ReadInv
  <2>2. p = 16 => reg[A] = 0 \/ reg[A] \in Dword \ {0}
    BY <2>1, Zenon
  <2>3. Dword \subseteq Nat /\ 0 \in Nat
    BY <1>0
  <2> QED
    BY ONLY <2>2, <2>3
<1>8. p \in 1 .. 14 => reg[2] # Undef
  BY <1>6, NotUndef
<1>9. CASE q > l /\ p \in 1 .. 4
  <2>1. /\ b[l + 1] = Jump(32, "jslt", 2, Imm, 0, 16)
        /\ b[l + 2] = Alu32("mov", 3, 2, 0)
        /\ b[l + 3] = Alu32("add", 3, Imm, c.size)
        /\ b[l + 4] = Jump(64, "jlt", 3, 2, 0, 13)
    BY <1>2 DEF LoadCodeIs
  <2>2. reg[2] # Undef
    BY <1>8, <1>9
  <2>3. p \in {3, 4} => reg[3] # Undef
    <3>1. p \in {3, 4} => reg[3] \in Nat
      BY <1>0, <1>6
    <3> QED
      BY <3>1, NotUndef
  <2>4. CASE p = 1
    BY <1>1, <1>5, <1>9, <2>1, <2>2, <2>4, SafeCompare
  <2>5. CASE p = 2
    BY <1>1, <1>5, <1>9, <2>1, <2>2, <2>5, SafeAlu
  <2>6. CASE p = 3
    BY <1>1, <1>5, <1>9, <2>1, <2>3, <2>6, SafeAlu
  <2>7. CASE p = 4
    BY <1>1, <1>5, <1>9, <2>1, <2>2, <2>3, <2>7, SafeCompare
  <2> QED
    BY <1>9, <2>4, <2>5, <2>6, <2>7
<1>10. CASE q > l /\ p \in 5 .. 9
  <2>1. /\ b[l + 5] = Load(8, 4, DataAt)
        /\ b[l + 6] = Load(8, 5, DataEndAt)
        /\ b[l + 7] = Jump(64, "jlt", 5, 4, 0, 10)
        /\ b[l + 8] = Alu64("sub", 5, 4, 0)
        /\ b[l + 9] = Jump(64, "jgt", 3, 5, 0, 8)
    BY <1>2 DEF LoadCodeIs
  <2>2. /\ p \in {7, 8, 9} => reg[5] # Undef
        /\ p \in {7, 8} => reg[4] # Undef
        /\ p = 9 => reg[3] # Undef
    <3>1. p \in {7, 8} => reg[5] \in Nat /\ reg[4] \in Nat
      BY <1>0, <1>6, SMTT(20)
    <3>2. p = 9 => reg[5] \in Nat
      BY <1>0, <1>6
    <3>3. p = 9 => reg[3] \in Nat
      BY <1>0, <1>6, SMTT(20)
    <3> QED
      BY <3>1, <3>2, <3>3, NotUndef
  <2>3. CASE p \in {5, 6}
    BY <1>1, <1>5, <1>10, <2>1, <2>3, SafeBounds
  <2>4. CASE p = 7
    BY <1>1, <1>5, <1>10, <2>1, <2>2, <2>4, SafeCompare
  <2>5. CASE p = 8
    BY <1>1, <1>5, <1>10, <2>1, <2>2, <2>5, SafeAlu
  <2>6. CASE p = 9
    BY <1>1, <1>5, <1>10, <2>1, <2>2, <2>6, SafeCompare
  <2> QED
    BY <1>10, <2>3, <2>4, <2>5, <2>6
<1>11. CASE q > l /\ p \in 10 .. 15
  <2>1. /\ b[l + 10] = Alu64("mov", 1, FP, 0)
        /\ b[l + 11] = Alu64("add", 1, Imm, BytesAt)
        /\ b[l + 12] = Alu64("mov", 3, 4, 0)
        /\ b[l + 13] = Alu64("add", 3, 2, 0)
        /\ b[l + 14] = Alu64("mov", 2, Imm, c.size)
        /\ b[l + 15] = CallProbeRead
    BY <1>2 DEF LoadCodeIs
  <2>2. /\ reg[FP] # Undef
        /\ p \in 11 .. 15 => reg[1] # Undef
        /\ p = 12 => reg[4] # Undef
        /\ p \in 13 .. 15 => reg[3] # Undef
        /\ p = 15 => reg[2] # Undef
    <3>1. reg[FP] \in Nat /\ (p \in 11 .. 15 => reg[1] \in Nat)
      <4>1. p \in 11 .. 15 => p = 11 \/ p \in 12 .. 15
        OBVIOUS
      <4>2. FrameAt + BytesAt \in Nat
        BY <1>0 DEF BytesAt
      <4> QED
        BY <1>0, <1>7, <4>1, <4>2
    <3>2. p = 12 => reg[4] \in Nat
      BY <1>0, <1>6
    <3>3. p \in 13 .. 15 => reg[3] \in Nat
      <4>1. p \in 13 .. 15 => p = 13 \/ (p \in {14, 15} /\ n \in Nat)
        BY <1>6
      <4> QED
        BY <1>0, <1>7, <4>1
    <3>4. p = 15 => reg[2] \in Nat
      BY <1>0, <1>7
    <3> QED
      BY <3>1, <3>2, <3>3, <3>4, NotUndef
  <2>3. CASE p = 10
    BY <1>1, <1>5, <1>11, <2>1, <2>2, <2>3, SafeAlu
  <2>4. CASE p = 11
    BY <1>1, <1>5, <1>11, <2>1, <2>2, <2>4, SafeAlu, SMTT(20) DEF Imm
  <2>5. CASE p = 12
    BY <1>1, <1>5, <1>11, <2>1, <2>2, <2>5, SafeAlu
  <2>6. CASE p = 13
    BY <1>1, <1>5, <1>8, <1>11, <2>1, <2>2, <2>6, SafeAlu, SMTT(20)
  <2>7. CASE p = 14
    BY <1>1, <1>5, <1>11, <2>1, <2>7, SafeAlu
  <2>8. CASE p = 15
    <3>1. InPacket(ref, c) /\ reg[3] = PacketAt + n /\ reg[2] = c.size /\ n \in Nat
      BY <1>6, <1>7, <2>8
    <3>2. n + c.size <= Len(pkt)
      BY <3>1 DEF InPacket, n
    <3>3. From = n
      BY <1>0, <3>1 DEF From
    <3>4. ReadWithin
      BY <3>1, <3>2, <3>3 DEF ReadWithin
    <3> QED
      BY <1>1, <1>5, <1>11, <2>1, <2>2, <2>8, <3>4, SafeCall
  <2> QED
    BY <1>11, <2>3, <2>4, <2>5, <2>6, <2>7, <2>8
<1>12. CASE q > l /\ p \in 16 .. 21
  <2>1. /\ b[l + 16] = Jump(64, "jne", A, Imm, 0, 1)
        /\ b[l + 17] = JumpAlways(2)
        /\ b[l + 18] = Alu64("mov", A, Imm, 0)
        /\ b[l + 19] = Exit
        /\ b[l + 20] = Load(c.size, A, BytesAt)
        /\ c.size # 1 => b[l + 21] = FromBigEndian(A, c.size)
    BY <1>2 DEF LoadCodeIs
  <2>2. ASSUME p \in {20, 21}
        PROVE  /\ \A j \in 1 .. c.size : PacketBytes(ref, c)[j] \in Nat
               /\ LittleEndian(PacketBytes(ref, c), c.size) \in Nat
    <3>1. InPacket(ref, c)
      BY <1>6, <2>2
    <3>2. LoadFrom(ref, c) \in Nat
      BY <1>0 DEF LoadFrom
    <3>3. /\ \A j \in 1 .. c.size : PacketBytes(ref, c)[j] \in Byte
          /\ LittleEndian(PacketBytes(ref, c), c.size) \in Word
      BY <1>1, <3>1, <3>2, PacketWord
    <3> QED
      BY <3>3 DEF Byte, Word
  <2>3. CASE p = 16
    BY <1>1, <1>5, <1>A, <1>12, <2>1, <2>3, NotUndef, SafeCompare
  <2>4. CASE p = 17
    BY <1>1, <1>5, <1>12, <2>1, <2>4, SafeAlways
  <2>5. CASE p = 18
    BY <1>1, <1>5, <1>12, <2>1, <2>5, SafeAlu
  <2>6. CASE p = 19
    BY <1>1, <1>5, <1>7, <1>12, <2>1, <2>6, SafeExit
  <2>7. CASE p = 20
    <3>1. insn = Load(c.size, A, BytesAt)
      BY <1>1, <1>5, <1>12, <2>1, <2>7
    <3>2. FrameHas(BytesAt, PacketBytes(ref, c), c.size)
      BY <1>7, <2>7 DEF HasBytes
    <3>3. /\ BytesAt \in Int
          /\ \A j \in 1 .. c.size : BytesAt + j - 1 \in Frame
      BY <1>0, MemoryAssumption DEF BytesAt, Frame
    <3>4. \A j \in 1 .. c.size : PacketBytes(ref, c)[j] # Undef
      BY <2>2, <2>7, NotUndef
    <3>5. reg[FP] # Undef
      BY <1>0, NotUndef
    <3>6. c.size \in {1, 2, 4, 8}
      BY <1>0
    <3> QED
      BY <3>1, <3>2, <3>3, <3>4, <3>5, <3>6, SafeLoad
  <2>8. CASE p = 21
    <3>1. insn = FromBigEndian(A, c.size)
      BY <1>1, <1>5, <1>12, <2>1, <2>8
    <3>2. reg[A] # Undef
      BY <1>7, <2>2, <2>8, NotUndef
    <3> QED
      BY <3>1, <3>2, SafeTurn
  <2> QED
    BY <1>12, <2>3, <2>4, <2>5, <2>6, <2>7, <2>8
<1>13. q <= l \/ q > l
  BY <1>0
<1> QED
  BY <1>4, <1>5, <1>9, <1>10, <1>11, <1>12, <1>13

\* The q-th instruction of the block made from c is the next, or the last.
Ready(c, q) ==
  /\ Sound /\ RefInv /\ HasScratch
  /\ prog \in Programs /\ c = prog[ref.at] /\ ref.at \in 1 .. Len(prog)
  /\ q \in 1 .. Len(Block(c)) /\ insn = Placed(prog, ref.at, q)
  /\ ShapeOK(c) /\ Supported(c) /\ BlockInv(c, q)

LEMMA IsReady ==
  ASSUME IInv, status # "rejected", pc >= 5
  PROVE  Ready(prog[ref.at], Pos)
<1>1. /\ Base /\ Converted /\ RefInv /\ InBlock /\ pc \in Nat
  BY DEF IInv
<1>2. Sound /\ HasScratch
  BY <1>1 DEF Sound, Base, Converted, RefInv, InBlock
<1>3. /\ At(ref.at, prog[ref.at], Pos) /\ insn = Placed(prog, ref.at, Pos)
      /\ ShapeOK(prog[ref.at]) /\ Supported(prog[ref.at])
  BY Located
<1> QED
  BY <1>1, <1>2, <1>3 DEF Ready, Base, InBlock, At

\* The registers of the classic machine where its state is that of the filter.
LEMMA MatchesKnown ==
  ASSUME Sound, Matches
  PROVE  reg[A] # Undef /\ reg[X] # Undef
BY Sizes DEF Sound, Matches, Word, Undef

LEMMA ShortIs ==
  ASSUME NEW c, NEW q, Ready(c, q), Block(c)[q].over = Short
  PROVE  insn = Block(c)[q]
BY DEF Ready, Placed

LEMMA AluSafe ==
  ASSUME NEW c, NEW q, Ready(c, q), c.cls = "alu"
  PROVE  Safe
<1>1. Sound /\ q \in 1 .. Len(Block(c)) /\ c = prog[ref.at] /\ AluInv(c, q)
  BY DEF Ready, BlockInv
<1>2. ASSUME Block(c)[q] = AluInsn(c), Matches PROVE Safe
  <2>1. insn = AluInsn(c)
    BY <1>2, AluFields, ShortIs DEF AluInsn
  <2>2. reg[A] # Undef /\ reg[X] # Undef
    BY <1>1, <1>2, MatchesKnown
  <2> QED
    BY <2>1, <2>2, SafeAlu DEF AluInsn
<1>3. CASE ~Divides(c)
  <2>1. q = 1 /\ Block(c)[q] = AluInsn(c)
    <3>1. Len(Block(c)) = 1 /\ Block(c)[1] = AluInsn(c)
      BY <1>3, AluCode
    <3> QED
      BY <1>1, <3>1
  <2> QED
    BY <1>1, <1>2, <2>1 DEF AluInv
<1>4. CASE Divides(c)
  <2>1. /\ Len(Block(c)) = 5
        /\ Block(c)[1] = Alu32("mov", X, X, 0)
        /\ Block(c)[2] = Jump(64, "jne", X, Imm, 0, 2)
        /\ Block(c)[3] = Alu64("mov", A, Imm, 0)
        /\ Block(c)[4] = Exit
        /\ Block(c)[5] = AluInsn(c)
    BY <1>4, AluCode
  <2>2. q \in {1, 2, 5} => Matches /\ reg[X] # Undef
    BY <1>1, MatchesKnown DEF AluInv
  <2>3. CASE q = 1
    <3>1. insn = Alu32("mov", X, X, 0)
      BY <2>1, <2>3, AluFields, ShortIs
    <3> QED
      BY <2>2, <2>3, <3>1, SafeAlu
  <2>4. CASE q = 2
    <3>1. insn = Jump(64, "jne", X, Imm, 0, 2)
      BY <2>1, <2>4, JumpFields, ShortIs
    <3> QED
      BY <2>2, <2>4, <3>1, SafeCompare
  <2>5. CASE q = 3
    <3>1. insn = Alu64("mov", A, Imm, 0)
      BY <2>1, <2>5, AluFields, ShortIs
    <3> QED
      BY <3>1, SafeAlu
  <2>6. CASE q = 4
    <3>1. insn = Exit
      BY <2>1, <2>6, OtherFields, ShortIs
    <3>2. ref.x = 0 /\ reg[A] = 0
      BY <1>1, <2>6 DEF AluInv
    <3>3. RefStep(ref) = Ended(ref, "reject")
      BY <1>1, <1>4, <3>2 DEF RefStep, Divides
    <3>4. RefStep(ref).res # "accept"
      BY <3>3 DEF Ended, Ready, RefInv
    <3> QED
      BY <3>1, <3>2, <3>4, SafeExit DEF RightAnswer
  <2>7. CASE q = 5
    BY <1>2, <2>1, <2>2, <2>7
  <2> QED
    BY <1>1, <2>1, <2>3, <2>4, <2>5, <2>6, <2>7
<1> QED
  BY <1>3, <1>4

\* A packet load that fails ends the program with 0.
LEMMA LoadRejects ==
  ASSUME NEW c, NEW q, Ready(c, q), c.cls \in {"ld", "msh"},
         reg[A] = 0, faulted \/ ~InPacket(ref, c)
  PROVE  RightAnswer
<1>1. CASE faulted
  BY <1>1 DEF RightAnswer
<1>2. CASE ~InPacket(ref, c)
  <2>1. RefStep(ref) = Ended(ref, "reject")
    BY <1>2 DEF RefStep, Ready
  <2>2. RefStep(ref).res # "accept"
    BY <2>1 DEF Ended, Ready, RefInv
  <2> QED
    BY <2>2 DEF RightAnswer
<1> QED
  BY <1>1, <1>2

LEMMA LdSafe ==
  ASSUME NEW c, NEW q, Ready(c, q), c.cls = "ld"
  PROVE  Safe
<1>1. Sound /\ q \in 1 .. Len(Block(c)) /\ LdInv(c, q) /\ ShapeOK(c)
  BY DEF Ready, BlockInv
<1>2. Block(c) = LoadBlock(c) /\ LoadShape(c)
  BY <1>1 DEF Block, LoadBlock, LoadShape, ShapeOK
<1>3. insn = LoadBlock(c)[q]
  BY <1>1, <1>2, LoadShort, ShortIs
<1>4. Loading(c, q) /\ reg[X] = ref.x
  BY <1>1, <1>2, <1>3 DEF Loading, LdInv
<1>5. reg[X] # Undef
  BY <1>1, <1>4, Sizes DEF Sound, Word, Undef
<1> QED
  BY <1>4, <1>5, LoadRejects, LoadSafe

LEMMA MshSafe ==
  ASSUME NEW c, NEW q, Ready(c, q), c.cls = "msh"
  PROVE  Safe
<1>1. /\ Sound /\ q \in 1 .. Len(Block(c)) /\ MshInv(c, q) /\ ShapeOK(c)
      /\ ref.a \in Word /\ ref.x \in Word
  BY DEF Ready, BlockInv, Sound
<1>2. /\ LoadShape(c) /\ c.op = "abs" /\ c.size = 1
      /\ LoadBlock(c) = PacketLoad("abs", 1, c.k)
  BY <1>1 DEF LoadBlock, LoadShape, ShapeOK
<1>3. /\ Len(Block(c)) = 27 /\ Len(LoadBlock(c)) = 21
      /\ Block(c)[1] = Alu64("mov", X, A, 0)
      /\ \A p \in 1 .. 21 : Block(c)[1 + p] = LoadBlock(c)[p]
      /\ Block(c)[23] = Alu32("and", A, Imm, NibbleMod - 1)
      /\ Block(c)[24] = Alu32("lsh", A, Imm, 2)
      /\ Block(c)[25] = Alu64("mov", TMP, X, 0)
      /\ Block(c)[26] = Alu64("mov", X, A, 0)
      /\ Block(c)[27] = Alu64("mov", A, TMP, 0)
  BY <1>2, MshCode
<1>4. ref.a # Undef /\ ref.x # Undef
  BY <1>1, Sizes DEF Word, Undef
<1>5. CASE q = 1
  <2>1. insn = Alu64("mov", X, A, 0)
    BY <1>3, <1>5, AluFields, ShortIs
  <2>2. reg[A] = ref.a
    BY <1>1, <1>5 DEF MshInv, Matches
  <2> QED
    BY <1>4, <2>1, <2>2, SafeAlu
<1>6. CASE q \in 2 .. 22
  <2>1. PICK p \in 1 .. 21 : q = 1 + p /\ p = q - 1
    <3>1. q - 1 \in 1 .. 21 /\ q = 1 + (q - 1)
      BY <1>6
    <3> QED
      BY <3>1
  <2>2. Block(c)[q] = LoadBlock(c)[p] /\ p \in 1 .. Len(LoadBlock(c))
    BY <1>3, <2>1
  <2>3. insn = LoadBlock(c)[p]
    BY <1>2, <2>2, LoadShort, ShortIs
  <2>4. LoadInv(c, p) /\ reg[X] = ref.a
    BY <1>1, <1>6, <2>1 DEF MshInv
  <2>5. Loading(c, p)
    BY <1>1, <1>2, <2>2, <2>3, <2>4 DEF Loading
  <2> QED
    BY <1>4, <2>4, <2>5, LoadRejects, LoadSafe
<1>7. CASE q \in 23 .. 27
  <2>1. InPacket(ref, c) /\ LoadFrom(ref, c) \in Nat
    BY <1>1, <1>2, <1>7, Sizes DEF MshInv, LoadFrom, LoadShape, Word
  <2>2. HeaderByte(c) \in Byte
    BY <1>1, <1>2, <2>1, PacketWord DEF HeaderByte
  <2>3. HeaderByte(c) \in Nat /\ HeaderByte(c) % NibbleMod \in Nat
    <3>1. HeaderByte(c) \in Int /\ HeaderByte(c) >= 0 /\ NibbleMod \in Nat \ {0}
      BY <2>2, Sizes DEF Byte
    <3> QED
      BY <3>1, Division
  <2>4. PICK h \in Nat : h = HeaderByte(c)
    BY <2>3
  <2>5. PICK m \in Nat : m = HeaderByte(c) % NibbleMod
    BY <2>3
  <2>6. /\ q = 23 => reg[A] = h
        /\ q = 24 => reg[A] = m
        /\ q = 26 => reg[A] = m * 4
        /\ q = 25 => reg[X] = ref.a
        /\ q = 27 => reg[TMP] = ref.a
    BY <1>1, <2>4, <2>5 DEF MshInv
  <2>7. m * 4 \in Nat
    OBVIOUS
  <2>8. /\ q \in {23, 24, 26} => reg[A] # Undef
        /\ q = 25 => reg[X] # Undef
        /\ q = 27 => reg[TMP] # Undef
    BY <1>4, <2>6, <2>7, NotUndef
  <2>9. /\ Block(c)[q] = insn
    BY <1>3, <1>7, AluFields, ShortIs
  <2>10. CASE q = 23
    BY <1>3, <2>8, <2>9, <2>10, SafeAlu
  <2>11. CASE q = 24
    BY <1>3, <2>8, <2>9, <2>11, SafeAlu
  <2>12. CASE q = 25
    BY <1>3, <2>8, <2>9, <2>12, SafeAlu
  <2>13. CASE q = 26
    BY <1>3, <2>8, <2>9, <2>13, SafeAlu
  <2>14. CASE q = 27
    BY <1>3, <2>8, <2>9, <2>14, SafeAlu
  <2> QED
    BY <1>7, <2>10, <2>11, <2>12, <2>13, <2>14
<1> QED
  BY <1>1, <1>3, <1>5, <1>6, <1>7

LEMMA OverSafe ==
  ASSUME NEW c, NEW q, Ready(c, q), NEW n, NEW op, NEW src, NEW imm,
         Block(c)[q] = Over(n, op, src, imm),
         op # "ja" => reg[A] # Undef /\ (src # Imm => reg[src] # Undef)
  PROVE  Safe
<1>1. \E off : \/ insn = Over(n, op, src, imm)
               \/ insn = [Over(n, op, src, imm) EXCEPT !.off = off]
  BY DEF Ready, Placed
<1>2. CASE insn = Over(n, op, src, imm)
  <2>1. insn.cls = "jmp" /\ insn.op = op /\ insn.dst = A /\ insn.src = src
    BY <1>2, OverFields
  <2> QED
    BY <2>1, SafeJump
<1>3. ASSUME NEW off, insn = [Over(n, op, src, imm) EXCEPT !.off = off] PROVE Safe
  <2>1. insn.cls = "jmp" /\ insn.op = op /\ insn.dst = A /\ insn.src = src
    BY <1>3, OverFields
  <2> QED
    BY <2>1, SafeJump
<1> QED
  BY <1>1, <1>2, <1>3

LEMMA JumpSafe ==
  ASSUME NEW c, NEW q, Ready(c, q), c.cls = "jmp"
  PROVE  Safe
<1> DEFINE n == Pre(c)
<1>1. /\ Sound /\ q \in 1 .. Len(Block(c)) /\ c.k \in Word
      /\ Matches /\ (q > 1 /\ c.op # "ja" /\ IsNegative(c) => reg[TMP] = c.k)
  BY DEF Ready, BlockInv, ShapeOK, JumpInv
<1>2. reg[A] # Undef /\ reg[X] # Undef /\ c.k # Undef
  BY <1>1, MatchesKnown, Sizes DEF Word, Undef
<1>3. n \in {0, 1} /\ (n = 1 <=> IsNegative(c))
  BY DEF Pre
\* A jump on A.
<1>4. ASSUME c.op # "ja", q = n + 1, NEW m, NEW op,
             Block(c)[q] = Over(m, op, Source(c), JumpImm(c))
      PROVE  Safe
  <2>1. IsNegative(c) => reg[TMP] # Undef
    <3>1. IsNegative(c) => q > 1
      BY <1>3, <1>4
    <3> QED
      BY <1>1, <1>2, <1>4, <3>1
  <2>2. Source(c) # Imm => reg[Source(c)] # Undef
    BY <1>2, <2>1 DEF Source
  <2> QED
    BY <1>2, <1>4, <2>2, OverSafe
\* One that is always taken.
<1>5. ASSUME NEW m, Block(c)[q] = Over(m, "ja", Imm, 0) PROVE Safe
  BY <1>5, OverSafe
<1>6. CASE c.op = "ja"
  <2>1. Len(Block(c)) = 1 /\ Block(c)[1] = Over(c.k, "ja", Imm, 0)
    BY <1>6, JumpCode
  <2>2. q = 1
    BY <1>1, <2>1
  <2> QED
    BY <1>5, <2>1, <2>2
<1>7. CASE c.op # "ja" /\ q <= n
  <2>1. q = 1 /\ IsNegative(c)
    BY <1>1, <1>3, <1>7
  <2>2. Block(c)[q] = Alu32("mov", TMP, Imm, c.k)
    BY <1>7, <2>1, JumpCode
  <2>3. insn = Alu32("mov", TMP, Imm, c.k)
    BY <2>2, AluFields, ShortIs
  <2> QED
    BY <2>3, SafeAlu
<1>8. CASE c.op # "ja" /\ q > n
  <2> HIDE DEF n
  <2>1. CASE c.jf = 0
    <3>1. Len(Block(c)) = n + 1 /\ Block(c)[n + 1] = Over(c.jt, c.op, Source(c), JumpImm(c))
      BY <1>8, <2>1, JumpCode DEF n
    <3>2. q = n + 1
      BY <1>1, <1>3, <1>8, <3>1
    <3> QED
      BY <1>4, <1>8, <3>1, <3>2
  <2>2. CASE c.jf # 0 /\ c.op # "jset" /\ c.jt = 0
    <3>1. /\ Len(Block(c)) = n + 1
          /\ Block(c)[n + 1] = Over(c.jf, Opposite[c.op], Source(c), JumpImm(c))
      BY <1>8, <2>2, JumpCode DEF n
    <3>2. q = n + 1
      BY <1>1, <1>3, <1>8, <3>1
    <3> QED
      BY <1>4, <1>8, <3>1, <3>2
  <2>3. CASE c.jf # 0 /\ (c.jt # 0 \/ c.op = "jset")
    <3>1. /\ Len(Block(c)) = n + 2
          /\ Block(c)[n + 1] = Over(c.jt, c.op, Source(c), JumpImm(c))
          /\ Block(c)[n + 2] = Over(c.jf, "ja", Imm, 0)
      BY <1>8, <2>3, JumpCode DEF n
    <3>2. q = n + 1 \/ q = n + 2
      BY <1>1, <1>3, <1>8, <3>1
    <3>3. CASE q = n + 1
      BY <1>4, <1>8, <3>1, <3>3
    <3>4. CASE q = n + 2
      BY <1>5, <3>1, <3>4
    <3> QED
      BY <3>2, <3>3, <3>4
  <2> QED
    BY <2>1, <2>2, <2>3
<1> QED
  BY <1>1, <1>3, <1>6, <1>7, <1>8

LEMMA RetSafe ==
  ASSUME NEW c, NEW q, Ready(c, q), c.cls = "ret"
  PROVE  Safe
<1>1. /\ Sound /\ q \in 1 .. Len(Block(c)) /\ ShapeOK(c) /\ RetInv(c, q)
      /\ c = prog[ref.at] /\ ~faulted
  BY DEF Ready, BlockInv, RetInv
\* The program ends as the classic one does.
<1>2. ASSUME NEW v, v = (IF c.src = "k" THEN c.k ELSE ref.a),
             reg[A] = IF v # 0 THEN 1 ELSE 0
      PROVE  RightAnswer
  <2>1. RefStep(ref) = Ended(ref, IF v # 0 THEN "accept" ELSE "reject")
    BY <1>1, <1>2 DEF RefStep
  <2>2. RefStep(ref).res = IF v # 0 THEN "accept" ELSE "reject"
    BY <2>1 DEF Ended, Ready, RefInv
  <2> QED
    BY <1>1, <1>2, <2>2 DEF RightAnswer
<1>3. CASE c.src = "k"
  <2>1. /\ Len(Block(c)) = 2
        /\ Block(c)[1] = Alu32("mov", A, Imm, IF c.k # 0 THEN 1 ELSE 0)
        /\ Block(c)[2] = Exit
    BY <1>3, RetCode
  <2>2. CASE q = 1
    <3>1. PICK b : b = IF c.k # 0 THEN 1 ELSE 0
      OBVIOUS
    <3>2. insn = Alu32("mov", A, Imm, b)
      BY <2>1, <2>2, <3>1, AluFields, ShortIs
    <3> QED
      BY <3>2, SafeAlu
  <2>3. CASE q = 2
    <3>1. insn = Exit
      BY <2>1, <2>3, OtherFields, ShortIs
    <3>2. reg[A] = IF c.k # 0 THEN 1 ELSE 0
      BY <1>1, <1>3, <2>3 DEF RetInv
    <3> QED
      BY <1>2, <1>3, <3>1, <3>2, SafeExit
  <2> QED
    BY <1>1, <2>1, <2>2, <2>3
<1>4. CASE c.src # "k"
  <2>0. c.src = "a"
    BY <1>1, <1>4 DEF ShapeOK
  <2>1. /\ Len(Block(c)) = 5
        /\ Block(c)[1] = Jump(64, "jeq", A, Imm, 0, 2)
        /\ Block(c)[2] = Alu32("mov", A, Imm, 1)
        /\ Block(c)[3] = JumpAlways(1)
        /\ Block(c)[4] = Alu32("mov", A, Imm, 0)
        /\ Block(c)[5] = Exit
    BY <1>4, RetCode
  <2>2. CASE q = 1
    <3>1. insn = Jump(64, "jeq", A, Imm, 0, 2)
      BY <2>1, <2>2, JumpFields, ShortIs
    <3>2. reg[A] # Undef
      BY <1>1, <2>2, MatchesKnown DEF RetInv
    <3> QED
      BY <3>1, <3>2, SafeCompare
  <2>3. CASE q = 2
    <3>1. insn = Alu32("mov", A, Imm, 1)
      BY <2>1, <2>3, AluFields, ShortIs
    <3> QED
      BY <3>1, SafeAlu
  <2>4. CASE q = 3
    <3>1. insn = JumpAlways(1)
      BY <2>1, <2>4, JumpFields, ShortIs
    <3> QED
      BY <3>1, SafeAlways
  <2>5. CASE q = 4
    <3>1. insn = Alu32("mov", A, Imm, 0)
      BY <2>1, <2>5, AluFields, ShortIs
    <3> QED
      BY <3>1, SafeAlu
  <2>6. CASE q = 5
    <3>1. insn = Exit
      BY <2>1, <2>6, OtherFields, ShortIs
    <3>2. reg[A] = IF ref.a # 0 THEN 1 ELSE 0
      BY <1>1, <2>0, <2>6 DEF RetInv
    <3> QED
      BY <1>2, <1>4, <3>1, <3>2, SafeExit
  <2> QED
    BY <1>1, <2>1, <2>2, <2>3, <2>4, <2>5, <2>6
<1> QED
  BY <1>3, <1>4

LEMMA SingleSafe ==
  ASSUME NEW c, NEW q, Ready(c, q), c.cls \in Singles
  PROVE  Safe
<1>1. /\ Sound /\ q \in 1 .. Len(Block(c)) /\ ShapeOK(c) /\ Matches /\ RefInv
      /\ HasScratch /\ c = prog[ref.at] /\ prog \in Programs
      /\ ref.at \in 1 .. Len(prog)
  BY DEF Ready, BlockInv
<1>2. Block(c)[q] = OneInsn(c)
  <2>1. Len(Block(c)) = 1 /\ Block(c)[1] = OneInsn(c)
    BY SingleCode
  <2> QED
    BY <1>1, <2>1
<1>3. OneInsn(c).over = Short
  BY AluFields, MemFields DEF OneInsn, Singles
<1>4. insn = OneInsn(c)
  BY <1>2, <1>3, ShortIs
<1>5. reg[A] # Undef /\ reg[X] # Undef
  BY <1>1, MatchesKnown
<1>6. CASE c.cls \in {"st", "stx"}
  <2>1. insn = Store(4, A, MemAt(c.k)) \/ insn = Store(4, X, MemAt(c.k))
    BY <1>4, <1>6 DEF OneInsn
  <2> QED
    BY <1>5, <2>1, SafeStore
<1>7. CASE c.cls \in {"ldm", "ldxm"}
  <2>1. PICK d : insn = Load(4, d, MemAt(c.k))
    BY <1>4, <1>7 DEF OneInsn
  <2>2. c.k \in Scratch
    BY <1>1, <1>7 DEF ShapeOK
  <2>3. c.k \in StoredBefore(prog)[ref.at]
    <3>1. LoadsStored(prog, StoredBefore(prog)) /\ ref.at \in DOMAIN prog
      BY <1>1, ProgramShape
    <3> QED
      BY <1>1, <1>7, <3>1 DEF LoadsStored
  <2>4. ref.m[c.k] # Undef /\ ref.m[c.k] \in Word
    BY <1>1, <2>2, <2>3 DEF RefInv
  <2>5. PICK b : b = BytesOf(ref.m[c.k], 4)
    OBVIOUS
  <2>6. FrameHas(MemAt(c.k), b, 4)
    BY <1>1, <2>2, <2>4, <2>5 DEF HasScratch
  <2>7. \A j \in 1 .. 4 : b[j] # Undef
    <3>1. \A j \in 1 .. 4 : b[j] \in Byte
      BY <2>4, <2>5, WordStored
    <3>2. \A v \in Byte : v # Undef
      BY Sizes DEF Byte, Undef
    <3> QED
      BY <3>1, <3>2
  <2>8. MemAt(c.k) \in Int /\ \A j \in 1 .. 4 : MemAt(c.k) + j - 1 \in Frame
    BY <2>2, FrameParts, ScratchApart
  <2>9. reg[FP] # Undef
    BY <1>1, MemoryAssumption DEF Sound, Undef
  <2> QED
    BY <2>1, <2>6, <2>7, <2>8, <2>9, SafeLoad
<1>8. CASE c.cls \in {"ldi", "ldxi", "tax", "txa"}
  <2>1. PICK d, s, k : /\ insn = Alu32("mov", d, s, k) \/ insn = Alu64("mov", d, s, k)
                       /\ s \in {Imm, A, X}
    BY <1>4, <1>8 DEF OneInsn
  <2> QED
    BY <1>5, <2>1, SafeAlu
<1> QED
  BY <1>6, <1>7, <1>8 DEF Singles

LEMMA PrologueSafe ==
  ASSUME IInv, status # "rejected", pc < 5
  PROVE  Safe /\ pc < Len(code)
<1>1. pc \in 0 .. 4 /\ insn = Prologue[pc + 1] /\ pc < Len(code) /\ status = "run"
  BY BeforeBlocks
<1>2. reg[1] = 1 /\ reg[4] \in Dword /\ reg[5] \in Dword
  BY <1>1, PrologueData DEF IInv, InPrologue
<1>3. reg[1] # Undef /\ reg[4] # Undef /\ reg[5] # Undef
  BY <1>2 DEF Dword, Undef
<1>4. \/ insn = Store(8, 4, DataAt) \/ insn = Store(8, 5, DataEndAt)
      \/ insn = Alu64("mov", CTX, 1, 0)
      \/ insn = Alu64("mov", A, Imm, 0) \/ insn = Alu64("mov", X, Imm, 0)
  <2>1. pc = 0 \/ pc = 1 \/ pc = 2 \/ pc = 3 \/ pc = 4
    BY <1>1
  <2> QED
    BY <1>1, <2>1, PrologueCode
<1>5. Safe
  BY <1>3, <1>4, SafeStore, SafeAlu
<1> QED
  BY <1>1, <1>5

LEMMA AlwaysSafe ==
  ASSUME IInv, status # "rejected"
  PROVE  Safe /\ pc < Len(code)
<1>1. pc \in Nat
  BY DEF IInv
<1>2. CASE pc < 5
  BY <1>2, PrologueSafe
<1>3. CASE pc >= 5
  <2>1. PICK c : c = prog[ref.at]
    OBVIOUS
  <2>2. PICK q : q = Pos
    OBVIOUS
  <2>3. Ready(c, q)
    BY <1>3, <2>1, <2>2, IsReady
  <2>4. c.cls \in {"alu", "ld", "msh", "jmp", "ret"} \/ c.cls \in Singles
    BY <2>3 DEF Ready, Supported, Singles
  <2>5. Safe
    BY <2>3, <2>4, AluSafe, LdSafe, MshSafe, JumpSafe, RetSafe, SingleSafe
  <2> QED
    BY <1>3, <2>5, Located
<1> QED
  BY <1>1, <1>2, <1>3

\* Where a block begins is where no instruction of another block is.
LEMMA OneBlock ==
  ASSUME NEW i, NEW c, NEW q, At(i, c, q), NEW n \in DOMAIN prog, pc = addrs[n]
  PROVE  n = i /\ q = 1
<1>1. /\ i \in 1 .. Len(prog) /\ c = prog[i] /\ pc = addrs[i] + (q - 1)
      /\ q \in 1 .. Len(Block(c)) /\ addrs = Addrs(prog) /\ HasBlocks(prog)
  BY DEF At
<1>2. /\ Len(prog) \in Nat /\ DOMAIN prog = 1 .. Len(prog)
      /\ Len(Block(c)) = Size(prog, i) /\ Size(prog, i) \in Nat
  BY <1>1 DEF HasBlocks, Size
<1>3. n \in 1 .. Len(prog) /\ i \in 1 .. Len(prog) + 1 /\ n \in 1 .. Len(prog) + 1
  BY <1>1, <1>2
<1>4. addrs[n] \in Nat /\ addrs[i] \in Nat /\ Size(prog, n) \in Nat \ {0}
  BY <1>1, <1>3, AddrsType DEF HasBlocks
<1>5. n < i => addrs[n] + Size(prog, n) <= addrs[i]
  BY <1>1, <1>3, AddrsIncrease
<1>6. i < n => addrs[i] + Size(prog, i) <= addrs[n]
  BY <1>1, <1>3, AddrsIncrease
<1>7. q \in 1 .. Size(prog, i) /\ addrs[n] = addrs[i] + (q - 1)
  BY <1>1, <1>2
<1>8. n \in Int /\ i \in Int
  BY <1>1, <1>3
<1>9. ~(n < i) /\ ~(i < n)
  BY ONLY <1>2, <1>4, <1>5, <1>6, <1>7
<1>10. n = i
  BY ONLY <1>8, <1>9
<1> QED
  BY <1>4, <1>7, <1>10

LEMMA SimulatesHere ==
  ASSUME IInv
  PROVE  Simulates
<1> SUFFICES ASSUME status = "run", NEW n \in DOMAIN prog, pc = addrs[n]
             PROVE  /\ pc = addrs[ref.at] /\ reg[A] = ref.a /\ reg[X] = ref.x
                    /\ \A k \in Scratch :
                         ref.m[k] # Undef =>
                           ref.m[k] = LittleEndian([j \in 1 .. 4 |-> frame[MemAt(k) + j - 1]], 4)
  BY DEF Simulates
<1>1. pc >= 5
  <2>1. prog \in Programs /\ Converts(prog) /\ addrs = Addrs(prog)
    BY DEF IInv, Base, Converted
  <2>2. HasBlocks(prog) /\ n \in 1 .. Len(prog) + 1
    BY <2>1, BlocksExist DEF HasBlocks
  <2> QED
    BY <2>1, <2>2, AddrsType
<1>2. PICK c : c = prog[ref.at]
  OBVIOUS
<1>3. PICK q : q = Pos
  OBVIOUS
<1>4. Busy(c, q)
  BY <1>1, <1>2, <1>3, IsBusy
<1>5. n = ref.at /\ q = 1
  BY <1>4, OneBlock DEF Busy
<1>6. Matches
  <2>1. BlockInv(c, 1) /\ Supported(c)
    BY <1>4, <1>5 DEF Busy
  <2>2. c.cls \in {"alu", "ld", "msh", "jmp", "ret"} \/ c.cls \in Singles
    BY <2>1 DEF Supported, Singles
  <2> QED
    BY <2>1, <2>2 DEF BlockInv, AluInv, LdInv, MshInv, JumpInv, RetInv
<1>7. HasScratch /\ RefInv
  BY <1>4, BusyFacts
<1>8. ASSUME NEW k \in Scratch, ref.m[k] # Undef
      PROVE  ref.m[k] = LittleEndian([j \in 1 .. 4 |-> frame[MemAt(k) + j - 1]], 4)
  <2>1. PICK v \in Word : v = ref.m[k]
    BY <1>7, <1>8 DEF RefInv
  <2>2. FrameHas(MemAt(k), BytesOf(v, 4), 4)
    BY <1>7, <1>8, <2>1 DEF HasScratch
  <2>3. PICK b : b = BytesOf(v, 4)
    OBVIOUS
  <2>4. PICK f : f = [j \in 1 .. 4 |-> frame[MemAt(k) + j - 1]]
    OBVIOUS
  <2>5. \A j \in 1 .. 4 : f[j] = b[j]
    BY <2>2, <2>3, <2>4 DEF FrameHas
  <2>6. LittleEndian(f, 4) = LittleEndian(b, 4)
    BY <2>5 DEF LittleEndian
  <2> QED
    BY <2>1, <2>3, <2>4, <2>6, WordStored
<1> QED
  BY <1>5, <1>6, <1>8 DEF Matches

LEMMA VerdictHere ==
  ASSUME IInv
  PROVE  VerdictRight
<1> SUFFICES ASSUME status = "exit" PROVE RightAnswer
  BY DEF VerdictRight, RightAnswer
<1>1. pc >= 5 /\ InBlock
  BY DEF IInv, InPrologue
<1>2. insn = Exit
  <2>1. insn = Placed(prog, ref.at, Pos)
    BY <1>1, Located
  <2>2. Block(prog[ref.at])[Pos] = Exit
    BY <1>1 DEF InBlock
  <2> QED
    BY <2>1, <2>2, OtherFields DEF Placed
<1>3. Safe
  BY AlwaysSafe
<1> QED
  BY <1>2, <1>3, OtherFields DEF Safe

\* Where a block begins R0 and R7 hold A and X of the classic program and the
\* frame its scratch memory, for every program, packet and word size: each
\* instruction is converted rightly (bpf_convert_filter).
THEOREM EveryBlockRight == Spec => []Simulates
<1>1. IInv => Simulates
  BY SimulatesHere
<1> QED
  BY <1>1, Invariance, PTL

\* A filter answers 1 of exactly the packets that the classic program
\* accepts, and else 0 (bpf_convert_filter, emit_packet_load).
THEOREM EveryVerdictRight == Spec => []VerdictRight
<1>1. IInv => VerdictRight
  BY VerdictHere
<1> QED
  BY <1>1, Invariance, PTL

\* No read leaves the packet, however an offset wraps around
\* (emit_packet_load).
THEOREM EveryReadWithin == Spec => []ReadsInPacket
<1>1. IInv => ReadsInPacket
  BY AlwaysSafe DEF Safe, ReadsInPacket, ReadWithin
<1> QED
  BY <1>1, Invariance, PTL

\* Nothing is read that was not written, and the program ends with an exit
\* (bpf_convert_filter).
THEOREM AlwaysVerifiable == Spec => []Verifiable
<1>1. IInv => Verifiable
  BY AlwaysSafe DEF Safe, Verifiable
<1> QED
  BY <1>1, Invariance, PTL
=============================================================================

------------------------- MODULE FramedServerProofs -------------------------
(***************************************************************************)
(* Proofs about FramedServer, for every length of a body, every stream of  *)
(* messages and every cut of it into reads and writes: no copy leaves a    *)
(* buffer, and of a stream read in step no length is negative, no byte is  *)
(* lost, and the answers reach the peer whole and in the order of its      *)
(* messages.                                                               *)
(***************************************************************************)
EXTENDS FramedServer, SequenceLemmas

\* The messages a header of two pairs of bytes can announce, and what a message
\* node may be: one made for the length -1 has no buffer.
TwoBytes == {n \in Nat : n <= 65535}
Framed == [id : TwoBytes, len : TwoBytes, data : Seq(Byte)]
Held == [id : TwoBytes, len : TwoBytes \cup {-1}, data : Seq(Byte)]

\* Two bytes before their sign is looked at.
Raw(first, second) ==
  IF chapter = 8 THEN 256 * second + first ELSE 256 * first + second
RawId == IF chapter <= 11 THEN 0 ELSE Raw(FullHead[1], FullHead[2])
RawLen == Raw(FullHead[HeadLength - 1], FullHead[HeadLength])

-----------------------------------------------------------------------------
(* Cutting and joining sequences.                                          *)

LEMMA FirstAfter ==
  ASSUME NEW E, NEW s \in Seq(E), NEW n \in 0 .. Len(s)
  PROVE  /\ First(s, n) \in Seq(E) /\ Len(First(s, n)) = n
         /\ After(s, n) \in Seq(E) /\ Len(After(s, n)) = Len(s) - n
         /\ \A i \in 1 .. n : First(s, n)[i] = s[i]
         /\ \A i \in 1 .. Len(s) - n : After(s, n)[i] = s[n + i]
         /\ s = First(s, n) \o After(s, n)
<1>1. Len(s) \in Nat /\ \A i \in 1 .. Len(s) : s[i] \in E
  BY LenProperties, ElementOfSeq
<1>2. /\ First(s, n) \in Seq(E) /\ Len(First(s, n)) = n
      /\ \A i \in 1 .. n : First(s, n)[i] = s[i]
  BY <1>1, SubSeqProperties DEF First
<1>3. /\ After(s, n) \in Seq(E) /\ Len(After(s, n)) = Len(s) - n
      /\ \A i \in 1 .. Len(s) - n : After(s, n)[i] = s[n + i]
  <2>1. /\ n + 1 \in Int /\ Len(s) \in Int
        /\ \A i \in n + 1 .. Len(s) : s[i] \in E
    BY <1>1
  <2>2. /\ SubSeq(s, n + 1, Len(s)) \in Seq(E)
        /\ Len(SubSeq(s, n + 1, Len(s))) =
             IF n + 1 <= Len(s) THEN Len(s) - (n + 1) + 1 ELSE 0
        /\ \A i \in 1 .. Len(s) - (n + 1) + 1 :
             SubSeq(s, n + 1, Len(s))[i] = s[n + 1 + i - 1]
    BY <2>1, SubSeqProperties
  <2>3. After(s, n) \in Seq(E) /\ Len(After(s, n)) = Len(s) - n
    BY <1>1, <2>2 DEF After
  <2>4. ASSUME NEW i \in 1 .. Len(s) - n PROVE After(s, n)[i] = s[n + i]
    <3>1. i \in 1 .. Len(s) - (n + 1) + 1 /\ n + 1 + i - 1 = n + i
      BY <1>1
    <3> QED
      BY <2>2, <3>1 DEF After
  <2> QED
    BY <2>3, <2>4
<1>4. s = First(s, n) \o After(s, n)
  <2> DEFINE a == First(s, n)
             b == After(s, n)
  <2>1. /\ a \in Seq(E) /\ b \in Seq(E) /\ Len(a) = n /\ Len(b) = Len(s) - n
        /\ \A i \in 1 .. n : a[i] = s[i]
        /\ \A i \in 1 .. Len(s) - n : b[i] = s[n + i]
    BY <1>2, <1>3
  <2> HIDE DEF a, b
  <2>2. /\ a \o b \in Seq(E) /\ Len(a \o b) = Len(a) + Len(b)
        /\ \A i \in 1 .. Len(a) + Len(b) :
             (a \o b)[i] = IF i <= Len(a) THEN a[i] ELSE b[i - Len(a)]
    BY <2>1, ConcatProperties
  <2>3. ASSUME NEW i \in 1 .. Len(s) PROVE (a \o b)[i] = s[i]
    <3>1. (a \o b)[i] = IF i <= n THEN a[i] ELSE b[i - n]
      BY <1>1, <2>1, <2>2
    <3>2. CASE i <= n
      BY <2>1, <3>1, <3>2
    <3>3. CASE ~(i <= n)
      <4>1. i - n \in 1 .. Len(s) - n /\ n + (i - n) = i
        BY <1>1, <3>3
      <4> QED
        BY <2>1, <3>1, <3>3, <4>1
    <3> QED
      BY <3>2, <3>3
  <2>4. Len(a \o b) = Len(s)
    BY <1>1, <2>1, <2>2
  <2>5. s = a \o b
    BY <2>2, <2>3, <2>4, SeqEqual
  <2> QED
    BY <2>5 DEF a, b
<1> QED
  BY <1>2, <1>3, <1>4

\* The parts of equal sequences that begin with parts of the same length.
LEMMA SameParts ==
  ASSUME NEW E, NEW s \in Seq(E), NEW t \in Seq(E), NEW u \in Seq(E), NEW v \in Seq(E),
         s \o t = u \o v, Len(s) = Len(u)
  PROVE  s = u /\ t = v
<1>0. Len(s) = Len(u)
  OBVIOUS
<1>1. Len(s) \in Nat /\ Len(t) \in Nat /\ Len(u) \in Nat /\ Len(v) \in Nat
  BY LenProperties
<1>2. /\ Len(s \o t) = Len(s) + Len(t)
      /\ \A i \in 1 .. Len(s) + Len(t) :
           (s \o t)[i] = IF i <= Len(s) THEN s[i] ELSE t[i - Len(s)]
  BY ConcatProperties
<1>3. /\ Len(u \o v) = Len(u) + Len(v)
      /\ \A i \in 1 .. Len(u) + Len(v) :
           (u \o v)[i] = IF i <= Len(u) THEN u[i] ELSE v[i - Len(u)]
  BY ConcatProperties
<1>4. Len(t) = Len(v)
  BY <1>1, <1>2, <1>3
<1>5. \A i \in 1 .. Len(s) : s[i] = u[i]
  BY <1>1, <1>2, <1>3, <1>4
<1>6. \A i \in 1 .. Len(t) : t[i] = v[i]
  <2> SUFFICES ASSUME NEW i \in 1 .. Len(t) PROVE t[i] = v[i]
    OBVIOUS
  <2>1. Len(s) + i \in 1 .. Len(s) + Len(t) /\ ~(Len(s) + i <= Len(s))
        /\ Len(s) + i - Len(s) = i
    BY <1>1
  <2>2. (s \o t)[Len(s) + i] = t[i]
    <3>1. (s \o t)[Len(s) + i] = t[Len(s) + i - Len(s)]
      BY ONLY <1>2, <2>1
    <3> QED
      BY ONLY <2>1, <3>1
  <2>3. (u \o v)[Len(s) + i] = v[i]
    <3>1. Len(s) + i \in 1 .. Len(u) + Len(v) /\ ~(Len(s) + i <= Len(u))
      BY ONLY <1>0, <1>4, <2>1
    <3>2. (u \o v)[Len(s) + i] = v[Len(s) + i - Len(u)]
      BY ONLY <1>3, <3>1
    <3> QED
      BY ONLY <1>0, <2>1, <3>2
  <2>4. s \o t = u \o v
    OBVIOUS
  <2> QED
    BY ONLY <2>2, <2>3, <2>4
<1>7. s = u
  BY <1>5, SeqEqual
<1> QED
  BY <1>4, <1>6, <1>7, SeqEqual

LEMMA Regroup ==
  ASSUME NEW E, NEW a \in Seq(E), NEW b \in Seq(E), NEW c \in Seq(E)
  PROVE  (a \o b) \o c = a \o (b \o c)
BY ConcatAssociative

Join(s, t) == s \o t      \* for the provers, which know too much of \o

LEMMA RegroupThree ==
  ASSUME NEW s1 \in Seq(Byte), NEW s2 \in Seq(Byte), NEW s3 \in Seq(Byte)
  PROVE  Join(Join(s1, s2), s3) = Join(s1, Join(s2, s3))
BY Regroup DEF Join

LEMMA RegroupFour ==
  ASSUME NEW s1 \in Seq(Byte), NEW s2 \in Seq(Byte),
         NEW s3 \in Seq(Byte), NEW s4 \in Seq(Byte)
  PROVE  Join(Join(s1, Join(s2, s3)), s4) = Join(Join(s1, s2), Join(s3, s4))
<1> USE DEF Join
<1>1. s2 \o s3 \in Seq(Byte)
  BY ConcatProperties
<1>2. s3 \o s4 \in Seq(Byte)
  BY ConcatProperties
<1>3. (s1 \o (s2 \o s3)) \o s4 = s1 \o ((s2 \o s3) \o s4)
  BY <1>1, Regroup, SMTT(30)
<1>4. (s2 \o s3) \o s4 = s2 \o (s3 \o s4)
  BY Regroup
<1>5. (s1 \o s2) \o (s3 \o s4) = s1 \o (s2 \o (s3 \o s4))
  BY <1>2, Regroup, SMTT(30)
<1> QED
  BY <1>3, <1>4, <1>5

LEMMA RegroupLeft ==
  ASSUME NEW s1 \in Seq(Byte), NEW s2 \in Seq(Byte),
         NEW s3 \in Seq(Byte), NEW s4 \in Seq(Byte)
  PROVE  Join(Join(Join(s1, s2), s3), s4) = Join(s1, Join(s2, Join(s3, s4)))
<1> USE DEF Join
<1>1. s1 \o s2 \in Seq(Byte)
  BY ConcatProperties
<1>2. s3 \o s4 \in Seq(Byte)
  BY ConcatProperties
<1>3. ((s1 \o s2) \o s3) \o s4 = (s1 \o s2) \o (s3 \o s4)
  BY <1>1, Regroup, SMTT(30)
<1>4. (s1 \o s2) \o (s3 \o s4) = s1 \o (s2 \o (s3 \o s4))
  BY <1>2, Regroup, SMTT(30)
<1> QED
  BY <1>3, <1>4

\* The first n of a sequence of which another is the front.
LEMMA FrontOfJoin ==
  ASSUME NEW E, NEW s \in Seq(E), NEW t \in Seq(E), NEW n \in 0 .. Len(s)
  PROVE  First(s \o t, n) = First(s, n) /\ After(s \o t, n) = After(s, n) \o t
<1>1. Len(s) \in Nat /\ Len(t) \in Nat
  BY LenProperties
<1>2. s \o t \in Seq(E) /\ Len(s \o t) = Len(s) + Len(t)
  BY ConcatProperties
<1>3. /\ First(s, n) \in Seq(E) /\ Len(First(s, n)) = n
      /\ After(s, n) \in Seq(E) /\ s = First(s, n) \o After(s, n)
  BY FirstAfter
<1>4. n \in 0 .. Len(s \o t)
  BY <1>1, <1>2
<1>5. /\ First(s \o t, n) \in Seq(E) /\ Len(First(s \o t, n)) = n
      /\ After(s \o t, n) \in Seq(E)
      /\ s \o t = First(s \o t, n) \o After(s \o t, n)
  BY <1>2, <1>4, FirstAfter
<1>6. s \o t = First(s, n) \o (After(s, n) \o t)
  <2> DEFINE a == First(s, n)
             b == After(s, n)
  <2>1. a \in Seq(E) /\ b \in Seq(E) /\ s = a \o b
    BY <1>3
  <2> HIDE DEF a, b
  <2>2. (a \o b) \o t = a \o (b \o t)
    BY <2>1, Regroup, SMTT(30)
  <2> QED
    BY <2>1, <2>2 DEF a, b
<1>7. After(s, n) \o t \in Seq(E)
  BY <1>3, ConcatProperties
<1>8. First(s \o t, n) \o After(s \o t, n) = First(s, n) \o (After(s, n) \o t)
  BY <1>5, <1>6
<1> QED
  BY <1>3, <1>5, <1>7, <1>8, SameParts

-----------------------------------------------------------------------------
(* Headers.                                                                *)

LEMMA ZeroByte == 0 \in Byte
BY DEF Byte

LEMMA ByteIs == \A b : b \in Byte <=> b \in Nat /\ b <= 255
BY DEF Byte

LEMMA DivMod ==
  ASSUME NEW n \in TwoBytes
  PROVE  /\ n % 256 \in Byte /\ n \div 256 \in Byte
         /\ n = 256 * (n \div 256) + (n % 256)
<1>1. n \in Nat /\ n <= 65535
  BY DEF TwoBytes
<1>2. n % 256 \in Nat /\ n % 256 <= 255
  BY <1>1
<1>3. n \div 256 \in Nat /\ n \div 256 <= 255
  BY <1>1
<1>4. n = 256 * (n \div 256) + (n % 256)
  BY <1>1
<1> QED
  BY <1>2, <1>3, <1>4, ByteIs

LEMMA NumberDivMod ==
  ASSUME NEW a \in Byte, NEW b \in Byte, NEW n, n = 256 * a + b
  PROVE  n \in TwoBytes /\ n \div 256 = a /\ n % 256 = b
<1>1. a \in Nat /\ a <= 255 /\ b \in Nat /\ b <= 255
  BY ByteIs
<1>2. n \in Nat /\ n <= 65535
  BY <1>1
<1>3. n \div 256 = a
  BY <1>1
<1>4. n % 256 = b
  BY <1>1
<1> QED
  BY <1>2, <1>3, <1>4 DEF TwoBytes

LEMMA TwoBytesType ==
  ASSUME NEW a \in Byte, NEW b \in Byte
  PROVE  /\ <<a, b>> \in Seq(Byte) /\ Len(<<a, b>>) = 2
         /\ <<a, b>>[1] = a /\ <<a, b>>[2] = b
OBVIOUS

LEMMA ShortType ==
  ASSUME NEW n \in TwoBytes
  PROVE  /\ Short(n) \in Seq(Byte) /\ Len(Short(n)) = 2
         /\ Short(n)[1] \in Byte /\ Short(n)[2] \in Byte
         /\ Raw(Short(n)[1], Short(n)[2]) = n
<1> DEFINE lo == n % 256
           hi == n \div 256
<1>1. lo \in Byte /\ hi \in Byte /\ n = 256 * hi + lo
  BY DivMod
<1>2. Short(n) = IF chapter = 8 THEN <<lo, hi>> ELSE <<hi, lo>>
  BY DEF Short
<1> HIDE DEF lo, hi
<1>3. /\ <<lo, hi>> \in Seq(Byte) /\ Len(<<lo, hi>>) = 2
      /\ <<lo, hi>>[1] = lo /\ <<lo, hi>>[2] = hi
      /\ <<hi, lo>> \in Seq(Byte) /\ Len(<<hi, lo>>) = 2
      /\ <<hi, lo>>[1] = hi /\ <<hi, lo>>[2] = lo
  BY <1>1, TwoBytesType
<1>4. CASE chapter = 8
  <2>1. Raw(lo, hi) = n
    BY <1>1, <1>4 DEF Raw
  <2> QED
    BY <1>1, <1>2, <1>3, <1>4, <2>1
<1>5. CASE chapter # 8
  <2>1. Raw(hi, lo) = n
    BY <1>1, <1>5 DEF Raw
  <2> QED
    BY <1>1, <1>2, <1>3, <1>5, <2>1
<1> QED
  BY <1>4, <1>5

LEMMA RawType ==
  ASSUME NEW a \in Byte, NEW b \in Byte
  PROVE  /\ Raw(a, b) \in TwoBytes /\ Short(Raw(a, b)) = <<a, b>>
         /\ Number(a, b) = Signed(Raw(a, b))
<1> DEFINE n == Raw(a, b)
<1>0. Number(a, b) = Signed(n)
  BY DEF Number, Raw
<1>1. n = IF chapter = 8 THEN 256 * b + a ELSE 256 * a + b
  BY DEF Raw
<1> HIDE DEF n
<1>2. CASE chapter = 8
  <2>1. n \in TwoBytes /\ n \div 256 = b /\ n % 256 = a
    BY <1>1, <1>2, NumberDivMod
  <2> QED
    BY <1>0, <1>2, <2>1 DEF Short, n
<1>3. CASE chapter # 8
  <2>1. n \in TwoBytes /\ n \div 256 = a /\ n % 256 = b
    BY <1>1, <1>3, NumberDivMod
  <2> QED
    BY <1>0, <1>3, <2>1 DEF Short, n
<1> QED
  BY <1>2, <1>3

\* A short that is not negative is its two bytes.
LEMMA SignedIs ==
  ASSUME NEW n \in TwoBytes
  PROVE  /\ Signed(n) \in Int
         /\ Signed(n) >= 0 => Signed(n) = n
         /\ n \in ShortNat => Signed(n) = n
BY DEF Signed, TwoBytes, ShortNat

LEMMA HeadLengthIs ==
  /\ HeadLength \in {2, 4} /\ HeadLength \in Nat
  /\ chapter \in 8 .. 15 => (HeadLength = 2 <=> chapter <= 11)
BY DEF HeadLength

LEMMA HeaderType ==
  ASSUME NEW id \in TwoBytes, NEW len \in TwoBytes
  PROVE  Header(id, len) \in Seq(Byte) /\ Len(Header(id, len)) = HeadLength
<1>1. /\ Short(id) \in Seq(Byte) /\ Len(Short(id)) = 2
      /\ Short(len) \in Seq(Byte) /\ Len(Short(len)) = 2
  BY ShortType
<1>2. /\ Short(id) \o Short(len) \in Seq(Byte)
      /\ Len(Short(id) \o Short(len)) = Len(Short(id)) + Len(Short(len))
  BY <1>1, ConcatProperties
<1> QED
  BY <1>1, <1>2 DEF Header, HeadLength

\* A header says one id and one length.
LEMMA HeaderInjective ==
  ASSUME NEW id1 \in TwoBytes, NEW len1 \in TwoBytes,
         NEW id2 \in TwoBytes, NEW len2 \in TwoBytes,
         chapter <= 11 => id1 = id2,
         Header(id1, len1) = Header(id2, len2)
  PROVE  id1 = id2 /\ len1 = len2
<1>1. \A m, n \in TwoBytes : Short(m) = Short(n) => m = n
  BY ShortType
<1>2. CASE chapter <= 11
  BY <1>1, <1>2 DEF Header
<1>3. CASE ~(chapter <= 11)
  <2>1. Short(id1) \o Short(len1) = Short(id2) \o Short(len2)
    BY <1>3 DEF Header
  <2>2. /\ Short(id1) \in Seq(Byte) /\ Short(len1) \in Seq(Byte)
        /\ Short(id2) \in Seq(Byte) /\ Short(len2) \in Seq(Byte)
        /\ Len(Short(id1)) = Len(Short(id2))
    BY ShortType
  <2>3. Short(id1) = Short(id2) /\ Short(len1) = Short(len2)
    BY <2>1, <2>2, SameParts
  <2> QED
    BY <1>1, <2>3
<1> QED
  BY <1>2, <1>3

-----------------------------------------------------------------------------
(* The encoding of messages.                                               *)

LEMMA BytesType ==
  ASSUME NEW m \in Framed
  PROVE  Bytes(m) \in Seq(Byte)
<1>1. m.id \in TwoBytes /\ m.len \in TwoBytes /\ m.data \in Seq(Byte)
  BY DEF Framed
<1> QED
  BY <1>1, HeaderType, ConcatProperties DEF Bytes

Encodings(ms) == [i \in 1 .. Len(ms) |-> Bytes(ms[i])]

LEMMA EncodingsType ==
  ASSUME NEW ms \in Seq(Framed)
  PROVE  /\ Encodings(ms) \in Seq(Seq(Byte)) /\ Len(Encodings(ms)) = Len(ms)
         /\ Encoded(ms) = FlattenSeq(Encodings(ms)) /\ Encoded(ms) \in Seq(Byte)
<1>1. Len(ms) \in Nat /\ \A i \in 1 .. Len(ms) : ms[i] \in Framed
  BY LenProperties, ElementOfSeq
<1>2. \A i \in 1 .. Len(ms) : Bytes(ms[i]) \in Seq(Byte)
  BY <1>1, BytesType
<1>3. Encodings(ms) \in Seq(Seq(Byte)) /\ Len(Encodings(ms)) = Len(ms)
  BY <1>1, <1>2 DEF Encodings
<1>4. Encoded(ms) = FlattenSeq(Encodings(ms))
  BY DEF Encoded, Encodings
<1> QED
  BY <1>3, <1>4, FlattenType

LEMMA EncodedEmpty == Encoded(<<>>) = <<>>
<1>1. Encodings(<<>>) = <<>>
  BY DEF Encodings
<1> QED
  BY <1>1, FlattenEmpty DEF Encoded, Encodings

LEMMA EncodedConcat ==
  ASSUME NEW ms \in Seq(Framed), NEW ns \in Seq(Framed)
  PROVE  Encoded(ms \o ns) = Encoded(ms) \o Encoded(ns)
<1>1. /\ Encodings(ms) \in Seq(Seq(Byte)) /\ Len(Encodings(ms)) = Len(ms)
      /\ Encodings(ns) \in Seq(Seq(Byte)) /\ Len(Encodings(ns)) = Len(ns)
      /\ Len(ms) \in Nat /\ Len(ns) \in Nat
  BY EncodingsType, LenProperties
<1>2. /\ ms \o ns \in Seq(Framed) /\ Len(ms \o ns) = Len(ms) + Len(ns)
      /\ \A i \in 1 .. Len(ms) + Len(ns) :
           (ms \o ns)[i] = IF i <= Len(ms) THEN ms[i] ELSE ns[i - Len(ms)]
  BY ConcatProperties
<1>3. /\ Encodings(ms \o ns) \in Seq(Seq(Byte))
      /\ Len(Encodings(ms \o ns)) = Len(ms) + Len(ns)
  BY <1>2, EncodingsType
<1>4. /\ Encodings(ms) \o Encodings(ns) \in Seq(Seq(Byte))
      /\ Len(Encodings(ms) \o Encodings(ns)) = Len(ms) + Len(ns)
      /\ \A i \in 1 .. Len(ms) + Len(ns) :
           (Encodings(ms) \o Encodings(ns))[i] =
             IF i <= Len(ms) THEN Encodings(ms)[i] ELSE Encodings(ns)[i - Len(ms)]
  <2> DEFINE es == Encodings(ms)
             fs == Encodings(ns)
  <2>1. es \in Seq(Seq(Byte)) /\ fs \in Seq(Seq(Byte)) /\ Len(es) = Len(ms) /\ Len(fs) = Len(ns)
    BY <1>1
  <2> HIDE DEF es, fs
  <2>2. /\ es \o fs \in Seq(Seq(Byte)) /\ Len(es \o fs) = Len(es) + Len(fs)
        /\ \A i \in 1 .. Len(es) + Len(fs) :
             (es \o fs)[i] = IF i <= Len(es) THEN es[i] ELSE fs[i - Len(es)]
    BY <2>1, ConcatProperties
  <2> QED
    BY <2>1, <2>2 DEF es, fs
<1>5. ASSUME NEW i \in 1 .. Len(ms) + Len(ns)
      PROVE  Encodings(ms \o ns)[i] = (Encodings(ms) \o Encodings(ns))[i]
  <2>1. Encodings(ms \o ns)[i] = Bytes((ms \o ns)[i])
    BY <1>2 DEF Encodings
  <2>2. CASE i <= Len(ms)
    <3>1. Encodings(ms)[i] = Bytes(ms[i])
      BY <1>1, <2>2 DEF Encodings
    <3> QED
      BY <1>2, <1>4, <2>1, <2>2, <3>1
  <2>3. CASE ~(i <= Len(ms))
    <3>1. i - Len(ms) \in 1 .. Len(ns)
      BY <1>1, <2>3
    <3>2. Encodings(ns)[i - Len(ms)] = Bytes(ns[i - Len(ms)])
      BY <3>1 DEF Encodings
    <3> QED
      BY <1>2, <1>4, <2>1, <2>3, <3>2
  <2> QED
    BY <2>2, <2>3
<1>6. Encodings(ms \o ns) = Encodings(ms) \o Encodings(ns)
  BY <1>3, <1>4, <1>5, SeqEqual
<1>7. FlattenSeq(Encodings(ms) \o Encodings(ns))
        = FlattenSeq(Encodings(ms)) \o FlattenSeq(Encodings(ns))
  BY <1>1, FlattenConcat
<1>8. /\ Encoded(ms \o ns) = FlattenSeq(Encodings(ms \o ns))
      /\ Encoded(ms) = FlattenSeq(Encodings(ms)) /\ Encoded(ns) = FlattenSeq(Encodings(ns))
  BY <1>2, EncodingsType
<1> QED
  BY <1>6, <1>7, <1>8

LEMMA EncodedOne ==
  ASSUME NEW m \in Framed
  PROVE  Encoded(<<m>>) = Bytes(m)
<1>1. Encodings(<<m>>) = <<Bytes(m)>>
  BY DEF Encodings
<1>2. FlattenSeq(<<Bytes(m)>>) = Bytes(m)
  BY BytesType, FlattenOne
<1> QED
  BY <1>1, <1>2 DEF Encoded, Encodings

-----------------------------------------------------------------------------
(* The invariant of the receiving half.                                    *)

Whole(m) == m.len = Len(m.data)

ReadType ==
  /\ chapter \in 8 .. 15
  /\ sent \in Seq(Framed)
  /\ wire \in Seq(Byte)
  /\ reading \in {"none", "open", "dead", "failed", "refused", "over"}
  /\ chunk \in Seq(Byte)
  /\ head \in [1 .. HeadLength -> Byte]
  /\ cur_len \in Nat
  /\ node \in Held
  /\ head_parse \in BOOLEAN
  /\ stores \in Nat
  /\ overtaken \in BOOLEAN
  /\ posted \in Seq(Framed)

\* What is sent and posted says its length, and has an id only from 12 on; the
\* numbers of what is sent are not negative as shorts.
SentInv ==
  \A i \in 1 .. Len(sent) :
    /\ Whole(sent[i]) /\ (chapter <= 11 => sent[i].id = 0)
    /\ sent[i].id \in ShortNat /\ sent[i].len \in ShortNat
PostedInv == \A i \in 1 .. Len(posted) : Whole(posted[i])

\* Bytes are left while a handler runs, and a handler that has only to set
\* _head_parse has none.
HandlerInv ==
  /\ chunk # <<>> => reading = "none"
  /\ stores > 0 /\ ~overtaken => chunk = <<>> /\ ~head_parse /\ stores = 1
  /\ chapter <= 11 => node.id = 0

\* The messages a stream read in step has still to give.
Remaining == SubSeq(sent, Len(posted) + 1, Len(sent))

\* In step, what is posted is what was sent, and the bytes that are held or
\* under way are those of the messages that remain.
StepInv ==
  InStep =>
    /\ Len(posted) <= Len(sent)
    /\ \A i \in 1 .. Len(posted) : posted[i] = sent[i]
    /\ reading # "refused" =>
         \E rest : rest = Remaining /\ InProgress \o (chunk \o wire) = Encoded(rest)

ReadInv == ReadType /\ InBounds /\ SentInv /\ PostedInv /\ HandlerInv /\ StepInv

LEMMA FramedFields ==
  ASSUME NEW m \in Framed
  PROVE  /\ m.id \in TwoBytes /\ m.len \in TwoBytes /\ m.data \in Seq(Byte)
         /\ m.id \in Nat /\ m.len \in Nat
         /\ m = [id |-> m.id, len |-> m.len, data |-> m.data]
BY DEF Framed, TwoBytes

LEMMA HeldFields ==
  ASSUME NEW m \in Held
  PROVE  /\ m.id \in TwoBytes /\ m.len \in Int /\ m.data \in Seq(Byte)
         /\ m.len >= 0 => m \in Framed
         /\ ~(m.len >= 0) => m.len = -1
         /\ m = [id |-> m.id, len |-> m.len, data |-> m.data]
<1>1. /\ m.id \in TwoBytes /\ m.len \in TwoBytes \cup {-1} /\ m.data \in Seq(Byte)
      /\ m = [id |-> m.id, len |-> m.len, data |-> m.data]
  BY DEF Held
<1>2. m.len \in Int /\ (m.len >= 0 => m.len \in TwoBytes) /\ (~(m.len >= 0) => m.len = -1)
  BY <1>1 DEF TwoBytes
<1>3. m.len \in TwoBytes => m \in Framed
  BY <1>1 DEF Framed
<1> QED
  BY <1>1, <1>2, <1>3

LEMMA HeldIs ==
  /\ Framed \subseteq Held
  /\ \A id \in TwoBytes, data \in Seq(Byte) :
       [id |-> id, len |-> -1, data |-> data] \in Held
BY DEF Framed, Held

LEMMA FramedIs ==
  ASSUME NEW id \in TwoBytes, NEW len \in TwoBytes, NEW data \in Seq(Byte)
  PROVE  [id |-> id, len |-> len, data |-> data] \in Framed
BY DEF Framed

\* A header is that of the first message that remains, and what follows it
\* begins with the body of that message.
LEMMA HeaderDecoded ==
  ASSUME ReadType, SentInv,
         NEW k \in Nat, k <= Len(sent),
         NEW id \in TwoBytes, NEW len \in TwoBytes, NEW x \in Seq(Byte),
         chapter <= 11 => id = 0,
         Header(id, len) \o x = Encoded(SubSeq(sent, k + 1, Len(sent)))
  PROVE  /\ k < Len(sent) /\ sent[k + 1] \in Framed
         /\ id = sent[k + 1].id /\ len = sent[k + 1].len
         /\ id \in ShortNat /\ len \in ShortNat /\ len = Len(sent[k + 1].data)
         /\ SubSeq(sent, k + 2, Len(sent)) \in Seq(Framed)
         /\ x = sent[k + 1].data \o Encoded(SubSeq(sent, k + 2, Len(sent)))
<1>1. Len(sent) \in Nat /\ sent \in Seq(Framed) /\ chapter \in 8 .. 15
  BY LenProperties DEF ReadType
<1>2. /\ Header(id, len) \in Seq(Byte) /\ Len(Header(id, len)) = HeadLength
      /\ HeadLength \in Nat /\ HeadLength > 0
  BY HeaderType, HeadLengthIs
<1>3. k < Len(sent)
  <2> SUFFICES ASSUME k = Len(sent) PROVE FALSE
    BY <1>1
  <2>1. SubSeq(sent, k + 1, Len(sent)) = <<>>
    BY <1>1, SubSeqEmpty
  <2>2. Header(id, len) \o x = <<>>
    BY <2>1, EncodedEmpty
  <2>3. Len(Header(id, len) \o x) = Len(Header(id, len)) + Len(x)
    BY <1>2, ConcatProperties
  <2>4. Len(x) \in Nat /\ Len(<<>>) = 0
    BY LenProperties, EmptySeq
  <2> QED
    BY <1>2, <2>2, <2>3, <2>4
<1> DEFINE m == sent[k + 1]
           rest == SubSeq(sent, k + 2, Len(sent))
<1>4. m \in Framed /\ rest \in Seq(Framed)
  <2>1. k + 1 \in 1 .. Len(sent) /\ k + 2 \in Int /\ Len(sent) \in Int
    BY <1>1, <1>3
  <2>2. \A i \in k + 2 .. Len(sent) : sent[i] \in Framed
    <3> SUFFICES ASSUME NEW i \in k + 2 .. Len(sent) PROVE i \in 1 .. Len(sent)
      BY <1>1, ElementOfSeq
    <3> QED
      BY <1>1
  <2> QED
    BY <1>1, <2>1, <2>2, ElementOfSeq, SubSeqProperties
<1>5. SubSeq(sent, k + 1, Len(sent)) = <<m>> \o rest
  <2>1. k + 1 \in 1 .. Len(sent) /\ Len(sent) \in k + 1 .. Len(sent) /\ k + 1 + 1 = k + 2
    BY <1>1, <1>3
  <2> QED
    BY <1>1, <2>1, SubSeqRecursiveFirst
<1>6. /\ Whole(m) /\ (chapter <= 11 => m.id = 0)
      /\ m.id \in ShortNat /\ m.len \in ShortNat
  <2>1. k + 1 \in 1 .. Len(sent)
    BY <1>1, <1>3
  <2> QED
    BY <2>1 DEF SentInv
<1> HIDE DEF m, rest
<1>7. Encoded(<<m>> \o rest) = Bytes(m) \o Encoded(rest)
  <2>1. <<m>> \in Seq(Framed)
    BY <1>4
  <2> QED
    BY <1>4, <2>1, EncodedConcat, EncodedOne
<1> DEFINE h == Header(m.id, m.len)
           e == Encoded(rest)
<1>8. /\ m.id \in TwoBytes /\ m.len \in TwoBytes /\ m.data \in Seq(Byte)
      /\ m = [id |-> m.id, len |-> m.len, data |-> m.data]
  BY <1>4, FramedFields
<1>9. h \in Seq(Byte) /\ Len(h) = HeadLength /\ e \in Seq(Byte)
  BY <1>4, <1>8, HeaderType, EncodingsType
<1>10. Bytes(m) = h \o m.data
  BY DEF Bytes
<1> HIDE DEF h, e
<1>11. (h \o m.data) \o e = h \o (m.data \o e) /\ m.data \o e \in Seq(Byte)
  <2> DEFINE d == m.data
  <2>1. h \in Seq(Byte) /\ d \in Seq(Byte) /\ e \in Seq(Byte)
    BY <1>8, <1>9
  <2> HIDE DEF d
  <2>2. (h \o d) \o e = h \o (d \o e)
    <3>1. Join(Join(h, d), e) = Join(h, Join(d, e))
      BY ONLY <2>1, RegroupThree
    <3> QED
      BY ONLY <3>1 DEF Join
  <2>3. d \o e \in Seq(Byte)
    BY <2>1, ConcatProperties
  <2> QED
    BY <2>2, <2>3 DEF d
<1>12. Header(id, len) \o x = h \o (m.data \o e)
  BY <1>5, <1>7, <1>10, <1>11 DEF e
<1>13. Header(id, len) = h /\ x = m.data \o e
  BY <1>2, <1>9, <1>11, <1>12, SameParts
<1>14. id = m.id /\ len = m.len
  BY <1>6, <1>8, <1>13, HeaderInjective DEF h
<1> QED
  BY <1>3, <1>4, <1>6, <1>13, <1>14 DEF m, rest, e, Whole

\* The first message that remains, when its body has arrived.
LEMMA Decoded ==
  ASSUME ReadType, SentInv,
         NEW k \in Nat, k <= Len(sent),
         NEW id \in TwoBytes, NEW len \in TwoBytes, NEW x \in Seq(Byte),
         chapter <= 11 => id = 0,
         len <= Len(x),
         Header(id, len) \o x = Encoded(SubSeq(sent, k + 1, Len(sent)))
  PROVE  /\ k < Len(sent)
         /\ sent[k + 1] = [id |-> id, len |-> len, data |-> First(x, len)]
         /\ After(x, len) = Encoded(SubSeq(sent, k + 2, Len(sent)))
<1> DEFINE m == sent[k + 1]
           e == Encoded(SubSeq(sent, k + 2, Len(sent)))
<1>1. /\ k < Len(sent) /\ m \in Framed /\ id = m.id /\ len = m.len /\ len = Len(m.data)
      /\ SubSeq(sent, k + 2, Len(sent)) \in Seq(Framed)
      /\ x = m.data \o e
  BY HeaderDecoded
<1>2. m.data \in Seq(Byte) /\ m = [id |-> m.id, len |-> m.len, data |-> m.data]
      /\ e \in Seq(Byte)
  BY <1>1, FramedFields, EncodingsType
<1> HIDE DEF m, e
<1>3. len \in 0 .. Len(x)
  <2>1. Len(m.data) \in Nat /\ Len(x) \in Nat
    BY <1>2, LenProperties
  <2> QED
    BY <1>1, <2>1
<1>4. /\ First(x, len) \in Seq(Byte) /\ Len(First(x, len)) = len
      /\ After(x, len) \in Seq(Byte) /\ x = First(x, len) \o After(x, len)
  <2>1. x \in Seq(Byte) /\ len \in 0 .. Len(x)
    BY <1>3
  <2> QED
    BY ONLY <2>1, FirstAfter
<1>5. First(x, len) = m.data /\ After(x, len) = e
  <2>1. First(x, len) \o After(x, len) = m.data \o e
    BY <1>1, <1>4
  <2> QED
    BY <1>1, <1>2, <1>4, <2>1, SameParts
<1> QED
  BY <1>1, <1>2, <1>5 DEF m, e

-----------------------------------------------------------------------------
(* The header of a message.                                                *)

LEMMA FilledType ==
  ASSUME ReadType, NEW bytes \in Seq(Byte)
  PROVE  Filled(bytes) \in [1 .. HeadLength -> Byte]
<1>1. HeadLength \in Nat /\ cur_len \in Nat /\ head \in [1 .. HeadLength -> Byte]
  BY HeadLengthIs DEF ReadType
<1>2. \A j \in 1 .. Len(bytes) : bytes[j] \in Byte
  BY ElementOfSeq
<1> QED
  BY <1>1, <1>2 DEF Filled

\* What a complete header says, and that the bytes behind it are in the chunk.
LEMMA HeadRead ==
  ASSUME ReadInv, HeadComplete
  PROVE  /\ FullHead \in [1 .. HeadLength -> Byte]
         /\ RawId \in TwoBytes /\ RawLen \in TwoBytes
         /\ DataId = Signed(RawId) /\ DataLen = Signed(RawLen)
         /\ DataId \in Int /\ DataLen \in Int
         /\ DataId >= 0 => DataId \in TwoBytes
         /\ DataLen >= 0 => DataLen \in TwoBytes
         /\ chapter <= 11 => DataId = 0 /\ RawId = 0
         /\ HeadRemain \in 0 .. Len(chunk)
         /\ Rest \in Seq(Byte) /\ Len(Rest) \in Nat
<1>1. /\ HeadLength \in {2, 4} /\ HeadLength \in Nat /\ cur_len \in Nat
      /\ cur_len < HeadLength /\ chunk \in Seq(Byte) /\ Len(chunk) \in Nat
      /\ Len(chunk) + cur_len >= HeadLength
      /\ chapter \in 8 .. 15 /\ (HeadLength = 2 <=> chapter <= 11)
  BY HeadLengthIs, LenProperties DEF ReadInv, ReadType, InBounds, HeadComplete
<1>2. HeadRemain \in 0 .. Len(chunk)
  BY <1>1 DEF HeadRemain
<1>3. /\ First(chunk, HeadRemain) \in Seq(Byte)
      /\ Rest \in Seq(Byte) /\ Len(Rest) \in Nat
  BY <1>1, <1>2, FirstAfter, LenProperties DEF Rest
<1>4. FullHead \in [1 .. HeadLength -> Byte]
  BY <1>3, FilledType DEF ReadInv, FullHead
<1>5. /\ HeadLength \in 1 .. HeadLength /\ HeadLength - 1 \in 1 .. HeadLength
      /\ 1 \in 1 .. HeadLength /\ 2 \in 1 .. HeadLength
  BY <1>1
<1>6. /\ FullHead[HeadLength] \in Byte /\ FullHead[HeadLength - 1] \in Byte
      /\ FullHead[1] \in Byte /\ FullHead[2] \in Byte
  BY <1>4, <1>5
<1>7. RawLen \in TwoBytes /\ DataLen = Signed(RawLen)
  BY <1>6, RawType DEF DataLen, RawLen
<1>8. RawId \in TwoBytes /\ DataId = Signed(RawId) /\ (chapter <= 11 => DataId = 0 /\ RawId = 0)
  <2>1. 0 \in TwoBytes /\ Signed(0) = 0
    BY DEF TwoBytes, Signed
  <2> QED
    BY <1>6, <2>1, RawType DEF DataId, RawId
<1>9. /\ DataId \in Int /\ DataLen \in Int
      /\ DataId >= 0 => DataId \in TwoBytes
      /\ DataLen >= 0 => DataLen \in TwoBytes
  <2>1. \A n \in TwoBytes : Signed(n) \in Int /\ (Signed(n) >= 0 => Signed(n) \in TwoBytes)
    BY SignedIs
  <2> QED
    BY <1>7, <1>8, <2>1
<1> QED
  BY <1>2, <1>3, <1>4, <1>7, <1>8, <1>9

\* A header that arrives whole: it and the rest are the chunk.
LEMMA HeadWhole ==
  ASSUME ReadInv, HeadComplete, cur_len = 0
  PROVE  chunk = Header(RawId, RawLen) \o Rest
<1>1. /\ HeadLength \in {2, 4} /\ chunk \in Seq(Byte) /\ Len(chunk) \in Nat
      /\ Len(chunk) >= HeadLength /\ HeadRemain = HeadLength
      /\ chapter \in 8 .. 15 /\ (HeadLength = 2 <=> chapter <= 11)
  BY HeadLengthIs, LenProperties DEF ReadInv, ReadType, HeadComplete, HeadRemain
<1> DEFINE f == First(chunk, HeadLength)
<1>2. HeadLength \in 0 .. Len(chunk)
  BY <1>1
<1>3. /\ f \in Seq(Byte) /\ Len(f) = HeadLength
      /\ chunk = f \o Rest
  <2>1. Rest = After(chunk, HeadLength)
    BY <1>1 DEF Rest
  <2>2. /\ First(chunk, HeadLength) \in Seq(Byte)
        /\ Len(First(chunk, HeadLength)) = HeadLength
        /\ chunk = First(chunk, HeadLength) \o After(chunk, HeadLength)
    <3>1. chunk \in Seq(Byte) /\ HeadLength \in 0 .. Len(chunk)
      BY <1>1, <1>2
    <3> QED
      BY ONLY <3>1, FirstAfter
  <2> QED
    BY <2>1, <2>2
<1> HIDE DEF f
<1>4. \A i \in 1 .. HeadLength : FullHead[i] = f[i] /\ f[i] \in Byte
  <2>1. FullHead = Filled(f)
    BY <1>1 DEF FullHead, f
  <2>2. \A i \in 1 .. HeadLength : i - cur_len = i /\ i \in 1 .. Len(f) /\ f[i] \in Byte
    BY <1>1, <1>3, ElementOfSeq
  <2> QED
    BY <2>1, <2>2 DEF Filled
<1>5. CASE chapter <= 11
  <2>1. HeadLength = 2 /\ Header(RawId, RawLen) = Short(RawLen)
    BY <1>1, <1>5 DEF Header
  <2>2. RawLen = Raw(f[1], f[2]) /\ f[1] \in Byte /\ f[2] \in Byte
    BY <1>4, <2>1 DEF RawLen
  <2>3. Short(RawLen) = <<f[1], f[2]>>
    BY <2>2, RawType
  <2>4. /\ <<f[1], f[2]>> \in Seq(Byte) /\ Len(<<f[1], f[2]>>) = 2
        /\ \A i \in 1 .. 2 : <<f[1], f[2]>>[i] = f[i]
    BY <2>2
  <2>5. <<f[1], f[2]>> = f
    BY <1>3, <2>1, <2>4, SeqEqual
  <2> QED
    BY <1>3, <2>1, <2>3, <2>5
<1>6. CASE ~(chapter <= 11)
  <2>1. HeadLength = 4 /\ Header(RawId, RawLen) = Short(RawId) \o Short(RawLen)
    BY <1>1, <1>6 DEF Header
  <2>2. /\ RawLen = Raw(f[3], f[4]) /\ RawId = Raw(f[1], f[2])
        /\ f[1] \in Byte /\ f[2] \in Byte /\ f[3] \in Byte /\ f[4] \in Byte
    BY <1>4, <1>6, <2>1 DEF RawLen, RawId
  <2>3. Short(RawLen) = <<f[3], f[4]>> /\ Short(RawId) = <<f[1], f[2]>>
    BY <2>2, RawType
  <2> DEFINE a == <<f[1], f[2]>>
             b == <<f[3], f[4]>>
  <2>4. /\ a \in Seq(Byte) /\ Len(a) = 2 /\ a[1] = f[1] /\ a[2] = f[2]
        /\ b \in Seq(Byte) /\ Len(b) = 2 /\ b[1] = f[3] /\ b[2] = f[4]
    BY <2>2, TwoBytesType
  <2> HIDE DEF a, b
  <2>5. /\ a \o b \in Seq(Byte) /\ Len(a \o b) = Len(a) + Len(b)
        /\ \A i \in 1 .. Len(a) + Len(b) :
             (a \o b)[i] = IF i <= Len(a) THEN a[i] ELSE b[i - Len(a)]
    BY ONLY <2>4, ConcatProperties
  <2>6. \A i \in 1 .. 4 : (a \o b)[i] = f[i]
    <3> SUFFICES ASSUME NEW i \in 1 .. 4 PROVE (a \o b)[i] = f[i]
      OBVIOUS
    <3>1. i = 1 \/ i = 2 \/ i = 3 \/ i = 4
      OBVIOUS
    <3> QED
      BY <2>4, <2>5, <3>1
  <2>7. a \o b = f
    <3>1. /\ a \o b \in Seq(Byte) /\ f \in Seq(Byte) /\ Len(a \o b) = Len(f)
          /\ \A i \in 1 .. Len(a \o b) : (a \o b)[i] = f[i]
      BY <1>3, <2>1, <2>4, <2>5, <2>6
    <3> QED
      BY ONLY <3>1, SeqEqual
  <2> QED
    BY <1>3, <2>1, <2>3, <2>7 DEF a, b
<1> QED
  BY <1>5, <1>6

-----------------------------------------------------------------------------
(* The steps of the receiving half.                                        *)

LEMMA ChapterSame ==
  ASSUME chapter' = chapter
  PROVE  /\ HeadLength' = HeadLength
         /\ \A id, len : Header(id, len)' = Header(id, len)
         /\ \A ms : Encoded(ms)' = Encoded(ms)
<1>1. HeadLength' = HeadLength
  BY DEF HeadLength
<1>2. ASSUME NEW id, NEW len PROVE Header(id, len)' = Header(id, len)
  BY DEF Header, Short
<1>3. ASSUME NEW ms PROVE Encoded(ms)' = Encoded(ms)
  <2>1. \A m : Bytes(m)' = Bytes(m)
    BY <1>2 DEF Bytes
  <2>2. [i \in 1 .. Len(ms) |-> Bytes(ms[i])'] = [i \in 1 .. Len(ms) |-> Bytes(ms[i])]
    BY <2>1
  <2> QED
    BY <2>2 DEF Encoded
<1> QED
  BY <1>1, <1>2, <1>3

\* What no handler changes.
LEMMA SentSame ==
  ASSUME ReadInv, UNCHANGED <<chapter, sent>>
  PROVE  /\ chapter' \in 8 .. 15 /\ sent' \in Seq(Framed) /\ SentInv'
         /\ HeadLength' = HeadLength /\ HeadLength \in Nat
         /\ wire \in Seq(Byte) /\ chunk \in Seq(Byte)
         /\ Len(wire) \in Nat /\ Len(chunk) \in Nat
BY ChapterSame, HeadLengthIs, LenProperties DEF ReadInv, ReadType, SentInv, Whole

\* A step that leaves the stream where it is.
LEMMA StepSame ==
  ASSUME ReadInv, UNCHANGED <<chapter, sent, posted, node, head>>,
         InStep' => InStep /\ InProgress' = InProgress,
         reading' # "refused" => reading # "refused",
         reading' # "refused" => chunk' \o wire' = chunk \o wire
  PROVE  StepInv'
<1> SUFFICES ASSUME InStep'
             PROVE  /\ Len(posted') <= Len(sent')
                    /\ \A i \in 1 .. Len(posted') : posted'[i] = sent'[i]
                    /\ reading' # "refused" =>
                         \E rest : /\ rest = Remaining'
                                   /\ InProgress' \o (chunk' \o wire') = Encoded(rest)'
  BY DEF StepInv
<1>1. Len(posted') <= Len(sent') /\ \A i \in 1 .. Len(posted') : posted'[i] = sent'[i]
  BY DEF ReadInv, StepInv
<1>2. ASSUME reading' # "refused"
      PROVE  \E rest : /\ rest = Remaining'
                       /\ InProgress' \o (chunk' \o wire') = Encoded(rest)'
  <2>1. PICK rest : rest = Remaining /\ InProgress \o (chunk \o wire) = Encoded(rest)
    BY <1>2 DEF ReadInv, StepInv
  <2>2. rest = Remaining'
    BY <2>1 DEF Remaining
  <2>3. InProgress' \o (chunk' \o wire') = Encoded(rest)'
    BY <1>2, <2>1, ChapterSame
  <2> QED
    BY <2>2, <2>3
<1> QED
  BY <1>1, <1>2

LEMMA UnchangedRead ==
  ASSUME ReadInv, UNCHANGED readVars
  PROVE  ReadInv'
<1>1. UNCHANGED <<chapter, sent, wire, reading, chunk, head, cur_len, node, head_parse,
                  stores, overtaken, posted>>
  BY DEF readVars
<1>2. ReadType' /\ InBounds' /\ SentInv'
  BY <1>1, SentSame DEF ReadInv, ReadType, InBounds
<1>3. PostedInv' /\ HandlerInv'
  BY <1>1 DEF ReadInv, PostedInv, HandlerInv, Whole
<1>4. InProgress' = InProgress
  BY <1>1, ChapterSame DEF InProgress, First
<1>5. StepInv'
  BY <1>1, <1>4, StepSame DEF InStep
<1> QED
  BY <1>2, <1>3, <1>5 DEF ReadInv

LEMMA ReadSomeInv ==
  ASSUME ReadInv, ReadSome
  PROVE  ReadInv'
<1>1. /\ reading = "open" /\ reading' = "none"
      /\ overtaken' = (overtaken \/ stores > 0)
      /\ UNCHANGED <<chapter, sent, head, cur_len, node, head_parse, stores, posted>>
  BY DEF ReadSome
<1>2. PICK n \in 1 .. BodyLength :
        n <= Len(wire) /\ chunk' = First(wire, n) /\ wire' = After(wire, n)
  BY DEF ReadSome
<1>3. wire \in Seq(Byte) /\ Len(wire) \in Nat /\ BodyLength \in Nat
  BY SessionReadAssumption, LenProperties DEF ReadInv, ReadType
<1>4. n \in 0 .. Len(wire)
  BY <1>2, <1>3
<1>5. chunk' \in Seq(Byte) /\ wire' \in Seq(Byte) /\ wire = chunk' \o wire'
  BY <1>2, <1>3, <1>4, FirstAfter, ZenonT(40)
<1>6. chunk = <<>>
  BY <1>1 DEF ReadInv, HandlerInv
<1>7. ReadType' /\ InBounds' /\ SentInv'
  BY <1>1, <1>5, SentSame DEF ReadInv, ReadType, InBounds
<1>8. PostedInv' /\ HandlerInv'
  BY <1>1 DEF ReadInv, ReadType, PostedInv, HandlerInv, Whole
<1>9. InProgress' = InProgress
  BY <1>1, ChapterSame DEF InProgress, First
<1>10. chunk \o wire = wire
  BY <1>3, <1>6, ConcatEmptySeq
<1>11. InStep' => InStep
  BY <1>1 DEF InStep
<1>12. StepInv'
  BY <1>1, <1>5, <1>9, <1>10, <1>11, StepSame
<1> QED
  BY <1>7, <1>8, <1>12 DEF ReadInv

LEMMA ReadErrorInv ==
  ASSUME ReadInv, ReadError
  PROVE  ReadInv'
<1>1. /\ reading \in {"open", "dead"} /\ reading' = "failed"
      /\ UNCHANGED <<chapter, sent, wire, chunk, head, cur_len, node, head_parse, stores,
                     overtaken, posted>>
  BY DEF ReadError
<1>2. ReadType' /\ InBounds' /\ SentInv'
  BY <1>1, SentSame DEF ReadInv, ReadType, InBounds
<1>3. PostedInv' /\ HandlerInv'
  BY <1>1 DEF ReadInv, PostedInv, HandlerInv, Whole
<1>4. InProgress' = InProgress
  BY <1>1, ChapterSame DEF InProgress, First
<1>5. StepInv'
  BY <1>1, <1>4, StepSame DEF InStep
<1> QED
  BY <1>2, <1>3, <1>5 DEF ReadInv

LEMMA HeadPartInv ==
  ASSUME ReadInv, HeadPart
  PROVE  ReadInv'
<1>1. /\ chunk # <<>> /\ ~head_parse /\ Len(chunk) + cur_len < HeadLength
      /\ head' = Filled(chunk) /\ cur_len' = cur_len + Len(chunk) /\ chunk' = <<>>
      /\ reading' \in {"dead", "open"}
      /\ UNCHANGED <<chapter, sent, wire, node, head_parse, stores, overtaken, posted>>
  BY DEF HeadPart, StartRead
<1>2. /\ chunk \in Seq(Byte) /\ Len(chunk) \in Nat /\ Len(chunk) # 0 /\ cur_len \in Nat
      /\ <<>> \in Seq(Byte)
  BY <1>1, EmptySeq, LenProperties DEF ReadInv, ReadType
<1>3. cur_len' \in Nat /\ cur_len' # 0 /\ cur_len' < HeadLength
  BY <1>1, <1>2, HeadLengthIs
<1>4. head' \in [1 .. HeadLength -> Byte]
  BY <1>1, <1>2, FilledType DEF ReadInv
<1>5. ReadType' /\ InBounds' /\ SentInv'
  BY <1>1, <1>2, <1>3, <1>4, SentSame DEF ReadInv, ReadType, InBounds
<1>6. PostedInv' /\ HandlerInv'
  BY <1>1 DEF ReadInv, PostedInv, HandlerInv, Whole
<1>7. StepInv'
  BY <1>3 DEF StepInv, InStep
<1> QED
  BY <1>5, <1>6, <1>7 DEF ReadInv

LEMMA HeadRejectedInv ==
  ASSUME ReadInv, HeadRejected
  PROVE  ReadInv'
<1>1. /\ HeadComplete /\ head' = FullHead /\ chunk' = <<>> /\ reading' = "refused"
      /\ UNCHANGED <<chapter, sent, wire, cur_len, node, head_parse, stores, overtaken, posted>>
  BY DEF HeadRejected
<1>2. <<>> \in Seq(Byte) /\ head' \in [1 .. HeadLength -> Byte]
  BY <1>1, EmptySeq, HeadRead
<1>3. ReadType' /\ InBounds' /\ SentInv'
  BY <1>1, <1>2, SentSame DEF ReadInv, ReadType, InBounds
<1>4. PostedInv' /\ HandlerInv'
  BY <1>1 DEF ReadInv, PostedInv, HandlerInv, Whole
<1>5. StepInv'
  BY <1>1 DEF ReadInv, StepInv, InStep
<1> QED
  BY <1>3, <1>4, <1>5 DEF ReadInv

LEMMA SetHeadParseInv ==
  ASSUME ReadInv, SetHeadParse
  PROVE  ReadInv'
<1>1. /\ stores > 0 /\ stores' = stores - 1 /\ head_parse' = TRUE
      /\ UNCHANGED <<chapter, sent, wire, reading, chunk, head, cur_len, node, overtaken, posted>>
  BY DEF SetHeadParse
<1>2. stores \in Nat /\ stores' \in Nat /\ (stores = 1 => stores' = 0)
  BY <1>1 DEF ReadInv, ReadType
<1>3. ReadType' /\ InBounds' /\ SentInv'
  BY <1>1, <1>2, SentSame DEF ReadInv, ReadType, InBounds
<1>4. HandlerInv'
  BY <1>1, <1>2 DEF ReadInv, HandlerInv
<1>5. PostedInv'
  BY <1>1 DEF ReadInv, PostedInv, Whole
<1>6. InProgress' = InProgress
  BY <1>1, ChapterSame DEF InProgress
<1>7. StepInv'
  BY <1>1, <1>6, StepSame DEF InStep
<1> QED
  BY <1>3, <1>4, <1>5, <1>7 DEF ReadInv

\* In step nothing is in progress when a header begins.
LEMMA NothingInProgress ==
  ASSUME ReadInv, InStep, chunk # <<>>, ~head_parse
  PROVE  stores = 0 /\ InProgress = <<>> /\ reading = "none"
<1>1. stores \in Nat /\ ~(stores > 0) /\ reading = "none"
  BY DEF ReadInv, ReadType, HandlerInv, InStep
<1>2. First(head, 0) = <<>>
  BY SubSeqEmpty DEF First
<1> QED
  BY <1>1, <1>2 DEF InProgress, InStep

\* In step a header that is read is one that was sent: its numbers are not
\* negative, and the chunk is that header and what follows it.
LEMMA HeadInStep ==
  ASSUME ReadInv, InStep, HeadComplete
  PROVE  /\ DataId \in TwoBytes /\ DataLen \in TwoBytes
         /\ InProgress = <<>> /\ chunk = Header(DataId, DataLen) \o Rest
<1> DEFINE h == Header(RawId, RawLen)
           r == Rest
           k == Len(posted)
<1>1. /\ RawId \in TwoBytes /\ RawLen \in TwoBytes
      /\ DataId = Signed(RawId) /\ DataLen = Signed(RawLen)
      /\ chapter <= 11 => RawId = 0
      /\ r \in Seq(Byte)
  BY HeadRead
<1>2. /\ InProgress = <<>> /\ reading = "none"
      /\ chunk = h \o r
  BY NothingInProgress, HeadWhole DEF HeadComplete, InStep
<1>3. h \in Seq(Byte) /\ wire \in Seq(Byte)
  BY <1>1, HeaderType DEF ReadInv, ReadType
<1>4. InProgress \o (chunk \o wire) = Encoded(Remaining)
  BY <1>2 DEF ReadInv, StepInv
<1>5. /\ k \in Nat /\ k <= Len(sent) /\ ReadType /\ SentInv
      /\ Remaining = SubSeq(sent, k + 1, Len(sent))
  BY LenProperties DEF ReadInv, ReadType, StepInv, Remaining
<1> HIDE DEF h, r, k
<1>6. /\ r \o wire \in Seq(Byte) /\ h \o (r \o wire) \in Seq(Byte)
      /\ (h \o r) \o wire = h \o (r \o wire)
  <2>1. r \o wire \in Seq(Byte)
    BY ONLY <1>1, <1>3, ConcatProperties
  <2>2. h \o (r \o wire) \in Seq(Byte)
    BY ONLY <1>3, <2>1, ConcatProperties
  <2> QED
    BY ONLY <1>1, <1>3, <2>1, <2>2, Regroup
<1>7. <<>> \o (h \o (r \o wire)) = h \o (r \o wire)
  BY ONLY <1>6, ConcatEmptySeq
<1>8. Header(RawId, RawLen) \o (r \o wire) = Encoded(SubSeq(sent, k + 1, Len(sent)))
  BY <1>2, <1>4, <1>5, <1>6, <1>7 DEF h
<1>9. RawId \in ShortNat /\ RawLen \in ShortNat
  BY <1>1, <1>5, <1>6, <1>8, HeaderDecoded
<1>10. DataId = RawId /\ DataLen = RawLen
  BY <1>1, <1>9, SignedIs
<1> QED
  BY <1>1, <1>2, <1>10 DEF h, r

LEMMA HeadThrowsInv ==
  ASSUME ReadInv, HeadThrows
  PROVE  ReadInv'
<1>1. /\ HeadComplete /\ DataLen < -1
      /\ head' = FullHead /\ chunk' = <<>> /\ reading' = "over"
      /\ UNCHANGED <<chapter, sent, wire, cur_len, node, head_parse, stores, overtaken, posted>>
  BY DEF HeadThrows
<1>2. <<>> \in Seq(Byte) /\ head' \in [1 .. HeadLength -> Byte]
  BY <1>1, EmptySeq, HeadRead
<1>3. ~InStep
  <2> SUFFICES ASSUME InStep PROVE FALSE
    OBVIOUS
  <2>1. DataLen \in TwoBytes
    BY <1>1, HeadInStep
  <2> QED
    BY <1>1, <2>1 DEF TwoBytes
<1>4. ReadType' /\ SentInv'
  BY <1>1, <1>2, SentSame DEF ReadInv, ReadType
<1>5. InBounds'
  BY <1>1, <1>3, SentSame DEF ReadInv, InBounds, InStep
<1>6. PostedInv' /\ HandlerInv'
  BY <1>1 DEF ReadInv, PostedInv, HandlerInv, Whole
<1>7. StepInv'
  BY <1>1, <1>3 DEF StepInv, InStep
<1> QED
  BY <1>4, <1>5, <1>6, <1>7 DEF ReadInv

LEMMA HeapBreaksInv ==
  ASSUME ReadInv, HeapBreaks
  PROVE  ReadInv'
<1>1. /\ node.len < 0 /\ chunk' = <<>> /\ reading' = "over"
      /\ UNCHANGED <<chapter, sent, wire, head, cur_len, node, head_parse, stores, overtaken, posted>>
  BY DEF HeapBreaks
<1>2. node.len \in Int
  BY HeldFields DEF ReadInv, ReadType
<1>3. ~InStep
  BY <1>1, <1>2 DEF ReadInv, InBounds, InStep
<1>4. ReadType' /\ SentInv'
  BY <1>1, EmptySeq, SentSame DEF ReadInv, ReadType
<1>5. InBounds'
  BY <1>1, <1>3, SentSame DEF ReadInv, InBounds, InStep
<1>6. PostedInv' /\ HandlerInv'
  BY <1>1 DEF ReadInv, PostedInv, HandlerInv, Whole
<1>7. StepInv'
  BY <1>1, <1>3 DEF StepInv, InStep
<1> QED
  BY <1>4, <1>5, <1>6, <1>7 DEF ReadInv

LEMMA BodyBeginsInv ==
  ASSUME ReadInv, BodyBegins
  PROVE  ReadInv'
<1>1. /\ HeadComplete /\ Acceptable /\ DataLen >= -1
      /\ DataLen < 0 \/ Len(Rest) < DataLen
      /\ head' = FullHead /\ node' = [id |-> DataId, len |-> DataLen, data |-> Rest]
      /\ chunk' = <<>> /\ stores' = stores + 1 /\ reading' \in {"dead", "open"}
      /\ UNCHANGED <<chapter, sent, wire, cur_len, head_parse, overtaken, posted>>
      /\ chunk # <<>> /\ ~head_parse
  BY DEF BodyBegins, StartRead, HeadComplete, FewerThan
<1>2. /\ FullHead \in [1 .. HeadLength -> Byte]
      /\ DataId \in TwoBytes /\ DataLen \in Int /\ (chapter <= 11 => DataId = 0)
      /\ DataLen >= 0 => DataLen \in TwoBytes
      /\ Rest \in Seq(Byte) /\ Len(Rest) \in Nat
  BY <1>1, HeadRead, SessionReadAssumption DEF Acceptable
<1>3. /\ node' \in Held /\ node'.id = DataId /\ node'.len = DataLen /\ node'.data = Rest
      /\ DataLen <= BodyLength
  <2>1. DataLen \in TwoBytes \/ DataLen = -1
    BY <1>1, <1>2
  <2> QED
    BY <1>1, <1>2, <2>1, FramedIs, HeldIs DEF Acceptable
<1>4. <<>> \in Seq(Byte) /\ stores \in Nat /\ stores' \in Nat /\ stores' > 0
  BY <1>1, EmptySeq DEF ReadInv, ReadType
<1>5. ReadType' /\ SentInv'
  BY <1>1, <1>2, <1>3, <1>4, SentSame DEF ReadInv, ReadType
<1>6. InBounds'
  <2>1. node'.len >= 0 => Len(node'.data) <= node'.len
    BY <1>1, <1>2, <1>3
  <2>2. InStep => node'.len >= 0 /\ reading' # "over"
    <3>1. InStep => DataLen \in TwoBytes
      BY <1>1, HeadInStep
    <3> QED
      BY <1>1, <1>3, <3>1 DEF TwoBytes
  <2> QED
    BY <1>1, <1>3, <2>1, <2>2, SentSame DEF ReadInv, InBounds, InStep
<1>7. HandlerInv'
  BY <1>1, <1>2, <1>3, <1>4 DEF ReadInv, ReadType, HandlerInv
<1>8. PostedInv'
  BY <1>1 DEF ReadInv, PostedInv, Whole
<1>9. ASSUME InStep PROVE InProgress' \o (chunk' \o wire') = InProgress \o (chunk \o wire)
  <2> DEFINE h == Header(DataId, DataLen)
             r == Rest
  <2>1. InProgress = <<>> /\ chunk = h \o r /\ DataLen \in TwoBytes
    BY <1>1, <1>9, HeadInStep
  <2>2. InProgress' = h \o r
    BY <1>1, <1>3, <1>4, ChapterSame DEF InProgress
  <2>3. h \in Seq(Byte) /\ r \in Seq(Byte) /\ wire \in Seq(Byte)
    BY <1>2, <2>1, HeaderType, SentSame, <1>1
  <2> HIDE DEF h, r
  <2>4. h \o r \in Seq(Byte) /\ (h \o r) \o wire \in Seq(Byte)
    BY ONLY <2>3, ConcatProperties
  <2>5. <<>> \o wire = wire /\ <<>> \o ((h \o r) \o wire) = (h \o r) \o wire
    BY ONLY <2>3, <2>4, ConcatEmptySeq
  <2> QED
    BY <1>1, <2>1, <2>2, <2>5
<1>10. StepInv'
  <2> SUFFICES ASSUME InStep'
               PROVE  /\ Len(posted') <= Len(sent')
                      /\ \A i \in 1 .. Len(posted') : posted'[i] = sent'[i]
                      /\ \E rest : /\ rest = Remaining'
                                   /\ InProgress' \o (chunk' \o wire') = Encoded(rest)'
    BY DEF StepInv
  <2>1. InStep /\ reading # "refused"
    BY <1>1, NothingInProgress DEF InStep, ReadInv, HandlerInv
  <2>2. PICK rest : rest = Remaining /\ InProgress \o (chunk \o wire) = Encoded(rest)
    BY <2>1 DEF ReadInv, StepInv
  <2>3. rest = Remaining'
    BY <1>1, <2>2 DEF Remaining
  <2>4. InProgress' \o (chunk' \o wire') = Encoded(rest)'
    BY <1>1, <1>9, <2>1, <2>2, ChapterSame
  <2>5. Len(posted') <= Len(sent') /\ \A i \in 1 .. Len(posted') : posted'[i] = sent'[i]
    BY <1>1, <2>1 DEF ReadInv, StepInv
  <2> QED
    BY <2>3, <2>4, <2>5
<1> QED
  BY <1>5, <1>6, <1>7, <1>8, <1>10 DEF ReadInv

LEMMA BodyPartInv ==
  ASSUME ReadInv, BodyPart
  PROVE  ReadInv'
<1>1. /\ chunk # <<>> /\ head_parse
      /\ node.len - Len(node.data) < 0 \/ Len(chunk) < node.len - Len(node.data)
      /\ node' = [node EXCEPT !.data = @ \o chunk]
      /\ chunk' = <<>> /\ reading' \in {"dead", "open"}
      /\ UNCHANGED <<chapter, sent, wire, head, cur_len, head_parse, stores, overtaken, posted>>
  BY DEF BodyPart, StartRead, MsgRemain, FewerThan
<1>2. /\ chunk \in Seq(Byte) /\ Len(chunk) \in Nat /\ wire \in Seq(Byte) /\ node \in Held
      /\ reading = "none"
  BY <1>1, LenProperties DEF ReadInv, ReadType, HandlerInv
<1> DEFINE d == node.data
<1>3. /\ node.id \in TwoBytes /\ node.len \in Int /\ (node.len >= 0 => node \in Framed)
      /\ ~(node.len >= 0) => node.len = -1
      /\ d \in Seq(Byte) /\ Len(d) \in Nat
      /\ node = [id |-> node.id, len |-> node.len, data |-> d]
  BY <1>2, HeldFields, LenProperties
<1>4. node' = [id |-> node.id, len |-> node.len, data |-> d \o chunk]
  BY <1>1, <1>3
<1> HIDE DEF d
<1>5. d \o chunk \in Seq(Byte) /\ Len(d \o chunk) = Len(d) + Len(chunk)
  BY ONLY <1>2, <1>3, ConcatProperties
<1>6. /\ node' \in Held /\ node'.id = node.id /\ node'.len = node.len
      /\ node'.data = d \o chunk
  <2>1. node.len \in TwoBytes \/ node.len = -1
    BY <1>3, FramedFields
  <2> QED
    BY <1>3, <1>4, <1>5, <2>1, FramedIs, HeldIs
<1>7. ReadType' /\ SentInv'
  BY <1>1, <1>6, EmptySeq, SentSame DEF ReadInv, ReadType
<1>8. InBounds'
  <2>1. node.len >= 0 => Len(d) <= node.len
    BY DEF ReadInv, InBounds, d
  <2>2. node'.len >= 0 => Len(node'.data) <= node'.len
    BY <1>1, <1>2, <1>3, <1>5, <1>6, <2>1 DEF d
  <2> QED
    BY <1>1, <1>6, <2>2, SentSame DEF ReadInv, InBounds
<1>9. HandlerInv' /\ PostedInv'
  BY <1>1, <1>6 DEF ReadInv, HandlerInv, PostedInv, Whole
<1>10. ASSUME InStep PROVE InProgress' \o (chunk' \o wire') = InProgress \o (chunk \o wire)
  <2> DEFINE h == Header(node.id, node.len)
  <2>1. InProgress = h \o d /\ InProgress' = h \o (d \o chunk)
    BY <1>1, <1>6, ChapterSame DEF InProgress, d
  <2>2. h \in Seq(Byte)
    <3>1. node.len >= 0
      BY <1>10 DEF ReadInv, InBounds, InStep
    <3> QED
      BY <1>3, <3>1, FramedFields, HeaderType
  <2> HIDE DEF h
  <2>3. chunk' \o wire' = wire
    BY <1>1, <1>2, ConcatEmptySeq
  <2>4. (h \o (d \o chunk)) \o wire = (h \o d) \o (chunk \o wire)
    <3>1. h \in Seq(Byte) /\ d \in Seq(Byte) /\ chunk \in Seq(Byte) /\ wire \in Seq(Byte)
      BY <1>2, <1>3, <2>2
    <3>2. Join(Join(h, Join(d, chunk)), wire) = Join(Join(h, d), Join(chunk, wire))
      BY ONLY <3>1, RegroupFour
    <3> QED
      BY ONLY <3>2 DEF Join
  <2> QED
    BY <2>1, <2>3, <2>4
<1>11. StepInv'
  <2> SUFFICES ASSUME InStep'
               PROVE  /\ Len(posted') <= Len(sent')
                      /\ \A i \in 1 .. Len(posted') : posted'[i] = sent'[i]
                      /\ \E rest : /\ rest = Remaining'
                                   /\ InProgress' \o (chunk' \o wire') = Encoded(rest)'
    BY DEF StepInv
  <2>1. InStep /\ reading # "refused"
    BY <1>1, <1>2 DEF InStep
  <2>2. PICK rest : rest = Remaining /\ InProgress \o (chunk \o wire) = Encoded(rest)
    BY <2>1 DEF ReadInv, StepInv
  <2>3. rest = Remaining'
    BY <1>1, <2>2 DEF Remaining
  <2>4. InProgress' \o (chunk' \o wire') = Encoded(rest)'
    BY <1>1, <1>10, <2>1, <2>2, ChapterSame
  <2>5. Len(posted') <= Len(sent') /\ \A i \in 1 .. Len(posted') : posted'[i] = sent'[i]
    BY <1>1, <2>1 DEF ReadInv, StepInv
  <2> QED
    BY <2>3, <2>4, <2>5
<1> QED
  BY <1>7, <1>8, <1>9, <1>11 DEF ReadInv

\* A message that is complete, with the bytes behind it.
LEMMA FinishInv ==
  ASSUME ReadInv, chunk # <<>>,
         NEW id \in TwoBytes, NEW len \in TwoBytes, NEW x \in Seq(Byte),
         NEW data \in Seq(Byte), NEW left \in Seq(Byte),
         len <= BodyLength, Len(data) = len, chapter <= 11 => id = 0,
         InStep => /\ InProgress \o (chunk \o wire) = Header(id, len) \o x
                   /\ len <= Len(x) /\ First(x, len) = data /\ After(x, len) = left \o wire,
         Finish([id |-> id, len |-> len, data |-> data], left)
  PROVE  ReadInv'
<1> DEFINE m == [id |-> id, len |-> len, data |-> data]
<1>1. /\ node' = m /\ posted' = Append(posted, m) /\ head_parse' = FALSE /\ head' = Zeros
      /\ chunk' = left
      /\ IF left = <<>> THEN reading' \in {"dead", "open"} ELSE reading' = reading
      /\ UNCHANGED <<chapter, sent, wire, cur_len, stores, overtaken>>
  BY DEF Finish, StartRead
<1>2. /\ m \in Framed /\ m \in Held /\ Whole(m)
      /\ m.id = id /\ m.len = len /\ m.data = data
      /\ len \in Nat
  BY FramedIs, HeldIs DEF Whole, TwoBytes
<1> HIDE DEF m
<1>3. reading = "none"
  BY DEF ReadInv, HandlerInv
<1>4. posted \in Seq(Framed) /\ Len(posted) \in Nat
  BY LenProperties DEF ReadInv, ReadType
<1>5. /\ posted' \in Seq(Framed) /\ Len(posted') = Len(posted) + 1
      /\ \A i \in 1 .. Len(posted) : posted'[i] = posted[i]
      /\ posted'[Len(posted) + 1] = m
  BY <1>1, <1>2, <1>4, AppendProperties
<1>6. Zeros \in [1 .. HeadLength -> Byte]
  <2>1. 0 \in Byte
    BY ZeroByte
  <2> QED
    BY <2>1 DEF Zeros
<1>7. ReadType' /\ SentInv'
  BY <1>1, <1>2, <1>3, <1>5, <1>6, SentSame DEF ReadInv, ReadType
<1>8. InBounds'
  <2>1. Len(node'.data) <= node'.len /\ node'.len <= BodyLength /\ node'.len >= 0
    BY <1>1, <1>2
  <2>2. reading' # "over"
    BY <1>1, <1>3
  <2> QED
    BY <1>1, <2>1, <2>2, SentSame DEF ReadInv, InBounds
<1>9. HandlerInv'
  <2>1. stores > 0 => overtaken
    BY DEF ReadInv, HandlerInv
  <2> QED
    BY <1>1, <1>2, <1>3, <2>1 DEF ReadInv, HandlerInv
<1>10. PostedInv'
  <2> SUFFICES ASSUME NEW i \in 1 .. Len(posted') PROVE Whole(posted'[i])
    BY DEF PostedInv, Whole
  <2>1. i \in 1 .. Len(posted) \/ i = Len(posted) + 1
    BY <1>4, <1>5
  <2> QED
    BY <1>2, <1>5, <2>1 DEF ReadInv, PostedInv
<1>11. StepInv'
  <2> SUFFICES ASSUME InStep'
               PROVE  /\ Len(posted') <= Len(sent')
                      /\ \A i \in 1 .. Len(posted') : posted'[i] = sent'[i]
                      /\ \E rest : /\ rest = Remaining'
                                   /\ InProgress' \o (chunk' \o wire') = Encoded(rest)'
    BY DEF StepInv
  <2>1. InStep /\ reading # "refused"
    BY <1>1, <1>3 DEF InStep
  <2>2. /\ InProgress \o (chunk \o wire) = Encoded(Remaining)
        /\ Len(posted) <= Len(sent)
        /\ \A i \in 1 .. Len(posted) : posted[i] = sent[i]
    BY <2>1 DEF ReadInv, StepInv
  <2>3. /\ Header(id, len) \o x = Encoded(SubSeq(sent, Len(posted) + 1, Len(sent)))
        /\ len <= Len(x) /\ First(x, len) = data /\ After(x, len) = left \o wire
    BY <2>1, <2>2 DEF Remaining
  <2>4. /\ Len(posted) < Len(sent)
        /\ sent[Len(posted) + 1] = [id |-> id, len |-> len, data |-> First(x, len)]
        /\ After(x, len) = Encoded(SubSeq(sent, Len(posted) + 2, Len(sent)))
    <3>1. ReadType /\ SentInv
      BY DEF ReadInv
    <3> QED
      BY <1>4, <2>2, <2>3, <3>1, Decoded
  <2>5. sent[Len(posted) + 1] = m
    BY <2>3, <2>4 DEF m
  <2>6. Len(sent) \in Nat
    BY LenProperties DEF ReadInv, ReadType
  <2>7. Len(posted') <= Len(sent')
    BY <1>1, <1>4, <1>5, <2>4, <2>6
  <2>8. ASSUME NEW i \in 1 .. Len(posted') PROVE posted'[i] = sent'[i]
    <3>1. i \in 1 .. Len(posted) \/ i = Len(posted) + 1
      BY <1>4, <1>5
    <3> QED
      BY <1>1, <1>5, <2>2, <2>5, <3>1
  <2>9. Remaining' = SubSeq(sent, Len(posted) + 2, Len(sent))
    <3>1. Len(posted') + 1 = Len(posted) + 2
      BY <1>4, <1>5
    <3> QED
      BY <1>1, <3>1 DEF Remaining
  <2>10. InProgress' = <<>>
    <3>1. stores = 0
      BY <2>1 DEF ReadInv, ReadType, HandlerInv, InStep
    <3>2. First(head', 0) = <<>>
      BY SubSeqEmpty DEF First
    <3> QED
      BY <1>1, <2>1, <3>1, <3>2 DEF InProgress, InStep
  <2>11. left \o wire \in Seq(Byte)
    BY SentSame, <1>1, ConcatProperties
  <2>12. InProgress' \o (chunk' \o wire') = left \o wire
    BY <1>1, <2>10, <2>11, ConcatEmptySeq
  <2>13. Encoded(Remaining') = left \o wire
    BY <2>3, <2>4, <2>9
  <2>14. \E rest : rest = Remaining' /\ InProgress' \o (chunk' \o wire') = Encoded(rest)'
    BY <1>1, <2>12, <2>13, ChapterSame
  <2> QED
    BY <2>7, <2>8, <2>14
<1> QED
  BY <1>7, <1>8, <1>9, <1>10, <1>11 DEF ReadInv

LEMMA BodyAtOnceInv ==
  ASSUME ReadInv, BodyAtOnce
  PROVE  ReadInv'
<1> DEFINE data == First(Rest, DataLen)
           left == After(Rest, DataLen)
           x == Rest \o wire
<1>1. /\ HeadComplete /\ Acceptable /\ ~(DataLen < 0) /\ ~(Len(Rest) < DataLen)
      /\ chunk # <<>> /\ ~head_parse
      /\ Finish([id |-> DataId, len |-> DataLen, data |-> data], left)
  BY DEF BodyAtOnce, HeadComplete, FewerThan
<1>2. /\ DataId \in TwoBytes /\ DataLen \in TwoBytes /\ (chapter <= 11 => DataId = 0)
      /\ Rest \in Seq(Byte) /\ Len(Rest) \in Nat
  <2>1. DataLen \in Int /\ DataId >= 0
    BY <1>1, HeadRead, SessionReadAssumption DEF Acceptable
  <2> QED
    BY <1>1, <2>1, HeadRead
<1>3. DataLen \in Nat /\ DataLen \in 0 .. Len(Rest) /\ DataLen <= BodyLength
  BY <1>1, <1>2 DEF TwoBytes, Acceptable
<1>4. wire \in Seq(Byte) /\ Len(wire) \in Nat
  BY LenProperties DEF ReadInv, ReadType
<1>5. /\ data \in Seq(Byte) /\ Len(data) = DataLen /\ left \in Seq(Byte)
  BY ONLY <1>2, <1>3, FirstAfter
<1>6. x \in Seq(Byte) /\ Len(x) = Len(Rest) + Len(wire)
  BY ONLY <1>2, <1>4, ConcatProperties
<1>7. First(x, DataLen) = data /\ After(x, DataLen) = left \o wire
  BY ONLY <1>2, <1>3, <1>4, FrontOfJoin
<1>8. DataLen <= Len(x)
  BY <1>1, <1>2, <1>3, <1>4, <1>6
<1> HIDE DEF data, left
<1>9. ASSUME InStep PROVE InProgress \o (chunk \o wire) = Header(DataId, DataLen) \o x
  <2> DEFINE h == Header(DataId, DataLen)
             r == Rest
  <2>1. InProgress = <<>> /\ chunk = h \o r
    BY <1>1, <1>9, HeadInStep
  <2>2. h \in Seq(Byte) /\ r \in Seq(Byte) /\ wire \in Seq(Byte)
    BY <1>2, <1>4, HeaderType
  <2>3. x = r \o wire
    OBVIOUS
  <2> HIDE DEF h, r, x
  <2>4. (h \o r) \o wire = h \o (r \o wire)
    BY ONLY <2>2, Regroup
  <2>5. h \o (r \o wire) \in Seq(Byte)
    BY <1>6, <2>2, <2>3, ConcatProperties
  <2>6. <<>> \o (h \o (r \o wire)) = h \o (r \o wire)
    BY ONLY <2>5, ConcatEmptySeq
  <2> QED
    BY <2>1, <2>3, <2>4, <2>6 DEF h
<1> HIDE DEF x
<1> QED
  BY <1>1, <1>2, <1>3, <1>5, <1>6, <1>7, <1>8, <1>9, FinishInv

LEMMA BodyEndsInv ==
  ASSUME ReadInv, BodyEnds
  PROVE  ReadInv'
<1> DEFINE d == node.data
           n == MsgRemain
           f == First(chunk, n)
           x == d \o (chunk \o wire)
           data == d \o f
           left == After(chunk, n)
<1>1. /\ chunk # <<>> /\ head_parse /\ ~(n < 0) /\ ~(Len(chunk) < n)
      /\ Finish([node EXCEPT !.data = data], left)
  BY DEF BodyEnds, FewerThan
<1>2. /\ chunk \in Seq(Byte) /\ Len(chunk) \in Nat /\ wire \in Seq(Byte) /\ Len(wire) \in Nat
      /\ node \in Framed /\ Len(d) <= node.len /\ node.len <= BodyLength
      /\ (chapter <= 11 => node.id = 0)
  <2>1. node \in Held /\ node.len \in Int /\ Len(d) \in Nat /\ (node.len >= 0 => node \in Framed)
    BY HeldFields, LenProperties DEF ReadInv, ReadType
  <2>2. node.len >= 0
    BY <1>1, <2>1 DEF MsgRemain
  <2> QED
    BY <2>1, <2>2, LenProperties DEF ReadInv, ReadType, InBounds, HandlerInv
<1>3. /\ node.id \in TwoBytes /\ node.len \in TwoBytes /\ node.len \in Nat
      /\ d \in Seq(Byte) /\ Len(d) \in Nat
      /\ node = [id |-> node.id, len |-> node.len, data |-> d]
  BY <1>2, FramedFields, LenProperties
<1>4. n \in 0 .. Len(chunk) /\ n = node.len - Len(d)
  BY <1>1, <1>2, <1>3 DEF MsgRemain
<1>6. /\ f \in Seq(Byte) /\ Len(f) = n /\ left \in Seq(Byte)
      /\ chunk = f \o left
  <2>1. chunk \in Seq(Byte) /\ n \in 0 .. Len(chunk)
    BY <1>2, <1>4
  <2> HIDE DEF n
  <2> QED
    BY ONLY <2>1, FirstAfter
<1>7. data = d \o f
  OBVIOUS
<1> HIDE DEF n, data, left, f
<1>5. [node EXCEPT !.data = data] = [id |-> node.id, len |-> node.len, data |-> data]
  BY <1>3
<1> HIDE DEF d
<1>8. data \in Seq(Byte) /\ Len(data) = node.len
  <2>1. d \o f \in Seq(Byte) /\ Len(d \o f) = Len(d) + Len(f)
    BY <1>3, <1>6, ConcatProperties
  <2> QED
    BY <1>3, <1>4, <1>6, <1>7, <2>1
<1>9. x = data \o (left \o wire) /\ left \o wire \in Seq(Byte)
  <2>1. (d \o (f \o left)) \o wire = (d \o f) \o (left \o wire)
    <3>1. d \in Seq(Byte) /\ f \in Seq(Byte) /\ left \in Seq(Byte) /\ wire \in Seq(Byte)
      BY <1>2, <1>3, <1>6
    <3>2. Join(Join(d, Join(f, left)), wire) = Join(Join(d, f), Join(left, wire))
      BY ONLY <3>1, RegroupFour
    <3> QED
      BY ONLY <3>2 DEF Join
  <2>2. (d \o chunk) \o wire = d \o (chunk \o wire)
    BY ONLY <1>2, <1>3, Regroup, SMTT(30)
  <2>3. left \o wire \in Seq(Byte)
    BY ONLY <1>2, <1>6, ConcatProperties
  <2> QED
    BY <1>6, <1>7, <2>1, <2>2, <2>3
<1> HIDE DEF x
<1>10. /\ x \in Seq(Byte) /\ Len(x) = Len(data) + Len(left \o wire)
       /\ Len(left \o wire) \in Nat
  <2>1. /\ data \o (left \o wire) \in Seq(Byte)
        /\ Len(data \o (left \o wire)) = Len(data) + Len(left \o wire)
    BY <1>8, <1>9, ConcatProperties
  <2> QED
    BY <1>9, <2>1, LenProperties
<1>11. node.len \in 0 .. Len(x) /\ node.len <= Len(x)
  BY <1>3, <1>8, <1>10
<1>12. First(x, node.len) = data /\ After(x, node.len) = left \o wire
  <2>1. /\ First(x, node.len) \in Seq(Byte) /\ Len(First(x, node.len)) = node.len
        /\ After(x, node.len) \in Seq(Byte)
        /\ x = First(x, node.len) \o After(x, node.len)
    BY <1>10, <1>11, FirstAfter, ZenonT(40)
  <2>2. First(x, node.len) \o After(x, node.len) = data \o (left \o wire)
    BY <1>9, <2>1
  <2> QED
    BY <1>8, <1>9, <2>1, <2>2, SameParts
<1>13. ASSUME InStep
       PROVE  InProgress \o (chunk \o wire) = Header(node.id, node.len) \o x
  <2> DEFINE h == Header(node.id, node.len)
  <2>1. InProgress = h \o d
    BY <1>1 DEF InProgress, d
  <2>2. h \in Seq(Byte) /\ chunk \o wire \in Seq(Byte)
    BY <1>2, <1>3, HeaderType, ConcatProperties
  <2>3. x = d \o (chunk \o wire)
    BY DEF x
  <2> HIDE DEF h
  <2>4. (h \o d) \o (chunk \o wire) = h \o (d \o (chunk \o wire))
    <3> DEFINE c == chunk \o wire
    <3>1. h \in Seq(Byte) /\ d \in Seq(Byte) /\ c \in Seq(Byte)
      BY <1>3, <2>2
    <3> HIDE DEF c
    <3>2. (h \o d) \o c = h \o (d \o c)
      BY ONLY <3>1, Regroup, SMTT(30)
    <3> QED
      BY <3>2 DEF c
  <2> QED
    BY <2>1, <2>3, <2>4 DEF h
<1>14. Finish([id |-> node.id, len |-> node.len, data |-> data], left)
  BY <1>1, <1>5
<1> QED
  BY <1>1, <1>2, <1>3, <1>6, <1>8, <1>10, <1>11, <1>12, <1>13, <1>14, FinishInv DEF d

-----------------------------------------------------------------------------
(* The receiving half of the whole connection.                             *)

LEMMA StreamsAreFramed ==
  ASSUME NEW ms \in Streams
  PROVE  /\ ms \in Seq(Framed)
         /\ \A i \in 1 .. Len(ms) :
              Whole(ms[i]) /\ ms[i].id \in ShortNat /\ ms[i].len \in ShortNat
<1>1. ms \in Seq([id : ShortNat, len : ShortNat, data : Seq(Byte)])
  BY SessionReadAssumption
<1>2. [id : ShortNat, len : ShortNat, data : Seq(Byte)] \subseteq Framed
  <2>1. ShortNat \subseteq TwoBytes
    BY DEF ShortNat, TwoBytes
  <2> QED
    BY <2>1 DEF Framed
<1>3. \A i \in 1 .. Len(ms) : ms[i] \in Framed
  BY <1>1, <1>2, ElementOfSeq
<1>4. ms \in Seq(Framed)
  BY <1>1, <1>3, LenProperties
<1>5. \A i \in 1 .. Len(ms) : Whole(ms[i])
  BY SessionReadAssumption DEF Whole
<1>6. \A i \in 1 .. Len(ms) : ms[i].id \in ShortNat /\ ms[i].len \in ShortNat
  <2> DEFINE M == [id : ShortNat, len : ShortNat, data : Seq(Byte)]
  <2>1. \A m \in M : m.id \in ShortNat /\ m.len \in ShortNat
    OBVIOUS
  <2> HIDE DEF M
  <2>2. ms \in Seq(M)
    BY <1>1 DEF M
  <2>3. \A i \in 1 .. Len(ms) : ms[i] \in M
    BY <2>2, ElementOfSeq
  <2> QED
    BY <2>1, <2>3
<1> QED
  BY <1>4, <1>5, <1>6

LEMMA InitRead ==
  ASSUME Init
  PROVE  ReadInv
<1>1. /\ chapter \in Chapters /\ sent \in Streams /\ wire = Encoded(sent)
      /\ reading = "open" /\ chunk = <<>> /\ head = Zeros /\ cur_len = 0
      /\ node = NoNode /\ head_parse = FALSE /\ stores = 0 /\ overtaken = FALSE
      /\ posted = <<>>
      /\ \A i \in 1 .. Len(sent) : chapter <= 11 <=> sent[i].id = 0
  BY DEF Init
<1>2. chapter \in 8 .. 15 /\ BodyLength \in Nat
  BY <1>1, SessionReadAssumption
<1>3. sent \in Seq(Framed) /\ SentInv /\ wire \in Seq(Byte) /\ Len(sent) \in Nat
  BY <1>1, StreamsAreFramed, EncodingsType, LenProperties DEF SentInv
<1>4. Zeros \in [1 .. HeadLength -> Byte]
  <2>1. 0 \in Byte
    BY ZeroByte
  <2> QED
    BY <2>1 DEF Zeros
<1>5. /\ <<>> \in Seq(Byte) /\ <<>> \in Seq(Framed) /\ Len(<<>>) = 0
  BY EmptySeq
<1>6. /\ NoNode \in Held /\ NoNode.id = 0 /\ NoNode.len = 0 /\ NoNode.data = <<>>
  BY <1>5 DEF NoNode, Held, TwoBytes
<1>7. ReadType
  BY <1>1, <1>2, <1>3, <1>4, <1>5, <1>6 DEF ReadType
<1>8. InBounds
  BY <1>1, <1>2, <1>5, <1>6, HeadLengthIs DEF InBounds
<1>9. PostedInv /\ HandlerInv
  BY <1>1, <1>5, <1>6 DEF PostedInv, HandlerInv
<1>10. StepInv
  <2>1. InProgress = <<>>
    BY <1>1, SubSeqEmpty DEF InProgress, First
  <2>2. chunk \o wire = wire /\ <<>> \o wire = wire
    BY <1>1, <1>3, ConcatEmptySeq
  <2>3. Remaining = sent
    BY <1>1, <1>3, <1>5, SubSeqFull DEF Remaining
  <2> QED
    BY <1>1, <1>3, <1>5, <2>1, <2>2, <2>3 DEF StepInv
<1> QED
  BY <1>3, <1>7, <1>8, <1>9, <1>10 DEF ReadInv

LEMMA HandlersInv ==
  ASSUME ReadInv, Parse \/ Complete
  PROVE  ReadInv'
BY ReadSomeInv, ReadErrorInv, HeadPartInv, HeadRejectedInv, HeadThrowsInv, BodyBeginsInv,
   SetHeadParseInv, BodyPartInv, BodyAtOnceInv, BodyEndsInv, HeapBreaksInv
   DEF Parse, Complete

\* What a step of the connection is.
Echoes ==
  /\ chapter <= 11 /\ sender = "idle" /\ Complete
  /\ \/ chapter = 8 /\ Unlimited!PushNode(Len(posted) + 1)
     \/ Send(Len(posted) + 1)
  /\ UNCHANGED logicVars
HandsOn == chapter >= 12 /\ Complete /\ L!Post(Len(posted) + 1) /\ UNCHANGED sendVars
AnswersNext ==
  /\ chapter >= 12 /\ worker = "process" /\ sender = "idle"
  /\ UNCHANGED readVars
  /\ L!Process
  /\ IF Answered(posted[inHand[1]]) THEN Send(inHand[1]) ELSE UNCHANGED sendVars
WriteHandled ==
  /\ UNCHANGED <<readVars, logicVars>>
  /\ \E w \in writes :
       \/ S!HandleWrite(w)
       \/ S!HandleWriteError(w)
       \/ writes' = writes \ {w} /\ UNCHANGED <<send_queue, sender, closed, accepted, dropped, out>>
Stutters == UNCHANGED <<readVars, logicVars, sendVars>>

LEMMA StepsAre ==
  ASSUME [FramedNext]_allVars, chapter \in 8 .. 15
  PROVE  \/ Parses \/ Echoes \/ HandsOn
         \/ chapter >= 12 /\ Works
         \/ AnswersNext \/ StartsWrite \/ Writes \/ WriteHandled \/ Stutters
<1>1. CASE Starts
  <2>1. UNCHANGED <<readVars, logicVars, sendVars>>
    BY <1>1
       DEF Starts, Start, Start8, Start9, Start10, Start11, Start12, Start13, Start14, Start15
  <2> QED
    BY <2>1 DEF Stutters
<1>2. CASE ReadHandlers
  <2>1. \/ Parses
        \/ chapter <= 11 /\ SendsBack
        \/ chapter >= 12 /\ PostsToLogic
    BY <1>2 DEF ReadHandlers, HandleRead8, HandleRead9, HandleRead10, HandleRead11,
                HandleRead12, HandleRead13, HandleRead14, HandleRead15
  <2>2. ASSUME chapter <= 11, SendsBack PROVE Echoes
    <3>1. sender = "idle" /\ Complete /\ UNCHANGED logicVars
      BY <2>2 DEF SendsBack, Free
    <3>2. \/ Send8(Len(posted) + 1) \/ Send9(Len(posted) + 1)
          \/ Send10(Len(posted) + 1) \/ Send11(Len(posted) + 1)
      BY <2>2 DEF SendsBack
    <3> QED
      BY <2>2, <3>1, <3>2 DEF Echoes, Send8, Send9, Send10, Send11
  <2>3. ASSUME chapter >= 12, PostsToLogic PROVE HandsOn
    BY <2>3 DEF PostsToLogic, HandsOn, Post12, Post13, Post14, Post15
  <2> QED
    BY <2>1, <2>2, <2>3
<1>3. CASE Workers
  <2>1. chapter >= 12 /\ (Works \/ Answers)
    BY <1>3 DEF Workers, Worker12, Worker13, Worker14, Worker15
  <2>2. ASSUME Answers PROVE AnswersNext
    <3>1. /\ worker = "process" /\ sender = "idle" /\ UNCHANGED <<readVars, closed>>
          /\ L!Process
      BY <2>2 DEF Answers
    <3>2. IF Answered(posted[inHand[1]])
            THEN \/ Send12(inHand[1]) \/ Send13(inHand[1])
                 \/ Send14(inHand[1]) \/ Send15(inHand[1])
            ELSE UNCHANGED sendVars
      BY <2>2 DEF Answers
    <3> QED
      BY <2>1, <3>1, <3>2 DEF AnswersNext, Send12, Send13, Send14, Send15
  <2> QED
    BY <2>1, <2>2
<1>4. CASE WriteHandlers
  <2>1. CASE HandleWrite8
    BY <2>1 DEF HandleWrite8, WriteHandled
  <2>2. CASE HandleWrite
    BY <2>2 DEF HandleWrite, WriteHandled
  <2> QED
    BY <1>4, <2>1, <2>2
       DEF WriteHandlers, HandleWrite9, HandleWrite10, HandleWrite11, HandleWrite12,
           HandleWrite13, HandleWrite14, HandleWrite15
<1>5. CASE UNCHANGED allVars
  BY <1>5 DEF allVars, Stutters
<1> QED
  BY <1>1, <1>2, <1>3, <1>4, <1>5 DEF FramedNext, InProgram, Runs

LEMMA ReadSteps ==
  ASSUME ReadInv, [FramedNext]_allVars
  PROVE  ReadInv'
<1>1. \/ Parse \/ Complete \/ UNCHANGED readVars
  <2>1. chapter \in 8 .. 15
    BY DEF ReadInv, ReadType
  <2>2. Parses => Parse
    BY DEF Parses
  <2>3. Echoes \/ HandsOn => Complete
    BY DEF Echoes, HandsOn
  <2>4. Works \/ AnswersNext \/ StartsWrite \/ Writes \/ WriteHandled \/ Stutters
          => UNCHANGED readVars
    BY DEF Works, AnswersNext, StartsWrite, Writes, WriteHandled, Stutters
  <2> QED
    BY <2>1, <2>2, <2>3, <2>4, StepsAre
<1> QED
  BY <1>1, HandlersInv, UnchangedRead

LEMMA FramedRead == FramedSpec => []ReadInv
<1>1. FramedInit => ReadInv
  <2>1. FramedInit => Init
    BY DEF FramedInit, New, Session8, Session9, Session10, Session11, Session12,
           Session13, Session14, Session15
  <2> QED
    BY <2>1, InitRead
<1>2. ReadInv /\ [FramedNext]_allVars => ReadInv'
  BY ReadSteps
<1> QED
  BY <1>1, <1>2, PTL DEF FramedSpec

\* The receiving half alone, with a Close that comes from anywhere.
LEMMA SessionReads ==
  Spec => []ReadInv
<1>1. Init => ReadInv
  BY InitRead
<1>2. ASSUME ReadInv, [Next]_vars PROVE ReadInv'
  <2>1. CloseElsewhere \/ UNCHANGED vars => UNCHANGED readVars
    BY DEF CloseElsewhere, vars, readVars
  <2>2. ReadSome \/ ReadError \/ HandleRead \/ HeapBreaks => Parse \/ Complete
    BY DEF HandleRead, Parse, Complete
  <2> QED
    BY <1>2, <2>1, <2>2, HandlersInv, UnchangedRead DEF Next
<1> QED
  BY <1>1, <1>2, PTL DEF Spec

-----------------------------------------------------------------------------
(* What it gives.                                                          *)

LEMMA InProgressType ==
  ASSUME ReadInv, InStep
  PROVE  InProgress \in Seq(Byte)
<1>1. CASE head_parse \/ stores > 0
  <2>1. node \in Framed
    BY HeldFields DEF ReadInv, ReadType, InBounds, InStep
  <2>2. /\ Header(node.id, node.len) \in Seq(Byte) /\ node.data \in Seq(Byte)
    BY <2>1, FramedFields, HeaderType
  <2> QED
    BY <1>1, <2>2, ConcatProperties DEF InProgress
<1>2. CASE ~(head_parse \/ stores > 0)
  <2>1. /\ cur_len \in Nat /\ cur_len < HeadLength /\ HeadLength \in Nat
        /\ head \in [1 .. HeadLength -> Byte]
    BY HeadLengthIs DEF ReadInv, ReadType, InBounds
  <2>2. \A i \in 1 .. cur_len : head[i] \in Byte
    BY <2>1
  <2>3. SubSeq(head, 1, cur_len) \in Seq(Byte)
    BY <2>1, <2>2, SubSeqProperties
  <2> QED
    BY <1>2, <2>3 DEF InProgress, First
<1> QED
  BY <1>1, <1>2

LEMMA AccountsInStep ==
  ASSUME ReadInv, cur_len = 0, ~overtaken, reading # "refused"
  PROVE  Encoded(posted) \o InProgress \o chunk \o wire = Encoded(sent)
<1> DEFINE k == Len(posted)
           rest == SubSeq(sent, k + 1, Len(sent))
<1>1. /\ k \in Nat /\ k <= Len(sent) /\ Len(sent) \in Nat
      /\ posted \in Seq(Framed) /\ sent \in Seq(Framed)
      /\ \A i \in 1 .. k : posted[i] = sent[i]
      /\ InProgress \o (chunk \o wire) = Encoded(rest)
      /\ chunk \in Seq(Byte) /\ wire \in Seq(Byte)
  BY LenProperties DEF ReadInv, ReadType, StepInv, InStep, Remaining
<1>2. /\ First(sent, k) \in Seq(Framed) /\ Len(First(sent, k)) = k
      /\ rest \in Seq(Framed)
      /\ \A i \in 1 .. k : First(sent, k)[i] = sent[i]
      /\ sent = First(sent, k) \o rest
  <2>1. k \in 0 .. Len(sent)
    BY <1>1
  <2>2. rest = After(sent, k)
    BY DEF After
  <2> HIDE DEF k, rest
  <2> QED
    BY <1>1, <2>1, <2>2, FirstAfter, ZenonT(40)
<1>3. posted = First(sent, k)
  <2>1. \A i \in 1 .. Len(posted) : posted[i] = First(sent, k)[i]
    BY <1>1, <1>2
  <2> QED
    BY <1>1, <1>2, <2>1, SeqEqual
<1>4. Encoded(sent) = Encoded(posted) \o Encoded(rest)
  <2> HIDE DEF rest
  <2>1. sent = posted \o rest
    BY <1>2, <1>3
  <2> QED
    BY <1>1, <1>2, <2>1, EncodedConcat
<1> DEFINE p == Encoded(posted)
           g == InProgress
           c == chunk
           w == wire
<1>5. p \in Seq(Byte) /\ g \in Seq(Byte) /\ c \in Seq(Byte) /\ w \in Seq(Byte)
  BY <1>1, EncodingsType, InProgressType DEF InStep
<1>6. Encoded(sent) = p \o (g \o (c \o w))
  BY <1>1, <1>4
<1> HIDE DEF p, g, c, w
<1>7. ((p \o g) \o c) \o w = p \o (g \o (c \o w))
  <2>1. Join(Join(Join(p, g), c), w) = Join(p, Join(g, Join(c, w)))
    BY ONLY <1>5, RegroupLeft
  <2> QED
    BY ONLY <2>1 DEF Join
<1> QED
  BY <1>6, <1>7 DEF p, g, c, w

\* No copy of handle_read leaves the header node or a message node that has a
\* buffer, for any bytes in any pieces, in step or not; and until a header has
\* arrived in two pieces, or a thread of 15 has overtaken another, none is read
\* with a negative length, so that every node has a buffer and no allocation
\* throws (Session.cc of 15, lines 81-168).
THEOREM ReadsInBounds == Spec => []InBounds
<1>1. ReadInv => InBounds
  BY DEF ReadInv
<1> QED
  BY <1>1, SessionReads, PTL

\* The same of the whole server, where the logic layer and the sending half take
\* their turns between the handlers (Session.cc 73-206).
THEOREM FramedInBounds == FramedSpec => []InBounds
<1>1. ReadInv => InBounds
  BY DEF ReadInv
<1> QED
  BY <1>1, FramedRead, PTL

\* Every byte of a stream that is read in step is in exactly one place.
THEOREM ReadsEveryByte == Spec => []StreamAccounted
<1>1. ReadInv => StreamAccounted
  BY AccountsInStep DEF StreamAccounted
<1> QED
  BY <1>1, SessionReads, PTL

\* The same of the whole server, until its session is closed.
THEOREM FramedEveryByte == FramedSpec => []StreamAccounted
<1>1. ReadInv => StreamAccounted
  BY AccountsInStep DEF StreamAccounted
<1> QED
  BY <1>1, FramedRead, PTL

-----------------------------------------------------------------------------
(* Answers cut into the pieces the kernel takes.                           *)

Piece == Nat \X Nat
PiecedAll(q) == [i \in 1 .. Len(q) |-> Pieced(q[i])]
Wholes(q) == FlattenSeq(PiecedAll(q))

LEMMA PiecedType ==
  ASSUME NEW i \in Nat
  PROVE  /\ Pieces \in Nat /\ Pieces > 0
         /\ Pieced(i) \in Seq(Piece) /\ Len(Pieced(i)) = Pieces
         /\ \A p \in 1 .. Pieces : Pieced(i)[p] = <<i, p>>
<1>1. Pieces \in Nat /\ Pieces > 0
  BY FramedServerAssumption
<1>2. \A p \in 1 .. Pieces : <<i, p>> \in Piece
  BY <1>1 DEF Piece
<1> QED
  BY <1>1, <1>2 DEF Pieced

LEMMA PiecedAllType ==
  ASSUME NEW q \in Seq(Nat)
  PROVE  /\ PiecedAll(q) \in Seq(Seq(Piece)) /\ Len(PiecedAll(q)) = Len(q)
         /\ Wholes(q) \in Seq(Piece)
<1>1. Len(q) \in Nat /\ \A i \in 1 .. Len(q) : q[i] \in Nat
  BY LenProperties, ElementOfSeq
<1>2. \A i \in 1 .. Len(q) : Pieced(q[i]) \in Seq(Piece)
  BY <1>1, PiecedType
<1>3. PiecedAll(q) \in Seq(Seq(Piece)) /\ Len(PiecedAll(q)) = Len(q)
  BY <1>1, <1>2 DEF PiecedAll
<1> QED
  BY <1>3, FlattenType DEF Wholes

LEMMA WholesEmpty == Wholes(<<>>) = <<>>
<1>1. PiecedAll(<<>>) = <<>>
  BY DEF PiecedAll
<1> QED
  BY <1>1, FlattenEmpty DEF Wholes

LEMMA WholesAppend ==
  ASSUME NEW q \in Seq(Nat), NEW m \in Nat
  PROVE  Wholes(Append(q, m)) = Wholes(q) \o Pieced(m)
<1> DEFINE t == Append(q, m)
           a == PiecedAll(q)
           b == PiecedAll(t)
           c == Append(a, Pieced(m))
<1>1. /\ Len(q) \in Nat /\ t \in Seq(Nat) /\ Len(t) = Len(q) + 1 /\ t[Len(q) + 1] = m
      /\ \A i \in 1 .. Len(q) : t[i] = q[i]
  BY LenProperties, AppendProperties
<1> HIDE DEF t
<1>2. /\ a \in Seq(Seq(Piece)) /\ Len(a) = Len(q)
      /\ b \in Seq(Seq(Piece)) /\ Len(b) = Len(q) + 1
      /\ Pieced(m) \in Seq(Piece)
  BY <1>1, PiecedAllType, PiecedType
<1>3. /\ \A i \in 1 .. Len(q) : a[i] = Pieced(q[i])
      /\ \A i \in 1 .. Len(q) + 1 : b[i] = Pieced(t[i])
  BY <1>1 DEF PiecedAll
<1> HIDE DEF a, b
<1>4. /\ c \in Seq(Seq(Piece)) /\ Len(c) = Len(q) + 1 /\ c[Len(q) + 1] = Pieced(m)
      /\ \A i \in 1 .. Len(q) : c[i] = a[i]
  BY <1>2, AppendProperties
<1> HIDE DEF c
<1>5. \A i \in 1 .. Len(b) : b[i] = c[i]
  <2> SUFFICES ASSUME NEW i \in 1 .. Len(b) PROVE b[i] = c[i]
    OBVIOUS
  <2>1. i \in 1 .. Len(q) \/ i = Len(q) + 1
    BY <1>1, <1>2
  <2>2. i \in 1 .. Len(q) + 1 /\ b[i] = Pieced(t[i])
    BY <1>2, <1>3
  <2>3. i \in 1 .. Len(q) => b[i] = c[i]
    BY <1>1, <1>3, <1>4, <2>2
  <2>4. i = Len(q) + 1 => b[i] = c[i]
    BY <1>1, <1>4, <2>2
  <2> QED
    BY <2>1, <2>3, <2>4
<1>6. b = c
  BY <1>2, <1>4, <1>5, SeqEqual
<1>7. FlattenSeq(Append(a, Pieced(m))) = FlattenSeq(a) \o Pieced(m)
  BY <1>2, FlattenAppend
<1> QED
  BY <1>6, <1>7 DEF Wholes, a, b, c, t

LEMMA WholesHead ==
  ASSUME NEW q \in Seq(Nat), q # <<>>
  PROVE  /\ Head(q) \in Nat /\ Tail(q) \in Seq(Nat)
         /\ Wholes(q) = Pieced(Head(q)) \o Wholes(Tail(q))
<1> DEFINE t == Tail(q)
           a == PiecedAll(q)
           b == PiecedAll(t)
<1>1. /\ Head(q) \in Nat /\ t \in Seq(Nat) /\ Len(q) \in Nat /\ Len(q) # 0
      /\ Len(t) = Len(q) - 1 /\ Head(q) = q[1]
      /\ \A i \in 1 .. Len(t) : t[i] = q[i + 1]
  BY HeadTailProperties, LenProperties, EmptySeq
<1> HIDE DEF t
<1>2. /\ a \in Seq(Seq(Piece)) /\ Len(a) = Len(q)
      /\ b \in Seq(Seq(Piece)) /\ Len(b) = Len(q) - 1
  BY <1>1, PiecedAllType
<1>3. /\ \A i \in 1 .. Len(q) : a[i] = Pieced(q[i])
      /\ \A i \in 1 .. Len(t) : b[i] = Pieced(t[i])
  BY DEF PiecedAll
<1> HIDE DEF a, b
<1>4. a # <<>>
  BY <1>1, <1>2, EmptySeq
<1>5. /\ Head(a) = a[1] /\ Tail(a) \in Seq(Seq(Piece)) /\ Len(Tail(a)) = Len(a) - 1
      /\ \A i \in 1 .. Len(Tail(a)) : Tail(a)[i] = a[i + 1]
  BY <1>2, <1>4, HeadTailProperties
<1>6. Head(a) = Pieced(Head(q))
  BY <1>1, <1>3, <1>5
<1>7. Tail(a) = b
  <2>1. \A i \in 1 .. Len(b) : Tail(a)[i] = b[i]
    <3> SUFFICES ASSUME NEW i \in 1 .. Len(b) PROVE Tail(a)[i] = b[i]
      OBVIOUS
    <3>1. i \in 1 .. Len(t) /\ i \in 1 .. Len(Tail(a)) /\ i + 1 \in 1 .. Len(q)
      BY <1>1, <1>2, <1>5
    <3> QED
      BY <1>1, <1>3, <1>5, <3>1
  <2>2. Len(Tail(a)) = Len(b)
    BY <1>2, <1>5
  <2> QED
    BY <1>2, <1>5, <2>1, <2>2, SeqEqual
<1>8. FlattenSeq(a) = Head(a) \o FlattenSeq(Tail(a))
  BY <1>2, <1>4, FlattenHead
<1> QED
  BY <1>1, <1>6, <1>7, <1>8 DEF Wholes, a, b, t

\* What is owed first is the front of the queue.
LEMMA FrontOwed ==
  ASSUME NEW q \in Seq(Nat), q # <<>>
  PROVE  /\ Wholes(q) \in Seq(Piece) /\ Len(Wholes(q)) \in Nat /\ Pieces <= Len(Wholes(q))
         /\ Pieces \in Nat /\ Pieces > 0
         /\ After(Wholes(q), Pieces) = Wholes(Tail(q))
         /\ \A p \in 1 .. Pieces : Wholes(q)[p] = <<Head(q), p>>
<1> DEFINE f == Pieced(Head(q))
           r == Wholes(Tail(q))
           w == Wholes(q)
<1>1. Head(q) \in Nat /\ Tail(q) \in Seq(Nat) /\ w = f \o r
  BY WholesHead
<1>2. /\ f \in Seq(Piece) /\ Len(f) = Pieces /\ Pieces \in Nat /\ Pieces > 0
      /\ \A p \in 1 .. Pieces : f[p] = <<Head(q), p>>
  BY <1>1, PiecedType
<1>3. r \in Seq(Piece) /\ w \in Seq(Piece)
  BY <1>1, PiecedAllType
<1> HIDE DEF f, r, w
<1>4. /\ Len(f \o r) = Len(f) + Len(r) /\ Len(r) \in Nat
      /\ \A i \in 1 .. Len(f) + Len(r) :
           (f \o r)[i] = IF i <= Len(f) THEN f[i] ELSE r[i - Len(f)]
  BY <1>2, <1>3, ConcatProperties, LenProperties
<1>5. Len(w) \in Nat /\ Pieces <= Len(w) /\ Pieces \in 0 .. Len(w)
  BY <1>1, <1>2, <1>4
<1>6. After(w, Pieces) = r
  <2>1. /\ First(w, Pieces) \in Seq(Piece) /\ Len(First(w, Pieces)) = Pieces
        /\ After(w, Pieces) \in Seq(Piece) /\ w = First(w, Pieces) \o After(w, Pieces)
    BY ONLY <1>3, <1>5, FirstAfter
  <2>2. First(w, Pieces) \o After(w, Pieces) = f \o r
    BY <1>1, <2>1
  <2> QED
    BY <1>2, <1>3, <2>1, <2>2, SameParts
<1>7. \A p \in 1 .. Pieces : w[p] = <<Head(q), p>>
  <2> SUFFICES ASSUME NEW p \in 1 .. Pieces PROVE w[p] = f[p]
    BY <1>2
  <2>1. p \in 1 .. Len(f) + Len(r) /\ p <= Len(f)
    BY <1>2, <1>4
  <2> QED
    BY <1>1, <1>4, <2>1
<1> QED
  BY <1>2, <1>3, <1>5, <1>6, <1>7 DEF r, w

LEMMA NextOne ==
  ASSUME NEW E, NEW s \in Seq(E), NEW k \in Nat, k < Len(s)
  PROVE  /\ After(s, k) = <<s[k + 1]>> \o After(s, k + 1)
         /\ After(s, k + 1) \in Seq(E) /\ s[k + 1] \in E
<1>1. /\ Len(s) \in Nat /\ k + 1 \in 1 .. Len(s) /\ Len(s) \in k + 1 .. Len(s)
      /\ k + 1 \in 0 .. Len(s)
  BY LenProperties
<1>2. SubSeq(s, k + 1, Len(s)) = <<s[k + 1]>> \o SubSeq(s, k + 1 + 1, Len(s))
  BY <1>1, SubSeqRecursiveFirst
<1>3. After(s, k + 1) \in Seq(E) /\ s[k + 1] \in E
  BY <1>1, FirstAfter, ElementOfSeq
<1> QED
  BY <1>2, <1>3 DEF After

-----------------------------------------------------------------------------
(* The invariant of the sending half.                                      *)

\* How many of the complete messages have been answered, and the answers.
Done == IF chapter <= 11 THEN Len(posted) ELSE Len(handled)
Replies == [i \in 1 .. Done |-> Reply(i, posted[i])]

\* Of the front of the queue k pieces have been written: with what is still
\* owed they make all answers given so far.
Written(k) ==
  /\ \A w \in writes : w.sent = k
  /\ sender = "start" \/ send_queue = <<>> => k = 0
  /\ out \o After(Wholes(send_queue), k) = FlattenSeq(Replies)

SendInv ==
  /\ send_queue \in Seq(Nat) /\ out \in Seq(Piece)
  /\ \A v, w \in writes : v = w
  /\ sender = "start" => writes = {} /\ send_queue # <<>>
  /\ \A w \in writes :
       /\ send_queue # <<>>
       /\ w \in [msg : Nat, sent : 0 .. Pieces, failed : BOOLEAN]
       /\ w.msg = Head(send_queue)
  /\ \E k \in 0 .. Pieces : Written(k)

LEMMA SendUnchanged ==
  ASSUME SendInv, UNCHANGED <<send_queue, sender, writes, out>>,
         FlattenSeq(Replies') = FlattenSeq(Replies)
  PROVE  SendInv'
<1>1. PICK k \in 0 .. Pieces : Written(k)
  BY DEF SendInv
<1>2. Written(k)'
  BY <1>1 DEF Written
<1> QED
  BY <1>2 DEF SendInv

\* How far the front has been written is at most all of it.
LEMMA WrittenIn ==
  ASSUME SendInv, NEW k \in 0 .. Pieces, Written(k)
  PROVE  k \in Nat /\ k \in 0 .. Len(Wholes(send_queue)) /\ Wholes(send_queue) \in Seq(Piece)
<1>1. send_queue \in Seq(Nat) /\ Pieces \in Nat
  BY FramedServerAssumption DEF SendInv
<1>2. Wholes(send_queue) \in Seq(Piece) /\ Len(Wholes(send_queue)) \in Nat
  BY <1>1, PiecedAllType, LenProperties
<1>3. CASE send_queue = <<>>
  BY <1>1, <1>2, <1>3 DEF Written
<1>4. CASE send_queue # <<>>
  BY <1>1, <1>2, <1>4, FrontOwed
<1> QED
  BY <1>1, <1>2, <1>3, <1>4

\* Send accepts an answer.
LEMMA PushInv ==
  ASSUME SendInv, sender = "idle", NEW m \in Nat,
         send_queue' = Append(send_queue, m),
         sender' = IF send_queue = <<>> THEN "start" ELSE "idle",
         UNCHANGED <<writes, out>>,
         FlattenSeq(Replies') = FlattenSeq(Replies) \o Pieced(m)
  PROVE  SendInv'
<1> DEFINE q == send_queue
           r == Append(send_queue, m)
<1>1. q \in Seq(Nat) /\ out \in Seq(Piece)
  BY DEF SendInv
<1>2. r \in Seq(Nat) /\ r # <<>> /\ Wholes(r) = Wholes(q) \o Pieced(m)
  <2>1. r \in Seq(Nat) /\ Len(r) = Len(q) + 1 /\ Len(q) \in Nat
    BY <1>1, AppendProperties, LenProperties
  <2>2. r # <<>>
    BY <2>1, EmptySeq
  <2> QED
    BY <1>1, <2>1, <2>2, WholesAppend
<1>3. q # <<>> => Head(r) = Head(q)
  <2> SUFFICES ASSUME q # <<>> PROVE Head(r) = Head(q)
    OBVIOUS
  <2>1. Len(q) \in Nat /\ Len(q) # 0 /\ Head(q) = q[1]
    BY <1>1, LenProperties, EmptySeq, HeadTailProperties
  <2>2. Head(r) = r[1]
    BY <1>2, HeadTailProperties
  <2>3. 1 \in 1 .. Len(q)
    BY <2>1
  <2>4. r[1] = q[1]
    BY <1>1, <2>3, AppendProperties
  <2> QED
    BY <2>1, <2>2, <2>4
<1>4. PICK k \in 0 .. Pieces : Written(k)
  BY DEF SendInv
<1>5. /\ k \in Nat /\ k \in 0 .. Len(Wholes(q)) /\ Wholes(q) \in Seq(Piece)
      /\ Pieced(m) \in Seq(Piece)
  BY <1>4, WrittenIn, PiecedType
<1>6. /\ After(Wholes(q) \o Pieced(m), k) = After(Wholes(q), k) \o Pieced(m)
      /\ After(Wholes(q), k) \in Seq(Piece)
  <2> DEFINE s == Wholes(q)
             p == Pieced(m)
  <2>1. s \in Seq(Piece) /\ p \in Seq(Piece) /\ k \in 0 .. Len(s)
    BY <1>5
  <2> HIDE DEF s, p
  <2>2. After(s \o p, k) = After(s, k) \o p
    BY ONLY <2>1, FrontOfJoin
  <2>3. After(s, k) \in Seq(Piece)
    BY ONLY <2>1, FirstAfter
  <2> QED
    BY <2>2, <2>3 DEF s, p
<1>7. out \o (After(Wholes(q), k) \o Pieced(m)) = FlattenSeq(Replies) \o Pieced(m)
  <2> DEFINE a == After(Wholes(q), k)
             p == Pieced(m)
             o == out
  <2>1. a \in Seq(Piece) /\ p \in Seq(Piece) /\ o \in Seq(Piece)
    BY <1>1, <1>5, <1>6
  <2>2. o \o a = FlattenSeq(Replies)
    BY <1>4 DEF Written
  <2> HIDE DEF a, p, o
  <2>3. (o \o a) \o p = o \o (a \o p)
    BY ONLY <2>1, Regroup, SMTT(30)
  <2>4. o \o (a \o p) = FlattenSeq(Replies) \o p
    BY <2>2, <2>3
  <2> QED
    BY <2>4 DEF a, p, o
<1>8. sender' = "start" => writes = {} /\ k = 0
  BY <1>4 DEF SendInv, Written
<1>9. Written(k)'
  <2>1. out' \o After(Wholes(send_queue'), k) = FlattenSeq(Replies')
    BY <1>2, <1>6, <1>7
  <2>2. \A w \in writes' : w.sent = k
    BY <1>4 DEF Written
  <2>3. sender' = "start" \/ send_queue' = <<>> => k = 0
    BY <1>2, <1>8
  <2> QED
    BY <2>1, <2>2, <2>3 DEF Written
<1>10. \A w \in writes' :
         /\ send_queue' # <<>>
         /\ w \in [msg : Nat, sent : 0 .. Pieces, failed : BOOLEAN]
         /\ w.msg = Head(send_queue')
  BY <1>2, <1>3 DEF SendInv
<1> QED
  BY <1>1, <1>2, <1>8, <1>9, <1>10 DEF SendInv

\* The rest of Send.
LEMMA StartWriteInv ==
  ASSUME SendInv, StartsWrite
  PROVE  SendInv'
<1>1. /\ sender = "start" /\ sender' = "idle"
      /\ writes' = writes \cup {S!Begin(send_queue)}
      /\ UNCHANGED <<send_queue, out>>
      /\ UNCHANGED <<chapter, posted, handled, dropped>>
  BY DEF StartsWrite, S!StartWrite, readVars, logicVars
<1>2. writes = {} /\ send_queue # <<>> /\ send_queue \in Seq(Nat)
  BY <1>1 DEF SendInv
<1> DEFINE w == [msg |-> Head(send_queue), sent |-> 0, failed |-> FALSE]
<1>3. writes' = {w}
  BY <1>1, <1>2 DEF S!Begin
<1>4. Head(send_queue) \in Nat /\ Pieces \in Nat
  BY <1>2, WholesHead, FramedServerAssumption
<1>5. w \in [msg : Nat, sent : 0 .. Pieces, failed : BOOLEAN]
      /\ w.msg = Head(send_queue) /\ w.sent = 0
  BY <1>4
<1>6. Replies' = Replies
  BY <1>1 DEF Replies, Done, Reply, Answered
<1>7. PICK k \in 0 .. Pieces : Written(k)
  BY DEF SendInv
<1>8. k = 0
  BY <1>1, <1>7 DEF Written
<1> HIDE DEF w
<1>9. Written(k)'
  <2>1. \A v \in writes' : v.sent = k
    BY <1>3, <1>5, <1>8
  <2>2. out' \o After(Wholes(send_queue'), k) = FlattenSeq(Replies')
    BY <1>1, <1>6, <1>7 DEF Written
  <2> QED
    BY <1>8, <2>1, <2>2 DEF Written
<1>10. \A v \in writes' :
         /\ send_queue' # <<>>
         /\ v \in [msg : Nat, sent : 0 .. Pieces, failed : BOOLEAN]
         /\ v.msg = Head(send_queue')
  BY <1>1, <1>2, <1>3, <1>5
<1> QED
  BY <1>1, <1>2, <1>3, <1>9, <1>10 DEF SendInv

\* The kernel.
LEMMA WritesInv ==
  ASSUME SendInv, Writes
  PROVE  SendInv'
<1>1. UNCHANGED <<chapter, posted, handled>>
  BY DEF Writes, readVars, logicVars
<1>2. PICK w \in writes : S!WriteSome(w) \/ S!WriteFails(w)
  BY DEF Writes
<1>3. PICK k \in 0 .. Pieces : Written(k)
  BY DEF SendInv
<1>4. /\ send_queue # <<>> /\ send_queue \in Seq(Nat) /\ out \in Seq(Piece)
      /\ w \in [msg : Nat, sent : 0 .. Pieces, failed : BOOLEAN]
      /\ w.msg = Head(send_queue) /\ w.sent = k
      /\ writes = {w} /\ sender # "start"
  BY <1>2, <1>3 DEF SendInv, Written
<1>5. CASE S!WriteFails(w)
  <2> DEFINE v == [w EXCEPT !.failed = TRUE]
  <2>1. writes' = {v} /\ UNCHANGED <<send_queue, sender, out, dropped>>
    BY <1>4, <1>5 DEF S!WriteFails
  <2>2. /\ v \in [msg : Nat, sent : 0 .. Pieces, failed : BOOLEAN]
        /\ v.msg = Head(send_queue) /\ v.sent = k
    BY <1>4
  <2> HIDE DEF v
  <2>3. Replies' = Replies
    BY <1>1, <2>1 DEF Replies, Done, Reply, Answered
  <2>4. Written(k)'
    BY <1>3, <2>1, <2>2, <2>3 DEF Written
  <2> QED
    BY <1>4, <2>1, <2>2, <2>4 DEF SendInv
<1>6. CASE S!WriteSome(w)
  <2> DEFINE v == [w EXCEPT !.sent = @ + 1]
             x == <<w.msg, w.sent + 1>>
  <2>1. /\ writes' = {v} /\ UNCHANGED <<send_queue, sender, dropped>>
        /\ out' = Append(out, x) /\ w.sent < Pieces
    BY <1>4, <1>6 DEF S!WriteSome
  <2>2. k \in Nat /\ k < Pieces /\ k + 1 \in 0 .. Pieces /\ k + 1 \in 1 .. Pieces
    BY <1>4, <2>1, FramedServerAssumption
  <2>3. /\ v \in [msg : Nat, sent : 0 .. Pieces, failed : BOOLEAN]
        /\ v.msg = Head(send_queue) /\ v.sent = k + 1
    BY <1>4, <2>2
  <2>4. x = <<Head(send_queue), k + 1>>
    BY <1>4
  <2> HIDE DEF v, x
  <2>5. Replies' = Replies
    BY <1>1, <2>1 DEF Replies, Done, Reply, Answered
  <2> DEFINE s == Wholes(send_queue)
             a == After(s, k + 1)
  <2>6. s \in Seq(Piece) /\ k < Len(s) /\ s[k + 1] = x
    <3>1. /\ s \in Seq(Piece) /\ Len(s) \in Nat /\ Pieces <= Len(s) /\ Pieces \in Nat
          /\ \A p \in 1 .. Pieces : s[p] = <<Head(send_queue), p>>
      BY <1>4, FrontOwed
    <3> QED
      BY <2>2, <2>4, <3>1
  <2> HIDE DEF s
  <2>7. After(s, k) = <<x>> \o a /\ a \in Seq(Piece) /\ x \in Piece
    BY <2>2, <2>6, NextOne
  <2> HIDE DEF a
  <2>8. out' = out \o <<x>> /\ out' \in Seq(Piece) /\ <<x>> \in Seq(Piece)
    BY <1>4, <2>1, <2>7, AppendIsConcat, AppendProperties
  <2>9. (out \o <<x>>) \o a = out \o (<<x>> \o a)
    <3> DEFINE o == out
               y == <<x>>
    <3>1. o \in Seq(Piece) /\ y \in Seq(Piece) /\ a \in Seq(Piece)
      BY <1>4, <2>7, <2>8
    <3> HIDE DEF o, y
    <3>2. (o \o y) \o a = o \o (y \o a)
      BY ONLY <3>1, Regroup
    <3> QED
      BY <3>2 DEF o, y
  <2>10. out \o After(s, k) = FlattenSeq(Replies)
    BY <1>3 DEF Written, s
  <2>11. out' \o After(Wholes(send_queue'), k + 1) = FlattenSeq(Replies')
    <3>1. out' \o a = FlattenSeq(Replies)
      BY <2>7, <2>8, <2>9, <2>10
    <3> QED
      BY <2>1, <2>5, <3>1 DEF a, s
  <2>12. Written(k + 1)'
    BY <1>4, <2>1, <2>3, <2>11 DEF Written
  <2> QED
    BY <1>4, <2>1, <2>2, <2>3, <2>8, <2>12 DEF SendInv
<1> QED
  BY <1>2, <1>5, <1>6

\* The handler of a write.
LEMMA WriteHandledInv ==
  ASSUME SendInv, WriteHandled
  PROVE  SendInv'
<1>1. UNCHANGED <<chapter, posted, handled>>
  BY DEF WriteHandled, readVars, logicVars
<1>2. PICK w \in writes :
       \/ S!HandleWrite(w)
       \/ S!HandleWriteError(w)
       \/ writes' = writes \ {w} /\ UNCHANGED <<send_queue, sender, closed, accepted, dropped, out>>
  BY DEF WriteHandled
<1>3. PICK k \in 0 .. Pieces : Written(k)
  BY DEF SendInv
<1>4. /\ send_queue # <<>> /\ send_queue \in Seq(Nat) /\ out \in Seq(Piece)
      /\ w.msg = Head(send_queue) /\ w.sent = k
      /\ writes = {w} /\ sender # "start"
  BY <1>2, <1>3 DEF SendInv, Written
<1>5. CASE ~S!HandleWrite(w)
  <2>1. writes' = {} /\ UNCHANGED <<send_queue, sender, out, dropped>>
    BY <1>2, <1>4, <1>5 DEF S!HandleWriteError
  <2>2. Replies' = Replies
    BY <1>1, <2>1 DEF Replies, Done, Reply, Answered
  <2>3. Written(k)'
    BY <1>3, <2>1, <2>2 DEF Written
  <2> QED
    BY <1>4, <2>1, <2>3 DEF SendInv
<1>6. CASE S!HandleWrite(w)
  <2> DEFINE q == send_queue
             r == Tail(send_queue)
  <2>1. /\ send_queue' = r /\ UNCHANGED <<sender, dropped, out>> /\ w.sent = Pieces
        /\ writes' = IF r = <<>> THEN {} ELSE {S!Begin(r)}
    BY <1>4, <1>6 DEF S!HandleWrite
  <2>2. /\ r \in Seq(Nat) /\ After(Wholes(q), Pieces) = Wholes(r)
        /\ Pieces \in Nat
    BY <1>4, WholesHead, FrontOwed
  <2>3. Wholes(r) \in Seq(Piece)
    BY <2>2, PiecedAllType
  <2>4. After(Wholes(r), 0) = Wholes(r)
    <3> DEFINE s == Wholes(r)
    <3>1. s \in Seq(Piece)
      BY <2>3
    <3> HIDE DEF s
    <3>2. SubSeq(s, 1, Len(s)) = s
      BY <3>1, SubSeqFull
    <3>3. After(s, 0) = s
      BY <3>2 DEF After
    <3> QED
      BY <3>3 DEF s
  <2>5. Replies' = Replies
    BY <1>1, <2>1 DEF Replies, Done, Reply, Answered
  <2>6. out \o Wholes(r) = FlattenSeq(Replies)
    BY <1>3, <1>4, <2>1, <2>2 DEF Written
  <2>7. out' \o After(Wholes(send_queue'), 0) = FlattenSeq(Replies')
    BY <2>1, <2>4, <2>5, <2>6
  <2>8. \A v \in writes' :
          /\ send_queue' # <<>>
          /\ v \in [msg : Nat, sent : 0 .. Pieces, failed : BOOLEAN]
          /\ v.msg = Head(send_queue') /\ v.sent = 0
    <3> SUFFICES ASSUME NEW v \in writes'
                 PROVE  /\ r # <<>>
                        /\ v \in [msg : Nat, sent : 0 .. Pieces, failed : BOOLEAN]
                        /\ v.msg = Head(r) /\ v.sent = 0
      BY <2>1
    <3>1. r # <<>> /\ v = [msg |-> Head(r), sent |-> 0, failed |-> FALSE]
      BY <2>1 DEF S!Begin
    <3>2. Head(r) \in Nat
      BY <2>2, <3>1, WholesHead
    <3> QED
      BY <2>2, <3>1, <3>2
  <2>9. Written(0)'
    BY <1>4, <2>1, <2>7, <2>8 DEF Written
  <2>10. \A v, u \in writes' : v = u
    BY <2>1
  <2>11. 0 \in 0 .. Pieces
    BY <2>2
  <2> QED
    BY <1>4, <2>1, <2>2, <2>8, <2>9, <2>10, <2>11 DEF SendInv
<1> QED
  BY <1>5, <1>6

-----------------------------------------------------------------------------
(* The logic layer between the two halves.                                 *)

LogicInv ==
  /\ owner = "running" /\ ~b_stop
  /\ queue \in Seq(Nat) /\ inHand \in Seq(Nat) /\ handled \in Seq(Nat)
  /\ worker = "check" => queue # <<>>
  /\ IF worker = "process" THEN Len(inHand) = 1 ELSE inHand = <<>>
  /\ worker \in {"loop", "lock", "predicate", "block", "waiting", "woken", "check", "process"}
  /\ chapter >= 12 => Numbers(Len(posted)) = (handled \o inHand) \o queue

LEMMA LogicUnchanged ==
  ASSUME LogicInv, UNCHANGED logicVars, chapter' = chapter,
         chapter >= 12 => UNCHANGED posted
  PROVE  LogicInv'
<1>1. UNCHANGED <<queue, mutex, b_stop, worker, inHand, owner, handled>>
  BY DEF logicVars
<1> QED
  BY <1>1 DEF LogicInv

\* A message is handed to the logic layer.
LEMMA PostInv ==
  ASSUME LogicInv, L!Post(Len(posted) + 1), chapter' = chapter, Len(posted) \in Nat,
         Len(posted') = Len(posted) + 1
  PROVE  LogicInv' /\ handled' = handled
<1> DEFINE m == Len(posted) + 1
<1>1. /\ queue' = Append(queue, m) /\ UNCHANGED <<b_stop, inHand, owner, handled>>
      /\ Numbers(Len(posted))' = Append(Numbers(Len(posted)), m)
      /\ worker' = worker \/ (worker = "waiting" /\ worker' = "woken")
  BY DEF L!Post, L!Notified
<1>2. m \in Nat
  OBVIOUS
<1>3. queue' \in Seq(Nat) /\ queue' # <<>>
  <2>1. queue \in Seq(Nat)
    BY DEF LogicInv
  <2>2. Append(queue, m) \in Seq(Nat) /\ Len(Append(queue, m)) = Len(queue) + 1
        /\ Len(queue) \in Nat
    BY <1>2, <2>1, AppendProperties, LenProperties
  <2>3. Append(queue, m) # <<>>
    BY <2>2, EmptySeq
  <2> QED
    BY <1>1, <2>2, <2>3
<1>4. chapter >= 12 => Numbers(Len(posted)) ' = (handled \o inHand) \o queue'
  <2> SUFFICES ASSUME chapter >= 12
               PROVE  Append(Numbers(Len(posted)), m) = (handled \o inHand) \o Append(queue, m)
    BY <1>1
  <2> DEFINE s == handled \o inHand
             q == queue
  <2>1. s \in Seq(Nat) /\ q \in Seq(Nat)
    BY ConcatProperties DEF LogicInv
  <2>2. Numbers(Len(posted)) = s \o q
    BY DEF LogicInv
  <2> HIDE DEF s, q, m
  <2>3. s \o Append(q, m) = Append(s \o q, m)
    BY <1>2, <2>1, AppendBehind, SMTT(30)
  <2> QED
    BY <2>2, <2>3 DEF s, q
<1>5. Numbers(Len(posted))' = Numbers(Len(posted'))
  OBVIOUS
<1>6. IF worker' = "process" THEN Len(inHand') = 1 ELSE inHand' = <<>>
  BY <1>1 DEF LogicInv
<1>7. worker' \in {"loop", "lock", "predicate", "block", "waiting", "woken", "check", "process"}
  BY <1>1 DEF LogicInv
<1> QED
  BY <1>1, <1>3, <1>4, <1>5, <1>6, <1>7 DEF LogicInv

\* The worker waits, wakes up and takes the front.
LEMMA WorksInv ==
  ASSUME LogicInv, Works
  PROVE  LogicInv' /\ handled' = handled
<1>1. UNCHANGED <<chapter, posted>>
  BY DEF Works, readVars
<1>2. CASE L!Loop \/ L!Predicate \/ L!Block \/ L!Acquire
  <2>1. /\ UNCHANGED <<queue, b_stop, inHand, owner, handled>>
        /\ worker # "process" /\ worker' # "process"
        /\ worker' \in {"loop", "lock", "predicate", "block", "waiting", "woken", "check"}
        /\ worker' = "check" => queue # <<>>
    BY <1>2 DEF LogicInv, L!Loop, L!Predicate, L!Block, L!Acquire, L!Move, L!StopRequested
  <2> QED
    BY <1>1, <2>1 DEF LogicInv
<1>3. CASE L!Check
  <2>1. /\ worker = "check" /\ worker' = "process"
        /\ inHand' = <<Head(queue)>> /\ queue' = Tail(queue)
        /\ UNCHANGED <<b_stop, owner, handled>>
    BY <1>3 DEF LogicInv, L!Check, L!Move, L!PopFront
  <2>2. queue # <<>> /\ inHand = <<>> /\ queue \in Seq(Nat) /\ handled \in Seq(Nat)
    BY <2>1 DEF LogicInv
  <2>3. Head(queue) \in Nat /\ Tail(queue) \in Seq(Nat) /\ queue = <<Head(queue)>> \o Tail(queue)
    BY <2>2, HeadTailProperties
  <2>4. inHand' \in Seq(Nat) /\ Len(inHand') = 1
    BY <2>1, <2>3
  <2>5. (handled \o inHand) \o queue = (handled \o inHand') \o queue'
    <3> DEFINE h == handled
               x == <<Head(queue)>>
               t == Tail(queue)
    <3>1. h \in Seq(Nat) /\ x \in Seq(Nat) /\ t \in Seq(Nat)
      BY <2>2, <2>3
    <3>2. h \o <<>> = h
      BY ONLY <3>1, ConcatEmptySeq
    <3>3. queue = x \o t
      BY <2>3
    <3> HIDE DEF h, x, t
    <3>4. (h \o x) \o t = h \o (x \o t)
      BY ONLY <3>1, Regroup, SMTT(30)
    <3> QED
      BY <2>1, <2>2, <3>2, <3>3, <3>4 DEF h, x, t
  <2> QED
    BY <1>1, <2>1, <2>3, <2>4, <2>5 DEF LogicInv
<1> QED
  BY <1>2, <1>3 DEF Works

\* What the worker has in hand is the first message not handled yet.
LEMMA HandedInOrder ==
  ASSUME LogicInv, chapter >= 12, Len(posted) \in Nat, worker = "process"
  PROVE  /\ inHand = <<Len(handled) + 1>> /\ inHand[1] = Len(handled) + 1
         /\ Len(handled) \in Nat
         /\ Len(handled) + 1 <= Len(posted)
<1> DEFINE h == handled
           x == inHand
           q == queue
           n == Numbers(Len(posted))
<1>1. /\ h \in Seq(Nat) /\ x \in Seq(Nat) /\ q \in Seq(Nat) /\ Len(x) = 1
      /\ n = (h \o x) \o q
  BY DEF LogicInv
<1>2. Len(n) = Len(posted) /\ \A i \in 1 .. Len(posted) : n[i] = i
  BY DEF Numbers
<1>3. Len(h) \in Nat /\ Len(q) \in Nat
  BY <1>1, LenProperties
<1> HIDE DEF h, x, q, n
<1>4. /\ h \o x \in Seq(Nat) /\ Len(h \o x) = Len(h) + Len(x)
      /\ \A i \in 1 .. Len(h) + Len(x) :
           (h \o x)[i] = IF i <= Len(h) THEN h[i] ELSE x[i - Len(h)]
  <2>1. h \in Seq(Nat) /\ x \in Seq(Nat)
    BY <1>1
  <2> QED
    BY ONLY <2>1, ConcatProperties
<1> DEFINE y == h \o x
<1>5. y \in Seq(Nat) /\ Len(y) = Len(h) + 1
  BY <1>1, <1>3, <1>4
<1>6. y[Len(h) + 1] = x[1]
  <2>1. /\ Len(h) + 1 \in 1 .. Len(h) + Len(x) /\ ~(Len(h) + 1 <= Len(h))
        /\ Len(h) + 1 - Len(h) = 1
    BY <1>1, <1>3
  <2> QED
    BY <1>4, <2>1
<1>7. n = y \o q
  BY <1>1
<1> HIDE DEF y
<1>8. /\ Len(y \o q) = Len(y) + Len(q)
      /\ \A i \in 1 .. Len(y) + Len(q) :
           (y \o q)[i] = IF i <= Len(y) THEN y[i] ELSE q[i - Len(y)]
  BY <1>1, <1>5, ConcatProperties
<1>9. /\ Len(h) + 1 \in 1 .. Len(y) + Len(q) /\ Len(h) + 1 <= Len(y)
      /\ Len(h) + 1 <= Len(posted) /\ Len(h) + 1 \in 1 .. Len(posted)
  BY <1>2, <1>3, <1>5, <1>7, <1>8
<1>10. x[1] = Len(h) + 1
  BY <1>2, <1>6, <1>7, <1>8, <1>9
<1>11. x = <<Len(h) + 1>>
  <2>1. <<Len(h) + 1>> \in Seq(Nat) /\ Len(<<Len(h) + 1>>) = 1 /\ <<Len(h) + 1>>[1] = Len(h) + 1
    BY <1>3
  <2>2. \A i \in 1 .. 1 : x[i] = <<Len(h) + 1>>[i]
    BY <1>10, <2>1
  <2> QED
    BY <1>1, <2>1, <2>2, SeqEqual
<1> QED
  BY <1>3, <1>9, <1>10, <1>11 DEF h, x

\* A handler has run.
LEMMA ProcessInv ==
  ASSUME LogicInv, L!Process, chapter >= 12, Len(posted) \in Nat, UNCHANGED readVars,
         worker = "process"
  PROVE  LogicInv' /\ Len(handled') = Len(handled) + 1 /\ Len(handled) \in Nat
<1>1. /\ worker' = "loop" /\ handled' = handled \o inHand /\ inHand' = <<>>
      /\ UNCHANGED <<queue, b_stop, owner>>
  BY DEF LogicInv, L!Process, L!ProcessMessage, L!Move, L!MembersGone
<1>2. handled \in Seq(Nat) /\ inHand \in Seq(Nat) /\ Len(inHand) = 1 /\ Len(handled) \in Nat
  BY LenProperties DEF LogicInv
<1>3. handled' \in Seq(Nat) /\ Len(handled') = Len(handled) + 1
  <2> DEFINE h == handled
             x == inHand
  <2>1. h \in Seq(Nat) /\ x \in Seq(Nat)
    BY <1>2
  <2>2. Len(x) = 1 /\ Len(h) \in Nat /\ handled' = h \o x
    BY <1>1, <1>2
  <2> HIDE DEF h, x
  <2>3. h \o x \in Seq(Nat) /\ Len(h \o x) = Len(h) + Len(x)
    BY ONLY <2>1, ConcatProperties
  <2>4. h \o x \in Seq(Nat) /\ Len(h \o x) = Len(h) + 1
    BY <2>2, <2>3
  <2> QED
    BY <2>2, <2>4 DEF h
<1>4. handled' \o inHand' = handled \o inHand
  BY <1>1, <1>3, ConcatEmptySeq
<1>5. inHand' \in Seq(Nat)
  BY <1>1, EmptySeq
<1>6. UNCHANGED <<chapter, posted>>
  BY DEF readVars
<1> QED
  BY <1>1, <1>2, <1>3, <1>4, <1>5, <1>6 DEF LogicInv

-----------------------------------------------------------------------------
(* The whole connection.                                                   *)

\* Only what has been answered was refused.
DropInv == dropped \subseteq {i \in Nat : i <= Done}

FramedInv == ReadInv /\ LogicInv /\ SendInv /\ DropInv

LEMMA DoneType ==
  ASSUME ReadInv, LogicInv
  PROVE  /\ Done \in Nat /\ Done <= Len(posted) /\ Len(posted) \in Nat
         /\ chapter \in 8 .. 15 /\ posted \in Seq(Framed)
<1>1. Len(posted) \in Nat /\ chapter \in 8 .. 15 /\ posted \in Seq(Framed)
  BY LenProperties DEF ReadInv, ReadType
<1>2. CASE chapter <= 11
  BY <1>1, <1>2 DEF Done
<1>3. CASE chapter >= 12
  <2> DEFINE h == handled
             x == inHand
             y == h \o x
             q == queue
             n == Numbers(Len(posted))
  <2>1. h \in Seq(Nat) /\ x \in Seq(Nat) /\ q \in Seq(Nat) /\ n = y \o q
    BY <1>3 DEF LogicInv
  <2>2. Len(n) = Len(posted)
    BY <1>1 DEF Numbers
  <2>3. Done = Len(h)
    BY <1>1, <1>3 DEF Done
  <2> HIDE DEF h, x, q, n
  <2>4. y \in Seq(Nat) /\ Len(y) = Len(h) + Len(x)
    BY ONLY <2>1, ConcatProperties
  <2> HIDE DEF y
  <2>5. Len(y \o q) = Len(y) + Len(q)
    BY ONLY <2>1, <2>4, ConcatProperties
  <2>6. Len(h) \in Nat /\ Len(x) \in Nat /\ Len(q) \in Nat
    BY ONLY <2>1, LenProperties
  <2> QED
    BY <1>1, <2>1, <2>2, <2>3, <2>4, <2>5, <2>6
<1> QED
  BY <1>1, <1>2, <1>3

LEMMA ReplyType ==
  ASSUME NEW i \in Nat, NEW m
  PROVE  Reply(i, m) \in Seq(Piece)
BY PiecedType, EmptySeq DEF Reply

LEMMA RepliesType ==
  ASSUME Done \in Nat
  PROVE  Replies \in Seq(Seq(Piece)) /\ Len(Replies) = Done
<1>1. \A i \in 1 .. Done : Reply(i, posted[i]) \in Seq(Piece)
  BY ReplyType
<1> QED
  BY <1>1 DEF Replies

\* Nothing changes for the messages answered before.
LEMMA RepliesSame ==
  ASSUME Done \in Nat, Done' = Done, chapter' = chapter, dropped' = dropped,
         \A i \in 1 .. Done : posted'[i] = posted[i]
  PROVE  Replies' = Replies
<1>1. \A i \in 1 .. Done : Reply(i, posted[i])' = Reply(i, posted[i])
  BY DEF Reply, Answered
<1> QED
  BY <1>1 DEF Replies

LEMMA RepliesGrow ==
  ASSUME NEW n \in Nat, Done = n, Done' = n + 1, chapter' = chapter,
         \A i \in 1 .. n : i \in dropped' <=> i \in dropped,
         \A i \in 1 .. n : posted'[i] = posted[i],
         NEW r \in Seq(Piece), r = Reply(n + 1, posted[n + 1])'
  PROVE  FlattenSeq(Replies') = FlattenSeq(Replies) \o r
<1> DEFINE s == Replies
           t == Replies'
           u == Append(s, r)
<1>1. \A i \in 1 .. n : Reply(i, posted[i])' = Reply(i, posted[i])
  BY DEF Reply, Answered
<1>2. /\ n \in Nat /\ s \in Seq(Seq(Piece)) /\ Len(s) = n
      /\ \A i \in 1 .. n : s[i] = Reply(i, posted[i])
  BY RepliesType DEF Replies
<1>3. t = [i \in 1 .. n + 1 |-> Reply(i, posted[i])']
  BY DEF Replies
<1>4. \A i \in 1 .. n + 1 : Reply(i, posted[i])' \in Seq(Piece)
  <2> SUFFICES ASSUME NEW i \in 1 .. n + 1 PROVE Reply(i, posted[i])' \in Seq(Piece)
    OBVIOUS
  <2>1. i \in Nat
    BY <1>2
  <2> QED
    BY <2>1, PiecedType, EmptySeq DEF Reply
<1>5. /\ t \in Seq(Seq(Piece)) /\ Len(t) = n + 1 /\ t[n + 1] = r
      /\ \A i \in 1 .. n : t[i] = s[i]
  <2>1. t \in Seq(Seq(Piece)) /\ Len(t) = n + 1
    BY <1>2, <1>3, <1>4
  <2>2. n + 1 \in 1 .. n + 1 /\ \A i \in 1 .. n : i \in 1 .. n + 1
    BY <1>2
  <2>3. t[n + 1] = r
    BY <1>3, <2>2
  <2>4. \A i \in 1 .. n : t[i] = s[i]
    BY <1>1, <1>2, <1>3, <2>2
  <2> QED
    BY <2>1, <2>3, <2>4
<1> HIDE DEF s, t
<1>6. /\ u \in Seq(Seq(Piece)) /\ Len(u) = n + 1 /\ u[n + 1] = r
      /\ \A i \in 1 .. n : u[i] = s[i]
  BY <1>2, AppendProperties
<1> HIDE DEF u
<1>7. t = u
  <2>1. \A i \in 1 .. Len(t) : t[i] = u[i]
    <3> SUFFICES ASSUME NEW i \in 1 .. Len(t) PROVE t[i] = u[i]
      OBVIOUS
    <3>1. i \in 1 .. n \/ i = n + 1
      BY <1>2, <1>5
    <3>2. i \in 1 .. n => t[i] = u[i]
      BY <1>5, <1>6
    <3>3. i = n + 1 => t[i] = u[i]
      BY <1>5, <1>6
    <3> QED
      BY <3>1, <3>2, <3>3
  <2> QED
    BY <1>5, <1>6, <2>1, SeqEqual
<1>8. FlattenSeq(Append(s, r)) = FlattenSeq(s) \o r
  BY <1>2, FlattenAppend
<1> QED
  BY <1>7, <1>8 DEF s, t, u

\* Send, of an answer or of one too many.
LEMMA SendStep ==
  ASSUME SendInv, DropInv, NEW n \in Nat, Done = n, Done' = n + 1, chapter' = chapter,
         \A i \in 1 .. n : posted'[i] = posted[i],
         Answered(posted[n + 1])',
         Send(n + 1) \/ Unlimited!PushNode(n + 1)
  PROVE  SendInv' /\ DropInv'
<1> DEFINE m == n + 1
<1>1. m \in Nat /\ m \notin dropped /\ Pieced(m) \in Seq(Piece)
  <2>1. m \in Nat /\ m \notin dropped
    BY DEF DropInv
  <2> QED
    BY <2>1, PiecedType
<1>2. CASE S!PushNode(m) \/ Unlimited!PushNode(m)
  <2>1. /\ sender = "idle" /\ send_queue' = Append(send_queue, m)
        /\ sender' = IF send_queue = <<>> THEN "start" ELSE "idle"
        /\ UNCHANGED <<writes, out, dropped>>
    BY <1>2 DEF S!PushNode, Unlimited!PushNode
  <2>2. Reply(m, posted[m])' = Pieced(m)
    BY <1>1, <2>1 DEF Reply
  <2>3. FlattenSeq(Replies') = FlattenSeq(Replies) \o Pieced(m)
    BY <1>1, <2>1, <2>2, RepliesGrow
  <2>4. DropInv'
    BY <2>1 DEF DropInv
  <2> HIDE DEF m
  <2>5. SendInv'
    BY <1>1, <2>1, <2>3, PushInv
  <2> QED
    BY <2>4, <2>5
<1>3. CASE S!RefuseNode(m)
  <2>1. dropped' = dropped \cup {m} /\ UNCHANGED <<send_queue, sender, writes, out>>
    BY <1>3 DEF S!RefuseNode
  <2>2. Reply(m, posted[m])' = <<>>
    BY <2>1 DEF Reply
  <2>3. \A i \in 1 .. n : i \in dropped' <=> i \in dropped
    BY <2>1
  <2>4. <<>> \in Seq(Piece)
    BY EmptySeq
  <2>5. FlattenSeq(Replies') = FlattenSeq(Replies) \o <<>>
    BY <2>2, <2>3, <2>4, RepliesGrow
  <2>6. FlattenSeq(Replies) \in Seq(Piece)
    BY RepliesType, FlattenType
  <2>7. FlattenSeq(Replies') = FlattenSeq(Replies)
    BY <2>5, <2>6, ConcatEmptySeq
  <2>8. DropInv'
    BY <1>1, <2>1 DEF DropInv
  <2> QED
    BY <2>1, <2>7, <2>8, SendUnchanged
<1> QED
  BY <1>2, <1>3 DEF Send

LEMMA CompleteIs ==
  ASSUME ReadInv, Complete
  PROVE  /\ chapter' = chapter /\ Len(posted) \in Nat /\ Len(posted') = Len(posted) + 1
         /\ \A i \in 1 .. Len(posted) : posted'[i] = posted[i]
<1>1. /\ chapter' = chapter
      /\ \E m : posted' = Append(posted, m)
  BY DEF Complete, BodyAtOnce, BodyEnds, Finish
<1>2. PICK m : posted' = Append(posted, m)
  BY <1>1
<1>3. posted' \in Seq(Framed) /\ posted \in Seq(Framed) /\ Len(posted) \in Nat
  <2>1. ReadInv'
    BY HandlersInv
  <2> QED
    BY <2>1, LenProperties DEF ReadInv, ReadType
<1> QED
  BY <1>1, <1>2, <1>3

LEMMA FramedSteps ==
  ASSUME FramedInv, [FramedNext]_allVars
  PROVE  FramedInv'
<1>1. /\ ReadInv /\ LogicInv /\ SendInv /\ DropInv
      /\ Done \in Nat /\ Done <= Len(posted) /\ Len(posted) \in Nat /\ chapter \in 8 .. 15
  BY DoneType DEF FramedInv
<1>2. ReadInv'
  BY <1>1, ReadSteps
<1> SUFFICES LogicInv' /\ SendInv' /\ DropInv'
  BY <1>2 DEF FramedInv
\* Steps that answer nothing and take no part in the writing.
<1>3. ASSUME UNCHANGED <<chapter, posted, handled, dropped>>
      PROVE  Done' = Done /\ Replies' = Replies /\ DropInv'
  BY <1>1, <1>3 DEF Done, Replies, Reply, Answered, DropInv
<1>4. CASE Parses
  <2>1. UNCHANGED <<chapter, posted, logicVars, sendVars>>
    BY <1>4 DEF Parses, Parse, ReadSome, ReadError, HeadPart, HeadRejected, HeadThrows,
                BodyBegins, SetHeadParse, BodyPart, HeapBreaks
  <2>2. UNCHANGED <<handled, dropped, send_queue, sender, writes, out>>
    BY <2>1 DEF logicVars, sendVars
  <2> QED
    BY <1>1, <1>3, <2>1, <2>2, LogicUnchanged, SendUnchanged
<1>5. CASE Echoes
  <2>1. chapter <= 11 /\ Complete /\ UNCHANGED logicVars
    BY <1>5 DEF Echoes
  <2>2. /\ chapter' = chapter /\ Len(posted') = Len(posted) + 1
        /\ \A i \in 1 .. Len(posted) : posted'[i] = posted[i]
    BY <1>1, <2>1, CompleteIs
  <2>3. PICK n \in Nat : n = Len(posted)
    BY <1>1
  <2>4. Done = n /\ Done' = n + 1
    BY <2>1, <2>2, <2>3 DEF Done
  <2>5. Answered(posted[n + 1])'
    BY <2>1, <2>2 DEF Answered
  <2>6. Send(n + 1) \/ Unlimited!PushNode(n + 1)
    BY <1>5, <2>3 DEF Echoes
  <2>7. SendInv' /\ DropInv'
    BY <1>1, <2>2, <2>3, <2>4, <2>5, <2>6, SendStep
  <2>8. LogicInv'
    BY <1>1, <2>1, <2>2, LogicUnchanged
  <2> QED
    BY <2>7, <2>8
<1>6. CASE HandsOn
  <2>1. /\ chapter >= 12 /\ Complete /\ L!Post(Len(posted) + 1)
        /\ UNCHANGED <<send_queue, sender, writes, dropped, out>>
    BY <1>6 DEF HandsOn, sendVars
  <2>2. /\ chapter' = chapter /\ Len(posted') = Len(posted) + 1
        /\ \A i \in 1 .. Len(posted) : posted'[i] = posted[i]
    BY <1>1, <2>1, CompleteIs
  <2>3. LogicInv' /\ handled' = handled
    BY <1>1, <2>1, <2>2, PostInv
  <2>4. Done' = Done
    BY <1>1, <2>1, <2>2, <2>3 DEF Done
  <2>5. \A i \in 1 .. Done : posted'[i] = posted[i]
    BY <1>1, <2>2
  <2>6. Replies' = Replies
    BY <1>1, <2>1, <2>2, <2>4, <2>5, RepliesSame
  <2>7. DropInv'
    BY <1>1, <2>1, <2>4 DEF DropInv
  <2> QED
    BY <1>1, <2>1, <2>3, <2>6, <2>7, SendUnchanged
<1>7. CASE chapter >= 12 /\ Works
  <2>1. UNCHANGED <<chapter, posted, dropped, send_queue, sender, writes, out>>
    BY <1>7 DEF Works, readVars, sendVars
  <2>2. LogicInv' /\ handled' = handled
    BY <1>1, <1>7, WorksInv
  <2> QED
    BY <1>1, <1>3, <2>1, <2>2, SendUnchanged
<1>8. CASE AnswersNext
  <2>1. /\ chapter >= 12 /\ worker = "process" /\ UNCHANGED readVars /\ L!Process
        /\ UNCHANGED <<chapter, posted>>
        /\ IF Answered(posted[inHand[1]]) THEN Send(inHand[1]) ELSE UNCHANGED sendVars
    BY <1>8 DEF AnswersNext, readVars
  <2>2. LogicInv' /\ Len(handled') = Len(handled) + 1 /\ Len(handled) \in Nat
    BY <1>1, <2>1, ProcessInv
  <2>3. inHand[1] = Len(handled) + 1
    BY <1>1, <2>1, HandedInOrder
  <2>4. PICK n \in Nat : n = Len(handled)
    BY <2>2
  <2>5. Done = n /\ Done' = n + 1
    BY <1>1, <2>1, <2>2, <2>4 DEF Done
  <2>6. \A i \in 1 .. n : posted'[i] = posted[i]
    BY <2>1
  <2>7. CASE Answered(posted[n + 1])
    <3>1. Answered(posted[n + 1])'
      BY <2>1, <2>7 DEF Answered
    <3>2. Send(n + 1)
      BY <2>1, <2>3, <2>4, <2>7
    <3> QED
      BY <1>1, <2>1, <2>2, <2>5, <2>6, <3>1, <3>2, SendStep
  <2>8. CASE ~Answered(posted[n + 1])
    <3>1. UNCHANGED <<send_queue, sender, writes, dropped, out>>
      BY <2>1, <2>3, <2>4, <2>8 DEF sendVars
    <3>2. Reply(n + 1, posted[n + 1])' = <<>>
      BY <2>1, <2>8 DEF Reply, Answered
    <3>3. \A i \in 1 .. n : i \in dropped' <=> i \in dropped
      BY <3>1
    <3>4. <<>> \in Seq(Piece)
      BY EmptySeq
    <3>5. FlattenSeq(Replies') = FlattenSeq(Replies) \o <<>>
      BY <2>1, <2>5, <2>6, <3>2, <3>3, <3>4, RepliesGrow
    <3>6. FlattenSeq(Replies) \in Seq(Piece)
      BY <1>1, RepliesType, FlattenType
    <3>7. FlattenSeq(Replies') = FlattenSeq(Replies)
      BY <3>5, <3>6, ConcatEmptySeq
    <3>8. DropInv'
      BY <1>1, <2>5, <3>1 DEF DropInv
    <3> QED
      BY <1>1, <2>2, <3>1, <3>7, <3>8, SendUnchanged
  <2> QED
    BY <2>7, <2>8
<1>9. CASE StartsWrite
  <2>1. UNCHANGED <<chapter, posted, handled, dropped, logicVars>>
    BY <1>9 DEF StartsWrite, S!StartWrite, readVars, logicVars
  <2> QED
    BY <1>1, <1>3, <1>9, <2>1, LogicUnchanged, StartWriteInv
<1>10. CASE Writes
  <2>1. UNCHANGED <<chapter, posted, handled, dropped, logicVars>>
    BY <1>10 DEF Writes, S!WriteSome, S!WriteFails, readVars, logicVars
  <2> QED
    BY <1>1, <1>3, <1>10, <2>1, LogicUnchanged, WritesInv
<1>11. CASE WriteHandled
  <2>1. UNCHANGED <<chapter, posted, handled, dropped, logicVars>>
    BY <1>11 DEF WriteHandled, S!HandleWrite, S!HandleWriteError, readVars, logicVars
  <2> QED
    BY <1>1, <1>3, <1>11, <2>1, LogicUnchanged, WriteHandledInv
<1>12. CASE Stutters
  <2>1. UNCHANGED <<chapter, posted, handled, dropped, logicVars, send_queue, sender, writes, out>>
    BY <1>12 DEF Stutters, readVars, logicVars, sendVars
  <2> QED
    BY <1>1, <1>3, <2>1, LogicUnchanged, SendUnchanged
<1> QED
  BY <1>1, <1>4, <1>5, <1>6, <1>7, <1>8, <1>9, <1>10, <1>11, <1>12, StepsAre

LEMMA FramedStarts ==
  ASSUME FramedInit
  PROVE  FramedInv
<1>1. /\ Init /\ S!SqInit /\ L!Init /\ posted = <<>>
      /\ send_queue = <<>> /\ sender = "idle" /\ writes = {} /\ dropped = {} /\ out = <<>>
      /\ queue = <<>> /\ ~b_stop /\ worker = "loop" /\ inHand = <<>> /\ owner = "running"
      /\ handled = <<>>
  BY DEF FramedInit, New, Session8, Session9, Session10, Session11, Session12,
         Session13, Session14, Session15, Init, S!SqInit, L!Init
<1>2. ReadInv
  BY <1>1, InitRead
<1>3. Len(<<>>) = 0 /\ <<>> \in Seq(Nat) /\ <<>> \in Seq(Piece) /\ <<>> \o <<>> = <<>>
  BY EmptySeq, ConcatEmptySeq
<1>4. LogicInv
  <2>1. Numbers(Len(posted)) = <<>>
    BY <1>1, <1>3 DEF Numbers
  <2>2. (handled \o inHand) \o queue = <<>>
    BY <1>1, <1>3
  <2> QED
    BY <1>1, <1>3, <2>1, <2>2 DEF LogicInv
<1>5. Done = 0 /\ Replies = <<>>
  <2>1. Done = 0
    BY <1>1, <1>3 DEF Done
  <2> QED
    BY <2>1 DEF Replies
<1>6. DropInv
  BY <1>1 DEF DropInv
<1>7. SendInv
  <2>1. After(<<>>, 0) = <<>>
    BY <1>3, SubSeqEmpty DEF After
  <2>2. 0 \in 0 .. Pieces
    BY FramedServerAssumption
  <2>3. out \o After(Wholes(send_queue), 0) = FlattenSeq(Replies)
    BY <1>1, <1>3, <1>5, <2>1, WholesEmpty, FlattenEmpty
  <2>4. Written(0)
    BY <1>1, <2>3 DEF Written
  <2> QED
    BY <1>1, <1>3, <2>2, <2>4 DEF SendInv
<1> QED
  BY <1>2, <1>4, <1>6, <1>7 DEF FramedInv

LEMMA FramedInvariance == FramedSpec => []FramedInv
<1>1. FramedInv /\ [FramedNext]_allVars => FramedInv'
  BY FramedSteps
<1> QED
  BY <1>1, FramedStarts, PTL DEF FramedSpec

-----------------------------------------------------------------------------
(* What the peer gets.                                                     *)

LEMMA PrefixOfJoin ==
  ASSUME NEW E, NEW s \in Seq(E), NEW t \in Seq(E)
  PROVE  IsPrefix(s, s \o t)
<1>1. Len(s) \in Nat /\ Len(t) \in Nat /\ Len(s) \in 0 .. Len(s)
  BY LenProperties
<1>2. Len(s \o t) = Len(s) + Len(t)
  BY ConcatProperties
<1>3. First(s \o t, Len(s)) = First(s, Len(s))
  BY <1>1, FrontOfJoin
<1> QED
  BY <1>1, <1>2, <1>3 DEF IsPrefix, First

\* The answers given so far are the first of those expected.
LEMMA RepliesExpected ==
  ASSUME ReadInv, LogicInv, InStep
  PROVE  \E r \in Seq(Piece) : Expected = FlattenSeq(Replies) \o r
<1> DEFINE n == Done
           l == Len(sent)
           a == [i \in 1 .. l |-> Reply(i, sent[i])]
           f == First(a, n)
           g == After(a, n)
<1>1. /\ n \in Nat /\ n <= Len(posted) /\ l \in Nat /\ Len(posted) \in Nat
      /\ Len(posted) <= l
      /\ \A i \in 1 .. Len(posted) : posted[i] = sent[i]
  BY DoneType, LenProperties DEF ReadInv, ReadType, StepInv
<1>2. a \in Seq(Seq(Piece)) /\ Len(a) = l
  <2>1. \A i \in 1 .. l : Reply(i, sent[i]) \in Seq(Piece)
    BY ReplyType
  <2> QED
    BY <1>1, <2>1
<1>3. Expected = FlattenSeq(a)
  BY DEF Expected
<1>4. /\ Replies \in Seq(Seq(Piece)) /\ Len(Replies) = n
      /\ \A i \in 1 .. n : Replies[i] = a[i]
  <2>1. \A i \in 1 .. n : posted[i] = sent[i] /\ i \in 1 .. l
    BY <1>1
  <2>2. \A i \in 1 .. n : Replies[i] = a[i]
    BY <2>1 DEF Replies
  <2> QED
    BY <1>1, <2>2, RepliesType
<1>5. n \in 0 .. Len(a)
  BY <1>1, <1>2
<1> HIDE DEF a, n
<1>6. /\ f \in Seq(Seq(Piece)) /\ Len(f) = n /\ g \in Seq(Seq(Piece))
      /\ \A i \in 1 .. n : f[i] = a[i]
      /\ a = f \o g
  <2>1. a \in Seq(Seq(Piece))
    BY <1>2
  <2> QED
    BY ONLY <1>5, <2>1, FirstAfter
<1> HIDE DEF f, g
<1>7. f = Replies
  <2>1. \A i \in 1 .. Len(f) : f[i] = Replies[i]
    BY <1>4, <1>6
  <2> QED
    BY <1>4, <1>6, <2>1, SeqEqual
<1>8. FlattenSeq(f \o g) = FlattenSeq(f) \o FlattenSeq(g)
  BY <1>6, FlattenConcat
<1>9. FlattenSeq(g) \in Seq(Piece)
  BY <1>6, FlattenType
<1> QED
  BY <1>3, <1>6, <1>7, <1>8, <1>9

LEMMA OutInOrder ==
  ASSUME FramedInv, InStep
  PROVE  IsPrefix(out, Expected)
<1>1. PICK k \in 0 .. Pieces : Written(k)
  BY DEF FramedInv, SendInv
<1>2. PICK r \in Seq(Piece) : Expected = FlattenSeq(Replies) \o r
  BY RepliesExpected DEF FramedInv
<1> DEFINE a == After(Wholes(send_queue), k)
           o == out
<1>3. k \in 0 .. Len(Wholes(send_queue)) /\ Wholes(send_queue) \in Seq(Piece)
  BY <1>1, WrittenIn DEF FramedInv
<1>4. a \in Seq(Piece)
  <2> DEFINE s == Wholes(send_queue)
  <2>1. s \in Seq(Piece) /\ k \in 0 .. Len(s)
    BY <1>3
  <2> HIDE DEF s
  <2>2. After(s, k) \in Seq(Piece)
    BY ONLY <2>1, FirstAfter
  <2> QED
    BY <2>2 DEF s
<1>5. o \in Seq(Piece) /\ o \o a = FlattenSeq(Replies)
  BY <1>1 DEF FramedInv, SendInv, Written
<1> HIDE DEF a, o
<1>6. Expected = (o \o a) \o r
  BY <1>2, <1>5
<1>7. (o \o a) \o r = o \o (a \o r)
  <2>1. o \in Seq(Piece) /\ a \in Seq(Piece) /\ r \in Seq(Piece)
    BY <1>4, <1>5
  <2> QED
    BY ONLY <2>1, Regroup
<1>8. a \o r \in Seq(Piece)
  BY <1>4, ConcatProperties
<1>9. IsPrefix(o, o \o (a \o r))
  BY <1>5, <1>8, PrefixOfJoin
<1> QED
  BY <1>6, <1>7, <1>9 DEF o

\* A node with the length in front, as a write takes its bytes.
LEMMA NodeWithLength ==
  ASSUME NEW order \in Seq(Byte), Len(order) = 2, NEW bytes \in Seq(Byte)
  PROVE  N!Sent(N!WithLength(order, bytes)) = order \o bytes
<1> DEFINE n == Len(bytes)
           l == n + 2
           c == n + 3
           z == N!Zeroed(n + 2 + 1)
           h == N!Copied(z, 0, order)
           b == N!Copied(h, 2, bytes)
<1>1. n \in Nat /\ l \in Nat /\ c \in Nat /\ n + 2 + 1 = c /\ 0 \in Nat /\ 2 \in Nat
  BY LenProperties
<1>2. z \in [1 .. c -> Byte]
  BY <1>1, ZeroByte DEF N!Zeroed
<1>3. N!WithLength(order, bytes) = [id |-> -1, len |-> l, cur |-> 0, data |-> b]
  BY DEF N!WithLength, N!Empty, N!Holding, N!HeadLength2
<1> HIDE DEF z, c
<1>4. /\ h \in [1 .. c -> Byte]
      /\ \A i \in 1 .. c : h[i] = IF i - 0 \in 1 .. Len(order) THEN order[i - 0] ELSE z[i]
  <2>1. \A j \in 1 .. Len(order) : order[j] \in Byte
    BY ElementOfSeq
  <2>2. DOMAIN z = 1 .. c /\ \A i \in 1 .. c : z[i] \in Byte
    BY <1>2
  <2> QED
    BY <2>1, <2>2 DEF N!Copied
<1> HIDE DEF h
<1>5. /\ b \in [1 .. c -> Byte]
      /\ \A i \in 1 .. c : b[i] = IF i - 2 \in 1 .. Len(bytes) THEN bytes[i - 2] ELSE h[i]
  <2>1. \A j \in 1 .. Len(bytes) : bytes[j] \in Byte
    BY ElementOfSeq
  <2>2. DOMAIN h = 1 .. c /\ \A i \in 1 .. c : h[i] \in Byte
    BY <1>4
  <2> QED
    BY <2>1, <2>2 DEF N!Copied
<1> HIDE DEF b, l
<1>6. N!Sent(N!WithLength(order, bytes)) = SubSeq(b, 1, l)
  <2> DEFINE node8 == N!WithLength(order, bytes)
  <2>1. node8.data = b /\ node8.cur = 0 /\ node8.len = l /\ 0 + 1 = 1
    BY <1>3
  <2> HIDE DEF node8
  <2>2. N!Sent(node8) = SubSeq(node8.data, node8.cur + 1, node8.len)
    BY DEF N!Sent
  <2> QED
    BY <2>1, <2>2 DEF node8
<1>7. /\ SubSeq(b, 1, l) \in Seq(Byte) /\ Len(SubSeq(b, 1, l)) = l
      /\ \A i \in 1 .. l : SubSeq(b, 1, l)[i] = b[i]
  <2>1. l \in Int /\ 1 \in Int
    BY <1>1
  <2>2. \A i \in 1 .. l : b[i] \in Byte
    <3>1. \A i \in 1 .. l : i \in 1 .. c
      BY <1>1 DEF l, c
    <3> QED
      BY <1>5, <3>1
  <2>3. /\ SubSeq(b, 1, l) \in Seq(Byte)
        /\ Len(SubSeq(b, 1, l)) = IF 1 <= l THEN l - 1 + 1 ELSE 0
        /\ \A i \in 1 .. l - 1 + 1 : SubSeq(b, 1, l)[i] = b[1 + i - 1]
    BY <2>1, <2>2, SubSeqProperties
  <2>4. Len(SubSeq(b, 1, l)) = l
    BY <1>1, <2>3 DEF l
  <2>5. ASSUME NEW i \in 1 .. l PROVE SubSeq(b, 1, l)[i] = b[i]
    <3>1. i \in 1 .. l - 1 + 1 /\ 1 + i - 1 = i
      BY <1>1
    <3> QED
      BY <2>3, <3>1
  <2> QED
    BY <2>3, <2>4, <2>5
<1> HIDE DEF n
<1>8. /\ order \o bytes \in Seq(Byte) /\ Len(order \o bytes) = l
      /\ \A i \in 1 .. l :
           (order \o bytes)[i] = IF i <= 2 THEN order[i] ELSE bytes[i - 2]
  <2>1. /\ order \o bytes \in Seq(Byte) /\ Len(order \o bytes) = Len(order) + Len(bytes)
        /\ \A i \in 1 .. Len(order) + Len(bytes) :
             (order \o bytes)[i] = IF i <= Len(order) THEN order[i] ELSE bytes[i - Len(order)]
    BY ConcatProperties
  <2>2. Len(order) + Len(bytes) = l
    BY <1>1 DEF n, l
  <2> QED
    BY <2>1, <2>2
<1>9. ASSUME NEW i \in 1 .. l PROVE b[i] = (order \o bytes)[i]
  <2>1. i \in 1 .. c /\ Len(bytes) = n
    BY <1>1 DEF n, l, c
  <2>2. CASE i <= 2
    <3>1. ~(i - 2 \in 1 .. Len(bytes)) /\ i - 0 \in 1 .. Len(order) /\ i - 0 = i
      BY <1>1, <2>1, <2>2
    <3> QED
      BY <1>4, <1>5, <1>8, <2>1, <2>2, <3>1
  <2>3. CASE ~(i <= 2)
    <3>1. i - 2 \in 1 .. Len(bytes)
      BY <1>1, <2>1, <2>3 DEF l
    <3> QED
      BY <1>5, <1>8, <2>1, <2>3, <3>1
  <2> QED
    BY <2>2, <2>3
<1>10. SubSeq(b, 1, l) = order \o bytes
  <2>1. \A i \in 1 .. Len(SubSeq(b, 1, l)) : SubSeq(b, 1, l)[i] = (order \o bytes)[i]
    BY <1>7, <1>9
  <2>2. /\ SubSeq(b, 1, l) \in Seq(Byte) /\ order \o bytes \in Seq(Byte)
        /\ Len(SubSeq(b, 1, l)) = Len(order \o bytes)
    BY <1>7, <1>8
  <2> QED
    BY <2>1, <2>2, SeqEqual
<1> QED
  BY <1>6, <1>10

\* A node with the id and the length in front.
LEMMA NodeWithId ==
  ASSUME NEW id, N!NetShort(id) \in Seq(Byte), Len(N!NetShort(id)) = 2,
         NEW bytes \in Seq(Byte),
         N!NetShort(Len(bytes)) \in Seq(Byte), Len(N!NetShort(Len(bytes))) = 2
  PROVE  N!Sent(N!SendNode(id, bytes))
           = (N!NetShort(id) \o N!NetShort(Len(bytes))) \o bytes
<1> DEFINE n == Len(bytes)
           l == n + 4
           c == n + 5
           s == N!NetShort(id)
           t == N!NetShort(Len(bytes))
           z == N!Zeroed(n + 4 + 1)
           g == N!Copied(z, 0, s)
           h == N!Copied(g, 2, t)
           b == N!Copied(h, 4, bytes)
<1>1. n \in Nat /\ l \in Nat /\ c \in Nat /\ n + 4 + 1 = c
  BY LenProperties
<1>2. z \in [1 .. c -> Byte]
  BY <1>1, ZeroByte DEF N!Zeroed
<1>3. N!SendNode(id, bytes) = [id |-> id, len |-> l, cur |-> 0, data |-> b]
  <2> DEFINE node12 == N!RecvNode(id, l)
  <2>1. node12 = [id |-> id, len |-> l, cur |-> 0, data |-> z]
    BY DEF N!RecvNode, N!Empty
  <2>2. node12.data = z
    BY <2>1
  <2>3. N!SendNode(id, bytes)
          = [node12 EXCEPT !.data = N!Copied(N!Copied(N!Copied(node12.data, 0, s), 2, t), 4, bytes)]
    BY DEF N!SendNode, N!Holding, N!MSG_HEAD_TOTAL_LEN, N!MSG_TYPE_LENGTH
  <2> HIDE DEF node12, z, s, t
  <2>4. N!SendNode(id, bytes) = [node12 EXCEPT !.data = b]
    BY <2>2, <2>3
  <2> HIDE DEF b
  <2> QED
    BY <2>1, <2>4
<1>4. s \in Seq(Byte) /\ Len(s) = 2 /\ t \in Seq(Byte) /\ Len(t) = 2
  OBVIOUS
<1> HIDE DEF z, c, s, t
<1>5. /\ g \in [1 .. c -> Byte]
      /\ \A i \in 1 .. c : g[i] = IF i - 0 \in 1 .. Len(s) THEN s[i - 0] ELSE z[i]
  <2>1. \A j \in 1 .. Len(s) : s[j] \in Byte
    BY <1>4, ElementOfSeq
  <2>2. DOMAIN z = 1 .. c /\ \A i \in 1 .. c : z[i] \in Byte
    BY <1>2
  <2> QED
    BY <2>1, <2>2 DEF N!Copied
<1> HIDE DEF g
<1>6. /\ h \in [1 .. c -> Byte]
      /\ \A i \in 1 .. c : h[i] = IF i - 2 \in 1 .. Len(t) THEN t[i - 2] ELSE g[i]
  <2>1. \A j \in 1 .. Len(t) : t[j] \in Byte
    BY <1>4, ElementOfSeq
  <2>2. DOMAIN g = 1 .. c /\ \A i \in 1 .. c : g[i] \in Byte
    BY <1>5
  <2> QED
    BY <2>1, <2>2 DEF N!Copied
<1> HIDE DEF h
<1>7. /\ b \in [1 .. c -> Byte]
      /\ \A i \in 1 .. c : b[i] = IF i - 4 \in 1 .. Len(bytes) THEN bytes[i - 4] ELSE h[i]
  <2>1. \A j \in 1 .. Len(bytes) : bytes[j] \in Byte
    BY ElementOfSeq
  <2>2. DOMAIN h = 1 .. c /\ \A i \in 1 .. c : h[i] \in Byte
    BY <1>6
  <2> QED
    BY <2>1, <2>2 DEF N!Copied
<1> HIDE DEF b, l
<1>8. N!Sent(N!SendNode(id, bytes)) = SubSeq(b, 1, l)
  <2> DEFINE node12 == N!SendNode(id, bytes)
  <2>1. node12.data = b /\ node12.cur = 0 /\ node12.len = l /\ 0 + 1 = 1
    BY <1>3
  <2> HIDE DEF node12
  <2>2. N!Sent(node12) = SubSeq(node12.data, node12.cur + 1, node12.len)
    BY DEF N!Sent
  <2> QED
    BY <2>1, <2>2 DEF node12
<1>9. /\ SubSeq(b, 1, l) \in Seq(Byte) /\ Len(SubSeq(b, 1, l)) = l
      /\ \A i \in 1 .. l : SubSeq(b, 1, l)[i] = b[i]
  <2>1. l \in Int /\ 1 \in Int
    BY <1>1
  <2>2. \A i \in 1 .. l : b[i] \in Byte
    <3>1. \A i \in 1 .. l : i \in 1 .. c
      BY <1>1 DEF l, c
    <3> QED
      BY <1>7, <3>1
  <2>3. /\ SubSeq(b, 1, l) \in Seq(Byte)
        /\ Len(SubSeq(b, 1, l)) = IF 1 <= l THEN l - 1 + 1 ELSE 0
        /\ \A i \in 1 .. l - 1 + 1 : SubSeq(b, 1, l)[i] = b[1 + i - 1]
    BY <2>1, <2>2, SubSeqProperties
  <2>4. Len(SubSeq(b, 1, l)) = l
    BY <1>1, <2>3 DEF l
  <2>5. ASSUME NEW i \in 1 .. l PROVE SubSeq(b, 1, l)[i] = b[i]
    <3>1. i \in 1 .. l - 1 + 1 /\ 1 + i - 1 = i
      BY <1>1
    <3> QED
      BY <2>3, <3>1
  <2> QED
    BY <2>3, <2>4, <2>5
<1> HIDE DEF n
<1> DEFINE e == s \o t
           f == e \o bytes
<1>10. /\ e \in Seq(Byte) /\ Len(e) = 4
       /\ \A i \in 1 .. 4 : e[i] = IF i <= 2 THEN s[i] ELSE t[i - 2]
  <2>1. /\ s \o t \in Seq(Byte) /\ Len(s \o t) = Len(s) + Len(t)
        /\ \A i \in 1 .. Len(s) + Len(t) :
             (s \o t)[i] = IF i <= Len(s) THEN s[i] ELSE t[i - Len(s)]
    BY <1>4, ConcatProperties
  <2>2. Len(s) + Len(t) = 4 /\ Len(s) = 2
    BY <1>4
  <2> QED
    BY <2>1, <2>2
<1> HIDE DEF e
<1>11. /\ f \in Seq(Byte) /\ Len(f) = l
       /\ \A i \in 1 .. l : f[i] = IF i <= 4 THEN e[i] ELSE bytes[i - 4]
  <2>1. /\ e \o bytes \in Seq(Byte) /\ Len(e \o bytes) = Len(e) + Len(bytes)
        /\ \A i \in 1 .. Len(e) + Len(bytes) :
             (e \o bytes)[i] = IF i <= Len(e) THEN e[i] ELSE bytes[i - Len(e)]
    BY <1>10, ConcatProperties
  <2>2. Len(e) + Len(bytes) = l /\ Len(e) = 4
    BY <1>1, <1>10 DEF n, l
  <2> QED
    BY <2>1, <2>2
<1> HIDE DEF f
<1>12. ASSUME NEW i \in 1 .. l PROVE b[i] = f[i]
  <2>1. i \in 1 .. c /\ Len(bytes) = n /\ l = n + 4 /\ n \in Nat
    BY <1>1 DEF n, l, c
  <2>2. CASE i <= 2
    <3>1. /\ ~(i - 4 \in 1 .. Len(bytes)) /\ ~(i - 2 \in 1 .. Len(t))
          /\ i - 0 \in 1 .. Len(s) /\ i - 0 = i /\ i \in 1 .. 4 /\ i <= 4
      BY <1>4, <2>1, <2>2
    <3>2. b[i] = s[i]
      BY <1>5, <1>6, <1>7, <2>1, <3>1
    <3>3. f[i] = s[i]
      BY <1>10, <1>11, <2>2, <3>1
    <3> QED
      BY <3>2, <3>3
  <2>3. CASE ~(i <= 2) /\ i <= 4
    <3>1. /\ ~(i - 4 \in 1 .. Len(bytes)) /\ i - 2 \in 1 .. Len(t)
          /\ i \in 1 .. 4
      BY <1>4, <2>1, <2>3
    <3>2. b[i] = t[i - 2]
      BY <1>6, <1>7, <2>1, <3>1
    <3>3. f[i] = t[i - 2]
      BY <1>10, <1>11, <2>3, <3>1
    <3> QED
      BY <3>2, <3>3
  <2>4. CASE ~(i <= 4)
    <3>1. i - 4 \in 1 .. Len(bytes)
      BY <2>1, <2>4
    <3> QED
      BY <1>7, <1>11, <2>1, <2>4, <3>1
  <2> QED
    BY <2>2, <2>3, <2>4
<1>13. SubSeq(b, 1, l) = f
  <2>1. \A i \in 1 .. Len(SubSeq(b, 1, l)) : SubSeq(b, 1, l)[i] = f[i]
    BY <1>9, <1>12
  <2>2. SubSeq(b, 1, l) \in Seq(Byte) /\ f \in Seq(Byte) /\ Len(SubSeq(b, 1, l)) = Len(f)
    BY <1>9, <1>11
  <2> QED
    BY <2>1, <2>2, SeqEqual
<1> QED
  BY <1>8, <1>13 DEF s, t, e, f

\* The shorts a server writes are those it reads.
LEMMA NodeShorts ==
  ASSUME NEW n \in TwoBytes
  PROVE  /\ chapter = 8 => N!HostShort(n) = Short(n)
         /\ chapter # 8 => N!NetShort(n) = Short(n)
         /\ N!HostShort(n) \in Seq(Byte) /\ Len(N!HostShort(n)) = 2
         /\ N!NetShort(n) \in Seq(Byte) /\ Len(N!NetShort(n)) = 2
<1> DEFINE lo == n % 256
           hi == n \div 256
<1>1. lo \in Byte /\ hi \in Byte
  BY DivMod
<1>2. /\ N!HostShort(n) = <<lo, hi>> /\ N!NetShort(n) = <<hi, lo>>
      /\ Short(n) = IF chapter = 8 THEN <<lo, hi>> ELSE <<hi, lo>>
  BY DEF N!HostShort, N!NetShort, Short
<1> HIDE DEF lo, hi
<1>3. /\ <<lo, hi>> \in Seq(Byte) /\ Len(<<lo, hi>>) = 2
      /\ <<hi, lo>> \in Seq(Byte) /\ Len(<<hi, lo>>) = 2
  BY <1>1, TwoBytesType
<1> QED
  BY <1>2, <1>3

LEMMA NodesReadable ==
  ASSUME NEW m \in Framed, Whole(m), chapter \in 8 .. 15
  PROVE  Readable(m)
<1> DEFINE d == m.data
           n == Len(m.data)
<1>1. m.id \in TwoBytes /\ n \in TwoBytes /\ d \in Seq(Byte) /\ m.len = n
  BY FramedFields DEF Whole
<1>2. Bytes(m) = Header(m.id, n) \o d
  BY <1>1 DEF Bytes
<1>3. CASE chapter = 8
  <2>1. N!Node(chapter, m.id, d) = N!WithLength(N!HostShort(n), d)
    BY <1>3 DEF N!Node, N!MsgNode8
  <2>2. Bytes(m) = Short(n) \o d
    BY <1>2, <1>3 DEF Header
  <2>3. N!HostShort(n) = Short(n) /\ N!HostShort(n) \in Seq(Byte) /\ Len(N!HostShort(n)) = 2
    BY <1>1, <1>3, NodeShorts
  <2>4. N!Sent(N!WithLength(N!HostShort(n), d)) = N!HostShort(n) \o d
    BY <1>1, <2>3, NodeWithLength
  <2> QED
    BY <2>1, <2>2, <2>3, <2>4 DEF Readable
<1>4. CASE chapter \in 9 .. 11
  <2>1. N!Node(chapter, m.id, d) = N!WithLength(N!NetShort(n), d)
    <3>1. chapter = 9 \/ chapter = 10 \/ chapter = 11
      BY <1>4
    <3> QED
      BY <3>1 DEF N!Node, N!MsgNode9, N!MsgNode10, N!MsgNode11
  <2>2. Bytes(m) = Short(n) \o d
    <3>1. chapter <= 11
      BY <1>4
    <3> HIDE DEF n, d
    <3> QED
      BY <1>2, <3>1, Zenon DEF Header
  <2>3. N!NetShort(n) = Short(n) /\ N!NetShort(n) \in Seq(Byte) /\ Len(N!NetShort(n)) = 2
    BY <1>1, <1>4, NodeShorts
  <2>4. N!Sent(N!WithLength(N!NetShort(n), d)) = N!NetShort(n) \o d
    BY <1>1, <2>3, NodeWithLength
  <2> QED
    BY <2>1, <2>2, <2>3, <2>4 DEF Readable
<1>5. CASE chapter \in 12 .. 15
  <2>1. N!Node(chapter, m.id, d) = N!SendNode(m.id, d)
    <3>1. chapter = 12 \/ chapter = 13 \/ chapter = 14 \/ chapter = 15
      BY <1>5
    <3> QED
      BY <3>1 DEF N!Node, N!MsgNode12, N!MsgNode13, N!MsgNode14, N!MsgNode15
  <2>2. Bytes(m) = (Short(m.id) \o Short(n)) \o d
    <3>1. ~(chapter <= 11)
      BY <1>5
    <3> HIDE DEF n, d
    <3> QED
      BY <1>2, <3>1, Zenon DEF Header
  <2>3. /\ N!NetShort(n) = Short(n) /\ N!NetShort(n) \in Seq(Byte) /\ Len(N!NetShort(n)) = 2
        /\ N!NetShort(m.id) = Short(m.id) /\ N!NetShort(m.id) \in Seq(Byte)
        /\ Len(N!NetShort(m.id)) = 2
    BY <1>1, <1>5, NodeShorts
  <2>4. N!Sent(N!SendNode(m.id, d)) = (N!NetShort(m.id) \o N!NetShort(n)) \o d
    BY <1>1, <2>3, NodeWithId
  <2> QED
    BY <2>1, <2>2, <2>3, <2>4 DEF Readable
<1> QED
  BY <1>3, <1>4, <1>5

\* The answers to a stream read in step reach the peer whole, in the order of
\* its messages and none twice, and it can read them as the server reads its
\* messages: for all streams, cuts of them into reads and of the answers into
\* writes, limits of the queue and failures (handle_read, the logic layer,
\* Send and handle_write of 8 to 15).
THEOREM FramedEchoes == FramedSpec => []EchoesInOrder
<1>1. FramedInv => EchoesInOrder
  <2> SUFFICES ASSUME FramedInv PROVE EchoesInOrder
    OBVIOUS
  <2>1. ASSUME NEW i \in 1 .. Len(posted) PROVE Readable(posted[i])
    <3>1. posted \in Seq(Framed) /\ chapter \in 8 .. 15 /\ Whole(posted[i])
      BY DEF FramedInv, ReadInv, ReadType, PostedInv
    <3>2. posted[i] \in Framed
      BY <3>1, ElementOfSeq
    <3> QED
      BY <3>1, <3>2, NodesReadable
  <2> QED
    BY <2>1, OutInOrder DEF EchoesInOrder
<1> QED
  BY <1>1, FramedInvariance, PTL
=============================================================================

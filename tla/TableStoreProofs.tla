-------------------------- MODULE TableStoreProofs --------------------------
(***************************************************************************)
(* Proofs about TableStore for all identifiers, times, values and columns: *)
(* keys can be read again, and therefore tell apart what they are built    *)
(* from, with a terminator after each text being what it takes; queries by *)
(* prefix and by range are exact; and the table implements DataStore.      *)
(***************************************************************************)
EXTENDS TableStore, FiniteSetTheorems, SequenceTheorems, TLAPS

------------------------------------------------------------------------------
(* Numbers.                                                                 *)

Byte == 0 .. 255
Text == Seq(1 .. 255)
Uint16 == 0 .. MaxUint16
Time == 0 .. MaxTime

LEMMA Limits == MaxTime \in Nat /\ MaxUint16 \in Nat /\ MaxTime < 2147483648 /\ MaxUint16 < 65536
BY SMT DEF MaxTime, MaxUint16

\* A number is its last byte and what is above it.
LEMMA LastByte ==
  ASSUME NEW n \in Nat
  PROVE  /\ n % 256 \in Byte /\ n \div 256 \in Nat
         /\ n = 256 * (n \div 256) + (n % 256)
BY DEF Byte

LEMMA SmallNumber ==
  ASSUME NEW n \in Byte
  PROVE  n % 256 = n
BY DEF Byte

\* Two bytes are a number of sixteen bits.
LEMMA TwoBytes ==
  ASSUME NEW p \in Uint16
  PROVE  /\ p % 256 \in Byte /\ (p \div 256) % 256 \in Byte
         /\ p = (p % 256) + 256 * ((p \div 256) % 256)
<1> DEFINE q == p \div 256
           r == p % 256
<1>1. p \in Nat /\ p < 65536
  BY Limits, SMT DEF Uint16
<1>2. p = 256 * q + r /\ q \in Nat /\ r \in Byte
  BY <1>1, LastByte
<1> HIDE DEF q, r
<1>3. q \in Byte
  BY <1>1, <1>2, SMT DEF Byte
<1>4. q % 256 = q
  BY <1>3, SmallNumber
<1>5. p = r + 256 * q
  BY <1>1, <1>2, SMT DEF Byte
<1> QED
  BY <1>2, <1>3, <1>4, <1>5, Zenon DEF q, r

\* Four bytes are a number of thirty-two bits.
LEMMA FourBytes ==
  ASSUME NEW t \in Time
  PROVE  LET high == (t \div 256) \div 256
             a == (high \div 256) % 256  b == high % 256
             c == (t \div 256) % 256     d == t % 256
         IN  /\ a \in Byte /\ b \in Byte /\ c \in Byte /\ d \in Byte
             /\ t = 256 * (256 * (256 * a + b) + c) + d
<1> DEFINE q == t \div 256
           s == q \div 256
           u == s \div 256
           c == q % 256
           b == s % 256
           d == t % 256
<1>1. t \in Nat /\ t < 2147483648
  BY Limits, SMT DEF Time
<1>2. t = 256 * q + d /\ q \in Nat /\ d \in Byte
  BY <1>1, LastByte
<1>3. q = 256 * s + c /\ s \in Nat /\ c \in Byte
  <2> HIDE DEF q
  <2> QED BY <1>2, LastByte
<1>4. s = 256 * u + b /\ u \in Nat /\ b \in Byte
  <2> HIDE DEF s
  <2> QED BY <1>3, LastByte
<1>5. u \in Byte /\ t = 256 * (256 * (256 * u + b) + c) + d
  <2> HIDE DEF q, s, u, b, c, d
  <2> QED BY <1>1, <1>2, <1>3, <1>4, SMT DEF Byte
<1>6. u % 256 = u
  BY <1>5, SmallNumber
<1> QED
  BY <1>2, <1>3, <1>4, <1>5, <1>6

LEMMA ByteRange ==
  \A n : n \in Byte <=> n \in Nat /\ n < 256
BY DEF Byte

------------------------------------------------------------------------------
(* Texts in keys.                                                           *)

\* A key that has a text, and its terminator, after some bytes.
HasText(sk, n, text) ==
  /\ Len(sk) >= n + Len(text) + 1
  /\ \A i \in 1 .. Len(text) : sk[n + i] = text[i]
  /\ sk[n + Len(text) + 1] = 0

LEMMA TextBytes ==
  ASSUME NEW text \in Text
  PROVE  /\ Len(text) \in Nat
         /\ \A i \in 1 .. Len(text) : text[i] \in Byte /\ text[i] # 0
<1>1. \A b \in 1 .. 255 : b \in Byte /\ b # 0
  BY DEF Byte
<1>2. Len(text) \in Nat /\ \A i \in 1 .. Len(text) : text[i] \in 1 .. 255
  <2> DEFINE S == 1 .. 255
  <2>1. text \in Seq(S)
    BY DEF Text
  <2> HIDE DEF S
  <2>2. Len(text) \in Nat /\ \A i \in 1 .. Len(text) : text[i] \in S
    BY <2>1
  <2> QED
    BY <2>2 DEF S
<1> QED
  BY <1>1, <1>2

\* What is read from it is the text.
LEMMA TextRead ==
  ASSUME NEW sk \in Seq(Byte), NEW n \in Nat, NEW text \in Text,
         HasText(sk, n, text)
  PROVE  /\ TextEnd(sk, n + 1) = n + Len(text) + 1
         /\ SubSeq(sk, n + 1, TextEnd(sk, n + 1) - 1) = text
<1> DEFINE end == n + Len(text) + 1
<1>1. end \in n + 1 .. Len(sk) /\ sk[end] = 0
  BY TextBytes DEF HasText
<1>2. \A j \in n + 1 .. end - 1 : sk[j] # 0
  <2> SUFFICES ASSUME NEW j \in n + 1 .. end - 1 PROVE sk[j] # 0
    OBVIOUS
  <2>1. j - n \in 1 .. Len(text) /\ j = n + (j - n)
    BY TextBytes
  <2>2. sk[j] = text[j - n] /\ text[j - n] # 0
    BY <2>1, TextBytes DEF HasText
  <2> QED
    BY <2>2
<1>3. \A i \in n + 1 .. Len(sk) :
        sk[i] = 0 /\ (\A j \in n + 1 .. i - 1 : sk[j] # 0) => i = end
  BY <1>1, <1>2
<1>4. TextEnd(sk, n + 1) = end
  BY <1>1, <1>2, <1>3 DEF TextEnd
<1>5. SubSeq(sk, n + 1, end - 1) = text
  <2> DEFINE S == 1 .. 255
  <2>1. text \in Seq(S)
    BY DEF Text
  <2> HIDE DEF S
  <2> QED
    BY <1>1, <2>1 DEF HasText
<1> QED
  BY <1>4, <1>5

\* One key holds one text.
LEMMA OneText ==
  ASSUME NEW sk \in Seq(Byte), NEW n \in Nat, NEW s \in Text, NEW t \in Text,
         HasText(sk, n, s), HasText(sk, n, t)
  PROVE  s = t
<1>1. SubSeq(sk, n + 1, TextEnd(sk, n + 1) - 1) = s
  BY TextRead
<1>2. SubSeq(sk, n + 1, TextEnd(sk, n + 1) - 1) = t
  BY TextRead
<1> QED
  BY <1>1, <1>2

LEMMA BytesAre ==
  /\ \A v : Bytes("utf8", v) = v \o <<0>>
  /\ \A v : Bytes("uint8", v) = <<v % 256>>
  /\ \A v : Bytes("uint16le", v) = <<v % 256, (v \div 256) % 256>>
BY DEF Bytes

\* The parts of a concatenation.
LEMMA Joined ==
  ASSUME NEW a \in Seq(Byte), NEW b \in Seq(Byte)
  PROVE  /\ a \o b \in Seq(Byte)
         /\ Len(a) \in Nat /\ Len(b) \in Nat
         /\ Len(a \o b) = Len(a) + Len(b)
         /\ \A i \in 1 .. Len(a) : (a \o b)[i] = a[i]
         /\ \A i \in 1 .. Len(b) : (a \o b)[Len(a) + i] = b[i]
<1>1. /\ a \o b \in Seq(Byte)
      /\ Len(a \o b) = Len(a) + Len(b)
      /\ \A i \in 1 .. Len(a) + Len(b) :
           (a \o b)[i] = IF i <= Len(a) THEN a[i] ELSE b[i - Len(a)]
  BY ConcatProperties
<1>2. Len(a) \in Nat /\ Len(b) \in Nat
  BY LenProperties
<1>3. ASSUME NEW i \in 1 .. Len(a) PROVE (a \o b)[i] = a[i]
  BY <1>1, <1>2
<1>4. ASSUME NEW i \in 1 .. Len(b) PROVE (a \o b)[Len(a) + i] = b[i]
  <2>1. /\ Len(a) + i \in 1 .. Len(a) + Len(b) /\ ~(Len(a) + i <= Len(a))
        /\ (Len(a) + i) - Len(a) = i
    BY <1>2
  <2> QED
    BY <1>1, <2>1
<1> QED
  BY <1>1, <1>2, <1>3, <1>4

LEMMA OneByte ==
  ASSUME NEW b \in Byte
  PROVE  <<b>> \in Seq(Byte) /\ Len(<<b>>) = 1 /\ <<b>>[1] = b
<1>1. \A S : b \in S => <<b>> \in Seq(S)
  OBVIOUS
<1> QED
  BY <1>1

LEMMA TwoBytesKey ==
  ASSUME NEW b1 \in Byte, NEW b2 \in Byte
  PROVE  /\ <<b1, b2>> \in Seq(Byte) /\ Len(<<b1, b2>>) = 2
         /\ <<b1, b2>>[1] = b1 /\ <<b1, b2>>[2] = b2
         /\ 1 \in 1 .. Len(<<b1, b2>>) /\ 2 \in 1 .. Len(<<b1, b2>>)
<1>1. \A S : b1 \in S /\ b2 \in S => <<b1, b2>> \in Seq(S)
  OBVIOUS
<1> QED
  BY <1>1

LEMMA TextIsBytes ==
  ASSUME NEW text \in Text
  PROVE  text \in Seq(Byte)
<1> DEFINE S == 1 .. 255
<1>1. S \subseteq Byte
  BY DEF Byte
<1>2. text \in Seq(S)
  BY DEF Text
<1> HIDE DEF S
<1> QED
  BY <1>1, <1>2, SeqMonotonic

\* A text with its terminator, alone and after some bytes.
LEMMA TextClosed ==
  ASSUME NEW text \in Text
  PROVE  LET t0 == text \o <<0>>
         IN  /\ t0 \in Seq(Byte) /\ Len(t0) = Len(text) + 1
             /\ t0[Len(text) + 1] = 0 /\ \A i \in 1 .. Len(text) : t0[i] = text[i]
             /\ HasText(t0, 0, text)
<1> DEFINE t0 == text \o <<0>>
<1>1. text \in Seq(Byte) /\ <<0>> \in Seq(Byte) /\ Len(<<0>>) = 1 /\ <<0>>[1] = 0
  BY TextIsBytes, OneByte, ByteRange
<1>2. /\ t0 \in Seq(Byte) /\ Len(t0) = Len(text) + 1 /\ t0[Len(text) + 1] = 0
      /\ \A i \in 1 .. Len(text) : t0[i] = text[i]
  <2>1. 1 \in 1 .. Len(<<0>>)
    BY <1>1
  <2> QED BY <1>1, <2>1, Joined
<1> HIDE DEF t0
<1>3. HasText(t0, 0, text)
  BY <1>2, TextBytes DEF HasText
<1> QED
  BY <1>2, <1>3 DEF t0

LEMMA TextLast ==
  ASSUME NEW before \in Seq(Byte), NEW text \in Text
  PROVE  LET s == before \o (text \o <<0>>)
         IN  /\ s \in Seq(Byte) /\ Len(s) = Len(before) + Len(text) + 1
             /\ \A i \in 1 .. Len(before) : s[i] = before[i]
             /\ HasText(s, Len(before), text)
<1> DEFINE t0 == text \o <<0>>
           s == before \o t0
<1>1. /\ t0 \in Seq(Byte) /\ Len(t0) = Len(text) + 1 /\ t0[Len(text) + 1] = 0
      /\ \A i \in 1 .. Len(text) : t0[i] = text[i]
  BY TextClosed
<1> HIDE DEF t0
<1>2. /\ s \in Seq(Byte) /\ Len(before) \in Nat
      /\ Len(s) = Len(before) + Len(t0)
      /\ \A i \in 1 .. Len(before) : s[i] = before[i]
      /\ \A i \in 1 .. Len(t0) : s[Len(before) + i] = t0[i]
  BY <1>1, Joined
<1> HIDE DEF s
<1>3. Len(text) \in Nat
  BY TextBytes
<1>4. Len(s) = Len(before) + Len(text) + 1
  BY <1>1, <1>2, <1>3
<1>5. ASSUME NEW i \in 1 .. Len(text) PROVE s[Len(before) + i] = text[i]
  BY <1>1, <1>2, <1>3
<1>6. s[Len(before) + Len(text) + 1] = 0
  <2>1. Len(text) + 1 \in 1 .. Len(t0)
        /\ Len(before) + (Len(text) + 1) = Len(before) + Len(text) + 1
    BY <1>1, <1>2, <1>3
  <2> QED
    BY <1>1, <1>2, <2>1
<1>7. HasText(s, Len(before), text)
  BY <1>2, <1>3, <1>4, <1>5, <1>6 DEF HasText
<1> QED
  BY <1>2, <1>4, <1>7 DEF s, t0

\* More bytes behind it leave it as it is.
LEMMA TextStays ==
  ASSUME NEW a \in Seq(Byte), NEW b \in Seq(Byte), NEW n \in Nat,
         NEW text \in Text, HasText(a, n, text)
  PROVE  HasText(a \o b, n, text)
<1> DEFINE ab == a \o b
<1>1. /\ Len(a) \in Nat /\ Len(b) \in Nat /\ Len(ab) = Len(a) + Len(b)
      /\ \A i \in 1 .. Len(a) : ab[i] = a[i]
  BY Joined
<1> HIDE DEF ab
<1>2. HasText(ab, n, text)
  BY <1>1, TextBytes DEF HasText
<1> QED
  BY <1>2 DEF ab

------------------------------------------------------------------------------
(* What keys are built from can be read from them.                          *)

LEMMA IdTypes ==
  /\ DeviceId \subseteq Text /\ ConnectionId \subseteq Text /\ Endpoint \subseteq Text
  /\ ControllerId \subseteq Byte /\ PropertyId \subseteq Uint16
  /\ Second \subseteq Time /\ None \notin Value
BY StoreAssumption, Zenon DEF Text, Byte, Uint16, Time

LEMMA DeviceKey ==
  ASSUME NEW d \in Text
  PROVE  /\ DeviceSk(d) \in Seq(Byte) /\ Len(DeviceSk(d)) = Len(d) + 2
         /\ DeviceSk(d)[1] = 0 /\ HasText(DeviceSk(d), 1, d)
         /\ ParsesDevice(DeviceSk(d)) /\ DeviceIn(DeviceSk(d)) = d
<1>1. <<0>> \in Seq(Byte) /\ Len(<<0>>) = 1 /\ <<0>>[1] = 0
  BY OneByte, ByteRange
<1>2. DeviceSk(d) = <<0>> \o (d \o <<0>>)
  BY BytesAre, Zenon DEF DeviceSk
<1>3. /\ DeviceSk(d) \in Seq(Byte) /\ Len(DeviceSk(d)) = 1 + Len(d) + 1
      /\ DeviceSk(d)[1] = 0 /\ HasText(DeviceSk(d), 1, d)
  <2> DEFINE s == <<0>> \o (d \o <<0>>)
  <2>1. 1 \in 1 .. Len(<<0>>)
    BY <1>1
  <2>2. s \in Seq(Byte) /\ Len(s) = 1 + Len(d) + 1 /\ s[1] = 0 /\ HasText(s, 1, d)
    BY <1>1, <2>1, TextLast
  <2> QED
    BY <1>2, <2>2, Zenon
<1>4. /\ TextEnd(DeviceSk(d), 2) = 1 + Len(d) + 1
      /\ SubSeq(DeviceSk(d), 2, TextEnd(DeviceSk(d), 2) - 1) = d
  BY <1>3, TextRead, 1 + 1 = 2
<1>5. Len(d) \in Nat
  BY TextBytes
<1>6. 1 + Len(d) + 1 = Len(d) + 2 /\ 1 + Len(d) + 1 # 0
  BY <1>5
<1> QED
  BY <1>3, <1>4, <1>6 DEF ParsesDevice, DeviceIn

LEMMA NameKey ==
  ASSUME NEW name \in Text
  PROVE  ParsesName(NameSk(name)) /\ NameIn(NameSk(name)) = name
<1>1. NameSk(name) = name \o <<0>>
  BY BytesAre, Zenon DEF NameSk
<1>2. NameSk(name) \in Seq(Byte) /\ HasText(NameSk(name), 0, name)
  BY <1>1, TextClosed
<1>3. /\ TextEnd(NameSk(name), 1) = 0 + Len(name) + 1
      /\ SubSeq(NameSk(name), 1, TextEnd(NameSk(name), 1) - 1) = name
  BY <1>2, TextRead, 0 + 1 = 1
<1>4. 0 + Len(name) + 1 # 0
  BY TextBytes
<1> QED
  BY <1>3, <1>4 DEF ParsesName, NameIn

\* A flag is a byte.
Flag(desired) == IF desired THEN 1 ELSE 0

LEMMA FlagByte ==
  ASSUME NEW desired \in BOOLEAN
  PROVE  Flag(desired) \in Byte /\ (Flag(desired) = 1) = desired
         /\ Flag(desired) % 256 = Flag(desired)
<1>1. Flag(desired) \in Byte
  BY DEF Flag, Byte
<1> QED
  BY <1>1, SmallNumber DEF Flag

\* The numbers of a controller and of a property behind other bytes.
LEMMA IdsBehind ==
  ASSUME NEW s \in Seq(Byte), NEW n \in Nat, Len(s) = n,
         NEW c \in Byte, NEW lo \in Byte, NEW hi \in Byte
  PROVE  LET k == (s \o <<c>>) \o <<lo, hi>>
         IN  /\ k \in Seq(Byte) /\ Len(k) = n + 3
             /\ \A i \in 1 .. n : k[i] = s[i]
             /\ k[n + 1] = c /\ k[n + 2] = lo /\ k[n + 3] = hi
             /\ \A m \in Nat, text \in Text : HasText(s, m, text) => HasText(k, m, text)
<1> DEFINE s2 == s \o <<c>>
           k == s2 \o <<lo, hi>>
<1>1. /\ s2 \in Seq(Byte) /\ Len(s2) = n + 1 /\ s2[n + 1] = c
      /\ \A i \in 1 .. n : s2[i] = s[i]
      /\ \A m \in Nat, text \in Text : HasText(s, m, text) => HasText(s2, m, text)
  <2>1. <<c>> \in Seq(Byte) /\ Len(<<c>>) = 1 /\ <<c>>[1] = c /\ 1 \in 1 .. Len(<<c>>)
    BY OneByte
  <2>2. /\ s2 \in Seq(Byte) /\ Len(s2) = n + 1 /\ s2[n + 1] = c
        /\ \A i \in 1 .. n : s2[i] = s[i]
    BY <2>1, Joined
  <2> QED
    BY <2>1, <2>2, TextStays
<1> HIDE DEF s2
<1>2. /\ k \in Seq(Byte) /\ Len(k) = n + 3
      /\ \A i \in 1 .. n : k[i] = s[i]
      /\ k[n + 1] = c /\ k[n + 2] = lo /\ k[n + 3] = hi
      /\ \A m \in Nat, text \in Text : HasText(s, m, text) => HasText(k, m, text)
  <2>1. /\ <<lo, hi>> \in Seq(Byte) /\ Len(<<lo, hi>>) = 2
        /\ <<lo, hi>>[1] = lo /\ <<lo, hi>>[2] = hi
        /\ 1 \in 1 .. Len(<<lo, hi>>) /\ 2 \in 1 .. Len(<<lo, hi>>)
    BY TwoBytesKey
  <2> DEFINE w == <<lo, hi>>
  <2>2. /\ k \in Seq(Byte) /\ Len(k) = (n + 1) + 2
        /\ k[(n + 1) + 1] = lo /\ k[(n + 1) + 2] = hi
        /\ \A i \in 1 .. n + 1 : k[i] = s2[i]
    <3>1. k = s2 \o w
      OBVIOUS
    <3> HIDE DEF w, k
    <3>2. w \in Seq(Byte) /\ Len(w) = 2 /\ w[1] = lo /\ w[2] = hi
          /\ 1 \in 1 .. Len(w) /\ 2 \in 1 .. Len(w)
      BY <2>1 DEF w
    <3>3. /\ k \in Seq(Byte) /\ Len(k) = Len(s2) + Len(w)
          /\ \A i \in 1 .. Len(s2) : k[i] = s2[i]
          /\ \A i \in 1 .. Len(w) : k[Len(s2) + i] = w[i]
      BY <1>1, <3>1, <3>2, Joined
    <3> QED
      BY <1>1, <3>2, <3>3
  <2>3. \A i \in 1 .. n : k[i] = s[i]
    BY <1>1, <2>2
  <2>4. n + 1 \in 1 .. n + 1 /\ (n + 1) + 1 = n + 2 /\ (n + 1) + 2 = n + 3
    OBVIOUS
  <2>5. \A m \in Nat, text \in Text : HasText(s, m, text) => HasText(k, m, text)
    BY <1>1, <2>1, TextStays
  <2> QED
    BY <1>1, <2>2, <2>3, <2>4, <2>5
<1> QED
  BY <1>2 DEF s2, k

LEMMA PropertyKey ==
  ASSUME NEW d \in Text, NEW c \in Byte, NEW p \in Uint16, NEW desired \in BOOLEAN
  PROVE  LET sk == PropertySk(d, c, p, desired)
         IN  /\ sk \in Seq(Byte) /\ sk[1] = 1 /\ HasText(sk, 1, d)
             /\ ParsesProperty(sk) /\ DeviceIn(sk) = d /\ ControllerIn(sk) = c
             /\ PropertyIn(sk) = p /\ DesiredIn(sk) = desired
<1> DEFINE lo == p % 256
           hi == (p \div 256) % 256
           f == Flag(desired)
           s1 == <<1>> \o (d \o <<0>>)
           s3 == (s1 \o <<c>>) \o <<lo, hi>>
           s4 == s3 \o <<f>>
<1>1. lo \in Byte /\ hi \in Byte /\ p = lo + 256 * hi
  BY TwoBytes
<1>2. f \in Byte /\ (f = 1) = desired /\ f % 256 = f
  BY FlagByte
<1>3. c % 256 = c
  BY SmallNumber
<1>4. PropertySk(d, c, p, desired) = s4
  <2>1. PropertySk(d, c, p, desired) =
          (((<<1>> \o (d \o <<0>>)) \o <<c % 256>>) \o <<lo, hi>>) \o <<f % 256>>
    <3>1. PropertySk(d, c, p, desired) =
            <<1>> \o Bytes("utf8", d) \o Bytes("uint8", c) \o Bytes("uint16le", p)
              \o Bytes("uint8", f)
      BY Zenon DEF PropertySk, Flag
    <3>2. /\ Bytes("utf8", d) = d \o <<0>> /\ Bytes("uint8", c) = <<c % 256>>
          /\ Bytes("uint16le", p) = <<lo, hi>> /\ Bytes("uint8", f) = <<f % 256>>
      BY BytesAre, Zenon
    <3> QED
      BY <3>1, <3>2, Zenon
  <2> QED
    BY <1>2, <1>3, <2>1, Zenon
<1> HIDE DEF lo, hi, f
<1>5. Len(d) \in Nat
  BY TextBytes
<1>6. s1 \in Seq(Byte) /\ Len(s1) = Len(d) + 2 /\ s1[1] = 1 /\ HasText(s1, 1, d)
  <2>1. <<1>> \in Seq(Byte) /\ Len(<<1>>) = 1 /\ <<1>>[1] = 1 /\ 1 \in 1 .. Len(<<1>>)
    BY OneByte, ByteRange
  <2>2. /\ s1 \in Seq(Byte) /\ Len(s1) = 1 + Len(d) + 1
        /\ s1[1] = 1 /\ HasText(s1, 1, d)
    BY <2>1, TextLast
  <2> QED
    BY <1>5, <2>2
<1> HIDE DEF s1
<1>7. /\ s3 \in Seq(Byte) /\ Len(s3) = Len(d) + 5 /\ s3[1] = 1 /\ HasText(s3, 1, d)
      /\ s3[Len(d) + 3] = c /\ s3[Len(d) + 4] = lo /\ s3[Len(d) + 5] = hi
  <2> DEFINE n == Len(d) + 2
  <2>1. n \in Nat /\ 1 \in 1 .. n
    BY <1>5
  <2>2. Len(s1) = n
    BY <1>6
  <2>3. /\ n + 1 = Len(d) + 3 /\ n + 2 = Len(d) + 4 /\ n + 3 = Len(d) + 5
    BY <1>5
  <2> HIDE DEF n
  <2>4. /\ s3 \in Seq(Byte) /\ Len(s3) = n + 3
        /\ \A i \in 1 .. n : s3[i] = s1[i]
        /\ s3[n + 1] = c /\ s3[n + 2] = lo /\ s3[n + 3] = hi
        /\ \A m \in Nat, text \in Text : HasText(s1, m, text) => HasText(s3, m, text)
    BY <1>1, <1>6, <2>1, <2>2, IdsBehind
  <2> QED
    BY <1>6, <2>1, <2>3, <2>4
<1> HIDE DEF s3
<1>8. /\ s4 \in Seq(Byte) /\ Len(s4) = Len(d) + 6 /\ s4[1] = 1 /\ HasText(s4, 1, d)
      /\ s4[Len(d) + 3] = c /\ s4[Len(d) + 4] = lo /\ s4[Len(d) + 5] = hi
      /\ s4[Len(d) + 6] = f
  <2>1. <<f>> \in Seq(Byte) /\ Len(<<f>>) = 1 /\ <<f>>[1] = f /\ 1 \in 1 .. Len(<<f>>)
    BY <1>2, OneByte
  <2>2. s4 \in Seq(Byte) /\ Len(s4) = Len(s3) + 1 /\ s4[Len(s3) + 1] = f
    BY <1>7, <2>1, Joined
  <2>3. 1 \in 1 .. Len(s3) /\ Len(d) + 3 \in 1 .. Len(s3)
        /\ Len(d) + 4 \in 1 .. Len(s3) /\ Len(d) + 5 \in 1 .. Len(s3)
    BY <1>5, <1>7
  <2>4. s4[1] = s3[1] /\ s4[Len(d) + 3] = s3[Len(d) + 3]
        /\ s4[Len(d) + 4] = s3[Len(d) + 4] /\ s4[Len(d) + 5] = s3[Len(d) + 5]
    BY <1>7, <2>1, <2>3, Joined
  <2>5. HasText(s4, 1, d)
    BY <1>7, <2>1, TextStays
  <2>6. (Len(d) + 5) + 1 = Len(d) + 6
    BY <1>5
  <2> QED
    BY <1>7, <2>2, <2>4, <2>5, <2>6
<1> HIDE DEF s4
<1>9. TextEnd(s4, 2) = Len(d) + 2 /\ SubSeq(s4, 2, TextEnd(s4, 2) - 1) = d
  <2>1. /\ TextEnd(s4, 2) = 1 + Len(d) + 1
        /\ SubSeq(s4, 2, TextEnd(s4, 2) - 1) = d
    BY <1>8, TextRead, 1 + 1 = 2
  <2> QED
    BY <1>5, <2>1
<1>10. /\ Len(d) + 2 # 0 /\ (Len(d) + 2) + 4 = Len(d) + 6 /\ Len(d) + 6 >= Len(d) + 6
       /\ (Len(d) + 2) + 1 = Len(d) + 3 /\ (Len(d) + 2) + 2 = Len(d) + 4
       /\ (Len(d) + 2) + 3 = Len(d) + 5
  BY <1>5
<1>11. ParsesProperty(s4) /\ DeviceIn(s4) = d
  BY <1>8, <1>9, <1>10 DEF ParsesProperty, ParsesDevice, DeviceIn
<1>12. ControllerIn(s4) = c
  BY <1>8, <1>9, <1>10 DEF ControllerIn
<1>13. PropertyIn(s4) = p
  BY <1>1, <1>8, <1>9, <1>10 DEF PropertyIn
<1>14. DesiredIn(s4) = desired
  BY <1>2, <1>8, <1>9, <1>10 DEF DesiredIn
<1> QED
  BY <1>4, <1>8, <1>11, <1>12, <1>13, <1>14

LEMMA HistoryStart ==
  ASSUME NEW d \in Text
  PROVE  LET s == <<0, 2>> \o (d \o <<0>>)
         IN  /\ s \in Seq(Byte) /\ Len(s) = Len(d) + 3
             /\ s[2] = 2 /\ HasText(s, 2, d)
<1> DEFINE s == <<0, 2>> \o (d \o <<0>>)
<1>1. /\ <<0, 2>> \in Seq(Byte) /\ Len(<<0, 2>>) = 2
      /\ <<0, 2>>[2] = 2 /\ 2 \in 1 .. Len(<<0, 2>>)
  BY TwoBytesKey, ByteRange
<1>2. /\ s \in Seq(Byte) /\ Len(s) = 2 + Len(d) + 1
      /\ s[2] = 2 /\ HasText(s, 2, d)
  BY <1>1, TextLast
<1>3. 2 + Len(d) + 1 = Len(d) + 3
  BY TextBytes
<1> QED
  BY <1>2, <1>3

LEMMA DeviceHistoryKey ==
  ASSUME NEW d \in Text
  PROVE  /\ DeviceHistoryPk(d) \in Seq(Byte)
         /\ Len(DeviceHistoryPk(d)) = Len(d) + 3
         /\ HasText(DeviceHistoryPk(d), 2, d)
<1>1. DeviceHistoryPk(d) = <<0, 2>> \o (d \o <<0>>)
  BY BytesAre, Zenon DEF DeviceHistoryPk
<1> QED
  BY <1>1, HistoryStart, Zenon

LEMMA PropertyHistoryKey ==
  ASSUME NEW d \in Text, NEW c \in Byte, NEW p \in Uint16
  PROVE  LET pk == PropertyHistoryPk(d, c, p)
         IN  /\ pk \in Seq(Byte) /\ Len(pk) = Len(d) + 6
             /\ pk[2] = 2 /\ HasText(pk, 2, d) /\ pk[Len(d) + 4] = c
             /\ pk[Len(d) + 5] = p % 256 /\ pk[Len(d) + 6] = (p \div 256) % 256
<1> DEFINE lo == p % 256
           hi == (p \div 256) % 256
           s == <<0, 2>> \o (d \o <<0>>)
           n == Len(d) + 3
           k == (s \o <<c>>) \o <<lo, hi>>
<1>1. lo \in Byte /\ hi \in Byte
  BY TwoBytes
<1>2. PropertyHistoryPk(d, c, p) = k
  <2>1. c % 256 = c
    BY SmallNumber
  <2>2. PropertyHistoryPk(d, c, p) =
          <<0, 2>> \o Bytes("utf8", d) \o Bytes("uint8", c) \o Bytes("uint16le", p)
    BY Zenon DEF PropertyHistoryPk
  <2>3. /\ Bytes("utf8", d) = d \o <<0>> /\ Bytes("uint8", c) = <<c % 256>>
        /\ Bytes("uint16le", p) = <<lo, hi>>
    BY BytesAre, Zenon
  <2> QED
    BY <2>1, <2>2, <2>3, Zenon
<1> HIDE DEF lo, hi
<1>3. s \in Seq(Byte) /\ Len(s) = n /\ s[2] = 2 /\ HasText(s, 2, d)
  BY HistoryStart
<1>4. /\ n \in Nat /\ 2 \in 1 .. n
      /\ n + 1 = Len(d) + 4 /\ n + 2 = Len(d) + 5 /\ n + 3 = Len(d) + 6
  BY TextBytes
<1> HIDE DEF s, n
<1>5. /\ k \in Seq(Byte) /\ Len(k) = n + 3
      /\ \A i \in 1 .. n : k[i] = s[i]
      /\ k[n + 1] = c /\ k[n + 2] = lo /\ k[n + 3] = hi
      /\ \A m \in Nat, text \in Text : HasText(s, m, text) => HasText(k, m, text)
  BY <1>1, <1>3, <1>4, IdsBehind
<1> HIDE DEF k
<1>6. /\ k \in Seq(Byte) /\ Len(k) = Len(d) + 6
      /\ k[2] = 2 /\ HasText(k, 2, d) /\ k[Len(d) + 4] = c
      /\ k[Len(d) + 5] = lo /\ k[Len(d) + 6] = hi
  BY <1>3, <1>4, <1>5
<1> QED
  BY <1>2, <1>6, Zenon DEF lo, hi

\* The keys of history tell apart what they are of.
LEMMA HistoryKeysDiffer ==
  ASSUME NEW d \in Text, NEW c \in Byte, NEW p \in Uint16,
         NEW e \in Text, NEW c2 \in Byte, NEW q \in Uint16
  PROVE  /\ PropertyHistoryPk(d, c, p) = PropertyHistoryPk(e, c2, q)
              => d = e /\ c = c2 /\ p = q
         /\ DeviceHistoryPk(d) # PropertyHistoryPk(e, c2, q)
<1>1. Len(d) \in Nat
  BY TextBytes
<1>2. ASSUME PropertyHistoryPk(d, c, p) = PropertyHistoryPk(e, c2, q)
      PROVE  d = e /\ c = c2 /\ p = q
  <2> DEFINE k == PropertyHistoryPk(d, c, p)
  <2>1. k \in Seq(Byte) /\ HasText(k, 2, d) /\ k[Len(d) + 4] = c
        /\ k[Len(d) + 5] = p % 256 /\ k[Len(d) + 6] = (p \div 256) % 256
    BY PropertyHistoryKey
  <2>2. HasText(k, 2, e) /\ k[Len(e) + 4] = c2
        /\ k[Len(e) + 5] = q % 256 /\ k[Len(e) + 6] = (q \div 256) % 256
    BY <1>2, PropertyHistoryKey
  <2>3. d = e
    BY <2>1, <2>2, OneText
  <2>4. c = c2 /\ p % 256 = q % 256 /\ (p \div 256) % 256 = (q \div 256) % 256
    BY <2>1, <2>2, <2>3, Zenon
  <2>5. p = (p % 256) + 256 * ((p \div 256) % 256)
        /\ q = (q % 256) + 256 * ((q \div 256) % 256)
    BY TwoBytes
  <2> QED
    BY <2>3, <2>4, <2>5, Zenon
<1>3. ASSUME DeviceHistoryPk(d) = PropertyHistoryPk(e, c2, q)
      PROVE  FALSE
  <2> DEFINE k == DeviceHistoryPk(d)
  <2>1. k \in Seq(Byte) /\ HasText(k, 2, d) /\ Len(k) = Len(d) + 3
    BY DeviceHistoryKey
  <2>2. HasText(k, 2, e) /\ Len(k) = Len(e) + 6
    BY <1>3, PropertyHistoryKey
  <2>3. d = e
    BY <2>1, <2>2, OneText
  <2> QED
    BY <1>1, <2>1, <2>2, <2>3
<1> QED
  BY <1>2, <1>3

\* Partitions of different kinds have different keys.
LEMMA PartitionsDiffer ==
  /\ StatePk # SchedulePk /\ StatePk # SavedPk /\ StatePk # ClientPk
  /\ StatePk # SubscriptionPk /\ SchedulePk # SavedPk /\ SchedulePk # ClientPk
  /\ SchedulePk # SubscriptionPk /\ SavedPk # ClientPk
  /\ SavedPk # SubscriptionPk /\ ClientPk # SubscriptionPk
BY SMT DEF StatePk, SchedulePk, SavedPk, ClientPk, SubscriptionPk

FixedPks == {StatePk, SchedulePk, SavedPk, ClientPk, SubscriptionPk}

LEMMA HistoryApart ==
  ASSUME NEW d \in Text, NEW c \in Byte, NEW p \in Uint16, NEW pk \in FixedPks
  PROVE  DeviceHistoryPk(d) # pk /\ PropertyHistoryPk(d, c, p) # pk
<1>1. Len(pk) = 2
  BY SMT DEF FixedPks, StatePk, SchedulePk, SavedPk, ClientPk, SubscriptionPk
<1>2. Len(d) \in Nat /\ Len(DeviceHistoryPk(d)) = Len(d) + 3
      /\ Len(PropertyHistoryPk(d, c, p)) = Len(d) + 6
  BY TextBytes, DeviceHistoryKey, PropertyHistoryKey
<1>3. Len(d) + 3 # 2 /\ Len(d) + 6 # 2
  BY <1>2
<1> QED
  BY <1>1, <1>2, <1>3, Zenon

\* Sort keys of history are times in four bytes.
LEMMA TimeBytes ==
  ASSUME NEW t \in Time
  PROVE  \E a \in Byte, b \in Byte, c \in Byte, d \in Byte :
           /\ TimeSk(t) = <<a, b, c, d>>
           /\ t = 256 * (256 * (256 * a + b) + c) + d
<1> DEFINE high == (t \div 256) \div 256
           a == (high \div 256) % 256
           b == high % 256
           c == (t \div 256) % 256
           d == t % 256
<1>1. TimeSk(t) = <<a, b, c, d>>
  BY Zenon DEF TimeSk, Bytes
<1>2. a \in Byte /\ b \in Byte /\ c \in Byte /\ d \in Byte
      /\ t = 256 * (256 * (256 * a + b) + c) + d
  BY FourBytes, SMT
<1> HIDE DEF high, a, b, c, d
<1> QED
  BY <1>1, <1>2

LEMMA FourLong ==
  ASSUME NEW a, NEW b, NEW c, NEW d
  PROVE  LET k == <<a, b, c, d>>
         IN  Len(k) = 4 /\ k[1] = a /\ k[2] = b /\ k[3] = c /\ k[4] = d
OBVIOUS

LEMMA TimeKey ==
  ASSUME NEW t \in Time
  PROVE  ParsesTime(TimeSk(t)) /\ TimeIn(TimeSk(t)) = t
<1>1. PICK a \in Byte, b \in Byte, c \in Byte, d \in Byte :
        TimeSk(t) = <<a, b, c, d>> /\ t = 256 * (256 * (256 * a + b) + c) + d
  BY TimeBytes, SMT
<1> DEFINE k == TimeSk(t)
<1>2. Len(k) = 4 /\ k[1] = a /\ k[2] = b /\ k[3] = c /\ k[4] = d
  BY <1>1, FourLong
<1> HIDE DEF k
<1>3. Len(k) >= 4 /\ TimeIn(k) = t
  BY <1>1, <1>2 DEF TimeIn
<1> QED
  BY <1>3, Zenon DEF ParsesTime, k

\* Their order is that of the times: the more significant bytes are first.
LEMMA TimeKeyOrder ==
  ASSUME NEW s \in Time, NEW t \in Time
  PROVE  Below(TimeSk(s), TimeSk(t)) <=> s < t
<1>1. PICK a \in Byte, b \in Byte, c \in Byte, d \in Byte :
        TimeSk(s) = <<a, b, c, d>> /\ s = 256 * (256 * (256 * a + b) + c) + d
  BY TimeBytes, SMT
<1>2. PICK e \in Byte, f \in Byte, g \in Byte, h \in Byte :
        TimeSk(t) = <<e, f, g, h>> /\ t = 256 * (256 * (256 * e + f) + g) + h
  BY TimeBytes, SMT
<1> DEFINE j == TimeSk(s)
           k == TimeSk(t)
<1>3. Len(j) = 4 /\ j[1] = a /\ j[2] = b /\ j[3] = c /\ j[4] = d
  BY <1>1, FourLong
<1>4. Len(k) = 4 /\ k[1] = e /\ k[2] = f /\ k[3] = g /\ k[4] = h
  BY <1>2, FourLong
<1> HIDE DEF j, k
<1>5. Below(j, k) <=>
        \E i \in 1 .. 4 : j[i] < k[i] /\ \A m \in 1 .. i - 1 : j[m] = k[m]
  BY <1>3, <1>4 DEF Below
<1>6. Below(j, k) <=>
        \/ a < e
        \/ b < f /\ a = e
        \/ c < g /\ a = e /\ b = f
        \/ d < h /\ a = e /\ b = f /\ c = g
  BY <1>3, <1>4, <1>5
<1>7. /\ a \in Nat /\ a < 256 /\ b \in Nat /\ b < 256
      /\ c \in Nat /\ c < 256 /\ d \in Nat /\ d < 256
      /\ e \in Nat /\ e < 256 /\ f \in Nat /\ f < 256
      /\ g \in Nat /\ g < 256 /\ h \in Nat /\ h < 256
  BY ByteRange
<1>8. (\/ a < e
       \/ b < f /\ a = e
       \/ c < g /\ a = e /\ b = f
       \/ d < h /\ a = e /\ b = f /\ c = g) <=> s < t
  BY <1>1, <1>2, <1>7
<1> QED
  BY <1>6, <1>8 DEF j, k

LEMMA TimeRange ==
  ASSUME NEW s \in Time, NEW from \in Time, NEW to \in Time
  PROVE  Between(TimeSk(s), TimeSk(from), TimeSk(to)) <=> from <= s /\ s <= to
<1>1. s \in Nat /\ from \in Nat /\ to \in Nat
  BY Limits DEF Time
<1>2. (Below(TimeSk(s), TimeSk(from)) <=> s < from)
      /\ (Below(TimeSk(to), TimeSk(s)) <=> to < s)
  BY TimeKeyOrder
<1>3. Between(TimeSk(s), TimeSk(from), TimeSk(to)) <=> ~(s < from) /\ ~(to < s)
  BY <1>2 DEF Between
<1> QED
  BY <1>1, <1>3

LEMMA TimeEnds ==
  /\ 0 \in Time /\ MaxTime \in Time
  /\ \A t \in Time : 0 <= t /\ t <= MaxTime
BY Limits DEF Time

------------------------------------------------------------------------------
(* Prefixes.                                                                *)

\* A key begins with a type and a terminated text only if it has that text.
LEMMA PrefixIsText ==
  ASSUME NEW sk \in Seq(Byte), NEW type \in Byte, NEW e \in Text, NEW d \in Text,
         HasText(sk, 1, e)
  PROVE  BeginsWith(sk, Bytes("uint8", type) \o Bytes("utf8", d))
           <=> sk[1] = type /\ d = e
<1> DEFINE s == <<type>> \o (d \o <<0>>)
<1>1. Bytes("uint8", type) \o Bytes("utf8", d) = s
  <2>1. type % 256 = type
    BY SmallNumber
  <2> QED
    BY <2>1, BytesAre, Zenon
<1>2. /\ Len(s) = Len(d) + 2 /\ s[1] = type /\ HasText(s, 1, d)
  <2>1. <<type>> \in Seq(Byte) /\ Len(<<type>>) = 1 /\ <<type>>[1] = type
        /\ 1 \in 1 .. Len(<<type>>)
    BY OneByte
  <2>2. Len(s) = 1 + Len(d) + 1 /\ s[1] = type /\ HasText(s, 1, d)
    BY <2>1, TextLast
  <2>3. 1 + Len(d) + 1 = Len(d) + 2
    BY TextBytes
  <2> QED
    BY <2>2, <2>3
<1> HIDE DEF s
<1>3. Len(d) \in Nat
  BY TextBytes
<1>4. ASSUME BeginsWith(sk, s) PROVE sk[1] = type /\ d = e
  <2>1. Len(s) <= Len(sk) /\ \A i \in 1 .. Len(s) : sk[i] = s[i]
    BY <1>4 DEF BeginsWith
  <2>2. HasText(sk, 1, d)
    <3>1. Len(sk) >= 1 + Len(d) + 1
      BY <1>2, <1>3, <2>1
    <3>2. \A i \in 1 .. Len(d) : sk[1 + i] = d[i]
      BY <1>2, <1>3, <2>1 DEF HasText
    <3>3. sk[1 + Len(d) + 1] = 0
      BY <1>2, <1>3, <2>1 DEF HasText
    <3> QED
      BY <3>1, <3>2, <3>3 DEF HasText
  <2>3. sk[1] = type
    BY <1>2, <1>3, <2>1
  <2>4. d = e
    BY <2>2, OneText
  <2> QED
    BY <2>3, <2>4
<1>5. ASSUME sk[1] = type, d = e PROVE BeginsWith(sk, s)
  <2>1. HasText(sk, 1, d)
    BY <1>5
  <2>2. Len(s) <= Len(sk)
    BY <1>2, <1>3, <2>1 DEF HasText
  <2>3. ASSUME NEW i \in 1 .. Len(s) PROVE sk[i] = s[i]
    <3>1. i = 1 \/ i - 1 \in 1 .. Len(d) \/ i = 1 + Len(d) + 1
      BY <1>2, <1>3
    <3>2. CASE i = 1
      BY <1>2, <1>5, <3>2
    <3>3. CASE i - 1 \in 1 .. Len(d)
      <4>1. i = 1 + (i - 1)
        BY <1>3, <3>3
      <4> QED
        BY <1>2, <2>1, <3>3, <4>1 DEF HasText
    <3>4. CASE i = 1 + Len(d) + 1
      BY <1>2, <2>1, <3>4 DEF HasText
    <3> QED
      BY <3>1, <3>2, <3>3, <3>4
  <2> QED
    BY <2>2, <2>3 DEF BeginsWith
<1> QED
  BY <1>1, <1>4, <1>5, Zenon

\* A key begins with a type alone if that is its first byte.
LEMMA PrefixIsType ==
  ASSUME NEW sk \in Seq(Byte), NEW type \in Byte, Len(sk) >= 1
  PROVE  BeginsWith(sk, Bytes("uint8", type)) <=> sk[1] = type
<1> DEFINE s == <<type>>
<1>1. Bytes("uint8", type) = s
  <2>1. type % 256 = type
    BY SmallNumber
  <2> QED
    BY <2>1, BytesAre, Zenon
<1>2. Len(s) = 1 /\ s[1] = type
  BY OneByte
<1> HIDE DEF s
<1>3. BeginsWith(sk, s) <=> sk[1] = type
  BY <1>2 DEF BeginsWith
<1> QED
  BY <1>1, <1>3, Zenon

------------------------------------------------------------------------------
(* The rows of the table.                                                   *)

\* The row of each kind of record.
DeviceRow(x) ==
  [pk |-> StatePk, sk |-> DeviceSk(x.deviceId), exp |-> FALSE,
   item |-> [upd |-> x.lastUpdated, columns |-> x.columns]]
PropertyRow(x) ==
  [pk |-> StatePk,
   sk |-> PropertySk(x.deviceId, x.controllerId, x.propertyId, x.isDesiredValue),
   exp |-> FALSE, item |-> [upd |-> x.lastUpdated, value |-> x.value]]
ConnectedRow(d, t, v) ==
  [pk |-> DeviceHistoryPk(d), sk |-> TimeSk(t), exp |-> TRUE, item |-> [value |-> v]]
PastRow(x) ==
  [pk |-> PropertyHistoryPk(x.deviceId, x.controllerId, x.propertyId),
   sk |-> TimeSk(x.time), exp |-> TRUE, item |-> [value |-> x.value]]
ClientRow(x) ==
  [pk |-> ClientPk, sk |-> NameSk(x.connectionId), exp |-> TRUE,
   item |-> [value |-> x.deviceIds]]
SubscriptionRow(x) ==
  [pk |-> SubscriptionPk, sk |-> NameSk(x.endpoint), exp |-> FALSE,
   item |-> [value |-> x.subscription]]
ScheduleRow(x) ==
  [pk |-> SchedulePk, sk |-> NameSk(x.deviceId), exp |-> FALSE,
   item |-> [columns |-> x.columns]]
SavedRow(d, v) ==
  [pk |-> SavedPk, sk |-> NameSk(d), exp |-> FALSE, item |-> [value |-> v]]

KnownRow(r) ==
  \/ \E x \in Device : r = DeviceRow(x)
  \/ \E x \in Property : r = PropertyRow(x)
  \/ \E d \in DeviceId, t \in Second, v \in Value : r = ConnectedRow(d, t, v)
  \/ \E x \in Past : r = PastRow(x)
  \/ \E x \in Client : r = ClientRow(x)
  \/ \E x \in Subscription : r = SubscriptionRow(x)
  \/ \E x \in Schedule : r = ScheduleRow(x)
  \/ \E d \in DeviceId, v \in Value : r = SavedRow(d, v)

OneRowPerKey == \A r, s \in table : r.pk = s.pk /\ r.sk = s.sk => r = s

\* The inductive invariant: every row is that of a record, and no two rows have
\* the same keys.
RowsInv ==
  /\ IsFiniteSet(table)
  /\ OneRowPerKey
  /\ \A r \in table : KnownRow(r)

\* A row's partition tells what kind of record it is of.
LEMMA KindsOfRows ==
  ASSUME NEW r, KnownRow(r)
  PROVE  /\ r.pk = StatePk => \/ \E x \in Device : r = DeviceRow(x)
                              \/ \E x \in Property : r = PropertyRow(x)
         /\ r.pk = ClientPk => \E x \in Client : r = ClientRow(x)
         /\ r.pk = SubscriptionPk => \E x \in Subscription : r = SubscriptionRow(x)
         /\ r.pk = SchedulePk => \E x \in Schedule : r = ScheduleRow(x)
         /\ r.pk = SavedPk => \E d \in DeviceId, v \in Value : r = SavedRow(d, v)
         /\ \A d \in DeviceId, c \in ControllerId, p \in PropertyId :
              r.pk = PropertyHistoryPk(d, c, p) =>
                \E x \in Past : /\ r = PastRow(x) /\ x.deviceId = d
                                /\ x.controllerId = c /\ x.propertyId = p
<1>1. \A x : DeviceRow(x).pk = StatePk /\ PropertyRow(x).pk = StatePk
  BY DEF DeviceRow, PropertyRow
<1>2. \A x : /\ ClientRow(x).pk = ClientPk /\ SubscriptionRow(x).pk = SubscriptionPk
             /\ ScheduleRow(x).pk = SchedulePk
  BY DEF ClientRow, SubscriptionRow, ScheduleRow
<1>3. \A d, v : SavedRow(d, v).pk = SavedPk
  BY DEF SavedRow
<1>4. \A pk \in FixedPks :
        /\ \A d \in DeviceId : \A t, v : ConnectedRow(d, t, v).pk # pk
        /\ \A x \in Past : PastRow(x).pk # pk
  <2> TAKE pk \in FixedPks
  <2>1. ASSUME NEW d \in DeviceId, NEW t, NEW v PROVE ConnectedRow(d, t, v).pk # pk
    <3>1. ConnectedRow(d, t, v).pk = DeviceHistoryPk(d)
      BY DEF ConnectedRow
    <3>2. d \in Text /\ 0 \in Byte /\ 0 \in Uint16
      BY IdTypes, ByteRange, Limits DEF Uint16
    <3> QED
      BY <3>1, <3>2, HistoryApart
  <2>2. ASSUME NEW x \in Past PROVE PastRow(x).pk # pk
    <3>1. PastRow(x).pk = PropertyHistoryPk(x.deviceId, x.controllerId, x.propertyId)
      BY DEF PastRow
    <3>2. x.deviceId \in Text /\ x.controllerId \in Byte /\ x.propertyId \in Uint16
      BY IdTypes DEF Past
    <3> QED
      BY <3>1, <3>2, HistoryApart
  <2> QED
    BY <2>1, <2>2
<1>5. /\ StatePk \in FixedPks /\ SchedulePk \in FixedPks /\ SavedPk \in FixedPks
      /\ ClientPk \in FixedPks /\ SubscriptionPk \in FixedPks
  BY Zenon DEF FixedPks
<1>6. r.pk = StatePk => \/ \E x \in Device : r = DeviceRow(x)
                        \/ \E x \in Property : r = PropertyRow(x)
  BY <1>2, <1>3, <1>4, <1>5, PartitionsDiffer, Zenon DEF KnownRow
<1>7. r.pk = ClientPk => \E x \in Client : r = ClientRow(x)
  BY <1>1, <1>2, <1>3, <1>4, <1>5, PartitionsDiffer, Zenon DEF KnownRow
<1>8. r.pk = SubscriptionPk => \E x \in Subscription : r = SubscriptionRow(x)
  BY <1>1, <1>2, <1>3, <1>4, <1>5, PartitionsDiffer, Zenon DEF KnownRow
<1>9. r.pk = SchedulePk => \E x \in Schedule : r = ScheduleRow(x)
  BY <1>1, <1>2, <1>3, <1>4, <1>5, PartitionsDiffer, Zenon DEF KnownRow
<1>10. r.pk = SavedPk => \E d \in DeviceId, v \in Value : r = SavedRow(d, v)
  BY <1>1, <1>2, <1>3, <1>4, <1>5, PartitionsDiffer, Zenon DEF KnownRow
<1>11. ASSUME NEW d \in DeviceId, NEW c \in ControllerId, NEW p \in PropertyId,
              r.pk = PropertyHistoryPk(d, c, p)
       PROVE  \E x \in Past : /\ r = PastRow(x) /\ x.deviceId = d
                              /\ x.controllerId = c /\ x.propertyId = p
  <2>1. d \in Text /\ c \in Byte /\ p \in Uint16
    BY IdTypes
  <2>2. \A pk \in FixedPks : r.pk # pk
    BY <1>11, <2>1, HistoryApart
  <2>3. \A e \in DeviceId : \A t, v : r # ConnectedRow(e, t, v)
    <3>1. \A e, t, v : ConnectedRow(e, t, v).pk = DeviceHistoryPk(e)
      BY DEF ConnectedRow
    <3>2. \A e \in DeviceId : DeviceHistoryPk(e) # PropertyHistoryPk(d, c, p)
      BY <2>1, IdTypes, HistoryKeysDiffer
    <3> QED
      BY <1>11, <3>1, <3>2, Zenon
  <2>4. PICK x \in Past : r = PastRow(x)
    BY <1>1, <1>2, <1>3, <1>5, <2>2, <2>3, Zenon DEF KnownRow
  <2>5. PropertyHistoryPk(x.deviceId, x.controllerId, x.propertyId)
          = PropertyHistoryPk(d, c, p)
    BY <1>11, <2>4 DEF PastRow
  <2>6. x.deviceId \in Text /\ x.controllerId \in Byte /\ x.propertyId \in Uint16
    BY IdTypes DEF Past
  <2>7. x.deviceId = d /\ x.controllerId = c /\ x.propertyId = p
    BY <2>1, <2>5, <2>6, HistoryKeysDiffer
  <2> QED
    BY <2>4, <2>7
<1> QED
  BY <1>6, <1>7, <1>8, <1>9, <1>10, <1>11

\* What can be told from the key of a row of a device or property.
LEMMA StateRows ==
  ASSUME NEW r, KnownRow(r), r.pk = StatePk
  PROVE  /\ r.sk[1] \in {0, 1}
         /\ r.sk[1] = 0 => \E x \in Device : r = DeviceRow(x)
         /\ r.sk[1] # 0 => \E x \in Property : r = PropertyRow(x)
         /\ ParsesDevice(r.sk) /\ (r.sk[1] # 0 => ParsesProperty(r.sk))
         /\ \A type \in {0, 1} :
              /\ BeginsWith(r.sk, Bytes("uint8", type)) <=> r.sk[1] = type
              /\ \A d \in DeviceId :
                   BeginsWith(r.sk, Bytes("uint8", type) \o Bytes("utf8", d))
                     <=> r.sk[1] = type /\ DeviceIn(r.sk) = d
<1> DEFINE e == DeviceIn(r.sk)
<1>1. /\ r.sk \in Seq(Byte) /\ r.sk[1] \in {0, 1} /\ HasText(r.sk, 1, e) /\ e \in Text
      /\ ParsesDevice(r.sk) /\ (r.sk[1] # 0 => ParsesProperty(r.sk))
      /\ r.sk[1] = 0 => \E x \in Device : r = DeviceRow(x)
      /\ r.sk[1] # 0 => \E x \in Property : r = PropertyRow(x)
  <2>1. CASE \E x \in Device : r = DeviceRow(x)
    <3>1. PICK x \in Device : r = DeviceRow(x)
      BY <2>1
    <3>2. r.sk = DeviceSk(x.deviceId)
      BY <3>1 DEF DeviceRow
    <3>3. x.deviceId \in Text
      BY IdTypes DEF Device
    <3>4. /\ r.sk \in Seq(Byte) /\ r.sk[1] = 0 /\ HasText(r.sk, 1, x.deviceId)
          /\ ParsesDevice(r.sk) /\ DeviceIn(r.sk) = x.deviceId
      BY <3>2, <3>3, DeviceKey
    <3> QED
      BY <3>1, <3>3, <3>4
  <2>2. CASE \E x \in Property : r = PropertyRow(x)
    <3>1. PICK x \in Property : r = PropertyRow(x)
      BY <2>2
    <3>2. r.sk = PropertySk(x.deviceId, x.controllerId, x.propertyId, x.isDesiredValue)
      BY <3>1 DEF PropertyRow
    <3>3. /\ x.deviceId \in Text /\ x.controllerId \in Byte
          /\ x.propertyId \in Uint16 /\ x.isDesiredValue \in BOOLEAN
      BY IdTypes DEF Property
    <3>4. /\ r.sk \in Seq(Byte) /\ r.sk[1] = 1 /\ HasText(r.sk, 1, x.deviceId)
          /\ ParsesProperty(r.sk) /\ DeviceIn(r.sk) = x.deviceId
      BY <3>2, <3>3, PropertyKey
    <3>5. ParsesDevice(r.sk)
      BY <3>4 DEF ParsesProperty
    <3> QED
      BY <3>1, <3>3, <3>4, <3>5
  <2> QED
    BY <2>1, <2>2, KindsOfRows
<1> HIDE DEF e
<1>2. Len(r.sk) >= 1
  BY <1>1, TextBytes DEF HasText
<1>3. 0 \in Byte /\ 1 \in Byte
  BY ByteRange
<1>4. ASSUME NEW type \in {0, 1}
      PROVE  BeginsWith(r.sk, Bytes("uint8", type)) <=> r.sk[1] = type
  BY <1>1, <1>2, <1>3, PrefixIsType
<1>5. ASSUME NEW type \in {0, 1}, NEW d \in DeviceId
      PROVE  BeginsWith(r.sk, Bytes("uint8", type) \o Bytes("utf8", d))
               <=> r.sk[1] = type /\ e = d
  BY <1>1, <1>3, IdTypes, PrefixIsText
<1> QED
  BY <1>1, <1>4, <1>5 DEF e

------------------------------------------------------------------------------
(* What queries return: the records whose rows are in the table.            *)

\* What a record is when it is read from its row.
DeviceOf(r) ==
  [deviceId |-> DeviceIn(r.sk), lastUpdated |-> r.item.upd, columns |-> r.item.columns]
PropertyOf(r) ==
  [deviceId |-> DeviceIn(r.sk), controllerId |-> ControllerIn(r.sk),
   propertyId |-> PropertyIn(r.sk), isDesiredValue |-> DesiredIn(r.sk),
   lastUpdated |-> r.item.upd, value |-> r.item.value]
PastOf(d, c, p, r) ==
  [deviceId |-> d, controllerId |-> c, propertyId |-> p,
   time |-> TimeIn(r.sk), value |-> r.item.value]
ClientOf(r) == [connectionId |-> NameIn(r.sk), deviceIds |-> r.item.value]
SubscriptionOf(r) == [endpoint |-> NameIn(r.sk), subscription |-> r.item.value]

LEMMA DeviceRead ==
  ASSUME NEW x \in Device
  PROVE  /\ DeviceOf(DeviceRow(x)) = x /\ DeviceRow(x).pk = StatePk
         /\ DeviceRow(x).sk = DeviceSk(x.deviceId) /\ DeviceRow(x).sk[1] = 0
<1>1. /\ DeviceRow(x).pk = StatePk /\ DeviceRow(x).sk = DeviceSk(x.deviceId)
      /\ DeviceRow(x).item.upd = x.lastUpdated
      /\ DeviceRow(x).item.columns = x.columns
  BY DEF DeviceRow
<1>2. x.deviceId \in Text
  BY IdTypes DEF Device
<1>3. DeviceSk(x.deviceId)[1] = 0 /\ DeviceIn(DeviceSk(x.deviceId)) = x.deviceId
  BY <1>2, DeviceKey
<1>4. x = [deviceId |-> x.deviceId, lastUpdated |-> x.lastUpdated,
           columns |-> x.columns]
  BY DEF Device
<1> QED
  BY <1>1, <1>3, <1>4, Zenon DEF DeviceOf

LEMMA PropertyRead ==
  ASSUME NEW x \in Property
  PROVE  /\ PropertyOf(PropertyRow(x)) = x /\ PropertyRow(x).pk = StatePk
         /\ PropertyRow(x).sk[1] = 1
<1> DEFINE k == PropertySk(x.deviceId, x.controllerId, x.propertyId, x.isDesiredValue)
<1>1. /\ PropertyRow(x).pk = StatePk /\ PropertyRow(x).sk = k
      /\ PropertyRow(x).item.upd = x.lastUpdated
      /\ PropertyRow(x).item.value = x.value
  BY DEF PropertyRow
<1>2. /\ x.deviceId \in Text /\ x.controllerId \in Byte
      /\ x.propertyId \in Uint16 /\ x.isDesiredValue \in BOOLEAN
  BY IdTypes DEF Property
<1>3. /\ k[1] = 1 /\ DeviceIn(k) = x.deviceId /\ ControllerIn(k) = x.controllerId
      /\ PropertyIn(k) = x.propertyId /\ DesiredIn(k) = x.isDesiredValue
  BY <1>2, PropertyKey
<1>4. x = [deviceId |-> x.deviceId, controllerId |-> x.controllerId,
           propertyId |-> x.propertyId, isDesiredValue |-> x.isDesiredValue,
           lastUpdated |-> x.lastUpdated, value |-> x.value]
  BY DEF Property
<1> HIDE DEF k
<1> QED
  BY <1>1, <1>3, <1>4, Zenon DEF PropertyOf

LEMMA PastRead ==
  ASSUME NEW x \in Past
  PROVE  /\ PastOf(x.deviceId, x.controllerId, x.propertyId, PastRow(x)) = x
         /\ PastRow(x).pk = PropertyHistoryPk(x.deviceId, x.controllerId, x.propertyId)
         /\ PastRow(x).sk = TimeSk(x.time) /\ ParsesTime(PastRow(x).sk)
<1>1. /\ PastRow(x).pk = PropertyHistoryPk(x.deviceId, x.controllerId, x.propertyId)
      /\ PastRow(x).sk = TimeSk(x.time) /\ PastRow(x).item.value = x.value
  BY DEF PastRow
<1>2. x.time \in Time
  BY IdTypes DEF Past
<1>3. ParsesTime(TimeSk(x.time)) /\ TimeIn(TimeSk(x.time)) = x.time
  BY <1>2, TimeKey
<1>4. x = [deviceId |-> x.deviceId, controllerId |-> x.controllerId,
           propertyId |-> x.propertyId, time |-> x.time, value |-> x.value]
  BY DEF Past
<1> QED
  BY <1>1, <1>3, <1>4, Zenon DEF PastOf

LEMMA ClientRead ==
  ASSUME NEW x \in Client
  PROVE  /\ ClientOf(ClientRow(x)) = x /\ ClientRow(x).pk = ClientPk
         /\ ClientRow(x).sk = NameSk(x.connectionId) /\ ParsesName(ClientRow(x).sk)
<1>1. /\ ClientRow(x).pk = ClientPk /\ ClientRow(x).sk = NameSk(x.connectionId)
      /\ ClientRow(x).item.value = x.deviceIds
  BY DEF ClientRow
<1>2. x.connectionId \in Text
  BY IdTypes DEF Client
<1>3. /\ ParsesName(NameSk(x.connectionId))
      /\ NameIn(NameSk(x.connectionId)) = x.connectionId
  BY <1>2, NameKey
<1>4. x = [connectionId |-> x.connectionId, deviceIds |-> x.deviceIds]
  BY DEF Client
<1> QED
  BY <1>1, <1>3, <1>4, Zenon DEF ClientOf

LEMMA SubscriptionRead ==
  ASSUME NEW x \in Subscription
  PROVE  /\ SubscriptionOf(SubscriptionRow(x)) = x
         /\ SubscriptionRow(x).pk = SubscriptionPk
         /\ SubscriptionRow(x).sk = NameSk(x.endpoint)
         /\ ParsesName(SubscriptionRow(x).sk)
<1>1. /\ SubscriptionRow(x).pk = SubscriptionPk
      /\ SubscriptionRow(x).sk = NameSk(x.endpoint)
      /\ SubscriptionRow(x).item.value = x.subscription
  BY DEF SubscriptionRow
<1>2. x.endpoint \in Text
  BY IdTypes DEF Subscription
<1>3. /\ ParsesName(NameSk(x.endpoint)) /\ NameIn(NameSk(x.endpoint)) = x.endpoint
  BY <1>2, NameKey
<1>4. x = [endpoint |-> x.endpoint, subscription |-> x.subscription]
  BY DEF Subscription
<1> QED
  BY <1>1, <1>3, <1>4, Zenon DEF SubscriptionOf

Stored ==
  /\ Devices = {x \in Device : DeviceRow(x) \in table}
  /\ Properties = {x \in Property : PropertyRow(x) \in table}
  /\ ListClients = {x \in Client : ClientRow(x) \in table}
  /\ Subscriptions = {x \in Subscription : SubscriptionRow(x) \in table}

LEMMA QueriesStored == RowsInv => Stored
<1> SUFFICES ASSUME RowsInv PROVE Stored
  OBVIOUS
<1>1. \A r \in table : KnownRow(r)
  BY DEF RowsInv
<1>2. Devices = {x \in Device : DeviceRow(x) \in table}
  <2>1. \A x : x \in Devices <=>
          \E r \in table : r.pk = StatePk /\ r.sk[1] = 0 /\ x = DeviceOf(r)
    BY Zenon DEF Devices, DevicesOf, Partition, DeviceOf
  <2>2. \A r \in table : r.pk = StatePk /\ r.sk[1] = 0 =>
          \E y \in Device : r = DeviceRow(y)
    BY <1>1, StateRows, Zenon
  <2>3. ASSUME NEW x \in Devices PROVE x \in Device /\ DeviceRow(x) \in table
    <3>1. PICK y \in Device : DeviceRow(y) \in table /\ x = DeviceOf(DeviceRow(y))
      BY <2>1, <2>2, Zenon
    <3> QED
      BY <3>1, DeviceRead, Zenon
  <2>4. \A x \in Device : DeviceRow(x) \in table => x \in Devices
    BY <2>1, DeviceRead, Zenon
  <2> QED
    BY <2>3, <2>4, Zenon
<1>3. Properties = {x \in Property : PropertyRow(x) \in table}
  <2>1. \A x : x \in Properties <=>
          \E r \in table : r.pk = StatePk /\ r.sk[1] # 0 /\ x = PropertyOf(r)
    BY Zenon DEF Properties, PropertiesOf, Partition, PropertyOf
  <2>2. \A r \in table : r.pk = StatePk /\ r.sk[1] # 0 =>
          \E y \in Property : r = PropertyRow(y)
    BY <1>1, StateRows, Zenon
  <2>3. ASSUME NEW x \in Properties PROVE x \in Property /\ PropertyRow(x) \in table
    <3>1. PICK y \in Property : PropertyRow(y) \in table /\ x = PropertyOf(PropertyRow(y))
      BY <2>1, <2>2, Zenon
    <3> QED
      BY <3>1, PropertyRead, Zenon
  <2>4. \A x \in Property : PropertyRow(x) \in table => x \in Properties
    <3>1. \A x \in Property : PropertyRow(x).sk[1] # 0
      BY PropertyRead
    <3> QED
      BY <2>1, <3>1, PropertyRead, Zenon
  <2> QED
    BY <2>3, <2>4, Zenon
<1>4. ListClients = {x \in Client : ClientRow(x) \in table}
  <2>1. \A x : x \in ListClients <=>
          \E r \in table : r.pk = ClientPk /\ x = ClientOf(r)
    BY Zenon DEF ListClients, Partition, ClientOf
  <2>2. \A r \in table : r.pk = ClientPk => \E y \in Client : r = ClientRow(y)
    BY <1>1, KindsOfRows, Zenon
  <2>3. ASSUME NEW x \in ListClients PROVE x \in Client /\ ClientRow(x) \in table
    <3>1. PICK y \in Client : ClientRow(y) \in table /\ x = ClientOf(ClientRow(y))
      BY <2>1, <2>2, Zenon
    <3> QED
      BY <3>1, ClientRead, Zenon
  <2>4. \A x \in Client : ClientRow(x) \in table => x \in ListClients
    BY <2>1, ClientRead, Zenon
  <2> QED
    BY <2>3, <2>4, Zenon
<1>5. Subscriptions = {x \in Subscription : SubscriptionRow(x) \in table}
  <2>1. \A x : x \in Subscriptions <=>
          \E r \in table : r.pk = SubscriptionPk /\ x = SubscriptionOf(r)
    BY Zenon DEF Subscriptions, SubscriptionsOf, Partition, SubscriptionOf
  <2>2. \A r \in table : r.pk = SubscriptionPk =>
          \E y \in Subscription : r = SubscriptionRow(y)
    BY <1>1, KindsOfRows, Zenon
  <2>3. ASSUME NEW x \in Subscriptions PROVE x \in Subscription /\ SubscriptionRow(x) \in table
    <3>1. PICK y \in Subscription : SubscriptionRow(y) \in table /\ x = SubscriptionOf(SubscriptionRow(y))
      BY <2>1, <2>2, Zenon
    <3> QED
      BY <3>1, SubscriptionRead, Zenon
  <2>4. \A x \in Subscription : SubscriptionRow(x) \in table => x \in Subscriptions
    BY <2>1, SubscriptionRead, Zenon
  <2> QED
    BY <2>3, <2>4, Zenon
<1> QED
  BY <1>2, <1>3, <1>4, <1>5 DEF Stored

\* The history of a property between two times, and all of it.
HistoryStored ==
  /\ \A d \in DeviceId, c \in ControllerId, p \in PropertyId,
        from \in Time, to \in Time :
       HistoryOf(d, c, p, from, to) =
         {x \in Past : /\ PastRow(x) \in table
                       /\ x.deviceId = d /\ x.controllerId = c /\ x.propertyId = p
                       /\ from <= x.time /\ x.time <= to}
  /\ History = {x \in Past : PastRow(x) \in table}

LEMMA HistoryIsStored == RowsInv => HistoryStored
<1> SUFFICES ASSUME RowsInv PROVE HistoryStored
  OBVIOUS
<1>1. \A r \in table : KnownRow(r)
  BY DEF RowsInv
<1>2. ASSUME NEW d \in DeviceId, NEW c \in ControllerId, NEW p \in PropertyId,
             NEW from \in Time, NEW to \in Time
      PROVE  HistoryOf(d, c, p, from, to) =
               {x \in Past : /\ PastRow(x) \in table
                             /\ x.deviceId = d /\ x.controllerId = c /\ x.propertyId = p
                             /\ from <= x.time /\ x.time <= to}
  <2>1. \A x : x \in HistoryOf(d, c, p, from, to) <=>
          \E r \in table : /\ r.pk = PropertyHistoryPk(d, c, p)
                           /\ Between(r.sk, TimeSk(from), TimeSk(to))
                           /\ x = PastOf(d, c, p, r)
    BY Zenon DEF HistoryOf, HistoryRows, Partition, PastOf
  <2>2. \A x \in Past : Between(PastRow(x).sk, TimeSk(from), TimeSk(to))
                          <=> from <= x.time /\ x.time <= to
    <3> TAKE x \in Past
    <3>1. x.time \in Time
      BY IdTypes DEF Past
    <3> QED
      BY <3>1, PastRead, TimeRange
  <2>3. ASSUME NEW x \in HistoryOf(d, c, p, from, to)
        PROVE  /\ x \in Past /\ PastRow(x) \in table
               /\ x.deviceId = d /\ x.controllerId = c /\ x.propertyId = p
               /\ from <= x.time /\ x.time <= to
    <3>1. PICK r \in table : /\ r.pk = PropertyHistoryPk(d, c, p)
                             /\ Between(r.sk, TimeSk(from), TimeSk(to))
                             /\ x = PastOf(d, c, p, r)
      BY <2>1, Zenon
    <3>2. PICK y \in Past : /\ r = PastRow(y) /\ y.deviceId = d
                            /\ y.controllerId = c /\ y.propertyId = p
      BY <1>1, <3>1, KindsOfRows
    <3>3. x = y
      BY <3>1, <3>2, PastRead, Zenon
    <3> QED
      BY <2>2, <3>1, <3>2, <3>3, Zenon
  <2>4. ASSUME NEW x \in Past, PastRow(x) \in table,
               x.deviceId = d, x.controllerId = c, x.propertyId = p,
               from <= x.time, x.time <= to
        PROVE  x \in HistoryOf(d, c, p, from, to)
    <3>1. PastRow(x).pk = PropertyHistoryPk(d, c, p) /\ x = PastOf(d, c, p, PastRow(x))
      BY <2>4, PastRead
    <3>2. Between(PastRow(x).sk, TimeSk(from), TimeSk(to))
      BY <2>2, <2>4
    <3> QED
      BY <2>1, <2>4, <3>1, <3>2, Zenon
  <2> QED
    BY <2>3, <2>4, Zenon
<1>3. History = {x \in Past : PastRow(x) \in table}
  <2>1. ASSUME NEW x \in History PROVE x \in Past /\ PastRow(x) \in table
    <3>1. PICK d \in DeviceId, c \in ControllerId, p \in PropertyId :
            x \in HistoryOf(d, c, p, 0, MaxTime)
      BY DEF History
    <3> QED
      BY <1>2, <3>1, TimeEnds
  <2>2. ASSUME NEW x \in Past, PastRow(x) \in table PROVE x \in History
    <3>1. /\ x.deviceId \in DeviceId /\ x.controllerId \in ControllerId
          /\ x.propertyId \in PropertyId /\ x.time \in Time
      BY IdTypes DEF Past
    <3>2. x \in HistoryOf(x.deviceId, x.controllerId, x.propertyId, 0, MaxTime)
      <4> DEFINE e == x.deviceId
                 c == x.controllerId
                 p == x.propertyId
      <4>1. HistoryOf(e, c, p, 0, MaxTime) =
              {y \in Past : /\ PastRow(y) \in table
                            /\ y.deviceId = e /\ y.controllerId = c /\ y.propertyId = p
                            /\ 0 <= y.time /\ y.time <= MaxTime}
        BY <1>2, <3>1, TimeEnds
      <4> QED
        BY <2>2, <3>1, <4>1, TimeEnds, Zenon
    <3> QED
      BY <3>1, <3>2 DEF History
  <2> QED
    BY <2>1, <2>2, Zenon
<1> QED
  BY <1>2, <1>3 DEF HistoryStored

------------------------------------------------------------------------------
(* Writes change one row.                                                   *)

Row(pk, sk, exp, item) == [pk |-> pk, sk |-> sk, exp |-> exp, item |-> item]

\* Rows under other keys than these stay.
Spares(pk, sk) ==
  \A r : ~(r.pk = pk /\ r.sk = sk) => (r \in table' <=> r \in table)

LEMMA PutOne ==
  ASSUME RowsInv, NEW pk, NEW sk, NEW exp, NEW item,
         KnownRow(Row(pk, sk, exp, item)), Put(pk, sk, exp, item)
  PROVE  /\ RowsInv' /\ Spares(pk, sk)
         /\ \A r : r.pk = pk /\ r.sk = sk =>
              (r \in table' <=> r = Row(pk, sk, exp, item))
<1> DEFINE new == Row(pk, sk, exp, item)
<1>1. new.pk = pk /\ new.sk = sk
  BY DEF Row
<1>2. table' = (table \ At(pk, sk)) \cup {new}
  BY DEF Put, Row
<1> HIDE DEF new
<1>3. \A r : r \in At(pk, sk) <=> r \in table /\ r.pk = pk /\ r.sk = sk
  BY DEF At
<1>4. \A r : r \in table' <=> (r \in table /\ ~(r.pk = pk /\ r.sk = sk)) \/ r = new
  BY <1>2, <1>3, Zenon
<1>5. Spares(pk, sk)
  BY <1>1, <1>4, Zenon DEF Spares
<1>6. \A r : r.pk = pk /\ r.sk = sk => (r \in table' <=> r = new)
  BY <1>1, <1>4, Zenon
<1>7. IsFiniteSet(table')
  <2>1. IsFiniteSet(table)
    BY DEF RowsInv
  <2>2. IsFiniteSet(table \ At(pk, sk))
    BY <2>1, FS_Difference
  <2>3. IsFiniteSet((table \ At(pk, sk)) \cup {new})
    BY <2>2, FS_AddElement
  <2> QED
    BY <1>2, <2>3, Zenon
<1>8. OneRowPerKey'
  <2>1. \A r, s \in table : r.pk = s.pk /\ r.sk = s.sk => r = s
    BY DEF RowsInv, OneRowPerKey
  <2>2. ASSUME NEW r \in table', NEW s \in table', r.pk = s.pk, r.sk = s.sk
        PROVE  r = s
    <3>1. CASE r.pk = pk /\ r.sk = sk
      <4>1. s.pk = pk /\ s.sk = sk
        BY <2>2, <3>1
      <4>2. r = new
        BY <1>6, <3>1, Zenon
      <4>3. s = new
        BY <1>6, <4>1, Zenon
      <4> QED
        BY <4>2, <4>3
    <3>2. CASE ~(r.pk = pk /\ r.sk = sk)
      <4>1. r \in table /\ s \in table
        BY <1>1, <1>4, <2>2, <3>2, Zenon
      <4> QED
        BY <2>1, <2>2, <4>1, Zenon
    <3> QED
      BY <3>1, <3>2, Zenon
  <2> QED
    BY <2>2, Zenon DEF OneRowPerKey
<1>9. \A r \in table' : KnownRow(r)
  <2>1. \A r \in table : KnownRow(r)
    BY DEF RowsInv
  <2>2. KnownRow(new)
    BY DEF new
  <2> QED
    BY <1>4, <2>1, <2>2, Zenon
<1>10. RowsInv'
  BY <1>7, <1>8, <1>9, Zenon DEF RowsInv, KnownRow
<1> QED
  BY <1>5, <1>6, <1>10 DEF new

LEMMA DeleteOne ==
  ASSUME RowsInv, NEW pk, NEW sk, Delete(pk, sk)
  PROVE  /\ RowsInv' /\ Spares(pk, sk)
         /\ \A r : r.pk = pk /\ r.sk = sk => r \notin table'
<1>1. table' = table \ At(pk, sk)
  BY DEF Delete
<1>2. \A r : r \in At(pk, sk) <=> r \in table /\ r.pk = pk /\ r.sk = sk
  BY DEF At
<1>3. \A r : r \in table' <=> r \in table /\ ~(r.pk = pk /\ r.sk = sk)
  BY <1>1, <1>2, Zenon
<1>4. Spares(pk, sk)
  BY <1>3, Zenon DEF Spares
<1>5. IsFiniteSet(table')
  <2>1. IsFiniteSet(table)
    BY DEF RowsInv
  <2> QED
    BY <1>1, <2>1, FS_Difference
<1>6. OneRowPerKey'
  BY <1>3, Zenon DEF RowsInv, OneRowPerKey
<1>7. \A r \in table' : KnownRow(r)
  BY <1>3, Zenon DEF RowsInv
<1>8. RowsInv'
  BY <1>5, <1>6, <1>7, Zenon DEF RowsInv, KnownRow
<1> QED
  BY <1>3, <1>4, <1>8, Zenon

\* A row that is removed is the only one under its keys.
LEMMA ExpireOne ==
  ASSUME RowsInv, NEW r \in table, table' = table \ {r}
  PROVE  Delete(r.pk, r.sk)
<1>1. \A s : s \in At(r.pk, r.sk) <=> s \in table /\ s.pk = r.pk /\ s.sk = r.sk
  BY DEF At
<1>2. At(r.pk, r.sk) = {r}
  BY <1>1, Zenon DEF RowsInv, OneRowPerKey
<1> QED
  BY <1>2, Zenon DEF Delete

------------------------------------------------------------------------------
(* What was stored before.                                                  *)

LEMMA KnownOf ==
  /\ Known({}) = Nothing /\ Nothing \in Columns
  /\ \A y : Known({y}) = y.columns
BY DEF Known, Nothing, Columns

LEMMA MergedColumns ==
  ASSUME NEW known \in Columns, NEW given \in Columns
  PROVE  Merged(known, given) \in Columns
BY DEF Merged, Columns

\* There is one row of a device at most, and it is that of the one record.
LEMMA OldDevice ==
  ASSUME RowsInv, NEW d \in DeviceId
  PROVE  LET rows == At(StatePk, DeviceSk(d))
             old == {x \in Devices : x.deviceId = d}
         IN  /\ Expires(rows) = FALSE
             /\ Known({r.item : r \in rows}) = Known(old) /\ Known(old) \in Columns
             /\ \A t : IsNews(rows, t) <=> \A x \in old : t >= x.lastUpdated
<1> DEFINE rows == At(StatePk, DeviceSk(d))
           old == {x \in Devices : x.deviceId = d}
<1>1. Devices = {x \in Device : DeviceRow(x) \in table}
  BY QueriesStored DEF Stored
<1>2. \A r : r \in rows <=> r \in table /\ r.pk = StatePk /\ r.sk = DeviceSk(d)
  BY DEF At
<1>3. \A x \in Device : /\ DeviceRow(x).pk = StatePk
                        /\ DeviceRow(x).sk = DeviceSk(x.deviceId)
  BY DeviceRead
<1>4. \A r \in rows : \E x \in Device : r = DeviceRow(x) /\ x.deviceId = d
  <2> TAKE r \in rows
  <2>1. r \in table /\ r.pk = StatePk /\ r.sk = DeviceSk(d) /\ KnownRow(r)
    BY <1>2 DEF RowsInv
  <2>2. d \in Text
    BY IdTypes
  <2>3. r.sk[1] = 0 /\ DeviceIn(r.sk) = d
    BY <2>1, <2>2, DeviceKey
  <2>4. PICK x \in Device : r = DeviceRow(x)
    BY <2>1, <2>3, StateRows
  <2>5. x.deviceId = DeviceIn(r.sk)
    <3>1. x.deviceId \in Text
      BY IdTypes DEF Device
    <3> QED
      BY <1>3, <2>4, <3>1, DeviceKey
  <2> QED
    BY <2>3, <2>4, <2>5
<1>5. \A x : x \in old <=> x \in Device /\ DeviceRow(x) \in rows /\ x.deviceId = d
  BY <1>1, <1>2, <1>3, Zenon
<1>6. \A r, s \in rows : r = s
  BY <1>2, Zenon DEF RowsInv, OneRowPerKey
<1> HIDE DEF rows, old
<1>7. CASE rows = {}
  <2>1. old = {}
    BY <1>5, <1>7, Zenon
  <2>2. {r.item : r \in rows} = {}
    BY <1>7
  <2>3. Expires(rows) = FALSE
    BY <1>7 DEF Expires
  <2>4. \A t : IsNews(rows, t) <=> \A x \in old : t >= x.lastUpdated
    BY <1>7, <2>1 DEF IsNews
  <2> QED
    BY <2>1, <2>2, <2>3, <2>4, KnownOf DEF rows, old
<1>8. CASE rows # {}
  <2>1. PICK x \in Device : DeviceRow(x) \in rows /\ x.deviceId = d
    BY <1>4, <1>8, Zenon
  <2>2. rows = {DeviceRow(x)}
    BY <1>6, <2>1, Zenon
  <2>3. old = {x}
    <3>1. \A y \in old : y = x
      <4> TAKE y \in old
      <4>1. y \in Device /\ DeviceRow(y) = DeviceRow(x)
        BY <1>5, <1>6, <2>1, Zenon
      <4> QED
        BY <4>1, DeviceRead, Zenon
    <3> QED
      BY <1>5, <2>1, <3>1, Zenon
  <2>4. /\ DeviceRow(x).exp = FALSE /\ DeviceRow(x).item.upd = x.lastUpdated
        /\ DeviceRow(x).item.columns = x.columns
    BY DEF DeviceRow
  <2>5. Expires(rows) = FALSE
    BY <2>2, <2>4 DEF Expires
  <2>6. Known({r.item : r \in rows}) = x.columns
    <3>1. {r.item : r \in rows} = {DeviceRow(x).item}
      BY <2>2
    <3> QED
      BY <2>4, <3>1, KnownOf, Zenon
  <2>7. Known(old) = x.columns /\ x.columns \in Columns
    BY <2>3, KnownOf DEF Device
  <2>8. \A t : IsNews(rows, t) <=> \A y \in old : t >= y.lastUpdated
    BY <2>2, <2>3, <2>4 DEF IsNews
  <2> QED
    BY <2>5, <2>6, <2>7, <2>8 DEF rows, old
<1> QED
  BY <1>7, <1>8

\* The same of properties, schedules and saved schedules.
LEMMA OldProperty ==
  ASSUME RowsInv, NEW d \in DeviceId, NEW c \in ControllerId, NEW p \in PropertyId,
         NEW desired \in BOOLEAN
  PROVE  LET rows == At(StatePk, PropertySk(d, c, p, desired))
             old == {x \in Properties : /\ x.deviceId = d /\ x.controllerId = c
                                        /\ x.propertyId = p
                                        /\ x.isDesiredValue = desired}
         IN  /\ \A x : x \in old <=> x \in Property /\ PropertyRow(x) \in rows
             /\ \A t : IsNews(rows, t) <=> \A x \in old : t >= x.lastUpdated
<1> DEFINE k == PropertySk(d, c, p, desired)
           rows == At(StatePk, k)
           old == {x \in Properties : /\ x.deviceId = d /\ x.controllerId = c
                                      /\ x.propertyId = p
                                      /\ x.isDesiredValue = desired}
<1>1. Properties = {x \in Property : PropertyRow(x) \in table}
  BY QueriesStored DEF Stored
<1>2. d \in Text /\ c \in Byte /\ p \in Uint16
  BY IdTypes
<1>3. /\ k[1] = 1 /\ DeviceIn(k) = d /\ ControllerIn(k) = c
      /\ PropertyIn(k) = p /\ DesiredIn(k) = desired
  BY <1>2, PropertyKey
<1>4. \A x \in Property : (x.deviceId = d /\ x.controllerId = c /\ x.propertyId = p
                            /\ x.isDesiredValue = desired) <=> PropertyRow(x).sk = k
  <2> TAKE x \in Property
  <2>1. PropertyRow(x).sk =
          PropertySk(x.deviceId, x.controllerId, x.propertyId, x.isDesiredValue)
    BY DEF PropertyRow
  <2>2. /\ x.deviceId \in Text /\ x.controllerId \in Byte
        /\ x.propertyId \in Uint16 /\ x.isDesiredValue \in BOOLEAN
    BY IdTypes DEF Property
  <2>3. ASSUME PropertyRow(x).sk = k
        PROVE  /\ x.deviceId = d /\ x.controllerId = c /\ x.propertyId = p
               /\ x.isDesiredValue = desired
    <3> DEFINE j == PropertySk(x.deviceId, x.controllerId, x.propertyId,
                               x.isDesiredValue)
    <3>1. /\ DeviceIn(j) = x.deviceId /\ ControllerIn(j) = x.controllerId
          /\ PropertyIn(j) = x.propertyId /\ DesiredIn(j) = x.isDesiredValue
      BY <2>2, PropertyKey
    <3>2. j = k
      BY <2>1, <2>3
    <3> HIDE DEF j, k
    <3> QED
      BY <1>3, <3>1, <3>2, Zenon
  <2>4. ASSUME x.deviceId = d, x.controllerId = c, x.propertyId = p,
               x.isDesiredValue = desired
        PROVE  PropertyRow(x).sk = k
    BY <2>1, <2>4, Zenon
  <2> QED
    BY <2>3, <2>4, Zenon
<1> HIDE DEF k
<1>5. \A r : r \in rows <=> r \in table /\ r.pk = StatePk /\ r.sk = k
  BY DEF At
<1>6. \A x \in Property : PropertyRow(x).pk = StatePk
  BY PropertyRead
<1>7. \A x : x \in old <=> x \in Property /\ PropertyRow(x) \in rows
  BY <1>1, <1>4, <1>5, <1>6, Zenon
<1>8. \A r \in rows : \E x \in Property : r = PropertyRow(x)
  <2> TAKE r \in rows
  <2>1. r \in table /\ r.pk = StatePk /\ r.sk[1] # 0 /\ KnownRow(r)
    BY <1>3, <1>5 DEF RowsInv
  <2> QED
    BY <2>1, StateRows
<1> HIDE DEF rows, old
<1>9. \A t : IsNews(rows, t) <=> \A x \in old : t >= x.lastUpdated
  <2>1. \A x : PropertyRow(x).item.upd = x.lastUpdated
    BY DEF PropertyRow
  <2> QED
    BY <1>7, <1>8, <2>1, Zenon DEF IsNews
<1> QED
  BY <1>7, <1>9, Zenon DEF rows, old, k

LEMMA OldSchedule ==
  ASSUME RowsInv, NEW d \in DeviceId
  PROVE  LET rows == At(SchedulePk, NameSk(d))
         IN  /\ Expires(rows) = FALSE
             /\ Known({r.item : r \in rows}) \in Columns
<1> DEFINE rows == At(SchedulePk, NameSk(d))
<1>1. \A r \in rows : r \in table /\ r.pk = SchedulePk /\ KnownRow(r)
  BY DEF At, RowsInv
<1>2. \A r \in rows : \E x \in Schedule : r = ScheduleRow(x)
  BY <1>1, KindsOfRows
<1>3. \A r, s \in rows : r = s
  BY Zenon DEF RowsInv, OneRowPerKey, At
<1>4. \A x : ScheduleRow(x).exp = FALSE /\ ScheduleRow(x).item.columns = x.columns
  BY DEF ScheduleRow
<1> HIDE DEF rows
<1>5. Expires(rows) = FALSE
  <2>1. \A r \in rows : ~r.exp
    BY <1>2, <1>4
  <2> QED
    BY <2>1 DEF Expires
<1>6. Known({r.item : r \in rows}) \in Columns
  <2>1. CASE rows = {}
    <3>1. {r.item : r \in rows} = {}
      BY <2>1
    <3> QED
      BY <3>1, KnownOf
  <2>2. CASE rows # {}
    <3>1. PICK x \in Schedule : ScheduleRow(x) \in rows
      BY <1>2, <2>2, Zenon
    <3>2. rows = {ScheduleRow(x)}
      BY <1>3, <3>1, Zenon
    <3>3. {r.item : r \in rows} = {ScheduleRow(x).item}
      BY <3>2
    <3>4. x.columns \in Columns
      BY DEF Schedule
    <3> QED
      BY <1>4, <3>3, <3>4, KnownOf, Zenon
  <2> QED
    BY <2>1, <2>2
<1> QED
  BY <1>5, <1>6 DEF rows

LEMMA OldSaved ==
  ASSUME RowsInv, NEW d \in DeviceId
  PROVE  Expires(At(SavedPk, NameSk(d))) = FALSE
<1> DEFINE rows == At(SavedPk, NameSk(d))
<1>1. \A r \in rows : r \in table /\ r.pk = SavedPk /\ KnownRow(r)
  BY DEF At, RowsInv
<1>2. \A r \in rows : \E e \in DeviceId, v \in Value : r = SavedRow(e, v)
  BY <1>1, KindsOfRows
<1>3. \A e, v : SavedRow(e, v).exp = FALSE
  BY DEF SavedRow
<1> HIDE DEF rows
<1>4. \A r \in rows : ~r.exp
  BY <1>2, <1>3
<1>5. Expires(rows) = FALSE
  BY <1>4 DEF Expires
<1> QED
  BY <1>5 DEF rows

------------------------------------------------------------------------------
(* What a write leaves alone.                                               *)

\* The two kinds of rows that share a partition differ in their first byte.
LEMMA ViewsKept ==
  ASSUME NEW pk, NEW sk, Spares(pk, sk), RowsInv, RowsInv'
  PROVE  /\ pk # StatePk \/ sk[1] # 0 => Devices' = Devices
         /\ pk # StatePk \/ sk[1] # 1 => Properties' = Properties
         /\ (\A d \in DeviceId, c \in ControllerId, p \in PropertyId :
               pk # PropertyHistoryPk(d, c, p)) => History' = History
         /\ pk # ClientPk => ListClients' = ListClients
         /\ pk # SubscriptionPk => Subscriptions' = Subscriptions
<1>1. Stored /\ HistoryStored
  BY QueriesStored, HistoryIsStored
<1>2. Stored' /\ HistoryStored'
  BY QueriesStored, HistoryIsStored, PTL
<1>3. ASSUME pk # StatePk \/ sk[1] # 0 PROVE Devices' = Devices
  <2>1. \A x \in Device : DeviceRow(x) \in table' <=> DeviceRow(x) \in table
    BY <1>3, DeviceRead, Zenon DEF Spares
  <2> QED
    BY <1>1, <1>2, <2>1, Zenon DEF Stored
<1>4. ASSUME pk # StatePk \/ sk[1] # 1 PROVE Properties' = Properties
  <2>1. \A x \in Property : PropertyRow(x) \in table' <=> PropertyRow(x) \in table
    BY <1>4, PropertyRead, Zenon DEF Spares
  <2> QED
    BY <1>1, <1>2, <2>1, Zenon DEF Stored
<1>5. ASSUME \A d \in DeviceId, c \in ControllerId, p \in PropertyId :
               pk # PropertyHistoryPk(d, c, p)
      PROVE  History' = History
  <2>1. \A x \in Past : PastRow(x) \in table' <=> PastRow(x) \in table
    <3> TAKE x \in Past
    <3>1. PastRow(x).pk # pk
      <4>1. /\ x.deviceId \in DeviceId /\ x.controllerId \in ControllerId
            /\ x.propertyId \in PropertyId
        BY DEF Past
      <4> QED
        BY <1>5, <4>1, PastRead
    <3> QED
      BY <3>1, Zenon DEF Spares
  <2> QED
    BY <1>1, <1>2, <2>1, Zenon DEF HistoryStored
<1>6. ASSUME pk # ClientPk PROVE ListClients' = ListClients
  <2>1. \A x \in Client : ClientRow(x) \in table' <=> ClientRow(x) \in table
    BY <1>6, ClientRead, Zenon DEF Spares
  <2> QED
    BY <1>1, <1>2, <2>1, Zenon DEF Stored
<1>7. ASSUME pk # SubscriptionPk PROVE Subscriptions' = Subscriptions
  <2>1. \A x \in Subscription :
          SubscriptionRow(x) \in table' <=> SubscriptionRow(x) \in table
    BY <1>7, SubscriptionRead, Zenon DEF Spares
  <2> QED
    BY <1>1, <1>2, <2>1, Zenon DEF Stored
<1> QED
  BY <1>3, <1>4, <1>5, <1>6, <1>7

Schedules == {GetSchedule(d) : d \in DeviceId}
Saved == {GetSavedSchedules(d) : d \in DeviceId}

LEMMA SchedulesKept ==
  ASSUME NEW pk, NEW sk, Spares(pk, sk), NEW d \in DeviceId
  PROVE  /\ pk # SchedulePk \/ sk # NameSk(d) => GetSchedule(d)' = GetSchedule(d)
         /\ pk # SavedPk \/ sk # NameSk(d) =>
              GetSavedSchedules(d)' = GetSavedSchedules(d)
<1>1. ASSUME NEW k, pk # k \/ sk # NameSk(d)
      PROVE  At(k, NameSk(d))' = At(k, NameSk(d))
  <2>1. \A r : r.pk = k /\ r.sk = NameSk(d) => (r \in table' <=> r \in table)
    BY <1>1, Zenon DEF Spares
  <2>2. \A r : r \in At(k, NameSk(d))' <=> r \in table' /\ r.pk = k /\ r.sk = NameSk(d)
    BY DEF At
  <2>3. \A r : r \in At(k, NameSk(d)) <=> r \in table /\ r.pk = k /\ r.sk = NameSk(d)
    BY DEF At
  <2>4. \A r : r \in At(k, NameSk(d))' <=> r \in At(k, NameSk(d))
    BY <2>1, <2>2, <2>3, Zenon
  <2> QED
    BY <2>4
<1>2. ASSUME pk # SchedulePk \/ sk # NameSk(d) PROVE GetSchedule(d)' = GetSchedule(d)
  <2>1. At(SchedulePk, NameSk(d))' = At(SchedulePk, NameSk(d))
    BY <1>1, <1>2
  <2> QED
    BY <2>1, Zenon DEF GetSchedule
<1>3. ASSUME pk # SavedPk \/ sk # NameSk(d)
      PROVE  GetSavedSchedules(d)' = GetSavedSchedules(d)
  <2>1. At(SavedPk, NameSk(d))' = At(SavedPk, NameSk(d))
    BY <1>1, <1>3
  <2> QED
    BY <2>1, Zenon DEF GetSavedSchedules
<1> QED
  BY <1>2, <1>3

LEMMA AllSchedulesKept ==
  ASSUME NEW pk, NEW sk, Spares(pk, sk)
  PROVE  /\ pk # SchedulePk => Schedules' = Schedules
         /\ pk # SavedPk => Saved' = Saved
<1>1. ASSUME pk # SchedulePk PROVE Schedules' = Schedules
  <2>1. \A d \in DeviceId : GetSchedule(d)' = GetSchedule(d)
    BY <1>1, SchedulesKept
  <2> QED
    BY <2>1 DEF Schedules
<1>2. ASSUME pk # SavedPk PROVE Saved' = Saved
  <2>1. \A d \in DeviceId : GetSavedSchedules(d)' = GetSavedSchedules(d)
    BY <1>2, SchedulesKept
  <2> QED
    BY <2>1 DEF Saved
<1> QED
  BY <1>1, <1>2

------------------------------------------------------------------------------
(* Every write does what DataStore says.                                    *)

LEMMA SameRecords ==
  /\ Records!Device = Device /\ Records!Property = Property /\ Records!Past = Past
  /\ Records!Client = Client /\ Records!Subscription = Subscription
  /\ Records!Columns = Columns
  /\ \A s : Records!Known(s) = Known(s)
  /\ \A known, given : Records!Merged(known, given) = Merged(known, given)
  /\ Records!Nothing = Nothing
<1>1. Records!Columns = Columns /\ Records!Nothing = Nothing
  BY DEF Records!Columns, Columns, Records!Nothing, Nothing
<1>2. /\ Records!Device = Device /\ Records!Property = Property
      /\ Records!Past = Past
      /\ Records!Client = Client /\ Records!Subscription = Subscription
  BY <1>1, Zenon DEF Records!Device, Device, Records!Property, Property,
       Records!Past, Past, Records!Client, Client,
       Records!Subscription, Subscription
<1>3. \A s : Records!Known(s) = Known(s)
  BY <1>1 DEF Records!Known, Known
<1>4. \A known, given : Records!Merged(known, given) = Merged(known, given)
  BY Zenon DEF Records!Merged, Merged
<1> QED
  BY <1>1, <1>2, <1>3, <1>4

LEMMA FixedNotHistory ==
  ASSUME NEW pk \in FixedPks
  PROVE  \A d \in DeviceId, c \in ControllerId, p \in PropertyId :
           pk # PropertyHistoryPk(d, c, p)
BY HistoryApart, IdTypes

LEMMA DeviceStep ==
  ASSUME RowsInv, NEW d \in DeviceId, NEW t \in Second, NEW given \in Columns,
         UpdateDeviceState(d, t, given)
  PROVE  RowsInv' /\ Records!UpdateDevice(d, t, given)
<1> DEFINE k == DeviceSk(d)
           rows == At(StatePk, k)
           old == {x \in Devices : x.deviceId = d}
           new == [deviceId |-> d, lastUpdated |-> t,
                   columns |-> Merged(Known(old), given)]
<1>1. /\ Expires(rows) = FALSE /\ Known({r.item : r \in rows}) = Known(old)
      /\ Known(old) \in Columns
      /\ (IsNews(rows, t) <=> \A x \in old : t >= x.lastUpdated)
  BY OldDevice
<1>2. new \in Device
  BY <1>1, MergedColumns DEF Device
<1>3. new.deviceId = d
  OBVIOUS
<1>4. Row(StatePk, k, FALSE, [upd |-> t, columns |-> Merged(Known(old), given)])
        = DeviceRow(new)
  BY DEF Row, DeviceRow
<1>5. /\ IsNews(rows, t)
      /\ Put(StatePk, k, FALSE, [upd |-> t, columns |-> Merged(Known(old), given)])
  BY <1>1, Zenon DEF UpdateDeviceState
<1> HIDE DEF new, old, rows
<1>6. KnownRow(DeviceRow(new))
  BY <1>2, Zenon DEF KnownRow
<1>7. /\ RowsInv' /\ Spares(StatePk, k)
      /\ \A r : r.pk = StatePk /\ r.sk = k => (r \in table' <=> r = DeviceRow(new))
  <2> DEFINE item == [upd |-> t, columns |-> Merged(Known(old), given)]
  <2>1. KnownRow(Row(StatePk, k, FALSE, item))
    BY <1>4, <1>6, Zenon
  <2> HIDE DEF item, k
  <2>2. /\ RowsInv' /\ Spares(StatePk, k)
        /\ \A r : r.pk = StatePk /\ r.sk = k =>
             (r \in table' <=> r = Row(StatePk, k, FALSE, item))
    BY <1>5, <2>1, PutOne, Zenon DEF item
  <2> QED
    BY <1>4, <2>2, Zenon DEF item
<1>8. d \in Text /\ k[1] = 0 /\ DeviceIn(k) = d
  BY IdTypes, DeviceKey
<1>9. Devices' = (Devices \ old) \cup {new}
  <2>1. Stored /\ Stored'
    BY <1>7, QueriesStored, PTL
  <2>2. \A x \in Device : x.deviceId # d =>
          (DeviceRow(x) \in table' <=> DeviceRow(x) \in table)
    <3> SUFFICES ASSUME NEW x \in Device, x.deviceId # d
                 PROVE  DeviceRow(x) \in table' <=> DeviceRow(x) \in table
      OBVIOUS
    <3>1. x.deviceId \in Text
      BY IdTypes DEF Device
    <3>2. DeviceRow(x).sk # k
      BY <1>8, <3>1, DeviceKey, DeviceRead
    <3> QED
      BY <1>7, <3>2, Zenon DEF Spares
  <2>3. \A x \in Device : x.deviceId = d => (DeviceRow(x) \in table' <=> x = new)
    <3> SUFFICES ASSUME NEW x \in Device, x.deviceId = d
                 PROVE  DeviceRow(x) \in table' <=> x = new
      OBVIOUS
    <3>1. DeviceRow(x).pk = StatePk /\ DeviceRow(x).sk = k
      BY DeviceRead
    <3>2. DeviceRow(x) \in table' <=> DeviceRow(x) = DeviceRow(new)
      BY <1>7, <3>1, Zenon
    <3> QED
      BY <1>2, <3>2, DeviceRead, Zenon
  <2>4. \A x : x \in Devices' <=> (x \in Devices /\ x.deviceId # d) \/ x = new
    BY <1>2, <1>3, <2>1, <2>2, <2>3, Zenon DEF Stored
  <2>5. \A x : x \in old <=> x \in Devices /\ x.deviceId = d
    BY DEF old
  <2> QED
    BY <2>4, <2>5, Zenon
<1>10. /\ Properties' = Properties /\ History' = History /\ ListClients' = ListClients
       /\ Subscriptions' = Subscriptions
  <2>1. k[1] # 1 /\ StatePk \in FixedPks
    BY <1>8 DEF FixedPks
  <2> HIDE DEF k
  <2> QED
    BY <1>7, <2>1, ViewsKept, FixedNotHistory, PartitionsDiffer
<1>11. Schedules' = Schedules /\ Saved' = Saved
  BY <1>7, AllSchedulesKept, PartitionsDiffer
<1>12. \A x \in old : x.lastUpdated <= t
  <2>1. \A x \in old : t >= x.lastUpdated
    BY <1>1, <1>5, Zenon
  <2> QED
    BY <2>1
<1> QED
  BY <1>7, <1>9, <1>10, <1>11, <1>12, SameRecords, Zenon
  DEF Records!UpdateDevice, old, new, Schedules, Saved

LEMMA PropertyStep ==
  ASSUME RowsInv, NEW d \in DeviceId, NEW c \in ControllerId, NEW p \in PropertyId,
         NEW desired \in BOOLEAN, NEW t \in Second, NEW v \in Value,
         UpdatePropertyState(d, c, p, desired, t, v)
  PROVE  /\ RowsInv'
         /\ \E new \in Property : Records!UpdateProperty(new)
<1> DEFINE k == PropertySk(d, c, p, desired)
           rows == At(StatePk, k)
           old == {x \in Properties : /\ x.deviceId = d /\ x.controllerId = c
                                      /\ x.propertyId = p
                                      /\ x.isDesiredValue = desired}
           new == [deviceId |-> d, controllerId |-> c, propertyId |-> p,
                   isDesiredValue |-> desired, lastUpdated |-> t, value |-> v]
           item == [upd |-> t, value |-> v]
<1>1. /\ \A x : x \in old <=> x \in Property /\ PropertyRow(x) \in rows
      /\ IsNews(rows, t) <=> \A x \in old : t >= x.lastUpdated
  BY OldProperty
<1>2. /\ new \in Property /\ new.deviceId = d /\ new.controllerId = c
      /\ new.propertyId = p /\ new.isDesiredValue = desired /\ new.lastUpdated = t
  BY DEF Property
<1>3. Row(StatePk, k, FALSE, item) = PropertyRow(new)
  BY DEF Row, PropertyRow
<1>4. IsNews(rows, t) /\ Put(StatePk, k, FALSE, item)
  BY Zenon DEF UpdatePropertyState
<1>5. k[1] = 1
  BY IdTypes, PropertyKey
<1>6. \A r : r \in rows <=> r \in table /\ r.pk = StatePk /\ r.sk = k
  BY DEF At
<1>7. \A x : x \in old => x \in Properties
  OBVIOUS
<1> HIDE DEF new, old, rows, k, item
<1>8. /\ RowsInv' /\ Spares(StatePk, k)
      /\ \A r : r.pk = StatePk /\ r.sk = k => (r \in table' <=> r = PropertyRow(new))
  <2>1. KnownRow(Row(StatePk, k, FALSE, item))
    BY <1>2, <1>3, Zenon DEF KnownRow
  <2>2. /\ RowsInv' /\ Spares(StatePk, k)
        /\ \A r : r.pk = StatePk /\ r.sk = k =>
             (r \in table' <=> r = Row(StatePk, k, FALSE, item))
    BY <1>4, <2>1, PutOne, Zenon
  <2> QED
    BY <1>3, <2>2, Zenon
<1>9. Properties' = (Properties \ old) \cup {new}
  <2>1. Stored /\ Stored'
    BY <1>8, QueriesStored, PTL
  <2>2. PropertyRow(new).sk = k
    BY <1>3 DEF Row
  <2>3. \A x \in Property : PropertyRow(x).sk # k =>
          (PropertyRow(x) \in table' <=> PropertyRow(x) \in table)
    BY <1>8, Zenon DEF Spares
  <2>4. \A x \in Property : PropertyRow(x).sk = k =>
          (PropertyRow(x) \in table' <=> x = new)
    <3> SUFFICES ASSUME NEW x \in Property, PropertyRow(x).sk = k
                 PROVE  PropertyRow(x) \in table' <=> x = new
      OBVIOUS
    <3>1. PropertyRow(x) \in table' <=> PropertyRow(x) = PropertyRow(new)
      BY <1>8, PropertyRead, Zenon
    <3>2. PropertyOf(PropertyRow(x)) = x /\ PropertyOf(PropertyRow(new)) = new
      BY <1>2, PropertyRead
    <3> QED
      BY <3>1, <3>2, Zenon
  <2>5. \A x \in Property : x \in old <=> PropertyRow(x) \in table /\ PropertyRow(x).sk = k
    BY <1>1, <1>6, PropertyRead, Zenon
  <2>6. \A x : x \in Properties' <=> (x \in Properties /\ x \notin old) \/ x = new
    <3>1. \A x : x \in Properties' <=> x \in Property /\ PropertyRow(x) \in table'
      BY <2>1, Zenon DEF Stored
    <3>2. \A x : x \in Properties <=> x \in Property /\ PropertyRow(x) \in table
      BY <2>1, Zenon DEF Stored
    <3> QED
      BY <1>2, <2>2, <2>3, <2>4, <2>5, <3>1, <3>2, Zenon
  <2> QED
    BY <2>6, Zenon
<1>10. /\ Devices' = Devices /\ History' = History /\ ListClients' = ListClients
       /\ Subscriptions' = Subscriptions
  <2>1. k[1] # 0 /\ StatePk \in FixedPks
    BY <1>5 DEF FixedPks
  <2> QED
    BY <1>8, <2>1, ViewsKept, FixedNotHistory, PartitionsDiffer
<1>11. Schedules' = Schedules /\ Saved' = Saved
  BY <1>8, AllSchedulesKept, PartitionsDiffer
<1>12. \A x \in old : x.lastUpdated <= t
  <2>1. \A x \in old : t >= x.lastUpdated
    BY <1>1, <1>4, Zenon
  <2> QED
    BY <2>1
<1>13. old = {x \in Properties : /\ x.deviceId = new.deviceId
                                 /\ x.controllerId = new.controllerId
                                 /\ x.propertyId = new.propertyId
                                 /\ x.isDesiredValue = new.isDesiredValue}
  BY <1>2, Zenon DEF old
<1>14. Records!UpdateProperty(new)
  BY <1>2, <1>9, <1>10, <1>11, <1>12, <1>13, Zenon
  DEF Records!UpdateProperty, Schedules, Saved
<1> QED
  BY <1>2, <1>8, <1>14, Zenon

\* Rows of what happened to a device's connection are read by no query.
LEMMA ConnectedStep ==
  ASSUME RowsInv, NEW d \in DeviceId, NEW t \in Second, NEW v \in Value,
         AddDeviceHistory(d, t, v)
  PROVE  RowsInv' /\ UNCHANGED Records!vars
<1> DEFINE pk == DeviceHistoryPk(d)
           item == [value |-> v]
<1>1. /\ Row(pk, TimeSk(t), TRUE, item) = ConnectedRow(d, t, v)
      /\ Put(pk, TimeSk(t), TRUE, item)
  BY Zenon DEF Row, ConnectedRow, AddDeviceHistory
<1>2. KnownRow(ConnectedRow(d, t, v))
  BY Zenon DEF KnownRow
<1>3. /\ StatePk # pk /\ SchedulePk # pk /\ SavedPk # pk /\ ClientPk # pk
      /\ SubscriptionPk # pk
  <2>1. d \in Text /\ 0 \in Byte /\ 0 \in Uint16
    BY IdTypes, ByteRange, Limits DEF Uint16
  <2>2. \A k \in FixedPks : pk # k
    BY <2>1, HistoryApart
  <2> QED
    BY <2>2, Zenon DEF FixedPks
<1>4. \A e \in DeviceId, c \in ControllerId, p \in PropertyId :
        pk # PropertyHistoryPk(e, c, p)
  BY IdTypes, HistoryKeysDiffer
<1> HIDE DEF pk, item
<1>5. RowsInv' /\ Spares(pk, TimeSk(t))
  BY <1>1, <1>2, PutOne, Zenon
<1>6. /\ Devices' = Devices /\ Properties' = Properties /\ History' = History
      /\ ListClients' = ListClients /\ Subscriptions' = Subscriptions
  BY <1>3, <1>4, <1>5, ViewsKept
<1>7. Schedules' = Schedules /\ Saved' = Saved
  BY <1>3, <1>5, AllSchedulesKept, Zenon
<1> QED
  BY <1>5, <1>6, <1>7, Zenon DEF Records!vars, Schedules, Saved

LEMMA HistoryStep ==
  ASSUME RowsInv, NEW d \in DeviceId, NEW c \in ControllerId, NEW p \in PropertyId,
         NEW t \in Second, NEW v \in Value,
         AddPropertyHistory(d, c, p, t, v)
  PROVE  RowsInv' /\ \E new \in Past : Records!AddHistory(new)
<1> DEFINE pk == PropertyHistoryPk(d, c, p)
           k == TimeSk(t)
           item == [value |-> v]
           new == [deviceId |-> d, controllerId |-> c, propertyId |-> p,
                   time |-> t, value |-> v]
<1>1. /\ new \in Past /\ new.deviceId = d /\ new.controllerId = c
      /\ new.propertyId = p /\ new.time = t
  BY DEF Past
<1>2. Row(pk, k, TRUE, item) = PastRow(new)
  BY DEF Row, PastRow
<1>3. Put(pk, k, TRUE, item)
  BY Zenon DEF AddPropertyHistory
<1>4. \A x \in Past : (x.deviceId = d /\ x.controllerId = c /\ x.propertyId = p /\ x.time = t)
                        <=> PastRow(x).pk = pk /\ PastRow(x).sk = k
  <2> TAKE x \in Past
  <2>1. /\ x.deviceId \in Text /\ x.controllerId \in Byte
        /\ x.propertyId \in Uint16 /\ x.time \in Time
    BY IdTypes DEF Past
  <2>2. d \in Text /\ c \in Byte /\ p \in Uint16 /\ t \in Time
    BY IdTypes
  <2>3. /\ PastRow(x).pk = PropertyHistoryPk(x.deviceId, x.controllerId, x.propertyId)
        /\ PastRow(x).sk = TimeSk(x.time)
    BY PastRead
  <2>4. TimeSk(x.time) = TimeSk(t) => x.time = t
    <3>1. TimeIn(TimeSk(x.time)) = x.time /\ TimeIn(TimeSk(t)) = t
      BY <2>1, <2>2, TimeKey
    <3> QED
      BY <3>1, Zenon
  <2>5. PropertyHistoryPk(x.deviceId, x.controllerId, x.propertyId) = pk
          => x.deviceId = d /\ x.controllerId = c /\ x.propertyId = p
    BY <2>1, <2>2, HistoryKeysDiffer
  <2> QED
    BY <2>3, <2>4, <2>5, Zenon
<1>5. \A f \in FixedPks : f # pk
  BY IdTypes, HistoryApart
<1> HIDE DEF new, pk, k, item
<1>6. /\ RowsInv' /\ Spares(pk, k)
      /\ \A r : r.pk = pk /\ r.sk = k => (r \in table' <=> r = PastRow(new))
  <2>1. KnownRow(Row(pk, k, TRUE, item))
    BY <1>1, <1>2, Zenon DEF KnownRow
  <2>2. /\ RowsInv' /\ Spares(pk, k)
        /\ \A r : r.pk = pk /\ r.sk = k => (r \in table' <=> r = Row(pk, k, TRUE, item))
    BY <1>3, <2>1, PutOne, Zenon
  <2> QED
    BY <1>2, <2>2, Zenon
<1> DEFINE old == {x \in History : /\ x.deviceId = d /\ x.controllerId = c
                                   /\ x.propertyId = p /\ x.time = t}
<1>7. History' = (History \ old) \cup {new}
  <2>1. HistoryStored /\ HistoryStored'
    BY <1>6, HistoryIsStored, PTL
  <2>2. \A x \in Past : ~(PastRow(x).pk = pk /\ PastRow(x).sk = k) =>
          (PastRow(x) \in table' <=> PastRow(x) \in table)
    BY <1>6, Zenon DEF Spares
  <2>3. \A x \in Past : PastRow(x).pk = pk /\ PastRow(x).sk = k =>
          (PastRow(x) \in table' <=> x = new)
    <3> SUFFICES ASSUME NEW x \in Past, PastRow(x).pk = pk /\ PastRow(x).sk = k
                 PROVE  PastRow(x) \in table' <=> x = new
      OBVIOUS
    <3>1. PastRow(x) \in table' <=> PastRow(x) = PastRow(new)
      BY <1>6, Zenon
    <3>2. PastRow(x) = PastRow(new) => x = new
      <4>1. /\ x.deviceId = new.deviceId /\ x.controllerId = new.controllerId
            /\ x.propertyId = new.propertyId
        BY <1>1, <1>4, Zenon
      <4>2. /\ PastOf(x.deviceId, x.controllerId, x.propertyId, PastRow(x)) = x
            /\ PastOf(new.deviceId, new.controllerId, new.propertyId, PastRow(new)) = new
        BY <1>1, PastRead
      <4> QED
        BY <4>1, <4>2, Zenon
    <3> QED
      BY <3>1, <3>2, Zenon
  <2>4. \A x : x \in History <=> x \in Past /\ PastRow(x) \in table
    BY <2>1, Zenon DEF HistoryStored
  <2>5. \A x : x \in History' <=> x \in Past /\ PastRow(x) \in table'
    BY <2>1, Zenon DEF HistoryStored
  <2>6. \A x : x \in old <=> x \in Past /\ PastRow(x) \in table
                             /\ PastRow(x).pk = pk /\ PastRow(x).sk = k
    BY <1>4, <2>4, Zenon
  <2>7. PastRow(new).pk = pk /\ PastRow(new).sk = k
    BY <1>1, <1>4, Zenon
  <2> HIDE DEF old
  <2>8. \A x : x \in History' <=> (x \in History /\ x \notin old) \/ x = new
    <3>1. ASSUME NEW x \in Past, PastRow(x).pk = pk, PastRow(x).sk = k
          PROVE  x \in History' <=> (x \in History /\ x \notin old) \/ x = new
      BY <2>3, <2>4, <2>5, <2>6, <3>1, Zenon
    <3>2. ASSUME NEW x \in Past, ~(PastRow(x).pk = pk /\ PastRow(x).sk = k)
          PROVE  x \in History' <=> (x \in History /\ x \notin old) \/ x = new
      BY <2>2, <2>4, <2>5, <2>6, <2>7, <3>2, Zenon
    <3>3. ASSUME NEW x, x \notin Past
          PROVE  x \in History' <=> (x \in History /\ x \notin old) \/ x = new
      BY <1>1, <2>4, <2>5, <3>3, Zenon
    <3> QED
      BY <3>1, <3>2, <3>3, Zenon
  <2> QED
    BY <2>8, Zenon
<1>8. /\ Devices' = Devices /\ Properties' = Properties /\ ListClients' = ListClients
      /\ Subscriptions' = Subscriptions
  BY <1>5, <1>6, ViewsKept, Zenon DEF FixedPks
<1>9. Schedules' = Schedules /\ Saved' = Saved
  BY <1>5, <1>6, AllSchedulesKept, Zenon DEF FixedPks
<1>10. old = {x \in History : /\ x.deviceId = new.deviceId
                              /\ x.controllerId = new.controllerId
                              /\ x.propertyId = new.propertyId
                              /\ x.time = new.time}
  BY <1>1, Zenon
<1> HIDE DEF old
<1>11. Records!AddHistory(new)
  BY <1>7, <1>8, <1>9, <1>10, Zenon DEF Records!AddHistory, Schedules, Saved
<1> QED
  BY <1>1, <1>6, <1>11, Zenon

\* Clients and subscriptions, by their names.
LEMMA ClientKeys ==
  ASSUME NEW x \in Client, NEW id \in ConnectionId
  PROVE  x.connectionId = id <=> ClientRow(x).sk = NameSk(id)
<1>1. ClientRow(x).sk = NameSk(x.connectionId)
  BY ClientRead
<1>2. x.connectionId \in Text /\ id \in Text
  BY IdTypes DEF Client
<1>3. NameIn(NameSk(x.connectionId)) = x.connectionId /\ NameIn(NameSk(id)) = id
  BY <1>2, NameKey
<1> QED
  BY <1>1, <1>3, Zenon

LEMMA AddClientStep ==
  ASSUME RowsInv, NEW id \in ConnectionId, NEW v \in Value, AddWebSocketClient(id, v)
  PROVE  RowsInv' /\ \E new \in Client : Records!AddClient(new)
<1> DEFINE k == NameSk(id)
           item == [value |-> v]
           new == [connectionId |-> id, deviceIds |-> v]
<1>1. new \in Client /\ new.connectionId = id
  BY DEF Client
<1>2. Row(ClientPk, k, TRUE, item) = ClientRow(new)
  BY DEF Row, ClientRow
<1>3. Put(ClientPk, k, TRUE, item)
  BY Zenon DEF AddWebSocketClient
<1>4. \A x \in Client : x.connectionId = id <=> ClientRow(x).sk = k
  BY ClientKeys
<1> HIDE DEF new, k, item
<1>5. /\ RowsInv' /\ Spares(ClientPk, k)
      /\ \A r : r.pk = ClientPk /\ r.sk = k => (r \in table' <=> r = ClientRow(new))
  <2>1. KnownRow(Row(ClientPk, k, TRUE, item))
    BY <1>1, <1>2, Zenon DEF KnownRow
  <2>2. /\ RowsInv' /\ Spares(ClientPk, k)
        /\ \A r : r.pk = ClientPk /\ r.sk = k =>
             (r \in table' <=> r = Row(ClientPk, k, TRUE, item))
    BY <1>3, <2>1, PutOne, Zenon
  <2> QED
    BY <1>2, <2>2, Zenon
<1>6. ListClients' = {x \in ListClients : x.connectionId # new.connectionId} \cup {new}
  <2>1. Stored /\ Stored'
    BY <1>5, QueriesStored, PTL
  <2>2. \A x : x \in ListClients <=> x \in Client /\ ClientRow(x) \in table
    BY <2>1, Zenon DEF Stored
  <2>3. \A x : x \in ListClients' <=> x \in Client /\ ClientRow(x) \in table'
    BY <2>1, Zenon DEF Stored
  <2>4. ASSUME NEW x \in Client, x.connectionId # id
        PROVE  x \in ListClients' <=> x \in ListClients
    <3>1. ClientRow(x) \in table' <=> ClientRow(x) \in table
      BY <1>4, <1>5, <2>4, Zenon DEF Spares
    <3> QED
      BY <2>2, <2>3, <3>1, Zenon
  <2>5. ASSUME NEW x \in Client, x.connectionId = id
        PROVE  x \in ListClients' <=> x = new
    <3>1. ClientRow(x) \in table' <=> ClientRow(x) = ClientRow(new)
      BY <1>4, <1>5, <2>5, ClientRead, Zenon
    <3>2. ClientOf(ClientRow(x)) = x /\ ClientOf(ClientRow(new)) = new
      BY <1>1, ClientRead
    <3> QED
      BY <2>3, <3>1, <3>2, Zenon
  <2>6. \A x : x \in ListClients' <=> (x \in ListClients /\ x.connectionId # id) \/ x = new
    BY <1>1, <2>2, <2>3, <2>4, <2>5, Zenon
  <2> QED
    BY <1>1, <2>6, Zenon
<1>7. /\ Devices' = Devices /\ Properties' = Properties /\ History' = History
      /\ Subscriptions' = Subscriptions
  BY <1>5, ViewsKept, FixedNotHistory, PartitionsDiffer DEF FixedPks
<1>8. Schedules' = Schedules /\ Saved' = Saved
  BY <1>5, AllSchedulesKept, PartitionsDiffer
<1>9. Records!AddClient(new)
  BY <1>6, <1>7, <1>8, Zenon DEF Records!AddClient, Schedules, Saved
<1> QED
  BY <1>1, <1>5, <1>9, Zenon

LEMMA RemoveClientStep ==
  ASSUME RowsInv, NEW id \in ConnectionId, RemoveWebSocketClient(id)
  PROVE  RowsInv' /\ Records!RemoveClient(id)
<1> DEFINE k == NameSk(id)
<1>1. Delete(ClientPk, k)
  BY Zenon DEF RemoveWebSocketClient
<1>2. \A x \in Client : x.connectionId = id <=> ClientRow(x).sk = k
  BY ClientKeys
<1> HIDE DEF k
<1>3. /\ RowsInv' /\ Spares(ClientPk, k)
      /\ \A r : r.pk = ClientPk /\ r.sk = k => r \notin table'
  BY <1>1, DeleteOne, Zenon
<1>4. ListClients' = {x \in ListClients : x.connectionId # id}
  <2>1. Stored /\ Stored'
    BY <1>3, QueriesStored, PTL
  <2>2. \A x : x \in ListClients <=> x \in Client /\ ClientRow(x) \in table
    BY <2>1, Zenon DEF Stored
  <2>3. \A x : x \in ListClients' <=> x \in Client /\ ClientRow(x) \in table'
    BY <2>1, Zenon DEF Stored
  <2>4. \A x \in Client : ClientRow(x) \in table' <=> ClientRow(x) \in table /\ x.connectionId # id
    <3> TAKE x \in Client
    <3>1. CASE x.connectionId = id
      BY <1>2, <1>3, <3>1, ClientRead, Zenon
    <3>2. CASE x.connectionId # id
      BY <1>2, <1>3, <3>2, Zenon DEF Spares
    <3> QED
      BY <3>1, <3>2, Zenon
  <2> QED
    BY <2>2, <2>3, <2>4, Zenon
<1>5. /\ Devices' = Devices /\ Properties' = Properties /\ History' = History
      /\ Subscriptions' = Subscriptions
  BY <1>3, ViewsKept, FixedNotHistory, PartitionsDiffer DEF FixedPks
<1>6. Schedules' = Schedules /\ Saved' = Saved
  BY <1>3, AllSchedulesKept, PartitionsDiffer
<1>7. Records!RemoveClient(id)
  BY <1>4, <1>5, <1>6, Zenon DEF Records!RemoveClient, Schedules, Saved
<1> QED
  BY <1>3, <1>7, Zenon

LEMMA SubscriptionKeys ==
  ASSUME NEW x \in Subscription, NEW id \in Endpoint
  PROVE  x.endpoint = id <=> SubscriptionRow(x).sk = NameSk(id)
<1>1. SubscriptionRow(x).sk = NameSk(x.endpoint)
  BY SubscriptionRead
<1>2. x.endpoint \in Text /\ id \in Text
  BY IdTypes DEF Subscription
<1>3. NameIn(NameSk(x.endpoint)) = x.endpoint /\ NameIn(NameSk(id)) = id
  BY <1>2, NameKey
<1> QED
  BY <1>1, <1>3, Zenon

LEMMA AddSubscriptionStep ==
  ASSUME RowsInv, NEW id \in Endpoint, NEW v \in Value, AddPushNotificationSubscription(id, v)
  PROVE  RowsInv' /\ \E new \in Subscription : Records!Subscribe(new)
<1> DEFINE k == NameSk(id)
           item == [value |-> v]
           new == [endpoint |-> id, subscription |-> v]
<1>1. new \in Subscription /\ new.endpoint = id
  BY DEF Subscription
<1>2. Row(SubscriptionPk, k, FALSE, item) = SubscriptionRow(new)
  BY DEF Row, SubscriptionRow
<1>3. Put(SubscriptionPk, k, FALSE, item)
  BY Zenon DEF AddPushNotificationSubscription
<1>4. \A x \in Subscription : x.endpoint = id <=> SubscriptionRow(x).sk = k
  BY SubscriptionKeys
<1> HIDE DEF new, k, item
<1>5. /\ RowsInv' /\ Spares(SubscriptionPk, k)
      /\ \A r : r.pk = SubscriptionPk /\ r.sk = k => (r \in table' <=> r = SubscriptionRow(new))
  <2>1. KnownRow(Row(SubscriptionPk, k, FALSE, item))
    BY <1>1, <1>2, Zenon DEF KnownRow
  <2>2. /\ RowsInv' /\ Spares(SubscriptionPk, k)
        /\ \A r : r.pk = SubscriptionPk /\ r.sk = k =>
             (r \in table' <=> r = Row(SubscriptionPk, k, FALSE, item))
    BY <1>3, <2>1, PutOne, Zenon
  <2> QED
    BY <1>2, <2>2, Zenon
<1>6. Subscriptions' = {x \in Subscriptions : x.endpoint # new.endpoint} \cup {new}
  <2>1. Stored /\ Stored'
    BY <1>5, QueriesStored, PTL
  <2>2. \A x : x \in Subscriptions <=> x \in Subscription /\ SubscriptionRow(x) \in table
    BY <2>1, Zenon DEF Stored
  <2>3. \A x : x \in Subscriptions' <=> x \in Subscription /\ SubscriptionRow(x) \in table'
    BY <2>1, Zenon DEF Stored
  <2>4. ASSUME NEW x \in Subscription, x.endpoint # id
        PROVE  x \in Subscriptions' <=> x \in Subscriptions
    <3>1. SubscriptionRow(x) \in table' <=> SubscriptionRow(x) \in table
      BY <1>4, <1>5, <2>4, Zenon DEF Spares
    <3> QED
      BY <2>2, <2>3, <3>1, Zenon
  <2>5. ASSUME NEW x \in Subscription, x.endpoint = id
        PROVE  x \in Subscriptions' <=> x = new
    <3>1. SubscriptionRow(x) \in table' <=> SubscriptionRow(x) = SubscriptionRow(new)
      BY <1>4, <1>5, <2>5, SubscriptionRead, Zenon
    <3>2. SubscriptionOf(SubscriptionRow(x)) = x /\ SubscriptionOf(SubscriptionRow(new)) = new
      BY <1>1, SubscriptionRead
    <3> QED
      BY <2>3, <3>1, <3>2, Zenon
  <2>6. \A x : x \in Subscriptions' <=> (x \in Subscriptions /\ x.endpoint # id) \/ x = new
    BY <1>1, <2>2, <2>3, <2>4, <2>5, Zenon
  <2> QED
    BY <1>1, <2>6, Zenon
<1>7. /\ Devices' = Devices /\ Properties' = Properties /\ History' = History
      /\ ListClients' = ListClients
  BY <1>5, ViewsKept, FixedNotHistory, PartitionsDiffer DEF FixedPks
<1>8. Schedules' = Schedules /\ Saved' = Saved
  BY <1>5, AllSchedulesKept, PartitionsDiffer
<1>9. Records!Subscribe(new)
  BY <1>6, <1>7, <1>8, Zenon DEF Records!Subscribe, Schedules, Saved
<1> QED
  BY <1>1, <1>5, <1>9, Zenon

LEMMA RemoveSubscriptionStep ==
  ASSUME RowsInv, NEW id \in Endpoint, RemovePushNotificationSubscription(id)
  PROVE  RowsInv' /\ Records!Unsubscribe(id)
<1> DEFINE k == NameSk(id)
<1>1. Delete(SubscriptionPk, k)
  BY Zenon DEF RemovePushNotificationSubscription
<1>2. \A x \in Subscription : x.endpoint = id <=> SubscriptionRow(x).sk = k
  BY SubscriptionKeys
<1> HIDE DEF k
<1>3. /\ RowsInv' /\ Spares(SubscriptionPk, k)
      /\ \A r : r.pk = SubscriptionPk /\ r.sk = k => r \notin table'
  BY <1>1, DeleteOne, Zenon
<1>4. Subscriptions' = {x \in Subscriptions : x.endpoint # id}
  <2>1. Stored /\ Stored'
    BY <1>3, QueriesStored, PTL
  <2>2. \A x : x \in Subscriptions <=> x \in Subscription /\ SubscriptionRow(x) \in table
    BY <2>1, Zenon DEF Stored
  <2>3. \A x : x \in Subscriptions' <=> x \in Subscription /\ SubscriptionRow(x) \in table'
    BY <2>1, Zenon DEF Stored
  <2>4. \A x \in Subscription : SubscriptionRow(x) \in table' <=> SubscriptionRow(x) \in table /\ x.endpoint # id
    <3> TAKE x \in Subscription
    <3>1. CASE x.endpoint = id
      BY <1>2, <1>3, <3>1, SubscriptionRead, Zenon
    <3>2. CASE x.endpoint # id
      BY <1>2, <1>3, <3>2, Zenon DEF Spares
    <3> QED
      BY <3>1, <3>2, Zenon
  <2> QED
    BY <2>2, <2>3, <2>4, Zenon
<1>5. /\ Devices' = Devices /\ Properties' = Properties /\ History' = History
      /\ ListClients' = ListClients
  BY <1>3, ViewsKept, FixedNotHistory, PartitionsDiffer DEF FixedPks
<1>6. Schedules' = Schedules /\ Saved' = Saved
  BY <1>3, AllSchedulesKept, PartitionsDiffer
<1>7. Records!Unsubscribe(id)
  BY <1>4, <1>5, <1>6, Zenon DEF Records!Unsubscribe, Schedules, Saved
<1> QED
  BY <1>3, <1>7, Zenon

LEMMA ScheduleStep ==
  ASSUME RowsInv, NEW d \in DeviceId, NEW given \in Columns, UpdateSchedule(d, given)
  PROVE  RowsInv' /\ Records!UpdateSchedule(d, given)
<1> DEFINE k == NameSk(d)
           rows == At(SchedulePk, k)
           known == Known({r.item : r \in rows})
           item == [columns |-> Merged(known, given)]
           new == [deviceId |-> d, columns |-> Merged(known, given)]
<1>1. Expires(rows) = FALSE /\ known \in Columns
  BY OldSchedule
<1>2. new \in Schedule
  BY <1>1, MergedColumns DEF Schedule
<1>3. Row(SchedulePk, k, FALSE, item) = ScheduleRow(new)
  BY DEF Row, ScheduleRow
<1>4. Put(SchedulePk, k, FALSE, item)
  BY <1>1, Zenon DEF UpdateSchedule
<1>5. GetSchedule(d) = [deviceId |-> d, columns |-> known]
  BY Zenon DEF GetSchedule
<1>6. At(SchedulePk, k)' = {r \in table' : r.pk = SchedulePk /\ r.sk = k}
  BY DEF At
<1> HIDE DEF rows, known
<1>7. /\ RowsInv' /\ Spares(SchedulePk, k)
      /\ \A r : r.pk = SchedulePk /\ r.sk = k =>
           (r \in table' <=> r = Row(SchedulePk, k, FALSE, item))
  <2>1. KnownRow(Row(SchedulePk, k, FALSE, item))
    BY <1>2, <1>3, Zenon DEF KnownRow
  <2> HIDE DEF k, item
  <2> QED
    BY <1>4, <2>1, PutOne, Zenon
<1>8. GetSchedule(d)' = new
  <2> DEFINE at == At(SchedulePk, k)'
             one == Row(SchedulePk, k, FALSE, item)
  <2>1. at = {one}
    <3>1. one.pk = SchedulePk /\ one.sk = k
      BY DEF Row
    <3> HIDE DEF k, item, one
    <3> QED
      BY <1>6, <1>7, <3>1, Zenon DEF one
  <2>2. one.item = item /\ item.columns = Merged(known, given)
    BY DEF Row
  <2>3. GetSchedule(d)' =
          [deviceId |-> d, columns |-> Known({r.item : r \in at})]
    BY Zenon DEF GetSchedule
  <2> HIDE DEF item, k, at, one
  <2>4. {r.item : r \in at} = {item}
    BY <2>1, <2>2
  <2>5. Known({item}) = Merged(known, given)
    BY <2>2, KnownOf, Zenon
  <2> QED
    BY <2>3, <2>4, <2>5, Zenon DEF new
<1>9. \A e \in DeviceId : e # d => GetSchedule(e)' = GetSchedule(e)
  <2> SUFFICES ASSUME NEW e \in DeviceId, e # d PROVE GetSchedule(e)' = GetSchedule(e)
    OBVIOUS
  <2>1. NameSk(e) # k
    <3>1. e \in Text /\ d \in Text
      BY IdTypes
    <3>2. NameIn(NameSk(e)) = e /\ NameIn(NameSk(d)) = d
      BY <3>1, NameKey
    <3> QED
      BY <3>2
  <2> QED
    BY <1>7, <2>1, SchedulesKept
<1> DEFINE old == {x \in Schedules : x.deviceId = d}
<1>10. \A e : GetSchedule(e).deviceId = e
  BY DEF GetSchedule
<1>11. old = {GetSchedule(d)}
  BY <1>10, Zenon DEF Schedules
<1>12. Schedules' = (Schedules \ old) \cup {new}
  <2>1. \A x : x \in Schedules' <=> \E e \in DeviceId : x = GetSchedule(e)'
    BY DEF Schedules
  <2>2. \A x : x \in Schedules <=> \E e \in DeviceId : x = GetSchedule(e)
    BY DEF Schedules
  <2> HIDE DEF old, new
  <2>3. \A x : x \in Schedules' <=> (x \in Schedules /\ x \notin old) \/ x = new
    <3>1. ASSUME NEW x \in Schedules' PROVE (x \in Schedules /\ x \notin old) \/ x = new
      <4>1. PICK e \in DeviceId : x = GetSchedule(e)'
        BY <2>1, <3>1
      <4>2. CASE e = d
        BY <1>8, <4>1, <4>2
      <4>3. CASE e # d
        <5>1. x = GetSchedule(e)
          BY <1>9, <4>1, <4>3
        <5>2. x # GetSchedule(d)
          BY <1>10, <4>3, <5>1
        <5> QED
          BY <1>11, <2>2, <5>1, <5>2
      <4> QED
        BY <4>2, <4>3
    <3>2. ASSUME NEW x \in Schedules, x \notin old PROVE x \in Schedules'
      <4>1. PICK e \in DeviceId : x = GetSchedule(e)
        BY <2>2, <3>2
      <4>2. e # d
        BY <1>11, <3>2, <4>1
      <4> QED
        BY <1>9, <2>1, <4>1, <4>2
    <3>3. new \in Schedules'
      BY <1>8, <2>1
    <3> QED
      BY <3>1, <3>2, <3>3
  <2> QED
    BY <2>3, Zenon
<1>13. Known(old) = known
  <2>1. GetSchedule(d).columns = known
    BY <1>5
  <2> QED
    BY <1>11, <2>1, KnownOf, Zenon
<1>14. /\ Devices' = Devices /\ Properties' = Properties /\ History' = History
       /\ ListClients' = ListClients /\ Subscriptions' = Subscriptions
  BY <1>7, ViewsKept, FixedNotHistory, PartitionsDiffer DEF FixedPks
<1>15. Saved' = Saved
  BY <1>7, AllSchedulesKept, PartitionsDiffer
<1>16. Records!UpdateSchedule(d, given)
  BY <1>12, <1>13, <1>14, <1>15, SameRecords, Zenon
  DEF Records!UpdateSchedule, new, old, Schedules, Saved
<1> QED
  BY <1>7, <1>16, Zenon

LEMMA SavedStep ==
  ASSUME RowsInv, NEW d \in DeviceId, NEW v \in Value, SetSavedSchedules(d, v)
  PROVE  RowsInv' /\ Records!SetSaved([deviceId |-> d, schedules |-> v])
<1> DEFINE k == NameSk(d)
           item == [value |-> v]
           new == [deviceId |-> d, schedules |-> v]
<1>1. Expires(At(SavedPk, k)) = FALSE
  BY OldSaved
<1>2. Row(SavedPk, k, FALSE, item) = SavedRow(d, v)
  BY DEF Row, SavedRow
<1>3. Put(SavedPk, k, FALSE, item)
  BY <1>1, Zenon DEF SetSavedSchedules
<1>4. At(SavedPk, k)' = {r \in table' : r.pk = SavedPk /\ r.sk = k}
  BY DEF At
<1>5. /\ RowsInv' /\ Spares(SavedPk, k)
      /\ \A r : r.pk = SavedPk /\ r.sk = k =>
           (r \in table' <=> r = Row(SavedPk, k, FALSE, item))
  <2>1. KnownRow(Row(SavedPk, k, FALSE, item))
    BY <1>2, Zenon DEF KnownRow
  <2> HIDE DEF k, item
  <2> QED
    BY <1>3, <2>1, PutOne, Zenon
<1>6. GetSavedSchedules(d)' = new
  <2> DEFINE rows == At(SavedPk, k)'
             one == Row(SavedPk, k, FALSE, item)
  <2>1. rows = {one}
    <3>1. one.pk = SavedPk /\ one.sk = k
      BY DEF Row
    <3> HIDE DEF k, item, one
    <3> QED
      BY <1>4, <1>5, <3>1, Zenon DEF one
  <2>2. one.item.value = v
    BY DEF Row
  <2>3. GetSavedSchedules(d)' =
          [deviceId |-> d,
           schedules |-> IF rows = {} THEN None
                         ELSE (CHOOSE r \in rows : TRUE).item.value]
    BY Zenon DEF GetSavedSchedules
  <2> HIDE DEF rows, one
  <2>4. rows # {} /\ (CHOOSE r \in rows : TRUE) = one
    BY <2>1
  <2> QED
    BY <2>2, <2>3, <2>4, Zenon
<1>7. \A e \in DeviceId : e # d => GetSavedSchedules(e)' = GetSavedSchedules(e)
  <2> SUFFICES ASSUME NEW e \in DeviceId, e # d
               PROVE  GetSavedSchedules(e)' = GetSavedSchedules(e)
    OBVIOUS
  <2>1. NameSk(e) # k
    <3>1. e \in Text /\ d \in Text
      BY IdTypes
    <3>2. NameIn(NameSk(e)) = e /\ NameIn(NameSk(d)) = d
      BY <3>1, NameKey
    <3> QED
      BY <3>2
  <2> QED
    BY <1>5, <2>1, SchedulesKept
<1>8. \A e : GetSavedSchedules(e).deviceId = e
  BY DEF GetSavedSchedules
<1>9. Saved' = {x \in Saved : x.deviceId # new.deviceId} \cup {new}
  <2>1. \A x : x \in Saved' <=> \E e \in DeviceId : x = GetSavedSchedules(e)'
    BY DEF Saved
  <2>2. \A x : x \in Saved <=> \E e \in DeviceId : x = GetSavedSchedules(e)
    BY DEF Saved
  <2>3. new.deviceId = d
    OBVIOUS
  <2> HIDE DEF new
  <2>4. \A x : x \in Saved' <=> (x \in Saved /\ x.deviceId # d) \/ x = new
    <3>1. ASSUME NEW x \in Saved' PROVE (x \in Saved /\ x.deviceId # d) \/ x = new
      <4>1. PICK e \in DeviceId : x = GetSavedSchedules(e)'
        BY <2>1, <3>1
      <4>2. CASE e = d
        BY <1>6, <4>1, <4>2
      <4>3. CASE e # d
        BY <1>7, <1>8, <2>2, <4>1, <4>3
      <4> QED
        BY <4>2, <4>3
    <3>2. ASSUME NEW x \in Saved, x.deviceId # d PROVE x \in Saved'
      <4>1. PICK e \in DeviceId : x = GetSavedSchedules(e)
        BY <2>2, <3>2
      <4>2. e # d
        BY <1>8, <3>2, <4>1
      <4> QED
        BY <1>7, <2>1, <4>1, <4>2
    <3>3. new \in Saved'
      BY <1>6, <2>1
    <3> QED
      BY <3>1, <3>2, <3>3
  <2> QED
    BY <2>3, <2>4, Zenon
<1>10. /\ Devices' = Devices /\ Properties' = Properties /\ History' = History
       /\ ListClients' = ListClients /\ Subscriptions' = Subscriptions
  BY <1>5, ViewsKept, FixedNotHistory, PartitionsDiffer DEF FixedPks
<1>11. Schedules' = Schedules
  BY <1>5, AllSchedulesKept, PartitionsDiffer
<1>12. Records!SetSaved(new)
  BY <1>9, <1>10, <1>11, Zenon DEF Records!SetSaved, Schedules, Saved
<1> QED
  BY <1>5, <1>12, Zenon

\* Only rows of history and of clients have a time at which they expire.
LEMMA ExpireStep ==
  ASSUME RowsInv, Expire
  PROVE  RowsInv' /\ (Records!Expire \/ UNCHANGED Records!vars)
<1>1. PICK r \in table : r.exp /\ table' = table \ {r}
  BY DEF Expire
<1>2. KnownRow(r) /\ r.exp # FALSE
  BY <1>1 DEF RowsInv
<1>3. /\ RowsInv' /\ Spares(r.pk, r.sk)
      /\ \A s : s \in table' <=> s \in table /\ s # r
  BY <1>1, ExpireOne, DeleteOne
<1>4. \/ \E d \in DeviceId, t \in Second, v \in Value : r = ConnectedRow(d, t, v)
      \/ \E x \in Past : r = PastRow(x)
      \/ \E x \in Client : r = ClientRow(x)
  <2>1. \A x : /\ DeviceRow(x).exp = FALSE /\ PropertyRow(x).exp = FALSE
               /\ SubscriptionRow(x).exp = FALSE /\ ScheduleRow(x).exp = FALSE
    BY DEF DeviceRow, PropertyRow, SubscriptionRow, ScheduleRow
  <2>2. \A d, v : SavedRow(d, v).exp = FALSE
    BY DEF SavedRow
  <2> QED
    BY <1>2, <2>1, <2>2, Zenon DEF KnownRow
<1>5. Stored /\ Stored' /\ HistoryStored /\ HistoryStored'
  BY <1>3, QueriesStored, HistoryIsStored, PTL
<1>6. CASE \E d \in DeviceId, t \in Second, v \in Value : r = ConnectedRow(d, t, v)
  <2>1. PICK d \in DeviceId, t \in Second, v \in Value : r = ConnectedRow(d, t, v)
    BY <1>6
  <2>2. r.pk = DeviceHistoryPk(d)
    BY <2>1 DEF ConnectedRow
  <2>3. d \in Text /\ 0 \in Byte /\ 0 \in Uint16
    BY IdTypes, ByteRange, Limits DEF Uint16
  <2>4. \A k \in FixedPks : r.pk # k
    BY <2>2, <2>3, HistoryApart
  <2>5. \A e \in DeviceId, c \in ControllerId, p \in PropertyId :
          r.pk # PropertyHistoryPk(e, c, p)
    BY <2>2, IdTypes, HistoryKeysDiffer
  <2>6. /\ Devices' = Devices /\ Properties' = Properties /\ History' = History
        /\ ListClients' = ListClients /\ Subscriptions' = Subscriptions
    BY <1>3, <2>4, <2>5, ViewsKept DEF FixedPks
  <2>7. Schedules' = Schedules /\ Saved' = Saved
    BY <1>3, <2>4, AllSchedulesKept DEF FixedPks
  <2> QED
    BY <1>3, <2>6, <2>7, Zenon DEF Records!vars, Schedules, Saved
<1>7. CASE \E x \in Past : r = PastRow(x)
  <2>1. PICK x \in Past : r = PastRow(x)
    BY <1>7
  <2>2. \A k \in FixedPks : r.pk # k
    <3>1. x.deviceId \in Text /\ x.controllerId \in Byte /\ x.propertyId \in Uint16
      BY IdTypes DEF Past
    <3> QED
      BY <2>1, <3>1, PastRead, HistoryApart
  <2>3. /\ Devices' = Devices /\ Properties' = Properties
        /\ ListClients' = ListClients /\ Subscriptions' = Subscriptions
    BY <1>3, <2>2, ViewsKept DEF FixedPks
  <2>4. Schedules' = Schedules /\ Saved' = Saved
    BY <1>3, <2>2, AllSchedulesKept DEF FixedPks
  <2>5. x \in History /\ History' = History \ {x}
    <3>1. \A y : y \in History <=> y \in Past /\ PastRow(y) \in table
      BY <1>5, Zenon DEF HistoryStored
    <3>2. \A y : y \in History' <=> y \in Past /\ PastRow(y) \in table'
      BY <1>5, Zenon DEF HistoryStored
    <3>3. \A y \in Past : PastRow(y) = r <=> y = x
      <4> SUFFICES ASSUME NEW y \in Past, PastRow(y) = PastRow(x) PROVE y = x
        BY <2>1
      <4>1. /\ PropertyHistoryPk(x.deviceId, x.controllerId, x.propertyId)
                 = PropertyHistoryPk(y.deviceId, y.controllerId, y.propertyId)
            /\ PastOf(x.deviceId, x.controllerId, x.propertyId, PastRow(x)) = x
            /\ PastOf(y.deviceId, y.controllerId, y.propertyId, PastRow(y)) = y
        BY PastRead
      <4>2. /\ x.deviceId \in Text /\ x.controllerId \in Byte /\ x.propertyId \in Uint16
            /\ y.deviceId \in Text /\ y.controllerId \in Byte /\ y.propertyId \in Uint16
        BY IdTypes DEF Past
      <4>3. /\ x.deviceId = y.deviceId /\ x.controllerId = y.controllerId
            /\ x.propertyId = y.propertyId
        BY <4>1, <4>2, HistoryKeysDiffer
      <4> QED
        BY <4>1, <4>3, Zenon
    <3>4. x \in History
      BY <2>1, <3>1, Zenon
    <3>5. \A y \in Past : PastRow(y) \in table' <=> PastRow(y) \in table /\ y # x
      BY <1>3, <3>3, Zenon
    <3>6. \A y : y \in History' <=> y \in History /\ y # x
      BY <3>1, <3>2, <3>5, Zenon
    <3> QED
      BY <3>4, <3>6, Zenon
  <2>6. Records!Expire
    BY <2>3, <2>4, <2>5, Zenon DEF Records!Expire, Schedules, Saved
  <2> QED
    BY <1>3, <2>6, Zenon
<1>8. CASE \E x \in Client : r = ClientRow(x)
  <2>1. PICK x \in Client : r = ClientRow(x)
    BY <1>8
  <2>2. r.pk = ClientPk /\ ClientPk \in FixedPks
    BY <2>1, ClientRead DEF FixedPks
  <2>3. /\ Devices' = Devices /\ Properties' = Properties /\ History' = History
        /\ Subscriptions' = Subscriptions
    BY <1>3, <2>2, ViewsKept, FixedNotHistory, PartitionsDiffer
  <2>4. Schedules' = Schedules /\ Saved' = Saved
    BY <1>3, <2>2, AllSchedulesKept, PartitionsDiffer
  <2>5. x \in ListClients /\ ListClients' = ListClients \ {x}
    <3>1. \A y : y \in ListClients <=> y \in Client /\ ClientRow(y) \in table
      BY <1>5, Zenon DEF Stored
    <3>2. \A y : y \in ListClients' <=> y \in Client /\ ClientRow(y) \in table'
      BY <1>5, Zenon DEF Stored
    <3>3. \A y \in Client : ClientRow(y) = r <=> y = x
      <4>1. \A y \in Client : ClientOf(ClientRow(y)) = y
        BY ClientRead
      <4> QED
        BY <2>1, <4>1, Zenon
    <3>4. x \in ListClients
      BY <2>1, <3>1, Zenon
    <3>5. \A y \in Client : ClientRow(y) \in table' <=> ClientRow(y) \in table /\ y # x
      BY <1>3, <3>3, Zenon
    <3>6. \A y : y \in ListClients' <=> y \in ListClients /\ y # x
      BY <3>1, <3>2, <3>5, Zenon
    <3> QED
      BY <3>4, <3>6, Zenon
  <2>6. Records!Expire
    BY <2>3, <2>4, <2>5, Zenon DEF Records!Expire, Schedules, Saved
  <2> QED
    BY <1>3, <2>6, Zenon
<1> QED
  BY <1>4, <1>6, <1>7, <1>8, Zenon

------------------------------------------------------------------------------
(* The theorems.                                                            *)

LEMMA InitRows == Init => RowsInv
BY FS_EmptySet DEF Init, RowsInv, OneRowPerKey

LEMMA InitRecords == Init => Records!Init
<1> SUFFICES ASSUME Init PROVE Records!Init
  OBVIOUS
<1>1. table = {}
  BY DEF Init
<1>2. Stored /\ HistoryStored
  BY InitRows, QueriesStored, HistoryIsStored
<1>3. /\ Devices = {} /\ Properties = {} /\ ListClients = {} /\ Subscriptions = {}
      /\ History = {}
  BY <1>1, <1>2 DEF Stored, HistoryStored
<1>4. \A pk, sk : At(pk, sk) = {}
  BY <1>1 DEF At
<1>5. \A d : GetSchedule(d) = [deviceId |-> d, columns |-> Nothing]
  <2> TAKE d
  <2>1. {r.item : r \in At(SchedulePk, NameSk(d))} = {}
    BY <1>4
  <2> QED
    BY <2>1, KnownOf, Zenon DEF GetSchedule
<1>6. \A d : GetSavedSchedules(d) = [deviceId |-> d, schedules |-> None]
  BY <1>4 DEF GetSavedSchedules
<1>7. {GetSchedule(d) : d \in DeviceId}
        = {[deviceId |-> d, columns |-> Records!Nothing] : d \in DeviceId}
  BY <1>5, SameRecords
<1>8. {GetSavedSchedules(d) : d \in DeviceId}
        = {[deviceId |-> d, schedules |-> None] : d \in DeviceId}
  BY <1>6
<1> QED
  BY <1>3, <1>7, <1>8, Zenon DEF Records!Init

\* One lemma for each action, brought together.
LEMMA StepOfRecords ==
  RowsInv /\ [Next]_table => RowsInv' /\ [Records!Next]_(Records!vars)
<1> SUFFICES ASSUME RowsInv, [Next]_table
             PROVE  RowsInv' /\ (Records!Next \/ UNCHANGED Records!vars)
  BY Zenon
<1>1. ASSUME NEW d \in DeviceId, NEW t \in Second, NEW given \in Columns,
             UpdateDeviceState(d, t, given)
      PROVE  RowsInv' /\ Records!Next
  BY <1>1, DeviceStep, SameRecords, Zenon DEF Records!Next
<1>2. ASSUME NEW d \in DeviceId, NEW c \in ControllerId, NEW p \in PropertyId,
             NEW desired \in BOOLEAN, NEW t \in Second, NEW v \in Value,
             UpdatePropertyState(d, c, p, desired, t, v)
      PROVE  RowsInv' /\ Records!Next
  BY <1>2, PropertyStep, SameRecords, Zenon DEF Records!Next
<1>3. ASSUME NEW d \in DeviceId, NEW t \in Second, NEW v \in Value,
             AddDeviceHistory(d, t, v)
      PROVE  RowsInv' /\ UNCHANGED Records!vars
  BY <1>3, ConnectedStep, Zenon
<1>4. ASSUME NEW d \in DeviceId, NEW c \in ControllerId, NEW p \in PropertyId,
             NEW t \in Second, NEW v \in Value, AddPropertyHistory(d, c, p, t, v)
      PROVE  RowsInv' /\ Records!Next
  BY <1>4, HistoryStep, SameRecords, Zenon DEF Records!Next
<1>5. ASSUME NEW id \in ConnectionId, NEW v \in Value, AddWebSocketClient(id, v)
      PROVE  RowsInv' /\ Records!Next
  BY <1>5, AddClientStep, SameRecords, Zenon DEF Records!Next
<1>6. ASSUME NEW id \in ConnectionId, RemoveWebSocketClient(id)
      PROVE  RowsInv' /\ Records!Next
  BY <1>6, RemoveClientStep, Zenon DEF Records!Next
<1>7. ASSUME NEW endpoint \in Endpoint, NEW v \in Value,
             AddPushNotificationSubscription(endpoint, v)
      PROVE  RowsInv' /\ Records!Next
  BY <1>7, AddSubscriptionStep, SameRecords, Zenon DEF Records!Next
<1>8. ASSUME NEW endpoint \in Endpoint, RemovePushNotificationSubscription(endpoint)
      PROVE  RowsInv' /\ Records!Next
  BY <1>8, RemoveSubscriptionStep, Zenon DEF Records!Next
<1>9. ASSUME NEW d \in DeviceId, NEW given \in Columns, UpdateSchedule(d, given)
      PROVE  RowsInv' /\ Records!Next
  BY <1>9, ScheduleStep, SameRecords, Zenon DEF Records!Next
<1>10. ASSUME NEW d \in DeviceId, NEW v \in Value, SetSavedSchedules(d, v)
       PROVE  RowsInv' /\ Records!Next
  BY <1>10, SavedStep, Zenon DEF Records!Next
<1>11. ASSUME Expire
       PROVE  RowsInv' /\ (Records!Next \/ UNCHANGED Records!vars)
  BY <1>11, ExpireStep, Zenon DEF Records!Next
<1>12. ASSUME UNCHANGED table
       PROVE  RowsInv' /\ UNCHANGED Records!vars
  <2>1. RowsInv'
    BY <1>12, Zenon DEF RowsInv, OneRowPerKey, KnownRow
  <2>2. Spares(0, 0)
    BY <1>12, Zenon DEF Spares
  <2>3. Stored /\ Stored' /\ HistoryStored /\ HistoryStored'
    BY <2>1, QueriesStored, HistoryIsStored, PTL
  <2>4. /\ Devices' = Devices /\ Properties' = Properties /\ History' = History
        /\ ListClients' = ListClients /\ Subscriptions' = Subscriptions
    BY <1>12, <2>3 DEF Stored, HistoryStored
  <2>5. Schedules' = Schedules /\ Saved' = Saved
    BY <1>12 DEF Schedules, Saved, GetSchedule, GetSavedSchedules, At
  <2> QED
    BY <2>1, <2>4, <2>5, Zenon DEF Records!vars, Schedules, Saved
<1> QED
  BY <1>1, <1>2, <1>3, <1>4, <1>5, <1>6, <1>7, <1>8, <1>9, <1>10, <1>11, <1>12,
     Zenon DEF Next

LEMMA RowsAlways == Spec => []RowsInv
<1>1. Init => RowsInv
  BY InitRows
<1>2. RowsInv /\ [Next]_table => RowsInv'
  BY StepOfRecords
<1> QED
  BY <1>1, <1>2, PTL DEF Spec

\* The rows under binary keys are an implementation of the records: an update
\* of one changes that one, and no other of any kind, for all identifiers.
THEOREM ImplementsDataStoreCorrect == Spec => ImplementsDataStore
<1>1. Init => Records!Init
  BY InitRecords
<1>2. RowsInv /\ [Next]_table => [Records!Next]_(Records!vars)
  BY StepOfRecords
<1> QED
  BY <1>1, <1>2, RowsAlways, PTL DEF Spec, ImplementsDataStore, Records!Spec

LEMMA RowsImplyTypes == RowsInv => TypeOK
<1> SUFFICES ASSUME RowsInv PROVE TypeOK
  OBVIOUS
<1>1. IsFiniteSet(table) /\ \A r, s \in table : r.pk = s.pk /\ r.sk = s.sk => r = s
  BY DEF RowsInv, OneRowPerKey
<1>2. ASSUME NEW r \in table
      PROVE  /\ r.pk = StatePk =>
                  ParsesDevice(r.sk) /\ (r.sk[1] # 0 => ParsesProperty(r.sk))
             /\ r.pk \in {ClientPk, SubscriptionPk} => ParsesName(r.sk)
             /\ \A d \in DeviceId, c \in ControllerId, p \in PropertyId :
                  r.pk = PropertyHistoryPk(d, c, p) => ParsesTime(r.sk)
  <2>1. KnownRow(r)
    BY DEF RowsInv
  <2>2. r.pk = StatePk =>
          ParsesDevice(r.sk) /\ (r.sk[1] # 0 => ParsesProperty(r.sk))
    BY <2>1, StateRows
  <2>3. r.pk = ClientPk => ParsesName(r.sk)
    BY <2>1, KindsOfRows, ClientRead
  <2>4. r.pk = SubscriptionPk => ParsesName(r.sk)
    BY <2>1, KindsOfRows, SubscriptionRead
  <2>5. \A d \in DeviceId, c \in ControllerId, p \in PropertyId :
          r.pk = PropertyHistoryPk(d, c, p) => ParsesTime(r.sk)
    BY <2>1, KindsOfRows, PastRead
  <2> QED
    BY <2>2, <2>3, <2>4, <2>5, Zenon
<1>3. EveryKeyParses
  BY <1>2, Zenon DEF EveryKeyParses
<1>4. Stored /\ HistoryStored
  BY QueriesStored, HistoryIsStored
<1>5. /\ Devices \subseteq Device /\ Properties \subseteq Property
      /\ History \subseteq Past
      /\ ListClients \subseteq Client /\ Subscriptions \subseteq Subscription
  BY <1>4, Zenon DEF Stored, HistoryStored
<1> QED
  BY <1>1, <1>3, <1>5, Zenon DEF TypeOK

\* No key fails to be read again, whatever the identifiers.
THEOREM TypeCorrect == Spec => []TypeOK
BY RowsAlways, RowsImplyTypes, PTL

LEMMA RowsImplyPrefixes == RowsInv => PrefixesAgree
<1> SUFFICES ASSUME RowsInv, NEW d \in DeviceId
             PROVE
    /\ DevicesOf(RowsOfType(0)) = Devices /\ PropertiesOf(RowsOfType(0)) = {}
    /\ PropertiesOf(RowsOfType(1)) = Properties /\ DevicesOf(RowsOfType(1)) = {}
    /\ DevicesOf(RowsOfDevice(0, d)) = {x \in Devices : x.deviceId = d}
    /\ PropertiesOf(RowsOfDevice(1, d)) = {x \in Properties : x.deviceId = d}
    /\ \A e \in Endpoint :
         SubscriptionsOf(At(SubscriptionPk, NameSk(e)))
           = {x \in Subscriptions : x.endpoint = e}
  BY Zenon DEF PrefixesAgree
<1>1. \A r \in Partition(StatePk) :
        /\ r.sk[1] \in {0, 1}
        /\ \A type \in {0, 1} :
             /\ BeginsWith(r.sk, Bytes("uint8", type)) <=> r.sk[1] = type
             /\ BeginsWith(r.sk, Bytes("uint8", type) \o Bytes("utf8", d))
                  <=> r.sk[1] = type /\ DeviceIn(r.sk) = d
  <2> TAKE r \in Partition(StatePk)
  <2>1. KnownRow(r) /\ r.pk = StatePk
    BY DEF RowsInv, Partition
  <2> QED
    BY <2>1, StateRows
<1>2. \A type \in {0, 1} : \A r :
        /\ r \in RowsOfType(type) <=> r \in Partition(StatePk) /\ r.sk[1] = type
        /\ r \in RowsOfDevice(type, d) <=>
             r \in Partition(StatePk) /\ r.sk[1] = type /\ DeviceIn(r.sk) = d
  BY <1>1, Zenon DEF RowsOfType, RowsOfDevice
<1>3. \A rows, x : x \in DevicesOf(rows) <=>
        \E r \in rows : r.sk[1] = 0 /\ x = DeviceOf(r)
  BY Zenon DEF DevicesOf, DeviceOf
<1>4. \A rows, x : x \in PropertiesOf(rows) <=>
        \E r \in rows : r.sk[1] # 0 /\ x = PropertyOf(r)
  BY Zenon DEF PropertiesOf, PropertyOf
<1>5. 0 \in {0, 1} /\ 1 \in {0, 1} /\ 0 # 1
  OBVIOUS
<1>6. \A r : DeviceOf(r).deviceId = DeviceIn(r.sk) /\ PropertyOf(r).deviceId = DeviceIn(r.sk)
  BY DEF DeviceOf, PropertyOf
<1> DEFINE P == Partition(StatePk)
<1>7. /\ \A r : r \in RowsOfType(0) <=> r \in P /\ r.sk[1] = 0
      /\ \A r : r \in RowsOfType(1) <=> r \in P /\ r.sk[1] = 1
      /\ \A r : r \in RowsOfDevice(0, d) <=> r \in P /\ r.sk[1] = 0 /\ DeviceIn(r.sk) = d
      /\ \A r : r \in RowsOfDevice(1, d) <=> r \in P /\ r.sk[1] = 1 /\ DeviceIn(r.sk) = d
      /\ \A r \in P : r.sk[1] # 0 <=> r.sk[1] = 1
  BY <1>1, <1>2, <1>5
<1>8. /\ \A x : x \in Devices <=> \E r \in P : r.sk[1] = 0 /\ x = DeviceOf(r)
      /\ \A x : x \in Properties <=> \E r \in P : r.sk[1] # 0 /\ x = PropertyOf(r)
  BY <1>3, <1>4, Zenon DEF Devices, Properties
<1> HIDE DEF P
<1>9. /\ DevicesOf(RowsOfType(0)) = Devices
      /\ PropertiesOf(RowsOfType(0)) = {}
      /\ PropertiesOf(RowsOfType(1)) = Properties
      /\ DevicesOf(RowsOfType(1)) = {}
  <2>1. \A x : x \in DevicesOf(RowsOfType(0)) <=> x \in Devices
    <3>1. ASSUME NEW x \in DevicesOf(RowsOfType(0)) PROVE x \in Devices
      <4>1. PICK r \in RowsOfType(0) : r.sk[1] = 0 /\ x = DeviceOf(r)
        BY <1>3, Zenon
      <4> QED
        BY <1>7, <1>8, <4>1, Zenon
    <3>2. ASSUME NEW x \in Devices PROVE x \in DevicesOf(RowsOfType(0))
      <4>1. PICK r \in P : r.sk[1] = 0 /\ x = DeviceOf(r)
        BY <1>8, Zenon
      <4> QED
        BY <1>3, <1>7, <4>1, Zenon
    <3> QED
      BY <3>1, <3>2
  <2>2. \A x : x \notin PropertiesOf(RowsOfType(0))
    BY <1>4, <1>7, Zenon
  <2>3. \A x : x \in PropertiesOf(RowsOfType(1)) <=> x \in Properties
    <3>1. ASSUME NEW x \in PropertiesOf(RowsOfType(1)) PROVE x \in Properties
      <4>1. PICK r \in RowsOfType(1) : r.sk[1] # 0 /\ x = PropertyOf(r)
        BY <1>4, Zenon
      <4> QED
        BY <1>7, <1>8, <4>1, Zenon
    <3>2. ASSUME NEW x \in Properties PROVE x \in PropertiesOf(RowsOfType(1))
      <4>1. PICK r \in P : r.sk[1] # 0 /\ x = PropertyOf(r)
        BY <1>8, Zenon
      <4> QED
        BY <1>4, <1>7, <4>1, Zenon
    <3> QED
      BY <3>1, <3>2
  <2>4. \A x : x \notin DevicesOf(RowsOfType(1))
    <3>1. \A r \in RowsOfType(1) : r.sk[1] # 0
      BY <1>7, Zenon
    <3> QED
      BY <1>3, <3>1, Zenon
  <2> QED
    BY <2>1, <2>2, <2>3, <2>4, Zenon
<1>10. /\ DevicesOf(RowsOfDevice(0, d)) = {x \in Devices : x.deviceId = d}
       /\ PropertiesOf(RowsOfDevice(1, d)) = {x \in Properties : x.deviceId = d}
  <2>1. \A x : x \in DevicesOf(RowsOfDevice(0, d)) <=> x \in Devices /\ x.deviceId = d
    <3>1. ASSUME NEW x \in DevicesOf(RowsOfDevice(0, d))
          PROVE  x \in Devices /\ x.deviceId = d
      <4>1. PICK r \in RowsOfDevice(0, d) : r.sk[1] = 0 /\ x = DeviceOf(r)
        BY <1>3, Zenon
      <4>2. r \in P /\ DeviceIn(r.sk) = d
        BY <1>7, <4>1, Zenon
      <4> QED
        BY <1>6, <1>8, <4>1, <4>2, Zenon
    <3>2. ASSUME NEW x \in Devices, x.deviceId = d
          PROVE  x \in DevicesOf(RowsOfDevice(0, d))
      <4>1. PICK r \in P : r.sk[1] = 0 /\ x = DeviceOf(r)
        BY <1>8, Zenon
      <4>2. r \in RowsOfDevice(0, d)
        BY <1>6, <1>7, <3>2, <4>1, Zenon
      <4> QED
        BY <1>3, <4>1, <4>2, Zenon
    <3> QED
      BY <3>1, <3>2
  <2>2. \A x : x \in PropertiesOf(RowsOfDevice(1, d))
                 <=> x \in Properties /\ x.deviceId = d
    <3>1. ASSUME NEW x \in PropertiesOf(RowsOfDevice(1, d))
          PROVE  x \in Properties /\ x.deviceId = d
      <4>1. PICK r \in RowsOfDevice(1, d) : r.sk[1] # 0 /\ x = PropertyOf(r)
        BY <1>4, Zenon
      <4>2. r \in P /\ DeviceIn(r.sk) = d
        BY <1>7, <4>1, Zenon
      <4> QED
        BY <1>6, <1>8, <4>1, <4>2, Zenon
    <3>2. ASSUME NEW x \in Properties, x.deviceId = d
          PROVE  x \in PropertiesOf(RowsOfDevice(1, d))
      <4>1. PICK r \in P : r.sk[1] # 0 /\ x = PropertyOf(r)
        BY <1>8, Zenon
      <4>2. r \in RowsOfDevice(1, d)
        BY <1>6, <1>7, <3>2, <4>1, Zenon
      <4> QED
        BY <1>4, <4>1, <4>2, Zenon
    <3> QED
      BY <3>1, <3>2
  <2> QED
    BY <2>1, <2>2, Zenon
<1>11. ASSUME NEW e \in Endpoint
       PROVE  SubscriptionsOf(At(SubscriptionPk, NameSk(e)))
                = {x \in Subscriptions : x.endpoint = e}
  <2>1. \A rows, x : x \in SubscriptionsOf(rows) <=>
          \E r \in rows : x = SubscriptionOf(r)
    BY Zenon DEF SubscriptionsOf, SubscriptionOf
  <2>2. \A r \in Partition(SubscriptionPk) :
          r.sk = NameSk(e) <=> SubscriptionOf(r).endpoint = e
    <3> TAKE r \in Partition(SubscriptionPk)
    <3>1. KnownRow(r) /\ r.pk = SubscriptionPk
      BY DEF RowsInv, Partition
    <3>2. PICK x \in Subscription : r = SubscriptionRow(x)
      BY <3>1, KindsOfRows
    <3> QED
      BY <3>2, SubscriptionKeys, SubscriptionRead
  <2>3. \A r : r \in At(SubscriptionPk, NameSk(e)) <=>
               r \in Partition(SubscriptionPk) /\ r.sk = NameSk(e)
    BY DEF At, Partition
  <2> QED
    BY <2>1, <2>2, <2>3 DEF Subscriptions
<1> QED
  BY <1>9, <1>10, <1>11

LEMMA RowsImplyRange == RowsInv => HistoryInRange
<1> SUFFICES ASSUME RowsInv,
                    NEW d \in DeviceId, NEW c \in ControllerId, NEW p \in PropertyId,
                    NEW from \in Second, NEW to \in Second
             PROVE
    /\ HistoryOf(d, c, p, from, to) =
         {x \in History : /\ x.deviceId = d /\ x.controllerId = c
                          /\ x.propertyId = p
                          /\ from <= x.time /\ x.time <= to}
    /\ \A r, s \in HistoryRows(d, c, p, from, to) :
         Below(r.sk, s.sk) <=> TimeIn(r.sk) < TimeIn(s.sk)
  BY Zenon DEF HistoryInRange
<1>1. HistoryStored /\ from \in Time /\ to \in Time
  BY HistoryIsStored, IdTypes
<1>2. HistoryOf(d, c, p, from, to) =
        {x \in Past : /\ PastRow(x) \in table
                      /\ x.deviceId = d /\ x.controllerId = c /\ x.propertyId = p
                      /\ from <= x.time /\ x.time <= to}
  BY <1>1 DEF HistoryStored
<1>3. History = {x \in Past : PastRow(x) \in table}
  BY <1>1, Zenon DEF HistoryStored
<1>4. HistoryOf(d, c, p, from, to) =
        {x \in History : /\ x.deviceId = d /\ x.controllerId = c
                         /\ x.propertyId = p
                         /\ from <= x.time /\ x.time <= to}
  BY <1>2, <1>3, Zenon
<1>5. \A r \in HistoryRows(d, c, p, from, to) : \E t \in Time : r.sk = TimeSk(t)
  <2> TAKE r \in HistoryRows(d, c, p, from, to)
  <2>1. KnownRow(r) /\ r.pk = PropertyHistoryPk(d, c, p)
    BY DEF RowsInv, HistoryRows, Partition
  <2>2. PICK x \in Past : r = PastRow(x)
    BY <2>1, KindsOfRows
  <2>3. x.time \in Time
    BY IdTypes DEF Past
  <2> QED
    BY <2>2, <2>3, PastRead
<1>6. \A r, s \in HistoryRows(d, c, p, from, to) :
        Below(r.sk, s.sk) <=> TimeIn(r.sk) < TimeIn(s.sk)
  BY <1>5, TimeKey, TimeKeyOrder, Zenon
<1> QED
  BY <1>4, <1>6

\* Queries by prefix are exact, because texts in keys are terminated, and a
\* range of times is a range of keys, because they are big-endian.
THEOREM QueriesAgreeCorrect == Spec => []QueriesAgree
<1>1. RowsInv => QueriesAgree
  BY RowsImplyPrefixes, RowsImplyRange DEF QueriesAgree
<1> QED
  BY <1>1, RowsAlways, PTL

=============================================================================

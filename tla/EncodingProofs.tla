--------------------------- MODULE EncodingProofs ---------------------------
(***************************************************************************)
(* The associated data of sealed.go says exactly what it binds: proofs of  *)
(* the properties of AADEncoding for every size of a byte, every salt      *)
(* length and every set of strings shorter than a uint32 can count.        *)
(***************************************************************************)
EXTENDS AADEncoding, SequenceTheorems, TLAPS

Bytes == 0..MaxByte

-----------------------------------------------------------------------------
(* Four bytes *)

\* A quotient and a remainder below b determine each other's number.
LEMMA quotientUnique ==
  ASSUME NEW b \in Nat, NEW q \in Nat, NEW r \in Nat, NEW p \in Nat, NEW t \in Nat,
         r < b, t < b, b * q + r = b * p + t
  PROVE  q = p /\ r = t
<1>1. ASSUME NEW x \in Nat, NEW y \in Nat, NEW u \in Nat, NEW w \in Nat,
             u < b, w < b, b * x + u = b * y + w, x < y
      PROVE  FALSE
  <2>1. x + 1 <= y
    BY <1>1
  <2>2. b * (x + 1) <= b * y
    BY <2>1, <1>1
  <2>3. b * (x + 1) = b * x + b
    BY <1>1
  <2>4. b * x \in Nat /\ b * y \in Nat
    BY <1>1
  <2> QED
    BY <1>1, <2>2, <2>3, <2>4
<1>2. q = p
  BY <1>1
<1>3. b * q \in Nat
  OBVIOUS
<1> QED
  BY <1>2, <1>3

\* Dividing by the base splits a number into what is left of it and a byte.
LEMMA division ==
  ASSUME NEW b \in Nat \ {0}, NEW n \in Nat
  PROVE  /\ n \div b \in Nat /\ n % b \in Nat /\ n % b < b
         /\ n = b * (n \div b) + (n % b)
  OBVIOUS

\* A number below r is its own remainder.
LEMMA remainderSmall ==
  ASSUME NEW r \in Int, NEW n \in 0..(r - 1)
  PROVE  n % r = n
<1> DEFINE q == n \div r
           t == n % r
<1>1. r \in Nat \ {0} /\ n \in Nat /\ n < r
  OBVIOUS
<1>2. q \in Nat /\ t \in Nat /\ t < r /\ n = r * q + t
  BY <1>1, division
<1> HIDE DEF q, t
<1>3. r * 0 + n = r * q + t
  BY <1>1, <1>2
<1>4. n = t
  BY <1>1, <1>2, <1>3, quotientUnique
<1> QED
  BY <1>4 DEF t

\* A byte is a digit of base Base.
LEMMA baseType == Base \in Nat \ {0} /\ Base - 1 = MaxByte /\ Bytes = 0..(Base - 1)
  BY EncodingAssumption DEF Base, Bytes

\* What two of the four bytes add up to.
LEMMA placed ==
  ASSUME NEW b \in Nat \ {0}, NEW c \in Nat \ {0}, NEW d \in Nat, NEW x \in Nat, d < b, x < c
  PROVE  b * x + d \in Nat /\ b * x + d < b * c
<1>1. x + 1 <= c
  OBVIOUS
<1>2. b * (x + 1) <= b * c
  BY <1>1
<1>3. b * (x + 1) = b * x + b
  OBVIOUS
<1>4. b * x \in Nat /\ b * c \in Nat
  OBVIOUS
<1> QED
  BY <1>2, <1>3, <1>4

\* The number that four bytes make, most significant first.
value(w) == Base * (Base * (Base * w[1] + w[2]) + w[3]) + w[4]

\* The four bytes of a word are bytes, and their value is the number modulo the
\* uint32 range.
LEMMA fourBytes ==
  ASSUME NEW n \in Nat
  PROVE  bigEndian(n) \in [1..4 -> Bytes] /\ value(bigEndian(n)) = n % UInt32Range
<1> DEFINE b == Base
           n1 == n \div b
           n2 == n1 \div b
           n3 == n2 \div b
           n4 == n3 \div b
           d1 == n3 % b
           d2 == n2 % b
           d3 == n1 % b
           d4 == n % b
<1>1. bigEndian(n) = <<d1, d2, d3, d4>>
  BY DEF bigEndian
<1>2. b \in Nat \ {0} /\ Bytes = 0..(b - 1)
  BY baseType
<1>3. value(bigEndian(n)) = b * (b * (b * d1 + d2) + d3) + d4
  BY <1>1 DEF value
<1>4. UInt32Range = b * (b * (b * b))
  BY DEF UInt32Range
<1> HIDE DEF b
<1>5. n1 \in Nat /\ d4 \in Nat /\ d4 < b /\ n = b * n1 + d4
  BY <1>2, division
<1> HIDE DEF n1, d4
<1>6. n2 \in Nat /\ d3 \in Nat /\ d3 < b /\ n1 = b * n2 + d3
  BY <1>2, <1>5, division
<1> HIDE DEF n2, d3
<1>7. n3 \in Nat /\ d2 \in Nat /\ d2 < b /\ n2 = b * n3 + d2
  BY <1>2, <1>6, division
<1> HIDE DEF n3, d2
<1>8. n4 \in Nat /\ d1 \in Nat /\ d1 < b /\ n3 = b * n4 + d1
  BY <1>2, <1>7, division
<1> HIDE DEF n4, d1
<1>9. bigEndian(n) \in [1..4 -> Bytes]
  BY <1>1, <1>2, <1>5, <1>6, <1>7, <1>8
<1> DEFINE b2 == b * b
           b3 == b * b2
           b4 == b * b3
           v2 == b * d1 + d2
           v3 == b * v2 + d3
           v4 == b * v3 + d4
<1>10. v2 \in Nat /\ v2 < b2 /\ b2 \in Nat \ {0}
  BY <1>2, <1>7, <1>8, placed
<1>11. n2 = b2 * n4 + v2
  BY <1>2, <1>7, <1>8
<1> HIDE DEF v2
<1>12. v3 \in Nat /\ v3 < b3 /\ b3 \in Nat \ {0}
  <2> HIDE DEF b2
  <2> QED
    BY <1>2, <1>6, <1>10, placed
<1>13. n1 = b3 * n4 + v3
  BY <1>2, <1>6, <1>8, <1>10, <1>11
<1> HIDE DEF v3
<1>14. v4 \in Nat /\ v4 < b4 /\ b4 \in Nat \ {0}
  <2> HIDE DEF b3
  <2> QED
    BY <1>2, <1>5, <1>12, placed
<1>15. n = b4 * n4 + v4
  BY <1>2, <1>5, <1>8, <1>12, <1>13
<1>16. value(bigEndian(n)) = v4 /\ UInt32Range = b4
  BY <1>3, <1>4 DEF v2, v3
<1> HIDE DEF v4, b4
<1>17. n \div b4 \in Nat /\ n % b4 \in Nat /\ n % b4 < b4 /\ n = b4 * (n \div b4) + (n % b4)
  BY <1>14, division
<1>18. n % b4 = v4
  BY <1>8, <1>14, <1>15, <1>17, quotientUnique
<1> QED
  BY <1>9, <1>16, <1>18

\* Two values are encoded alike exactly when they agree as a uint32: nothing but
\* what uint32(n) drops is lost.
LEMMA wordSays ==
  ASSUME NEW m \in Nat, NEW n \in Nat
  PROVE  bigEndian(m) = bigEndian(n) <=> m % UInt32Range = n % UInt32Range
<1> DEFINE w == bigEndian(m)
           x == bigEndian(n)
<1>1. w \in [1..4 -> Bytes] /\ value(w) = m % UInt32Range
  BY fourBytes
<1>2. x \in [1..4 -> Bytes] /\ value(x) = n % UInt32Range
  BY fourBytes
<1> HIDE DEF w, x
<1>3. ASSUME value(w) = value(x)
      PROVE  w = x
  <2> DEFINE b == Base
             w1 == w[1]
             w2 == w[2]
             w3 == w[3]
             w4 == w[4]
             x1 == x[1]
             x2 == x[2]
             x3 == x[3]
             x4 == x[4]
             t2 == b * w1 + w2
             u2 == b * x1 + x2
             t3 == b * t2 + w3
             u3 == b * u2 + x3
  <2>1. b \in Nat \ {0} /\ Bytes = 0..(b - 1)
    BY baseType
  <2>2. b * t3 + w4 = b * u3 + x4
    BY <1>3 DEF value
  <2> HIDE DEF b
  <2>3. /\ w1 \in Nat /\ w2 \in Nat /\ w3 \in Nat /\ w4 \in Nat
        /\ w1 < b /\ w2 < b /\ w3 < b /\ w4 < b
    BY <1>1, <2>1
  <2>4. /\ x1 \in Nat /\ x2 \in Nat /\ x3 \in Nat /\ x4 \in Nat
        /\ x1 < b /\ x2 < b /\ x3 < b /\ x4 < b
    BY <1>2, <2>1
  <2> HIDE DEF w1, w2, w3, w4, x1, x2, x3, x4
  <2>5. t2 \in Nat /\ u2 \in Nat
    BY <2>1, <2>3, <2>4
  <2>6. t3 \in Nat /\ u3 \in Nat
    <3> HIDE DEF t2, u2
    <3> QED
      BY <2>1, <2>3, <2>4, <2>5
  <2>7. t3 = u3 /\ w4 = x4
    <3> HIDE DEF t3, u3
    <3> QED
      BY <2>1, <2>2, <2>3, <2>4, <2>6, quotientUnique
  <2>8. t2 = u2 /\ w3 = x3
    <3> HIDE DEF t2, u2
    <3> QED
      BY <2>1, <2>3, <2>4, <2>5, <2>7, quotientUnique
  <2>9. w1 = x1 /\ w2 = x2
    BY <2>1, <2>3, <2>4, <2>8, quotientUnique
  <2>10. \A i \in 1..4 : w[i] = x[i]
    BY <2>7, <2>8, <2>9 DEF w1, w2, w3, w4, x1, x2, x3, x4
  <2> QED
    BY <1>1, <1>2, <2>10
<1> QED
  BY <1>1, <1>2, <1>3 DEF w, x

-----------------------------------------------------------------------------
(* Reading the bytes from the front *)

\* Where two concatenations begin with parts of one length, the parts agree.
LEMMA cancel ==
  ASSUME NEW s \in Seq(Bytes), NEW t \in Seq(Bytes), NEW x \in Seq(Bytes), NEW y \in Seq(Bytes),
         Len(s) = Len(t), s \o x = t \o y
  PROVE  s = t /\ x = y
<1>1. /\ Len(s \o x) = Len(s) + Len(x)
      /\ \A i \in 1..(Len(s) + Len(x)) : (s \o x)[i] = IF i <= Len(s) THEN s[i] ELSE x[i - Len(s)]
  BY ConcatProperties
<1>2. /\ Len(t \o y) = Len(t) + Len(y)
      /\ \A i \in 1..(Len(t) + Len(y)) : (t \o y)[i] = IF i <= Len(t) THEN t[i] ELSE y[i - Len(t)]
  BY ConcatProperties
<1>3. Len(s) \in Nat /\ Len(x) \in Nat /\ Len(y) \in Nat
  BY LenProperties
<1>4. Len(x) = Len(y)
  BY <1>1, <1>2, <1>3
<1>5. \A i \in 1..Len(s) : s[i] = t[i]
  BY <1>1, <1>2, <1>3, <1>4
<1>6. \A i \in 1..Len(x) : x[i] = y[i]
  <2> TAKE i \in 1..Len(x)
  <2>1. Len(s) + i \in 1..(Len(s) + Len(x)) /\ ~(Len(s) + i <= Len(s)) /\ (Len(s) + i) - Len(s) = i
    BY <1>3
  <2>2. (s \o x)[Len(s) + i] = x[i]
    BY <1>1, <2>1
  <2>3. (t \o y)[Len(s) + i] = y[i]
    BY <1>2, <1>4, <2>1
  <2> QED
    BY <2>2, <2>3
<1> QED
  BY <1>4, <1>5, <1>6, SeqEqual

\* Concatenation, without its definition.
cat(s, t) == s \o t

\* Concatenation: its type, that it associates, and that equal results with first
\* parts of one length have equal parts.
LEMMA concat ==
  /\ \A s, t \in Seq(Bytes) : cat(s, t) \in Seq(Bytes)
  /\ \A s, t, u \in Seq(Bytes) : cat(cat(s, t), u) = cat(s, cat(t, u))
  /\ \A s, t, x, y \in Seq(Bytes) : Len(s) = Len(t) /\ cat(s, x) = cat(t, y) => s = t /\ x = y
<1>1. \A s, t \in Seq(Bytes) : cat(s, t) \in Seq(Bytes)
  BY ConcatProperties DEF cat
<1>2. ASSUME NEW s \in Seq(Bytes), NEW t \in Seq(Bytes), NEW u \in Seq(Bytes)
      PROVE  cat(cat(s, t), u) = cat(s, cat(t, u))
  BY ConcatAssociative DEF cat
<1>3. \A s, t, x, y \in Seq(Bytes) : Len(s) = Len(t) /\ cat(s, x) = cat(t, y) => s = t /\ x = y
  BY cancel DEF cat
<1> QED
  BY <1>1, <1>2, <1>3

\* The sequences the encoding concatenates.
LEMMA stringOf ==
  ASSUME NEW n \in Nat, NEW v \in [1..n -> Bytes]
  PROVE  v \in Seq(Bytes) /\ Len(v) = n
<1>1. v \in Seq(Bytes)
  OBVIOUS
<1> QED
  BY <1>1, LenProperties

\* A word is a string of four bytes.
LEMMA wordType ==
  ASSUME NEW n \in Nat
  PROVE  bigEndian(n) \in Seq(Bytes) /\ Len(bigEndian(n)) = 4
<1>1. bigEndian(n) \in [1..4 -> Bytes]
  BY fourBytes
<1> QED
  BY <1>1, stringOf

\* There are uint32 values.
LEMMA wordRange == UInt32Range \in Nat \ {0}
<1>1. \A a, b \in Nat \ {0} : a * b \in Nat \ {0}
  OBVIOUS
<1> QED
  BY <1>1, baseType DEF UInt32Range

\* A string that callers supply is shorter than a uint32 can count.
LEMMA stringType ==
  ASSUME NEW lengths, lengths \subseteq 0..(UInt32Range - 1), NEW v \in Strings(lengths)
  PROVE  v \in Seq(Bytes) /\ Len(v) \in 0..(UInt32Range - 1)
<1>1. PICK n \in lengths : v \in [1..n -> Bytes]
  BY DEF Strings, Bytes
<1>2. UInt32Range \in Nat \ {0}
  BY wordRange
<1>3. n \in Nat /\ n \in 0..(UInt32Range - 1)
  BY <1>2
<1> QED
  BY <1>1, <1>3, stringOf

\* A length-prefixed string.
prefixed(v) == cat(bigEndian(Len(v)), v)

\* A string with its length before it is a string.
LEMMA prefixedType ==
  ASSUME NEW v \in Seq(Bytes)
  PROVE  prefixed(v) \in Seq(Bytes)
  BY wordType, LenProperties, concat DEF prefixed

\* appendLenPrefixed adds exactly that string.
LEMMA prefixedTaken ==
  ASSUME NEW b \in Seq(Bytes), NEW v \in Seq(Bytes)
  PROVE  appendLenPrefixed(b, v) = cat(b, prefixed(v))
<1>1. appendLenPrefixed(b, v) = cat(cat(b, bigEndian(Len(v))), v)
  BY DEF cat, appendLenPrefixed, appendUint32
<1>2. bigEndian(Len(v)) \in Seq(Bytes)
  BY wordType, LenProperties
<1> QED
  BY <1>1, <1>2, concat DEF prefixed

\* A length that fits its prefix is what the prefix says, and so the string
\* ends where it says, whatever bytes follow it and whatever it contains.
LEMMA prefixedSays ==
  ASSUME NEW u \in Seq(Bytes), NEW v \in Seq(Bytes), NEW x \in Seq(Bytes), NEW y \in Seq(Bytes),
         Len(u) \in 0..(UInt32Range - 1), Len(v) \in 0..(UInt32Range - 1),
         cat(prefixed(u), x) = cat(prefixed(v), y)
  PROVE  u = v /\ x = y
<1> DEFINE w(s) == bigEndian(Len(s))
<1>1. Len(u) \in Nat /\ Len(v) \in Nat
  BY LenProperties
<1>2. w(u) \in Seq(Bytes) /\ w(v) \in Seq(Bytes) /\ Len(w(u)) = Len(w(v))
  BY <1>1, wordType
<1>3. prefixed(u) = cat(w(u), u) /\ prefixed(v) = cat(w(v), v)
  BY DEF prefixed
<1> HIDE DEF w
<1>4. /\ cat(u, x) \in Seq(Bytes) /\ cat(v, y) \in Seq(Bytes)
      /\ cat(w(u), cat(u, x)) = cat(w(v), cat(v, y))
  BY <1>2, <1>3, concat
<1>5. w(u) = w(v) /\ cat(u, x) = cat(v, y)
  BY <1>2, <1>4, concat
<1>6. Len(u) = Len(v)
  <2>1. Len(u) % UInt32Range = Len(v) % UInt32Range
    BY <1>1, <1>5, wordSays DEF w
  <2>2. UInt32Range \in Int
    BY baseType DEF UInt32Range
  <2>3. \A n \in 0..(UInt32Range - 1) : n % UInt32Range = n
    BY <2>2, remainderSmall
  <2> QED
    BY <2>1, <2>2, <2>3
<1> QED
  BY <1>5, <1>6, concat

-----------------------------------------------------------------------------
(* The header *)

flags(h) == <<boolByte(h.uv), boolByte(h.entropy)>>

\* The fields of a header, and the two flag bytes.
LEMMA headerType ==
  ASSUME NEW h \in Headers
  PROVE  /\ h.rpid \in Seq(Bytes) /\ Len(h.rpid) \in 0..(UInt32Range - 1)
         /\ h.salt \in Seq(Bytes) /\ Len(h.salt) \in 0..(UInt32Range - 1)
         /\ h.uv \in BOOLEAN /\ h.entropy \in BOOLEAN
         /\ h = [rpid |-> h.rpid, uv |-> h.uv, entropy |-> h.entropy, salt |-> h.salt]
         /\ flags(h) \in Seq(Bytes) /\ Len(flags(h)) = 2
<1>1. h.rpid \in Strings(Lengths) /\ h.salt \in Strings({SaltLen})
  BY DEF Headers, Strings
<1>2. Lengths \subseteq 0..(UInt32Range - 1) /\ {SaltLen} \subseteq 0..(UInt32Range - 1)
  BY LengthAssumption
<1>3. /\ h.rpid \in Seq(Bytes) /\ Len(h.rpid) \in 0..(UInt32Range - 1)
      /\ h.salt \in Seq(Bytes) /\ Len(h.salt) \in 0..(UInt32Range - 1)
  BY <1>1, <1>2, stringType
<1>4. h.uv \in BOOLEAN /\ h.entropy \in BOOLEAN
  BY DEF Headers
<1>5. h = [rpid |-> h.rpid, uv |-> h.uv, entropy |-> h.entropy, salt |-> h.salt]
  BY DEF Headers
<1>6. boolByte(h.uv) \in Bytes /\ boolByte(h.entropy) \in Bytes
  BY EncodingAssumption DEF boolByte, Bytes
<1>7. flags(h) \in Seq(Bytes) /\ Len(flags(h)) = 2
  BY <1>6 DEF flags
<1> QED
  BY <1>3, <1>4, <1>5, <1>7

\* The leading constant and the format version.
lead == cat(aadInfo, bigEndian(formatVersion))

\* What follows them, up to and including x.
body(h, x) == cat(prefixed(h.rpid), cat(flags(h), cat(prefixed(h.salt), x)))

\* What comes before the RP ID is the same string for every header.
LEMMA leadType == lead \in Seq(Bytes)
  BY EncodingAssumption, wordType, concat DEF lead, Bytes, formatVersion

\* The header's associated data is that string followed by the header's body.
LEMMA aadTaken ==
  ASSUME NEW h \in Headers
  PROVE  /\ aad(h) \in Seq(Bytes)
         /\ \A x \in Seq(Bytes) : cat(aad(h), x) = cat(lead, body(h, x)) /\ body(h, x) \in Seq(Bytes)
<1> DEFINE r == prefixed(h.rpid)
           f == flags(h)
           t == prefixed(h.salt)
<1>1. lead \in Seq(Bytes) /\ r \in Seq(Bytes) /\ f \in Seq(Bytes) /\ t \in Seq(Bytes)
  BY headerType, leadType, prefixedType
<1>2. aad(h) = cat(cat(cat(lead, r), f), t)
  <2>1. appendUint32(aadInfo, formatVersion) = lead
    BY DEF appendUint32, lead, cat
  <2>2. appendLenPrefixed(lead, h.rpid) = cat(lead, r)
    BY <1>1, headerType, prefixedTaken
  <2>3. cat(cat(lead, r), f) \in Seq(Bytes)
    BY <1>1, concat
  <2>4. appendLenPrefixed(cat(cat(lead, r), f), h.salt) = cat(cat(cat(lead, r), f), t)
    BY <2>3, headerType, prefixedTaken
  <2>5. aad(h) = appendLenPrefixed(cat(appendLenPrefixed(appendUint32(aadInfo, formatVersion), h.rpid), f), h.salt)
    BY DEF aad, flags, cat
  <2> QED
    BY <2>1, <2>2, <2>4, <2>5
<1> HIDE DEF r, f, t
<1>3. aad(h) \in Seq(Bytes)
  BY <1>1, <1>2, concat
<1>4. ASSUME NEW x \in Seq(Bytes)
      PROVE  cat(aad(h), x) = cat(lead, body(h, x)) /\ body(h, x) \in Seq(Bytes)
  <2>1. cat(t, x) \in Seq(Bytes) /\ cat(lead, r) \in Seq(Bytes)
    BY <1>1, concat
  <2>2. cat(f, cat(t, x)) \in Seq(Bytes) /\ cat(cat(lead, r), f) \in Seq(Bytes)
    BY <1>1, <2>1, concat
  <2>3. cat(aad(h), x) = cat(cat(cat(lead, r), f), cat(t, x))
    BY <1>1, <1>2, <2>2, concat
  <2>4. cat(cat(cat(lead, r), f), cat(t, x)) = cat(cat(lead, r), cat(f, cat(t, x)))
    BY <1>1, <2>1, concat
  <2>5. cat(cat(lead, r), cat(f, cat(t, x))) = cat(lead, cat(r, cat(f, cat(t, x))))
    BY <1>1, <2>2, concat
  <2>6. body(h, x) = cat(r, cat(f, cat(t, x)))
    BY DEF body, r, f, t
  <2> QED
    BY <1>1, <2>2, <2>3, <2>4, <2>5, <2>6, concat
<1> QED
  BY <1>3, <1>4

\* The header can be read off the front of every seal's associated data.
LEMMA headerSays ==
  ASSUME NEW h \in Headers, NEW g \in Headers, NEW x \in Seq(Bytes), NEW y \in Seq(Bytes),
         cat(aad(h), x) = cat(aad(g), y)
  PROVE  h = g /\ x = y
<1> DEFINE s(k, z) == cat(prefixed(k.salt), z)
           t(k, z) == cat(flags(k), s(k, z))
<1>1. /\ prefixed(h.rpid) \in Seq(Bytes) /\ prefixed(g.rpid) \in Seq(Bytes)
      /\ s(h, x) \in Seq(Bytes) /\ s(g, y) \in Seq(Bytes)
  BY headerType, prefixedType, concat
<1>2. t(h, x) \in Seq(Bytes) /\ t(g, y) \in Seq(Bytes)
  <2> HIDE DEF s
  <2> QED
    BY <1>1, headerType, concat
<1>3. cat(lead, body(h, x)) = cat(lead, body(g, y)) /\ body(h, x) \in Seq(Bytes) /\ body(g, y) \in Seq(Bytes)
  BY aadTaken
<1>4. body(h, x) = body(g, y)
  BY <1>3, leadType, concat
<1>5. body(h, x) = cat(prefixed(h.rpid), t(h, x)) /\ body(g, y) = cat(prefixed(g.rpid), t(g, y))
  BY DEF body
<1>6. h.rpid = g.rpid /\ t(h, x) = t(g, y)
  <2>1. /\ h.rpid \in Seq(Bytes) /\ Len(h.rpid) \in 0..(UInt32Range - 1)
        /\ g.rpid \in Seq(Bytes) /\ Len(g.rpid) \in 0..(UInt32Range - 1)
    BY headerType
  <2>2. cat(prefixed(h.rpid), t(h, x)) = cat(prefixed(g.rpid), t(g, y))
    BY <1>4, <1>5
  <2> HIDE DEF t
  <2> QED
    BY <1>2, <2>1, <2>2, prefixedSays
<1>7. flags(h) = flags(g) /\ s(h, x) = s(g, y)
  <2>1. /\ flags(h) \in Seq(Bytes) /\ flags(g) \in Seq(Bytes) /\ Len(flags(h)) = Len(flags(g))
    BY headerType
  <2> HIDE DEF s
  <2>2. cat(flags(h), s(h, x)) = cat(flags(g), s(g, y))
    BY <1>6
  <2> QED
    BY <1>1, <2>1, <2>2, concat
<1>8. h.salt = g.salt /\ x = y
  BY <1>7, headerType, prefixedSays
<1>9. h.uv = g.uv /\ h.entropy = g.entropy
  BY <1>7, headerType DEF flags, boolByte
<1> QED
  BY <1>6, <1>8, <1>9, headerType

-----------------------------------------------------------------------------
(* The seals *)

\* What a seal's associated data holds after the header.
tail(x) ==
  IF x.kind = "key"
  THEN cat(<<aadKindKey>>, cat(bigEndian(x.slot), prefixed(x.cred)))
  ELSE cat(<<aadKindSecret>>, prefixed(x.name))

\* The fields of a key entry's seal.
LEMMA keyType ==
  ASSUME NEW x \in KeySeals
  PROVE  /\ x.kind = "key" /\ x.header \in Headers /\ x.slot \in Nat
         /\ x.cred \in Seq(Bytes) /\ Len(x.cred) \in 0..(UInt32Range - 1)
<1>1. x.kind = "key" /\ x.header \in Headers /\ x.slot \in Slots /\ x.cred \in Strings(Lengths)
  BY DEF KeySeals
<1>2. x.cred \in Seq(Bytes) /\ Len(x.cred) \in 0..(UInt32Range - 1)
  BY <1>1, LengthAssumption, stringType
<1> QED
  BY <1>1, <1>2, EncodingAssumption

\* The fields of a secret's seal.
LEMMA secretType ==
  ASSUME NEW x \in SecretSeals
  PROVE  /\ x.kind = "secret" /\ x.header \in Headers
         /\ x.name \in Seq(Bytes) /\ Len(x.name) \in 0..(UInt32Range - 1)
<1>1. x.kind = "secret" /\ x.header \in Headers /\ x.name \in Strings(NameLengths)
  BY DEF SecretSeals
<1>2. x.name \in Seq(Bytes) /\ Len(x.name) \in 0..(UInt32Range - 1)
  BY <1>1, LengthAssumption, stringType
<1> QED
  BY <1>1, <1>2

\* The kind byte is one byte.
LEMMA tagType ==
  \A k \in {aadKindKey, aadKindSecret} : k \in Bytes /\ <<k>> \in Seq(Bytes) /\ Len(<<k>>) = 1
<1>1. \A k \in {aadKindKey, aadKindSecret} : k \in Bytes
  BY EncodingAssumption DEF Bytes
<1> QED
  BY <1>1

\* A wrapped key's associated data is the header's followed by its tail.
LEMMA keyTaken ==
  ASSUME NEW x \in KeySeals
  PROVE  tail(x) \in Seq(Bytes) /\ encode(x) = cat(aad(x.header), tail(x))
<1> DEFINE a == aad(x.header)
           k == <<aadKindKey>>
           w == bigEndian(x.slot)
           c == prefixed(x.cred)
<1>1. a \in Seq(Bytes) /\ k \in Seq(Bytes) /\ w \in Seq(Bytes) /\ c \in Seq(Bytes)
  BY keyType, aadTaken, tagType, wordType, prefixedType
<1>2. tail(x) = cat(k, cat(w, c))
  BY keyType DEF tail
<1>3. encode(x) = cat(cat(cat(a, k), w), c)
  <2>1. Append(a, aadKindKey) = cat(a, k)
    BY <1>1, tagType, AppendIsConcat DEF cat
  <2>2. appendUint32(cat(a, k), x.slot) = cat(cat(a, k), w)
    BY DEF appendUint32, cat
  <2>3. appendLenPrefixed(cat(cat(a, k), w), x.cred) = cat(cat(cat(a, k), w), c)
    <3>1. cat(cat(a, k), w) \in Seq(Bytes)
      BY <1>1, concat
    <3> QED
      BY <3>1, keyType, prefixedTaken
  <2>4. encode(x) = appendLenPrefixed(appendUint32(Append(a, aadKindKey), x.slot), x.cred)
    BY keyType DEF encode, keyAAD
  <2> QED
    BY <2>1, <2>2, <2>3, <2>4
<1> HIDE DEF a, k, w, c
<1>4. cat(k, w) \in Seq(Bytes) /\ cat(a, k) \in Seq(Bytes) /\ cat(w, c) \in Seq(Bytes)
  BY <1>1, concat
<1>5. cat(cat(cat(a, k), w), c) = cat(cat(a, k), cat(w, c))
  BY <1>1, <1>4, concat
<1>6. cat(cat(a, k), cat(w, c)) = cat(a, cat(k, cat(w, c)))
  BY <1>1, <1>4, concat
<1> QED
  BY <1>1, <1>2, <1>3, <1>4, <1>5, <1>6, concat DEF a

\* A secret's associated data is the header's followed by its tail.
LEMMA secretTaken ==
  ASSUME NEW x \in SecretSeals
  PROVE  tail(x) \in Seq(Bytes) /\ encode(x) = cat(aad(x.header), tail(x))
<1> DEFINE a == aad(x.header)
           k == <<aadKindSecret>>
           c == prefixed(x.name)
<1>1. a \in Seq(Bytes) /\ k \in Seq(Bytes) /\ c \in Seq(Bytes)
  BY secretType, aadTaken, tagType, prefixedType
<1>2. tail(x) = cat(k, c)
  BY secretType DEF tail
<1>3. encode(x) = cat(cat(a, k), c)
  <2>1. Append(a, aadKindSecret) = cat(a, k)
    BY <1>1, tagType, AppendIsConcat DEF cat
  <2>2. cat(a, k) \in Seq(Bytes)
    BY <1>1, concat
  <2>3. appendLenPrefixed(cat(a, k), x.name) = cat(cat(a, k), c)
    BY <2>2, secretType, prefixedTaken
  <2>4. encode(x) = appendLenPrefixed(Append(a, aadKindSecret), x.name)
    BY secretType DEF encode, secretAAD
  <2> QED
    BY <2>1, <2>3, <2>4
<1> HIDE DEF a, k, c
<1> QED
  BY <1>1, <1>2, <1>3, concat DEF a

\* Two key entries whose slots fit in a uint32, or two secrets, have the same
\* associated data exactly when the same is bound.
LEMMA keySays ==
  ASSUME NEW x \in KeySeals, NEW y \in KeySeals,
         x.slot < UInt32Range, y.slot < UInt32Range
  PROVE  encode(y) = encode(x) <=> bound(y) = bound(x)
<1> DEFINE k == <<aadKindKey>>
           w(z) == bigEndian(z.slot)
           c(z) == prefixed(z.cred)
<1>1. /\ x.kind = "key" /\ x.header \in Headers /\ x.slot \in Nat
      /\ x.cred \in Seq(Bytes) /\ Len(x.cred) \in 0..(UInt32Range - 1)
  BY keyType
<1>2. /\ y.kind = "key" /\ y.header \in Headers /\ y.slot \in Nat
      /\ y.cred \in Seq(Bytes) /\ Len(y.cred) \in 0..(UInt32Range - 1)
  BY keyType
<1>3. /\ tail(x) \in Seq(Bytes) /\ tail(y) \in Seq(Bytes)
      /\ encode(x) = cat(aad(x.header), tail(x)) /\ encode(y) = cat(aad(y.header), tail(y))
  BY keyTaken
<1>4. tail(x) = cat(k, cat(w(x), c(x))) /\ tail(y) = cat(k, cat(w(y), c(y)))
  BY <1>1, <1>2 DEF tail
<1>5. bound(y) = bound(x) <=>
        y.header = x.header /\ y.slot = x.slot /\ y.cred = x.cred
  BY <1>1, <1>2 DEF bound
<1>6. w(y) = w(x) <=> y.slot = x.slot
  <2>1. UInt32Range \in Nat \ {0}
    BY wordRange
  <2>2. \A n \in 0..(UInt32Range - 1) : n % UInt32Range = n
    BY <2>1
  <2>3. x.slot \in 0..(UInt32Range - 1) /\ y.slot \in 0..(UInt32Range - 1)
    BY <1>1, <1>2, <2>1
  <2> QED
    BY <1>1, <1>2, <2>2, <2>3, wordSays
<1>7. /\ k \in Seq(Bytes) /\ w(x) \in Seq(Bytes) /\ w(y) \in Seq(Bytes) /\ Len(w(x)) = Len(w(y))
      /\ c(x) \in Seq(Bytes) /\ c(y) \in Seq(Bytes)
  BY <1>1, <1>2, tagType, wordType, prefixedType
<1> HIDE DEF k, w
<1>8. ASSUME bound(y) = bound(x)
      PROVE  encode(y) = encode(x)
  BY <1>3, <1>4, <1>5, <1>6, <1>8
<1>9. ASSUME encode(y) = encode(x)
      PROVE  y.header = x.header /\ w(y) = w(x) /\ y.cred = x.cred
  <2>1. y.header = x.header /\ tail(y) = tail(x)
    BY <1>1, <1>2, <1>3, <1>9, headerSays
  <2>2. cat(w(x), c(x)) \in Seq(Bytes) /\ cat(w(y), c(y)) \in Seq(Bytes)
    BY <1>7, concat
  <2>3. cat(w(y), c(y)) = cat(w(x), c(x))
    <3> HIDE DEF c
    <3>1. cat(k, cat(w(y), c(y))) = cat(k, cat(w(x), c(x)))
      BY <1>4, <2>1
    <3>2. \A s, t \in Seq(Bytes) : cat(k, s) = cat(k, t) => s = t
      BY <1>7, concat
    <3> QED
      BY <2>2, <3>1, <3>2
  <2>4. w(y) = w(x) /\ c(y) = c(x)
    <3> HIDE DEF c
    <3> QED
      BY <1>7, <2>3, concat
  <2>5. y.cred = x.cred
    <3>1. <<>> \in Seq(Bytes)
      OBVIOUS
    <3>2. cat(prefixed(y.cred), <<>>) = cat(prefixed(x.cred), <<>>)
      BY <2>4
    <3> QED
      BY <1>1, <1>2, <3>1, <3>2, prefixedSays
  <2> QED
    BY <2>1, <2>4, <2>5
<1> QED
  BY <1>5, <1>6, <1>8, <1>9

\* Two secrets have equal associated data exactly when they bind equal fields.
LEMMA secretSays ==
  ASSUME NEW x \in SecretSeals, NEW y \in SecretSeals
  PROVE  encode(y) = encode(x) <=> bound(y) = bound(x)
<1> DEFINE k == <<aadKindSecret>>
<1>1. /\ x.kind = "secret" /\ x.header \in Headers
      /\ x.name \in Seq(Bytes) /\ Len(x.name) \in 0..(UInt32Range - 1)
  BY secretType
<1>2. /\ y.kind = "secret" /\ y.header \in Headers
      /\ y.name \in Seq(Bytes) /\ Len(y.name) \in 0..(UInt32Range - 1)
  BY secretType
<1>3. /\ tail(x) \in Seq(Bytes) /\ tail(y) \in Seq(Bytes)
      /\ encode(x) = cat(aad(x.header), tail(x)) /\ encode(y) = cat(aad(y.header), tail(y))
  BY secretTaken
<1>4. tail(x) = cat(k, prefixed(x.name)) /\ tail(y) = cat(k, prefixed(y.name))
  BY <1>1, <1>2 DEF tail
<1>5. bound(y) = bound(x) <=> y.header = x.header /\ y.name = x.name
  BY <1>1, <1>2 DEF bound
<1>6. k \in Seq(Bytes) /\ prefixed(x.name) \in Seq(Bytes) /\ prefixed(y.name) \in Seq(Bytes)
  BY <1>1, <1>2, tagType, prefixedType
<1> HIDE DEF k
<1>7. ASSUME encode(y) = encode(x)
      PROVE  y.header = x.header /\ y.name = x.name
  <2>1. y.header = x.header /\ tail(y) = tail(x)
    BY <1>1, <1>2, <1>3, <1>7, headerSays
  <2>2. prefixed(y.name) = prefixed(x.name)
    <3>1. cat(k, prefixed(y.name)) = cat(k, prefixed(x.name))
      BY <1>4, <2>1
    <3>2. \A s, t \in Seq(Bytes) : cat(k, s) = cat(k, t) => s = t
      BY <1>6, concat
    <3> QED
      BY <1>6, <3>1, <3>2
  <2>3. <<>> \in Seq(Bytes)
    OBVIOUS
  <2>4. cat(prefixed(y.name), <<>>) = cat(prefixed(x.name), <<>>)
    BY <2>2
  <2>5. y.name = x.name
    BY <1>1, <1>2, <2>3, <2>4, prefixedSays
  <2> QED
    BY <2>1, <2>5
<1> QED
  BY <1>3, <1>4, <1>5, <1>7

\* A wrapped data key and a secret differ in the byte after the header.
LEMMA kindsDiffer ==
  ASSUME NEW x \in KeySeals, NEW y \in SecretSeals
  PROVE  encode(y) # encode(x)
<1> DEFINE k == <<aadKindKey>>
           l == <<aadKindSecret>>
           c == cat(bigEndian(x.slot), prefixed(x.cred))
           d == prefixed(y.name)
<1>1. x.kind = "key" /\ x.header \in Headers /\ y.kind = "secret" /\ y.header \in Headers
  BY keyType, secretType
<1>2. /\ tail(x) \in Seq(Bytes) /\ tail(y) \in Seq(Bytes)
      /\ encode(x) = cat(aad(x.header), tail(x)) /\ encode(y) = cat(aad(y.header), tail(y))
  BY keyTaken, secretTaken
<1>3. tail(x) = cat(k, c) /\ tail(y) = cat(l, d)
  BY <1>1 DEF tail
<1>4. c \in Seq(Bytes) /\ d \in Seq(Bytes)
  BY keyType, secretType, wordType, prefixedType, concat
<1>5. k \in Seq(Bytes) /\ l \in Seq(Bytes) /\ Len(k) = Len(l)
  BY tagType
<1>6. k # l
  BY EncodingAssumption
<1> HIDE DEF k, l, c, d
<1>7. tail(x) # tail(y)
  BY <1>3, <1>4, <1>5, <1>6, concat
<1> QED
  BY <1>1, <1>2, <1>7, headerSays

-----------------------------------------------------------------------------
(* The theorems *)

\* The seal is always one of the seals the constants allow.
LEMMA SealType == Spec => [](seal \in Seals)
<1>1. Init => seal \in Seals
  BY DEF Init, Seals
<1>2. seal \in Seals /\ [Next]_seal => (seal \in Seals)'
  BY DEF Next, WrapKey, SealSecret, Seals
<1> QED
  BY <1>1, <1>2, PTL DEF Spec

\* The associated data of sealed.go:118-160 is an encoding without ambiguity:
\* within a kind, equal bytes mean equal header, name, credential and slot, for
\* every content of the strings that callers supply and slots below 2^32.
THEOREM EncodingIsFaithful == Spec => []BytesSayWhatIsBound
<1>1. seal \in Seals => BytesSayWhatIsBound
  <2>1. CASE seal \in KeySeals
    BY <2>1, keyType, keySays DEF BytesSayWhatIsBound, Comparable
  <2>2. CASE seal \in SecretSeals
    BY <2>2, secretType, secretSays DEF BytesSayWhatIsBound, Comparable
  <2> QED
    BY <2>1, <2>2 DEF Seals
<1> QED
  BY <1>1, SealType, PTL

\* The kind tags of sealed.go:49-61 keep wrapped data keys and secrets apart: no
\* name makes a secret's associated data that of a key entry.
THEOREM KindsNeverCollide == Spec => []KindsAreDisjoint
<1>1. seal \in Seals => KindsAreDisjoint
  <2>1. CASE seal \in KeySeals
    BY <2>1, kindsDiffer DEF KindsAreDisjoint
  <2>2. CASE seal \in SecretSeals
    BY <2>2, secretType DEF KindsAreDisjoint
  <2> QED
    BY <2>1, <2>2 DEF Seals
<1> QED
  BY <1>1, SealType, PTL

=============================================================================

------------------------- MODULE ContainmentProofs --------------------------
(***************************************************************************)
(* Proofs about Containment for any credentials, packets and denied        *)
(* blocks, any sessions and names, any faults and any number of crashes.   *)
(***************************************************************************)
EXTENDS Containment, SandboxProofs, FiniteSetTheorems

(* Powers of two, quotients and remainders. *)

\* f is pow2 as far as n.
Doubling(f, n) ==
  f \in [0..n -> Nat] /\ \A k \in 0..n : f[k] = IF k = 0 THEN 1 ELSE 2 * f[k - 1]

LEMMA DoublingExists == \A n \in Nat : \E f : Doubling(f, n)
<1> DEFINE S == {n \in Nat : \E f : Doubling(f, n)}
<1>1. 0 \in S
  <2>1. Doubling([k \in 0..0 |-> 1], 0)
    BY DEF Doubling
  <2> QED
    BY <2>1
<1>2. ASSUME NEW n \in Nat, n \in S PROVE n + 1 \in S
  <2>1. PICK f : Doubling(f, n)
    BY <1>2
  <2>2. Doubling([k \in 0..n + 1 |-> IF k = n + 1 THEN 2 * f[n] ELSE f[k]], n + 1)
    <3> DEFINE g == [k \in 0..n + 1 |-> IF k = n + 1 THEN 2 * f[n] ELSE f[k]]
    <3>1. \A k \in 0..n : f[k] \in Nat /\ g[k] = f[k]
      BY <2>1 DEF Doubling
    <3>2. g[n + 1] = 2 * f[n] /\ g = [k \in 0..n + 1 |-> g[k]]
      OBVIOUS
    <3> HIDE DEF g
    <3>0. f[n] \in Nat /\ 2 * f[n] \in Nat /\ (n + 1) - 1 = n /\ n + 1 # 0 /\ g[n] = f[n]
      BY <3>1
    <3>3. g \in [0..n + 1 -> Nat]
      <4>1. ASSUME NEW k \in 0..n + 1 PROVE g[k] \in Nat
        <5>1. CASE k = n + 1
          BY <3>2, <3>0, <5>1
        <5>2. CASE k # n + 1
          <6>1. k \in 0..n
            BY <5>2
          <6> QED
            BY <3>1, <6>1
        <5> QED
          BY <5>1, <5>2
      <4> QED
        BY <3>2, <4>1
    <3>4. ASSUME NEW k \in 0..n + 1 PROVE g[k] = IF k = 0 THEN 1 ELSE 2 * g[k - 1]
      <4>1. CASE k = n + 1
        BY <3>2, <3>0, <4>1
      <4>2. CASE k # n + 1
        <5>1. k \in 0..n
          BY <4>2
        <5>2. k # 0 => k - 1 \in 0..n
          BY <5>1
        <5> QED
          BY <2>1, <3>1, <5>1, <5>2 DEF Doubling
      <4> QED
        BY <4>1, <4>2
    <3> QED
      BY <3>3, <3>4 DEF Doubling, g
  <2> QED
    BY <2>2
<1> HIDE DEF S
<1>3. Nat \subseteq S
  BY <1>1, <1>2, Induct
<1> QED
  BY <1>3 DEF S

LEMMA DoublingAgrees ==
  ASSUME NEW m \in Nat, NEW f, NEW g, Doubling(f, m), NEW n \in Nat, Doubling(g, n), m <= n
  PROVE  \A k \in 0..m : f[k] = g[k]
<1> DEFINE S == {k \in Nat : k <= m => f[k] = g[k]}
<1>1. 0 \in S
  BY DEF Doubling
<1>2. ASSUME NEW k \in Nat, k \in S PROVE k + 1 \in S
  <2> SUFFICES ASSUME k + 1 <= m PROVE f[k + 1] = g[k + 1]
    OBVIOUS
  <2>1. k + 1 \in 0..m /\ k + 1 \in 0..n /\ k + 1 # 0 /\ (k + 1) - 1 = k /\ k <= m
    OBVIOUS
  <2>2. f[k + 1] = 2 * f[k] /\ g[k + 1] = 2 * g[k]
    BY <2>1 DEF Doubling
  <2> QED
    BY <1>2, <2>1, <2>2
<1> HIDE DEF S
<1>3. Nat \subseteq S
  BY <1>1, <1>2, Induct
<1> QED
  BY <1>3 DEF S

\* The recursive definition of pow2 defines it.
LEMMA Pow2Def ==
  /\ pow2 \in [Nat -> Nat] /\ pow2[0] = 1
  /\ \A n \in Nat : pow2[n + 1] = 2 * pow2[n]
<1> DEFINE F(n) == CHOOSE f : Doubling(f, n)
           p == [n \in Nat |-> F(n)[n]]
<1>1. \A n \in Nat : Doubling(F(n), n)
  BY DoublingExists, Zenon
<1> HIDE DEF F
<1>2. \A n \in Nat : F(n)[n] \in Nat
  BY <1>1 DEF Doubling
<1>3. ASSUME NEW n \in Nat, n # 0 PROVE F(n)[n] = 2 * F(n - 1)[n - 1]
  <2>1. n - 1 \in Nat /\ n - 1 \in 0..n - 1 /\ n \in 0..n /\ n - 1 <= n
    BY <1>3
  <2>2. F(n)[n] = 2 * F(n)[n - 1]
    BY <1>1, <1>3, <2>1 DEF Doubling
  <2>3. F(n - 1)[n - 1] = F(n)[n - 1]
    BY <1>1, <2>1, DoublingAgrees
  <2> QED
    BY <2>2, <2>3
<1>4. F(0)[0] = 1
  BY <1>1 DEF Doubling
<1>5. p = [n \in Nat |-> IF n = 0 THEN 1 ELSE 2 * p[n - 1]]
  BY <1>3, <1>4
<1>6. pow2 = [n \in Nat |-> IF n = 0 THEN 1 ELSE 2 * pow2[n - 1]]
  <2> HIDE DEF p
  <2> QED
    BY <1>5 DEF pow2
<1>7. pow2[0] = 1 /\ \A n \in Nat : pow2[n + 1] = 2 * pow2[n]
  BY <1>6
<1>8. pow2 \in [Nat -> Nat]
  <2> DEFINE S == {n \in Nat : pow2[n] \in Nat}
  <2>1. 0 \in S
    BY <1>7
  <2>2. \A n \in Nat : n \in S => n + 1 \in S
    BY <1>7
  <2> HIDE DEF S
  <2>3. Nat \subseteq S
    BY <2>1, <2>2, Induct
  <2> QED
    BY <1>6, <2>3 DEF S
<1> QED
  BY <1>7, <1>8

LEMMA Pow2Type == \A n \in Nat : pow2[n] \in Nat /\ pow2[n] >= 1
<1> DEFINE S == {n \in Nat : pow2[n] >= 1}
<1>1. 0 \in S
  BY Pow2Def
<1>2. \A n \in Nat : n \in S => n + 1 \in S
  BY Pow2Def
<1> HIDE DEF S
<1>3. Nat \subseteq S
  BY <1>1, <1>2, Induct
<1> QED
  BY <1>3, Pow2Def DEF S

LEMMA Pow2Add == \A m, n \in Nat : pow2[m + n] = pow2[m] * pow2[n]
<1> SUFFICES ASSUME NEW m \in Nat PROVE \A n \in Nat : pow2[m + n] = pow2[m] * pow2[n]
  OBVIOUS
<1> DEFINE S == {n \in Nat : pow2[m + n] = pow2[m] * pow2[n]}
<1>1. 0 \in S
  BY Pow2Def
<1>2. ASSUME NEW n \in Nat, n \in S PROVE n + 1 \in S
  <2>1. pow2[m + (n + 1)] = 2 * pow2[m + n]
    BY Pow2Def
  <2>2. pow2[n + 1] = 2 * pow2[n] /\ pow2[m] \in Nat /\ pow2[n] \in Nat
    BY Pow2Def
  <2>3. pow2[m] * (2 * pow2[n]) = 2 * (pow2[m] * pow2[n])
    BY <2>2
  <2> QED
    BY <1>2, <2>1, <2>2, <2>3
<1> HIDE DEF S
<1>3. Nat \subseteq S
  BY <1>1, <1>2, Induct
<1> QED
  BY <1>3 DEF S

\* Quotient and remainder, and that they are the only ones.
LEMMA DivMod ==
  ASSUME NEW a \in Nat, NEW b \in Nat, b >= 1
  PROVE  a \div b \in Nat /\ a % b \in 0..b - 1 /\ a = b * (a \div b) + (a % b)
OBVIOUS

LEMMA DivUnique ==
  ASSUME NEW a \in Nat, NEW b \in Nat, b >= 1, NEW q \in Nat, NEW r \in 0..b - 1, a = b * q + r
  PROVE  a \div b = q /\ a % b = r
OBVIOUS

\* Division by b and then by c.
LEMMA DivTwice ==
  ASSUME NEW a \in Nat, NEW b \in Nat, NEW c \in Nat, b >= 1, c >= 1
  PROVE  /\ (a \div b) \div c = a \div (b * c)
         /\ (a \div b) % c = (a % (b * c)) \div b
<1>1. PICK q \in Nat, r \in 0..b - 1 : q = a \div b /\ a = b * q + r
  BY DivMod
<1>2. PICK p \in Nat, s \in 0..c - 1 : p = q \div c /\ s = q % c /\ q = c * p + s
  BY DivMod
<1>3. PICK m \in Nat : m = b * c
  OBVIOUS
<1>4. a = m * p + (b * s + r)
  <2>1. b * (c * p + s) = (b * c) * p + b * s
    <3>1. s \in Nat
      OBVIOUS
    <3>2. QED
      BY <3>1
  <2>2. q = c * p + s
    BY <1>2
  <2>3. b * q = b * (c * p + s)
    BY <2>2, Zenon
  <2>4. (b * c) * p = m * p
    BY <1>3, Zenon
  <2>5. b * q = m * p + b * s
    BY <2>1, <2>3, <2>4, Zenon
  <2>6. m * p \in Nat /\ b * s \in Nat
    OBVIOUS
  <2>7. QED
    BY <1>1, <2>5, <2>6
<1>5. m >= 1 /\ b * s + r \in 0..m - 1
  <2>1. b * s <= b * (c - 1)
    OBVIOUS
  <2>2. b * s \in Nat /\ m >= b /\ b * (c - 1) = m - b
    BY <1>3
  <2>3. QED
    BY <2>1, <2>2
<1>6. PICK t \in 0..m - 1 : t = b * s + r
  BY <1>5
<1>7. a = m * p + t
  BY <1>4, <1>6
<1>8. a \div m = p /\ a % m = t
  BY <1>5, <1>7, DivUnique, Zenon
<1>9. t \div b = s
  <2>1. s \in Nat /\ t \in Nat
    OBVIOUS
  <2>2. QED
    BY <1>6, <2>1, DivUnique
<1>10. QED
  BY <1>1, <1>2, <1>3, <1>8, <1>9

LEMMA DivDiv ==
  ASSUME NEW a \in Nat, NEW b \in Nat, NEW c \in Nat, b >= 1, c >= 1
  PROVE  (a \div b) \div c = a \div (b * c)
BY DivTwice

LEMMA ModDiv ==
  ASSUME NEW a \in Nat, NEW b \in Nat, NEW c \in Nat, b >= 1, c >= 1
  PROVE  (a % (b * c)) \div b = (a \div b) % c
BY DivTwice

\* Numbers are equal when their quotients and their remainders are.
LEMMA SameDivMod ==
  ASSUME NEW x \in Nat, NEW y \in Nat, NEW p \in Nat, p >= 1
  PROVE  x = y <=> x \div p = y \div p /\ x % p = y % p
<1>1. x = p * (x \div p) + (x % p)
  BY DivMod
<1>2. y = p * (y \div p) + (y % p)
  BY DivMod
<1> QED
  BY <1>1, <1>2


\* Two numbers agree in all but their last e bits; the B bits before those.
SamePrefix(x, y, e) == x \div pow2[e] = y \div pow2[e]
Byte(x, B, e) == (x \div pow2[e]) % pow2[B]

LEMMA NextByte ==
  ASSUME NEW x \in Nat, NEW y \in Nat, NEW e \in Nat, NEW B \in Nat
  PROVE  SamePrefix(x, y, e) <=> SamePrefix(x, y, e + B) /\ Byte(x, B, e) = Byte(y, B, e)
<1>1. PICK d \in Nat : d = pow2[e] /\ d >= 1
  BY Pow2Type
<1>2. PICK p \in Nat : p = pow2[B] /\ p >= 1
  BY Pow2Type
<1>3. pow2[e + B] = d * p
  BY <1>1, <1>2, Pow2Add
<1>4. (x \div d) \div p = x \div (d * p)
  BY <1>1, <1>2, DivDiv
<1>5. (y \div d) \div p = y \div (d * p)
  BY <1>1, <1>2, DivDiv
<1>6. x \div d \in Nat /\ y \div d \in Nat
  BY <1>1, DivMod
<1>7. x \div d = y \div d
        <=> (x \div d) \div p = (y \div d) \div p /\ (x \div d) % p = (y \div d) % p
  <2>1. p >= 1
    BY <1>2
  <2>2. QED
    BY <1>6, <2>1, SameDivMod, Zenon
<1>8. QED
  BY <1>1, <1>2, <1>3, <1>4, <1>5, <1>7, Zenon DEF SamePrefix, Byte

\* The same within a byte, of which the last s bits are left out.
SameWithinByte(x, y, e, B, s) ==
  SamePrefix(x, y, e + s)
    <=> SamePrefix(x, y, e + B) /\ Byte(x, B, e) \div pow2[s] = Byte(y, B, e) \div pow2[s]

LEMMA WithinByte ==
  ASSUME NEW x \in Nat, NEW y \in Nat, NEW e \in Nat, NEW B \in Nat, NEW s \in Nat, s <= B
  PROVE  SameWithinByte(x, y, e, B, s)
<1>0. PICK g \in Nat : g = e + s
  OBVIOUS
<1>1. PICK d \in Nat : d = pow2[e] /\ d >= 1
  BY Pow2Type
<1>2. PICK u \in Nat : u = pow2[s] /\ u >= 1
  BY Pow2Type
<1>3. PICK r \in Nat : B = s + r /\ g + r = e + B
  <2>1. B - s \in Nat /\ B = s + (B - s) /\ (e + s) + (B - s) = e + B
    OBVIOUS
  <2>2. QED
    BY <1>0, <2>1
<1>4. PICK p \in Nat : p = pow2[r] /\ p >= 1
  BY Pow2Type
<1>5. pow2[B] = u * p /\ pow2[g] = d * u
  BY <1>0, <1>1, <1>2, <1>3, <1>4, Pow2Add
<1>6. ASSUME NEW z \in Nat PROVE Byte(z, B, e) \div pow2[s] = Byte(z, r, g)
  <2>1. PICK q \in Nat : q = z \div d
    BY <1>1, DivMod
  <2>2. (q % (u * p)) \div u = (q \div u) % p
    BY <1>2, <1>4, ModDiv
  <2>3. q \div u = z \div (d * u)
    <3>1. (z \div d) \div u = z \div (d * u)
      BY <1>1, <1>2, DivDiv
    <3>2. QED
      BY <2>1, <3>1, Zenon
  <2>4. QED
    BY <1>1, <1>2, <1>4, <1>5, <2>1, <2>2, <2>3, Zenon DEF Byte
<1>7. SamePrefix(x, y, g) <=> SamePrefix(x, y, g + r) /\ Byte(x, r, g) = Byte(y, r, g)
  BY NextByte DEF SamePrefix
<1>8. QED
  BY <1>0, <1>3, <1>6, <1>7, Zenon DEF SameWithinByte

LEMMA OneByteLess ==
  ASSUME NEW B \in Nat, NEW L \in Nat, NEW k \in Nat, k + 1 <= L
  PROVE  B * (L - 1 - k) \in Nat /\ B * (L - (k + 1)) = B * (L - 1 - k) /\ B * (L - k) = B * (L - 1 - k) + B
OBVIOUS

\* Addresses of L bytes of B bits have their first k bytes in common when they agree in all
\* but the bits after those.
LEMMA LeadingBytes ==
  ASSUME NEW B \in Nat, NEW L \in Nat, NEW x \in Nat, NEW y \in Nat,
         x < pow2[B * L], y < pow2[B * L], NEW k \in 0..L
  PROVE  (\A i \in 0..k - 1 : Byte(x, B, B * (L - 1 - i)) = Byte(y, B, B * (L - 1 - i)))
           <=> SamePrefix(x, y, B * (L - k))
<1> DEFINE Eq(i) == Byte(x, B, B * (L - 1 - i)) = Byte(y, B, B * (L - 1 - i))
           Same(n) == SamePrefix(x, y, B * (L - n))
           S == {n \in Nat : n <= L => ((\A i \in 0..n - 1 : Eq(i)) <=> Same(n))}
<1>1. 0 \in S
  <2>1. PICK w \in Nat : w = B * L
    OBVIOUS
  <2>2. PICK d \in Nat : d = pow2[w] /\ d >= 1
    BY Pow2Type
  <2>3. x \in 0..d - 1 /\ y \in 0..d - 1 /\ x = d * 0 + x /\ y = d * 0 + y
    BY <2>1, <2>2
  <2>4. x \div d = 0 /\ y \div d = 0
    BY <2>2, <2>3, DivUnique
  <2>5. B * (L - 0) = w
    BY <2>1
  <2>6. Same(0)
    BY <2>2, <2>4, <2>5 DEF SamePrefix
  <2>7. QED
    BY <2>6
<1>2. ASSUME NEW n \in Nat, n \in S PROVE n + 1 \in S
  <2> SUFFICES ASSUME n + 1 <= L PROVE (\A i \in 0..(n + 1) - 1 : Eq(i)) <=> Same(n + 1)
    OBVIOUS
  <2>1. PICK e \in Nat : e = B * (L - 1 - n) /\ B * (L - (n + 1)) = e /\ B * (L - n) = e + B
    BY OneByteLess
  <2>2. SamePrefix(x, y, e) <=> SamePrefix(x, y, e + B) /\ Byte(x, B, e) = Byte(y, B, e)
    BY NextByte DEF SamePrefix
  <2>3. Same(n + 1) <=> Same(n) /\ Eq(n)
    BY <2>1, <2>2, Zenon
  <2>4. (\A i \in 0..n - 1 : Eq(i)) <=> Same(n)
    <3>1. n <= L
      OBVIOUS
    <3>2. QED
      BY <1>2, <3>1
  <2> HIDE DEF Eq, Same
  <2>5. 0..(n + 1) - 1 = (0..n - 1) \cup {n}
    OBVIOUS
  <2>6. (\A i \in 0..(n + 1) - 1 : Eq(i)) <=> (\A i \in 0..n - 1 : Eq(i)) /\ Eq(n)
    BY <2>5, Zenon
  <2>7. QED
    BY <2>3, <2>4, <2>6, Zenon
<1> HIDE DEF S
<1>3. Nat \subseteq S
  BY <1>1, <1>2, Induct
<1>4. k \in Nat /\ k <= L
  OBVIOUS
<1>5. QED
  BY <1>3, <1>4 DEF S

\* The bits after a prefix are whole bytes and the rest of the byte it ends in.
PrefixSplit(B, L, len) ==
  /\ len \div B \in 0..L /\ len % B \in 0..B - 1
  /\ len % B = 0 => (B * L) - len = B * (L - (len \div B))
  /\ len % B # 0 =>
       /\ len \div B \in 0..L - 1
       /\ (B * L) - len = B * (L - 1 - (len \div B)) + (B - (len % B))

LEMMA PrefixBytes ==
  ASSUME NEW B \in Nat \ {0}, NEW L \in Nat, NEW len \in Nat, len <= B * L
  PROVE  PrefixSplit(B, L, len)
<1>1. PICK f \in Nat, r \in 0..B - 1 : f = len \div B /\ r = len % B /\ len = B * f + r
  BY DivMod
<1>2. f <= L /\ (r # 0 => f <= L - 1)
  <2>1. f > L => B * f >= B * (L + 1)
    OBVIOUS
  <2>2. B * (L + 1) = B * L + B /\ B * L \in Nat /\ B * f \in Nat
    OBVIOUS
  <2>3. f <= L
    BY <1>1, <2>1, <2>2
  <2>4. f = L => r = 0
    BY <1>1, <2>2
  <2>5. QED
    BY <2>3, <2>4
<1>3. B * (L - f) = B * L - B * f /\ B * (L - 1 - f) = B * L - B - B * f
  BY <1>2
<1>4. B * L \in Nat /\ B * f \in Nat
  OBVIOUS
<1>5. r = 0 => B * L - len = B * (L - f)
  BY <1>1, <1>3, <1>4
<1>6. r # 0 => B * L - len = B * (L - 1 - f) + (B - r)
  BY <1>1, <1>3, <1>4
<1>7. QED
  BY <1>1, <1>2, <1>5, <1>6 DEF PrefixSplit
-----------------------------------------------------------------------------
(* What Contains and the kernel's match say of an address (cidr.go). *)

LEMMA AddressType ==
  ASSUME NEW a \in Addresses
  PROVE  /\ a.v \in Version /\ a.n \in Nat /\ a.n < pow2[width(a.v)]
         /\ width(a.v) = byteBits * bytes[a.v] /\ width(a.v) \in Nat /\ bytes[a.v] \in Nat \ {0}
<1>1. PICK v \in Version : a \in [v : {v}, n : 0..pow2[width(v)] - 1]
  BY DEF Addresses
<1>2. a.v = v /\ a.n \in 0..pow2[width(v)] - 1
  BY <1>1
<1>3. bytes[v] \in Nat \ {0} /\ byteBits \in Nat
  BY WidthAssumption
<1>4. byteBits * bytes[v] \in Nat
  BY <1>3
<1>5. width(v) \in Nat
  BY <1>4 DEF width
<1>6. pow2[width(v)] \in Nat
  BY <1>5, Pow2Type
<1>7. QED
  BY <1>2, <1>3, <1>5, <1>6 DEF width

\* maskedEqual compares the leading bits: the whole bytes, then part of the next.
LEMMA MaskedEqual ==
  ASSUME NEW a \in Addresses, NEW b \in Addresses, a.v = b.v, NEW len \in Nat, len <= width(b.v)
  PROVE  maskedEqual(As(a), As(b), len) <=> SamePrefix(a.n, b.n, width(b.v) - len)
<1>1. PICK B \in Nat \ {0} : B = byteBits
  BY WidthAssumption
<1>2. PICK L \in Nat \ {0} : L = bytes[b.v]
  BY AddressType
<1>3. PICK x \in Nat, y \in Nat : x = a.n /\ y = b.n /\ x < pow2[B * L] /\ y < pow2[B * L]
  BY <1>1, <1>2, AddressType
<1>4. width(b.v) = B * L /\ len <= B * L
  BY <1>1, <1>2 DEF width
<1>5. PICK f \in Nat, r \in Nat : f = len \div B /\ r = len % B
  <2>1. B \in Nat /\ B >= 1
    OBVIOUS
  <2>2. len \div B \in Nat /\ len % B \in 0..B - 1
    BY <2>1, DivMod, Zenon
  <2>3. QED
    BY <2>2
<1>6. /\ f \in 0..L /\ r \in 0..B - 1
      /\ r = 0 => B * L - len = B * (L - f)
      /\ r # 0 => f \in 0..L - 1 /\ B * L - len = B * (L - 1 - f) + (B - r)
  <2>1. PrefixSplit(B, L, len)
    BY <1>4, PrefixBytes
  <2>2. QED
    BY <1>5, <2>1, Zenon DEF PrefixSplit
<1>7. \A i \in 0..L - 1 : /\ As(a)[i] = Byte(x, B, B * (L - 1 - i))
                          /\ As(b)[i] = Byte(y, B, B * (L - 1 - i))
  BY <1>1, <1>2, <1>3 DEF As, Byte
<1>8. (\A i \in 0..f - 1 : As(a)[i] = As(b)[i]) <=> SamePrefix(x, y, B * (L - f))
  <2>1. (\A i \in 0..f - 1 : Byte(x, B, B * (L - 1 - i)) = Byte(y, B, B * (L - 1 - i)))
           <=> SamePrefix(x, y, B * (L - f))
    <3>1. B \in Nat /\ L \in Nat /\ f \in 0..L /\ x < pow2[B * L] /\ y < pow2[B * L]
      BY <1>3, <1>6
    <3>2. QED
      BY <3>1, LeadingBytes, Zenon
  <2>2. \A i \in 0..f - 1 : i \in 0..L - 1
    BY <1>6
  <2>3. QED
    BY <1>7, <2>1, <2>2, Zenon
<1>9. maskedEqual(As(a), As(b), len)
        <=> /\ \A i \in 0..f - 1 : As(a)[i] = As(b)[i]
            /\ r = 0 \/ As(a)[f] \div pow2[B - r] = As(b)[f] \div pow2[B - r]
  BY <1>1, <1>5, Zenon DEF maskedEqual
<1>10. CASE r = 0
  BY <1>3, <1>4, <1>6, <1>8, <1>9, <1>10, Zenon
<1>11. CASE r # 0
  <2>1. PICK e \in Nat : e = B * (L - 1 - f)
    BY <1>6, <1>11
  <2>2. PICK s \in Nat : s = B - r
    BY <1>6
  <2>3. s <= B /\ B \in Nat
    BY <1>6, <2>2
  <2>4. SameWithinByte(x, y, e, B, s)
    BY <2>3, WithinByte
  <2>5. As(a)[f] = Byte(x, B, e) /\ As(b)[f] = Byte(y, B, e)
    BY <1>6, <1>7, <1>11, <2>1
  <2>6. B * (L - f) = e + B
    <3>1. f + 1 <= L /\ B \in Nat /\ L \in Nat
      BY <1>6, <1>11
    <3>2. B * (L - f) = B * (L - 1 - f) + B
      BY <3>1, OneByteLess, ZenonT(30)
    <3>3. QED
      BY <2>1, <3>2, Zenon
  <2>7. B * L - len = e + s
    BY <1>6, <1>11, <2>1, <2>2
  <2>8. QED
    BY <1>3, <1>4, <1>8, <1>9, <1>11, <2>2, <2>4, <2>5, <2>6, <2>7, Zenon DEF SameWithinByte
<1>12. QED
  BY <1>10, <1>11

\* The kernel's match and Contains agree on every block and address, of either family.
LEMMA ContainsIsDaddr ==
  ASSUME NEW c \in Blocks, NEW ip \in Addresses, c.prefixLen <= width(c.addr.v)
  PROVE  Contains(c, ip) <=> daddr(c, ip)
<1>1. c.addr \in Addresses /\ c.prefixLen \in Nat
  BY DEF Blocks
<1>2. CASE c.addr.v = ip.v
  <2>1. maskedEqual(As(c.addr), As(ip), c.prefixLen) <=> SamePrefix(c.addr.n, ip.n, width(ip.v) - c.prefixLen)
    BY <1>1, <1>2, MaskedEqual, Zenon
  <2>2. QED
    BY <1>2, <2>1, Zenon DEF Contains, daddr, SamePrefix
<1>3. CASE c.addr.v # ip.v
  BY <1>3 DEF Contains, daddr
<1>4. QED
  BY <1>2, <1>3
-----------------------------------------------------------------------------
(* The uplinks' addresses (uplink.go). *)

\* The k-th address of the i-th /30.
UplinkEnd(i, k) == uplinkPool.addr.n + 4 * i + k

\* The ends that uplinkSubnet computes octet by octet.
LEMMA UplinkEnds ==
  ASSUME NEW i \in Index
  PROVE  uplinkSubnet(i) = [gateway |-> [v |-> 4, n |-> UplinkEnd(i, 1)], ns |-> [v |-> 4, n |-> UplinkEnd(i, 2)]]
<1>1. PICK b \in Nat : b = uplinkPool.addr.n
  BY UplinkAssumption, AddressType DEF Blocks
<1>2. PICK p \in Nat : p = pow2[byteBits] /\ p >= 1
  BY WidthAssumption, Pow2Type
<1>3. i \in Nat /\ i * 4 \in Nat /\ i * 4 = 4 * i
  BY PoolAssumption DEF Index
<1>4. PICK m \in Nat : m = i * 4
  BY <1>3
<1>5. PICK q \in Nat, r \in Nat : q = m \div p /\ r = m % p /\ m = p * q + r
  <2>1. m \div p \in Nat /\ m % p \in 0..p - 1 /\ m = p * (m \div p) + (m % p)
    BY <1>2, DivMod
  <2>2. m % p \in Nat
    BY <1>2, <2>1
  <2>3. QED
    BY <2>1, <2>2, Zenon
<1>6. q * p + r = m
  BY <1>5
<1>7. q * p \in Nat
  OBVIOUS
<1>8. \A k \in {1, 2} : b + q * p + r + k = b + 4 * i + k
  BY <1>3, <1>4, <1>6, <1>7
<1>9. QED
  BY <1>1, <1>2, <1>4, <1>5, <1>8, Zenon DEF uplinkSubnet, UplinkEnd

\* The pool begins at a multiple of its size, which is a multiple of four.
LEMMA PoolAligned ==
  \E M, b, q \in Nat :
    /\ M = pow2[width(4) - uplinkPool.prefixLen] /\ b = uplinkPool.addr.n
    /\ M >= 1 /\ 4 * maxUplinks <= M /\ b = M * q /\ b % 4 = 0
    /\ width(4) \in Nat /\ width(4) - 2 \in Nat
<1>1. PICK b \in Nat, l \in Nat, w \in Nat :
        b = uplinkPool.addr.n /\ l = uplinkPool.prefixLen /\ w = width(4) /\ l + 2 <= w
  <2>1. uplinkPool.addr \in Addresses /\ uplinkPool.prefixLen \in Nat /\ uplinkPool.addr.v = 4
    BY UplinkAssumption DEF Blocks
  <2>2. uplinkPool.addr.n \in Nat /\ width(4) \in Nat
    BY <2>1, AddressType
  <2>3. QED
    BY <2>1, <2>2, UplinkAssumption
<1>2. PICK t \in Nat : w - l = 2 + t
  <2>1. w - l - 2 \in Nat /\ w - l = 2 + (w - l - 2)
    BY <1>1
  <2>2. QED
    BY <2>1
<1>3. PICK u \in Nat : u = pow2[t] /\ u >= 1
  BY Pow2Type
<1>4. pow2[2] = 4
  BY Pow2Def
<1>5. PICK M \in Nat : M = pow2[w - l] /\ M = 4 * u /\ M >= 1
  <2>1. pow2[2 + t] = pow2[2] * pow2[t]
    BY Pow2Add
  <2>2. QED
    BY <1>2, <1>3, <1>4, <2>1
<1>6. b % M = 0 /\ 4 * maxUplinks <= M
  BY <1>1, <1>5, UplinkAssumption
<1>7. PICK q \in Nat : b = M * q
  <2>1. b \div M \in Nat /\ b = M * (b \div M) + (b % M)
    BY <1>5, DivMod
  <2>2. PICK z \in Nat : b = M * z + (b % M)
    BY <2>1, Zenon
  <2>3. b = M * z
    BY <1>6, <2>2
  <2>4. QED
    BY <2>3
<1>8. b % 4 = 0
  <2>1. b = 4 * (u * q)
    <3>1. (4 * u) * q = 4 * (u * q)
      OBVIOUS
    <3>2. QED
      BY <1>5, <1>7, <3>1, Zenon
  <2>2. PICK z \in Nat : z = u * q
    OBVIOUS
  <2>3. b = 4 * z + 0
    BY <2>1, <2>2
  <2>4. QED
    BY <2>3
<1>9. w - 2 \in Nat
  BY <1>1
<1>10. QED
  BY <1>1, <1>5, <1>6, <1>7, <1>8, <1>9, Zenon

\* Ends of two uplinks are in the same /30 only when they are ends of the same.
LEMMA EndsApart ==
  ASSUME NEW i \in Index, NEW j \in Index, NEW k \in {1, 2}
  PROVE  UplinkEnd(i, 1) \div 4 = UplinkEnd(j, k) \div 4 <=> i = j
<1>1. PICK b \in Nat : b = uplinkPool.addr.n /\ b % 4 = 0
  BY PoolAligned
<1>2. i \in Nat /\ j \in Nat
  BY PoolAssumption DEF Index
<1>3. PICK c \in Nat : b = 4 * c
  BY <1>1
<1>4. (b + 4 * i + 1) \div 4 = c + i /\ (b + 4 * j + k) \div 4 = c + j
  BY <1>2, <1>3
<1>5. QED
  BY <1>1, <1>2, <1>4 DEF UplinkEnd

\* The ends of an uplink are in the pool.
LEMMA EndsInPool ==
  ASSUME NEW i \in Index, NEW k \in {1, 2}
  PROVE  uplinkPool.addr.n \div pow2[width(4) - uplinkPool.prefixLen]
           = UplinkEnd(i, k) \div pow2[width(4) - uplinkPool.prefixLen]
<1>1. PICK M, b, q \in Nat :
        /\ M = pow2[width(4) - uplinkPool.prefixLen] /\ b = uplinkPool.addr.n
        /\ M >= 1 /\ 4 * maxUplinks <= M /\ b = M * q
  BY PoolAligned
<1>2. PICK r \in 0..M - 1 : r = 4 * i + k
  BY <1>1, PoolAssumption DEF Index
<1>3. i \in Nat
  BY PoolAssumption DEF Index
<1>4. b \div M = q
  <2>1. M >= 1 /\ b = M * q + 0 /\ 0 \in 0..M - 1
    BY <1>1
  <2>2. QED
    BY <2>1, DivUnique
<1>5. M * q \in Nat /\ b + 4 * i + k = M * q + r /\ M * q + r \in Nat
  BY <1>1, <1>2, <1>3
<1>6. (M * q + r) \div M = q
  BY <1>1, <1>5, DivUnique
<1>7. QED
  BY <1>1, <1>4, <1>5, <1>6, Zenon DEF UplinkEnd
-----------------------------------------------------------------------------
(* What a rendered chain does with a packet. *)

\* The rules of a chain that decide: the denied blocks, then the connection, then the
\* targets.
Tracked(ct) == ct \in {"established", "related"}
DecidedInOrder(chain, ip, cs, ct) ==
  /\ DOMAIN chain = 1..4
  /\ chain[1] = Rule("daddr", unconditionalDeny[ip.v], 1, "drop")
  /\ chain[2] = Rule("ct", {"established", "related"}, 0, "accept")
  /\ chain[3] = Rule("daddr", ofFamily(ip.v, cs), 0, "accept")
  /\ chain[4] = Rule("any", {}, 1, "continue")
  /\ Decides(chain, 1, ip, ct) <=> Denied(ip)
  /\ Decides(chain, 2, ip, ct) <=> Tracked(ct)
  /\ Decides(chain, 3, ip, ct) <=> \E c \in cs : daddr(c, ip)
  /\ ~Decides(chain, 4, ip, ct)

LEMMA RenderDecides ==
  ASSUME NEW ip, NEW cs, NEW ct
  PROVE  DecidedInOrder(Render(ip.v, cs), ip, cs, ct)
<1> DEFINE chain == Render(ip.v, cs)
<1>1. /\ DOMAIN chain = 1..4
      /\ chain[1] = Rule("daddr", unconditionalDeny[ip.v], 1, "drop")
      /\ chain[2] = Rule("ct", {"established", "related"}, 0, "accept")
      /\ chain[3] = Rule("daddr", ofFamily(ip.v, cs), 0, "accept")
      /\ chain[4] = Rule("any", {}, 1, "continue")
  BY DEF Render
<1> HIDE DEF chain
<1>2. Decides(chain, 1, ip, ct) <=> Denied(ip)
  BY <1>1 DEF Rule, Decides, Matches, Denied
<1>3. Decides(chain, 2, ip, ct) <=> Tracked(ct)
  BY <1>1 DEF Rule, Decides, Matches, Tracked
<1>4. Decides(chain, 3, ip, ct) <=> \E c \in cs : daddr(c, ip)
  <2>1. \A c \in cs : daddr(c, ip) => c \in ofFamily(ip.v, cs)
    BY DEF ofFamily, daddr
  <2>2. QED
    BY <1>1, <2>1 DEF Rule, Decides, Matches, ofFamily
<1>5. ~Decides(chain, 4, ip, ct)
  BY <1>1 DEF Rule, Decides
<1>6. DecidedInOrder(chain, ip, cs, ct)
  BY <1>1, <1>2, <1>3, <1>4, <1>5 DEF DecidedInOrder
<1>7. QED
  BY <1>6 DEF chain

\* A chain accepts what is not denied and is of a tracked connection or in a target.
LEMMA RenderAccepts ==
  ASSUME NEW ip, NEW cs, NEW ct
  PROVE  Accepts(Render(ip.v, cs), ip, ct)
           <=> ~Denied(ip) /\ (Tracked(ct) \/ \E c \in cs : daddr(c, ip))
<1>1. PICK chain : chain = Render(ip.v, cs)
  OBVIOUS
<1>2. DecidedInOrder(chain, ip, cs, ct)
  BY <1>1, RenderDecides
<1>3. Accepts(chain, ip, ct) <=> ~Denied(ip) /\ (Tracked(ct) \/ \E c \in cs : daddr(c, ip))
  BY <1>2 DEF DecidedInOrder, Accepts, Rule
<1>4. QED
  BY <1>1, <1>3

\* What it accepts no rule logs; what it refuses exactly one does.
LEMMA RenderLogs ==
  ASSUME NEW ip, NEW cs, NEW ct
  PROVE  Logs(Render(ip.v, cs), ip, ct)
           \in IF Accepts(Render(ip.v, cs), ip, ct) THEN {{}} ELSE {{1}, {4}}
<1>1. PICK chain : chain = Render(ip.v, cs)
  OBVIOUS
<1>2. DecidedInOrder(chain, ip, cs, ct)
  BY <1>1, RenderDecides
<1>3. Accepts(chain, ip, ct) <=> ~Denied(ip) /\ (Tracked(ct) \/ \E c \in cs : daddr(c, ip))
  BY <1>1, RenderAccepts
<1>4. CASE Decides(chain, 1, ip, ct)
  <2>1. Logs(chain, ip, ct) = {1}
    BY <1>2, <1>4 DEF DecidedInOrder, Decides, Matches, Rule, Logs
  <2>2. QED
    BY <1>1, <1>2, <1>3, <1>4, <2>1 DEF DecidedInOrder
<1>5. CASE ~Decides(chain, 1, ip, ct) /\ (Decides(chain, 2, ip, ct) \/ Decides(chain, 3, ip, ct))
  <2>1. Logs(chain, ip, ct) = {}
    BY <1>2, <1>5 DEF DecidedInOrder, Decides, Matches, Rule, Logs
  <2>2. QED
    BY <1>1, <1>2, <1>3, <1>5, <2>1 DEF DecidedInOrder
<1>6. CASE ~Decides(chain, 1, ip, ct) /\ ~Decides(chain, 2, ip, ct) /\ ~Decides(chain, 3, ip, ct)
  <2>1. Logs(chain, ip, ct) = {4}
    BY <1>2, <1>6 DEF DecidedInOrder, Decides, Matches, Rule, Logs
  <2>2. QED
    BY <1>1, <1>2, <1>3, <1>6, <2>1 DEF DecidedInOrder
<1>7. QED
  BY <1>4, <1>5, <1>6

LEMMA ForwardedIff ==
  ASSUME NEW x, NEW ip, NEW ct
  PROVE  Forwarded(x, ip, ct) <=> ~Denied(ip) /\ (Tracked(ct) \/ InTargets(scope[x], ip))
BY RenderAccepts DEF Forwarded, Chain, InTargets

LEMMA LogsOnce ==
  ASSUME NEW x, NEW ip, NEW ct
  PROVE  Logs(Chain(x, ip.v), ip, ct) \in IF Forwarded(x, ip, ct) THEN {{}} ELSE {{1}, {4}}
BY RenderLogs DEF Forwarded, Chain

\* What the namespaces hold: a loaded ruleset is a session's; a tracked connection
\* leads out of a namespace with a way out, into its session's scope; a session that is
\* active or listening owns the ruleset of its namespace.
LoadedInv ==
  /\ rules \subseteq netns
  /\ Doing("create", "rules") => Target \notin rules
  /\ \A n \in rules : scope[n] \in Sessions
  /\ \A i \in Index : veth[i] = "pinned" => scope[i] \in Sessions
FlowInv ==
  \A f \in flows : f[1] \in Routed /\ InTargets(scope[f[1]], f[2]) /\ ~Denied(f[2])
OwnerInv ==
  /\ \A s \in active \cup listeners : scope[netnsName[s]] = s
  /\ \A s \in listeners :
       \/ s \in active
       \/ call.kind = "create" /\ call.step \in {"link", "route", "forward", "stop"} /\ call.session = s
  /\ Doing("destroy", "del") => call.session \notin listeners
  /\ call.kind = "create" /\ call.step \in {"listener", "link", "route", "forward", "stop"} =>
       scope[Target] = call.session

ContainmentInv ==
  SandboxInv /\ ContainmentTypeOK /\ LoadedInv /\ FlowInv /\ OwnerInv

LEMMA ContainmentInitInv == ContainmentInit => ContainmentInv
<1> SUFFICES ASSUME ContainmentInit PROVE ContainmentInv
  OBVIOUS
<1>1. SandboxInv
  BY SandboxInitInv DEF ContainmentInit
<1>2. QED
  BY <1>1, NamespaceAssumption
     DEF ContainmentInit, SandboxInit, ContainmentInv, SandboxInv, ContainmentTypeOK, LoadedInv, FlowInv,
         OwnerInv, Doing, Idle

\* A step of the packet path is a step of the sandbox or leaves it alone.
LEMMA ContainmentRefinesSandbox == [ContainmentNext]_vars => [SandboxNext]_sandboxVars
<1> SUFFICES ASSUME [ContainmentNext]_vars PROVE SandboxNext \/ UNCHANGED sandboxVars
  OBVIOUS
<1>1. ASSUME NEW s \in Sessions, CreateSession(s) PROVE SandboxNext
  BY <1>1 DEF CreateSession, SandboxNext
<1>2. CASE LoadRuleset \/ Teardown
  BY <1>2 DEF LoadRuleset, Teardown, SandboxNext, ProvisionStep
<1>3. CASE OtherStep
  BY <1>3 DEF OtherStep, SandboxNext, ProvisionStep
<1>4. ASSUME NEW x \in Namespaces, NEW ip \in Destinations, GuestSends(x, ip) PROVE UNCHANGED sandboxVars
  BY <1>4 DEF GuestSends
<1>5. ASSUME NEW f \in flows, FlowExpires(f) PROVE UNCHANGED sandboxVars
  BY <1>5 DEF FlowExpires
<1>6. CASE UNCHANGED vars
  BY <1>6 DEF vars
<1>7. QED
  BY <1>1, <1>2, <1>3, <1>4, <1>5, <1>6 DEF ContainmentNext

\* The sandbox's other steps take no ruleset and no way out away.
LEMMA OtherStepKeeps ==
  ASSUME SandboxInv, LoadedInv, OtherStep
  PROVE  LoadedInv' /\ Routed \subseteq Routed'
<1> USE NamespaceAssumption, NoneAssumption, NameAssumption
        DEF sandboxVars, controller, kernel, SandboxInv, SandboxTypeOK, RoutableIsEnforced, CallInv, LoadedInv,
            Routed, Target, Goto, Doing, Idle
<1>1. ASSUME NEW s \in Sessions, DestroySandbox(s), UNCHANGED scope PROVE LoadedInv' /\ Routed \subseteq Routed'
  BY <1>1 DEF DestroySandbox, At
<1>2. ASSUME AddNetns, UNCHANGED scope PROVE LoadedInv' /\ Routed \subseteq Routed'
  BY <1>2 DEF AddNetns
<1>3. ASSUME AddNetnsFails, UNCHANGED scope PROVE LoadedInv' /\ Routed \subseteq Routed'
  BY <1>3 DEF AddNetnsFails
<1>4. ASSUME ApplyRulesetFails, UNCHANGED scope PROVE LoadedInv' /\ Routed \subseteq Routed'
  BY <1>4 DEF ApplyRulesetFails
<1>5. ASSUME StartListener, UNCHANGED scope PROVE LoadedInv' /\ Routed \subseteq Routed'
  BY <1>5 DEF StartListener
<1>6. ASSUME StartListenerFails, UNCHANGED scope PROVE LoadedInv' /\ Routed \subseteq Routed'
  BY <1>6 DEF StartListenerFails
<1>7. ASSUME AddLink, UNCHANGED scope PROVE LoadedInv' /\ Routed \subseteq Routed'
  BY <1>7 DEF AddLink, Lowest
<1>8. ASSUME AddLinkFails, UNCHANGED scope PROVE LoadedInv' /\ Routed \subseteq Routed'
  BY <1>8 DEF AddLinkFails
<1>9. ASSUME AddRoute, UNCHANGED scope PROVE LoadedInv' /\ Routed \subseteq Routed'
  BY <1>9 DEF AddRoute
<1>10. ASSUME EnableForwarding, UNCHANGED scope PROVE LoadedInv' /\ Routed \subseteq Routed'
  BY <1>10 DEF EnableForwarding
<1>11. ASSUME UplinkFails, UNCHANGED scope PROVE LoadedInv' /\ Routed \subseteq Routed'
  BY <1>11 DEF UplinkFails, freeUplink
<1>12. ASSUME StopListener, UNCHANGED scope PROVE LoadedInv' /\ Routed \subseteq Routed'
  BY <1>12 DEF StopListener
<1>13. ASSUME DelFails, UNCHANGED scope PROVE LoadedInv' /\ Routed \subseteq Routed'
  BY <1>13 DEF DelFails
<1>14. ASSUME Return, UNCHANGED scope PROVE LoadedInv' /\ Routed \subseteq Routed'
  BY <1>14 DEF Return
<1>15. ASSUME Restart, UNCHANGED scope PROVE LoadedInv' /\ Routed \subseteq Routed'
  BY <1>15 DEF Restart
<1>16. QED
  BY <1>1, <1>2, <1>3, <1>4, <1>5, <1>6, <1>7, <1>8, <1>9, <1>10, <1>11, <1>12, <1>13, <1>14, <1>15 DEF OtherStep

\* Nor do they change who owns a ruleset.
LEMMA OtherStepOwns ==
  ASSUME SandboxInv, LoadedInv, OwnerInv, ContainmentTypeOK, OtherStep
  PROVE  OwnerInv'
<1> USE NamespaceAssumption, NoneAssumption, NameAssumption
        DEF sandboxVars, controller, kernel, SandboxInv, SandboxTypeOK, ActiveIsContained, CallInv, OwnerInv,
            Target, Goto, Doing, Idle
<1>1. ASSUME NEW s \in Sessions, DestroySandbox(s), UNCHANGED scope PROVE OwnerInv'
  BY <1>1 DEF DestroySandbox, At
<1>2. ASSUME AddNetns, UNCHANGED scope PROVE OwnerInv'
  BY <1>2 DEF AddNetns
<1>3. ASSUME AddNetnsFails, UNCHANGED scope PROVE OwnerInv'
  BY <1>3 DEF AddNetnsFails
<1>4. ASSUME ApplyRulesetFails, UNCHANGED scope PROVE OwnerInv'
  BY <1>4 DEF ApplyRulesetFails
<1>5. ASSUME StartListener, UNCHANGED scope PROVE OwnerInv'
  BY <1>5 DEF StartListener
<1>6. ASSUME StartListenerFails, UNCHANGED scope PROVE OwnerInv'
  BY <1>6 DEF StartListenerFails
<1>7. ASSUME AddLink, UNCHANGED scope PROVE OwnerInv'
  BY <1>7 DEF AddLink, Lowest
<1>8. ASSUME AddLinkFails, UNCHANGED scope PROVE OwnerInv'
  BY <1>8 DEF AddLinkFails
<1>9. ASSUME AddRoute, UNCHANGED scope PROVE OwnerInv'
  BY <1>9 DEF AddRoute
<1>10. ASSUME EnableForwarding, UNCHANGED scope PROVE OwnerInv'
  BY <1>10 DEF EnableForwarding
<1>11. ASSUME UplinkFails, UNCHANGED scope PROVE OwnerInv'
  BY <1>11 DEF UplinkFails, freeUplink
<1>12. ASSUME StopListener, UNCHANGED scope PROVE OwnerInv'
  BY <1>12 DEF StopListener
<1>13. ASSUME DelFails, UNCHANGED scope PROVE OwnerInv'
  BY <1>13 DEF DelFails
<1>14. ASSUME Return, UNCHANGED scope PROVE OwnerInv'
  BY <1>14 DEF Return
<1>15. ASSUME Restart, UNCHANGED scope PROVE OwnerInv'
  BY <1>15 DEF Restart
<1>16. QED
  BY <1>1, <1>2, <1>3, <1>4, <1>5, <1>6, <1>7, <1>8, <1>9, <1>10, <1>11, <1>12, <1>13, <1>14, <1>15 DEF OtherStep

LEMMA ContainmentNextInv == ContainmentInv /\ [ContainmentNext]_vars => ContainmentInv'
<1> SUFFICES ASSUME ContainmentInv, [ContainmentNext]_vars PROVE ContainmentInv'
  OBVIOUS
<1>1. SandboxInv'
  BY ContainmentRefinesSandbox, SandboxNextInv DEF ContainmentInv
<1>2. SandboxTypeOK'
  BY <1>1 DEF SandboxInv
<1> USE NamespaceAssumption, NoneAssumption, NameAssumption DEF ContainmentInv
<1>3. ASSUME NEW s \in Sessions, CreateSession(s) PROVE ContainmentInv'
  BY <1>1, <1>2, <1>3
     DEF CreateSession, CreateSandbox, At, controller, kernel, ContainmentTypeOK, LoadedInv, FlowInv,
         OwnerInv, Routed, Doing, Idle, Target, InTargets, Denied
<1>4. CASE LoadRuleset
  <2>0. /\ call.kind = "create" /\ call.step = "rules" /\ call.session \in Sessions
        /\ Target \in Names /\ Target \in netns /\ Target \notin rules
        /\ rules' = rules \cup {Target} /\ scope' = [scope EXCEPT ![Target] = call.session]
        /\ call' = [call EXCEPT !.step = "listener"]
        /\ UNCHANGED <<flows, active, listeners, netns, routable, veth>>
    BY <1>4 DEF LoadRuleset, ApplyRuleset, Doing, Target, Goto, controller, SandboxInv, SandboxTypeOK, CallInv, Idle,
                LoadedInv
  <2>1. ContainmentTypeOK'
    BY <1>2, <2>0 DEF ContainmentTypeOK, Namespaces
  <2>2. LoadedInv'
    <3>1. \A n \in rules' : scope'[n] \in Sessions
      BY <2>0 DEF LoadedInv, ContainmentTypeOK, Namespaces
    <3>2. \A i \in Index : scope'[i] = scope[i]
      BY <2>0 DEF ContainmentTypeOK, Namespaces, Index
    <3>3. QED
      BY <2>0, <3>1, <3>2 DEF LoadedInv, Doing, SandboxInv, SandboxTypeOK
  <2>3. \A x \in Routed : x # Target /\ scope'[x] = scope[x] /\ x \in Routed'
    BY <2>0 DEF Routed, RoutableIsEnforced, SandboxInv, ContainmentTypeOK, Namespaces, Index
  <2>4. FlowInv'
    BY <2>0, <2>3 DEF FlowInv, InTargets, Denied
  <2>5. OwnerInv'
    BY <2>0 DEF OwnerInv, ContainmentTypeOK, Namespaces, Target, Doing, SandboxInv, SandboxTypeOK, CallInv
  <2>6. QED
    BY <1>1, <2>1, <2>2, <2>4, <2>5
<1>5. CASE Teardown
  <2> DEFINE gone == Target
  <2>1. /\ call.step = "del" /\ gone \in Names /\ gone \in netns
        /\ netns' = netns \ {gone} /\ rules' = rules \ {gone} /\ routable' = routable \ {gone}
        /\ veth' \in [Index -> Names \cup {None, "pinned"}]
        /\ \A j \in Index : veth[j] # gone => veth'[j] = veth[j]
        /\ listeners' = listeners
        /\ call' \in {[call EXCEPT !.step = "failed"], [call EXCEPT !.step = "ok"]}
    BY <1>2, <1>5 DEF Teardown, UndoCreate, FinishDestroy, DeleteName, Doing, Goto, SandboxInv, SandboxTypeOK,
        controller, Target
  <2>2. \A j \in Index : Pinned(j) => gone \in rules
    <3>1. CASE UndoCreate
      BY <3>1 DEF UndoCreate, DeleteName, Pinned
    <3>2. CASE FinishDestroy
      <4>1. call.session \in active /\ gone = netnsName[call.session]
        BY <3>2 DEF FinishDestroy, Doing, SandboxInv, CallInv, Target
      <4>2. QED
        BY <4>1 DEF SandboxInv, ActiveIsContained, RoutableIsEnforced
    <3>3. QED
      BY <1>5, <3>1, <3>2 DEF Teardown
  <2>3. /\ scope' = [x \in Namespaces |->
             IF x = gone THEN None ELSE IF x \in Index /\ Pinned(x) THEN scope[gone] ELSE scope[x]]
        /\ flows' = {f \in flows : f[1] # gone}
             \cup {<<j, f[2]>> : j \in {j \in Index : Pinned(j)}, f \in {f \in flows : f[1] = gone}}
    BY <1>5 DEF Teardown
  <2>4. \A s \in active' \cup listeners' : s \in active \cup listeners /\ netnsName[s] # gone
    BY <1>5 DEF Teardown, UndoCreate, FinishDestroy, Doing, SandboxInv, SandboxTypeOK, CallInv, ActiveIsContained,
        OwnerInv, Target, controller, freeUplink
  <2>5. \A s \in active : s \in active' \/ (call.kind = "destroy" /\ s = call.session)
    BY <1>5 DEF Teardown, UndoCreate, FinishDestroy, Doing, controller
  <2> HIDE DEF gone
  <2>6. ContainmentTypeOK'
    BY <1>2, <2>1, <2>3 DEF ContainmentTypeOK, Namespaces
  <2>7. LoadedInv'
    <3>1. \A n \in rules' : scope'[n] \in Sessions
      BY <2>1, <2>3 DEF LoadedInv, SandboxInv, SandboxTypeOK, Namespaces, Index
    <3>2. ASSUME NEW j \in Index, veth'[j] = "pinned" PROVE scope'[j] \in Sessions
      <4>1. CASE Pinned(j)
        BY <2>1, <2>2, <2>3, <4>1 DEF LoadedInv, Namespaces, Index
      <4>2. CASE ~Pinned(j)
        <5>1. veth[j] = "pinned"
          BY <2>1, <3>2, <4>2 DEF Pinned, gone
        <5>2. scope'[j] = scope[j]
          BY <2>1, <2>3, <4>2 DEF Namespaces, Index
        <5>3. QED
          BY <5>1, <5>2 DEF LoadedInv
      <4>3. QED
        BY <4>1, <4>2
    <3>3. ~Doing("create", "rules")'
      BY <2>1 DEF Doing, SandboxInv, SandboxTypeOK, Idle
    <3>4. QED
      BY <2>1, <3>1, <3>2, <3>3 DEF LoadedInv
  <2>8. FlowInv'
    <3> SUFFICES ASSUME NEW f \in flows'
                 PROVE  f[1] \in Routed' /\ InTargets(scope'[f[1]], f[2]) /\ ~Denied(f[2])
      BY DEF FlowInv, InTargets, Denied
    <3>1. CASE f \in flows /\ f[1] # gone
      <4>1. f[1] \in Routed /\ InTargets(scope[f[1]], f[2]) /\ ~Denied(f[2]) /\ f[1] \in Namespaces
        BY <3>1 DEF FlowInv, ContainmentTypeOK
      <4>2. f[1] \in Routed'
        BY <2>1, <3>1, <4>1 DEF Routed
      <4>3. ~(f[1] \in Index /\ Pinned(f[1]))
        BY <2>1, <4>1 DEF Routed, Pinned, Index, SandboxInv, SandboxTypeOK, gone
      <4>4. scope'[f[1]] = scope[f[1]]
        BY <2>3, <3>1, <4>1, <4>3
      <4>5. QED
        BY <4>1, <4>2, <4>4
    <3>2. CASE ~(f \in flows /\ f[1] # gone)
      <4>1. PICK j \in Index, g \in flows : Pinned(j) /\ g[1] = gone /\ f = <<j, g[2]>>
        BY <2>3, <3>2
      <4>2. InTargets(scope[gone], g[2]) /\ ~Denied(g[2])
        BY <4>1 DEF FlowInv
      <4>3. scope'[j] = scope[gone]
        BY <2>1, <2>3, <4>1 DEF Namespaces, Index
      <4>4. j \in Routed'
        BY <4>1 DEF Routed, Pinned
      <4>5. QED
        BY <4>1, <4>2, <4>3, <4>4
    <3>3. QED
      BY <3>1, <3>2
  <2>9. OwnerInv'
    <3>1. \A s \in active' \cup listeners' : scope'[netnsName[s]] = s
      <4>1. \A n \in Names : n # gone => scope'[n] = scope[n]
        BY <2>3 DEF Namespaces, Index
      <4>2. active \subseteq Sessions /\ listeners \subseteq Sessions
        BY DEF SandboxInv, SandboxTypeOK
      <4>3. QED
        BY <2>4, <4>1, <4>2 DEF OwnerInv
    <3>2. call \in [kind : {"create", "destroy"}, session : Sessions,
                    step : {"netns", "rules", "listener", "link", "route", "forward", "stop",
                            "del", "ok", "missing", "failed"}]
      BY <2>1 DEF SandboxInv, SandboxTypeOK, Idle
    <3>3. call'.step \in {"ok", "failed"}
      BY <2>1, <3>2
    <3>4. \A s \in listeners' : s \in active'
      BY <2>1, <2>5, <3>2 DEF OwnerInv, Doing
    <3>5. QED
      BY <3>1, <3>3, <3>4 DEF OwnerInv, Doing
  <2>10. QED
    BY <1>1, <2>6, <2>7, <2>8, <2>9
<1>6. CASE OtherStep
  <2>1. ContainmentTypeOK'
    BY <1>2, <1>6 DEF OtherStep, ContainmentTypeOK
  <2>2. LoadedInv' /\ Routed \subseteq Routed'
    BY <1>6, OtherStepKeeps
  <2>3. OwnerInv'
    BY <1>6, OtherStepOwns
  <2>4. FlowInv'
    BY <1>6, <2>2 DEF OtherStep, FlowInv, InTargets, Denied
  <2>5. QED
    BY <1>1, <2>1, <2>2, <2>3, <2>4
<1>7. ASSUME NEW x \in Namespaces, NEW ip \in Destinations, GuestSends(x, ip) PROVE ContainmentInv'
  <2>1. UNCHANGED <<active, listeners, call, netns, rules, routable, veth, scope>>
    BY <1>7 DEF GuestSends, sandboxVars, controller, kernel
  <2>2. flows' = flows \cup {<<x, ip>>} /\ x \in Routed
    BY <1>7 DEF GuestSends
  <2>3. ContainmentTypeOK'
    BY <1>2, <2>1, <2>2 DEF ContainmentTypeOK
  <2>4. LoadedInv' /\ OwnerInv'
    BY <2>1 DEF LoadedInv, OwnerInv, Doing, Target
  <2>5. ~Denied(ip) /\ InTargets(scope[x], ip)
    BY <1>7, ForwardedIff DEF GuestSends, Tracked
  <2>6. FlowInv'
    <3>1. Routed' = Routed
      BY <2>1 DEF Routed
    <3>2. \A f \in flows' : f[1] \in Routed' /\ InTargets(scope'[f[1]], f[2]) /\ ~Denied(f[2])
      BY <2>1, <2>2, <2>5, <3>1 DEF FlowInv
    <3>3. QED
      BY <3>2 DEF FlowInv, InTargets, Denied
  <2>7. QED
    BY <1>1, <2>3, <2>4, <2>6
<1>8. ASSUME NEW f \in flows, FlowExpires(f) PROVE ContainmentInv'
  BY <1>1, <1>2, <1>8
     DEF FlowExpires, sandboxVars, controller, kernel, ContainmentTypeOK, LoadedInv, FlowInv, OwnerInv, Routed,
         Doing, Target, InTargets, Denied
<1>9. CASE UNCHANGED vars
  BY <1>1, <1>2, <1>9
     DEF vars, sandboxVars, controller, kernel, ContainmentTypeOK, LoadedInv, FlowInv, OwnerInv, Routed,
         Doing, Target, InTargets, Denied
<1>10. QED
  BY <1>3, <1>4, <1>5, <1>6, <1>7, <1>8, <1>9 DEF ContainmentNext

LEMMA ContainmentInvariant == ContainmentSpec => []ContainmentInv
<1>1. QED
  BY ContainmentInitInv, ContainmentNextInv, PTL DEF ContainmentSpec

\* The packet path does not interfere with the sandbox: every theorem of SandboxProofs
\* holds of it too.
THEOREM ContainmentImplementsSandbox == ContainmentSpec => SandboxSpec
<1>1. ContainmentInit => SandboxInit
  BY DEF ContainmentInit
<1>2. QED
  BY <1>1, ContainmentRefinesSandbox, PTL DEF ContainmentSpec, SandboxSpec

\* Type correctness, the sandbox's included.
THEOREM ContainmentTypeCorrect == ContainmentSpec => []ContainmentTypeOK
<1>1. ContainmentInv => ContainmentTypeOK
  BY DEF ContainmentInv
<1>2. QED
  BY <1>1, ContainmentInvariant, PTL

\* What leaves any namespace with a way out is in the scope of the credential it was made
\* for and in no denied block, and nothing in scope is held back.
THEOREM OnlyTheScopeLeaves == ContainmentSpec => []OnlyScopeLeaves
<1>1. ContainmentInv => OnlyScopeLeaves
  <2> SUFFICES ASSUME ContainmentInv, NEW x \in Routed
               PROVE  /\ scope[x] \in Sessions
                      /\ \A ip \in Destinations : \A ct \in States(x, ip) :
                           Forwarded(x, ip, ct) <=> InTargets(scope[x], ip) /\ ~Denied(ip)
    BY DEF OnlyScopeLeaves
  <2>1. scope[x] \in Sessions
    BY DEF ContainmentInv, LoadedInv, SandboxInv, CallInv, RoutableIsEnforced, Routed
  <2>2. ASSUME NEW ip \in Destinations, NEW ct \in States(x, ip)
        PROVE  Forwarded(x, ip, ct) <=> InTargets(scope[x], ip) /\ ~Denied(ip)
    <3>1. Tracked(ct) => InTargets(scope[x], ip)
      BY DEF ContainmentInv, FlowInv, States, Tracked
    <3>2. QED
      BY <3>1, ForwardedIff
  <2>3. QED
    BY <2>1, <2>2
<1>2. QED
  BY <1>1, ContainmentInvariant, PTL

\* A reply on a tracked connection, or an ICMP error about it, passes and is not logged.
THEOREM RepliesAlwaysReturn == ContainmentSpec => []RepliesReturn
<1>1. ContainmentInv => RepliesReturn
  <2> SUFFICES ASSUME ContainmentInv, NEW f \in flows, NEW ct \in States(f[1], f[2])
               PROVE  /\ Forwarded(f[1], guest, ct)
                      /\ Logs(Chain(f[1], guest.v), guest, ct) = {}
    BY DEF RepliesReturn
  <2>1. Tracked(ct)
    <3>1. f \in Namespaces \X Destinations
      BY DEF ContainmentInv, ContainmentTypeOK
    <3>2. f = <<f[1], f[2]>>
      BY <3>1
    <3>3. QED
      BY <3>2 DEF States, Tracked
  <2>2. ~Denied(guest)
    BY GuestAssumption DEF Denied
  <2>3. Forwarded(f[1], guest, ct)
    BY <2>1, <2>2, ForwardedIff
  <2>4. QED
    BY <2>3, LogsOnce
<1>2. QED
  BY <1>1, ContainmentInvariant, PTL

\* The report of a well-formed packet says where it was sent.
LEMMA ParsedAsSent ==
  ASSUME NEW p \in Packets
  PROVE  parseDropPayload(p) = [dst |-> p.dst, l4 |-> [proto |-> p.proto, port |-> p.port]]
<1> DEFINE offset == IF p.dst.v = 4 THEN p.ihl * 4 ELSE 40
<1>1. offset = headerLen(p) /\ offset \in Nat /\ offset >= 20
  BY PacketAssumption DEF headerLen, Version
<1>2. From(p, offset).len = p.l4 /\ From(p, offset).port = p.port
  BY <1>1, PacketAssumption DEF From
<1>3. l4Facts(p.proto, From(p, offset)) = [proto |-> p.proto, port |-> p.port]
  <2>1. p.l4 \in Nat /\ (p.proto \notin {6, 17} \/ p.l4 < 4 => p.port = 0)
    BY PacketAssumption
  <2>2. (IF p.proto \in {6, 17} /\ p.l4 >= 4 THEN p.port ELSE 0) = p.port
    BY <2>1
  <2>3. QED
    BY <1>2, <2>2 DEF l4Facts
<1>4. ~(offset < 20 \/ headerLen(p) + p.l4 < offset)
  BY <1>1, PacketAssumption
<1>5. QED
  BY <1>3, <1>4 DEF parseDropPayload

\* Each refused packet is logged once and reported by the listener of its own session
\* (None, which marks a payload the parser rejects, is not itself the facts of one).
THEOREM RefusedPacketsAreReported ==
  ASSUME None \notin [dst : Destinations, l4 : [proto : {p.proto : p \in Packets}, port : {p.port : p \in Packets}]]
  PROVE  ContainmentSpec => []RefusedIsReported
<1>1. ContainmentInv => RefusedIsReported
  <2> SUFFICES ASSUME ContainmentInv, NEW s \in active \cup listeners
               PROVE  /\ scope[netnsName[s]] = s
                      /\ \A p \in Packets : \A ct \in States(netnsName[s], p.dst) :
                           IF Forwarded(netnsName[s], p.dst, ct)
                           THEN Logs(Chain(netnsName[s], p.dst.v), p.dst, ct) = {}
                           ELSE /\ Cardinality(Logs(Chain(netnsName[s], p.dst.v), p.dst, ct)) = 1
                                /\ hook(netnsName[s], p) =
                                     IF s \in listeners
                                     THEN {[session |-> s,
                                            facts |-> [dst |-> p.dst, l4 |-> [proto |-> p.proto, port |-> p.port]]]}
                                     ELSE {}
    BY DEF RefusedIsReported
  <2>1. scope[netnsName[s]] = s
    BY DEF ContainmentInv, OwnerInv
  <2>2. ASSUME NEW p \in Packets
        PROVE  hook(netnsName[s], p) =
                 IF s \in listeners
                 THEN {[session |-> s,
                        facts |-> [dst |-> p.dst, l4 |-> [proto |-> p.proto, port |-> p.port]]]}
                 ELSE {}
    <3>1. parseDropPayload(p) # None
      BY ParsedAsSent DEF Destinations
    <3>2. \A t \in listeners : netnsName[t] = netnsName[s] => t = s
      BY <2>1 DEF ContainmentInv, OwnerInv
    <3>3. {t \in listeners : netnsName[t] = netnsName[s] /\ parseDropPayload(p) # None}
            = IF s \in listeners THEN {s} ELSE {}
      BY <3>1, <3>2
    <3>4. hook(netnsName[s], p) =
            {[session |-> t, facts |-> parseDropPayload(p)] : t \in IF s \in listeners THEN {s} ELSE {}}
      BY <3>3 DEF hook
    <3>5. parseDropPayload(p) = [dst |-> p.dst, l4 |-> [proto |-> p.proto, port |-> p.port]]
      BY ParsedAsSent
    <3>6. CASE s \in listeners
      <4>1. hook(netnsName[s], p) = {[session |-> s, facts |-> parseDropPayload(p)]}
        BY <3>4, <3>6
      <4>2. QED
        BY <3>5, <3>6, <4>1
    <3>7. CASE s \notin listeners
      BY <3>4, <3>7
    <3>8. QED
      BY <3>6, <3>7
  <2>3. ASSUME NEW p \in Packets, NEW ct \in States(netnsName[s], p.dst)
        PROVE  Logs(Chain(netnsName[s], p.dst.v), p.dst, ct)
                 \in IF Forwarded(netnsName[s], p.dst, ct) THEN {{}} ELSE {{1}, {4}}
    BY LogsOnce
  <2>4. Cardinality({1}) = 1 /\ Cardinality({4}) = 1
    BY FS_Singleton
  <2>5. QED
    BY <2>1, <2>2, <2>3, <2>4
<1>2. QED
  BY <1>1, ContainmentInvariant, PTL
-----------------------------------------------------------------------------
(* Addresses. *)

\* What an active session, or one being created, asked for has been parsed (the 422 of
\* createSession).
ParsedInv ==
  /\ \A s \in active : None \notin cidrs(s)
  /\ call.kind = "create" => None \notin cidrs(call.session)

LEMMA ParsedNext == ContainmentInv /\ ParsedInv /\ [ContainmentNext]_vars => ParsedInv'
<1> SUFFICES ASSUME ContainmentInv, ParsedInv, [ContainmentNext]_vars PROVE ParsedInv'
  OBVIOUS
<1>1. call \in {Idle} \cup [kind : {"create", "destroy"}, session : Sessions,
                            step : {"netns", "rules", "listener", "link", "route", "forward", "stop",
                                    "del", "ok", "missing", "failed"}]
  BY DEF ContainmentInv, SandboxInv, SandboxTypeOK
<1> USE DEF ParsedInv
<1>2. ASSUME NEW s \in Sessions, CreateSession(s) PROVE ParsedInv'
  BY <1>2 DEF CreateSession, CreateSandbox, At, controller
<1>3. CASE LoadRuleset
  BY <1>1, <1>3 DEF LoadRuleset, ApplyRuleset, Goto, controller, Idle
<1>4. CASE Teardown
  BY <1>1, <1>4 DEF Teardown, UndoCreate, FinishDestroy, Goto, controller, Idle
<1>5. CASE OtherStep
  BY <1>1, <1>5
     DEF OtherStep, DestroySandbox, At, AddNetns, AddNetnsFails, ApplyRulesetFails, StartListener,
         StartListenerFails, AddLink, AddLinkFails, AddRoute, EnableForwarding, UplinkFails, StopListener,
         DelFails, Return, Restart, Goto, Doing, controller, Idle
<1>6. ASSUME NEW x \in Namespaces, NEW ip \in Destinations, GuestSends(x, ip) PROVE ParsedInv'
  BY <1>6 DEF GuestSends, sandboxVars, controller
<1>7. ASSUME NEW f \in flows, FlowExpires(f) PROVE ParsedInv'
  BY <1>7 DEF FlowExpires, sandboxVars, controller
<1>8. CASE UNCHANGED vars
  BY <1>8 DEF vars, sandboxVars, controller
<1>9. QED
  BY <1>2, <1>3, <1>4, <1>5, <1>6, <1>7, <1>8 DEF ContainmentNext

\* What the kernel matches for an active session is what Contains says its targets
\* contain, for addresses of any width, in either family and for every prefix length: the
\* byte-wise comparison of cidr.go and the bit-wise one of the kernel are the same.
THEOREM ScopeIsWhatContainsSays == ContainmentSpec => []ScopeIsContains
<1>1. ContainmentInit => ParsedInv
  BY DEF ContainmentInit, SandboxInit, Idle, ParsedInv
<1>2. ContainmentSpec => []ParsedInv
  BY <1>1, ContainmentInvariant, ParsedNext, PTL DEF ContainmentSpec
<1>3. ContainmentInv /\ ParsedInv => ScopeIsContains
  <2> SUFFICES ASSUME ContainmentInv, ParsedInv, NEW s \in active, NEW c \in cidrs(s), NEW ip \in Addresses
               PROVE  Contains(c, ip) <=> daddr(c, ip)
    BY DEF ScopeIsContains
  <2>1. s \in Sessions /\ c # None
    BY DEF ContainmentInv, SandboxInv, SandboxTypeOK, ParsedInv
  <2>2. PICK t \in targets[s] : c = Parse(t)
    BY DEF cidrs
  <2>3. t.addr \in Addresses \cup {None} /\ t.prefix \in Nat \cup {None}
    BY <2>1, TargetAssumption
  <2>4. /\ t.addr # None /\ t.prefix # None /\ ~(t.prefix > width(t.addr.v))
        /\ c = [addr |-> t.addr, prefixLen |-> t.prefix]
    BY <2>1, <2>2 DEF Parse
  <2>5. t.addr \in Addresses /\ t.prefix \in Nat /\ width(t.addr.v) \in Nat
    BY <2>3, <2>4, AddressType
  <2>6. c \in Blocks /\ c.prefixLen <= width(c.addr.v)
    BY <2>4, <2>5 DEF Blocks
  <2>7. QED
    BY <2>6, ContainsIsDaddr
<1>4. QED
  BY <1>2, <1>3, ContainmentInvariant, PTL

\* An active session's uplink is a /30 of the pool that holds no other's end, and no guest
\* reaches an end of it, whatever the targets ask for: for any pool that is aligned, has
\* a /30 for every index and is denied to everyone.
THEOREM UplinksAreUnreachable == ContainmentSpec => []UplinksUnreachable
<1>1. ContainmentInv => UplinksUnreachable
  <2> SUFFICES ASSUME ContainmentInv, NEW s \in active
               PROVE  LET net == [addr |-> uplinkSubnet(bySession[s]).gateway, prefixLen |-> width(4) - 2]
                      IN /\ \A t \in active : \A a \in uplinkAddresses(bySession[t]) : daddr(net, a) <=> t = s
                         /\ \A a \in uplinkAddresses(bySession[s]) :
                              daddr(uplinkPool, a) /\ \A x \in Routed : \A ct \in States(x, a) : ~Forwarded(x, a, ct)
    BY DEF UplinksUnreachable
  <2> DEFINE net == [addr |-> uplinkSubnet(bySession[s]).gateway, prefixLen |-> width(4) - 2]
  <2>1. \A t \in active : bySession[t] \in Index /\ (bySession[s] = bySession[t] <=> t = s)
    BY DEF ContainmentInv, SandboxInv, ActiveIsContained
  <2>2. ASSUME NEW t \in active, NEW a \in uplinkAddresses(bySession[t])
        PROVE  \E k \in {1, 2} : a.v = 4 /\ a.n = UplinkEnd(bySession[t], k)
    BY <2>1, UplinkEnds DEF uplinkAddresses
  <2>3. net.addr.v = 4 /\ net.addr.n = UplinkEnd(bySession[s], 1)
    BY <2>1, UplinkEnds
  <2>4. pow2[width(4) - net.prefixLen] = 4
    <3>1. width(4) \in Nat /\ pow2[2] = 4
      BY PoolAligned, Pow2Def
    <3>2. QED
      BY <3>1
  <2> HIDE DEF net
  <2>5. ASSUME NEW t \in active, NEW a \in uplinkAddresses(bySession[t])
        PROVE  daddr(net, a) <=> t = s
    <3>1. PICK k \in {1, 2} : a.v = 4 /\ a.n = UplinkEnd(bySession[t], k)
      BY <2>2
    <3>2. UplinkEnd(bySession[s], 1) \div 4 = UplinkEnd(bySession[t], k) \div 4 <=> bySession[s] = bySession[t]
      BY <2>1, EndsApart
    <3>3. QED
      BY <2>1, <2>3, <2>4, <3>1, <3>2, Zenon DEF daddr
  <2>6. ASSUME NEW a \in uplinkAddresses(bySession[s])
        PROVE  daddr(uplinkPool, a) /\ \A x \in Routed : \A ct \in States(x, a) : ~Forwarded(x, a, ct)
    <3>1. PICK k \in {1, 2} : a.v = 4 /\ a.n = UplinkEnd(bySession[s], k)
      BY <2>2
    <3>2. daddr(uplinkPool, a)
      BY <2>1, <3>1, EndsInPool, UplinkAssumption DEF daddr
    <3>3. Denied(a)
      BY <3>1, <3>2, UplinkAssumption DEF Denied
    <3>4. QED
      BY <3>2, <3>3, ForwardedIff
  <2>7. QED
    BY <2>5, <2>6 DEF net
<1>2. QED
  BY <1>1, ContainmentInvariant, PTL
=============================================================================

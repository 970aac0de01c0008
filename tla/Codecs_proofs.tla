---------------------------- MODULE Codecs_proofs ----------------------------
(***************************************************************************)
(* What is proved of the codecs: the arithmetic of a torrent's lengths,    *)
(* and the bytes of a connection, for bytes of any size, words of any      *)
(* size and any number of pieces.  The decoder of torrent files is         *)
(* recursive and stays with TLC.                                           *)
(***************************************************************************)
EXTENDS Wire, Lengths, FiniteSetTheorems, WellFoundedInduction, TLAPS

-----------------------------------------------------------------------------
(* Division *)

(* Integer division: the quotient and the remainder. *)
LEMMA DivBounds ==
  ASSUME NEW n \in Nat, NEW p \in Nat \ {0}
  PROVE  /\ n \div p \in Nat
         /\ (n \div p) * p <= n /\ n < (n \div p) * p + p
         /\ n % p \in 0 .. p - 1
         /\ n = p * (n \div p) + (n % p)
<1>1. n = p * (n \div p) + (n % p)
  OBVIOUS
<1>2. n \div p \in Nat /\ n % p \in 0 .. p - 1
  OBVIOUS
<1> QED  BY <1>1, <1>2

(* There is only one quotient. *)
LEMMA DivUnique ==
  ASSUME NEW n \in Nat, NEW p \in Nat \ {0}, NEW q \in Int,
         q * p <= n, n < q * p + p
  PROVE  n \div p = q
OBVIOUS

-----------------------------------------------------------------------------
(* The lengths of a torrent *)

(* Below the largest integer, rounding up gives the number of pieces that cover
   the file. *)
LEMMA RoundedUp ==
  ASSUME NEW t, t.pieceLength \in Nat \ {0}, t.totalLength \in Nat \ {0},
         t.pieceCount = (t.totalLength + t.pieceLength - 1) \div t.pieceLength
  PROVE  CoversTheFile(t)
<1> DEFINE p == t.pieceLength
           n == t.totalLength
           q == n \div p
           r == n % p
<1>1. q \in Nat /\ r \in 0 .. p - 1 /\ n = p * q + r /\ p \in Nat \ {0} /\ n \in Nat \ {0}
  BY DivBounds
<1> DEFINE sum == n + p - 1
<1>2. t.pieceCount = sum \div p /\ sum = n + p - 1
  OBVIOUS
<1> HIDE DEF p, n, q, r, sum
<1>5. sum \in Nat
  BY <1>1, <1>2
<1>3. CASE r = 0
  <2>1. q * p = n /\ q * p <= sum /\ sum < q * p + p
    BY <1>1, <1>2, <1>3
  <2>2. t.pieceCount = q
    <3>1. q \in Int /\ p \in Nat \ {0} /\ sum \in Nat
      BY <1>1, <1>5
    <3>2. sum \div p = q
      BY <2>1, <3>1, DivUnique, Zenon
    <3> QED  BY <1>2, <3>2
  <2>3. q > 0 /\ (q - 1) * p + p = q * p
    BY <1>1, <2>1
  <2> QED  BY <1>1, <1>3, <2>1, <2>2, <2>3 DEF CoversTheFile, LastPieceLength, r, p, n
<1>4. CASE r # 0
  <2>1. q + 1 \in Nat /\ (q + 1) * p = q * p + p /\ q * p + r = n
    BY <1>1
  <2>2. (q + 1) * p <= sum /\ sum < (q + 1) * p + p
    BY <1>1, <1>2, <1>4, <2>1
  <2>3. t.pieceCount = q + 1
    <3>1. q + 1 \in Int /\ p \in Nat \ {0} /\ sum \in Nat
      BY <1>1, <1>5
    <3>2. sum \div p = q + 1
      BY <2>2, <3>1, DivUnique, Zenon
    <3> QED  BY <1>2, <3>2
  <2> QED  BY <1>1, <1>4, <2>1, <2>3 DEF CoversTheFile, LastPieceLength, r, p, n
<1> QED  BY <1>3, <1>4

(* Whatever lengths a file claims, a torrent with pieces that passes validate has
   exactly the pieces that cover it: when the sum in validate overflows, only a
   torrent without pieces passes (parse.go, validate). *)
THEOREM ValidPiecesCoverTheFile ==
  ASSUME NEW t, t.pieceLength \in Int, t.totalLength \in Int, t.pieceCount \in Nat,
         InRange(t.pieceLength), InRange(t.totalLength), ValidLengths(t)
  PROVE  /\ InRange(t.totalLength + t.pieceLength - 1) => CoversTheFile(t)
         /\ t.pieceCount > 0 => CoversTheFile(t)
<1> DEFINE p == t.pieceLength
           s == t.totalLength + t.pieceLength - 1
<1>1. p \in Nat \ {0} /\ t.totalLength \in Nat \ {0} /\ s \in Nat /\ MaxInt \in Nat
      /\ p <= MaxInt /\ t.totalLength <= MaxInt /\ t.pieceCount = Quotient(Wrap(s), p)
  BY MaxIntAssumption DEF ValidLengths, Expected, InRange
<1> HIDE DEF s, p
<1>2. CASE s <= MaxInt
  <2>1. Quotient(Wrap(s), p) = s \div p
    BY <1>1, <1>2 DEF Wrap, Quotient
  <2> QED  BY <1>1, <2>1, RoundedUp DEF s, p
<1>3. CASE s > MaxInt
  <2> DEFINE w == 2 * (MaxInt + 1) - s
  <2>1. w \in Nat \ {0} /\ Wrap(s) = -w
    BY <1>1, <1>3 DEF Wrap, s, p
  <2>2. t.pieceCount = -(w \div p)
    <3> HIDE DEF w
    <3>1. -w < 0 /\ -(-w) = w
      BY <2>1
    <3> QED  BY <1>1, <2>1, <3>1 DEF Quotient
  <2>3. w \div p \in Nat
    <3> HIDE DEF w
    <3> QED  BY <1>1, <2>1, DivBounds
  <2>4. ~(t.pieceCount > 0)
    <3> HIDE DEF w
    <3> QED  BY <2>2, <2>3
  <2>5. ~InRange(s)
    BY <1>1, <1>3 DEF InRange
  <2> QED  BY <2>4, <2>5 DEF s, p
<1> QED  BY <1>1, <1>2, <1>3

-----------------------------------------------------------------------------
(* Induction and powers *)

(* Induction over the numbers, for a set: otherwise the numbers that are missing
   would have a least one. *)
LEMMA Induction ==
  ASSUME NEW S \in SUBSET Nat, 0 \in S, \A n \in S : n + 1 \in S
  PROVE  \A n \in Nat : n \in S
<1> DEFINE Less == {ss \in Nat \X Nat : ss[1] < ss[2]}
           Missing == Nat \ S
<1>1. IsWellFoundedOn(Less, Nat)
  BY NatLessThanWellFounded DEF OpToRel
<1>2. SUFFICES ASSUME Missing # {} PROVE FALSE
  OBVIOUS
<1>3. PICK k \in Missing : \A j \in Missing : ~(<<j, k>> \in Less)
  <2>1. Missing \in SUBSET Nat
    OBVIOUS
  <2> HIDE DEF Less, Missing
  <2> QED  BY <1>1, <1>2, <2>1, WFMin
<1>4. k \in Nat \ {0}
  OBVIOUS
<1>5. k - 1 \in Nat /\ <<k - 1, k>> \in Less
  BY <1>4
<1>6. k - 1 \in S
  BY <1>3, <1>5
<1>7. k - 1 + 1 \in S
  BY <1>6
<1> QED  BY <1>4, <1>7

Powers(f, b, n) == f = [k \in 0 .. n |-> IF k = 0 THEN 1 ELSE b * f[k - 1]]

(* The recursive function behind Power exists. *)
LEMMA PowersExist ==
  ASSUME NEW b
  PROVE  \A n \in Nat : \E f : Powers(f, b, n)
<1> DEFINE S == {n \in Nat : \E f : Powers(f, b, n)}
<1>1. 0 \in S
  <2>1. Powers([k \in 0 .. 0 |-> 1], b, 0)
    BY DEF Powers
  <2> QED  BY <2>1
<1>2. ASSUME NEW n \in S PROVE n + 1 \in S
  <2>1. PICK f : Powers(f, b, n)
    OBVIOUS
  <2> DEFINE g == [k \in 0 .. n + 1 |-> IF k = n + 1 THEN b * f[n] ELSE f[k]]
  <2>2. ASSUME NEW k \in 0 .. n + 1
        PROVE  g[k] = IF k = 0 THEN 1 ELSE b * g[k - 1]
    BY <2>1 DEF Powers
  <2>3. Powers(g, b, n + 1)
    BY <2>2 DEF Powers
  <2> QED  BY <2>3
<1> HIDE DEF S
<1>3. \A n \in Nat : n \in S
  <2>1. S \in SUBSET Nat
    BY DEF S
  <2> QED  BY <1>1, <1>2, <2>1, Induction
<1> QED  BY <1>3 DEF S

(* Two of them agree where both are defined. *)
LEMMA PowersAgree ==
  ASSUME NEW b, NEW f, NEW m \in Nat, Powers(f, b, m), NEW g, NEW n \in Nat, Powers(g, b, n)
  PROVE  \A k \in Nat : k <= m /\ k <= n => f[k] = g[k]
<1> DEFINE S == {k \in Nat : k <= m /\ k <= n => f[k] = g[k]}
<1>1. 0 \in S
  BY DEF Powers
<1>2. ASSUME NEW k \in S PROVE k + 1 \in S
  <2>1. SUFFICES ASSUME k + 1 <= m, k + 1 <= n PROVE f[k + 1] = g[k + 1]
    OBVIOUS
  <2>2. f[k] = g[k]
    BY <2>1
  <2>3. k + 1 \in 0 .. m /\ k + 1 \in 0 .. n /\ k + 1 # 0 /\ k + 1 - 1 = k
    BY <2>1
  <2> QED  BY <2>2, <2>3 DEF Powers
<1> HIDE DEF S
<1>3. \A k \in Nat : k \in S
  <2>1. S \in SUBSET Nat
    BY DEF S
  <2> QED  BY <1>1, <1>2, <2>1, Induction
<1> QED  BY <1>3 DEF S

(* Power is exponentiation. *)
LEMMA PowerStep ==
  ASSUME NEW b
  PROVE  /\ Power(b, 0) = 1
         /\ \A n \in Nat : Power(b, n + 1) = b * Power(b, n)
<1>1. \A n \in Nat : \E f : Powers(f, b, n) /\ Power(b, n) = f[n]
  <2> SUFFICES ASSUME NEW n \in Nat PROVE \E f : Powers(f, b, n) /\ Power(b, n) = f[n]
    OBVIOUS
  <2> DEFINE F == CHOOSE f : f = [k \in 0 .. n |-> IF k = 0 THEN 1 ELSE b * f[k - 1]]
  <2>1. \E f : f = [k \in 0 .. n |-> IF k = 0 THEN 1 ELSE b * f[k - 1]]
    BY PowersExist DEF Powers
  <2>2. Powers(F, b, n)
    BY <2>1 DEF Powers
  <2>3. Power(b, n) = F[n]
    BY DEF Power
  <2> QED  BY <2>2, <2>3
<1>2. Power(b, 0) = 1
  BY <1>1 DEF Powers
<1>3. ASSUME NEW n \in Nat PROVE Power(b, n + 1) = b * Power(b, n)
  <2>1. PICK f : Powers(f, b, n) /\ Power(b, n) = f[n]
    BY <1>1
  <2>2. PICK g : Powers(g, b, n + 1) /\ Power(b, n + 1) = g[n + 1]
    BY <1>1
  <2>3. f[n] = g[n]
    <3>1. n + 1 \in Nat /\ n <= n /\ n <= n + 1
      OBVIOUS
    <3> QED  BY <2>1, <2>2, <3>1, PowersAgree
  <2>4. g[n + 1] = b * g[n]
    <3>1. n + 1 \in 0 .. n + 1 /\ n + 1 # 0 /\ n + 1 - 1 = n
      OBVIOUS
    <3> QED  BY <2>2, <3>1 DEF Powers
  <2> QED  BY <2>1, <2>2, <2>3, <2>4
<1> QED  BY <1>2, <1>3

(* Powers of a positive number are positive. *)
LEMMA PowerType ==
  ASSUME NEW b \in Nat \ {0}
  PROVE  \A n \in Nat : Power(b, n) \in Nat \ {0}
<1> DEFINE S == {n \in Nat : Power(b, n) \in Nat \ {0}}
<1>1. 0 \in S
  BY PowerStep
<1>2. ASSUME NEW n \in S PROVE n + 1 \in S
  <2>1. Power(b, n + 1) = b * Power(b, n) /\ Power(b, n) \in Nat \ {0}
    BY PowerStep
  <2>2. \A x \in Nat \ {0} : b * x \in Nat \ {0}
    OBVIOUS
  <2> QED  BY <2>1, <2>2
<1> HIDE DEF S
<1>3. \A n \in Nat : n \in S
  <2>1. S \in SUBSET Nat
    BY DEF S
  <2> QED  BY <1>1, <1>2, <2>1, Induction
<1> QED  BY <1>3 DEF S

(* Exponents add up. *)
LEMMA PowerSum ==
  ASSUME NEW b \in Nat \ {0}, NEW m \in Nat
  PROVE  \A n \in Nat : Power(b, m + n) = Power(b, m) * Power(b, n)
<1> DEFINE S == {n \in Nat : Power(b, m + n) = Power(b, m) * Power(b, n)}
<1>0. \A n \in Nat : Power(b, n) \in Nat
  BY PowerType
<1>1. 0 \in S
  <2>1. Power(b, 0) = 1 /\ m + 0 = m
    BY PowerStep
  <2> QED  BY <1>0, <2>1
<1>2. ASSUME NEW n \in S PROVE n + 1 \in S
  <2>1. Power(b, m + n) = Power(b, m) * Power(b, n)
    OBVIOUS
  <2>2. Power(b, n + 1) = b * Power(b, n)
    BY PowerStep
  <2>3. m + (n + 1) = (m + n) + 1 /\ m + n \in Nat /\ n + 1 \in Nat
    OBVIOUS
  <2>4. Power(b, m + (n + 1)) = b * Power(b, m + n)
    BY <2>3, PowerStep
  <2>5. \A x, y \in Nat : b * (x * y) = x * (b * y)
    OBVIOUS
  <2> QED  BY <1>0, <2>1, <2>2, <2>3, <2>4, <2>5
<1> HIDE DEF S
<1>3. \A n \in Nat : n \in S
  <2>1. S \in SUBSET Nat
    BY DEF S
  <2> QED  BY <1>1, <1>2, <2>1, Induction
<1> QED  BY <1>3 DEF S

-----------------------------------------------------------------------------
(* Words *)

(* Dividing twice is dividing by the product. *)
LEMMA DivTwice ==
  ASSUME NEW n \in Nat, NEW p \in Nat \ {0}, NEW b \in Nat \ {0}
  PROVE  (n \div p) \div b = n \div (b * p)
<1> DEFINE q == n \div p
           r == q \div b
<1>1. q \in Nat /\ q * p <= n /\ n < q * p + p
  BY DivBounds
<1> HIDE DEF q
<1>2. r \in Nat /\ r * b <= q /\ q < r * b + b
  BY <1>1, DivBounds
<1> HIDE DEF r
<1>3. b * p \in Nat \ {0} /\ r * b \in Nat
  BY <1>2
<1>4. r * (b * p) = (r * b) * p /\ r * (b * p) \in Nat
  BY <1>2
<1>5. \A x, y \in Nat : x <= y => x * p <= y * p
  OBVIOUS
<1>6. (r * b) * p <= q * p
  BY <1>1, <1>2, <1>3, <1>5
<1>7. (q + 1) * p <= (r * b + b) * p
  <2>1. q + 1 \in Nat /\ r * b + b \in Nat /\ q + 1 <= r * b + b
    BY <1>1, <1>2, <1>3
  <2> QED  BY <2>1, <1>5
<1>8. (q + 1) * p = q * p + p /\ (r * b + b) * p = (r * b) * p + b * p
  BY <1>1, <1>3
<1>9. q * p \in Nat /\ (r * b) * p \in Nat
  BY <1>1, <1>3
<1>10. r * (b * p) <= n
  BY <1>1, <1>4, <1>6, <1>9
<1>11. n < r * (b * p) + b * p
  <2> DEFINE x == q * p
             y == (r * b) * p
             z == b * p
  <2>1. x \in Nat /\ y \in Nat /\ z \in Nat /\ r * z = y /\ x + p <= y + z /\ n < x + p
    BY <1>1, <1>3, <1>4, <1>7, <1>8, <1>9
  <2> HIDE DEF x, y, z
  <2>2. n < y + z
    BY <2>1
  <2> QED  BY <2>1, <2>2 DEF z
<1>12. n \div (b * p) = r
  <2> DEFINE z == b * p
  <2>1. z \in Nat \ {0} /\ r * z <= n /\ n < r * z + z
    BY <1>3, <1>10, <1>11
  <2> HIDE DEF z
  <2>2. n \div z = r
    BY <1>2, <2>1, DivUnique
  <2> QED  BY <2>2 DEF z
<1> QED  BY <1>12 DEF q, r

(* A byte has at least the values 0 and 1, and more than MsgRequest * 2. *)
LEMMA BaseFacts ==
  /\ Base \in Nat \ {0}
  /\ Base \div 2 \in Nat /\ Base \div 2 <= Base /\ MsgRequest < Base \div 2
  /\ Byte \subseteq Nat
<1>1. Base \in Nat \ {0}
  BY PowerType, WireAssumption DEF Base
<1> QED  BY <1>1, SizesAssumption DEF Byte

(* A word is a sequence of WordSize bytes. *)
LEMMA WordType ==
  ASSUME NEW n \in Nat
  PROVE  Word(n) \in Seq(Byte) /\ Len(Word(n)) = WordSize
<1>1. \A k \in 1 .. WordSize : (n \div Power(Base, WordSize - k)) % Base \in Byte
  <2> SUFFICES ASSUME NEW k \in 1 .. WordSize
               PROVE  (n \div Power(Base, WordSize - k)) % Base \in Byte
    OBVIOUS
  <2> DEFINE p == Power(Base, WordSize - k)
  <2>1. p \in Nat \ {0}
    BY PowerType, BaseFacts, WireAssumption
  <2>2. n \div p \in Nat
    BY <2>1, DivBounds
  <2> HIDE DEF p
  <2>3. (n \div p) % Base \in 0 .. Base - 1
    BY <2>2, BaseFacts, DivBounds
  <2> QED  BY <2>3 DEF Byte, p
<1>2. Word(n) \in [1 .. WordSize -> Byte]
  BY <1>1 DEF Word
<1> QED  BY <1>2, WireAssumption

Horner(f, w, m) == f = [k \in 0 .. m |-> IF k = 0 THEN 0 ELSE f[k - 1] * Base + w[k]]

(* The recursive function behind Uint exists. *)
LEMMA HornerExists ==
  ASSUME NEW w
  PROVE  \A m \in Nat : \E f : Horner(f, w, m)
<1> DEFINE S == {m \in Nat : \E f : Horner(f, w, m)}
<1>1. 0 \in S
  <2>1. Horner([k \in 0 .. 0 |-> 0], w, 0)
    BY DEF Horner
  <2> QED  BY <2>1
<1>2. ASSUME NEW m \in S PROVE m + 1 \in S
  <2>1. PICK f : Horner(f, w, m)
    OBVIOUS
  <2> DEFINE g == [k \in 0 .. m + 1 |-> IF k = m + 1 THEN f[m] * Base + w[m + 1] ELSE f[k]]
  <2>2. ASSUME NEW k \in 0 .. m + 1
        PROVE  g[k] = IF k = 0 THEN 0 ELSE g[k - 1] * Base + w[k]
    BY <2>1 DEF Horner
  <2>3. Horner(g, w, m + 1)
    BY <2>2 DEF Horner
  <2> QED  BY <2>3
<1> HIDE DEF S
<1>3. \A m \in Nat : m \in S
  <2>1. S \in SUBSET Nat
    BY DEF S
  <2> QED  BY <1>1, <1>2, <2>1, Induction
<1> QED  BY <1>3 DEF S

(* Each of its values comes from the one before. *)
LEMMA HornerStep ==
  ASSUME NEW f, NEW w, NEW m \in Nat, Horner(f, w, m), NEW k \in 1 .. m
  PROVE  f[k] = f[k - 1] * Base + w[k]
<1>1. k \in 0 .. m /\ k # 0
  OBVIOUS
<1> QED  BY <1>1 DEF Horner

(* What PutUint32 writes Uint32 reads, below the largest word: after k bytes the
   value is what division by the weight of the bytes left gives. *)
LEMMA WordRoundTrip ==
  ASSUME NEW n \in Nat, n < Power(Base, WordSize)
  PROVE  Uint(Word(n)) = n
<1> DEFINE w == Word(n)
           F == CHOOSE f : f = [k \in 0 .. Len(w) |->
                                  IF k = 0 THEN 0 ELSE f[k - 1] * Base + w[k]]
<1>0. WordSize \in Nat \ {0} /\ Base \in Nat \ {0} /\ Len(w) = WordSize
  BY WireAssumption, BaseFacts, WordType
<1>1. Horner(F, w, WordSize) /\ Uint(w) = F[WordSize]
  <2>1. \E f : f = [k \in 0 .. Len(w) |-> IF k = 0 THEN 0 ELSE f[k - 1] * Base + w[k]]
    BY <1>0, HornerExists DEF Horner
  <2>2. Horner(F, w, Len(w))
    BY <2>1 DEF Horner
  <2>3. Uint(w) = F[Len(w)]
    BY DEF Uint
  <2> QED  BY <1>0, <2>2, <2>3
<1> HIDE DEF F
<1> DEFINE S == {k \in Nat : k <= WordSize => F[k] = n \div Power(Base, WordSize - k)}
<1>2. 0 \in S
  <2>1. F[0] = 0
    BY <1>0, <1>1 DEF Horner
  <2>2. Power(Base, WordSize) \in Nat \ {0}
    BY <1>0, PowerType
  <2>3. n \div Power(Base, WordSize) = 0
    BY <2>2, DivUnique
  <2> QED  BY <1>0, <2>1, <2>3
<1>3. ASSUME NEW k \in S PROVE k + 1 \in S
  <2>1. SUFFICES ASSUME k + 1 <= WordSize
                 PROVE  F[k + 1] = n \div Power(Base, WordSize - (k + 1))
    OBVIOUS
  <2> DEFINE j == WordSize - (k + 1)
             p == Power(Base, j)
  <2>2. j \in Nat /\ WordSize - k = j + 1 /\ k + 1 \in 1 .. WordSize /\ k + 1 \in 0 .. WordSize
        /\ k + 1 # 0 /\ k + 1 - 1 = k
    BY <1>0, <2>1
  <2>3. Power(Base, WordSize - k) = Base * p
    BY <2>2, PowerStep
  <2>4. F[k] = n \div (Base * p)
    BY <1>0, <2>1, <2>3
  <2>5. p \in Nat \ {0}
    BY <1>0, <2>2, PowerType
  <2>6. w[k + 1] = (n \div p) % Base
    BY <2>2 DEF Word
  <2>7. F[k + 1] = F[k] * Base + w[k + 1]
    <3>1. F[k + 1] = F[k + 1 - 1] * Base + w[k + 1]
      <4> HIDE DEF w
      <4> QED  BY <1>0, <1>1, <2>2, HornerStep
    <3> QED  BY <2>2, <3>1
  <2> DEFINE x == n \div p
  <2>8. x \in Nat /\ F[k] = x \div Base
    BY <1>0, <2>4, <2>5, DivBounds, DivTwice
  <2> HIDE DEF x
  <2>9. (x \div Base) * Base + (x % Base) = x
    <3>1. \A y \in Nat, b \in Nat \ {0} : (y \div b) * b + (y % b) = y
      OBVIOUS
    <3> QED  BY <1>0, <2>8, <3>1
  <2> QED  BY <2>6, <2>7, <2>8, <2>9 DEF x
<1> HIDE DEF S
<1>4. \A k \in Nat : k \in S
  <2>1. S \in SUBSET Nat
    BY DEF S
  <2> QED  BY <1>2, <1>3, <2>1, Induction
<1>5. F[WordSize] = n \div Power(Base, WordSize - WordSize)
  BY <1>0, <1>4 DEF S
<1>6. Power(Base, WordSize - WordSize) = 1
  BY <1>0, PowerStep
<1> QED  BY <1>1, <1>5, <1>6

-----------------------------------------------------------------------------
(* Messages and their frames *)

IDs  == {MsgUnchoke, MsgHave, MsgBitfield, MsgRequest}
Msgs == [ID : IDs, Payload : {p \in Seq(Byte) : 1 + Len(p) < Power(Base, WordSize)}]

(* A MessageID survives its byte. *)
LEMMA IDRoundTrip ==
  ASSUME NEW id \in IDs
  PROVE  IDByte(id) \in Byte /\ IDOf(IDByte(id)) = id
<1>1. id \in Nat /\ id < Base \div 2
  BY BaseFacts DEF IDs, MsgUnchoke, MsgHave, MsgBitfield, MsgRequest
<1>2. id % Base = id
  <2>1. \A x \in Nat, b \in Nat \ {0} : x < b => x % b = x
    OBVIOUS
  <2> QED  BY <1>1, <2>1, BaseFacts
<1> QED  BY <1>1, <1>2, BaseFacts DEF IDByte, IDOf, Byte

(* What the elements of a concatenation are. *)
LEMMA ConcatElements ==
  ASSUME NEW s \in Seq(Byte), NEW t \in Seq(Byte)
  PROVE  /\ s \o t \in Seq(Byte) /\ Len(s \o t) = Len(s) + Len(t)
         /\ \A j \in 1 .. Len(s) : (s \o t)[j] = s[j]
         /\ \A j \in 1 .. Len(t) : (s \o t)[Len(s) + j] = t[j]
OBVIOUS

(* The same for three parts, the second of one byte. *)
LEMMA ThreeParts ==
  ASSUME NEW w \in Seq(Byte), NEW i \in Seq(Byte), Len(i) = 1, NEW p \in Seq(Byte)
  PROVE  /\ (w \o i) \o p \in Seq(Byte)
         /\ Len((w \o i) \o p) = Len(w) + 1 + Len(p)
         /\ \A j \in 1 .. Len(w) : ((w \o i) \o p)[j] = w[j]
         /\ ((w \o i) \o p)[Len(w) + 1] = i[1]
         /\ \A j \in 1 .. Len(p) : ((w \o i) \o p)[Len(w) + 1 + j] = p[j]
<1> DEFINE x == w \o i
<1>1. /\ x \in Seq(Byte) /\ Len(x) = Len(w) + 1 /\ Len(w) \in Nat /\ Len(p) \in Nat
      /\ \A j \in 1 .. Len(w) : x[j] = w[j]
      /\ x[Len(w) + 1] = i[1]
  <2>1. /\ x \in Seq(Byte) /\ Len(x) = Len(w) + Len(i)
        /\ \A j \in 1 .. Len(w) : x[j] = w[j]
        /\ \A j \in 1 .. Len(i) : x[Len(w) + j] = i[j]
    BY ConcatElements
  <2>2. 1 \in 1 .. Len(i) /\ Len(w) \in Nat /\ Len(p) \in Nat
    OBVIOUS
  <2> HIDE DEF x
  <2> QED  BY <2>1, <2>2
<1> HIDE DEF x
<1>2. /\ x \o p \in Seq(Byte) /\ Len(x \o p) = Len(x) + Len(p)
      /\ \A j \in 1 .. Len(x) : (x \o p)[j] = x[j]
      /\ \A j \in 1 .. Len(p) : (x \o p)[Len(x) + j] = p[j]
  BY <1>1, ConcatElements
<1> DEFINE y == x \o p
<1> HIDE DEF y
<1>3. /\ y \in Seq(Byte) /\ Len(y) = Len(w) + 1 + Len(p)
      /\ \A j \in 1 .. Len(w) : y[j] = w[j]
      /\ y[Len(w) + 1] = i[1]
      /\ \A j \in 1 .. Len(p) : y[Len(w) + 1 + j] = p[j]
  BY <1>1, <1>2 DEF y
<1> QED  BY <1>3 DEF y, x

(* The parts of a frame: the length, the MessageID, the payload. *)
LEMMA SerializeParts ==
  ASSUME NEW m \in Msgs
  PROVE  /\ Serialize(m) \in Seq(Byte)
         /\ Len(m.Payload) \in Nat
         /\ Len(Serialize(m)) = WordSize + 1 + Len(m.Payload)
         /\ \A j \in 1 .. WordSize : Serialize(m)[j] = Word(1 + Len(m.Payload))[j]
         /\ Serialize(m)[WordSize + 1] = IDByte(m.ID)
         /\ \A j \in 1 .. Len(m.Payload) : Serialize(m)[WordSize + 1 + j] = m.Payload[j]
<1> DEFINE p == m.Payload
           w == Word(1 + Len(p))
           i == <<IDByte(m.ID)>>
<1>1. p \in Seq(Byte) /\ m.ID \in IDs /\ Len(p) \in Nat
  BY DEF Msgs
<1>2. w \in Seq(Byte) /\ Len(w) = WordSize
  BY <1>1, WordType
<1>3. i \in Seq(Byte) /\ Len(i) = 1 /\ i[1] = IDByte(m.ID)
  BY <1>1, IDRoundTrip
<1>4. Serialize(m) = (w \o i) \o p
  <2>1. m.ID # MsgKeepAlive
    BY <1>1 DEF IDs, MsgKeepAlive, MsgUnchoke, MsgHave, MsgBitfield, MsgRequest
  <2> QED  BY <2>1, Zenon DEF Serialize
<1>5. WordSize \in Nat
  BY WireAssumption
<1> HIDE DEF p, w, i
<1>6. /\ (w \o i) \o p \in Seq(Byte)
      /\ Len((w \o i) \o p) = Len(w) + 1 + Len(p)
      /\ \A j \in 1 .. Len(w) : ((w \o i) \o p)[j] = w[j]
      /\ ((w \o i) \o p)[Len(w) + 1] = i[1]
      /\ \A j \in 1 .. Len(p) : ((w \o i) \o p)[Len(w) + 1 + j] = p[j]
  BY <1>1, <1>2, <1>3, ThreeParts
<1> DEFINE f == (w \o i) \o p
<1>8. Serialize(m) = f
  BY <1>4
<1> HIDE DEF f
<1>9. /\ f \in Seq(Byte)
      /\ Len(p) \in Nat
      /\ Len(f) = WordSize + 1 + Len(p)
      /\ \A j \in 1 .. WordSize : f[j] = w[j]
      /\ f[WordSize + 1] = IDByte(m.ID)
      /\ \A j \in 1 .. Len(p) : f[WordSize + 1 + j] = p[j]
  BY <1>1, <1>2, <1>3, <1>5, <1>6 DEF f
<1> QED  BY <1>8, <1>9 DEF p, w

(* Where the bytes f are found in the stream w, behind the first e. *)
FrameAt(w, e, f) == e + Len(f) <= Len(w) /\ \A j \in 1 .. Len(f) : w[e + j] = f[j]

(* The stream w holds the frames of the messages s[r + 1], s[r + 2], ... one after
   the other, and that of s[k] ends at pos[k]. *)
Layout(w, s, r, pos) ==
  /\ pos \in [r .. Len(s) -> 0 .. Len(w)]
  /\ \A i, j \in r .. Len(s) : i <= j => pos[i] <= pos[j]
  /\ \A k \in r + 1 .. Len(s) : /\ pos[k] = pos[k - 1] + Len(Serialize(s[k]))
                                /\ FrameAt(w, pos[k - 1], Serialize(s[k]))

(* More bytes behind them change nothing. *)
LEMMA LayoutLonger ==
  ASSUME NEW w \in Seq(Byte), NEW s \in Seq(Msgs), NEW r \in 0 .. Len(s), NEW pos,
         Layout(w, s, r, pos), NEW x \in Seq(Byte)
  PROVE  Layout(w \o x, s, r, pos)
<1>1. /\ Len(w \o x) = Len(w) + Len(x) /\ Len(w) \in Nat /\ Len(x) \in Nat /\ Len(s) \in Nat
      /\ \A j \in 1 .. Len(w) : (w \o x)[j] = w[j]
  BY ConcatElements
<1> DEFINE y == w \o x
<1> HIDE DEF y
<1>2. pos \in [r .. Len(s) -> 0 .. Len(y)]
  BY <1>1 DEF Layout, y
<1>3. ASSUME NEW k \in r + 1 .. Len(s)
      PROVE  FrameAt(y, pos[k - 1], Serialize(s[k]))
  <2>1. s[k] \in Msgs
    BY <1>1
  <2>2. Len(Serialize(s[k])) \in Nat
    BY <2>1, SerializeParts
  <2>3. pos[k - 1] \in Nat
    <3>1. k - 1 \in r .. Len(s)
      BY <1>1
    <3>2. pos \in [r .. Len(s) -> 0 .. Len(w)]
      BY DEF Layout
    <3>3. pos[k - 1] \in 0 .. Len(w)
      BY <3>1, <3>2
    <3> QED  BY <1>1, <3>3
  <2>4. FrameAt(w, pos[k - 1], Serialize(s[k]))
    BY DEF Layout
  <2> DEFINE e == pos[k - 1]
             f == Serialize(s[k])
  <2> HIDE DEF e, f
  <2>5. e \in Nat /\ Len(f) \in Nat /\ FrameAt(w, e, f)
    BY <2>2, <2>3, <2>4 DEF e, f
  <2>6. e + Len(f) <= Len(y) /\ \A j \in 1 .. Len(f) : e + j \in 1 .. Len(w)
    BY <1>1, <2>5 DEF FrameAt, y
  <2>7. \A j \in 1 .. Len(f) : y[e + j] = f[j]
    BY <1>1, <2>5, <2>6 DEF FrameAt, y
  <2> QED  BY <2>6, <2>7 DEF FrameAt, e, f
<1> QED  BY <1>2, <1>3 DEF Layout, y

(* A message that is written whole is laid out behind the others. *)
LEMMA LayoutAppend ==
  ASSUME NEW w \in Seq(Byte), NEW s \in Seq(Msgs), NEW r \in 0 .. Len(s), NEW pos,
         Layout(w, s, r, pos), pos[Len(s)] = Len(w), NEW m \in Msgs
  PROVE  \E new : /\ Layout(w \o Serialize(m), Append(s, m), r, new)
                  /\ new[r] = pos[r]
                  /\ new[Len(s) + 1] = Len(w \o Serialize(m))
<1> DEFINE f == Serialize(m)
           y == w \o f
           t == Append(s, m)
           n == Len(s)
           new == [k \in r .. n + 1 |-> IF k = n + 1 THEN Len(y) ELSE pos[k]]
<1>1. f \in Seq(Byte) /\ Len(f) \in Nat /\ Len(w) \in Nat /\ n \in Nat
  BY SerializeParts
<1>2. /\ y \in Seq(Byte) /\ Len(y) = Len(w) + Len(f)
      /\ \A j \in 1 .. Len(f) : y[Len(w) + j] = f[j]
  <2> HIDE DEF f
  <2> QED  BY <1>1, ConcatElements
<1>3. t \in Seq(Msgs) /\ Len(t) = n + 1 /\ t[n + 1] = m /\ \A k \in 1 .. n : t[k] = s[k]
  OBVIOUS
<1>4. Layout(y, s, r, pos)
  BY <1>1, LayoutLonger
<1> HIDE DEF f, y, t
<1>5. pos \in [r .. n -> 0 .. Len(y)] /\ n \in r .. n /\ r \in Nat
  BY <1>1, <1>4 DEF Layout
<1> HIDE DEF n
<1>6. new \in [r .. n + 1 -> 0 .. Len(y)]
  BY <1>1, <1>2, <1>5
<1>7. ASSUME NEW i \in r .. n + 1, NEW j \in r .. n + 1, i <= j
      PROVE  new[i] <= new[j]
  <2>1. CASE j = n + 1
    BY <1>1, <1>2, <1>6, <2>1
  <2>2. CASE j # n + 1
    <3>1. i \in r .. n /\ j \in r .. n
      BY <1>1, <1>5, <1>7, <2>2
    <3>2. pos[i] <= pos[j]
      BY <1>4, <1>7, <3>1 DEF Layout, n
    <3> QED  BY <1>1, <1>5, <3>1, <3>2
  <2> QED  BY <2>1, <2>2
<1>8. ASSUME NEW k \in r + 1 .. n + 1
      PROVE  /\ new[k] = new[k - 1] + Len(Serialize(t[k]))
             /\ FrameAt(y, new[k - 1], Serialize(t[k]))
  <2>1. CASE k = n + 1
    <3>1. new[k] = Len(y) /\ new[k - 1] = Len(w) /\ t[k] = m
      BY <1>1, <1>3, <1>5, <2>1 DEF n
    <3>2. FrameAt(y, Len(w), f)
      <4>1. Len(w) + Len(f) <= Len(y)
        BY <1>1, <1>2
      <4> QED  BY <1>2, <4>1, Zenon DEF FrameAt
    <3>3. Len(y) = Len(w) + Len(f)
      BY <1>2
    <3> QED  BY <3>1, <3>2, <3>3, Zenon DEF f
  <2>2. CASE k # n + 1
    <3>1. k \in r + 1 .. n /\ k \in r .. n /\ k - 1 \in r .. n /\ k \in 1 .. n
      BY <1>1, <1>5, <2>2
    <3>2. new[k] = pos[k] /\ new[k - 1] = pos[k - 1] /\ t[k] = s[k]
      BY <1>1, <1>3, <1>5, <3>1
    <3>3. pos[k] = pos[k - 1] + Len(Serialize(s[k])) /\ FrameAt(y, pos[k - 1], Serialize(s[k]))
      BY <1>4, <3>1 DEF Layout, n
    <3> HIDE DEF new
    <3> QED  BY <3>2, <3>3, Zenon
  <2> QED  BY <2>1, <2>2
<1>9. Layout(y, t, r, new)
  BY <1>3, <1>6, <1>7, <1>8 DEF Layout
<1>10. new[r] = pos[r] /\ new[n + 1] = Len(y)
  BY <1>1, <1>5
<1> QED  BY <1>9, <1>10 DEF f, y, t, n

(* Reading whole frames, or what stands before the first, leaves the rest laid
   out from the front. *)
LEMMA LayoutDrop ==
  ASSUME NEW w \in Seq(Byte), NEW s \in Seq(Msgs), NEW r \in 0 .. Len(s), NEW pos,
         Layout(w, s, r, pos), NEW q \in r .. Len(s)
  PROVE  \E new : /\ Layout(SubSeq(w, pos[q] + 1, Len(w)), s, q, new)
                  /\ new[q] = 0
                  /\ new[Len(s)] = pos[Len(s)] - pos[q]
<1> DEFINE n == Len(s)
           d == pos[q]
           y == SubSeq(w, d + 1, Len(w))
           new == [k \in q .. n |-> pos[k] - d]
<1>1. n \in Nat /\ Len(w) \in Nat /\ d \in 0 .. Len(w) /\ q \in Nat /\ r \in Nat /\ n \in q .. n
  BY DEF Layout
<1>2. /\ y \in Seq(Byte) /\ Len(y) = Len(w) - d
      /\ \A j \in 1 .. Len(w) - d : y[j] = w[d + j]
  <2> HIDE DEF d
  <2> QED  BY <1>1
<1>3. ASSUME NEW k \in q .. n PROVE pos[k] \in d .. Len(w) /\ k \in r .. n
  <2>1. k \in r .. n /\ q \in r .. n /\ q <= k
    BY <1>1
  <2>2. pos[q] <= pos[k] /\ pos[k] \in 0 .. Len(w)
    BY <2>1 DEF Layout
  <2> QED  BY <1>1, <2>1, <2>2
<1> HIDE DEF d, y, n
<1>4. new \in [q .. n -> 0 .. Len(y)]
  BY <1>1, <1>2, <1>3
<1>5. ASSUME NEW i \in q .. n, NEW j \in q .. n, i <= j
      PROVE  new[i] <= new[j]
  <2>1. pos[i] <= pos[j]
    BY <1>3, <1>5 DEF Layout, n
  <2> QED  BY <1>1, <1>3, <2>1
<1>6. ASSUME NEW k \in q + 1 .. n
      PROVE  /\ new[k] = new[k - 1] + Len(Serialize(s[k]))
             /\ FrameAt(y, new[k - 1], Serialize(s[k]))
  <2>1. k \in r + 1 .. n /\ k \in q .. n /\ k - 1 \in q .. n /\ k \in 1 .. n
    BY <1>1
  <2>2. pos[k] = pos[k - 1] + Len(Serialize(s[k])) /\ FrameAt(w, pos[k - 1], Serialize(s[k]))
    BY <2>1 DEF Layout, n
  <2>3. Len(Serialize(s[k])) \in Nat
    BY <2>1, SerializeParts DEF n
  <2>4. new[k] = pos[k] - d /\ new[k - 1] = pos[k - 1] - d
    BY <2>1
  <2>5. pos[k] \in d .. Len(w) /\ pos[k - 1] \in d .. Len(w)
    BY <1>3, <2>1
  <2> HIDE DEF new
  <2>6. new[k] = new[k - 1] + Len(Serialize(s[k]))
    BY <1>1, <2>2, <2>3, <2>4, <2>5
  <2> DEFINE f == Serialize(s[k])
             e == pos[k - 1]
  <2>7. FrameAt(y, e - d, f)
    <3>1. e \in d .. Len(w) /\ Len(f) \in Nat /\ FrameAt(w, e, f)
      BY <2>2, <2>3, <2>5
    <3> HIDE DEF e, f
    <3>2. e - d + Len(f) <= Len(y)
      BY <1>1, <1>2, <3>1 DEF FrameAt
    <3>3. ASSUME NEW j \in 1 .. Len(f) PROVE y[e - d + j] = f[j]
      <4>1. e - d + j \in 1 .. Len(w) - d /\ d + (e - d + j) = e + j
        BY <1>1, <3>1 DEF FrameAt
      <4>2. w[e + j] = f[j]
        BY <3>1 DEF FrameAt
      <4> QED  BY <1>2, <4>1, <4>2
    <3> QED  BY <3>2, <3>3 DEF FrameAt
  <2> QED  BY <2>4, <2>6, <2>7
<1>7. Layout(y, s, q, new)
  BY <1>4, <1>5, <1>6 DEF Layout, n
<1>8. new[q] = 0 /\ new[n] = pos[n] - d
  BY <1>1, <1>3 DEF d
<1> QED  BY <1>7, <1>8 DEF y, d, n

(* Sequences with the same elements are equal. *)
LEMMA SameElements ==
  ASSUME NEW T, NEW s \in Seq(T), NEW t \in Seq(T), Len(s) = Len(t),
         \A j \in 1 .. Len(s) : s[j] = t[j]
  PROVE  s = t
<1>1. s \in [1 .. Len(s) -> T] /\ t \in [1 .. Len(s) -> T]
  OBVIOUS
<1> QED  BY <1>1

(* What the elements of a part are. *)
LEMMA PartElements ==
  ASSUME NEW w \in Seq(Byte), NEW a \in Nat, NEW b \in Nat, a <= b, b <= Len(w)
  PROVE  /\ SubSeq(w, a + 1, b) \in Seq(Byte) /\ Len(SubSeq(w, a + 1, b)) = b - a
         /\ \A j \in 1 .. b - a : SubSeq(w, a + 1, b)[j] = w[a + j]
OBVIOUS

(* The same for a part from the front. *)
LEMMA PrefixElements ==
  ASSUME NEW w \in Seq(Byte), NEW n \in Nat, n <= Len(w)
  PROVE  /\ SubSeq(w, 1, n) \in Seq(Byte) /\ Len(SubSeq(w, 1, n)) = n
         /\ \A j \in 1 .. n : SubSeq(w, 1, n)[j] = w[j]
<1> DEFINE v == SubSeq(w, 0 + 1, n)
<1>1. 0 \in Nat /\ 0 <= n /\ n - 0 = n /\ \A j \in 1 .. n : 0 + j = j
  OBVIOUS
<1>2. v \in Seq(Byte) /\ Len(v) = n - 0 /\ \A j \in 1 .. n - 0 : v[j] = w[0 + j]
  BY <1>1, PartElements
<1>3. SubSeq(w, 1, n) = v
  OBVIOUS
<1> HIDE DEF v
<1> QED  BY <1>1, <1>2, <1>3

(* The length the reader finds in front of a frame. *)
LEMMA ReadLength ==
  ASSUME NEW w \in Seq(Byte), NEW m \in Msgs, Len(w) >= WordSize,
         \A j \in 1 .. WordSize : w[j] = Serialize(m)[j]
  PROVE  Uint(SubSeq(w, 1, WordSize)) = 1 + Len(m.Payload)
<1> DEFINE n == 1 + Len(m.Payload)
           v == SubSeq(w, 1, WordSize)
<1>1. n \in Nat /\ n < Power(Base, WordSize) /\ WordSize \in Nat /\ Len(m.Payload) \in Nat
  BY WireAssumption DEF Msgs
<1>2. \A j \in 1 .. WordSize : w[j] = Word(n)[j]
  BY SerializeParts
<1> HIDE DEF n
<1>3. Word(n) \in Seq(Byte) /\ Len(Word(n)) = WordSize
  BY <1>1, WordType
<1>4. v \in Seq(Byte) /\ Len(v) = WordSize /\ \A j \in 1 .. WordSize : v[j] = w[j]
  BY <1>1, PrefixElements
<1> HIDE DEF v
<1>5. v = Word(n)
  BY <1>2, <1>3, <1>4, SameElements
<1> QED  BY <1>1, <1>5, WordRoundTrip DEF n, v

(* The message the reader makes of a whole frame. *)
LEMMA ReadFrame ==
  ASSUME NEW w \in Seq(Byte), NEW m \in Msgs, FrameAt(w, 0, Serialize(m))
  PROVE  /\ Len(w) >= WordSize
         /\ Uint(SubSeq(w, 1, WordSize)) = 1 + Len(m.Payload)
         /\ IDOf(w[WordSize + 1]) = m.ID
         /\ SubSeq(w, WordSize + 2, WordSize + (1 + Len(m.Payload))) = m.Payload
<1> DEFINE p == m.Payload
           f == Serialize(m)
           z == Len(p)
<1>1. /\ f \in Seq(Byte) /\ z \in Nat /\ Len(f) = WordSize + 1 + z /\ WordSize \in Nat
      /\ f[WordSize + 1] = IDByte(m.ID)
      /\ \A j \in 1 .. z : f[WordSize + 1 + j] = p[j]
  BY SerializeParts, WireAssumption
<1>2. p \in Seq(Byte) /\ m.ID \in IDs
  BY DEF Msgs
<1>3. Len(w) >= WordSize + 1 + z /\ \A j \in 1 .. WordSize + 1 + z : w[j] = f[j]
  <2>1. 0 + Len(f) <= Len(w) /\ \A j \in 1 .. Len(f) : w[0 + j] = f[j]
    BY DEF FrameAt
  <2> HIDE DEF f, z
  <2>2. \A j \in 1 .. Len(f) : 0 + j = j
    OBVIOUS
  <2> QED  BY <1>1, <2>1, <2>2
<1> HIDE DEF f, z, p
<1>4. w[WordSize + 1] = IDByte(m.ID)
  BY <1>1, <1>3
<1>5. Len(w) >= WordSize /\ \A j \in 1 .. WordSize : w[j] = f[j]
  BY <1>1, <1>3
<1>6. Uint(SubSeq(w, 1, WordSize)) = 1 + z
  BY <1>5, ReadLength DEF f, z, p
<1> DEFINE v == SubSeq(w, (WordSize + 1) + 1, WordSize + 1 + z)
<1>7. v = p
  <2>1. /\ WordSize + 1 \in Nat /\ WordSize + 1 + z \in Nat
        /\ WordSize + 1 <= WordSize + 1 + z
        /\ (WordSize + 1 + z) - (WordSize + 1) = z
    BY <1>1
  <2>2. /\ v \in Seq(Byte) /\ Len(v) = (WordSize + 1 + z) - (WordSize + 1)
        /\ \A j \in 1 .. (WordSize + 1 + z) - (WordSize + 1) : v[j] = w[WordSize + 1 + j]
    BY <1>3, <2>1, PartElements
  <2> HIDE DEF v
  <2>3. v \in Seq(Byte) /\ Len(v) = z /\ \A j \in 1 .. z : v[j] = w[WordSize + 1 + j]
    BY <2>1, <2>2
  <2>4. ASSUME NEW j \in 1 .. z PROVE v[j] = p[j]
    <3>1. WordSize + 1 + j \in 1 .. WordSize + 1 + z
      BY <1>1
    <3> QED  BY <1>1, <1>3, <2>3, <3>1
  <2> QED  BY <1>2, <2>3, <2>4, SameElements DEF z
<1>8. WordSize + 2 = (WordSize + 1) + 1 /\ WordSize + (1 + z) = WordSize + 1 + z
  BY <1>1
<1> QED  BY <1>2, <1>4, <1>5, <1>6, <1>7, <1>8, IDRoundTrip DEF p, z

-----------------------------------------------------------------------------
(* Bits of a byte *)

(* A bit is 0 or 1. *)
LEMMA BitType ==
  ASSUME NEW v \in Nat, NEW k \in Nat
  PROVE  Bit(v, k) \in {0, 1}
<1> DEFINE p == Power(2, k)
<1>1. p \in Nat \ {0}
  BY PowerType
<1>2. v \div p \in Nat
  BY <1>1, DivBounds
<1> HIDE DEF p
<1>3. (v \div p) % 2 \in {0, 1}
  BY <1>2
<1> QED  BY <1>3 DEF Bit, p

(* A number whose bit of weight p is 0, and the same number with p added: the
   quotients by p are 2 h and 2 h + 1, and those by 2 p are both h. *)
LEMMA AddWeight ==
  ASSUME NEW v \in Nat, NEW p \in Nat \ {0}, (v \div p) % 2 = 0
  PROVE  /\ (v + p) \div p = (v \div p) + 1
         /\ (v + p) \div (2 * p) = v \div (2 * p)
<1> DEFINE q == v \div p
           h == q \div 2
<1>1. q \in Nat /\ q * p <= v /\ v < q * p + p /\ q % 2 = 0
  BY DivBounds
<1>2. (v + p) \div p = q + 1
  <2> HIDE DEF q
  <2>1. v + p \in Nat /\ q + 1 \in Int
    BY <1>1
  <2>2. (q + 1) * p = q * p + p /\ q * p \in Nat
    BY <1>1
  <2>3. (q + 1) * p <= v + p /\ v + p < (q + 1) * p + p
    BY <1>1, <2>2
  <2> QED  BY <2>1, <2>3, DivUnique
<1> HIDE DEF q
<1>3. h \in Nat /\ q = 2 * h
  BY <1>1
<1> HIDE DEF h
<1> DEFINE z == 2 * p
<1>4. z \in Nat \ {0} /\ z = p + p
  OBVIOUS
<1>5. h * z = q * p
  BY <1>3
<1> HIDE DEF z
<1>6. h * z <= v /\ v + p < h * z + z /\ v < h * z + z /\ h * z <= v + p /\ v + p \in Nat
  <2> DEFINE y == q * p
  <2>1. y \in Nat /\ y <= v /\ v < y + p
    BY <1>1
  <2> HIDE DEF y
  <2>2. y <= v /\ v + p < y + z /\ v < y + z /\ y <= v + p /\ v + p \in Nat
    BY <1>4, <2>1
  <2> QED  BY <1>5, <2>2 DEF y
<1>7. v \div z = h /\ (v + p) \div z = h
  BY <1>3, <1>4, <1>6, DivUnique
<1> QED  BY <1>2, <1>7 DEF q, z

(* Adding a multiple adds to the quotient. *)
LEMMA AddMultiple ==
  ASSUME NEW v \in Nat, NEW p \in Nat \ {0}, NEW e \in Nat
  PROVE  (v + e * p) \div p = (v \div p) + e
<1> DEFINE q == v \div p
           y == e * p
<1>1. q \in Nat /\ q * p <= v /\ v < q * p + p
  BY DivBounds
<1>2. y \in Nat
  OBVIOUS
<1> HIDE DEF q
<1>3. (q + e) * p = q * p + y /\ q * p \in Nat
  BY <1>1
<1> HIDE DEF y
<1>4. (q + e) * p <= v + y /\ v + y < (q + e) * p + p
  BY <1>1, <1>2, <1>3
<1>5. v + y \in Nat /\ q + e \in Int
  BY <1>1, <1>2
<1>6. (v + y) \div p = q + e
  BY <1>4, <1>5, DivUnique
<1> QED  BY <1>6 DEF q, y

(* Adding the weight of a bit that is 0 sets that bit, leaves every other bit as
   it was, and stays within the byte. *)
LEMMA AddBit ==
  ASSUME NEW v \in Byte, NEW k \in 0 .. Bits - 1, Bit(v, k) = 0
  PROVE  /\ v + Power(2, k) \in Byte
         /\ Bit(v + Power(2, k), k) = 1
         /\ \A j \in 0 .. Bits - 1 : j # k => Bit(v + Power(2, k), j) = Bit(v, j)
<1> DEFINE p == Power(2, k)
<1>0. Bits \in Nat \ {0} /\ k \in Nat /\ v \in Nat /\ Base \in Nat \ {0}
  BY WireAssumption, BaseFacts
<1>1. p \in Nat \ {0} /\ (v \div p) % 2 = 0
  BY <1>0, PowerType DEF Bit
<1> HIDE DEF p
<1>2. (v + p) \div p = (v \div p) + 1 /\ (v + p) \div (2 * p) = v \div (2 * p)
  BY <1>0, <1>1, AddWeight
<1>3. Power(2, k + 1) = 2 * p
  BY <1>0, PowerStep DEF p
<1>4. 2 * p \in Nat \ {0} /\ v + p \in Nat
  BY <1>0, <1>1
<1>5. v + p \in Byte
  <2> DEFINE f == Power(2, Bits - (k + 1))
             z == 2 * p
             h == v \div z
  <2>1. f \in Nat \ {0} /\ Base = z * f
    <3>1. Bits - (k + 1) \in Nat /\ k + 1 \in Nat /\ (k + 1) + (Bits - (k + 1)) = Bits
      BY <1>0
    <3>2. Power(2, (k + 1) + (Bits - (k + 1))) = Power(2, k + 1) * f
      BY <3>1, PowerSum
    <3> QED  BY <1>3, <3>1, <3>2, PowerType DEF Base
  <2>2. z \in Nat \ {0}
    BY <1>4
  <2> HIDE DEF f, z
  <2>3. h \in Nat /\ h * z <= v
    BY <1>0, <2>2, DivBounds
  <2>4. v + p < h * z + z
    <3>1. (v + p) \div z = h
      BY <1>2 DEF z
    <3> HIDE DEF h
    <3>2. v + p < ((v + p) \div z) * z + z
      BY <1>4, <2>2, DivBounds
    <3> QED  BY <3>1, <3>2
  <2> HIDE DEF h
  <2>5. v < f * z
    <3>1. v < Base /\ z * f = f * z
      BY <1>0, <2>1, <2>2 DEF Byte
    <3> QED  BY <2>1, <3>1
  <2>6. h < f
    <3>1. SUFFICES ASSUME f <= h PROVE FALSE
      BY <2>1, <2>3
    <3>2. \A x, y \in Nat : x <= y => x * z <= y * z
      BY <2>2
    <3>3. f * z <= h * z /\ f * z \in Nat /\ h * z \in Nat
      BY <2>1, <2>2, <2>3, <3>1, <3>2
    <3> QED  BY <1>0, <2>3, <2>5, <3>3
  <2>7. h * z + z <= f * z
    <3>1. \A x, y \in Nat : x <= y => x * z <= y * z
      BY <2>2
    <3>2. h + 1 \in Nat /\ h + 1 <= f /\ (h + 1) * z = h * z + z
      BY <2>1, <2>2, <2>3, <2>6
    <3> QED  BY <2>1, <3>1, <3>2
  <2>8. f * z = Base /\ h * z \in Nat
    BY <2>1, <2>2, <2>3
  <2>9. v + p < Base
    <3> DEFINE y == h * z
    <3>1. y \in Nat /\ v + p < y + z /\ y + z <= Base
      BY <2>4, <2>7, <2>8
    <3> HIDE DEF y
    <3> QED  BY <1>0, <1>4, <2>2, <3>1
  <2> QED  BY <1>0, <1>4, <2>9 DEF Byte
<1>6. Bit(v + p, k) = 1
  <2> DEFINE q == v \div p
  <2>1. q \in Nat /\ q % 2 = 0
    BY <1>0, <1>1, DivBounds
  <2> HIDE DEF q
  <2>2. (q + 1) % 2 = 1
    BY <2>1
  <2> QED  BY <1>2, <2>2 DEF Bit, p, q
<1>7. ASSUME NEW j \in 0 .. Bits - 1, j # k
      PROVE  Bit(v + p, j) = Bit(v, j)
  <2>1. CASE j > k
    <3> DEFINE e == Power(2, j - (k + 1))
               z == 2 * p
    <3>1. j - (k + 1) \in Nat /\ k + 1 \in Nat /\ (k + 1) + (j - (k + 1)) = j
      BY <1>0, <2>1
    <3>2. e \in Nat \ {0} /\ Power(2, j) = z * e
      <4>1. Power(2, (k + 1) + (j - (k + 1))) = Power(2, k + 1) * e
        BY <3>1, PowerSum
      <4> QED  BY <1>3, <3>1, <4>1, PowerType
    <3>3. z \in Nat \ {0} /\ (v + p) \div z = v \div z
      BY <1>2, <1>4
    <3> HIDE DEF e, z
    <3>4. z * e = e * z
      BY <3>2, <3>3
    <3>5. (v + p) \div (e * z) = ((v + p) \div z) \div e /\ v \div (e * z) = (v \div z) \div e
      <4> DEFINE u == v + p
      <4>1. u \in Nat
        BY <1>4
      <4> HIDE DEF u
      <4>2. (u \div z) \div e = u \div (e * z)
        BY <3>2, <3>3, <4>1, DivTwice, Zenon
      <4>3. (v \div z) \div e = v \div (e * z)
        BY <1>0, <3>2, <3>3, DivTwice, Zenon
      <4> QED  BY <4>2, <4>3 DEF u
    <3> QED  BY <3>2, <3>3, <3>4, <3>5 DEF Bit
  <2>2. CASE j < k
    <3> DEFINE e == Power(2, k - (j + 1))
               z == Power(2, j)
    <3>1. k - (j + 1) \in Nat /\ j \in Nat /\ j + 1 \in Nat /\ (j + 1) + (k - (j + 1)) = k
      BY <1>0, <2>2
    <3>2. e \in Nat /\ z \in Nat \ {0}
      BY <3>1, PowerType
    <3>3. p = (2 * z) * e
      <4>1. Power(2, (j + 1) + (k - (j + 1))) = Power(2, j + 1) * e
        BY <3>1, PowerSum
      <4>2. Power(2, j + 1) = 2 * z
        BY <3>1, PowerStep
      <4> QED  BY <3>1, <4>1, <4>2 DEF p
    <3> HIDE DEF e, z
    <3>4. (2 * z) * e = (2 * e) * z /\ 2 * e \in Nat
      BY <3>2
    <3>5. (v + p) \div z = (v \div z) + 2 * e
      <4> DEFINE d == 2 * e
      <4>1. d \in Nat /\ p = d * z
        BY <3>3, <3>4
      <4> HIDE DEF d
      <4>2. (v + d * z) \div z = (v \div z) + d
        BY <1>0, <3>2, <4>1, AddMultiple
      <4> QED  BY <4>1, <4>2 DEF d
    <3>6. \A x \in Nat : (x + 2 * e) % 2 = x % 2
      BY <3>2
    <3>7. v \div z \in Nat
      BY <1>0, <3>2, DivBounds
    <3> QED  BY <3>5, <3>6, <3>7 DEF Bit, z
  <2> QED  BY <1>0, <1>7, <2>1, <2>2
<1> QED  BY <1>5, <1>6, <1>7 DEF p

-----------------------------------------------------------------------------
(* Bitfields *)

(* The byte and the bit of a piece. *)
Place(i) == <<i \div Bits + 1, BitOffset(i)>>

(* The bitfield bf has the bits of the pieces S and no other. *)
Represents(bf, S) ==
  /\ bf \in Seq(Byte) /\ Len(bf) = BitfieldSize
  /\ BitsOf(bf) = {Place(i) : i \in S}

(* Every piece has its place in a bitfield. *)
LEMMA PlaceType ==
  ASSUME NEW i \in Piece
  PROVE  /\ i \in Nat /\ i \div Bits \in Nat /\ i \div Bits < BitfieldSize
         /\ BitOffset(i) \in 0 .. Bits - 1 /\ BitfieldSize \in Nat
         /\ Place(i) \in (1 .. BitfieldSize) \X (0 .. Bits - 1)
<1> DEFINE n == PieceCount + Bits - 1
           q == i \div Bits
           z == n \div Bits
<1>1. Bits \in Nat \ {0} /\ PieceCount \in Nat \ {0} /\ i \in Nat /\ i + Bits <= n /\ n \in Nat
  BY WireAssumption DEF Piece
<1>2. q \in Nat /\ q * Bits <= i /\ i % Bits \in 0 .. Bits - 1
  BY <1>1, DivBounds
<1> HIDE DEF n
<1>3. z \in Nat /\ n < z * Bits + Bits
  BY <1>1, DivBounds
<1> HIDE DEF q, z
<1>4. q < z
  <2>1. SUFFICES ASSUME z <= q PROVE FALSE
    BY <1>2, <1>3
  <2>2. \A x, y \in Nat : x <= y => x * Bits <= y * Bits
    BY <1>1
  <2>3. z * Bits <= q * Bits /\ z * Bits \in Nat /\ q * Bits \in Nat
    BY <1>1, <1>2, <1>3, <2>1, <2>2
  <2> QED  BY <1>1, <1>2, <1>3, <2>3
<1>5. BitfieldSize = z
  BY DEF BitfieldSize, z, n
<1>6. BitOffset(i) \in 0 .. Bits - 1
  BY <1>1, <1>2 DEF BitOffset
<1>7. q + 1 \in 1 .. z
  BY <1>2, <1>3, <1>4
<1> QED  BY <1>1, <1>2, <1>3, <1>4, <1>5, <1>6, <1>7 DEF q, Place

(* No two pieces share a place. *)
LEMMA PlaceInjective ==
  ASSUME NEW i \in Piece, NEW j \in Piece, Place(i) = Place(j)
  PROVE  i = j
<1>1. i \div Bits + 1 = j \div Bits + 1 /\ BitOffset(i) = BitOffset(j)
  BY DEF Place
<1>2. Bits \in Nat \ {0} /\ i \in Nat /\ j \in Nat
  BY PlaceType, WireAssumption
<1> DEFINE a == i \div Bits
           b == j \div Bits
           c == i % Bits
           d == j % Bits
<1>3. a \in Nat /\ b \in Nat /\ c \in 0 .. Bits - 1 /\ d \in 0 .. Bits - 1
      /\ i = Bits * a + c /\ j = Bits * b + d
  BY <1>2, DivBounds
<1>4. a + 1 = b + 1 /\ Bits - 1 - c = Bits - 1 - d
  BY <1>1 DEF BitOffset
<1> HIDE DEF a, b, c, d
<1>5. a = b /\ c = d
  BY <1>2, <1>3, <1>4
<1> QED  BY <1>3, <1>5

(* HasPiece looks at the place of the piece. *)
LEMMA HasPiecePlace ==
  ASSUME NEW bf \in Seq(Byte), Len(bf) = BitfieldSize, NEW i \in Piece
  PROVE  HasPiece(bf, i) <=> Place(i) \in BitsOf(bf)
<1>1. i \div Bits < Len(bf) /\ Place(i) \in (1 .. Len(bf)) \X (0 .. Bits - 1)
  BY PlaceType
<1>2. Place(i)[1] = i \div Bits + 1 /\ Place(i)[2] = BitOffset(i)
  BY DEF Place
<1>3. Place(i) \in BitsOf(bf) <=> Bit(bf[Place(i)[1]], Place(i)[2]) = 1
  BY <1>1, Zenon DEF BitsOf
<1> QED  BY <1>1, <1>2, <1>3, Zenon DEF HasPiece

(* SetPiece adds the place of the piece and nothing else. *)
LEMMA SetPieceBits ==
  ASSUME NEW bf \in Seq(Byte), Len(bf) = BitfieldSize, NEW i \in Piece
  PROVE  /\ SetPiece(bf, i) \in Seq(Byte) /\ Len(SetPiece(bf, i)) = BitfieldSize
         /\ BitsOf(SetPiece(bf, i)) = BitsOf(bf) \cup {Place(i)}
<1> DEFINE c == i \div Bits + 1
           o == BitOffset(i)
           new == [bf EXCEPT ![c] = @ + Power(2, o)]
<1>1. /\ ~(i \div Bits >= Len(bf)) /\ c \in 1 .. Len(bf) /\ o \in 0 .. Bits - 1
      /\ Len(bf) \in Nat /\ bf[c] \in Byte /\ Place(i) = <<c, o>>
  <2>1. i \div Bits \in Nat /\ BitfieldSize \in Nat /\ i \div Bits < BitfieldSize
        /\ o \in 0 .. Bits - 1
    BY PlaceType
  <2>2. c \in 1 .. Len(bf)
    BY <2>1
  <2>3. Place(i) = <<c, o>>
    BY DEF Place
  <2> HIDE DEF c, o
  <2> QED  BY <2>1, <2>2, <2>3
<1>2. CASE HasPiece(bf, i)
  <2>1. SetPiece(bf, i) = bf
    BY <1>2 DEF SetPiece
  <2>2. Place(i) \in BitsOf(bf)
    BY <1>2, HasPiecePlace
  <2> QED  BY <2>1, <2>2
<1>3. CASE ~HasPiece(bf, i)
  <2>1. SetPiece(bf, i) = new
    BY <1>1, <1>3, Zenon DEF SetPiece
  <2>2. Bit(bf[c], o) = 0
    <3>1. Bit(bf[c], o) # 1
      <4>1. i \div Bits < Len(bf)
        BY PlaceType
      <4> QED  BY <1>3, <4>1, Zenon DEF HasPiece
    <3>2. bf[c] \in Nat /\ o \in Nat
      <4> HIDE DEF c, o
      <4>1. bf[c] \in Nat
        BY <1>1, BaseFacts
      <4>2. o \in Nat
        BY <1>1, WireAssumption
      <4> QED  BY <4>1, <4>2
    <3> HIDE DEF c, o
    <3> QED  BY <3>1, <3>2, BitType
  <2> HIDE DEF c, o
  <2>3. /\ bf[c] + Power(2, o) \in Byte
        /\ Bit(bf[c] + Power(2, o), o) = 1
        /\ \A j \in 0 .. Bits - 1 : j # o => Bit(bf[c] + Power(2, o), j) = Bit(bf[c], j)
    BY <1>1, <2>2, AddBit
  <2>4. new \in Seq(Byte) /\ Len(new) = Len(bf)
    BY <1>1, <2>3
  <2>5. new[c] = bf[c] + Power(2, o) /\ \A k \in 1 .. Len(bf) : k # c => new[k] = bf[k]
    BY <1>1
  <2> HIDE DEF new
  <2>6. \A k \in 1 .. Len(bf), j \in 0 .. Bits - 1 :
          Bit(new[k], j) = 1 <=> Bit(bf[k], j) = 1 \/ (k = c /\ j = o)
    BY <1>1, <2>3, <2>5
  <2>7. BitsOf(new) = BitsOf(bf) \cup {<<c, o>>}
    <3>1. \A k \in 1 .. Len(bf), j \in 0 .. Bits - 1 :
            <<k, j>> \in BitsOf(new) <=> <<k, j>> \in BitsOf(bf) \/ <<k, j>> = <<c, o>>
      BY <2>4, <2>6 DEF BitsOf
    <3>2. BitsOf(new) \subseteq (1 .. Len(bf)) \X (0 .. Bits - 1)
      BY <2>4 DEF BitsOf
    <3>3. BitsOf(bf) \subseteq (1 .. Len(bf)) \X (0 .. Bits - 1)
      BY DEF BitsOf
    <3>4. <<c, o>> \in (1 .. Len(bf)) \X (0 .. Bits - 1)
      BY <1>1
    <3>5. \A x \in (1 .. Len(bf)) \X (0 .. Bits - 1) :
            \E k \in 1 .. Len(bf), j \in 0 .. Bits - 1 : x = <<k, j>>
      OBVIOUS
    <3> QED  BY <3>1, <3>2, <3>3, <3>4, <3>5
  <2> QED  BY <1>1, <2>1, <2>4, <2>7
<1> QED  BY <1>2, <1>3

(* A bitfield that represents a set of pieces has these pieces. *)
LEMMA RepresentsPieces ==
  ASSUME NEW S \in SUBSET Piece, NEW bf, Represents(bf, S)
  PROVE  {i \in Piece : HasPiece(bf, i)} = S
<1>1. ASSUME NEW i \in Piece PROVE HasPiece(bf, i) <=> i \in S
  <2>1. HasPiece(bf, i) <=> Place(i) \in BitsOf(bf)
    BY HasPiecePlace DEF Represents
  <2>2. HasPiece(bf, i) <=> \E j \in S : Place(i) = Place(j)
    BY <2>1 DEF Represents
  <2> QED  BY <2>2, PlaceInjective
<1> QED  BY <1>1

(* And it counts them. *)
LEMMA RepresentsCount ==
  ASSUME NEW S \in SUBSET Piece, NEW bf, Represents(bf, S)
  PROVE  Count(bf) = Cardinality(S)
<1> DEFINE T == {Place(i) : i \in S}
           f == [i \in S |-> Place(i)]
<1>1. IsFiniteSet(S)
  <2>1. 0 \in Int /\ PieceCount - 1 \in Int
    BY WireAssumption
  <2>2. IsFiniteSet(0 .. PieceCount - 1)
    BY <2>1, FS_Interval
  <2> QED  BY <2>2, FS_Subset DEF Piece
<1>2. f \in [S -> T]
  OBVIOUS
<1>3. \A i, j \in S : f[i] = f[j] => i = j
  BY PlaceInjective
<1>4. \A t \in T : \E i \in S : f[i] = t
  OBVIOUS
<1>5. f \in Bijection(S, T)
  <2> HIDE DEF f, T
  <2> QED  BY <1>2, <1>3, <1>4 DEF Bijection, Injection, IsInjective, Surjection
<1>6. ExistsBijection(S, T)
  BY <1>5 DEF ExistsBijection
<1> HIDE DEF T
<1>7. Cardinality(T) = Cardinality(S)
  BY <1>1, <1>6, FS_Bijection
<1> QED  BY <1>7 DEF Represents, Count, T

(* SetPiece marks one more. *)
LEMMA RepresentsSetPiece ==
  ASSUME NEW S \in SUBSET Piece, NEW bf, Represents(bf, S), NEW i \in Piece
  PROVE  Represents(SetPiece(bf, i), S \cup {i})
<1>1. /\ SetPiece(bf, i) \in Seq(Byte) /\ Len(SetPiece(bf, i)) = BitfieldSize
      /\ BitsOf(SetPiece(bf, i)) = BitsOf(bf) \cup {Place(i)}
  BY SetPieceBits DEF Represents
<1>2. BitsOf(bf) = {Place(j) : j \in S}
  BY DEF Represents
<1>3. {Place(j) : j \in S} \cup {Place(i)} = {Place(j) : j \in S \cup {i}}
  OBVIOUS
<1> QED  BY <1>1, <1>2, <1>3 DEF Represents

(* The bitfield without a bit represents nothing. *)
LEMMA RepresentsNothing == Represents(EmptyBitfield, {})
<1>1. BitfieldSize \in Nat
  <2>1. 0 \in Piece
    BY WireAssumption DEF Piece
  <2> QED  BY <2>1, PlaceType
<1>2. 0 \in Byte
  BY BaseFacts DEF Byte
<1>3. EmptyBitfield \in [1 .. BitfieldSize -> Byte]
  BY <1>2 DEF EmptyBitfield
<1>4. EmptyBitfield \in Seq(Byte) /\ Len(EmptyBitfield) = BitfieldSize
  BY <1>1, <1>3
<1>5. ASSUME NEW x \in BitsOf(EmptyBitfield) PROVE FALSE
  <2>1. x[1] \in 1 .. BitfieldSize /\ x[2] \in 0 .. Bits - 1 /\ Bit(EmptyBitfield[x[1]], x[2]) = 1
    BY <1>4 DEF BitsOf
  <2>2. EmptyBitfield[x[1]] = 0 /\ x[2] \in Nat
    BY <2>1 DEF EmptyBitfield
  <2>3. Power(2, x[2]) \in Nat \ {0}
    BY <2>2, PowerType
  <2>4. \A p \in Nat \ {0} : (0 \div p) % 2 = 0
    OBVIOUS
  <2>5. Bit(0, x[2]) = 0
    BY <2>3, <2>4 DEF Bit
  <2> QED  BY <2>1, <2>2, <2>5
<1> QED  BY <1>4, <1>5 DEF Represents

-----------------------------------------------------------------------------
(* The stream *)

(* Behind the first e bytes there is nothing; or, once the sender is closed, a
   frame that was cut off. *)
Tailing(w, e, st) ==
  \/ e = Len(w)
  \/ /\ st = "closed"
     /\ \E m \in Msgs : /\ Len(w) - e < Len(Serialize(m))
                        /\ \A j \in 1 .. Len(w) - e : w[e + j] = Serialize(m)[j]

(* The stream w: b bytes of something else, the messages of s behind the first r,
   and what was cut off. *)
Stream(w, s, r, b, st) ==
  \E pos : Layout(w, s, r, pos) /\ pos[r] = b /\ Tailing(w, pos[Len(s)], st)

(* Before the first message there is only the handshake. *)
LEMMA StreamStart ==
  ASSUME NEW w \in Seq(Byte), NEW st
  PROVE  Stream(w, <<>>, 0, Len(w), st)
<1> DEFINE pos == [k \in 0 .. 0 |-> Len(w)]
<1>1. Len(w) \in Nat /\ Len(<<>>) = 0
  OBVIOUS
<1>2. Layout(w, <<>>, 0, pos)
  BY <1>1 DEF Layout
<1>3. pos[0] = Len(w)
  OBVIOUS
<1>4. Tailing(w, pos[Len(<<>>)], st)
  BY <1>1, <1>3 DEF Tailing
<1> HIDE DEF pos
<1> QED  BY <1>2, <1>3, <1>4 DEF Stream

(* A whole message is written. *)
LEMMA StreamWrite ==
  ASSUME NEW w \in Seq(Byte), NEW s \in Seq(Msgs), NEW r \in 0 .. Len(s), NEW b,
         NEW st, st # "closed", Stream(w, s, r, b, st), NEW m \in Msgs, NEW after
  PROVE  Stream(w \o Serialize(m), Append(s, m), r, b, after)
<1>1. PICK pos : Layout(w, s, r, pos) /\ pos[r] = b /\ Tailing(w, pos[Len(s)], st)
  BY DEF Stream
<1>2. pos[Len(s)] = Len(w)
  BY <1>1 DEF Tailing
<1>3. PICK new : /\ Layout(w \o Serialize(m), Append(s, m), r, new)
                 /\ new[r] = pos[r]
                 /\ new[Len(s) + 1] = Len(w \o Serialize(m))
  BY <1>1, <1>2, LayoutAppend
<1>4. Len(Append(s, m)) = Len(s) + 1
  OBVIOUS
<1>5. Tailing(w \o Serialize(m), new[Len(Append(s, m))], after)
  BY <1>3, <1>4 DEF Tailing
<1> QED  BY <1>1, <1>3, <1>5 DEF Stream

(* A write is cut off, and the sender closes. *)
LEMMA StreamCut ==
  ASSUME NEW w \in Seq(Byte), NEW s \in Seq(Msgs), NEW r \in 0 .. Len(s), NEW b,
         NEW st, st # "closed", Stream(w, s, r, b, st), NEW m \in Msgs,
         NEW n \in 0 .. Len(Serialize(m)) - 1
  PROVE  Stream(w \o SubSeq(Serialize(m), 1, n), s, r, b, "closed")
<1> DEFINE f == Serialize(m)
           x == SubSeq(f, 1, n)
           y == w \o x
<1>1. PICK pos : Layout(w, s, r, pos) /\ pos[r] = b /\ Tailing(w, pos[Len(s)], st)
  BY DEF Stream
<1>2. pos[Len(s)] = Len(w)
  BY <1>1 DEF Tailing
<1>3. f \in Seq(Byte) /\ n \in Nat /\ n < Len(f) /\ Len(w) \in Nat
  BY SerializeParts
<1>4. x \in Seq(Byte) /\ Len(x) = n /\ \A j \in 1 .. n : x[j] = f[j]
  <2> HIDE DEF f
  <2>1. n <= Len(f)
    BY <1>3
  <2> QED  BY <1>3, <2>1, PrefixElements
<1> HIDE DEF x
<1>5. Layout(y, s, r, pos)
  BY <1>1, <1>4, LayoutLonger
<1>6. Len(y) = Len(w) + n /\ \A j \in 1 .. n : y[Len(w) + j] = x[j]
  BY <1>4, ConcatElements
<1> HIDE DEF y, f
<1>7. Len(y) - Len(w) = n
  BY <1>3, <1>6
<1>8. Tailing(y, pos[Len(s)], "closed")
  <2>1. /\ Len(y) - Len(w) < Len(f)
        /\ \A j \in 1 .. Len(y) - Len(w) : y[Len(w) + j] = f[j]
    BY <1>3, <1>4, <1>6, <1>7
  <2> QED  BY <1>2, <2>1 DEF Tailing, f
<1> QED  BY <1>1, <1>5, <1>8 DEF Stream, y, x, f

(* Reading up to the end of a frame leaves the stream of the messages behind it. *)
LEMMA StreamAdvance ==
  ASSUME NEW w \in Seq(Byte), NEW s \in Seq(Msgs), NEW r \in 0 .. Len(s), NEW pos,
         Layout(w, s, r, pos), NEW q \in r .. Len(s), NEW st, Tailing(w, pos[Len(s)], st)
  PROVE  Stream(SubSeq(w, pos[q] + 1, Len(w)), s, q, 0, st)
<1> DEFINE d == pos[q]
           e == pos[Len(s)]
           y == SubSeq(w, d + 1, Len(w))
<1>1. PICK new : Layout(y, s, q, new) /\ new[q] = 0 /\ new[Len(s)] = e - d
  BY LayoutDrop
<1>2. Len(w) \in Nat /\ d \in 0 .. Len(w) /\ e \in d .. Len(w)
  <2>1. q \in r .. Len(s) /\ Len(s) \in r .. Len(s) /\ q <= Len(s) /\ Len(w) \in Nat
    OBVIOUS
  <2>2. pos[q] <= pos[Len(s)] /\ pos[q] \in 0 .. Len(w) /\ pos[Len(s)] \in 0 .. Len(w)
    BY <2>1 DEF Layout
  <2> QED  BY <2>1, <2>2
<1> HIDE DEF d, e
<1>3. Len(y) = Len(w) - d /\ \A j \in 1 .. Len(w) - d : y[j] = w[d + j]
  BY <1>2, PartElements
<1> HIDE DEF y
<1>4. Tailing(w, e, st)
  BY DEF e
<1>5. Tailing(y, e - d, st)
  <2>1. CASE e = Len(w)
    BY <1>3, <2>1 DEF Tailing
  <2>2. CASE e # Len(w)
    <3>1. st = "closed"
      BY <1>4, <2>2 DEF Tailing
    <3>2. PICK m \in Msgs : /\ Len(w) - e < Len(Serialize(m))
                            /\ \A j \in 1 .. Len(w) - e : w[e + j] = Serialize(m)[j]
      BY <1>4, <2>2 DEF Tailing
    <3>3. Len(y) - (e - d) = Len(w) - e
      BY <1>2, <1>3
    <3>4. ASSUME NEW j \in 1 .. Len(w) - e PROVE y[e - d + j] = Serialize(m)[j]
      <4>1. e - d + j \in 1 .. Len(w) - d /\ d + (e - d + j) = e + j
        BY <1>2
      <4> QED  BY <1>3, <3>2, <4>1
    <3> QED  BY <3>1, <3>2, <3>3, <3>4 DEF Tailing
  <2> QED  BY <2>1, <2>2
<1> QED  BY <1>1, <1>5 DEF Stream, y, d

(* What stands in front is read. *)
LEMMA StreamSkip ==
  ASSUME NEW w \in Seq(Byte), NEW s \in Seq(Msgs), NEW r \in 0 .. Len(s), NEW b,
         NEW st, Stream(w, s, r, b, st)
  PROVE  Stream(SubSeq(w, b + 1, Len(w)), s, r, 0, st)
<1>1. PICK pos : Layout(w, s, r, pos) /\ pos[r] = b /\ Tailing(w, pos[Len(s)], st)
  BY DEF Stream
<1> QED  BY <1>1, StreamAdvance

(* The reader takes a whole message off the stream only when there is one, and
   takes the next message that was sent: a frame that was cut off announces more
   bytes than there are. *)
LEMMA StreamRead ==
  ASSUME NEW w \in Seq(Byte), NEW s \in Seq(Msgs), NEW r \in 0 .. Len(s),
         NEW st, Stream(w, s, r, 0, st),
         Len(w) >= WordSize,
         NEW n, n = Uint(SubSeq(w, 1, WordSize)),
         Len(w) >= WordSize + n
  PROVE  /\ r < Len(s)
         /\ n = 1 + Len(s[r + 1].Payload)
         /\ IDOf(w[WordSize + 1]) = s[r + 1].ID
         /\ SubSeq(w, WordSize + 2, WordSize + n) = s[r + 1].Payload
         /\ Stream(SubSeq(w, WordSize + n + 1, Len(w)), s, r + 1, 0, st)
<1>1. PICK pos : Layout(w, s, r, pos) /\ pos[r] = 0 /\ Tailing(w, pos[Len(s)], st)
  BY DEF Stream
<1>2. WordSize \in Nat \ {0} /\ Len(w) \in Nat /\ Len(s) \in Nat /\ r \in Nat
  BY WireAssumption
<1>3. r < Len(s)
  <2>1. SUFFICES ASSUME r = Len(s) PROVE FALSE
    BY <1>2
  <2>2. Len(w) # 0
    BY <1>2
  <2>3. PICK m \in Msgs : /\ Len(w) - 0 < Len(Serialize(m))
                          /\ \A j \in 1 .. Len(w) - 0 : w[0 + j] = Serialize(m)[j]
    BY <1>1, <2>1, <2>2 DEF Tailing
  <2> DEFINE f == Serialize(m)
  <2>4. Len(f) = WordSize + 1 + Len(m.Payload) /\ Len(m.Payload) \in Nat
    BY SerializeParts
  <2> HIDE DEF f
  <2>5. Len(w) < Len(f) /\ \A j \in 1 .. WordSize : w[j] = f[j]
    <3>1. Len(w) - 0 = Len(w) /\ \A j \in 1 .. WordSize : j \in 1 .. Len(w) /\ 0 + j = j
      BY <1>2
    <3> QED  BY <2>3, <3>1 DEF f
  <2>6. n = 1 + Len(m.Payload)
    BY <2>5, ReadLength DEF f
  <2> DEFINE z == Len(m.Payload)
  <2>7. z \in Nat /\ n = 1 + z /\ Len(w) < WordSize + 1 + z /\ Len(w) >= WordSize + (1 + z)
    BY <2>4, <2>5, <2>6
  <2> HIDE DEF z
  <2> QED  BY <1>2, <2>7
<1> DEFINE m == s[r + 1]
           q == r + 1
<1>4. m \in Msgs /\ q \in r .. Len(s) /\ q \in r + 1 .. Len(s) /\ q - 1 = r
  BY <1>2, <1>3
<1>5. pos[q] = Len(Serialize(m)) /\ FrameAt(w, 0, Serialize(m))
  <2>1. pos[q] = pos[q - 1] + Len(Serialize(m)) /\ FrameAt(w, pos[q - 1], Serialize(m))
    BY <1>1, <1>4 DEF Layout
  <2>2. Len(Serialize(m)) \in Nat
    BY <1>4, SerializeParts
  <2> QED  BY <1>1, <1>4, <2>1, <2>2
<1> HIDE DEF m
<1>6. /\ n = 1 + Len(m.Payload)
      /\ IDOf(w[WordSize + 1]) = m.ID
      /\ SubSeq(w, WordSize + 2, WordSize + n) = m.Payload
  BY <1>4, <1>5, ReadFrame
<1>7. pos[q] = WordSize + n
  <2>1. Len(Serialize(m)) = WordSize + 1 + Len(m.Payload) /\ Len(m.Payload) \in Nat
    BY <1>4, SerializeParts
  <2> DEFINE z == Len(m.Payload)
  <2>2. z \in Nat /\ n = 1 + z /\ pos[q] = WordSize + 1 + z
    BY <1>5, <1>6, <2>1
  <2> HIDE DEF z, q
  <2> QED  BY <1>2, <2>2
<1>8. Stream(SubSeq(w, pos[q] + 1, Len(w)), s, q, 0, st)
  BY <1>1, <1>4, StreamAdvance
<1> QED  BY <1>3, <1>6, <1>7, <1>8 DEF m

(* Bytes taken together are a number. *)
LEMMA UintType ==
  ASSUME NEW w \in Seq(Byte)
  PROVE  Uint(w) \in Nat
<1> DEFINE z == Len(w)
           F == CHOOSE f : f = [k \in 0 .. Len(w) |->
                                  IF k = 0 THEN 0 ELSE f[k - 1] * Base + w[k]]
<1>0. z \in Nat /\ Base \in Nat /\ \A k \in 1 .. z : w[k] \in Nat
  <2>1. z \in Nat /\ \A k \in 1 .. z : w[k] \in Byte
    OBVIOUS
  <2> QED  BY <2>1, BaseFacts
<1>1. Horner(F, w, z) /\ Uint(w) = F[z]
  <2>1. \E f : f = [k \in 0 .. Len(w) |-> IF k = 0 THEN 0 ELSE f[k - 1] * Base + w[k]]
    BY <1>0, HornerExists DEF Horner
  <2>2. Horner(F, w, Len(w))
    BY <2>1 DEF Horner
  <2>3. Uint(w) = F[Len(w)]
    BY DEF Uint
  <2> QED  BY <2>2, <2>3
<1> HIDE DEF F, z
<1> DEFINE S == {k \in Nat : k <= z => F[k] \in Nat}
<1>2. 0 \in S
  BY <1>0, <1>1 DEF Horner
<1>3. ASSUME NEW k \in S PROVE k + 1 \in S
  <2>1. SUFFICES ASSUME k + 1 <= z PROVE F[k + 1] \in Nat
    OBVIOUS
  <2>2. k + 1 \in 1 .. z /\ k + 1 - 1 = k /\ F[k] \in Nat
    BY <1>0, <2>1
  <2>3. F[k + 1] = F[k + 1 - 1] * Base + w[k + 1]
    BY <1>0, <1>1, <2>2, HornerStep
  <2>4. \A x, y, b \in Nat : x * b + y \in Nat
    OBVIOUS
  <2>5. F[k + 1] = F[k] * Base + w[k + 1] /\ w[k + 1] \in Nat
    BY <1>0, <2>2, <2>3
  <2>6. F[k] * Base + w[k + 1] \in Nat
    BY <1>0, <2>2, <2>4, <2>5, Zenon
  <2> QED  BY <2>5, <2>6, Zenon
<1> HIDE DEF S
<1>4. \A k \in Nat : k \in S
  <2>1. S \in SUBSET Nat
    BY DEF S
  <2> QED  BY <1>2, <1>3, <2>1, Induction
<1> QED  BY <1>0, <1>1, <1>4 DEF S

-----------------------------------------------------------------------------
(* The inductive invariant *)

(* The pieces that were announced by message k. *)
KnownAt(t, k) == IF k = 0 THEN {} ELSE t[k]

(* How message m changes what was announced. *)
Announced(m, before, after) ==
  /\ m.ID = MsgBitfield => Represents(m.Payload, after)
  /\ m.ID = MsgHave => \E i \in Piece : m.Payload = Word(i) /\ after = before \cup {i}
  /\ m.ID \notin {MsgBitfield, MsgHave} => after = before

(* As long as no have was cut off, the reader is in step: the stream holds what it
   has still to read, and its bitfield is what the messages read announced. *)
InStep ==
  /\ received \in Seq(Msgs) /\ Len(received) <= Len(sent)
  /\ \A k \in 1 .. Len(received) : received[k] = sent[k]
  /\ reading = "handshake" =>
       /\ received = <<>>
       /\ \/ stage \in {"dialing", "closed"} /\ sent = <<>> /\ Len(wire) < HandshakeLen
          \/ stage # "dialing" /\ Stream(wire, sent, 0, HandshakeLen, stage)
  /\ reading = "messages" =>
       stage # "dialing" /\ Stream(wire, sent, Len(received), 0, stage)
  /\ reading # "closed" => Represents(bitfield, KnownAt(told, Len(received)))

WireInv ==
  /\ WireTypeOK
  /\ sent \in Seq(Msgs)
  /\ Represents(haveBits, have)
  /\ stage = "dialing" => wire = <<>> /\ sent = <<>>
  /\ \A k \in 1 .. Len(sent) : Announced(sent[k], KnownAt(told, k - 1), told[k])
  /\ ~cut => InStep

(* The messages of the sender have room for their payloads. *)
LEMMA SenderMessages ==
  /\ \A bf, S : Represents(bf, S) => Message(MsgBitfield, bf) \in Msgs
  /\ \A i \in Piece : Message(MsgHave, Word(i)) \in Msgs
  /\ Others \subseteq Msgs
<1>0. WordSize \in Nat \ {0} /\ Power(Base, WordSize) \in Nat
  BY WireAssumption, BaseFacts, PowerType
<1>1. ASSUME NEW bf, NEW S, Represents(bf, S) PROVE Message(MsgBitfield, bf) \in Msgs
  <2>1. bf \in Seq(Byte) /\ 1 + Len(bf) < Power(Base, WordSize)
    BY <1>1, SizesAssumption DEF Represents
  <2> QED  BY <2>1 DEF Message, Msgs, IDs
<1>2. ASSUME NEW i \in Piece PROVE Message(MsgHave, Word(i)) \in Msgs
  <2>1. i \in Nat
    BY PlaceType
  <2>2. Word(i) \in Seq(Byte) /\ Len(Word(i)) = WordSize
    BY <2>1, WordType
  <2>3. 1 + Len(Word(i)) < Power(Base, WordSize)
    BY <1>0, <2>2, SizesAssumption
  <2> QED  BY <2>2, <2>3 DEF Message, Msgs, IDs
<1>3. Message(MsgUnchoke, <<>>) \in Msgs
  <2>1. <<>> \in Seq(Byte) /\ 1 + Len(<<>>) < Power(Base, WordSize)
    <3>1. 1 + 3 * WordSize < Power(Base, WordSize)
      BY SizesAssumption
    <3>2. \A x, y \in Nat : 1 + 3 * x < y => 1 + 0 < y
      OBVIOUS
    <3> QED  BY <1>0, <3>1, <3>2
  <2> QED  BY <2>1 DEF Message, Msgs, IDs
<1>4. Message(MsgRequest, Word(1) \o Word(0) \o Word(1)) \in Msgs
  <2> DEFINE a == Word(1)
             b == Word(0)
             p == (a \o b) \o a
  <2>1. a \in Seq(Byte) /\ Len(a) = WordSize /\ b \in Seq(Byte) /\ Len(b) = WordSize
    BY WordType
  <2> HIDE DEF a, b
  <2>2. a \o b \in Seq(Byte) /\ Len(a \o b) = WordSize + WordSize
    BY <2>1, ConcatElements
  <2>3. p \in Seq(Byte) /\ Len(p) = (WordSize + WordSize) + WordSize
    BY <2>1, <2>2, ConcatElements
  <2> HIDE DEF p
  <2>4. 1 + Len(p) < Power(Base, WordSize)
    BY <1>0, <2>3, SizesAssumption
  <2>5. Message(MsgRequest, p) \in Msgs
    BY <2>3, <2>4 DEF Message, Msgs, IDs
  <2> QED  BY <2>5 DEF p, a, b
<1> QED  BY <1>1, <1>2, <1>3, <1>4 DEF Others

(* What was announced last. *)
LEMMA ToldIsKnown ==
  ASSUME WireTypeOK
  PROVE  /\ Told = KnownAt(told, Len(sent)) /\ Told \in SUBSET Piece
         /\ \A k \in 0 .. Len(sent) : KnownAt(told, k) \in SUBSET Piece
<1>1. told \in Seq(SUBSET Piece) /\ Len(told) = Len(sent) /\ Len(told) \in Nat
  BY DEF WireTypeOK
<1>2. told = <<>> <=> Len(sent) = 0
  BY <1>1
<1>3. \A k \in 1 .. Len(sent) : told[k] \in SUBSET Piece
  BY <1>1
<1>4. Told = KnownAt(told, Len(sent))
  BY <1>1, <1>2 DEF Told, Last, KnownAt
<1>5. \A k \in 0 .. Len(sent) : KnownAt(told, k) \in SUBSET Piece
  BY <1>1, <1>3 DEF KnownAt
<1> QED  BY <1>1, <1>4, <1>5

(* The handshake is made of bytes. *)
LEMMA HandshakeBytes ==
  /\ HandshakeLen = 5
  /\ \A h \in Byte : Handshake(h) \in Seq(Byte) /\ Len(Handshake(h)) = 5
<1>1. 0 \in Byte /\ 1 \in Byte
  BY BaseFacts DEF Byte, MsgRequest
<1> QED  BY <1>1 DEF HandshakeLen, Handshake, Protocol

-----------------------------------------------------------------------------
(* The steps of the sender *)

(* The initial states. *)
LEMMA WireInitInv == WireInit => WireInv
<1> SUFFICES ASSUME WireInit PROVE WireInv
  OBVIOUS
<1>1. /\ stage = "dialing" /\ have = {} /\ haveBits = EmptyBitfield
      /\ told = <<>> /\ sent = <<>> /\ cut = FALSE /\ wire = <<>>
      /\ reading = "handshake" /\ received = <<>> /\ bitfield = EmptyBitfield
  BY DEF WireInit
<1>2. EmptyBitfield \in Seq(Byte) /\ Len(EmptyBitfield) = BitfieldSize
  BY RepresentsNothing DEF Represents
<1>3. WireTypeOK
  <2>1. told \in Seq(SUBSET Piece) /\ Len(told) = Len(sent) /\ wire \in Seq(Byte)
    BY <1>1
  <2> QED  BY <1>1, <1>2, <2>1, Zenon DEF WireTypeOK
<1>4. InStep
  <2>1. KnownAt(told, Len(received)) = {}
    BY <1>1 DEF KnownAt
  <2>2. Len(wire) < HandshakeLen
    BY <1>1, HandshakeBytes
  <2> QED  BY <1>1, <2>1, <2>2, RepresentsNothing DEF InStep
<1> QED  BY <1>1, <1>3, <1>4, RepresentsNothing DEF WireInv

(* What was announced with the messages before does not change when one is
   appended. *)
LEMMA AnnouncedAppend ==
  ASSUME WireInv, NEW m \in Msgs, NEW pieces \in SUBSET Piece, Announced(m, Told, pieces)
  PROVE  LET s == Append(sent, m)
             t == Append(told, pieces)
         IN  /\ s \in Seq(Msgs) /\ t \in Seq(SUBSET Piece) /\ Len(t) = Len(s)
             /\ Len(s) = Len(sent) + 1
             /\ \A k \in 1 .. Len(sent) : s[k] = sent[k]
             /\ \A k \in 0 .. Len(sent) : KnownAt(t, k) = KnownAt(told, k)
             /\ \A k \in 1 .. Len(s) : Announced(s[k], KnownAt(t, k - 1), t[k])
<1> DEFINE s == Append(sent, m)
           t == Append(told, pieces)
           n == Len(sent)
<1>1. sent \in Seq(Msgs) /\ told \in Seq(SUBSET Piece) /\ Len(told) = n /\ n \in Nat
  BY DEF WireInv, WireTypeOK
<1>2. s \in Seq(Msgs) /\ Len(s) = n + 1 /\ s[n + 1] = m /\ \A k \in 1 .. n : s[k] = sent[k]
  BY <1>1
<1>3. t \in Seq(SUBSET Piece) /\ Len(t) = n + 1 /\ t[n + 1] = pieces
      /\ \A k \in 1 .. n : t[k] = told[k]
  BY <1>1
<1>4. Told = KnownAt(told, n)
  BY ToldIsKnown DEF WireInv
<1>5. \A k \in 1 .. n : Announced(sent[k], KnownAt(told, k - 1), told[k])
  BY DEF WireInv
<1> HIDE DEF s, t, n
<1>6. ASSUME NEW k \in 0 .. n PROVE KnownAt(t, k) = KnownAt(told, k)
  <2>1. k = 0 \/ k \in 1 .. n
    BY <1>1
  <2> QED  BY <1>3, <2>1 DEF KnownAt
<1>7. ASSUME NEW k \in 1 .. n + 1 PROVE Announced(s[k], KnownAt(t, k - 1), t[k])
  <2>1. CASE k = n + 1
    <3>1. k - 1 = n /\ n \in 0 .. n
      BY <1>1, <2>1
    <3>2. s[k] = m /\ t[k] = pieces /\ KnownAt(t, k - 1) = Told
      BY <1>2, <1>3, <1>4, <1>6, <2>1, <3>1
    <3> QED  BY <3>2
  <2>2. CASE k # n + 1
    <3>1. k \in 1 .. n /\ k - 1 \in 0 .. n
      BY <1>1, <2>2
    <3>2. s[k] = sent[k] /\ t[k] = told[k] /\ KnownAt(t, k - 1) = KnownAt(told, k - 1)
      BY <1>2, <1>3, <1>6, <3>1
    <3> QED  BY <1>5, <3>1, <3>2
  <2> QED  BY <2>1, <2>2
<1> QED  BY <1>2, <1>3, <1>6, <1>7 DEF s, t, n

(* A message is written whole, the sender is neither dialing nor closed. *)
LEMMA WriteStep ==
  ASSUME WireInv, stage \in {"joined", "running"}, stage' = "running",
         NEW m \in Msgs, NEW pieces \in SUBSET Piece, Announced(m, Told, pieces),
         Write(m, pieces), UNCHANGED <<have, haveBits, cut, readerVars>>
  PROVE  WireInv'
<1>1. /\ wire' = wire \o Serialize(m) /\ sent' = Append(sent, m) /\ told' = Append(told, pieces)
      /\ have' = have /\ haveBits' = haveBits /\ cut' = cut
      /\ reading' = reading /\ received' = received /\ bitfield' = bitfield
  BY DEF Write, Put, readerVars
<1>2. /\ sent' \in Seq(Msgs) /\ told' \in Seq(SUBSET Piece) /\ Len(told') = Len(sent')
      /\ Len(sent') = Len(sent) + 1
      /\ \A k \in 1 .. Len(sent) : sent'[k] = sent[k]
      /\ \A k \in 0 .. Len(sent) : KnownAt(told', k) = KnownAt(told, k)
      /\ \A k \in 1 .. Len(sent') : Announced(sent'[k], KnownAt(told', k - 1), told'[k])
  BY <1>1, AnnouncedAppend
<1>3. wire \in Seq(Byte) /\ sent \in Seq(Msgs) /\ Len(sent) \in Nat
  BY DEF WireInv, WireTypeOK
<1>4. wire' \in Seq(Byte)
  BY <1>1, <1>3, SerializeParts, ConcatElements
<1>5. WireTypeOK'
  BY <1>1, <1>2, <1>4 DEF WireInv, WireTypeOK
<1>6. ASSUME ~cut' PROVE InStep'
  <2>1. InStep
    BY <1>1, <1>6 DEF WireInv
  <2>2. Len(received) \in 0 .. Len(sent)
    BY <1>3, <2>1 DEF InStep
  <2>3. received' \in Seq(Msgs) /\ Len(received') <= Len(sent')
    BY <1>1, <1>2, <1>3, <2>1, <2>2 DEF InStep
  <2>4. \A k \in 1 .. Len(received') : received'[k] = sent'[k]
    <3>1. \A k \in 1 .. Len(received) : k \in 1 .. Len(sent)
      BY <1>3, <2>2
    <3> QED  BY <1>1, <1>2, <2>1, <3>1 DEF InStep
  <2>5. ASSUME reading' = "handshake"
        PROVE  received' = <<>> /\ Stream(wire', sent', 0, HandshakeLen, stage')
    <3>1. received = <<>> /\ Stream(wire, sent, 0, HandshakeLen, stage)
      BY <1>1, <2>1, <2>5 DEF InStep
    <3>2. 0 \in 0 .. Len(sent) /\ stage # "closed"
      BY <1>3
    <3> QED  BY <1>1, <1>3, <3>1, <3>2, StreamWrite
  <2>6. ASSUME reading' = "messages"
        PROVE  Stream(wire', sent', Len(received'), 0, stage')
    <3>1. Stream(wire, sent, Len(received), 0, stage) /\ stage # "closed"
      BY <1>1, <2>1, <2>6 DEF InStep
    <3> QED  BY <1>1, <1>3, <2>2, <3>1, StreamWrite
  <2>7. reading' # "closed" => Represents(bitfield', KnownAt(told', Len(received')))
    BY <1>1, <1>2, <2>1, <2>2 DEF InStep
  <2>8. stage' # "dialing"
    OBVIOUS
  <2>9. (HandshakeLen)' = HandshakeLen
    BY DEF HandshakeLen, Handshake, Protocol
  <2> QED  BY <2>3, <2>4, <2>5, <2>6, <2>7, <2>8, <2>9 DEF InStep
<1> QED  BY <1>1, <1>2, <1>5, <1>6 DEF WireInv

(* A write is cut off: either it was a have, or the sender closes. *)
LEMMA WriteFailsStep ==
  ASSUME WireInv, stage \in {"joined", "running"},
         NEW m \in Msgs, WriteFails(m), UNCHANGED <<have, haveBits, readerVars>>,
         \/ stage' = "closed" /\ cut' = cut
         \/ stage' = stage /\ cut' = TRUE
  PROVE  WireInv'
<1> DEFINE f == Serialize(m)
<1>1. PICK n \in 0 .. Len(f) - 1 : wire' = wire \o SubSeq(f, 1, n)
  BY DEF WriteFails, PutPart, Put
<1>2. /\ sent' = sent /\ told' = told /\ have' = have /\ haveBits' = haveBits
      /\ reading' = reading /\ received' = received /\ bitfield' = bitfield
  BY DEF WriteFails, readerVars
<1>3. wire \in Seq(Byte) /\ sent \in Seq(Msgs) /\ Len(sent) \in Nat
  BY DEF WireInv, WireTypeOK
<1>4. wire' \in Seq(Byte)
  <2>1. f \in Seq(Byte) /\ n \in Nat /\ n <= Len(f)
    BY SerializeParts
  <2> HIDE DEF f
  <2>2. SubSeq(f, 1, n) \in Seq(Byte)
    BY <2>1, PrefixElements
  <2> QED  BY <1>1, <1>3, <2>2, ConcatElements
<1>5. WireTypeOK'
  BY <1>2, <1>4 DEF WireInv, WireTypeOK
<1>6. stage' # "dialing"
  OBVIOUS
<1>7. ASSUME ~cut' PROVE InStep'
  <2>1. InStep /\ stage' = "closed"
    BY <1>7 DEF WireInv
  <2>2. Len(received) \in 0 .. Len(sent) /\ 0 \in 0 .. Len(sent)
    BY <1>3, <2>1 DEF InStep
  <2>3. stage # "closed" /\ stage # "dialing"
    OBVIOUS
  <2>4. reading = "handshake" => Stream(wire', sent, 0, HandshakeLen, "closed")
    <3>1. reading = "handshake" => Stream(wire, sent, 0, HandshakeLen, stage)
      BY <2>1, <2>3 DEF InStep
    <3> QED  BY <1>1, <1>3, <2>2, <2>3, <3>1, StreamCut
  <2>5. reading = "messages" => Stream(wire', sent, Len(received), 0, "closed")
    <3>1. reading = "messages" => Stream(wire, sent, Len(received), 0, stage)
      BY <2>1 DEF InStep
    <3> QED  BY <1>1, <1>3, <2>2, <2>3, <3>1, StreamCut
  <2>6. (HandshakeLen)' = HandshakeLen
    BY DEF HandshakeLen, Handshake, Protocol
  <2> QED  BY <1>2, <2>1, <2>4, <2>5, <2>6 DEF InStep
<1> QED  BY <1>2, <1>5, <1>6, <1>7 DEF WireInv

(* The sender goes on, or closes, without writing. *)
LEMMA QuietStep ==
  ASSUME WireInv, stage \in {"joined", "running"}, stage' \in {"running", "closed"},
         UNCHANGED <<have, haveBits, told, sent, cut, wire, readerVars>>
  PROVE  WireInv'
<1>1. UNCHANGED <<have, haveBits, told, sent, cut, wire, reading, received, bitfield>>
  BY DEF readerVars
<1>2. WireTypeOK' /\ stage' # "dialing"
  BY <1>1 DEF WireInv, WireTypeOK
<1>3. ASSUME ~cut' PROVE InStep'
  <2>1. InStep
    BY <1>1, <1>3 DEF WireInv
  <2>2. ASSUME NEW r, NEW b, Stream(wire, sent, r, b, stage)
        PROVE  Stream(wire, sent, r, b, stage')
    <3>1. stage # "closed"
      OBVIOUS
    <3> QED  BY <2>2, <3>1 DEF Stream, Tailing
  <2>3. (HandshakeLen)' = HandshakeLen
    BY DEF HandshakeLen, Handshake, Protocol
  <2>4. stage # "closed" /\ stage # "dialing"
    OBVIOUS
  <2>5. reading = "handshake" => Stream(wire, sent, 0, HandshakeLen, stage')
    BY <2>1, <2>2, <2>4 DEF InStep
  <2>6. reading = "messages" => Stream(wire, sent, Len(received), 0, stage')
    BY <2>1, <2>2 DEF InStep
  <2> QED  BY <1>1, <1>2, <2>1, <2>3, <2>5, <2>6 DEF InStep
<1> QED  BY <1>1, <1>2, <1>3 DEF WireInv

(* The handshake is written, or a part of it. *)
LEMMA SendHandshakeInv == WireInv /\ SendHandshake => WireInv'
<1> SUFFICES ASSUME WireInv, SendHandshake PROVE WireInv'
  OBVIOUS
<1>1. /\ stage = "dialing" /\ wire = <<>> /\ sent = <<>>
      /\ have' = have /\ haveBits' = haveBits /\ told' = told /\ sent' = sent /\ cut' = cut
      /\ reading' = reading /\ received' = received /\ bitfield' = bitfield
  BY DEF WireInv, SendHandshake, readerVars
<1>2. PICK hash \in Hashes : \/ Put(Handshake(hash)) /\ stage' = "joined"
                             \/ PutPart(Handshake(hash)) /\ stage' = "closed"
  BY DEF SendHandshake
<1> DEFINE f == Handshake(hash)
<1>3. f \in Seq(Byte) /\ Len(f) = 5 /\ HandshakeLen = 5
  BY WireAssumption, HandshakeBytes
<1>4. (HandshakeLen)' = HandshakeLen
  BY DEF HandshakeLen, Handshake, Protocol
<1> HIDE DEF f
<1>5. ~cut => InStep
  BY DEF WireInv
<1>6. CASE wire' = wire \o f /\ stage' = "joined"
  <2>1. wire' = f
    BY <1>1, <1>3, <1>6
  <2>2. WireTypeOK'
    BY <1>1, <1>3, <1>6, <2>1 DEF WireInv, WireTypeOK
  <2>3. Stream(wire', sent', 0, HandshakeLen, stage')
    BY <1>1, <1>3, <2>1, StreamStart
  <2>4. ASSUME ~cut' PROVE InStep'
    <3>1. InStep
      BY <1>1, <1>5, <2>4
    <3>2. reading # "messages"
      BY <1>1, <3>1 DEF InStep
    <3> QED  BY <1>1, <1>4, <1>6, <2>3, <3>1, <3>2 DEF InStep
  <2> QED  BY <1>1, <1>6, <2>2, <2>4 DEF WireInv
<1>7. CASE stage' = "closed" /\ \E n \in 0 .. Len(f) - 1 : wire' = wire \o SubSeq(f, 1, n)
  <2>1. PICK n \in 0 .. Len(f) - 1 : wire' = wire \o SubSeq(f, 1, n)
    BY <1>7
  <2>2. n \in Nat /\ n < 5
    BY <1>3
  <2>3. SubSeq(f, 1, n) \in Seq(Byte) /\ Len(SubSeq(f, 1, n)) = n
    <3>1. n <= Len(f)
      BY <1>3, <2>2
    <3> QED  BY <1>3, <2>2, <3>1, PrefixElements
  <2>4. wire' \in Seq(Byte) /\ Len(wire') < 5
    <3> DEFINE x == SubSeq(f, 1, n)
    <3> HIDE DEF x
    <3>1. wire' = x
      BY <1>1, <2>1, <2>3 DEF x
    <3> QED  BY <2>2, <2>3, <3>1 DEF x
  <2>5. WireTypeOK'
    BY <1>1, <1>7, <2>4 DEF WireInv, WireTypeOK
  <2>6. ASSUME ~cut' PROVE InStep'
    <3>1. InStep
      BY <1>1, <1>5, <2>6
    <3>2. reading # "messages"
      BY <1>1, <3>1 DEF InStep
    <3> QED  BY <1>1, <1>3, <1>4, <1>7, <2>4, <3>1, <3>2 DEF InStep
  <2> QED  BY <1>1, <1>7, <2>5, <2>6 DEF WireInv
<1> QED  BY <1>2, <1>6, <1>7 DEF Put, PutPart, f

(* The bitfield is written, unless there is nothing to announce. *)
LEMMA SendBitfieldInv == WireInv /\ SendBitfield => WireInv'
<1> SUFFICES ASSUME WireInv, SendBitfield PROVE WireInv'
  OBVIOUS
<1> DEFINE m == Message(MsgBitfield, haveBits)
<1>1. stage = "joined" /\ UNCHANGED <<have, haveBits, cut, readerVars>>
  BY DEF SendBitfield
<1>2. Represents(haveBits, have) /\ have \in SUBSET Piece
  BY DEF WireInv, WireTypeOK
<1>3. m \in Msgs
  BY <1>2, SenderMessages
<1>4. CASE stage' = "running" /\ UNCHANGED <<told, sent, wire>>
  BY <1>1, <1>4, QuietStep
<1>5. CASE Write(m, have) /\ stage' = "running"
  <2>1. Announced(m, Told, have)
    BY <1>2 DEF Announced, Message, MsgBitfield, MsgHave
  <2> HIDE DEF m
  <2> QED  BY <1>1, <1>2, <1>3, <1>5, <2>1, WriteStep
<1>6. CASE WriteFails(m) /\ stage' = "closed"
  <2> HIDE DEF m
  <2>1. cut' = cut /\ UNCHANGED <<have, haveBits, readerVars>>
    BY <1>1
  <2> QED  BY <1>1, <1>3, <1>6, <2>1, WriteFailsStep
<1> QED  BY <1>4, <1>5, <1>6 DEF SendBitfield

(* An unchoke or a request is written. *)
LEMMA SendOtherInv == WireInv /\ SendOther => WireInv'
<1> SUFFICES ASSUME WireInv, SendOther PROVE WireInv'
  OBVIOUS
<1>1. stage = "running" /\ UNCHANGED <<have, haveBits, cut, readerVars>>
  BY DEF SendOther
<1>2. PICK m \in Others : \/ Write(m, Told) /\ stage' = "running"
                          \/ WriteFails(m) /\ stage' = "closed"
  BY DEF SendOther, AfterFailure
<1>3. m \in Msgs /\ Told \in SUBSET Piece
  BY SenderMessages, ToldIsKnown DEF WireInv
<1>4. CASE Write(m, Told) /\ stage' = "running"
  <2>1. Announced(m, Told, Told)
    <3>1. m.ID \in {MsgUnchoke, MsgRequest}
      BY DEF Others, Message
    <3> QED  BY <3>1 DEF Announced, MsgUnchoke, MsgRequest, MsgBitfield, MsgHave
  <2> QED  BY <1>1, <1>3, <1>4, <2>1, WriteStep
<1>5. CASE WriteFails(m) /\ stage' = "closed"
  <2>1. cut' = cut /\ UNCHANGED <<have, haveBits, readerVars>>
    BY <1>1
  <2> QED  BY <1>1, <1>3, <1>5, <2>1, WriteFailsStep
<1> QED  BY <1>2, <1>4, <1>5

(* A have is written, or cut off. *)
LEMMA SendHaveInv == WireInv /\ SendHave => WireInv'
<1> SUFFICES ASSUME WireInv, SendHave PROVE WireInv'
  OBVIOUS
<1>1. stage = "running" /\ stage' = "running" /\ UNCHANGED <<have, haveBits, readerVars>>
  BY DEF SendHave
<1>2. PICK i \in Piece :
        \/ Write(Message(MsgHave, Word(i)), Told \cup {i}) /\ cut' = cut
        \/ WriteFails(Message(MsgHave, Word(i))) /\ cut' = TRUE
  BY DEF SendHave
<1> DEFINE m == Message(MsgHave, Word(i))
<1>3. m \in Msgs /\ Told \cup {i} \in SUBSET Piece
  BY SenderMessages, ToldIsKnown DEF WireInv
<1>4. CASE Write(m, Told \cup {i}) /\ cut' = cut
  <2>1. Announced(m, Told, Told \cup {i})
    BY DEF Announced, Message, MsgBitfield, MsgHave
  <2>2. UNCHANGED <<have, haveBits, cut, readerVars>>
    BY <1>1, <1>4
  <2> HIDE DEF m
  <2> QED  BY <1>1, <1>3, <1>4, <2>1, <2>2, WriteStep
<1>5. CASE WriteFails(m) /\ cut' = TRUE
  <2> HIDE DEF m
  <2> QED  BY <1>1, <1>3, <1>5, WriteFailsStep
<1> QED  BY <1>2, <1>4, <1>5

(* A piece comes over another connection. *)
LEMMA OtherPieceInv == WireInv /\ OtherPiece => WireInv'
<1> SUFFICES ASSUME WireInv, OtherPiece PROVE WireInv'
  OBVIOUS
<1>1. UNCHANGED <<stage, told, sent, cut, wire, reading, received, bitfield>>
  BY DEF OtherPiece, readerVars
<1>2. PICK i \in Piece : have' = have \cup {i} /\ haveBits' = SetPiece(haveBits, i)
  BY DEF OtherPiece
<1>3. Represents(haveBits, have) /\ have \in SUBSET Piece
  BY DEF WireInv, WireTypeOK
<1>4. Represents(haveBits', have') /\ have' \in SUBSET Piece
  BY <1>2, <1>3, RepresentsSetPiece
<1>5. WireTypeOK'
  BY <1>1, <1>4 DEF WireInv, WireTypeOK, Represents
<1>6. ~cut' => InStep'
  <2>1. (HandshakeLen)' = HandshakeLen
    BY DEF HandshakeLen, Handshake, Protocol
  <2> QED  BY <1>1, <2>1 DEF WireInv, InStep
<1> QED  BY <1>1, <1>4, <1>5, <1>6 DEF WireInv

(* The sender hangs up. *)
LEMMA HangupInv == WireInv /\ Hangup => WireInv'
<1> SUFFICES ASSUME WireInv, Hangup PROVE WireInv'
  OBVIOUS
<1>1. /\ stage \in {"joined", "running"} /\ stage' = "closed"
      /\ UNCHANGED <<have, haveBits, told, sent, cut, wire, readerVars>>
  BY DEF Hangup
<1> QED  BY <1>1, QuietStep

-----------------------------------------------------------------------------
(* The steps of the reader *)

(* The handshake is read. *)
LEMMA ReadHandshakeInv == WireInv /\ ReadHandshake => WireInv'
<1> SUFFICES ASSUME WireInv, ReadHandshake PROVE WireInv'
  OBVIOUS
<1>1. UNCHANGED <<stage, have, haveBits, told, sent, cut, received, bitfield>>
  BY DEF ReadHandshake, senderVars
<1>2. /\ reading = "handshake" /\ Len(wire) >= 5 /\ wire' = SubSeq(wire, 5 + 1, Len(wire))
      /\ reading' \in {"messages", "closed"}
  BY HandshakeBytes DEF ReadHandshake, Available, Rest
<1>3. wire \in Seq(Byte) /\ sent \in Seq(Msgs) /\ Len(sent) \in Nat /\ Len(wire) \in Nat
  BY DEF WireInv, WireTypeOK
<1>4. wire' \in Seq(Byte)
  <2>1. 5 \in Nat /\ 5 <= Len(wire)
    BY <1>2, <1>3
  <2> QED  BY <1>2, <1>3, <2>1, PartElements
<1>5. stage # "dialing"
  <2>1. wire # <<>>
    BY <1>2, <1>3
  <2> QED  BY <2>1 DEF WireInv
<1>6. WireTypeOK'
  BY <1>1, <1>2, <1>4 DEF WireInv, WireTypeOK
<1>7. ASSUME ~cut' PROVE InStep'
  <2>1. InStep
    BY <1>1, <1>7 DEF WireInv
  <2>2. received = <<>> /\ Stream(wire, sent, 0, 5, stage)
    <3>1. ~(Len(wire) < 5)
      BY <1>2, <1>3
    <3> QED  BY <1>2, <2>1, <3>1, HandshakeBytes DEF InStep
  <2>3. 0 \in 0 .. Len(sent) /\ Len(received) = 0
    BY <1>3, <2>2
  <2>4. Stream(wire', sent, Len(received), 0, stage)
    BY <1>2, <1>3, <2>2, <2>3, StreamSkip
  <2>5. reading # "closed" /\ reading' # "handshake"
    BY <1>2
  <2> QED  BY <1>1, <1>5, <2>1, <2>4, <2>5 DEF InStep
<1> QED  BY <1>1, <1>5, <1>6, <1>7 DEF WireInv

(* The reader gives up. *)
LEMMA ReadFailsInv == WireInv /\ ReadFails => WireInv'
<1> SUFFICES ASSUME WireInv, ReadFails PROVE WireInv'
  OBVIOUS
<1>1. UNCHANGED <<stage, have, haveBits, told, sent, cut, wire, received, bitfield>>
      /\ reading' = "closed"
  BY DEF ReadFails, senderVars
<1>2. WireTypeOK'
  BY <1>1 DEF WireInv, WireTypeOK
<1>3. ~cut' => InStep'
  BY <1>1 DEF WireInv, InStep
<1> QED  BY <1>1, <1>2, <1>3 DEF WireInv

(* What handleMessage makes of any message: its bitfield keeps its size. *)
LEMMA HandleType ==
  ASSUME NEW m, m.Payload \in Seq(Byte), Handle(m),
         bitfield \in Seq(Byte), Len(bitfield) = BitfieldSize, reading = "messages"
  PROVE  /\ bitfield' \in Seq(Byte) /\ Len(bitfield') = BitfieldSize
         /\ reading' \in {"messages", "closed"}
<1>1. CASE m.ID = MsgBitfield
  BY <1>1 DEF Handle, MsgBitfield, MsgHave
<1>2. CASE m.ID = MsgHave
  <2>1. /\ reading' = "messages"
        /\ bitfield' = IF Len(m.Payload) = WordSize /\ Uint(m.Payload) < PieceCount
                       THEN SetPiece(bitfield, Uint(m.Payload)) ELSE bitfield
    BY <1>2 DEF Handle, MsgBitfield, MsgHave
  <2>2. Uint(m.Payload) \in Nat
    BY UintType
  <2>3. Uint(m.Payload) < PieceCount => Uint(m.Payload) \in Piece
    BY <2>2, WireAssumption DEF Piece
  <2>4. Uint(m.Payload) < PieceCount =>
          /\ SetPiece(bitfield, Uint(m.Payload)) \in Seq(Byte)
          /\ Len(SetPiece(bitfield, Uint(m.Payload))) = BitfieldSize
    BY <2>3, SetPieceBits
  <2> QED  BY <2>1, <2>4
<1>3. CASE m.ID # MsgBitfield /\ m.ID # MsgHave
  <2>1. UNCHANGED <<bitfield, reading>>
    BY <1>3 DEF Handle
  <2> QED  BY <2>1
<1> QED  BY <1>1, <1>2, <1>3

(* And of one that announces something: the bitfield follows. *)
LEMMA HandleAnnounced ==
  ASSUME NEW m \in Msgs, NEW before \in SUBSET Piece, NEW after \in SUBSET Piece,
         Announced(m, before, after), Represents(bitfield, before),
         reading = "messages", Handle(m)
  PROVE  Represents(bitfield', after)
<1>1. CASE m.ID = MsgBitfield
  <2>1. Represents(m.Payload, after)
    BY <1>1 DEF Announced
  <2>2. Len(m.Payload) = BitfieldSize
    BY <2>1 DEF Represents
  <2>3. bitfield' = m.Payload
    BY <1>1, <2>2 DEF Handle, MsgBitfield, MsgHave
  <2> QED  BY <2>1, <2>3
<1>2. CASE m.ID = MsgHave
  <2>1. PICK i \in Piece : m.Payload = Word(i) /\ after = before \cup {i}
    BY <1>2 DEF Announced
  <2>2. i \in Nat /\ i < PieceCount /\ i < Power(Base, WordSize)
    <3>1. i \in Nat /\ i < PieceCount /\ PieceCount \in Nat
      BY WireAssumption DEF Piece
    <3>2. PieceCount <= Power(Base, WordSize) /\ Power(Base, WordSize) \in Nat
      BY SizesAssumption, WireAssumption, BaseFacts, PowerType
    <3> QED  BY <3>1, <3>2
  <2>3. Uint(m.Payload) = i /\ Len(m.Payload) = WordSize
    BY <2>1, <2>2, WordRoundTrip, WordType
  <2>4. bitfield' = SetPiece(bitfield, i)
    <3>1. bitfield' = IF Len(m.Payload) = WordSize /\ Uint(m.Payload) < PieceCount
                      THEN SetPiece(bitfield, Uint(m.Payload)) ELSE bitfield
      BY <1>2 DEF Handle, MsgBitfield, MsgHave
    <3> QED  BY <2>2, <2>3, <3>1
  <2> QED  BY <2>1, <2>4, RepresentsSetPiece
<1>3. CASE m.ID # MsgBitfield /\ m.ID # MsgHave
  <2>1. bitfield' = bitfield
    BY <1>3 DEF Handle
  <2>2. after = before
    BY <1>3 DEF Announced
  <2> QED  BY <2>1, <2>2
<1> QED  BY <1>1, <1>2, <1>3

(* A message is read. *)
LEMMA ReadMessageInv == WireInv /\ ReadMessage => WireInv'
<1> SUFFICES ASSUME WireInv, ReadMessage PROVE WireInv'
  OBVIOUS
<1> DEFINE n == Uint(SubSeq(wire, 1, WordSize))
           body == SubSeq(wire, WordSize + 2, WordSize + n)
           m == IF n = 0 THEN Message(MsgKeepAlive, <<>>)
                ELSE Message(IDOf(wire[WordSize + 1]), body)
<1>1. UNCHANGED <<stage, have, haveBits, told, sent, cut>>
  BY DEF ReadMessage, senderVars
<1>2. /\ reading = "messages" /\ Len(wire) >= WordSize /\ Len(wire) >= WordSize + n
      /\ received' = Append(received, m) /\ Handle(m)
      /\ wire' = SubSeq(wire, WordSize + n + 1, Len(wire))
  BY DEF ReadMessage, Available, Rest, Length
<1>3. /\ wire \in Seq(Byte) /\ sent \in Seq(Msgs) /\ Len(sent) \in Nat /\ Len(wire) \in Nat
      /\ WordSize \in Nat \ {0} /\ bitfield \in Seq(Byte) /\ Len(bitfield) = BitfieldSize
      /\ Len(told) = Len(sent)
  BY WireAssumption DEF WireInv, WireTypeOK
<1>4. n \in Nat
  <2>1. SubSeq(wire, 1, WordSize) \in Seq(Byte)
    BY <1>2, <1>3, PrefixElements
  <2> QED  BY <2>1, UintType
<1> HIDE DEF n
<1>5. wire' \in Seq(Byte)
  <2>1. WordSize + n \in Nat /\ WordSize + n <= Len(wire)
    BY <1>2, <1>3, <1>4
  <2> QED  BY <1>2, <1>3, <2>1, PartElements
<1>6. m.Payload \in Seq(Byte)
  <2>1. CASE n = 0
    BY <2>1 DEF Message
  <2>2. CASE n # 0
    <3>1. WordSize + 1 \in Nat /\ WordSize + n \in Nat /\ WordSize + 1 <= WordSize + n
          /\ WordSize + n <= Len(wire) /\ (WordSize + 1) + 1 = WordSize + 2
      BY <1>2, <1>3, <1>4, <2>2
    <3>2. SubSeq(wire, (WordSize + 1) + 1, WordSize + n) \in Seq(Byte)
      BY <1>3, <3>1, PartElements
    <3> QED  BY <2>2, <3>1, <3>2 DEF Message
  <2> QED  BY <2>1, <2>2
<1>7. stage # "dialing"
  <2>1. wire # <<>>
    BY <1>2, <1>3
  <2> QED  BY <2>1 DEF WireInv
<1>8. /\ bitfield' \in Seq(Byte) /\ Len(bitfield') = BitfieldSize
      /\ reading' \in {"messages", "closed"}
  <2> HIDE DEF m
  <2> QED  BY <1>2, <1>3, <1>6, HandleType
<1>9. WireTypeOK'
  BY <1>1, <1>5, <1>8 DEF WireInv, WireTypeOK
<1>10. ASSUME ~cut' PROVE InStep'
  <2> DEFINE r == Len(received)
             next == sent[r + 1]
  <2>1. InStep
    BY <1>1, <1>10 DEF WireInv
  <2>2. /\ r \in 0 .. Len(sent) /\ received \in Seq(Msgs) /\ r \in Nat
        /\ \A k \in 1 .. r : received[k] = sent[k]
        /\ Stream(wire, sent, r, 0, stage) /\ Represents(bitfield, KnownAt(told, r))
    BY <1>2, <1>3, <2>1 DEF InStep
  <2> HIDE DEF r
  <2>3. /\ r < Len(sent)
        /\ n = 1 + Len(next.Payload)
        /\ IDOf(wire[WordSize + 1]) = next.ID
        /\ body = next.Payload
        /\ Stream(wire', sent, r + 1, 0, stage)
    <3>1. /\ wire \in Seq(Byte) /\ sent \in Seq(Msgs) /\ r \in 0 .. Len(sent)
          /\ Stream(wire, sent, r, 0, stage)
          /\ Len(wire) >= WordSize /\ n = Uint(SubSeq(wire, 1, WordSize))
          /\ Len(wire) >= WordSize + n
      BY <1>2, <1>3, <2>2 DEF n
    <3> HIDE DEF n
    <3>2. /\ r < Len(sent)
          /\ n = 1 + Len(sent[r + 1].Payload)
          /\ IDOf(wire[WordSize + 1]) = sent[r + 1].ID
          /\ SubSeq(wire, WordSize + 2, WordSize + n) = sent[r + 1].Payload
          /\ Stream(SubSeq(wire, WordSize + n + 1, Len(wire)), sent, r + 1, 0, stage)
      BY <3>1, StreamRead, Zenon
    <3> QED  BY <1>2, <3>2
  <2>4. next \in Msgs /\ r + 1 \in 1 .. Len(sent)
    BY <1>3, <2>2, <2>3
  <2>5. m = next
    <3>1. Len(next.Payload) \in Nat
      BY <2>4, SerializeParts
    <3>2. n # 0
      BY <2>3, <3>1
    <3>3. next = Message(next.ID, next.Payload)
      BY <2>4 DEF Msgs, Message
    <3> QED  BY <2>3, <3>2, <3>3, Zenon
  <2> HIDE DEF m
  <2>6. /\ received' \in Seq(Msgs) /\ Len(received') = r + 1
        /\ \A k \in 1 .. r : received'[k] = received[k]
        /\ received'[r + 1] = next
    BY <1>2, <2>2, <2>4, <2>5 DEF r
  <2> HIDE DEF next
  <2>7. \A k \in 1 .. Len(received') : received'[k] = sent'[k]
    <3>1. \A k \in 1 .. r + 1 : k \in 1 .. r \/ k = r + 1
      BY <2>2
    <3> QED  BY <1>1, <2>2, <2>6, <3>1 DEF next
  <2>8. Represents(bitfield', KnownAt(told', Len(received')))
    <3>1. Announced(next, KnownAt(told, r), told[r + 1])
      <4>1. Announced(sent[r + 1], KnownAt(told, (r + 1) - 1), told[r + 1]) /\ (r + 1) - 1 = r
        BY <2>2, <2>4 DEF WireInv
      <4> QED  BY <4>1 DEF next
    <3>2. told[r + 1] = KnownAt(told, r + 1)
      BY <2>2 DEF KnownAt
    <3>3. r + 1 \in 0 .. Len(sent)
      BY <2>4
    <3>4. KnownAt(told, r) \in SUBSET Piece /\ KnownAt(told, r + 1) \in SUBSET Piece
      BY <2>2, <3>3, ToldIsKnown DEF WireInv
    <3>5. Represents(bitfield', KnownAt(told, r + 1))
      BY <1>2, <2>2, <2>4, <2>5, <3>1, <3>2, <3>4, HandleAnnounced
    <3> QED  BY <1>1, <2>6, <3>5
  <2>9. Len(received') <= Len(sent')
    BY <1>1, <2>4, <2>6
  <2>10. Stream(wire', sent', Len(received'), 0, stage')
    BY <1>1, <2>3, <2>6
  <2>11. reading' # "handshake" /\ stage' # "dialing"
    BY <1>1, <1>7, <1>8
  <2> QED  BY <2>6, <2>7, <2>8, <2>9, <2>10, <2>11 DEF InStep
<1> QED  BY <1>1, <1>7, <1>9, <1>10 DEF WireInv

-----------------------------------------------------------------------------
(* The theorems *)

(* Every step preserves the invariant. *)
LEMMA WireStepInv == WireInv /\ [WireNext]_wireVars => WireInv'
<1> SUFFICES ASSUME WireInv, [WireNext]_wireVars PROVE WireInv'
  OBVIOUS
<1>1. CASE UNCHANGED wireVars
  <2>1. UNCHANGED <<stage, have, haveBits, told, sent, cut, wire, reading, received, bitfield>>
    BY <1>1 DEF wireVars, senderVars, readerVars
  <2>2. WireTypeOK'
    BY <2>1 DEF WireInv, WireTypeOK
  <2>3. (HandshakeLen)' = HandshakeLen
    BY DEF HandshakeLen, Handshake, Protocol
  <2>4. ~cut' => InStep'
    BY <2>1, <2>3 DEF WireInv, InStep
  <2> QED  BY <2>1, <2>2, <2>4 DEF WireInv
<1> QED  BY <1>1, SendHandshakeInv, SendBitfieldInv, SendOtherInv, SendHaveInv,
            OtherPieceInv, HangupInv, ReadHandshakeInv, ReadMessageInv, ReadFailsInv
         DEF WireNext

(* The bitfields of both sides keep their size and are made of bytes, whatever the
   reader takes off the wire (bitfield.go, handleMessage). *)
THEOREM WireTypeCorrect == WireSpec => []WireTypeOK
<1>1. WireInv => WireTypeOK
  BY DEF WireInv
<1> QED  BY <1>1, WireInitInv, WireStepInv, PTL DEF WireSpec

(* However writes and reads are cut short, the reader takes off the wire the
   messages that were sent, whole and in order, as long as no have was cut off
   (message.go, Serialize and ReadMessage; send.go). *)
THEOREM FramingStaysInStep == WireSpec => []ReceivedAsSent
<1>1. WireInv => ReceivedAsSent
  <2> SUFFICES ASSUME WireInv, ~cut PROVE IsPrefix(received, sent)
    BY DEF ReceivedAsSent
  <2>1. /\ received \in Seq(Msgs) /\ sent \in Seq(Msgs) /\ Len(received) <= Len(sent)
        /\ \A k \in 1 .. Len(received) : received[k] = sent[k]
    BY DEF WireInv, InStep
  <2>2. SubSeq(received, 1, Len(received)) = SubSeq(sent, 1, Len(received))
    BY <2>1
  <2> QED  BY <2>1, <2>2 DEF IsPrefix
<1> QED  BY <1>1, WireInitInv, WireStepInv, PTL DEF WireSpec

(* The bitfield the reader keeps of the peer has the pieces that the messages read
   so far announced, and counts them (bitfield.go; handleMessage in worker.go). *)
THEOREM BitfieldFollowsTheMessages == WireSpec => []BitfieldIsWhatWasTold
<1>1. WireInv => BitfieldIsWhatWasTold
  <2> SUFFICES ASSUME WireInv, ~cut, reading = "messages"
               PROVE  LET pieces == IF received = <<>> THEN {} ELSE told[Len(received)] IN
                      /\ {i \in Piece : HasPiece(bitfield, i)} = pieces
                      /\ Count(bitfield) = Cardinality(pieces)
    BY DEF BitfieldIsWhatWasTold
  <2> DEFINE r == Len(received)
             pieces == IF received = <<>> THEN {} ELSE told[r]
  <2>1. /\ received \in Seq(Msgs) /\ r \in 0 .. Len(sent)
        /\ Represents(bitfield, KnownAt(told, r))
    <3>1. sent \in Seq(Msgs) /\ InStep
      BY DEF WireInv
    <3> QED  BY <3>1 DEF InStep
  <2>2. received = <<>> <=> r = 0
    BY <2>1
  <2>3. pieces = KnownAt(told, r)
    BY <2>2 DEF KnownAt
  <2>4. pieces \in SUBSET Piece
    BY <2>1, <2>3, ToldIsKnown DEF WireInv
  <2> HIDE DEF pieces, r
  <2>5. {i \in Piece : HasPiece(bitfield, i)} = pieces /\ Count(bitfield) = Cardinality(pieces)
    BY <2>1, <2>3, <2>4, RepresentsPieces, RepresentsCount
  <2> QED  BY <2>5 DEF pieces, r
<1> QED  BY <1>1, WireInitInv, WireStepInv, PTL DEF WireSpec

=============================================================================

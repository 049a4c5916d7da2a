------------------------------ MODULE CrcProofs ------------------------------
(***************************************************************************)
(* All CRC routines agree, on every message, for every width and every     *)
(* polynomial and its mirror image: crcFast with its table on crcSlow,     *)
(* which has none; the tool, which divides by the low bit, on the loader,  *)
(* which divides by the top bit and reflects; crc32_le, which takes in     *)
(* words where it can, wherever the message lies and in whatever pieces.   *)
(*                                                                         *)
(* A fold over a message is a row of remainders, each made of the one      *)
(* before (ThroughSteps), and what holds of the first and is kept by each  *)
(* step holds of the last (NoneFails).                                     *)
(***************************************************************************)
EXTENDS Crc, NaturalsInduction, WellFoundedInduction, SequenceTheorems, TLAPS

-----------------------------------------------------------------------------
(* A set of numbers with a member has a least one.                         *)
LEMMA LeastNumber ==
  ASSUME NEW S, S \subseteq Nat, S # {}
  PROVE  \E x \in S : \A y \in S : x <= y
<1>1. IsWellFoundedOn(OpToRel(<, Nat), Nat)
  BY NatLessThanWellFounded
<1>2. PICK x \in S : \A y \in S : ~ (<<y, x>> \in OpToRel(<, Nat))
  BY <1>1, WFMin
<1>3. \A y \in S : x <= y
  <2>1. SUFFICES ASSUME NEW y \in S, y < x PROVE FALSE
    OBVIOUS
  <2>2. <<y, x>> \in OpToRel(<, Nat)
    BY <2>1 DEF OpToRel
  <2>3. QED
    BY <1>2, <2>2
<1>4. QED
  BY <1>3

(* Induction up to n: nothing is the first to fail.                        *)
LEMMA NoneFails ==
  ASSUME NEW n \in Nat, NEW S, S \subseteq 0 .. n, 0 \notin S,
         \A k \in 1 .. n : k \in S => k - 1 \in S
  PROVE  S = {}
<1>1. SUFFICES ASSUME S # {} PROVE FALSE
  OBVIOUS
<1>2. S \subseteq Nat
  OBVIOUS
<1>3. PICK k \in S : \A l \in S : k <= l
  BY <1>1, <1>2, LeastNumber
<1>4. k \in 1 .. n /\ k - 1 \in S /\ k \in Nat
  BY <1>3
<1>5. k <= k - 1
  BY <1>3, <1>4
<1>6. QED
  BY <1>4, <1>5

(* The function a fold is defined by, over the positions of a message.     *)
Folds(g, step, r, m, n) ==
  g = [s \in SUBSET (1 .. n) |->
         IF s = {} THEN r ELSE step[m[Max(s)]][g[s \ {Max(s)}]]]

LEMMA LastOfSet ==
  ASSUME NEW n \in Nat, NEW s \in SUBSET (1 .. n), n \in s
  PROVE  Max(s) = n
<1>1. \A x \in s : x \in Int /\ x <= n
  OBVIOUS
<1>2. \A x \in s : (\A y \in s : x >= y) => x = n
  BY <1>1
<1>3. n \in s /\ \A y \in s : n >= y
  BY <1>1
<1>4. QED
  BY <1>2, <1>3 DEF Max

LEMMA FoldsExist ==
  ASSUME NEW step, NEW r, NEW m
  PROVE  \A n \in Nat : \E g : Folds(g, step, r, m, n)
<1> DEFINE Bad == {n \in Nat : ~ \E g : Folds(g, step, r, m, n)}
<1>1. SUFFICES ASSUME Bad # {} PROVE FALSE
  OBVIOUS
<1>2. PICK n \in Bad : \A k \in Bad : n <= k
  BY <1>1, LeastNumber
<1>3. n \in Nat /\ ~ \E g : Folds(g, step, r, m, n)
  BY <1>2
<1>4. CASE n = 0
  <2> DEFINE h == [s \in SUBSET (1 .. 0) |-> r]
  <2>1. \A s \in SUBSET (1 .. 0) : s = {}
    OBVIOUS
  <2>2. Folds(h, step, r, m, 0)
    BY <2>1 DEF Folds
  <2>3. QED
    BY <1>3, <1>4, <2>2
<1>5. CASE n # 0
  <2>1. n - 1 \in Nat /\ n - 1 \notin Bad
    BY <1>2, <1>3, <1>5
  <2>2. PICK g : Folds(g, step, r, m, n - 1)
    BY <2>1
  <2> DEFINE h == [s \in SUBSET (1 .. n) |->
                     IF n \in s THEN step[m[n]][g[s \ {n}]] ELSE g[s]]
  <2>3. ASSUME NEW s \in SUBSET (1 .. n)
        PROVE  h[s] = IF s = {} THEN r
                      ELSE step[m[Max(s)]][h[s \ {Max(s)}]]
    <3>1. CASE n \in s
      <4>1. Max(s) = n
        BY <1>3, <3>1, LastOfSet
      <4>2. s \ {n} \in SUBSET (1 .. n) /\ n \notin s \ {n}
        OBVIOUS
      <4>3. h[s \ {n}] = g[s \ {n}]
        BY <4>2
      <4>4. h[s] = step[m[n]][g[s \ {n}]]
        BY <3>1
      <4> HIDE DEF h
      <4>5. QED
        BY <3>1, <4>1, <4>3, <4>4
    <3>2. CASE n \notin s /\ s # {}
      <4>1. s \in SUBSET (1 .. n - 1)
        BY <1>3, <3>2
      <4>2. h[s] = g[s]
        BY <3>2
      <4>3. h[s \ {Max(s)}] = g[s \ {Max(s)}]
        BY <3>2
      <4>4. g[s] = step[m[Max(s)]][g[s \ {Max(s)}]]
        BY <2>2, <3>2, <4>1 DEF Folds
      <4> HIDE DEF h
      <4>5. QED
        BY <3>2, <4>2, <4>3, <4>4
    <3>3. CASE n \notin s /\ s = {}
      <4>1. s \in SUBSET (1 .. n - 1)
        BY <3>3
      <4>2. h[s] = g[s] /\ g[s] = r
        BY <2>2, <3>3, <4>1 DEF Folds
      <4> HIDE DEF h
      <4>3. QED
        BY <3>3, <4>2
    <3>4. QED
      BY <3>1, <3>2, <3>3
  <2>4. h = [s \in SUBSET (1 .. n) |-> h[s]]
    OBVIOUS
  <2> HIDE DEF h
  <2>5. Folds(h, step, r, m, n)
    BY <2>3, <2>4 DEF Folds
  <2>6. QED
    BY <1>3, <2>5
<1>6. QED
  BY <1>4, <1>5

(* What is left after every byte.                                          *)
LEMMA ThroughSteps ==
  ASSUME NEW B, NEW step, NEW r, NEW m \in Seq(B)
  PROVE  \E f : /\ f[0] = r
                /\ \A k \in 1 .. Len(m) : f[k] = step[m[k]][f[k - 1]]
                /\ Through(step, r, m) = f[Len(m)]
<1> DEFINE g == CHOOSE g : Folds(g, step, r, m, Len(m))
           f == [k \in 0 .. Len(m) |-> g[1 .. k]]
<1>1. Len(m) \in Nat /\ DOMAIN m = 1 .. Len(m)
  OBVIOUS
<1>2. Folds(g, step, r, m, Len(m))
  BY <1>1, FoldsExist
<1>3. Through(step, r, m) = g[1 .. Len(m)]
  BY <1>1 DEF Through, FoldLeft, MapThenFoldSet, Folds
<1> HIDE DEF g
<1>4. ASSUME NEW k \in 0 .. Len(m)
      PROVE  f[k] = IF k = 0 THEN r ELSE step[m[k]][f[k - 1]]
  <2>1. 1 .. k \in SUBSET (1 .. Len(m))
    BY <1>1
  <2>2. CASE k = 0
    <3>1. 1 .. k = {}
      BY <2>2
    <3>2. QED
      BY <1>2, <2>1, <2>2, <3>1 DEF Folds
  <2>3. CASE k # 0
    <3>1. k \in 1 .. k /\ k \in Nat /\ k - 1 \in 0 .. Len(m)
      BY <1>1, <2>3
    <3>2. Max(1 .. k) = k
      BY <3>1, LastOfSet
    <3>3. (1 .. k) \ {k} = 1 .. k - 1
      BY <3>1
    <3>4. g[1 .. k] = step[m[k]][g[1 .. k - 1]]
      BY <1>2, <2>1, <3>1, <3>2, <3>3 DEF Folds
    <3>5. QED
      BY <2>3, <3>1, <3>4
  <2>4. QED
    BY <2>2, <2>3
<1>5. f[Len(m)] = g[1 .. Len(m)]
  BY <1>1
<1> HIDE DEF f
<1>6. f[0] = r /\ \A k \in 1 .. Len(m) : f[k] = step[m[k]][f[k - 1]]
  <2>1. 0 \in 0 .. Len(m)
    BY <1>1
  <2>2. ASSUME NEW k \in 1 .. Len(m)
        PROVE  k \in 0 .. Len(m) /\ k # 0
    BY <1>1
  <2>3. QED
    BY <1>4, <2>1, <2>2
<1>7. QED
  BY <1>3, <1>5, <1>6

LEMMA ThroughNone ==
  ASSUME NEW B, NEW step, NEW r, NEW m \in Seq(B)
  PROVE  Len(m) = 0 => Through(step, r, m) = r
<1>1. PICK f : /\ f[0] = r
               /\ \A k \in 1 .. Len(m) : f[k] = step[m[k]][f[k - 1]]
               /\ Through(step, r, m) = f[Len(m)]
  BY ThroughSteps
<1>2. QED
  BY <1>1

LEMMA ThroughOne ==
  ASSUME NEW B, NEW step, NEW r, NEW b \in B
  PROVE  Through(step, r, <<b>>) = step[b][r]
<1> DEFINE m == <<b>>
<1>1. m \in Seq(B) /\ Len(m) = 1 /\ m[1] = b
  OBVIOUS
<1> HIDE DEF m
<1>2. PICK f : /\ f[0] = r
               /\ \A k \in 1 .. Len(m) : f[k] = step[m[k]][f[k - 1]]
               /\ Through(step, r, m) = f[Len(m)]
  BY <1>1, ThroughSteps
<1>3. 1 \in 1 .. Len(m) /\ 1 - 1 = 0
  BY <1>1
<1>4. f[1] = step[b][f[0]]
  BY <1>1, <1>2, <1>3
<1>5. QED
  BY <1>1, <1>2, <1>4 DEF m

(* Steps that stay among the remainders leave one.                         *)
Steps(B, D, step) == \A b \in B, r \in D : step[b][r] \in D

LEMMA ThroughTyped ==
  ASSUME NEW B, NEW D, NEW step, Steps(B, D, step), NEW r \in D,
         NEW m \in Seq(B), NEW f, f[0] = r,
         \A k \in 1 .. Len(m) : f[k] = step[m[k]][f[k - 1]]
  PROVE  \A k \in 0 .. Len(m) : f[k] \in D
<1> DEFINE Bad == {k \in 0 .. Len(m) : f[k] \notin D}
<1>1. Len(m) \in Nat /\ Bad \subseteq 0 .. Len(m) /\ 0 \notin Bad
  OBVIOUS
<1>2. ASSUME NEW k \in 1 .. Len(m), k - 1 \notin Bad
      PROVE  k \notin Bad
  <2>1. k - 1 \in 0 .. Len(m) /\ m[k] \in B
    BY <1>1
  <2>2. f[k - 1] \in D
    BY <1>2, <2>1
  <2>3. f[k] \in D
    BY <2>1, <2>2 DEF Steps
  <2>4. QED
    BY <2>3
<1> HIDE DEF Bad
<1>3. Bad = {}
  BY <1>1, <1>2, NoneFails
<1>4. QED
  BY <1>3 DEF Bad

LEMMA ThroughStays ==
  ASSUME NEW B, NEW D, NEW step, Steps(B, D, step), NEW r \in D,
         NEW m \in Seq(B)
  PROVE  Through(step, r, m) \in D
<1>1. PICK f : /\ f[0] = r
               /\ \A k \in 1 .. Len(m) : f[k] = step[m[k]][f[k - 1]]
               /\ Through(step, r, m) = f[Len(m)]
  BY ThroughSteps
<1>2. Len(m) \in 0 .. Len(m)
  OBVIOUS
<1>3. QED
  BY <1>1, <1>2, ThroughTyped

(* Two pieces of a message one after the other.                            *)
LEMMA ThroughPieces ==
  ASSUME NEW B, NEW step, NEW r, NEW a \in Seq(B), NEW b \in Seq(B)
  PROVE  Through(step, r, a \o b) = Through(step, Through(step, r, a), b)
<1> DEFINE whole == a \o b
           middle == Through(step, r, a)
<1>1. /\ whole \in Seq(B) /\ Len(a) \in Nat /\ Len(b) \in Nat
      /\ Len(whole) = Len(a) + Len(b)
      /\ \A k \in 1 .. Len(a) : whole[k] = a[k]
      /\ \A k \in 1 .. Len(b) : whole[Len(a) + k] = b[k]
  OBVIOUS
<1>2. whole \in Seq(B)
  BY <1>1
<1> HIDE DEF whole
<1>3. PICK f : /\ f[0] = r
               /\ \A k \in 1 .. Len(a) : f[k] = step[a[k]][f[k - 1]]
               /\ middle = f[Len(a)]
  BY ThroughSteps
<1> HIDE DEF middle
<1>4. PICK g : /\ g[0] = middle
               /\ \A k \in 1 .. Len(b) : g[k] = step[b[k]][g[k - 1]]
               /\ Through(step, middle, b) = g[Len(b)]
  BY ThroughSteps
<1>5. PICK h : /\ h[0] = r
               /\ \A k \in 1 .. Len(whole) : h[k] = step[whole[k]][h[k - 1]]
               /\ Through(step, r, whole) = h[Len(whole)]
  BY <1>2, ThroughSteps
<1>6. \A k \in 0 .. Len(a) : h[k] = f[k]
  <2> DEFINE Bad == {k \in 0 .. Len(a) : h[k] # f[k]}
  <2>1. Bad \subseteq 0 .. Len(a) /\ 0 \notin Bad
    BY <1>3, <1>5
  <2>2. ASSUME NEW k \in 1 .. Len(a), k - 1 \notin Bad PROVE k \notin Bad
    <3>1. k - 1 \in 0 .. Len(a) /\ k \in 1 .. Len(whole)
      BY <1>1
    <3>2. h[k - 1] = f[k - 1] /\ whole[k] = a[k]
      BY <1>1, <2>2, <3>1
    <3>3. h[k] = f[k]
      BY <1>3, <1>5, <3>1, <3>2
    <3>4. QED
      BY <3>3
  <2> HIDE DEF Bad
  <2>3. Bad = {}
    BY <1>1, <2>1, <2>2, NoneFails
  <2>4. QED
    BY <2>3 DEF Bad
<1>7. \A k \in 0 .. Len(b) : h[Len(a) + k] = g[k]
  <2> DEFINE Bad == {k \in 0 .. Len(b) : h[Len(a) + k] # g[k]}
  <2>1. Bad \subseteq 0 .. Len(b) /\ 0 \notin Bad
    BY <1>1, <1>3, <1>4, <1>6
  <2>2. ASSUME NEW k \in 1 .. Len(b), k - 1 \notin Bad PROVE k \notin Bad
    <3>1. /\ Len(a) + k \in 1 .. Len(whole) /\ k - 1 \in 0 .. Len(b)
          /\ Len(a) + k - 1 = Len(a) + (k - 1)
      BY <1>1
    <3>2. h[Len(a) + k] = step[whole[Len(a) + k]][h[Len(a) + k - 1]]
      BY <1>5, <3>1
    <3>3. whole[Len(a) + k] = b[k] /\ h[Len(a) + k - 1] = g[k - 1]
      BY <1>1, <2>2, <3>1
    <3>4. h[Len(a) + k] = g[k]
      BY <1>4, <3>2, <3>3
    <3>5. QED
      BY <3>4
  <2> HIDE DEF Bad
  <2>3. Bad = {}
    BY <1>1, <2>1, <2>2, NoneFails
  <2>4. QED
    BY <2>3 DEF Bad
<1>8. h[Len(whole)] = g[Len(b)]
  BY <1>1, <1>7
<1>9. QED
  BY <1>4, <1>5, <1>8 DEF whole, middle

(* If one step does to the image of a remainder what another does to the   *)
(* remainder, then so does the whole message.                              *)
LEMMA ThroughImage ==
  ASSUME NEW B, NEW D, NEW step, Steps(B, D, step), NEW other,
         NEW image, \A b \in B, d \in D :
                      other[b][image[d]] = image[step[b][d]],
         NEW r \in D, NEW m \in Seq(B)
  PROVE  Through(other, image[r], m) = image[Through(step, r, m)]
<1>1. PICK f : /\ f[0] = r
               /\ \A k \in 1 .. Len(m) : f[k] = step[m[k]][f[k - 1]]
               /\ Through(step, r, m) = f[Len(m)]
  BY ThroughSteps
<1>2. PICK g : /\ g[0] = image[r]
               /\ \A k \in 1 .. Len(m) : g[k] = other[m[k]][g[k - 1]]
               /\ Through(other, image[r], m) = g[Len(m)]
  BY ThroughSteps
<1>3. \A k \in 0 .. Len(m) : f[k] \in D
  BY <1>1, ThroughTyped
<1> DEFINE Bad == {k \in 0 .. Len(m) : g[k] # image[f[k]]}
<1>4. Len(m) \in Nat /\ Bad \subseteq 0 .. Len(m) /\ 0 \notin Bad
  BY <1>1, <1>2
<1>5. ASSUME NEW k \in 1 .. Len(m), k - 1 \notin Bad PROVE k \notin Bad
  <2>1. k - 1 \in 0 .. Len(m) /\ m[k] \in B
    BY <1>4
  <2>2. g[k - 1] = image[f[k - 1]] /\ f[k - 1] \in D
    BY <1>3, <1>5, <2>1
  <2>3. g[k] = other[m[k]][image[f[k - 1]]]
    BY <1>2, <2>2
  <2>4. g[k] = image[f[k]]
    BY <1>1, <2>1, <2>2, <2>3
  <2>5. QED
    BY <2>4
<1>6. Len(m) \notin Bad
  <2> HIDE DEF Bad
  <2>1. Bad = {}
    BY <1>4, <1>5, NoneFails
  <2>2. QED
    BY <2>1
<1>7. g[Len(m)] = image[f[Len(m)]]
  BY <1>4, <1>6
<1>8. QED
  BY <1>1, <1>2, <1>7

-----------------------------------------------------------------------------
(* Bits.                                                                   *)
LEMMA SameBits ==
  ASSUME NEW r \in Remainder, NEW t \in Remainder,
         \A i \in Bits(WIDTH) : i \in r <=> i \in t
  PROVE  r = t
  BY DEF Remainder

LEMMA ShiftMember ==
  ASSUME NEW r \in Remainder, NEW n \in Nat
  PROVE  /\ ShiftLeft(r, n) \in Remainder
         /\ ShiftRight(r, n) \in Remainder
         /\ \A i \in Bits(WIDTH) :
              /\ i \in ShiftLeft(r, n) <=> i - n \in r
              /\ i \in ShiftRight(r, n) <=> i + n \in r
<1>1. ASSUME NEW i \in Bits(WIDTH)
      PROVE  /\ i \in ShiftLeft(r, n) <=> i - n \in r
             /\ i \in ShiftRight(r, n) <=> i + n \in r
  BY CrcAssumption DEF ShiftLeft, ShiftRight, Remainder, Bits
<1>2. ShiftLeft(r, n) \in Remainder
  BY DEF ShiftLeft, Remainder
<1>3. ShiftRight(r, n) \in Remainder
  BY CrcAssumption DEF ShiftRight, Remainder, Bits
<1>4. QED
  BY <1>1, <1>2, <1>3

LEMMA XorMember ==
  ASSUME NEW r \in Remainder, NEW t \in Remainder
  PROVE  /\ SymDiff(r, t) \in Remainder
         /\ \A i : i \in SymDiff(r, t) <=> ~ (i \in r <=> i \in t)
  BY DEF SymDiff, Remainder

LEMMA ByteMember ==
  ASSUME NEW b \in Byte
  PROVE  /\ b \in Remainder
         /\ reflect(b, ByteBits) \in Byte
         /\ \A i \in Bits(ByteBits) :
              i \in reflect(b, ByteBits) <=> ByteBits - 1 - i \in b
         /\ AtTop(b) \in Remainder
         /\ \A i \in Bits(WIDTH) : i \in AtTop(b) <=> i - (WIDTH - ByteBits) \in b
<1>1. b \in Remainder
  BY CrcAssumption DEF Byte, Remainder, Bits
<1>2. reflect(b, ByteBits) \in Byte
  BY CrcAssumption DEF reflect, Byte, Bits
<1>3. \A i \in Bits(ByteBits) :
        i \in reflect(b, ByteBits) <=> ByteBits - 1 - i \in b
  BY CrcAssumption DEF reflect, Byte, Bits
<1>4. WIDTH - ByteBits \in Nat
  BY CrcAssumption
<1>5. QED
  BY <1>1, <1>2, <1>3, <1>4, ShiftMember DEF AtTop

LEMMA TopMember ==
  ASSUME NEW r \in Remainder
  PROVE  /\ ShiftRight(r, WIDTH - ByteBits) \in Byte
         /\ \A i \in Bits(ByteBits) :
              i \in ShiftRight(r, WIDTH - ByteBits) <=> i + (WIDTH - ByteBits) \in r
         /\ \A b \in Byte : TableIndex(r, b) \in Byte
<1>1. WIDTH - ByteBits \in Nat /\ Bits(ByteBits) \subseteq Bits(WIDTH)
  BY CrcAssumption DEF Bits
<1>2. ShiftRight(r, WIDTH - ByteBits) \in Byte
  BY CrcAssumption DEF ShiftRight, Byte, Remainder, Bits
<1>3. \A i \in Bits(ByteBits) :
        i \in ShiftRight(r, WIDTH - ByteBits) <=> i + (WIDTH - ByteBits) \in r
  BY <1>1, ShiftMember
<1>4. \A b \in Byte : TableIndex(r, b) \in Byte
  <2>1. \A b, c \in Byte : SymDiff(b, c) \in Byte
    BY DEF SymDiff, Byte
  <2>2. QED
    BY <1>2, <2>1, ByteMember DEF TableIndex
<1>5. QED
  BY <1>2, <1>3, <1>4

-----------------------------------------------------------------------------
(* Dividing bit by bit.                                                    *)
Repeats(g, bit, n) ==
  g = [k \in 0 .. n |->
         [r \in Remainder |-> IF k = 0 THEN r ELSE g[k - 1][bit[r]]]]

LEMMA RepeatsExist ==
  ASSUME NEW bit, NEW n \in Nat
  PROVE  \E g : Repeats(g, bit, n)
<1> DEFINE Bad == {m \in 0 .. n : ~ \E g : Repeats(g, bit, m)}
<1>1. Bad \subseteq 0 .. n
  OBVIOUS
<1>2. 0 \notin Bad
  <2> DEFINE h == [k \in 0 .. 0 |-> [r \in Remainder |-> r]]
  <2>1. Repeats(h, bit, 0)
    BY DEF Repeats
  <2>2. QED
    BY <2>1
<1>3. ASSUME NEW m \in 1 .. n, m - 1 \notin Bad PROVE m \notin Bad
  <2>1. m - 1 \in 0 .. n /\ m \in Nat
    OBVIOUS
  <2>2. PICK g : Repeats(g, bit, m - 1)
    BY <1>3, <2>1
  <2> DEFINE last == [r \in Remainder |-> g[m - 1][bit[r]]]
             h == [k \in 0 .. m |-> IF k = m THEN last ELSE g[k]]
  <2>3. ASSUME NEW k \in 0 .. m
        PROVE  h[k] = [r \in Remainder |-> IF k = 0 THEN r ELSE h[k - 1][bit[r]]]
    <3>1. CASE k = m
      <4>1. m - 1 \in 0 .. m /\ m - 1 # m /\ k # 0
        BY <2>1, <3>1
      <4>2. h[m - 1] = g[m - 1]
        BY <4>1
      <4>3. h[k] = last
        BY <3>1
      <4> HIDE DEF h
      <4>4. QED
        BY <3>1, <4>1, <4>2, <4>3
    <3>2. CASE k # m
      <4>1. k \in 0 .. m - 1 /\ (k # 0 => k - 1 \in 0 .. m /\ k - 1 # m)
        BY <2>1, <3>2
      <4>2. h[k] = g[k] /\ (k # 0 => h[k - 1] = g[k - 1])
        BY <3>2, <4>1
      <4>3. g[k] = [r \in Remainder |-> IF k = 0 THEN r ELSE g[k - 1][bit[r]]]
        BY <2>2, <4>1 DEF Repeats
      <4> HIDE DEF h
      <4>4. QED
        BY <4>2, <4>3
    <3>3. QED
      BY <3>1, <3>2
  <2>4. h = [k \in 0 .. m |-> h[k]]
    OBVIOUS
  <2> HIDE DEF h
  <2>5. Repeats(h, bit, m)
    BY <2>3, <2>4 DEF Repeats
  <2>6. QED
    BY <2>5
<1> HIDE DEF Bad
<1>4. Bad = {}
  BY <1>1, <1>2, <1>3, NoneFails
<1>5. QED
  BY <1>4 DEF Bad

LEMMA DivideSteps ==
  /\ \A r \in Remainder : Divide[0][r] = r
  /\ \A n \in 1 .. ByteBits, r \in Remainder :
       Divide[n][r] = Divide[n - 1][DivideBit(r)]
<1> DEFINE bit == [r \in Remainder |-> DivideBit(r)]
           g == CHOOSE g : Repeats(g, bit, ByteBits)
<1>1. ByteBits \in Nat
  BY CrcAssumption
<1>2. Repeats(g, bit, ByteBits)
  BY <1>1, RepeatsExist
<1>3. Divide = g
  BY DEF Divide, Repeats
<1> HIDE DEF g
<1>4. ASSUME NEW k \in 0 .. ByteBits, NEW r \in Remainder
      PROVE  g[k][r] = IF k = 0 THEN r ELSE g[k - 1][DivideBit(r)]
  <2>1. g[k] = [t \in Remainder |-> IF k = 0 THEN t ELSE g[k - 1][bit[t]]]
    BY <1>2 DEF Repeats
  <2>2. QED
    BY <2>1
<1>5. \A n \in 1 .. ByteBits : n \in 0 .. ByteBits /\ n # 0
  BY <1>1
<1>6. 0 \in 0 .. ByteBits
  BY <1>1
<1>7. QED
  BY <1>3, <1>4, <1>5, <1>6

LEMMA DivideLowSteps ==
  /\ \A r \in Remainder : DivideLow[0][r] = r
  /\ \A n \in 1 .. ByteBits, r \in Remainder :
       DivideLow[n][r] = DivideLow[n - 1][DivideLowBit(r)]
<1> DEFINE bit == [r \in Remainder |-> DivideLowBit(r)]
           g == CHOOSE g : Repeats(g, bit, ByteBits)
<1>1. ByteBits \in Nat
  BY CrcAssumption
<1>2. Repeats(g, bit, ByteBits)
  BY <1>1, RepeatsExist
<1>3. DivideLow = g
  BY DEF DivideLow, Repeats
<1> HIDE DEF g
<1>4. ASSUME NEW k \in 0 .. ByteBits, NEW r \in Remainder
      PROVE  g[k][r] = IF k = 0 THEN r ELSE g[k - 1][DivideLowBit(r)]
  <2>1. g[k] = [t \in Remainder |-> IF k = 0 THEN t ELSE g[k - 1][bit[t]]]
    BY <1>2 DEF Repeats
  <2>2. QED
    BY <2>1
<1>5. \A n \in 1 .. ByteBits : n \in 0 .. ByteBits /\ n # 0
  BY <1>1
<1>6. 0 \in 0 .. ByteBits
  BY <1>1
<1>7. QED
  BY <1>3, <1>4, <1>5, <1>6

(* A bit after a step of the division.                                     *)
LEMMA DivideMember ==
  ASSUME NEW r \in Remainder
  PROVE  /\ DivideBit(r) \in Remainder
         /\ \A i \in Bits(WIDTH) :
              i \in DivideBit(r) <=>
                ~ (i - 1 \in r <=> (WIDTH - 1 \in r /\ i \in POLYNOMIAL))
<1>1. POLYNOMIAL \in Remainder
  BY CrcAssumption DEF Remainder
<1>2. QED
  BY <1>1, ShiftMember, XorMember DEF DivideBit

LEMMA DivideTyped ==
  \A n \in 0 .. ByteBits, r \in Remainder : Divide[n][r] \in Remainder
<1> DEFINE Bad == {n \in 0 .. ByteBits :
                     ~ \A r \in Remainder : Divide[n][r] \in Remainder}
<1>1. ByteBits \in Nat /\ Bad \subseteq 0 .. ByteBits /\ 0 \notin Bad
  BY CrcAssumption, DivideSteps
<1>2. ASSUME NEW n \in 1 .. ByteBits, n - 1 \notin Bad PROVE n \notin Bad
  <2>1. n - 1 \in 0 .. ByteBits
    BY <1>1
  <2>2. \A r \in Remainder : Divide[n - 1][r] \in Remainder
    BY <1>2, <2>1
  <2>3. \A r \in Remainder : Divide[n][r] \in Remainder
    BY <2>2, DivideSteps, DivideMember
  <2>4. QED
    BY <2>3
<1> HIDE DEF Bad
<1>3. Bad = {}
  BY <1>1, <1>2, NoneFails
<1>4. QED
  BY <1>3 DEF Bad

(* Division is linear.                                                     *)
LEMMA DivideXor ==
  \A n \in 0 .. ByteBits, r, t \in Remainder :
    Divide[n][SymDiff(r, t)] = SymDiff(Divide[n][r], Divide[n][t])
<1> DEFINE Linear(n) == \A r, t \in Remainder :
             Divide[n][SymDiff(r, t)] = SymDiff(Divide[n][r], Divide[n][t])
           Bad == {n \in 0 .. ByteBits : ~ Linear(n)}
<1>1. ByteBits \in Nat /\ Bad \subseteq 0 .. ByteBits
  BY CrcAssumption
<1>2. Linear(0)
  BY DivideSteps, XorMember
<1>3. ASSUME NEW r \in Remainder, NEW t \in Remainder
      PROVE  DivideBit(SymDiff(r, t)) = SymDiff(DivideBit(r), DivideBit(t))
  <2>1. /\ SymDiff(r, t) \in Remainder
        /\ DivideBit(SymDiff(r, t)) \in Remainder
        /\ DivideBit(r) \in Remainder /\ DivideBit(t) \in Remainder
        /\ SymDiff(DivideBit(r), DivideBit(t)) \in Remainder
    BY XorMember, DivideMember
  <2>2. ASSUME NEW i \in Bits(WIDTH)
        PROVE  i \in DivideBit(SymDiff(r, t))
                 <=> i \in SymDiff(DivideBit(r), DivideBit(t))
    <3>1. /\ i \in DivideBit(SymDiff(r, t)) <=>
               ~ (i - 1 \in SymDiff(r, t)
                    <=> (WIDTH - 1 \in SymDiff(r, t) /\ i \in POLYNOMIAL))
          /\ i \in DivideBit(r) <=>
               ~ (i - 1 \in r <=> (WIDTH - 1 \in r /\ i \in POLYNOMIAL))
          /\ i \in DivideBit(t) <=>
               ~ (i - 1 \in t <=> (WIDTH - 1 \in t /\ i \in POLYNOMIAL))
      BY <2>1, DivideMember
    <3>2. /\ i \in SymDiff(DivideBit(r), DivideBit(t))
               <=> ~ (i \in DivideBit(r) <=> i \in DivideBit(t))
          /\ i - 1 \in SymDiff(r, t) <=> ~ (i - 1 \in r <=> i - 1 \in t)
          /\ WIDTH - 1 \in SymDiff(r, t)
               <=> ~ (WIDTH - 1 \in r <=> WIDTH - 1 \in t)
      BY <2>1, XorMember
    <3>3. QED
      BY <3>1, <3>2
  <2>3. QED
    BY <2>1, <2>2, SameBits
<1>4. ASSUME NEW n \in 1 .. ByteBits, n - 1 \notin Bad PROVE n \notin Bad
  <2>1. n - 1 \in 0 .. ByteBits
    BY <1>1
  <2>2. Linear(n - 1)
    BY <1>4, <2>1
  <2>3. ASSUME NEW r \in Remainder, NEW t \in Remainder
        PROVE  Divide[n][SymDiff(r, t)] = SymDiff(Divide[n][r], Divide[n][t])
    <3>1. /\ SymDiff(r, t) \in Remainder
          /\ DivideBit(r) \in Remainder /\ DivideBit(t) \in Remainder
      BY XorMember, DivideMember
    <3>2. Divide[n][SymDiff(r, t)] = Divide[n - 1][DivideBit(SymDiff(r, t))]
      BY <3>1, DivideSteps
    <3>3. Divide[n][r] = Divide[n - 1][DivideBit(r)]
          /\ Divide[n][t] = Divide[n - 1][DivideBit(t)]
      BY DivideSteps
    <3>4. QED
      BY <1>3, <2>2, <3>1, <3>2, <3>3
  <2>4. QED
    BY <2>3
<1>5. 0 \notin Bad
  BY <1>2
<1> HIDE DEF Bad
<1>6. Bad = {}
  BY <1>1, <1>4, <1>5, NoneFails
<1>7. QED
  BY <1>6 DEF Bad

(* Bits that do not reach the top are only shifted.                        *)
LEMMA DivideShifts ==
  \A n \in 0 .. ByteBits, r \in Remainder :
    (\A i \in r : i < WIDTH - n) => Divide[n][r] = ShiftLeft(r, n)
<1> DEFINE Shifts(n) == \A r \in Remainder :
             (\A i \in r : i < WIDTH - n) => Divide[n][r] = ShiftLeft(r, n)
           Bad == {n \in 0 .. ByteBits : ~ Shifts(n)}
<1>1. /\ ByteBits \in Nat /\ WIDTH \in Nat /\ ByteBits <= WIDTH
      /\ Bad \subseteq 0 .. ByteBits
  BY CrcAssumption
<1>2. Shifts(0)
  <2>1. ASSUME NEW r \in Remainder PROVE ShiftLeft(r, 0) = r
    <3>1. ShiftLeft(r, 0) \in Remainder
          /\ \A i \in Bits(WIDTH) : i \in ShiftLeft(r, 0) <=> i - 0 \in r
      BY ShiftMember
    <3>2. \A i \in Bits(WIDTH) : i - 0 = i
      BY DEF Bits
    <3>3. QED
      BY <3>1, <3>2, SameBits
  <2>2. QED
    BY <2>1, DivideSteps
<1>3. ASSUME NEW n \in 1 .. ByteBits, n - 1 \notin Bad PROVE n \notin Bad
  <2>1. n - 1 \in 0 .. ByteBits /\ n \in Nat /\ n - 1 \in Nat
    BY <1>1
  <2>2. Shifts(n - 1)
    BY <1>3, <2>1
  <2>3. ASSUME NEW r \in Remainder, \A i \in r : i < WIDTH - n
        PROVE  Divide[n][r] = ShiftLeft(r, n)
    <3> DEFINE once == ShiftLeft(r, 1)
    <3>1. once \in Remainder
          /\ \A i \in Bits(WIDTH) : i \in once <=> i - 1 \in r
      BY ShiftMember
    <3>2. WIDTH - 1 \notin r
      BY <1>1, <2>1, <2>3
    <3>3. DivideBit(r) = once
      BY <3>2 DEF DivideBit
    <3> HIDE DEF once
    <3>4. \A i \in once : i < WIDTH - (n - 1)
      <4>1. ASSUME NEW i \in once PROVE i < WIDTH - (n - 1)
        <5>1. i \in Bits(WIDTH) /\ i - 1 \in r
          BY <3>1 DEF Remainder
        <5>2. i - 1 < WIDTH - n
          BY <2>3, <5>1
        <5>3. QED
          BY <1>1, <2>1, <5>1, <5>2 DEF Bits
      <4>2. QED
        BY <4>1
    <3>5. Divide[n][r] = ShiftLeft(once, n - 1)
      BY <2>2, <3>1, <3>3, <3>4, DivideSteps
    <3>6. /\ ShiftLeft(once, n - 1) \in Remainder /\ ShiftLeft(r, n) \in Remainder
          /\ \A i \in Bits(WIDTH) :
               /\ i \in ShiftLeft(once, n - 1) <=> i - (n - 1) \in once
               /\ i \in ShiftLeft(r, n) <=> i - n \in r
      BY <2>1, <3>1, ShiftMember
    <3>7. ASSUME NEW i \in Bits(WIDTH)
          PROVE  i - (n - 1) \in once <=> i - n \in r
      <4>1. i - (n - 1) - 1 = i - n /\ i - n < WIDTH - 1
        BY <1>1, <2>1 DEF Bits
      <4>2. CASE i - (n - 1) \in Bits(WIDTH)
        BY <3>1, <4>1, <4>2
      <4>3. CASE i - (n - 1) \notin Bits(WIDTH)
        <5>1. i - n \notin Bits(WIDTH)
          BY <1>1, <2>1, <4>3 DEF Bits
        <5>2. QED
          BY <3>1, <4>3, <5>1 DEF Remainder
      <4>4. QED
        BY <4>2, <4>3
    <3>8. QED
      BY <3>5, <3>6, <3>7, SameBits
  <2>4. QED
    BY <2>3
<1>4. 0 \notin Bad
  BY <1>2
<1> HIDE DEF Bad
<1>5. Bad = {}
  BY <1>1, <1>3, <1>4, NoneFails
<1>6. QED
  BY <1>5 DEF Bad

-----------------------------------------------------------------------------
(* A step of crcFast is a step of crcSlow: what is at the top chooses the  *)
(* entry of the table, the rest is shifted.                                *)
LEMMA StepsSame ==
  ASSUME NEW b \in Byte, NEW r \in Remainder
  PROVE  /\ FastStep[b][r] \in Remainder
         /\ SlowStep[b][r] = FastStep[b][r]
<1> DEFINE d == WIDTH - ByteBits
           rb == reflect(b, ByteBits)
           top == ShiftRight(r, d)
           idx == SymDiff(rb, top)
           low == {i \in r : i < d}
<1>1. /\ ByteBits \in Nat /\ WIDTH \in Nat /\ d \in Nat /\ d + ByteBits = WIDTH
      /\ ByteBits \in 0 .. ByteBits
  BY CrcAssumption
<1>2. /\ rb \in Byte /\ top \in Byte /\ idx \in Byte /\ low \in Remainder
      /\ idx = TableIndex(r, b)
      /\ \A i \in Bits(ByteBits) : i \in top <=> i + d \in r
  <2>1. rb \in Byte
    BY ByteMember
  <2>2. top \in Byte /\ \A i \in Bits(ByteBits) : i \in top <=> i + d \in r
    BY TopMember
  <2>3. idx = TableIndex(r, b) /\ idx \in Byte
    BY TopMember DEF TableIndex
  <2>4. low \in Remainder
    BY DEF Remainder
  <2>5. QED
    BY <2>1, <2>2, <2>3, <2>4
<1>3. \A i : i \in idx <=> ~ (i \in rb <=> i \in top)
  <2> HIDE DEF rb, top
  <2>1. QED
    BY DEF SymDiff
<1>4. \A i : i \in low <=> i \in r /\ i < d
  OBVIOUS
<1>5. /\ FastStep[b][r] = SymDiff(crcTable[idx], ShiftLeft(r, ByteBits))
      /\ SlowStep[b][r] = Divide[ByteBits][SymDiff(r, AtTop(rb))]
      /\ crcTable[idx] = Divide[ByteBits][AtTop(idx)]
  BY <1>2 DEF FastStep, SlowStep, crcTable
<1> HIDE DEF rb, top, idx, low, d
<1>6. /\ AtTop(rb) \in Remainder /\ AtTop(idx) \in Remainder
      /\ \A i \in Bits(WIDTH) : /\ i \in AtTop(rb) <=> i - d \in rb
                                /\ i \in AtTop(idx) <=> i - d \in idx
  BY <1>2, ByteMember DEF d
<1>7. SymDiff(r, AtTop(rb)) = SymDiff(AtTop(idx), low)
  <2>1. /\ SymDiff(r, AtTop(rb)) \in Remainder
        /\ SymDiff(AtTop(idx), low) \in Remainder
        /\ \A i : i \in SymDiff(r, AtTop(rb)) <=> ~ (i \in r <=> i \in AtTop(rb))
        /\ \A i : i \in SymDiff(AtTop(idx), low)
                    <=> ~ (i \in AtTop(idx) <=> i \in low)
    BY <1>2, <1>6, XorMember
  <2>2. ASSUME NEW i \in Bits(WIDTH)
        PROVE  i \in SymDiff(r, AtTop(rb)) <=> i \in SymDiff(AtTop(idx), low)
    <3>1. CASE i < d
      <4>1. i - d \notin Bits(ByteBits)
        BY <1>1, <3>1 DEF Bits
      <4>2. i - d \notin rb /\ i - d \notin idx
        BY <1>2, <4>1 DEF Byte
      <4>3. QED
        BY <1>4, <1>6, <2>1, <3>1, <4>2
    <3>2. CASE ~ i < d
      <4>1. i - d \in Bits(ByteBits) /\ (i - d) + d = i
        BY <1>1, <3>2 DEF Bits
      <4>2. i - d \in top <=> i \in r
        BY <1>2, <4>1
      <4>3. i - d \in idx <=> ~ (i - d \in rb <=> i \in r)
        BY <1>3, <4>2
      <4>4. QED
        BY <1>4, <1>6, <2>1, <3>2, <4>3
    <3>3. QED
      BY <3>1, <3>2
  <2>3. QED
    BY <2>1, <2>2, SameBits
<1>8. Divide[ByteBits][low] = ShiftLeft(low, ByteBits)
  <2>1. \A i \in low : i < WIDTH - ByteBits
    BY <1>4 DEF d
  <2>2. QED
    BY <1>1, <1>2, <2>1, DivideShifts
<1>9. ShiftLeft(low, ByteBits) = ShiftLeft(r, ByteBits)
  <2>1. /\ ShiftLeft(low, ByteBits) \in Remainder
        /\ ShiftLeft(r, ByteBits) \in Remainder
        /\ \A i \in Bits(WIDTH) :
             /\ i \in ShiftLeft(low, ByteBits) <=> i - ByteBits \in low
             /\ i \in ShiftLeft(r, ByteBits) <=> i - ByteBits \in r
    BY <1>1, <1>2, ShiftMember
  <2>2. \A i \in Bits(WIDTH) : i - ByteBits < d
    BY <1>1 DEF Bits
  <2>3. QED
    BY <1>4, <2>1, <2>2, SameBits
<1>10. Divide[ByteBits][SymDiff(AtTop(idx), low)]
         = SymDiff(crcTable[idx], ShiftLeft(r, ByteBits))
  BY <1>1, <1>2, <1>5, <1>6, <1>8, <1>9, DivideXor
<1>11. SymDiff(AtTop(idx), low) \in Remainder
  BY <1>2, <1>6, XorMember
<1>12. Divide[ByteBits][SymDiff(AtTop(idx), low)] \in Remainder
  BY <1>1, <1>11, DivideTyped
<1>13. QED
  BY <1>5, <1>7, <1>10, <1>12

LEMMA FastSteps == Steps(Byte, Remainder, FastStep)
  BY StepsSame DEF Steps

(* crcFast, with the table that crcInit makes, computes what crcSlow does. *)
THEOREM TableTheorem ==
  ASSUME NEW m \in Seq(Byte)
  PROVE  crcFast(m) = crcSlow(m)
<1>1. FastStep = [b \in Byte |-> [r \in Remainder |-> FastStep[b][r]]]
  BY DEF FastStep
<1>2. SlowStep = [b \in Byte |-> [r \in Remainder |-> SlowStep[b][r]]]
  BY DEF SlowStep
<1>3. \A b \in Byte : [r \in Remainder |-> FastStep[b][r]]
                        = [r \in Remainder |-> SlowStep[b][r]]
  BY StepsSame
<1>4. SlowStep = FastStep
  BY <1>1, <1>2, <1>3
<1>5. QED
  BY <1>4 DEF crcFast, crcSlow

-----------------------------------------------------------------------------
(* Reflected remainders.                                                   *)
Mirror(r) == reflect(r, WIDTH)

LEMMA MirrorMember ==
  ASSUME NEW r \in Remainder
  PROVE  /\ Mirror(r) \in Remainder
         /\ \A i \in Bits(WIDTH) : i \in Mirror(r) <=> WIDTH - 1 - i \in r
  BY CrcAssumption DEF Mirror, reflect, Remainder, Bits

(* Reflecting twice changes nothing.                                       *)
THEOREM ReflectTwice ==
  ASSUME NEW r \in Remainder
  PROVE  Mirror(Mirror(r)) = r
<1>1. \A i \in Bits(WIDTH) : WIDTH - 1 - i \in Bits(WIDTH)
                              /\ WIDTH - 1 - (WIDTH - 1 - i) = i
  BY CrcAssumption DEF Bits
<1>2. QED
  BY <1>1, MirrorMember, SameBits

(* Shifting left and shifting the mirror image right are the same.         *)
LEMMA MirrorShift ==
  ASSUME NEW r \in Remainder, NEW n \in Nat
  PROVE  Mirror(ShiftLeft(r, n)) = ShiftRight(Mirror(r), n)
<1>1. /\ ShiftLeft(r, n) \in Remainder /\ Mirror(r) \in Remainder
      /\ Mirror(ShiftLeft(r, n)) \in Remainder
      /\ ShiftRight(Mirror(r), n) \in Remainder
  BY ShiftMember, MirrorMember
<1>2. ASSUME NEW i \in Bits(WIDTH)
      PROVE  i \in Mirror(ShiftLeft(r, n)) <=> i \in ShiftRight(Mirror(r), n)
  <2>1. WIDTH - 1 - i \in Bits(WIDTH)
    BY CrcAssumption DEF Bits
  <2>2. i \in Mirror(ShiftLeft(r, n)) <=> WIDTH - 1 - i - n \in r
    BY <1>1, <2>1, MirrorMember, ShiftMember
  <2>3. i \in ShiftRight(Mirror(r), n) <=> i + n \in Mirror(r)
    BY <1>1, ShiftMember
  <2>4. CASE i + n \in Bits(WIDTH)
    <3>1. i + n \in Mirror(r) <=> WIDTH - 1 - (i + n) \in r
      BY <2>4, MirrorMember
    <3>2. WIDTH - 1 - (i + n) = WIDTH - 1 - i - n
      BY CrcAssumption DEF Bits
    <3>3. QED
      BY <2>2, <2>3, <3>1, <3>2
  <2>5. CASE i + n \notin Bits(WIDTH)
    <3>1. WIDTH - 1 - i - n \notin Bits(WIDTH)
      BY <2>5, CrcAssumption DEF Bits
    <3>2. QED
      BY <1>1, <2>2, <2>3, <2>5, <3>1 DEF Remainder
  <2>6. QED
    BY <2>4, <2>5
<1>3. QED
  BY <1>1, <1>2, SameBits

LEMMA MirrorXor ==
  ASSUME NEW r \in Remainder, NEW t \in Remainder
  PROVE  Mirror(SymDiff(r, t)) = SymDiff(Mirror(r), Mirror(t))
<1>1. /\ Mirror(r) \in Remainder /\ Mirror(t) \in Remainder
      /\ SymDiff(r, t) \in Remainder
      /\ Mirror(SymDiff(r, t)) \in Remainder
      /\ SymDiff(Mirror(r), Mirror(t)) \in Remainder
  BY XorMember, MirrorMember
<1>2. ASSUME NEW i \in Bits(WIDTH)
      PROVE  i \in Mirror(SymDiff(r, t)) <=> i \in SymDiff(Mirror(r), Mirror(t))
  BY <1>1, XorMember, MirrorMember
<1>3. QED
  BY <1>1, <1>2, SameBits

(* One bit of crcSlow and crcInit, mirrored, is one bit of init_crc_table. *)
THEOREM MirrorTheorem ==
  ASSUME NEW r \in Remainder, dwpoly = Mirror(POLYNOMIAL)
  PROVE  Mirror(DivideBit(r)) = DivideLowBit(Mirror(r))
<1>1. WIDTH - 1 \in r <=> 0 \in Mirror(r)
  <2>1. 0 \in Bits(WIDTH) /\ WIDTH - 1 - 0 = WIDTH - 1
    BY CrcAssumption DEF Bits
  <2>2. QED
    BY <2>1, MirrorMember
<1>2. POLYNOMIAL \in Remainder /\ ShiftLeft(r, 1) \in Remainder
  BY CrcAssumption, ShiftMember DEF Remainder
<1>3. Mirror(ShiftLeft(r, 1)) = ShiftRight(Mirror(r), 1)
  BY MirrorShift
<1>4. QED
  BY <1>1, <1>2, <1>3, MirrorXor DEF DivideBit, DivideLowBit

LEMMA MirrorDivide ==
  ASSUME dwpoly = Mirror(POLYNOMIAL)
  PROVE  \A n \in 0 .. ByteBits, r \in Remainder :
           DivideLow[n][Mirror(r)] = Mirror(Divide[n][r])
<1> DEFINE Mirrored(n) == \A r \in Remainder :
                            DivideLow[n][Mirror(r)] = Mirror(Divide[n][r])
           Bad == {n \in 0 .. ByteBits : ~ Mirrored(n)}
<1>1. ByteBits \in Nat /\ Bad \subseteq 0 .. ByteBits
  BY CrcAssumption
<1>2. Mirrored(0)
  BY DivideSteps, DivideLowSteps, MirrorMember
<1>3. ASSUME NEW n \in 1 .. ByteBits, n - 1 \notin Bad PROVE n \notin Bad
  <2>1. n - 1 \in 0 .. ByteBits
    BY <1>1
  <2>2. Mirrored(n - 1)
    BY <1>3, <2>1
  <2>3. ASSUME NEW r \in Remainder
        PROVE  DivideLow[n][Mirror(r)] = Mirror(Divide[n][r])
    <3>1. Mirror(r) \in Remainder /\ DivideBit(r) \in Remainder
      BY MirrorMember, DivideMember
    <3>2. DivideLow[n][Mirror(r)] = DivideLow[n - 1][DivideLowBit(Mirror(r))]
      BY <3>1, DivideLowSteps
    <3>3. DivideLowBit(Mirror(r)) = Mirror(DivideBit(r))
      BY MirrorTheorem
    <3>4. Divide[n][r] = Divide[n - 1][DivideBit(r)]
      BY DivideSteps
    <3>5. QED
      BY <2>2, <3>1, <3>2, <3>3, <3>4
  <2>4. QED
    BY <2>3
<1>4. 0 \notin Bad
  BY <1>2
<1> HIDE DEF Bad
<1>5. Bad = {}
  BY <1>1, <1>3, <1>4, NoneFails
<1>6. QED
  BY <1>5 DEF Bad

(* A byte taken in at the bottom is the mirror image of one taken in at    *)
(* the top, reflected.                                                     *)
LEMMA MirrorStep ==
  ASSUME dwpoly = Mirror(POLYNOMIAL), NEW b \in Byte, NEW r \in Remainder
  PROVE  update_crc32[b][Mirror(r)] = Mirror(FastStep[b][r])
<1> DEFINE d == WIDTH - ByteBits
           rb == reflect(b, ByteBits)
           top == ShiftRight(r, d)
           idx == SymDiff(rb, top)
           mir == Mirror(r)
           low == LowByte(SymDiff(b, mir))
<1>1. /\ ByteBits \in Nat /\ WIDTH \in Nat /\ d \in Nat /\ d + ByteBits = WIDTH
      /\ ByteBits \in 0 .. ByteBits /\ Bits(ByteBits) \subseteq Bits(WIDTH)
  BY CrcAssumption DEF Bits
<1>2. /\ rb \in Byte /\ top \in Byte /\ idx \in Byte
      /\ idx = TableIndex(r, b)
      /\ \A i \in Bits(ByteBits) : i \in top <=> i + d \in r
      /\ \A i \in Bits(ByteBits) : i \in rb <=> ByteBits - 1 - i \in b
  <2>1. /\ rb \in Byte
        /\ \A i \in Bits(ByteBits) : i \in rb <=> ByteBits - 1 - i \in b
    BY ByteMember
  <2>2. top \in Byte /\ \A i \in Bits(ByteBits) : i \in top <=> i + d \in r
    BY TopMember
  <2>3. idx = TableIndex(r, b) /\ idx \in Byte
    BY TopMember DEF TableIndex
  <2>4. QED
    BY <2>1, <2>2, <2>3
<1>3. \A i : i \in idx <=> ~ (i \in rb <=> i \in top)
  <2> HIDE DEF rb, top
  <2>1. QED
    BY DEF SymDiff
<1>4. mir \in Remainder /\ \A i \in Bits(WIDTH) : i \in mir <=> WIDTH - 1 - i \in r
  BY MirrorMember
<1>5. /\ low \in Byte
      /\ \A i : i \in low <=> i \in Bits(ByteBits) /\ ~ (i \in b <=> i \in mir)
  <2> HIDE DEF mir
  <2>1. QED
    BY <1>4 DEF LowByte, SymDiff, Byte
<1>6. /\ update_crc32[b][mir] = SymDiff(ShiftRight(mir, ByteBits), crc32table[low])
      /\ crc32table[low] = DivideLow[ByteBits][low]
      /\ FastStep[b][r] = SymDiff(crcTable[idx], ShiftLeft(r, ByteBits))
      /\ crcTable[idx] = Divide[ByteBits][AtTop(idx)]
  <2>1. update_crc32[b][mir] = SymDiff(ShiftRight(mir, ByteBits), crc32table[low])
    BY <1>4 DEF update_crc32
  <2>2. crc32table[low] = DivideLow[ByteBits][low]
    BY <1>5 DEF crc32table
  <2>3. /\ FastStep[b][r] = SymDiff(crcTable[idx], ShiftLeft(r, ByteBits))
        /\ crcTable[idx] = Divide[ByteBits][AtTop(idx)]
    BY <1>2 DEF FastStep, crcTable
  <2>4. QED
    BY <2>1, <2>2, <2>3
<1>7. /\ AtTop(idx) \in Remainder
      /\ \A i \in Bits(WIDTH) : i \in AtTop(idx) <=> i - d \in idx
  BY <1>2, ByteMember
<1> HIDE DEF rb, top, idx, low, d
<1>8. low = Mirror(AtTop(idx))
  <2>1. /\ Mirror(AtTop(idx)) \in Remainder
        /\ \A i \in Bits(WIDTH) :
             i \in Mirror(AtTop(idx)) <=> WIDTH - 1 - i \in AtTop(idx)
    BY <1>7, MirrorMember
  <2>2. low \in Remainder
    BY <1>5, ByteMember
  <2>3. ASSUME NEW i \in Bits(WIDTH)
        PROVE  i \in Mirror(AtTop(idx)) <=> ByteBits - 1 - i \in idx
    <3>1. WIDTH - 1 - i \in Bits(WIDTH) /\ WIDTH - 1 - i - d = ByteBits - 1 - i
      BY <1>1 DEF Bits
    <3>2. QED
      BY <1>7, <2>1, <3>1
  <2>4. ASSUME NEW i \in Bits(WIDTH)
        PROVE  i \in low <=> ByteBits - 1 - i \in idx
    <3>1. CASE i \in Bits(ByteBits)
      <4>1. /\ ByteBits - 1 - i \in Bits(ByteBits)
            /\ ByteBits - 1 - (ByteBits - 1 - i) = i
            /\ (ByteBits - 1 - i) + d = WIDTH - 1 - i
        BY <1>1, <3>1 DEF Bits
      <4>2. ByteBits - 1 - i \in rb <=> i \in b
        BY <1>2, <4>1
      <4>3. ByteBits - 1 - i \in top <=> i \in mir
        BY <1>2, <1>4, <4>1
      <4>4. QED
        BY <1>3, <1>5, <3>1, <4>2, <4>3
    <3>2. CASE i \notin Bits(ByteBits)
      <4>1. ByteBits - 1 - i \notin Bits(ByteBits)
        BY <1>1, <3>2 DEF Bits
      <4>2. ByteBits - 1 - i \notin idx
        BY <1>2, <4>1 DEF Byte
      <4>3. QED
        BY <1>5, <3>2, <4>2
    <3>3. QED
      BY <3>1, <3>2
  <2>5. QED
    BY <2>1, <2>2, <2>3, <2>4, SameBits
<1>9. crc32table[low] = Mirror(crcTable[idx])
  BY <1>1, <1>6, <1>7, <1>8, MirrorDivide
<1>10. crcTable[idx] \in Remainder /\ ShiftLeft(r, ByteBits) \in Remainder
  BY <1>1, <1>6, <1>7, DivideTyped, ShiftMember
<1>11. Mirror(FastStep[b][r])
         = SymDiff(Mirror(crcTable[idx]), Mirror(ShiftLeft(r, ByteBits)))
  BY <1>6, <1>10, MirrorXor
<1>12. Mirror(ShiftLeft(r, ByteBits)) = ShiftRight(mir, ByteBits)
  BY <1>1, MirrorShift
<1>13. \A x, y : SymDiff(x, y) = SymDiff(y, x)
  BY DEF SymDiff
<1>14. QED
  BY <1>6, <1>9, <1>11, <1>12, <1>13

LEMMA StartMirrored ==
  INITIAL_REMAINDER \in Remainder /\ Mirror(INITIAL_REMAINDER) = INITIAL_REMAINDER
<1>1. INITIAL_REMAINDER \in Remainder
  BY DEF INITIAL_REMAINDER, Remainder
<1>2. \A i \in Bits(WIDTH) : WIDTH - 1 - i \in Bits(WIDTH)
  BY CrcAssumption DEF Bits
<1>3. \A i \in Bits(WIDTH) : i \in Mirror(INITIAL_REMAINDER)
                                <=> i \in INITIAL_REMAINDER
  BY <1>1, <1>2, MirrorMember DEF INITIAL_REMAINDER
<1>4. QED
  BY <1>1, <1>3, MirrorMember, SameBits

(* bhdr.c, which shifts right through a table of its own, computes the CRC *)
(* of the loader's crcFast, of every message.                              *)
THEOREM ToolTheorem ==
  ASSUME dwpoly = Mirror(POLYNOMIAL), NEW m \in Seq(Byte)
  PROVE  Through(update_crc32, INITIAL_REMAINDER, m) = crcFast(m)
<1> DEFINE image == [r \in Remainder |-> Mirror(r)]
<1>1. \A b \in Byte, r \in Remainder :
        update_crc32[b][image[r]] = image[FastStep[b][r]]
  BY MirrorStep, StepsSame
<1>2. /\ image[INITIAL_REMAINDER] = INITIAL_REMAINDER
      /\ INITIAL_REMAINDER \in Remainder
  BY StartMirrored
<1>3. Through(FastStep, INITIAL_REMAINDER, m) \in Remainder
  BY <1>2, FastSteps, ThroughStays
<1>4. image[Through(FastStep, INITIAL_REMAINDER, m)] = crcFast(m)
  BY <1>3 DEF crcFast, Mirror
<1> HIDE DEF image
<1>5. Through(update_crc32, image[INITIAL_REMAINDER], m)
        = image[Through(FastStep, INITIAL_REMAINDER, m)]
  BY <1>1, <1>2, FastSteps, ThroughImage
<1>6. QED
  BY <1>2, <1>4, <1>5

-----------------------------------------------------------------------------
(* crc32_le, which takes a message in words where it can.                  *)
LEMMA ToolSteps ==
  ASSUME dwpoly = Mirror(POLYNOMIAL)
  PROVE  Steps(Byte, Remainder, update_crc32)
<1>1. ASSUME NEW b \in Byte, NEW r \in Remainder
      PROVE  update_crc32[b][r] \in Remainder
  <2>1. Mirror(r) \in Remainder /\ Mirror(Mirror(r)) = r
    BY MirrorMember, ReflectTwice
  <2>2. update_crc32[b][Mirror(Mirror(r))] = Mirror(FastStep[b][Mirror(r)])
    BY <2>1, MirrorStep
  <2>3. QED
    BY <2>1, <2>2, StepsSame, MirrorMember
<1>2. QED
  BY <1>1 DEF Steps

LEMMA ByteStepSame == ByteStep(crc32table_le) = update_crc32
<1>1. \A x, y : SymDiff(x, y) = SymDiff(y, x)
  BY DEF SymDiff
<1>2. crc32table_le = crc32table
  BY DEF crc32table_le, crc32table
<1>3. ASSUME NEW b \in Byte, NEW r \in Remainder
      PROVE  DO_CRC(crc32table_le, r, b)
               = SymDiff(ShiftRight(r, ByteBits),
                         crc32table[LowByte(SymDiff(b, r))])
  BY <1>1, <1>2 DEF DO_CRC
<1>4. QED
  BY <1>3 DEF ByteStep, update_crc32

(* Bytes that have been brought in beforehand are taken in by zeros.       *)
LEMMA EarlyByte ==
  ASSUME dwpoly = Mirror(POLYNOMIAL),
         NEW r \in Remainder, NEW w \in Remainder, NEW b \in Byte, LowByte(w) = b
  PROVE  /\ ShiftRight(w, ByteBits) \in Remainder
         /\ update_crc32[b][r] \in Remainder
         /\ update_crc32[{}][SymDiff(r, w)]
              = SymDiff(update_crc32[b][r], ShiftRight(w, ByteBits))
<1> DEFINE x == SymDiff(r, w)
<1>1. /\ x \in Remainder /\ {} \in Byte /\ ByteBits \in Nat
      /\ \A i : i \in x <=> ~ (i \in r <=> i \in w)
  BY CrcAssumption, XorMember DEF Byte
<1> HIDE DEF x
<1>2. /\ update_crc32[{}][x] = SymDiff(ShiftRight(x, ByteBits),
                                       crc32table[LowByte(SymDiff({}, x))])
      /\ update_crc32[b][r] = SymDiff(ShiftRight(r, ByteBits),
                                      crc32table[LowByte(SymDiff(b, r))])
  BY <1>1 DEF update_crc32
<1>3. LowByte(SymDiff({}, x)) = LowByte(SymDiff(b, r))
  <2>1. ASSUME NEW i PROVE i \in b <=> i \in w /\ i \in Bits(ByteBits)
    BY DEF LowByte
  <2>2. ASSUME NEW i
        PROVE  i \in LowByte(SymDiff({}, x)) <=> i \in LowByte(SymDiff(b, r))
    BY <1>1, <2>1 DEF LowByte, SymDiff
  <2>3. QED
    BY <2>2
<1>4. /\ ShiftRight(x, ByteBits) \in Remainder
      /\ ShiftRight(r, ByteBits) \in Remainder
      /\ ShiftRight(w, ByteBits) \in Remainder
      /\ \A i \in Bits(WIDTH) :
           /\ i \in ShiftRight(x, ByteBits) <=> i + ByteBits \in x
           /\ i \in ShiftRight(r, ByteBits) <=> i + ByteBits \in r
           /\ i \in ShiftRight(w, ByteBits) <=> i + ByteBits \in w
  BY <1>1, ShiftMember
<1>5. ShiftRight(x, ByteBits)
        = SymDiff(ShiftRight(r, ByteBits), ShiftRight(w, ByteBits))
  <2>1. /\ SymDiff(ShiftRight(r, ByteBits), ShiftRight(w, ByteBits)) \in Remainder
        /\ \A i : i \in SymDiff(ShiftRight(r, ByteBits), ShiftRight(w, ByteBits))
             <=> ~ (i \in ShiftRight(r, ByteBits) <=> i \in ShiftRight(w, ByteBits))
    BY <1>4, XorMember
  <2>2. QED
    BY <1>1, <1>4, <2>1, SameBits
<1>6. \A p, q, t : SymDiff(SymDiff(p, q), t) = SymDiff(SymDiff(p, t), q)
  BY DEF SymDiff
<1>7. update_crc32[b][r] \in Remainder
  BY ToolSteps DEF Steps
<1>8. QED
  BY <1>2, <1>3, <1>4, <1>5, <1>6, <1>7 DEF x

LEMMA WordMember ==
  ASSUME NEW m \in Seq(Byte), NEW k \in 1 .. Len(m) - 3
  PROVE  /\ WordAt(m, k) \in Remainder
         /\ \A i \in Bits(ByteBits) :
              /\ i \in WordAt(m, k) <=> i \in m[k]
              /\ i + ByteBits \in WordAt(m, k) <=> i \in m[k + 1]
              /\ i + 2 * ByteBits \in WordAt(m, k) <=> i \in m[k + 2]
              /\ i + 3 * ByteBits \in WordAt(m, k) <=> i \in m[k + 3]
<1> DEFINE w == WordAt(m, k)
<1>1. /\ m[k] \in Byte /\ m[k + 1] \in Byte /\ m[k + 2] \in Byte
      /\ m[k + 3] \in Byte /\ k + 0 = k
  OBVIOUS
<1>2. w = UNION {ShiftLeft(m[k + j], j * ByteBits) : j \in 0 .. 3}
  BY DEF WordAt
<1>3. \A i : i \in w <=> \/ i \in ShiftLeft(m[k], 0)
                         \/ i \in ShiftLeft(m[k + 1], ByteBits)
                         \/ i \in ShiftLeft(m[k + 2], 2 * ByteBits)
                         \/ i \in ShiftLeft(m[k + 3], 3 * ByteBits)
  <2>1. 0 .. 3 = {0, 1, 2, 3}
    OBVIOUS
  <2>2. 0 * ByteBits = 0 /\ 1 * ByteBits = ByteBits
    BY CrcAssumption
  <2>3. w = UNION {ShiftLeft(m[k + 0], 0 * ByteBits),
                   ShiftLeft(m[k + 1], 1 * ByteBits),
                   ShiftLeft(m[k + 2], 2 * ByteBits),
                   ShiftLeft(m[k + 3], 3 * ByteBits)}
    BY <1>2, <2>1
  <2>4. QED
    BY <1>1, <2>2, <2>3
<1> HIDE DEF w
<1>4. /\ ByteBits \in Nat /\ WIDTH = 4 * ByteBits
      /\ 2 * ByteBits \in Nat /\ 3 * ByteBits \in Nat /\ 0 \in Nat
  BY CrcAssumption
<1>5. /\ m[k] \in Remainder /\ m[k + 1] \in Remainder
      /\ m[k + 2] \in Remainder /\ m[k + 3] \in Remainder
  BY <1>1, ByteMember
<1>6. \A i \in Bits(WIDTH) :
        /\ i \in ShiftLeft(m[k], 0) <=> i - 0 \in m[k]
        /\ i \in ShiftLeft(m[k + 1], ByteBits) <=> i - ByteBits \in m[k + 1]
        /\ i \in ShiftLeft(m[k + 2], 2 * ByteBits) <=> i - 2 * ByteBits \in m[k + 2]
        /\ i \in ShiftLeft(m[k + 3], 3 * ByteBits) <=> i - 3 * ByteBits \in m[k + 3]
  BY <1>4, <1>5, ShiftMember
<1>7. w \in Remainder
  <2>1. \A r, n : ShiftLeft(r, n) \subseteq Bits(WIDTH)
    BY DEF ShiftLeft
  <2>2. QED
    BY <1>3, <2>1 DEF Remainder
<1>8. ASSUME NEW i \in Bits(ByteBits)
      PROVE  /\ i \in w <=> i \in m[k]
             /\ i + ByteBits \in w <=> i \in m[k + 1]
             /\ i + 2 * ByteBits \in w <=> i \in m[k + 2]
             /\ i + 3 * ByteBits \in w <=> i \in m[k + 3]
  <2>1. /\ i \in Bits(WIDTH) /\ i + ByteBits \in Bits(WIDTH)
        /\ i + 2 * ByteBits \in Bits(WIDTH) /\ i + 3 * ByteBits \in Bits(WIDTH)
        /\ i \in Int
    BY <1>4 DEF Bits
  <2>2. \A b \in Byte, j \in Int : j \in b => 0 <= j /\ j < ByteBits
    BY <1>4 DEF Byte, Bits
  <2>3. i \in w <=> i \in m[k]
    <3>1. /\ i - 0 = i /\ i - ByteBits < 0 /\ i - 2 * ByteBits < 0
          /\ i - 3 * ByteBits < 0
          /\ i - ByteBits \in Int /\ i - 2 * ByteBits \in Int
          /\ i - 3 * ByteBits \in Int
      BY <1>4 DEF Bits
    <3>2. QED
      BY <1>1, <1>3, <1>6, <2>1, <2>2, <3>1
  <2>4. i + ByteBits \in w <=> i \in m[k + 1]
    <3> DEFINE j == i + ByteBits
    <3>1. /\ j - 0 >= ByteBits /\ j - ByteBits = i /\ j - 2 * ByteBits < 0
          /\ j - 3 * ByteBits < 0
          /\ j - 0 \in Int /\ j - 2 * ByteBits \in Int /\ j - 3 * ByteBits \in Int
      BY <1>4 DEF Bits
    <3>2. j \in Bits(WIDTH)
      BY <2>1
    <3> HIDE DEF j
    <3>3. j - 0 \notin m[k] /\ j - 2 * ByteBits \notin m[k + 2]
          /\ j - 3 * ByteBits \notin m[k + 3]
      BY <1>1, <1>4, <2>2, <3>1
    <3>4. j \in w <=> i \in m[k + 1]
      BY <1>3, <1>6, <3>1, <3>2, <3>3
    <3>5. QED
      BY <3>4 DEF j
  <2>5. i + 2 * ByteBits \in w <=> i \in m[k + 2]
    <3> DEFINE j == i + 2 * ByteBits
    <3>1. /\ j - 0 >= ByteBits /\ j - ByteBits >= ByteBits
          /\ j - 2 * ByteBits = i /\ j - 3 * ByteBits < 0
          /\ j - 0 \in Int /\ j - ByteBits \in Int /\ j - 3 * ByteBits \in Int
      BY <1>4 DEF Bits
    <3>2. j \in Bits(WIDTH)
      BY <2>1
    <3> HIDE DEF j
    <3>3. j - 0 \notin m[k] /\ j - ByteBits \notin m[k + 1]
          /\ j - 3 * ByteBits \notin m[k + 3]
      BY <1>1, <1>4, <2>2, <3>1
    <3>4. j \in w <=> i \in m[k + 2]
      BY <1>3, <1>6, <3>1, <3>2, <3>3
    <3>5. QED
      BY <3>4 DEF j
  <2>6. i + 3 * ByteBits \in w <=> i \in m[k + 3]
    <3> DEFINE j == i + 3 * ByteBits
    <3>1. /\ j - 0 >= ByteBits /\ j - ByteBits >= ByteBits
          /\ j - 2 * ByteBits >= ByteBits /\ j - 3 * ByteBits = i
          /\ j - 0 \in Int /\ j - ByteBits \in Int /\ j - 2 * ByteBits \in Int
      BY <1>4 DEF Bits
    <3>2. j \in Bits(WIDTH)
      BY <2>1
    <3> HIDE DEF j
    <3>3. j - 0 \notin m[k] /\ j - ByteBits \notin m[k + 1]
          /\ j - 2 * ByteBits \notin m[k + 2]
      BY <1>1, <1>4, <2>2, <3>1
    <3>4. j \in w <=> i \in m[k + 3]
      BY <1>3, <1>6, <3>1, <3>2, <3>3
    <3>5. QED
      BY <3>4 DEF j
  <2>7. QED
    BY <2>3, <2>4, <2>5, <2>6
<1>9. QED
  BY <1>7, <1>8 DEF w

(* Four bytes, and two pieces, as update_crc32 takes them in.              *)
LEMMA ToolStepwise ==
  ASSUME NEW r, NEW m \in Seq(Byte)
  PROVE  \E f : /\ f[0] = r
                /\ \A k \in 1 .. Len(m) : f[k] = update_crc32[m[k]][f[k - 1]]
                /\ Through(update_crc32, r, m) = f[Len(m)]
<1> DEFINE step == update_crc32
<1> HIDE DEF step
<1>1. \E f : /\ f[0] = r
             /\ \A k \in 1 .. Len(m) : f[k] = step[m[k]][f[k - 1]]
             /\ Through(step, r, m) = f[Len(m)]
  BY ThroughSteps
<1>2. QED
  BY <1>1 DEF step

LEMMA ToolPieces ==
  ASSUME NEW r, NEW a \in Seq(Byte), NEW b \in Seq(Byte)
  PROVE  Through(update_crc32, r, a \o b)
           = Through(update_crc32, Through(update_crc32, r, a), b)
<1> DEFINE step == update_crc32
<1> HIDE DEF step
<1>1. Through(step, r, a \o b) = Through(step, Through(step, r, a), b)
  BY ThroughPieces
<1>2. QED
  BY <1>1 DEF step

(* Taking in a word is taking in its four bytes.                           *)
LEMMA WordIsFour ==
  ASSUME dwpoly = Mirror(POLYNOMIAL), NEW r \in Remainder,
         NEW m \in Seq(Byte), NEW k \in 1 .. Len(m) - 3
  PROVE  Through(update_crc32, SymDiff(r, WordAt(m, k)), <<{}, {}, {}, {}>>)
           = Through(update_crc32, r, SubSeq(m, k, k + 3))
<1> DEFINE w0 == WordAt(m, k)
           w1 == ShiftRight(w0, ByteBits)
           w2 == ShiftRight(w1, ByteBits)
           w3 == ShiftRight(w2, ByteBits)
           w4 == ShiftRight(w3, ByteBits)
           four == SubSeq(m, k, k + 3)
           zeros == <<{}, {}, {}, {}>>
           r1 == update_crc32[m[k]][r]
           r2 == update_crc32[m[k + 1]][r1]
           r3 == update_crc32[m[k + 2]][r2]
           r4 == update_crc32[m[k + 3]][r3]
<1>1. /\ m[k] \in Byte /\ m[k + 1] \in Byte /\ m[k + 2] \in Byte
      /\ m[k + 3] \in Byte
  OBVIOUS
<1>2. /\ four \in Seq(Byte) /\ Len(four) = 4 /\ four[1] = m[k]
      /\ four[2] = m[k + 1] /\ four[3] = m[k + 2] /\ four[4] = m[k + 3]
  OBVIOUS
<1>3. /\ zeros \in Seq(Byte) /\ Len(zeros) = 4 /\ zeros[1] = {}
      /\ zeros[2] = {} /\ zeros[3] = {} /\ zeros[4] = {}
  BY DEF Byte
<1> HIDE DEF four, zeros
<1>4. Through(update_crc32, r, four) = r4
  <2>1. four \in Seq(Byte)
    BY <1>2
  <2>2. PICK f : /\ f[0] = r
                 /\ \A i \in 1 .. Len(four) : f[i] = update_crc32[four[i]][f[i - 1]]
                 /\ Through(update_crc32, r, four) = f[Len(four)]
    BY <2>1, ToolStepwise
  <2>3. /\ f[1] = update_crc32[four[1]][f[0]]
        /\ f[2] = update_crc32[four[2]][f[1]]
        /\ f[3] = update_crc32[four[3]][f[2]]
        /\ f[4] = update_crc32[four[4]][f[3]]
        /\ Through(update_crc32, r, four) = f[4]
    BY <1>2, <2>2
  <2>4. QED
    BY <1>2, <2>2, <2>3
<1>5. /\ w0 \in Remainder
      /\ \A i \in Bits(ByteBits) :
           /\ i \in w0 <=> i \in m[k]
           /\ i + ByteBits \in w0 <=> i \in m[k + 1]
           /\ i + 2 * ByteBits \in w0 <=> i \in m[k + 2]
           /\ i + 3 * ByteBits \in w0 <=> i \in m[k + 3]
  BY WordMember
<1> HIDE DEF w0, w1, w2, w3, w4
<1>6. ByteBits \in Nat /\ WIDTH = 4 * ByteBits /\ Bits(ByteBits) \subseteq Bits(WIDTH)
  BY CrcAssumption DEF Bits
<1>7. /\ w1 \in Remainder /\ w2 \in Remainder /\ w3 \in Remainder
      /\ w4 \in Remainder
      /\ \A i \in Bits(WIDTH) : /\ i \in w1 <=> i + ByteBits \in w0
                                /\ i \in w2 <=> i + ByteBits \in w1
                                /\ i \in w3 <=> i + ByteBits \in w2
                                /\ i \in w4 <=> i + ByteBits \in w3
  BY <1>5, <1>6, ShiftMember DEF w1, w2, w3, w4
<1>8. /\ LowByte(w0) = m[k] /\ LowByte(w1) = m[k + 1]
      /\ LowByte(w2) = m[k + 2] /\ LowByte(w3) = m[k + 3]
  <2>1. \A i \in Bits(ByteBits) :
          /\ i \in Bits(WIDTH) /\ i + ByteBits \in Bits(WIDTH)
          /\ i + 2 * ByteBits \in Bits(WIDTH)
          /\ i + ByteBits + ByteBits = i + 2 * ByteBits
          /\ i + 2 * ByteBits + ByteBits = i + 3 * ByteBits
    BY <1>6 DEF Bits
  <2>2. \A i \in Bits(ByteBits) : i \in w1 <=> i \in m[k + 1]
    BY <1>5, <1>7, <2>1
  <2>3. \A i \in Bits(ByteBits) : i \in w2 <=> i \in m[k + 2]
    BY <1>5, <1>7, <2>1
  <2>4. \A i \in Bits(ByteBits) : i \in w3 <=> i \in m[k + 3]
    BY <1>5, <1>7, <2>1
  <2>5. \A x, b : b \in Byte /\ (\A i \in Bits(ByteBits) : i \in x <=> i \in b)
                    => LowByte(x) = b
    BY DEF LowByte, Byte
  <2>6. QED
    BY <1>1, <1>5, <2>2, <2>3, <2>4, <2>5
<1>9. w4 = {}
  <2>1. ASSUME NEW i \in w4 PROVE FALSE
    <3>1. i \in Bits(WIDTH) /\ i + ByteBits \in w3
      BY <1>7, <2>1 DEF Remainder
    <3>2. i + ByteBits \in Bits(WIDTH) /\ i + ByteBits + ByteBits \in w2
      BY <1>7, <3>1 DEF Remainder
    <3>3. /\ i + ByteBits + ByteBits \in Bits(WIDTH)
          /\ i + ByteBits + ByteBits + ByteBits \in w1
      BY <1>7, <3>2 DEF Remainder
    <3>4. /\ i + ByteBits + ByteBits + ByteBits \in Bits(WIDTH)
          /\ i + ByteBits + ByteBits + ByteBits + ByteBits \in w0
      BY <1>7, <3>3 DEF Remainder
    <3>5. i + ByteBits + ByteBits + ByteBits + ByteBits \in Bits(WIDTH)
      BY <1>5, <3>4 DEF Remainder
    <3>6. QED
      BY <1>6, <3>1, <3>5 DEF Bits
  <2>2. QED
    BY <2>1
<1>10. /\ r1 \in Remainder
      /\ update_crc32[{}][SymDiff(r, w0)] = SymDiff(r1, w1)
  BY <1>1, <1>5, <1>8, EarlyByte DEF w1
<1> HIDE DEF r1
<1>11. /\ r2 \in Remainder
       /\ update_crc32[{}][SymDiff(r1, w1)] = SymDiff(r2, w2)
  BY <1>1, <1>7, <1>8, <1>10, EarlyByte DEF w2
<1> HIDE DEF r2
<1>12. /\ r3 \in Remainder
       /\ update_crc32[{}][SymDiff(r2, w2)] = SymDiff(r3, w3)
  BY <1>1, <1>7, <1>8, <1>11, EarlyByte DEF w3
<1> HIDE DEF r3
<1>13. update_crc32[{}][SymDiff(r3, w3)] = SymDiff(r4, w4)
  BY <1>1, <1>7, <1>8, <1>12, EarlyByte DEF w4
<1>14. SymDiff(r4, w4) = r4
  BY <1>9 DEF SymDiff
<1>15. Through(update_crc32, SymDiff(r, w0), zeros)
         = update_crc32[{}][update_crc32[{}][update_crc32[{}]
             [update_crc32[{}][SymDiff(r, w0)]]]]
  <2> DEFINE x == SymDiff(r, w0)
  <2> HIDE DEF x
  <2>1. zeros \in Seq(Byte)
    BY <1>3
  <2>2. PICK f : /\ f[0] = x
                 /\ \A i \in 1 .. Len(zeros) : f[i] = update_crc32[zeros[i]][f[i - 1]]
                 /\ Through(update_crc32, x, zeros) = f[Len(zeros)]
    BY <2>1, ToolStepwise
  <2>3. /\ f[1] = update_crc32[zeros[1]][f[0]]
        /\ f[2] = update_crc32[zeros[2]][f[1]]
        /\ f[3] = update_crc32[zeros[3]][f[2]]
        /\ f[4] = update_crc32[zeros[4]][f[3]]
        /\ Through(update_crc32, x, zeros) = f[4]
    <3>1. Len(zeros) = 4
      BY <1>3
    <3>2. QED
      BY <3>1, <2>2
  <2>4. QED
    BY <1>3, <2>2, <2>3 DEF x
<1>16. QED
  BY <1>4, <1>10, <1>11, <1>12, <1>13, <1>14, <1>15 DEF w0, four, zeros

(* So a row of words is a row of bytes.                                    *)
LEMMA WordsAreBytes ==
  ASSUME dwpoly = Mirror(POLYNOMIAL), NEW r \in Remainder, NEW m \in Seq(Byte),
         NEW align \in 0 .. Len(m), NEW words \in Nat,
         align + 4 * words <= Len(m)
  PROVE  Through(WordStep(crc32table_le), r,
                 [w \in 1 .. words |-> WordAt(m, align + 4 * w - 3)])
           = Through(update_crc32, r, SubSeq(m, align + 1, align + 4 * words))
<1> DEFINE loaded == [w \in 1 .. words |-> WordAt(m, align + 4 * w - 3)]
           step == WordStep(crc32table_le)
           Upto(w) == SubSeq(m, align + 1, align + 4 * w)
<1>1. ASSUME NEW w \in 1 .. words
      PROVE  /\ align + 4 * w - 3 \in 1 .. Len(m) - 3
             /\ WordAt(m, align + 4 * w - 3) \in Remainder
  <2>1. align + 4 * w - 3 \in 1 .. Len(m) - 3
    OBVIOUS
  <2>2. QED
    BY <2>1, WordMember
<1>2. loaded \in Seq(Remainder) /\ Len(loaded) = words
      /\ \A w \in 1 .. words : loaded[w] = WordAt(m, align + 4 * w - 3)
  BY <1>1
<1> HIDE DEF loaded, step
<1>3. loaded \in Seq(Remainder)
  BY <1>2
<1>4. PICK f : /\ f[0] = r
               /\ \A w \in 1 .. Len(loaded) : f[w] = step[loaded[w]][f[w - 1]]
               /\ Through(step, r, loaded) = f[Len(loaded)]
  BY <1>3, ThroughSteps
<1>5. ASSUME NEW w \in 0 .. words
      PROVE  Upto(w) \in Seq(Byte) /\ Through(update_crc32, r, Upto(w)) \in Remainder
  <2>1. Upto(w) \in Seq(Byte)
    <3>1. align + 4 * w <= Len(m)
      OBVIOUS
    <3>2. QED
      BY <3>1
  <2>2. QED
    BY <2>1, ToolSteps, ThroughStays
<1> DEFINE Bad == {w \in 0 .. words : f[w] # Through(update_crc32, r, Upto(w))}
<1>6. words \in Nat /\ Bad \subseteq 0 .. words
  OBVIOUS
<1>7. 0 \notin Bad
  <2>1. Upto(0) \in Seq(Byte) /\ Len(Upto(0)) = 0
    OBVIOUS
  <2>2. Through(update_crc32, r, Upto(0)) = r
    BY <2>1, ThroughNone
  <2>3. QED
    BY <1>4, <2>2
<1>8. ASSUME NEW w \in 1 .. words, w - 1 \notin Bad PROVE w \notin Bad
  <2> DEFINE t == Through(update_crc32, r, Upto(w - 1))
             k == align + 4 * w - 3
  <2>1. w - 1 \in 0 .. words /\ w \in 0 .. words
    OBVIOUS
  <2>2. f[w - 1] = t /\ t \in Remainder /\ Upto(w - 1) \in Seq(Byte)
    BY <1>5, <1>8, <2>1
  <2>3. k \in 1 .. Len(m) - 3 /\ WordAt(m, k) \in Remainder
    BY <1>1
  <2>4. Upto(w) = Upto(w - 1) \o SubSeq(m, k, k + 3)
    <3>1. /\ align + 1 \in 1 .. Len(m) + 1
          /\ align + 4 * (w - 1) \in (align + 1) - 1 .. Len(m)
          /\ align + 4 * w \in align + 4 * (w - 1) .. Len(m)
          /\ align + 4 * (w - 1) + 1 = k /\ k + 3 = align + 4 * w
      OBVIOUS
    <3>2. QED
      BY <3>1, ConcatAdjacentSubSeq
  <2>5. f[w] = step[WordAt(m, k)][t]
    BY <1>2, <1>4, <2>2
  <2> HIDE DEF t, k
  <2>6. step[WordAt(m, k)][t]
          = Through(ByteStep(crc32table_le), SymDiff(t, WordAt(m, k)),
                    <<{}, {}, {}, {}>>)
    BY <2>2, <2>3 DEF step, WordStep
  <2>7. step[WordAt(m, k)][t] = Through(update_crc32, t, SubSeq(m, k, k + 3))
    BY <2>2, <2>3, <2>6, ByteStepSame, WordIsFour
  <2>8. SubSeq(m, k, k + 3) \in Seq(Byte)
    BY <2>3
  <2> HIDE DEF Upto
  <2>9. Upto(w - 1) \in Seq(Byte) /\ t = Through(update_crc32, r, Upto(w - 1))
    BY <2>2 DEF t
  <2>10. Through(update_crc32, r, Upto(w - 1) \o SubSeq(m, k, k + 3))
           = Through(update_crc32, Through(update_crc32, r, Upto(w - 1)),
                     SubSeq(m, k, k + 3))
    BY <2>8, <2>9, ToolPieces
  <2>11. f[w] = Through(update_crc32, r, Upto(w))
    BY <2>4, <2>5, <2>7, <2>9, <2>10
  <2>12. QED
    BY <2>11
<1> HIDE DEF Bad
<1>9. Bad = {}
  BY <1>6, <1>7, <1>8, NoneFails
<1>10. f[words] = Through(update_crc32, r, Upto(words))
  BY <1>6, <1>9 DEF Bad
<1>11. QED
  BY <1>2, <1>4, <1>10 DEF loaded, step

(* Wherever a message lies in memory, crc32_le makes of it what taking it  *)
(* byte by byte makes of it.                                               *)
THEOREM WordsTheorem ==
  ASSUME dwpoly = Mirror(POLYNOMIAL), NEW crc \in Remainder,
         NEW m \in Seq(Byte), NEW addr \in Nat
  PROVE  crc32_le(crc, m, addr) = Through(update_crc32, crc, m)
<1> DEFINE len == Len(m)
           to == (4 - (addr % 4)) % 4
           align == Min({len, to})
           words == (len - align) \div 4
           rest == align + 4 * words
           head == SubSeq(m, 1, align)
           body == SubSeq(m, align + 1, rest)
           tail == SubSeq(m, rest + 1, len)
           aligned == Through(update_crc32, crc, head)
           inWords == Through(WordStep(crc32table_le), aligned,
                        [w \in 1 .. words |-> WordAt(m, align + 4 * w - 3)])
<1>1. crc32_le(crc, m, addr) = Through(update_crc32, inWords, tail)
  BY ByteStepSame DEF crc32_le, InWords
<1>2. len \in Nat /\ to \in 0 .. 3
  <2>1. addr % 4 \in 0 .. 3
    OBVIOUS
  <2>2. 4 - (addr % 4) \in Nat
    BY <2>1
  <2>3. QED
    BY <2>2
<1>3. align \in 0 .. len
  <2> HIDE DEF to, len
  <2>1. Min({len, to}) \in {len, to} /\ Min({len, to}) <= len
    <3>1. \E x \in {len, to} : \A y \in {len, to} : x <= y
      BY <1>2
    <3>2. QED
      BY <3>1 DEF Min
  <2>2. QED
    BY <1>2, <2>1
<1> HIDE DEF len, to, align
<1>4. words \in Nat /\ rest \in align .. len
  BY <1>2, <1>3
<1> HIDE DEF words
<1>5. head \in Seq(Byte) /\ body \in Seq(Byte) /\ tail \in Seq(Byte)
  <2>1. /\ \A i \in 1 .. align : m[i] \in Byte
        /\ \A i \in align + 1 .. rest : m[i] \in Byte
        /\ \A i \in rest + 1 .. len : m[i] \in Byte
    BY <1>2, <1>3, <1>4 DEF len
  <2>2. /\ align \in Int /\ align + 1 \in Int /\ rest \in Int
        /\ rest + 1 \in Int /\ len \in Int /\ 1 \in Int
    BY <1>2, <1>3, <1>4
  <2>3. QED
    BY <2>1, <2>2, SubSeqProperties
<1>6. m = head \o (body \o tail)
  <2>1. body \o tail = SubSeq(m, align + 1, len)
    <3>1. /\ align + 1 \in 1 .. Len(m) + 1
          /\ rest \in (align + 1) - 1 .. Len(m)
          /\ len \in rest .. Len(m)
      BY <1>2, <1>3, <1>4 DEF len
    <3> HIDE DEF rest
    <3>2. QED
      BY <3>1, ConcatAdjacentSubSeq
  <2>2. head \o SubSeq(m, align + 1, len) = SubSeq(m, 1, len)
    <3>1. /\ 1 \in 1 .. Len(m) + 1
          /\ align \in 1 - 1 .. Len(m)
          /\ len \in align .. Len(m)
      BY <1>2, <1>3 DEF len
    <3>2. QED
      BY <3>1, ConcatAdjacentSubSeq
  <2>3. SubSeq(m, 1, len) = m
    BY DEF len
  <2>4. QED
    BY <2>1, <2>2, <2>3
<1>7. aligned \in Remainder
  BY <1>5, ToolSteps, ThroughStays
<1> HIDE DEF head, tail, aligned
<1>8. inWords = Through(update_crc32, aligned, body)
  <2>1. align \in 0 .. Len(m) /\ align + 4 * words <= Len(m)
    BY <1>2, <1>3, <1>4 DEF len
  <2>2. QED
    BY <1>4, <1>7, <2>1, WordsAreBytes
<1> HIDE DEF inWords, body
<1>9. body \o tail \in Seq(Byte)
  BY <1>5
<1>10. Through(update_crc32, crc, head \o (body \o tail))
         = Through(update_crc32, aligned, body \o tail)
  <2> DEFINE behind == body \o tail
  <2>1. head \in Seq(Byte) /\ behind \in Seq(Byte)
    BY <1>5, <1>9
  <2> HIDE DEF behind
  <2>2. Through(update_crc32, crc, head \o behind)
          = Through(update_crc32, Through(update_crc32, crc, head), behind)
    BY <2>1, ToolPieces
  <2>3. QED
    BY <2>2 DEF aligned, behind
<1>11. Through(update_crc32, aligned, body \o tail)
         = Through(update_crc32, inWords, tail)
  <2>1. body \in Seq(Byte) /\ tail \in Seq(Byte)
    BY <1>5
  <2>2. Through(update_crc32, aligned, body \o tail)
          = Through(update_crc32, Through(update_crc32, aligned, body), tail)
    BY <2>1, ToolPieces
  <2>3. QED
    BY <1>8, <2>2
<1>12. QED
  BY <1>1, <1>6, <1>10, <1>11

(* "Or the previous crc32 value if computing incrementally": taken in two  *)
(* pieces, a message has the CRC that crcFast computes of the whole.       *)
THEOREM PiecesTheorem ==
  ASSUME dwpoly = Mirror(POLYNOMIAL), NEW m \in Seq(Byte),
         NEW n \in 0 .. Len(m), NEW addr \in Nat
  PROVE  crc32_le(crc32_le(INITIAL_REMAINDER, SubSeq(m, 1, n), addr),
                  SubSeq(m, n + 1, Len(m)), addr + n) = crcFast(m)
<1> DEFINE first == SubSeq(m, 1, n)
           second == SubSeq(m, n + 1, Len(m))
           crc == Through(update_crc32, INITIAL_REMAINDER, first)
<1>1. first \in Seq(Byte) /\ second \in Seq(Byte) /\ m = first \o second
  <2>1. 1 \in 1 .. Len(m) + 1 /\ n \in 1 - 1 .. Len(m) /\ Len(m) \in n .. Len(m)
    OBVIOUS
  <2>2. first \o second = SubSeq(m, 1, Len(m))
    BY <2>1, ConcatAdjacentSubSeq
  <2>3. first \in Seq(Byte) /\ second \in Seq(Byte) /\ SubSeq(m, 1, Len(m)) = m
    OBVIOUS
  <2>4. QED
    BY <2>2, <2>3
<1> HIDE DEF first, second
<1>2. INITIAL_REMAINDER \in Remainder /\ addr + n \in Nat
  BY StartMirrored
<1>3. crc \in Remainder
  BY <1>1, <1>2, ToolSteps, ThroughStays
<1>4. crc32_le(INITIAL_REMAINDER, first, addr) = crc
  BY <1>1, <1>2, WordsTheorem
<1> HIDE DEF crc
<1>5. crc32_le(crc, second, addr + n) = Through(update_crc32, crc, second)
  BY <1>1, <1>2, <1>3, WordsTheorem
<1>6. Through(update_crc32, INITIAL_REMAINDER, first \o second)
        = Through(update_crc32, crc, second)
  BY <1>1, ToolPieces DEF crc
<1>7. Through(update_crc32, INITIAL_REMAINDER, m) = crcFast(m)
  BY ToolTheorem
<1>8. QED
  BY <1>1, <1>4, <1>5, <1>6, <1>7 DEF first, second
=============================================================================

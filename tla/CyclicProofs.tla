---------------------------- MODULE CyclicProofs ----------------------------
(* Theorems about the check sequence of Codewords, for every codeword.     *)
EXTENDS Link, FiniteSetTheorems, WellFoundedInduction, TLAPS

(* Induction over the natural numbers, for a property given as the set of  *)
(* the numbers that have it.                                               *)
LEMMA Induction ==
  ASSUME NEW S, 0 \in S, \A n \in Nat : n \in S => n + 1 \in S
  PROVE  Nat \subseteq S
<1> DEFINE R == OpToRel(<, Nat)
           T == Nat \ S
<1>1. IsWellFoundedOn(R, Nat)
  BY NatLessThanWellFounded
<1>2. \A x, y \in Nat : x < y => <<x, y>> \in R
  BY DEF OpToRel
<1> HIDE DEF R
<1>3. ASSUME T # {} PROVE FALSE
  <2>1. \E x \in T : \A y \in T : <<y, x>> \notin R
    BY <1>1, <1>3, WFMin
  <2>2. PICK x \in T : \A y \in T : <<y, x>> \notin R
    BY <2>1
  <2>3. x - 1 \in T /\ x - 1 < x
    BY <2>2
  <2> QED BY <1>2, <2>2, <2>3
<1> QED BY <1>3

(* The same up to a bound.                                                 *)
LEMMA InductionTo ==
  ASSUME NEW m \in Nat, NEW S, 0 \in S, \A n \in 0..m - 1 : n \in S => n + 1 \in S
  PROVE  0..m \subseteq S
<1> DEFINE T == S \cup {n \in Nat : n > m}
<1>1. 0 \in T /\ \A n \in Nat : n \in T => n + 1 \in T
  OBVIOUS
<1> HIDE DEF T
<1>2. Nat \subseteq T
  BY <1>1, Induction
<1> QED BY <1>2 DEF T

-----------------------------------------------------------------------------
(* The register of the cyclic code, bit by bit                             *)

Carry(cw, n, last) == (48 - n \in cw) # (15 \in last)

Grown(cw, n, last) ==
  Shifted(IF Carry(cw, n, last) THEN Xor(last, Generator) ELSE last, 1) \cap 0..15

IsCk(cw, steps, ck) ==
  ck = [n \in 0..steps |-> IF n = 0 THEN {} ELSE Grown(cw, n, ck[n - 1])]

Ck(cw) == CHOOSE ck : IsCk(cw, 48, ck)

LEMMA CkExists == ASSUME NEW cw, NEW steps \in Nat PROVE \E ck : IsCk(cw, steps, ck)
<1> DEFINE S == {n \in Nat : \E ck : IsCk(cw, n, ck)}
<1>1. 0 \in S
  <2> DEFINE f == [n \in 0..0 |-> {}]
  <2>1. f = [n \in 0..0 |-> IF n = 0 THEN {} ELSE Grown(cw, n, f[n - 1])]
    OBVIOUS
  <2> QED BY <2>1 DEF IsCk
<1>2. ASSUME NEW n \in Nat, n \in S PROVE n + 1 \in S
  <2>1. PICK f : IsCk(cw, n, f)
    BY <1>2
  <2> DEFINE g == [k \in 0..n + 1 |-> IF k = n + 1 THEN Grown(cw, k, f[n]) ELSE f[k]]
  <2>2. \A k \in 0..n : f[k] = IF k = 0 THEN {} ELSE Grown(cw, k, f[k - 1])
    <3> HIDE DEF g
    <3> QED BY <2>1 DEF IsCk
  <2>3. (\A k \in 0..n : g[k] = f[k]) /\ g[n + 1] = Grown(cw, n + 1, f[n])
    OBVIOUS
  <2>4. g = [k \in 0..n + 1 |-> g[k]]
    OBVIOUS
  <2> HIDE DEF g
  <2>5. \A k \in 0..n + 1 : g[k] = IF k = 0 THEN {} ELSE Grown(cw, k, g[k - 1])
    <3> SUFFICES ASSUME NEW k \in 0..n + 1
                 PROVE  g[k] = IF k = 0 THEN {} ELSE Grown(cw, k, g[k - 1])
      OBVIOUS
    <3>1. k # 0 => k - 1 \in 0..n
      OBVIOUS
    <3>2. CASE k = n + 1
      <4>1. k # 0 /\ g[k - 1] = f[n]
        BY <2>3, <3>2
      <4> QED BY <2>3, <3>2, <4>1
    <3>3. CASE k # n + 1
      <4>1. k \in 0..n /\ g[k] = f[k] /\ (k # 0 => g[k - 1] = f[k - 1])
        BY <2>3, <3>1, <3>3
      <4> QED BY <2>2, <4>1
    <3> QED BY <3>2, <3>3
  <2>6. g = [k \in 0..n + 1 |-> IF k = 0 THEN {} ELSE Grown(cw, k, g[k - 1])]
    BY <2>4, <2>5
  <2> QED BY <2>6 DEF IsCk
<1> HIDE DEF S
<1>3. Nat \subseteq S
  BY <1>1, <1>2, Induction
<1> QED BY <1>3 DEF S

LEMMA RemainderSteps ==
  ASSUME NEW cw
  PROVE  /\ Remainder(cw, 48) = Ck(cw)[48]
         /\ Ck(cw)[0] = {}
         /\ \A n \in 0..47 : Ck(cw)[n + 1] = Grown(cw, n + 1, Ck(cw)[n])
<1>1. IsCk(cw, 48, Ck(cw))
  <2>1. \E ck : IsCk(cw, 48, ck)
    BY CkExists
  <2> QED BY <2>1 DEF Ck
<1>2. Remainder(cw, 48) = Ck(cw)[48]
  BY DEF Remainder, Ck, IsCk, Grown, Carry
<1> DEFINE ck == Ck(cw)
<1> HIDE DEF ck
<1>3. \A n \in 0..48 : ck[n] = IF n = 0 THEN {} ELSE Grown(cw, n, ck[n - 1])
  BY <1>1 DEF IsCk, ck
<1>4. ck[0] = {} /\ \A n \in 0..47 : ck[n + 1] = Grown(cw, n + 1, ck[n])
  <2>1. \A n \in 0..47 : n + 1 \in 0..48 /\ n + 1 # 0 /\ (n + 1) - 1 = n
    OBVIOUS
  <2> QED BY <1>3, <2>1
<1> QED BY <1>2, <1>4 DEF ck

(* One step of the register.                                               *)
LEMMA GrownBits ==
  ASSUME NEW cw, NEW n, NEW last \in SUBSET (0..15)
  PROVE  /\ Grown(cw, n, last) \subseteq 1..15
         /\ \A i \in 1..15 :
              i \in Grown(cw, n, last)
                <=> ~(i - 1 \in last <=> Carry(cw, n, last) /\ i - 1 \in Generator)
<1> DEFINE word == IF Carry(cw, n, last) THEN Xor(last, Generator) ELSE last
<1>1. word \subseteq Nat
  <2>1. last \subseteq Nat /\ Generator \subseteq Nat
    BY DEF Generator, Bits
  <2>2. \A i : i \in word => i \in last \/ i \in Generator
    BY DEF Xor
  <2> HIDE DEF word
  <2>3. \A i : i \in word => i \in Nat
    BY <2>1, <2>2
  <2> QED BY <2>3
<1>2. \A i \in Int :
        i \in word <=> ~(i \in last <=> Carry(cw, n, last) /\ i \in Generator)
  <2>1. CASE Carry(cw, n, last)
    BY <2>1 DEF Xor
  <2>2. CASE ~Carry(cw, n, last)
    BY <2>2
  <2> QED BY <2>1, <2>2
<1> HIDE DEF word
<1>3. \A i \in Int : i \in Shifted(word, 1) <=> i - 1 \in word
  BY <1>1 DEF Shifted
<1>4. \A i \in Shifted(word, 1) : i \in Int /\ i - 1 \in Nat
  BY <1>1 DEF Shifted
<1>5. Grown(cw, n, last) = Shifted(word, 1) \cap 0..15
  BY DEF Grown, word
<1> QED BY <1>2, <1>3, <1>4, <1>5

LEMMA CkBits ==
  ASSUME NEW cw
  PROVE  /\ Ck(cw)[0] = {}
         /\ \A n \in 0..48 : Ck(cw)[n] \subseteq 1..15
         /\ \A n \in 0..47 : \A i \in 1..15 :
              i \in Ck(cw)[n + 1]
                <=> ~(i - 1 \in Ck(cw)[n]
                       <=> ~(47 - n \in cw <=> 15 \in Ck(cw)[n]) /\ i - 1 \in Generator)
<1> DEFINE ck == Ck(cw)
           S == {n \in 0..48 : ck[n] \subseteq 1..15}
<1>1. ck[0] = {} /\ \A n \in 0..47 : ck[n + 1] = Grown(cw, n + 1, ck[n])
  BY RemainderSteps
<1> HIDE DEF ck
<1>2. 0 \in S
  BY <1>1
<1>3. ASSUME NEW n \in 0..47, n \in S PROVE n + 1 \in S
  BY <1>1, <1>3, GrownBits
<1> HIDE DEF S
<1>4. 0..48 \subseteq S
  <2>1. \A n \in 0..48 - 1 : n \in S => n + 1 \in S
    BY <1>3
  <2> QED BY <1>2, <2>1, InductionTo
<1>5. \A n \in 0..48 : ck[n] \subseteq 1..15
  BY <1>4 DEF S
<1>6. ASSUME NEW n \in 0..47, NEW i \in 1..15
      PROVE  i \in ck[n + 1]
               <=> ~(i - 1 \in ck[n] <=> ~(47 - n \in cw <=> 15 \in ck[n]) /\ i - 1 \in Generator)
  <2>1. ck[n] \in SUBSET (0..15)
    BY <1>5
  <2>2. Carry(cw, n + 1, ck[n]) <=> ~(47 - n \in cw <=> 15 \in ck[n])
    <3>1. 48 - (n + 1) = 47 - n
      OBVIOUS
    <3> QED BY <3>1 DEF Carry
  <2> QED BY <1>1, <2>1, <2>2, GrownBits
<1> QED BY <1>1, <1>5, <1>6 DEF ck

(* What is left of a codeword is in the bits 1 to 15.                      *)
LEMMA RemainderBits == \A cw : Remainder(cw, 48) \subseteq 1..15
BY RemainderSteps, CkBits

(* The code is linear.                                                     *)
LEMMA CkLinear ==
  ASSUME NEW a, NEW b
  PROVE  \A n \in 0..48 : Ck(Xor(a, b))[n] = Xor(Ck(a)[n], Ck(b)[n])
<1> DEFINE c == Xor(a, b)
           S == {n \in 0..48 : Ck(c)[n] = Xor(Ck(a)[n], Ck(b)[n])}
<1>1. 0 \in S
  BY CkBits DEF Xor
<1>2. ASSUME NEW n \in 0..47, n \in S PROVE n + 1 \in S
  <2> DEFINE A == Ck(a)[n]
             B == Ck(b)[n]
             C == Ck(c)[n]
             AA == Ck(a)[n + 1]
             BB == Ck(b)[n + 1]
             CC == Ck(c)[n + 1]
  <2>1. /\ A \subseteq 1..15 /\ B \subseteq 1..15 /\ C \subseteq 1..15
        /\ AA \subseteq 1..15 /\ BB \subseteq 1..15 /\ CC \subseteq 1..15
    BY CkBits
  <2>2. C = Xor(A, B)
    BY <1>2
  <2>3. /\ \A i : i \in C <=> ~(i \in A <=> i \in B)
        /\ 47 - n \in c <=> ~(47 - n \in a <=> 47 - n \in b)
    BY <2>2 DEF Xor
  <2>4. \A i \in 1..15 :
          /\ i \in AA <=> ~(i - 1 \in A <=> ~(47 - n \in a <=> 15 \in A) /\ i - 1 \in Generator)
          /\ i \in BB <=> ~(i - 1 \in B <=> ~(47 - n \in b <=> 15 \in B) /\ i - 1 \in Generator)
          /\ i \in CC <=> ~(i - 1 \in C <=> ~(47 - n \in c <=> 15 \in C) /\ i - 1 \in Generator)
    BY CkBits
  <2> HIDE DEF A, B, C, AA, BB, CC, c
  <2>5. \A i \in 1..15 : i \in CC <=> ~(i \in AA <=> i \in BB)
    BY <2>3, <2>4
  <2>6. CC = Xor(AA, BB)
    BY <2>1, <2>5 DEF Xor
  <2> QED BY <2>6 DEF AA, BB, CC
<1> HIDE DEF S
<1>3. 0..48 \subseteq S
  <2>1. \A n \in 0..48 - 1 : n \in S => n + 1 \in S
    BY <1>2
  <2> QED BY <1>1, <2>1, InductionTo
<1> QED BY <1>3 DEF S

LEMMA RemainderLinear ==
  \A a, b : Remainder(Xor(a, b), 48) = Xor(Remainder(a, 48), Remainder(b, 48))
<1> SUFFICES ASSUME NEW a, NEW b
             PROVE  Remainder(Xor(a, b), 48) = Xor(Remainder(a, 48), Remainder(b, 48))
  OBVIOUS
<1>1. \A cw : Remainder(cw, 48) = Ck(cw)[48]
  BY RemainderSteps
<1>2. Ck(Xor(a, b))[48] = Xor(Ck(a)[48], Ck(b)[48])
  BY CkLinear
<1> QED BY <1>1, <1>2

-----------------------------------------------------------------------------
(* Parity                                                                  *)

Odd(number) == Cardinality(number) % 2 = 1

LEMMA OddSum ==
  ASSUME NEW a \in Nat, NEW b \in Nat
  PROVE  (a + b) % 2 = 1 <=> ~(a % 2 = 1 <=> b % 2 = 1)
OBVIOUS

LEMMA OddEmpty == ~Odd({})
BY FS_EmptySet DEF Odd

LEMMA OddJoined ==
  ASSUME NEW a, IsFiniteSet(a), NEW b, IsFiniteSet(b), a \cap b = {}
  PROVE  /\ IsFiniteSet(a \cup b)
         /\ Odd(a \cup b) <=> ~(Odd(a) <=> Odd(b))
<1>1. Cardinality(a) \in Nat /\ Cardinality(b) \in Nat
  BY FS_CardinalityType
<1>2. IsFiniteSet(a \cup b) /\ Cardinality(a \cup b) = Cardinality(a) + Cardinality(b)
  <2>1. /\ IsFiniteSet(a \cup b)
        /\ Cardinality(a \cup b) = Cardinality(a) + Cardinality(b) - Cardinality(a \cap b)
    BY FS_Union
  <2>2. Cardinality(a \cap b) = 0
    BY FS_EmptySet
  <2> QED BY <1>1, <2>1, <2>2
<1> QED BY <1>1, <1>2, OddSum DEF Odd

LEMMA OddXor ==
  ASSUME NEW a, IsFiniteSet(a), NEW b, IsFiniteSet(b)
  PROVE  /\ IsFiniteSet(Xor(a, b))
         /\ Odd(Xor(a, b)) <=> ~(Odd(a) <=> Odd(b))
<1>1. IsFiniteSet(a \ b) /\ IsFiniteSet(b \ a) /\ IsFiniteSet(a \cap b)
  BY FS_Difference, FS_Intersection
<1>2. /\ Odd(a) <=> ~(Odd(a \ b) <=> Odd(a \cap b))
      /\ Odd(b) <=> ~(Odd(b \ a) <=> Odd(a \cap b))
  <2>1. (a \ b) \cup (a \cap b) = a /\ (b \ a) \cup (a \cap b) = b
    OBVIOUS
  <2>2. (a \ b) \cap (a \cap b) = {} /\ (b \ a) \cap (a \cap b) = {}
    OBVIOUS
  <2> QED BY <1>1, <2>1, <2>2, OddJoined
<1>3. /\ IsFiniteSet((a \ b) \cup (b \ a))
      /\ Odd((a \ b) \cup (b \ a)) <=> ~(Odd(a \ b) <=> Odd(b \ a))
  <2>1. (a \ b) \cap (b \ a) = {}
    OBVIOUS
  <2> QED BY <1>1, <2>1, OddJoined
<1> QED BY <1>2, <1>3 DEF Xor

LEMMA OddShifted ==
  ASSUME NEW number \in SUBSET Int, IsFiniteSet(number), NEW places \in Int
  PROVE  /\ IsFiniteSet(Shifted(number, places))
         /\ Odd(Shifted(number, places)) <=> Odd(number)
<1> DEFINE T == Shifted(number, places)
           f == [i \in number |-> i + places]
<1>1. \A i \in number : f[i] = i + places
  OBVIOUS
<1>2. f \in [number -> T]
  BY DEF Shifted
<1>3. \A k \in T : \E i \in number : f[i] = k
  BY DEF Shifted
<1> HIDE DEF f, T
<1>4. \A i, j \in number : f[i] = f[j] => i = j
  BY <1>1
<1>5. f \in Bijection(number, T)
  BY <1>2, <1>3, <1>4 DEF Bijection, Injection, Surjection, IsInjective
<1>6. ExistsBijection(number, T)
  BY <1>5 DEF ExistsBijection
<1>7. IsFiniteSet(T) /\ Cardinality(T) = Cardinality(number)
  BY <1>6, FS_Bijection
<1> QED BY <1>7 DEF Odd, T

LEMMA FiniteBits == \A number \in SUBSET (0..63) : IsFiniteSet(number)
<1>1. IsFiniteSet(0..63)
  <2>1. 0 \in Int /\ 63 \in Int
    OBVIOUS
  <2> QED BY <2>1, FS_Interval, Zenon
<1> QED BY <1>1, FS_Subset

-----------------------------------------------------------------------------
(* A check sequence has sixteen bits, whatever the cyclic code makes of the*)
(* codeword.                                                               *)
LEMMA FcsBits == \A cw : Fcs(cw) \subseteq 0..15
BY DEF Fcs, Checked

(* What is transmitted is the codeword and its check sequence.             *)
LEMMA FcsAdded ==
  ASSUME NEW cw \in SUBSET (0..47)
  PROVE  /\ FcsAdd(cw) \subseteq 0..63
         /\ Codeword(FcsAdd(cw)) = cw
         /\ FcsAdd(cw) \cap 0..15 = Fcs(cw)
<1>1. Fcs(cw) \subseteq 0..15
  BY FcsBits
<1>2. \A i \in Shifted(cw, 16) : i \in 16..63 /\ i - 16 \in cw
  BY DEF Shifted
<1>3. \A i \in cw : i + 16 \in Shifted(cw, 16) /\ i + 16 \notin 0..15
  BY DEF Shifted
<1>4. FcsAdd(cw) \ 0..15 = Shifted(cw, 16)
  BY <1>1, <1>2 DEF FcsAdd
<1>5. Shifted(Shifted(cw, 16), -16) = cw
  <2>1. \A i \in Shifted(Shifted(cw, 16), -16) : i \in cw
    BY <1>2 DEF Shifted
  <2>2. \A i \in cw : (i + 16) + (-16) = i
    OBVIOUS
  <2>3. \A i \in cw : i \in Shifted(Shifted(cw, 16), -16)
    <3> SUFFICES ASSUME NEW i \in cw PROVE i \in Shifted(Shifted(cw, 16), -16)
      OBVIOUS
    <3>1. i + 16 \in Shifted(cw, 16) /\ i = (i + 16) + (-16)
      BY <1>3, <2>2
    <3>2. \A S : \A k \in S : k + (-16) \in Shifted(S, -16)
      BY DEF Shifted
    <3> QED BY <3>1, <3>2
  <2> QED BY <2>1, <2>3
<1>6. FcsAdd(cw) \cap 0..15 = Fcs(cw)
  BY <1>1, <1>2 DEF FcsAdd
<1>7. FcsAdd(cw) \subseteq 0..63
  BY <1>1, <1>2 DEF FcsAdd
<1> QED BY <1>4, <1>5, <1>6, <1>7 DEF Codeword

(* The bits 1 to 15 of the check sequence, and its bit of parity.          *)
LEMMA FcsParts ==
  ASSUME NEW cw
  PROVE  /\ Fcs(cw) \cap 1..15 = Xor(Remainder(cw, 48), {1})
         /\ 0 \in Fcs(cw)
              <=> (Cardinality(cw) + Cardinality(Xor(Remainder(cw, 48), {1}))) % 2 = 1
<1> DEFINE check == Xor(Remainder(cw, 48), {1})
<1>1. check \subseteq 1..15
  BY RemainderBits DEF Xor
<1> HIDE DEF check
<1>2. Fcs(cw) = check \cup {i \in {0} : (Cardinality(cw) + Cardinality(check)) % 2 = 1}
  <2>1. check \cap 1..15 = check
    BY <1>1
  <2> QED BY <2>1 DEF Fcs, Checked, check
<1> QED BY <1>1, <1>2 DEF check

LEMMA FcsOdd ==
  ASSUME NEW cw \in SUBSET (0..63)
  PROVE  0 \in Fcs(cw) <=> ~(Odd(cw) <=> Odd(Fcs(cw) \cap 1..15))
<1> DEFINE check == Xor(Remainder(cw, 48), {1})
<1>1. check \in SUBSET (0..63)
  BY RemainderBits DEF Xor
<1>2. /\ Fcs(cw) \cap 1..15 = check
      /\ 0 \in Fcs(cw) <=> (Cardinality(cw) + Cardinality(check)) % 2 = 1
  BY FcsParts
<1> HIDE DEF check
<1>3. Cardinality(cw) \in Nat /\ Cardinality(check) \in Nat
  BY <1>1, FiniteBits, FS_CardinalityType
<1> QED BY <1>2, <1>3, OddSum DEF Odd

(* What the receiver takes for a codeword has an even number of ones.      *)
LEMMA AcceptedEven ==
  ASSUME NEW register \in SUBSET (0..63), Accepted(register)
  PROVE  ~Odd(register)
<1> DEFINE cw == Codeword(register)
           high == register \ 0..15
           check == register \cap 1..15
           parity == register \cap {0}
<1>1. high \in SUBSET (0..63) /\ check \in SUBSET (0..63) /\ parity \in SUBSET (0..63)
  OBVIOUS
<1>2. cw \in SUBSET (0..63) /\ (Odd(cw) <=> Odd(high))
  <2>1. cw = Shifted(high, -16)
    BY DEF Codeword
  <2>2. high \in SUBSET Int /\ IsFiniteSet(high) /\ -16 \in Int
    BY <1>1, FiniteBits
  <2>3. Odd(cw) <=> Odd(high)
    BY <2>1, <2>2, OddShifted
  <2>4. \A i \in high : i + (-16) \in 0..63
    OBVIOUS
  <2>5. Shifted(high, -16) \subseteq 0..63
    BY <2>4 DEF Shifted
  <2> QED BY <2>1, <2>3, <2>5
<1>3. Fcs(cw) = register \cap 0..15
  BY DEF Accepted
<1> HIDE DEF cw
<1>4. Fcs(cw) \cap 1..15 = check /\ (0 \in Fcs(cw) <=> parity = {0})
  BY <1>3
<1>5. parity = {0} <=> ~(Odd(high) <=> Odd(check))
  BY <1>2, <1>4, FcsOdd
<1>6. Odd(parity) <=> parity = {0}
  <2>1. CASE parity = {0}
    <3>1. Cardinality({0}) = 1
      BY FS_Singleton, Zenon
    <3>2. 1 % 2 = 1
      OBVIOUS
    <3> QED BY <2>1, <3>1, <3>2 DEF Odd
  <2>2. CASE parity # {0}
    <3>1. parity = {}
      BY <2>2
    <3> QED BY <2>2, <3>1, OddEmpty
  <2> QED BY <2>1, <2>2
<1>7. Odd(high \cup check) <=> ~(Odd(high) <=> Odd(check))
  <2>1. high \cap check = {}
    OBVIOUS
  <2> QED BY <1>1, <2>1, FiniteBits, OddJoined
<1>8. Odd((high \cup check) \cup parity) <=> ~(Odd(high \cup check) <=> Odd(parity))
  <2>1. (high \cup check) \cap parity = {} /\ high \cup check \in SUBSET (0..63)
    OBVIOUS
  <2> QED BY <1>1, <2>1, FiniteBits, OddJoined
<1>9. register = (high \cup check) \cup parity
  OBVIOUS
<1> QED BY <1>5, <1>6, <1>7, <1>8, <1>9

-----------------------------------------------------------------------------
(* Errors                                                                  *)

LEMMA CodewordXor ==
  ASSUME NEW a \in SUBSET (0..63), NEW b \in SUBSET (0..63)
  PROVE  /\ Codeword(Xor(a, b)) = Xor(Codeword(a), Codeword(b))
         /\ \A i \in Int : i \in Codeword(a) <=> i >= 0 /\ i + 16 \in a
<1>1. \A r \in SUBSET (0..63) : \A i : i \in Codeword(r) <=> i \in Nat /\ i + 16 \in r
  <2> SUFFICES ASSUME NEW r \in SUBSET (0..63), NEW i
               PROVE  i \in Codeword(r) <=> i \in Nat /\ i + 16 \in r
    OBVIOUS
  <2>1. i \in Codeword(r) <=> \E k \in r \ 0..15 : i = k + (-16)
    BY DEF Codeword, Shifted
  <2>2. ASSUME NEW k \in r \ 0..15, i = k + (-16)
        PROVE  i \in Nat /\ i + 16 = k
    BY <2>2
  <2>3. ASSUME i \in Nat, i + 16 \in r
        PROVE  i + 16 \in r \ 0..15 /\ i = (i + 16) + (-16)
    BY <2>3
  <2>4. i \in Codeword(r) => i \in Nat /\ i + 16 \in r
    BY <2>1, <2>2
  <2>5. i \in Nat /\ i + 16 \in r => i \in Codeword(r)
    BY <2>1, <2>3
  <2> QED BY <2>4, <2>5
<1>2. Xor(a, b) \in SUBSET (0..63)
  BY DEF Xor
<1>3. \A i : i \in Codeword(Xor(a, b)) <=> i \in Xor(Codeword(a), Codeword(b))
  BY <1>1, <1>2 DEF Xor
<1> QED BY <1>1, <1>3

(* A half slot with errors is accepted only if the errors are, by          *)
(* themselves, a codeword of the cyclic code, an even number of them.      *)
LEMMA AcceptedErrors ==
  ASSUME NEW cw \in SUBSET (0..47), NEW noise \in SUBSET (0..63),
         Accepted(Xor(FcsAdd(cw), noise))
  PROVE  /\ ~Odd(noise)
         /\ Remainder(Codeword(noise), 48) = noise \cap 1..15
<1> DEFINE clean == FcsAdd(cw)
           register == Xor(clean, noise)
<1>1. /\ clean \in SUBSET (0..63) /\ Codeword(clean) = cw
      /\ clean \cap 0..15 = Fcs(cw)
  BY FcsAdded
<1>2. register \in SUBSET (0..63)
  BY <1>1 DEF Xor
<1>3. ~Odd(clean) /\ ~Odd(register)
  <2>1. Accepted(clean)
    BY <1>1 DEF Accepted
  <2> HIDE DEF clean
  <2> QED BY <1>1, <1>2, <2>1, AcceptedEven DEF clean
<1> HIDE DEF clean
<1>4. ~Odd(noise)
  <2>1. Odd(register) <=> ~(Odd(clean) <=> Odd(noise))
    BY <1>1, FiniteBits, OddXor
  <2> QED BY <1>3, <2>1
<1>5. Fcs(Xor(cw, Codeword(noise))) = register \cap 0..15
  BY <1>1, CodewordXor DEF Accepted, clean
<1>6. Xor(Remainder(Xor(cw, Codeword(noise)), 48), {1}) = register \cap 1..15
  <2>1. Fcs(Xor(cw, Codeword(noise))) \cap 1..15
          = Xor(Remainder(Xor(cw, Codeword(noise)), 48), {1})
    BY FcsParts
  <2> QED BY <1>5, <2>1
<1>7. Xor(Remainder(cw, 48), {1}) = clean \cap 1..15
  <2>1. Fcs(cw) \cap 1..15 = Xor(Remainder(cw, 48), {1})
    BY FcsParts
  <2> QED BY <1>1, <2>1
<1>8. Remainder(Xor(cw, Codeword(noise)), 48)
        = Xor(Remainder(cw, 48), Remainder(Codeword(noise), 48))
  BY RemainderLinear
<1> DEFINE R == Remainder(cw, 48)
           E == Remainder(Codeword(noise), 48)
<1>9. Xor(Xor(R, E), {1}) = Xor(clean, noise) \cap 1..15 /\ Xor(R, {1}) = clean \cap 1..15
  BY <1>6, <1>7, <1>8
<1> HIDE DEF R, E, register
<1>10. E = noise \cap 1..15
  <2>1. \A i : /\ i \in Xor(Xor(R, E), {1}) <=> i \in Xor(clean, noise) /\ i \in 1..15
               /\ i \in Xor(R, {1}) <=> i \in clean /\ i \in 1..15
    BY <1>9
  <2>2. E \subseteq 1..15
    BY RemainderBits DEF E
  <2>3. \A i : i \in E <=> i \in noise /\ i \in 1..15
    BY <2>1, <2>2 DEF Xor
  <2> QED BY <2>3
<1> QED BY <1>4, <1>10 DEF E

(* No burst is a codeword of the cyclic code, the bit of parity apart: what*)
(* the division leaves of the word always ends fifteen bits below the last *)
(* bit that was carried.                                                   *)
LEMMA BurstRemainder ==
  ASSUME 0 \in Generator, NEW noise \in SUBSET (0..63), Burst(noise),
         Remainder(Codeword(noise), 48) = noise \cap 1..15
  PROVE  noise = {0}
<1> DEFINE e == Codeword(noise)
           ck == Ck(e)
           In(n, i) == ~(i \in noise /\ i <= 63 - n <=> i - (48 - n) \in ck[n])
           Untouched(n) == ck[n] = {} /\ noise \subseteq 0..63 - n
           EndsAt(n, l) == In(n, l) /\ \A i \in 1..l - 1 : ~In(n, i)
           S == {n \in 0..48 : Untouched(n) \/ \E l \in 49 - n..63 - n : l >= 1 /\ EndsAt(n, l)}
<1>1. ck[0] = {} /\ \A n \in 0..48 : ck[n] \subseteq 1..15
  BY CkBits
<1>2. PICK k \in 0..49 : noise \subseteq k..k + 14
  BY DEF Burst
<1>3. 0 \in S
  BY <1>1
<1>4. ASSUME NEW n \in 0..47, n \in S PROVE n + 1 \in S
  <2> DEFINE carry == ~(47 - n \in e <=> 15 \in ck[n])
  <2>1. 47 - n \in e <=> 63 - n \in noise
    <3>1. 47 - n >= 0 /\ 47 - n \in Int /\ (47 - n) + 16 = 63 - n
      OBVIOUS
    <3> QED BY <3>1, CodewordXor
  <2>2. \A i \in 1..15 : i \in ck[n + 1] <=> ~(i - 1 \in ck[n] <=> carry /\ i - 1 \in Generator)
    BY CkBits
  <2>3. ck[n] \subseteq 1..15 /\ ck[n + 1] \subseteq 1..15
    BY <1>1
  <2> HIDE DEF ck, e
  <2>4. carry <=> In(n, 63 - n)
    <3>1. (63 - n) - (48 - n) = 15
      OBVIOUS
    <3> QED BY <2>1, <3>1
  <2> HIDE DEF carry
  <2>5. ASSUME NEW i \in 1..47 - n
        PROVE  In(n + 1, i) <=> In(n, i)
    BY <2>3, <2>5
  <2>6. ASSUME NEW i \in 48 - n..62 - n
        PROVE  In(n + 1, i) <=> ~(In(n, i) <=> carry /\ i - (48 - n) \in Generator)
    <3>1. i - (48 - (n + 1)) \in 1..15 /\ (i - (48 - (n + 1))) - 1 = i - (48 - n)
      OBVIOUS
    <3>2. i <= 63 - n /\ i <= 63 - (n + 1)
      OBVIOUS
    <3> QED BY <2>2, <3>1, <3>2
  <2>7. CASE carry
    <3>1. ~In(n, 48 - n) /\ \A i \in 1..47 - n : ~In(n, i)
      <4>1. CASE Untouched(n)
        <5>1. 63 - n \in noise
          BY <2>4, <2>7, <4>1
        <5>2. \A i \in 1..48 - n : i \notin noise
          BY <1>2, <5>1
        <5> QED BY <4>1, <5>2
      <4>2. CASE \E l \in 49 - n..63 - n : l >= 1 /\ EndsAt(n, l)
        <5> HIDE DEF In
        <5> QED BY <4>2
      <4> QED BY <1>4, <4>1, <4>2
    <3>2. (48 - n) - (48 - n) = 0 /\ 48 - n \in 48 - n..62 - n
      OBVIOUS
    <3> HIDE DEF In
    <3>3. In(n + 1, 48 - n)
      BY <2>6, <2>7, <3>1, <3>2
    <3>4. EndsAt(n + 1, 48 - n)
      BY <2>5, <3>1, <3>3
    <3>5. 48 - n \in 49 - (n + 1)..63 - (n + 1) /\ 48 - n >= 1 /\ n + 1 \in 0..48
      OBVIOUS
    <3> HIDE DEF EndsAt
    <3> QED BY <3>4, <3>5
  <2>8. CASE ~carry
    <3>1. CASE Untouched(n)
      <4>1. ck[n + 1] = {}
        BY <2>2, <2>3, <2>8, <3>1
      <4>2. noise \subseteq 0..63 - (n + 1)
        BY <2>4, <2>8, <3>1
      <4> QED BY <4>1, <4>2
    <3>2. CASE \E l \in 49 - n..63 - n : l >= 1 /\ EndsAt(n, l)
      <4>1. PICK l \in 49 - n..63 - n : l >= 1 /\ EndsAt(n, l)
        BY <3>2
      <4> HIDE DEF In
      <4>2. l # 63 - n
        BY <2>4, <2>8, <4>1
      <4>3. \A i \in 1..62 - n : In(n + 1, i) <=> In(n, i)
        BY <2>5, <2>6, <2>8
      <4>4. l \in 49 - (n + 1)..63 - (n + 1) /\ l >= 1 /\ l \in 1..62 - n
        BY <4>1, <4>2
      <4>5. EndsAt(n + 1, l)
        BY <4>1, <4>3, <4>4
      <4> HIDE DEF EndsAt
      <4> QED BY <4>4, <4>5
    <3> QED BY <1>4, <3>1, <3>2
  <2> QED BY <2>7, <2>8
<1>5. 48 \in S
  <2> HIDE DEF S
  <2>1. \A n \in 0..48 - 1 : n \in S => n + 1 \in S
    BY <1>4
  <2>2. 0..48 \subseteq S
    BY <1>3, <2>1, InductionTo
  <2> QED BY <2>2
<1>6. ck[48] = noise \cap 1..15
  BY RemainderSteps
<1> HIDE DEF ck, e
<1>7. Untouched(48)
  <2>1. \A l \in 1..15 : ~In(48, l)
    BY <1>6
  <2> HIDE DEF In, Untouched
  <2> QED BY <1>5, <2>1
<1>8. noise # {} /\ noise \cap 1..15 = {} /\ noise \subseteq 0..63 - 48
  BY <1>6, <1>7 DEF Burst
<1>9. \A i \in noise : i = 0
  BY <1>8
<1> QED BY <1>8, <1>9

LEMMA BurstOrOdd ==
  ASSUME 0 \in Generator, NEW cw \in SUBSET (0..47), NEW noise \in SUBSET (0..63),
         Odd(noise) \/ Burst(noise)
  PROVE  ~Accepted(Xor(FcsAdd(cw), noise))
<1> SUFFICES ASSUME Accepted(Xor(FcsAdd(cw), noise)) PROVE FALSE
  OBVIOUS
<1>1. ~Odd(noise) /\ Remainder(Codeword(noise), 48) = noise \cap 1..15
  BY AcceptedErrors
<1>2. noise = {0}
  BY <1>1, BurstRemainder
<1>3. Cardinality({0}) = 1
  BY FS_Singleton, Zenon
<1>4. 1 % 2 = 1
  OBVIOUS
<1> QED BY <1>1, <1>2, <1>3, <1>4 DEF Odd

-----------------------------------------------------------------------------
(* Slips                                                                   *)

(* Words of the cyclic code: bits 1 to 63 of a half slot.                  *)
InCode(word) ==
  word \in SUBSET (1..63) /\ Remainder(Codeword(word), 48) = word \cap 1..15

Rotated(word) == {i \in 1..63 : i - 1 \in word \/ (i = 1 /\ 63 \in word)}

LEMMA InCodeXor ==
  ASSUME NEW a, InCode(a), NEW b, InCode(b)
  PROVE  InCode(Xor(a, b))
<1>1. a \in SUBSET (0..63) /\ b \in SUBSET (0..63) /\ Xor(a, b) \in SUBSET (1..63)
  BY DEF InCode, Xor
<1>2. Codeword(Xor(a, b)) = Xor(Codeword(a), Codeword(b))
  BY <1>1, CodewordXor
<1>3. Remainder(Codeword(Xor(a, b)), 48)
        = Xor(Remainder(Codeword(a), 48), Remainder(Codeword(b), 48))
  BY <1>2, RemainderLinear
<1>4. Xor(a \cap 1..15, b \cap 1..15) = Xor(a, b) \cap 1..15
  BY DEF Xor
<1> QED BY <1>1, <1>3, <1>4 DEF InCode

LEMMA CodewordBits ==
  ASSUME NEW word \in SUBSET (0..63)
  PROVE  \A i \in 0..47 : i \in Codeword(word) <=> i + 16 \in word
<1>1. \A i \in Int : i \in Codeword(word) <=> i >= 0 /\ i + 16 \in word
  BY CodewordXor
<1> QED BY <1>1

(* The register does for the rotated word what it does for the word, one   *)
(* bit ahead.                                                              *)
LEMMA RotatedLow ==
  ASSUME NEW word, InCode(word), 63 \notin word
  PROVE  InCode(Rotated(word))
<1> DEFINE up == Rotated(word)
           E == Ck(Codeword(word))
           U == Ck(Codeword(up))
<1>1. word \in SUBSET (1..63) /\ up \in SUBSET (1..63)
  BY DEF InCode, Rotated
<1>2. \A i \in 1..63 : i \in up <=> i - 1 \in word
  BY DEF Rotated
<1>3. /\ \A n \in 0..47 : 47 - n \in Codeword(word) <=> 63 - n \in word
      /\ \A n \in 0..47 : 47 - n \in Codeword(up) <=> 63 - n \in up
  <2>1. \A n \in 0..47 : 47 - n \in 0..47 /\ (47 - n) + 16 = 63 - n
    OBVIOUS
  <2>2. word \in SUBSET (0..63) /\ up \in SUBSET (0..63)
    BY <1>1
  <2> HIDE DEF up
  <2> QED BY <2>1, <2>2, CodewordBits
<1>4. /\ E[0] = {} /\ \A n \in 0..48 : E[n] \subseteq 1..15
      /\ \A n \in 0..47 : \A i \in 1..15 :
           i \in E[n + 1] <=> ~(i - 1 \in E[n]
             <=> ~(47 - n \in Codeword(word) <=> 15 \in E[n]) /\ i - 1 \in Generator)
  BY CkBits
<1>5. /\ U[0] = {} /\ \A n \in 0..48 : U[n] \subseteq 1..15
      /\ \A n \in 0..47 : \A i \in 1..15 :
           i \in U[n + 1] <=> ~(i - 1 \in U[n]
             <=> ~(47 - n \in Codeword(up) <=> 15 \in U[n]) /\ i - 1 \in Generator)
  BY CkBits
<1>6. E[48] = word \cap 1..15
  BY RemainderSteps DEF InCode
<1>7. Remainder(Codeword(up), 48) = U[48]
  BY RemainderSteps
<1> HIDE DEF up, E, U
<1>8. E[1] = {}
  <2>1. \A i \in 1..15 : i \notin E[0 + 1]
    BY <1>3, <1>4
  <2> QED BY <1>4, <2>1
<1>9. U[47] = E[48]
  <2> DEFINE S == {n \in 0..47 : U[n] = E[n + 1]}
  <2>1. 0 \in S
    <3>1. U[0] = E[0 + 1]
      BY <1>5, <1>8
    <3> QED BY <3>1
  <2>2. ASSUME NEW n \in 0..46, n \in S PROVE n + 1 \in S
    <3>1. 47 - n \in Codeword(up) <=> 47 - (n + 1) \in Codeword(word)
      <4>1. n \in 0..47 /\ n + 1 \in 0..47 /\ (63 - n) - 1 = 63 - (n + 1) /\ 63 - n \in 1..63
        OBVIOUS
      <4> QED BY <1>2, <1>3, <4>1
    <3>2. n \in 0..47 /\ n + 1 \in 0..47 /\ n + 1 \in 0..48 /\ (n + 1) + 1 \in 0..48
      OBVIOUS
    <3>3. \A i \in 1..15 : i \in U[n + 1] <=> i \in E[(n + 1) + 1]
      BY <1>4, <1>5, <2>2, <3>1, <3>2
    <3>4. U[n + 1] \subseteq 1..15 /\ E[(n + 1) + 1] \subseteq 1..15
      BY <1>4, <1>5, <3>2
    <3>5. U[n + 1] = E[(n + 1) + 1]
      BY <3>3, <3>4
    <3> QED BY <3>2, <3>5
  <2> HIDE DEF S
  <2>3. \A n \in 0..47 - 1 : n \in S => n + 1 \in S
    BY <2>2
  <2>4. 0..47 \subseteq S
    BY <2>1, <2>3, InductionTo
  <2> QED BY <2>4 DEF S
<1>10. U[48] = up \cap 1..15
  <2>1. 15 \in U[47] <=> 47 - 47 \in Codeword(up)
    <3>1. 47 - 47 \in Codeword(up) <=> 63 - 47 \in up
      BY <1>3
    <3>2. 63 - 47 = 16 /\ 16 - 1 = 15 /\ 16 \in 1..63
      OBVIOUS
    <3> QED BY <1>2, <1>6, <1>9, <3>1, <3>2
  <2>2. \A i \in 1..15 : i \in U[47 + 1] <=> i - 1 \in U[47]
    BY <1>5, <2>1
  <2>3. \A i \in 1..15 : i - 1 \in U[47] <=> i - 1 \in word
    BY <1>1, <1>6, <1>9
  <2>4. \A i \in 1..15 : i \in U[48] <=> i \in up
    BY <1>2, <2>2, <2>3
  <2> QED BY <1>5, <2>4
<1> QED BY <1>1, <1>7, <1>10 DEF InCode, up

LEMMA LastBit == Remainder({0}, 48) = {i \in 1..15 : i - 1 \in Generator}
<1> DEFINE U == Ck({0})
<1>1. /\ U[0] = {} /\ \A n \in 0..48 : U[n] \subseteq 1..15
      /\ \A n \in 0..47 : \A i \in 1..15 :
           i \in U[n + 1] <=> ~(i - 1 \in U[n]
             <=> ~(47 - n \in {0} <=> 15 \in U[n]) /\ i - 1 \in Generator)
  BY CkBits
<1>2. Remainder({0}, 48) = U[48]
  BY RemainderSteps
<1> HIDE DEF U
<1>3. U[47] = {}
  <2> DEFINE S == {n \in 0..47 : U[n] = {}}
  <2>1. 0 \in S
    BY <1>1
  <2>2. ASSUME NEW n \in 0..46, n \in S PROVE n + 1 \in S
    <3>1. n \in 0..47 /\ n + 1 \in 0..48 /\ 47 - n \notin {0}
      OBVIOUS
    <3>2. \A i \in 1..15 : i \notin U[n + 1]
      BY <1>1, <2>2, <3>1
    <3>3. U[n + 1] = {}
      BY <1>1, <3>1, <3>2
    <3> QED BY <3>3
  <2> HIDE DEF S
  <2>3. \A n \in 0..47 - 1 : n \in S => n + 1 \in S
    BY <2>2
  <2>4. 0..47 \subseteq S
    BY <2>1, <2>3, InductionTo
  <2> QED BY <2>4 DEF S
<1>4. \A i \in 1..15 : i \in U[47 + 1] <=> i - 1 \in Generator
  <2>1. 47 - 47 \in {0} /\ 47 \in 0..47
    OBVIOUS
  <2> QED BY <1>1, <1>3, <2>1
<1>5. U[48] = {i \in 1..15 : i - 1 \in Generator}
  BY <1>1, <1>4
<1> QED BY <1>2, <1>5

(* The topmost bit, with what it leaves, and the same rotated.             *)
LEMMA TopBit ==
  ASSUME CodeSound
  PROVE  LET top == {63} \cup Remainder({47}, 48)
         IN  InCode(top) /\ InCode(Rotated(top))
<1> DEFINE R == Remainder({47}, 48)
           top == {63} \cup R
           up == Rotated(top)
<1>1. R \subseteq 1..15 /\ R = (Generator \ {0}) \cup {15} /\ 0 \in Generator
  BY RemainderBits DEF CodeSound
<1>2. InCode(top)
  <2> HIDE DEF R
  <2>1. Codeword(top) = {47}
    <3>1. top \in SUBSET (0..63)
      BY <1>1
    <3>2. \A i \in Int : i \in Codeword(top) <=> i >= 0 /\ i + 16 \in top
      BY <3>1, CodewordXor
    <3>3. \A i \in Int : i >= 0 /\ i + 16 \in top <=> i = 47
      BY <1>1
    <3>4. \A i \in Codeword(top) : i \in Int
      BY <3>1 DEF Codeword, Shifted
    <3> QED BY <3>2, <3>3, <3>4
  <2>2. top \cap 1..15 = R /\ top \in SUBSET (1..63)
    <3>1. R \subseteq 1..15 /\ 63 \notin 1..15 /\ 63 \in 1..63
      BY <1>1
    <3>2. \A i \in 1..15 : i \in 1..63
      OBVIOUS
    <3>3. \A i : i \in top <=> i = 63 \/ i \in R
      OBVIOUS
    <3> HIDE DEF top
    <3>4. \A i : i \in top \cap 1..15 <=> i \in R
      BY <3>1, <3>3
    <3> QED BY <3>1, <3>2, <3>3, <3>4
  <2> QED BY <2>1, <2>2 DEF InCode, R
<1> HIDE DEF R
<1>3. up \in SUBSET (1..63) /\ up \in SUBSET (0..63)
  BY DEF Rotated
<1>4. \A i \in 1..63 : i \in up <=> i - 1 \in Generator \/ i = 16
  <2>1. \A i \in 1..63 : i \in up <=> i - 1 \in R \/ i = 1
    BY <1>1 DEF Rotated
  <2> HIDE DEF up
  <2>2. \A i \in 1..63 : i - 1 \in R <=> (i - 1 \in Generator /\ i # 1) \/ i = 16
    BY <1>1
  <2> QED BY <1>1, <2>1, <2>2
<1> HIDE DEF up
<1>5. \A i \in Generator : i <= 14
  BY DEF CodeSound
<1>6. Codeword(up) = {0}
  <2>1. \A i \in Int : i \in Codeword(up) <=> i >= 0 /\ i + 16 \in up
    BY <1>3, CodewordXor
  <2>2. ASSUME NEW i \in Int, i >= 0, i + 16 \in up PROVE i = 0
    <3>1. i + 16 \in 1..63 /\ (i + 16) - 1 = i + 15
      BY <1>3, <2>2
    <3>2. i + 15 \in Generator \/ i + 16 = 16
      BY <1>4, <2>2, <3>1
    <3> QED BY <1>5, <2>2, <3>2
  <2>3. 0 + 16 \in up
    BY <1>4
  <2>4. \A i \in Codeword(up) : i \in Int
    BY <1>3 DEF Codeword, Shifted
  <2> QED BY <2>1, <2>2, <2>3, <2>4
<1>7. up \cap 1..15 = {i \in 1..15 : i - 1 \in Generator}
  BY <1>4
<1>8. InCode(up)
  BY <1>3, <1>6, <1>7, LastBit DEF InCode
<1> QED BY <1>2, <1>8 DEF R, up

(* The code is cyclic.                                                     *)
LEMMA RotatedInCode ==
  ASSUME CodeSound, NEW word, InCode(word)
  PROVE  InCode(Rotated(word))
<1> DEFINE top == {63} \cup Remainder({47}, 48)
           rest == Xor(word, top)
<1>1. InCode(top) /\ InCode(Rotated(top))
  BY TopBit
<1>2. 63 \in top /\ 0 \notin top
  BY RemainderBits
<1> HIDE DEF top
<1>3. CASE 63 \in word
  <2>1. InCode(rest) /\ 63 \notin rest
    BY <1>1, <1>2, <1>3, InCodeXor DEF Xor
  <2>2. Rotated(word) = Xor(Rotated(rest), Rotated(top))
    <3>1. \A i : i \in rest <=> ~(i \in word <=> i \in top)
      BY DEF Xor
    <3>2. 0 \notin word /\ 0 \notin rest
      BY <2>1 DEF InCode
    <3> HIDE DEF rest
    <3>3. \A i \in 1..63 : i - 1 \in word \/ (i = 1 /\ 63 \in word)
            <=> ~((i - 1 \in rest \/ (i = 1 /\ 63 \in rest))
                   <=> (i - 1 \in top \/ (i = 1 /\ 63 \in top)))
      BY <1>2, <1>3, <2>1, <3>1, <3>2
    <3> QED BY <3>3 DEF Rotated, Xor
  <2>3. InCode(Rotated(rest))
    BY <2>1, RotatedLow
  <2> QED BY <1>1, <2>2, <2>3, InCodeXor
<1>4. CASE 63 \notin word
  BY <1>4, RotatedLow
<1> QED BY <1>3, <1>4

(* What is accepted is, but for the bit that is inverted, in the code.     *)
LEMMA AcceptedInCode ==
  ASSUME NEW register \in SUBSET (0..63), Accepted(register)
  PROVE  InCode(Xor(register \ {0}, {1}))
<1> DEFINE word == Xor(register \ {0}, {1})
<1>1. word \in SUBSET (1..63) /\ \A i \in 16..63 : i \in word <=> i \in register
  BY DEF Xor
<1>2. word \cap 1..15 = Xor(register \cap 1..15, {1})
  BY DEF Xor
<1> HIDE DEF word
<1>3. Codeword(word) = Codeword(register)
  <2>1. ASSUME NEW i \in word, i \notin 0..15 PROVE i \in register
    <3>1. i \in 16..63
      BY <1>1, <2>1
    <3> QED BY <1>1, <3>1
  <2>2. ASSUME NEW i \in register, i \notin 0..15 PROVE i \in word
    <3>1. i \in 16..63
      BY <2>2
    <3> QED BY <1>1, <3>1
  <2>3. word \ 0..15 = register \ 0..15
    BY <2>1, <2>2
  <2> QED BY <2>3 DEF Codeword
<1>4. Xor(Remainder(Codeword(register), 48), {1}) = register \cap 1..15
  <2>1. Fcs(Codeword(register)) \cap 1..15 = register \cap 1..15
    BY DEF Accepted
  <2> QED BY <2>1, FcsParts
<1>5. Remainder(Codeword(register), 48) = Xor(register \cap 1..15, {1})
  BY <1>4 DEF Xor
<1> QED BY <1>1, <1>2, <1>3, <1>5 DEF InCode, word

(* Of two registers a few bits apart one is not accepted, whatever was in  *)
(* the one before and has left it, and whatever has come into the other.   *)
LEMMA AcceptedApart ==
  ASSUME CodeSound, NEW before \in SUBSET (0..63), Accepted(before),
         NEW after \in SUBSET (0..63), Accepted(after), NEW s \in 1..Slip,
         \A i \in 0..63 - s : i + s \in after <=> i \in before
  PROVE  FALSE
<1> DEFINE P == Xor(before \ {0}, {1})
           W == Xor(after \ {0}, {1})
           S == {n \in 0..Slip : \E e : InCode(e)
                  /\ \A i \in 1..63 - n : i + n \in e <=> i \in P}
<1>1. InCode(P) /\ InCode(W)
  BY AcceptedInCode
<1>2. \A i \in 1..63 : /\ i \in P <=> ~(i \in before <=> i = 1)
                       /\ i \in W <=> ~(i \in after <=> i = 1)
  BY DEF Xor
<1> HIDE DEF P, W
<1>3. 0 \in S
  <2>1. \A i \in 1..63 - 0 : i + 0 \in P <=> i \in P
    OBVIOUS
  <2> QED BY <1>1, <2>1 DEF Slip
<1>4. ASSUME NEW n \in 0..13, n \in S PROVE n + 1 \in S
  <2>1. PICK e : InCode(e) /\ \A i \in 1..63 - n : i + n \in e <=> i \in P
    BY <1>4
  <2>2. InCode(Rotated(e))
    BY <2>1, RotatedInCode
  <2>3. ASSUME NEW i \in 1..63 - (n + 1)
        PROVE  i + (n + 1) \in Rotated(e) <=> i \in P
    <3>1. /\ i + (n + 1) \in 1..63 /\ (i + (n + 1)) - 1 = i + n
          /\ i + (n + 1) # 1 /\ i \in 1..63 - n
      OBVIOUS
    <3>2. i + (n + 1) \in Rotated(e) <=> i + n \in e
      BY <3>1 DEF Rotated
    <3> QED BY <2>1, <3>1, <3>2
  <2>4. n + 1 \in 0..Slip
    BY DEF Slip
  <2> QED BY <2>2, <2>3, <2>4
<1>5. s \in S
  <2> HIDE DEF S
  <2>1. \A n \in 0..Slip - 1 : n \in S => n + 1 \in S
    BY <1>4 DEF Slip
  <2>2. 0..Slip \subseteq S
    BY <1>3, <2>1, InductionTo DEF Slip
  <2> QED BY <2>2
<1>6. PICK e : InCode(e) /\ \A i \in 1..63 - s : i + s \in e <=> i \in P
  BY <1>5
<1> DEFINE noise == Xor(e, W)
<1>7. InCode(noise)
  BY <1>1, <1>6, InCodeXor
<1>8. \A i \in 1..63 - s : i + s \in noise <=> i = 1
  <2> SUFFICES ASSUME NEW i \in 1..63 - s PROVE i + s \in noise <=> i = 1
    OBVIOUS
  <2>1. i + s \in 1..63 /\ i \in 1..63 /\ i + s # 1 /\ i \in 0..63 - s
    BY DEF Slip
  <2>2. /\ i + s \in e <=> ~(i \in before <=> i = 1)
        /\ i + s \in W <=> i \in before
    BY <1>2, <1>6, <2>1
  <2> QED BY <2>2 DEF Xor
<1> HIDE DEF noise
<1>9. 1 + s \in noise
  BY <1>8 DEF Slip
<1>10. noise \subseteq 1..15
  <2> SUFFICES ASSUME NEW k \in noise, k > 15 PROVE FALSE
    BY <1>7 DEF InCode
  <2>1. k - s \in 1..63 - s /\ (k - s) + s = k /\ k - s # 1
    BY <1>7 DEF InCode, Slip
  <2> QED BY <1>8, <2>1
<1>11. Burst(noise)
  <2>1. noise \subseteq 1..1 + 14 /\ 1 \in 0..49 /\ noise # {}
    BY <1>9, <1>10
  <2> QED BY <2>1 DEF Burst
<1>12. noise = {0}
  <2>1. 0 \in Generator /\ noise \in SUBSET (0..63)
    BY <1>10 DEF CodeSound
  <2> QED BY <1>7, <1>11, <2>1, BurstRemainder DEF InCode
<1> QED BY <1>9, <1>12

-----------------------------------------------------------------------------
(* The system codewords                                                    *)

LEMMA ShiftedBits ==
  ASSUME NEW number \in SUBSET Int, NEW places \in Int
  PROVE  \A i \in Int : i \in Shifted(number, places) <=> i - places \in number
<1> SUFFICES ASSUME NEW i \in Int
             PROVE  i \in Shifted(number, places) <=> i - places \in number
  OBVIOUS
<1>1. i \in Shifted(number, places) <=> \E k \in number : i = k + places
  BY DEF Shifted
<1>2. i = (i - places) + places
  OBVIOUS
<1>3. \A k \in number : i = k + places => k = i - places
  OBVIOUS
<1> QED BY <1>1, <1>2, <1>3

(* The remainder of a number of sixteen bits, put behind the number        *)
(* itself, is a codeword of the cyclic code: nothing remains of it.        *)
LEMMA Feedback ==
  ASSUME NEW x \in SUBSET (0..15)
  PROVE  Remainder(Shifted(x, 31) \cup Shifted(Remainder(x, 48), 15), 48) = {}
<1> DEFINE r == Remainder(x, 48)
           d == Shifted(x, 31) \cup Shifted(r, 15)
           X == Ck(x)
           D == Ck(d)
<1>1. r \subseteq 1..15 /\ r = X[48]
  BY RemainderBits, RemainderSteps
<1>2. /\ X[0] = {} /\ \A n \in 0..48 : X[n] \subseteq 1..15
      /\ \A n \in 0..47 : \A i \in 1..15 :
           i \in X[n + 1] <=> ~(i - 1 \in X[n] <=> ~(47 - n \in x <=> 15 \in X[n]) /\ i - 1 \in Generator)
  BY CkBits
<1>3. /\ D[0] = {} /\ \A n \in 0..48 : D[n] \subseteq 1..15
      /\ \A n \in 0..47 : \A i \in 1..15 :
           i \in D[n + 1] <=> ~(i - 1 \in D[n] <=> ~(47 - n \in d <=> 15 \in D[n]) /\ i - 1 \in Generator)
  BY CkBits
<1>4. \A i \in Int : i \in d <=> i - 31 \in x \/ i - 15 \in r
  <2>1. /\ \A i \in Int : i \in Shifted(x, 31) <=> i - 31 \in x
        /\ \A i \in Int : i \in Shifted(r, 15) <=> i - 15 \in r
    BY <1>1, ShiftedBits
  <2> QED BY <2>1
<1>5. Remainder(d, 48) = D[48]
  BY RemainderSteps
<1> HIDE DEF r, d, X, D
(* The number is the last that is read of x ...                            *)
<1>6. X[31] = {}
  <2> DEFINE S == {n \in 0..31 : X[n] = {}}
  <2>1. 0 \in S
    BY <1>2
  <2>2. ASSUME NEW n \in 0..30, n \in S PROVE n + 1 \in S
    BY <1>2, <2>2
  <2> HIDE DEF S
  <2>3. \A n \in 0..31 - 1 : n \in S => n + 1 \in S
    BY <2>2
  <2>4. 0..31 \subseteq S
    BY <2>1, <2>3, InductionTo
  <2> QED BY <2>4 DEF S
(* ... and the first of d.                                                 *)
<1>7. D[17] = r
  <2> DEFINE S == {n \in 0..17 : D[n] = X[n + 31]}
  <2>1. 0 \in S
    <3>1. D[0] = X[0 + 31]
      <4>1. 0 + 31 = 31
        OBVIOUS
      <4> QED BY <1>3, <1>6, <4>1
    <3> QED BY <3>1
  <2>2. ASSUME NEW n \in 0..16, n \in S PROVE n + 1 \in S
    <3>1. 47 - n \in d <=> 47 - (n + 31) \in x
      <4>1. (47 - n) - 31 = 47 - (n + 31) /\ (47 - n) - 15 \notin 1..15
        OBVIOUS
      <4> QED BY <1>1, <1>4, <4>1
    <3>2. n \in 0..47 /\ n + 31 \in 0..47 /\ (n + 31) + 1 = (n + 1) + 31
      OBVIOUS
    <3>3. \A i \in 1..15 : i \in D[n + 1] <=> i \in X[(n + 31) + 1]
      BY <1>2, <1>3, <2>2, <3>1, <3>2
    <3>4. D[n + 1] \subseteq 1..15 /\ X[(n + 31) + 1] \subseteq 1..15
      BY <1>2, <1>3, <3>2
    <3>5. D[n + 1] = X[(n + 1) + 31]
      BY <3>2, <3>3, <3>4
    <3> QED BY <3>5
  <2> HIDE DEF S
  <2>3. \A n \in 0..17 - 1 : n \in S => n + 1 \in S
    BY <2>2
  <2>4. 0..17 \subseteq S
    BY <2>1, <2>3, InductionTo
  <2>5. D[17] = X[17 + 31]
    BY <2>4 DEF S
  <2> QED BY <1>1, <2>5
(* What is read next is what is in the register: nothing is carried.       *)
<1>8. D[32] = {}
  <2> DEFINE S == {j \in 0..15 : \A i \in 1..15 : i \in D[17 + j] <=> i - j \in r}
  <2>1. 0 \in S
    BY <1>7
  <2>2. ASSUME NEW j \in 0..14, j \in S PROVE j + 1 \in S
    <3>1. 47 - (17 + j) \in d <=> 15 - j \in r
      <4>1. (47 - (17 + j)) - 15 = 15 - j /\ (47 - (17 + j)) - 31 < 0
        OBVIOUS
      <4> QED BY <1>4, <4>1
    <3>2. 47 - (17 + j) \in d <=> 15 \in D[17 + j]
      BY <2>2, <3>1
    <3>3. 17 + j \in 0..47 /\ (17 + j) + 1 = 17 + (j + 1)
      OBVIOUS
    <3>4. \A i \in 1..15 : i \in D[(17 + j) + 1] <=> i - 1 \in D[17 + j]
      BY <1>3, <3>2, <3>3
    <3>5. ASSUME NEW i \in 1..15 PROVE i - 1 \in D[17 + j] <=> i - (j + 1) \in r
      <4>1. CASE i = 1
        <5>1. 0 \notin D[17 + j] /\ i - (j + 1) \notin r
          BY <1>1, <1>3, <3>3, <4>1
        <5> QED BY <4>1, <5>1
      <4>2. CASE i # 1
        <5>1. i - 1 \in 1..15 /\ (i - 1) - j = i - (j + 1)
          BY <4>2
        <5> QED BY <2>2, <5>1
      <4> QED BY <4>1, <4>2
    <3> QED BY <3>3, <3>4, <3>5
  <2> HIDE DEF S
  <2>3. \A n \in 0..15 - 1 : n \in S => n + 1 \in S
    BY <2>2
  <2>4. 0..15 \subseteq S
    BY <2>1, <2>3, InductionTo
  <2>5. \A i \in 1..15 : i \in D[17 + 15] <=> i - 15 \in r
    BY <2>4 DEF S
  <2>6. \A i \in 1..15 : i \notin D[32]
    BY <1>1, <2>5
  <2> QED BY <1>3, <2>6
(* And nothing follows.                                                    *)
<1>9. D[48] = {}
  <2> DEFINE S == {n \in 0..16 : D[32 + n] = {}}
  <2>1. 0 \in S
    BY <1>8
  <2>2. ASSUME NEW n \in 0..15, n \in S PROVE n + 1 \in S
    <3>1. 32 + n \in 0..47 /\ (32 + n) + 1 = 32 + (n + 1)
      OBVIOUS
    <3>2. 47 - (32 + n) \notin d
      <4>1. (47 - (32 + n)) - 31 < 0 /\ (47 - (32 + n)) - 15 < 1
        OBVIOUS
      <4> QED BY <1>1, <1>4, <4>1
    <3>3. D[(32 + n) + 1] = {}
      BY <1>3, <2>2, <3>1, <3>2
    <3> QED BY <3>1, <3>3
  <2> HIDE DEF S
  <2>3. \A n \in 0..16 - 1 : n \in S => n + 1 \in S
    BY <2>2
  <2>4. 0..16 \subseteq S
    BY <2>1, <2>3, InductionTo
  <2>5. D[32 + 16] = {}
    BY <2>4 DEF S
  <2> QED BY <2>5
<1> QED BY <1>5, <1>9 DEF d, r

LEMMA FcsParity ==
  ASSUME NEW cw \in SUBSET (0..63)
  PROVE  0 \in Fcs(cw) <=> (Odd(cw) <=> Odd(Remainder(cw, 48)))
<1>1. Fcs(cw) \cap 1..15 = Xor(Remainder(cw, 48), {1})
  BY FcsParts
<1>2. Odd(Xor(Remainder(cw, 48), {1})) <=> ~Odd(Remainder(cw, 48))
  <2>1. Remainder(cw, 48) \in SUBSET (0..63) /\ {1} \in SUBSET (0..63)
    BY RemainderBits
  <2>2. Odd(Xor(Remainder(cw, 48), {1})) <=> ~(Odd(Remainder(cw, 48)) <=> Odd({1}))
    BY <2>1, FiniteBits, OddXor
  <2>3. Cardinality({1}) = 1
    BY FS_Singleton, Zenon
  <2>4. 1 % 2 = 1
    OBVIOUS
  <2> QED BY <2>2, <2>3, <2>4 DEF Odd
<1> QED BY <1>1, <1>2, FcsOdd

(* The system codeword of any code: the sixteen bits x of it, and behind   *)
(* them what remains of x behind the channel's own bits.                   *)
SystemOf(x, ccs) == Shifted(x, 31) \cup Shifted(Remainder(ccs \cup x, 48), 15) \cup PREAMBLE

LEMMA SystemMade ==
  ASSUME LayoutsSound, CodeSound,
         NEW syscode \in SUBSET (0..14), NEW ccs \in SUBSET (16..47), NEW wrong \in BOOLEAN
  PROVE  \E x \in SUBSET (0..15) :
           /\ System(syscode, ccs, wrong) = SystemOf(x, ccs)
           /\ 0 \in Fcs(ccs \cup x) <=> ~wrong
<1> DEFINE y == Shifted(syscode, 1)
           f == Fcs(ccs \cup y)
           again == (0 \in f) = wrong
           x == IF again THEN y \cup {0} ELSE y
           g == IF again THEN {16} \cup Fcs(ccs \cup y \cup {0}) ELSE f
           R == Remainder(ccs \cup x, 48)
           check == Xor(Shifted(g \ {0}, -1), {0})
<1>1. \A i \in Int : i \in y <=> i - 1 \in syscode
  BY ShiftedBits
<1>2. y \in SUBSET (1..15)
  <2>1. \A i \in syscode : i + 1 \in 1..15
    OBVIOUS
  <2> QED BY <2>1 DEF Shifted
<1> HIDE DEF y
<1>3. x \in SUBSET (0..15) /\ (0 \in x <=> again) /\ (again => x = y \cup {0}) /\ (~again => x = y)
  <2>1. CASE again
    <3> HIDE DEF again
    <3> QED BY <1>2, <2>1
  <2>2. CASE ~again
    <3> HIDE DEF again
    <3> QED BY <1>2, <2>2
  <2> QED BY <2>1, <2>2
<1>4. R \subseteq 1..15
  BY RemainderBits
<1>5. 0 \in Fcs(ccs \cup x) <=> ~wrong
  <2>1. CASE ~again
    <3>1. Fcs(ccs \cup x) = f
      BY <1>3, <2>1
    <3> QED BY <2>1, <3>1
  <2>2. CASE again
    <3> DEFINE C == ccs \cup y
               E == Remainder({0}, 48)
    <3>1. ccs \cup x = Xor(C, {0}) /\ C \in SUBSET (0..63) /\ {0} \in SUBSET (0..63)
      BY <1>2, <1>3, <2>2 DEF Xor
    <3>2. /\ Remainder(C, 48) \in SUBSET (0..63) /\ E \in SUBSET (0..63)
          /\ Xor(C, {0}) \in SUBSET (0..63)
      BY <3>1, RemainderBits DEF Xor
    <3> HIDE DEF C, E
    <3>3. Remainder(Xor(C, {0}), 48) = Xor(Remainder(C, 48), E)
      BY RemainderLinear DEF E
    <3>4. Odd(Xor(Remainder(C, 48), E)) <=> Odd(Remainder(C, 48))
      <4>1. ~Odd(E)
        BY DEF CodeSound, Odd, E
      <4> QED BY <3>2, <4>1, FiniteBits, OddXor
    <3>5. Odd(Xor(C, {0})) <=> ~Odd(C)
      <4>1. Cardinality({0}) = 1
        BY FS_Singleton, Zenon
      <4>2. Odd({0})
        BY <4>1 DEF Odd
      <4> QED BY <3>1, <4>2, FiniteBits, OddXor
    <3>6. 0 \in Fcs(C) <=> (Odd(C) <=> Odd(Remainder(C, 48)))
      BY <3>1, FcsParity
    <3>7. 0 \in Fcs(Xor(C, {0})) <=> (Odd(Xor(C, {0})) <=> Odd(Remainder(Xor(C, {0}), 48)))
      BY <3>2, FcsParity
    <3>8. 0 \in Fcs(ccs \cup x) <=> ~(0 \in f)
      BY <3>1, <3>3, <3>4, <3>5, <3>6, <3>7 DEF C
    <3> QED BY <2>2, <3>8
  <2> QED BY <2>1, <2>2
<1>6. \A i : i \in g \ {0} <=> i \in Xor(R, {1}) \/ (i = 16 /\ again)
  <2>1. /\ Fcs(ccs \cup x) \cap 1..15 = Xor(R, {1})
        /\ Fcs(ccs \cup x) \subseteq 0..15
    BY FcsParts, FcsBits
  <2>2. Xor(R, {1}) \subseteq 1..15
    BY <2>1
  <2>3. again => ccs \cup y \cup {0} = ccs \cup x
    BY <1>3
  <2>4. ~again => ccs \cup y = ccs \cup x
    BY <1>3
  <2>5. CASE again
    <3>1. g = {16} \cup Fcs(ccs \cup x)
      BY <2>3, <2>5
    <3> HIDE DEF g, R, x, again
    <3> QED BY <2>1, <2>2, <2>5, <3>1
  <2>6. CASE ~again
    <3>1. g = Fcs(ccs \cup x)
      BY <2>4, <2>6
    <3> HIDE DEF g, R, x, again
    <3> QED BY <2>1, <2>2, <2>6, <3>1
  <2> QED BY <2>5, <2>6
<1>7. System(syscode, ccs, wrong) = Shifted(syscode, 32) \cup Shifted(check, 16) \cup PREAMBLE
  BY DEF System, check, g, f, y
<1>8. SystemOf(x, ccs) = Shifted(x, 31) \cup Shifted(R, 15) \cup PREAMBLE
  BY DEF SystemOf, R
<1> HIDE DEF x, g, R, again, f
<1>9. g \ {0} \subseteq Int /\ check \in SUBSET Int
  <2>1. Xor(R, {1}) \subseteq Int
    BY <1>4 DEF Xor
  <2>2. g \ {0} \subseteq Int
    BY <1>6, <2>1
  <2>3. \A i \in g \ {0} : i + (-1) \in Int
    BY <2>2
  <2>4. Shifted(g \ {0}, -1) \subseteq Int
    BY <2>3 DEF Shifted
  <2> QED BY <2>2, <2>4 DEF Xor
<1>10. \A i \in Int : i \in check <=> i + 1 \in R \/ (i = 15 /\ again)
  <2> SUFFICES ASSUME NEW i \in Int
               PROVE  i \in check <=> i + 1 \in R \/ (i = 15 /\ again)
    OBVIOUS
  <2>1. i \in Shifted(g \ {0}, -1) <=> i + 1 \in g \ {0}
    <3>1. i - (-1) = i + 1 /\ -1 \in Int
      OBVIOUS
    <3>2. g \ {0} \in SUBSET Int
      BY <1>9
    <3> HIDE DEF check
    <3>3. \A places \in Int : i \in Shifted(g \ {0}, places) <=> i - places \in g \ {0}
      BY <3>2, ShiftedBits
    <3> QED BY <3>1, <3>3
  <2>2. i + 1 \in g \ {0} <=> i + 1 \in Xor(R, {1}) \/ (i = 15 /\ again)
    <3>1. i + 1 = 16 <=> i = 15
      OBVIOUS
    <3> QED BY <1>6, <3>1
  <2>3. i + 1 = 1 <=> i = 0
    OBVIOUS
  <2>4. i \in check <=> ~(i + 1 \in g \ {0} <=> i = 0)
    BY <2>1 DEF Xor
  <2>5. i + 1 \in Xor(R, {1}) <=> ~(i + 1 \in R <=> i = 0)
    BY <2>3 DEF Xor
  <2> HIDE DEF check
  <2>6. i = 15 => i # 0
    OBVIOUS
  <2> QED BY <2>2, <2>4, <2>5, <2>6
<1> HIDE DEF check
<1>11. \A i \in Int : i \in Shifted(syscode, 32) \/ i \in Shifted(check, 16)
                        <=> i \in Shifted(x, 31) \/ i \in Shifted(R, 15)
  <2> SUFFICES ASSUME NEW i \in Int
               PROVE  i \in Shifted(syscode, 32) \/ i \in Shifted(check, 16)
                        <=> i \in Shifted(x, 31) \/ i \in Shifted(R, 15)
    OBVIOUS
  <2>1. syscode \in SUBSET Int /\ check \in SUBSET Int /\ x \in SUBSET Int /\ R \in SUBSET Int
    BY <1>3, <1>4, <1>9
  <2>2. /\ i \in Shifted(syscode, 32) <=> i - 32 \in syscode
        /\ i \in Shifted(check, 16) <=> i - 16 \in check
        /\ i \in Shifted(x, 31) <=> i - 31 \in x
        /\ i \in Shifted(R, 15) <=> i - 15 \in R
    BY <2>1, ShiftedBits
  <2>3. i - 16 \in check <=> i - 15 \in R \/ (i = 31 /\ again)
    <3>1. i - 16 \in Int /\ (i - 16) + 1 = i - 15 /\ (i - 16 = 15 <=> i = 31)
      OBVIOUS
    <3> QED BY <1>10, <3>1
  <2>4. i - 31 \in x <=> i - 32 \in syscode \/ (i = 31 /\ again)
    <3>1. i - 31 \in Int /\ (i - 31) - 1 = i - 32 /\ (i - 31 = 0 <=> i = 31)
      OBVIOUS
    <3>2. i - 31 \in y <=> i - 32 \in syscode
      BY <1>1, <3>1
    <3>3. i - 31 \in x <=> i - 31 \in y \/ (i - 31 = 0 /\ again)
      BY <1>3
    <3> QED BY <3>1, <3>2, <3>3
  <2> QED BY <2>2, <2>3, <2>4
<1>12. /\ Shifted(syscode, 32) \cup Shifted(check, 16) \subseteq Int
       /\ Shifted(x, 31) \cup Shifted(R, 15) \subseteq Int
  BY <1>3, <1>4, <1>9 DEF Shifted
<1>13. System(syscode, ccs, wrong) = SystemOf(x, ccs)
  BY <1>7, <1>8, <1>11, <1>12
<1> QED BY <1>3, <1>5, <1>13

(* What remains of a system codeword, and its parity, are those of the     *)
(* channel's own bits: the system code leaves no trace.                    *)
LEMMA SystemRemainder ==
  ASSUME LayoutsSound, NEW x \in SUBSET (0..15), NEW ccs \in SUBSET (16..47)
  PROVE  /\ SystemOf(x, ccs) \in SUBSET (0..47)
         /\ Remainder(SystemOf(x, ccs), 48)
              = Xor(Remainder(Shifted(Remainder(ccs, 48), 15), 48), Remainder(PREAMBLE, 48))
         /\ Odd(SystemOf(x, ccs))
              <=> ~(Odd(PREAMBLE) <=> ~(Odd(x) <=> Odd(Remainder(ccs \cup x, 48))))
<1> DEFINE R == Remainder(ccs \cup x, 48)
           A == Remainder(ccs, 48)
           r == Remainder(x, 48)
           high == Shifted(x, 31)
           low == Shifted(R, 15)
<1>1. R = Xor(A, r) /\ R \subseteq 1..15 /\ A \subseteq 1..15 /\ r \subseteq 1..15
  <2>1. ccs \cap x = {}
    OBVIOUS
  <2>2. \A S, T : S \cap T = {} => S \cup T = Xor(S, T)
    BY DEF Xor
  <2>3. ccs \cup x = Xor(ccs, x)
    BY <2>1, <2>2
  <2> QED BY <2>3, RemainderLinear, RemainderBits
<1>2. PREAMBLE \subseteq 0..15
  BY DEF LayoutsSound
<1> HIDE DEF R, A, r
<1>3. high \subseteq 31..46 /\ low \subseteq 16..30
  <2>1. (\A i \in x : i + 31 \in 31..46) /\ (\A i \in R : i + 15 \in 16..30)
    BY <1>1
  <2> QED BY <2>1 DEF Shifted
<1>4. low = Xor(Shifted(A, 15), Shifted(r, 15))
  <2>1. \A i : i \in low <=> \E k \in R : i = k + 15
    BY DEF Shifted
  <2>2. \A i : /\ i \in Shifted(A, 15) <=> \E k \in A : i = k + 15
               /\ i \in Shifted(r, 15) <=> \E k \in r : i = k + 15
    BY DEF Shifted
  <2>3. \A j, k \in 1..15 : j + 15 = k + 15 => j = k
    OBVIOUS
  <2>4. \A k : k \in R <=> ~(k \in A <=> k \in r)
    BY <1>1 DEF Xor
  <2> HIDE DEF low
  <2>5. ASSUME NEW i PROVE i \in low <=> ~(i \in Shifted(A, 15) <=> i \in Shifted(r, 15))
    <3>1. i \in Shifted(A, 15) /\ i \in Shifted(r, 15) => i \notin low
      BY <1>1, <2>1, <2>2, <2>3, <2>4
    <3>2. i \in Shifted(A, 15) /\ i \notin Shifted(r, 15) => i \in low
      BY <1>1, <2>1, <2>2, <2>4
    <3>3. i \notin Shifted(A, 15) /\ i \in Shifted(r, 15) => i \in low
      BY <1>1, <2>1, <2>2, <2>4
    <3>4. i \in low => i \in Shifted(A, 15) \/ i \in Shifted(r, 15)
      BY <1>1, <2>1, <2>2, <2>4
    <3> QED BY <3>1, <3>2, <3>3, <3>4
  <2> QED BY <2>5 DEF Xor
<1>5. Shifted(A, 15) \subseteq 16..30 /\ Shifted(r, 15) \subseteq 16..30
  <2>1. (\A i \in A : i + 15 \in 16..30) /\ (\A i \in r : i + 15 \in 16..30)
    BY <1>1
  <2> QED BY <2>1 DEF Shifted
<1>6. SystemOf(x, ccs) = (high \cup low) \cup PREAMBLE
  BY DEF SystemOf, R
<1> HIDE DEF high, low
<1>7. SystemOf(x, ccs) = Xor(Xor(Shifted(A, 15), PREAMBLE), high \cup Shifted(r, 15))
  <2>1. \A i : i \in low <=> ~(i \in Shifted(A, 15) <=> i \in Shifted(r, 15))
    BY <1>4 DEF Xor
  <2>2. \A i : /\ ~(i \in high /\ i \in low)
               /\ ~(i \in high /\ i \in PREAMBLE)
    <3>1. high \cap low = {} /\ high \cap PREAMBLE = {}
      BY <1>2, <1>3
    <3> QED BY <3>1
  <2>3. \A i : /\ ~(i \in high /\ i \in Shifted(A, 15)) /\ ~(i \in high /\ i \in Shifted(r, 15))
               /\ ~(i \in PREAMBLE /\ i \in Shifted(A, 15)) /\ ~(i \in PREAMBLE /\ i \in Shifted(r, 15))
    BY <1>2, <1>3, <1>5
  <2>4. \A i : i \in (high \cup low) \cup PREAMBLE
                 <=> i \in Xor(Xor(Shifted(A, 15), PREAMBLE), high \cup Shifted(r, 15))
    BY <2>1, <2>2, <2>3 DEF Xor
  <2> QED BY <1>6, <2>4
<1>8. Remainder(SystemOf(x, ccs), 48) = Xor(Remainder(Shifted(A, 15), 48), Remainder(PREAMBLE, 48))
  <2>1. Remainder(high \cup Shifted(r, 15), 48) = {}
    BY Feedback DEF high, r
  <2>2. Remainder(SystemOf(x, ccs), 48)
          = Xor(Xor(Remainder(Shifted(A, 15), 48), Remainder(PREAMBLE, 48)), {})
    <3>1. Remainder(Xor(Xor(Shifted(A, 15), PREAMBLE), high \cup Shifted(r, 15)), 48)
            = Xor(Remainder(Xor(Shifted(A, 15), PREAMBLE), 48), {})
      <4> DEFINE p == Xor(Shifted(A, 15), PREAMBLE)
                 q == high \cup Shifted(r, 15)
      <4> HIDE DEF p, q
      <4>1. Remainder(Xor(p, q), 48) = Xor(Remainder(p, 48), Remainder(q, 48))
        BY RemainderLinear
      <4> QED BY <2>1, <4>1 DEF p, q
    <3>2. Remainder(Xor(Shifted(A, 15), PREAMBLE), 48)
            = Xor(Remainder(Shifted(A, 15), 48), Remainder(PREAMBLE, 48))
      BY RemainderLinear
    <3> QED BY <1>7, <3>1, <3>2
  <2>3. \A S : Xor(S, {}) = S
    BY DEF Xor
  <2> QED BY <2>2, <2>3
<1>9. SystemOf(x, ccs) \in SUBSET (0..47)
  BY <1>2, <1>3, <1>6
<1>10. (Odd(high) <=> Odd(x)) /\ (Odd(low) <=> Odd(R))
  <2>1. /\ x \in SUBSET Int /\ R \in SUBSET Int /\ 31 \in Int /\ 15 \in Int
        /\ x \in SUBSET (0..63) /\ R \in SUBSET (0..63)
    BY <1>1
  <2> QED BY <2>1, FiniteBits, OddShifted DEF high, low
<1>11. Odd(SystemOf(x, ccs)) <=> ~(Odd(PREAMBLE) <=> ~(Odd(x) <=> Odd(R)))
  <2>1. /\ high \in SUBSET (0..63) /\ low \in SUBSET (0..63)
        /\ PREAMBLE \in SUBSET (0..63) /\ high \cup low \in SUBSET (0..63)
        /\ high \cap low = {} /\ (high \cup low) \cap PREAMBLE = {}
    BY <1>2, <1>3
  <2>2. Odd(high \cup low) <=> ~(Odd(high) <=> Odd(low))
    BY <2>1, FiniteBits, OddJoined
  <2>3. Odd((high \cup low) \cup PREAMBLE) <=> ~(Odd(high \cup low) <=> Odd(PREAMBLE))
    BY <2>1, FiniteBits, OddJoined
  <2> QED BY <1>6, <1>10, <2>2, <2>3
<1> QED BY <1>8, <1>9, <1>11 DEF A, R

(* The system codewords of a channel all have the same check sequence.     *)
LEMMA SystemFcs ==
  ASSUME LayoutsSound, CodeSound,
         NEW s \in SUBSET (0..14), NEW t \in SUBSET (0..14),
         NEW ccs \in SUBSET (16..47), NEW wrong \in BOOLEAN
  PROVE  Fcs(System(s, ccs, wrong)) = Fcs(System(t, ccs, wrong))
<1>1. PICK x \in SUBSET (0..15) :
        /\ System(s, ccs, wrong) = SystemOf(x, ccs)
        /\ 0 \in Fcs(ccs \cup x) <=> ~wrong
  BY SystemMade
<1>2. PICK y \in SUBSET (0..15) :
        /\ System(t, ccs, wrong) = SystemOf(y, ccs)
        /\ 0 \in Fcs(ccs \cup y) <=> ~wrong
  BY SystemMade
<1> DEFINE W(z) == SystemOf(z, ccs)
<1>3. ASSUME NEW z \in SUBSET (0..15), 0 \in Fcs(ccs \cup z) <=> ~wrong
      PROVE  Odd(W(z)) <=> ~(Odd(PREAMBLE) <=> (Odd(ccs) <=> ~wrong))
  <2>1. 0 \in Fcs(ccs \cup z) <=> (Odd(ccs \cup z) <=> Odd(Remainder(ccs \cup z, 48)))
    <3>1. ccs \cup z \in SUBSET (0..63)
      OBVIOUS
    <3> QED BY <3>1, FcsParity
  <2>2. Odd(ccs \cup z) <=> ~(Odd(ccs) <=> Odd(z))
    <3>1. ccs \in SUBSET (0..63) /\ z \in SUBSET (0..63) /\ ccs \cap z = {}
      OBVIOUS
    <3> QED BY <3>1, FiniteBits, OddJoined
  <2>3. Odd(W(z)) <=> ~(Odd(PREAMBLE) <=> ~(Odd(z) <=> Odd(Remainder(ccs \cup z, 48))))
    BY SystemRemainder
  <2> HIDE DEF W
  <2> QED BY <1>3, <2>1, <2>2, <2>3
<1>4. /\ Remainder(W(x), 48) = Remainder(W(y), 48)
      /\ W(x) \in SUBSET (0..63) /\ W(y) \in SUBSET (0..63)
  <2>1. /\ Remainder(W(x), 48) = Remainder(W(y), 48)
        /\ W(x) \in SUBSET (0..47) /\ W(y) \in SUBSET (0..47)
    BY SystemRemainder
  <2> QED BY <2>1
<1>5. Odd(W(x)) <=> Odd(W(y))
  BY <1>1, <1>2, <1>3
<1> HIDE DEF W
<1>6. 0 \in Fcs(W(x)) <=> 0 \in Fcs(W(y))
  BY <1>4, <1>5, FcsParity
<1>7. Fcs(W(x)) \cap 1..15 = Fcs(W(y)) \cap 1..15
  BY <1>4, FcsParts
<1>8. Fcs(W(x)) \subseteq 0..15 /\ Fcs(W(y)) \subseteq 0..15
  BY FcsBits
<1>9. Fcs(W(x)) = Fcs(W(y))
  <2>1. \A i \in 0..15 : i = 0 \/ i \in 1..15
    OBVIOUS
  <2>2. \A i : i \in Fcs(W(x)) <=> i \in Fcs(W(y))
    BY <1>6, <1>7, <1>8, <2>1
  <2> QED BY <2>2
<1> QED BY <1>1, <1>2, <1>9 DEF W

(* Every system codeword ends in the sync word of its channel, whatever    *)
(* the system code (CCSC and DCSC of mpt1327.py).                          *)
THEOREM SystemSync ==
  LayoutsSound /\ CodeSound =>
    \A syscode \in SUBSET (0..14) : Fcs(CCSC(syscode)) = SYNC /\ Fcs(DCSC(syscode)) = SYNT
<1> SUFFICES ASSUME LayoutsSound, CodeSound, NEW syscode \in SUBSET (0..14)
             PROVE  Fcs(CCSC(syscode)) = SYNC /\ Fcs(DCSC(syscode)) = SYNT
  OBVIOUS
<1> DEFINE ccsc == Shifted(PREAMBLE, 32) \cup Shifted(Bits(50388), 16)
           dcsc == Shifted(PREAMBLE, 32) \cup Shifted(Bits(15146), 16)
<1>1. \A s : CCSC(s) = System(s, ccsc, FALSE) /\ DCSC(s) = System(s, dcsc, TRUE)
  BY DEF CCSC, DCSC
<1>2. ccsc \in SUBSET (16..47) /\ dcsc \in SUBSET (16..47)
  <2>1. PREAMBLE \subseteq 0..15 /\ Bits(50388) \subseteq 0..30 /\ Bits(15146) \subseteq 0..30
    BY DEF LayoutsSound, Bits
  <2>2. (\A i \in 0..15 : i + 32 \in 16..47) /\ (\A i \in 0..30 : i + 16 \in 16..47)
    OBVIOUS
  <2>3. Shifted(PREAMBLE, 32) \subseteq 16..47
    BY <2>1, <2>2 DEF Shifted
  <2>4. Shifted(Bits(50388), 16) \subseteq 16..47 /\ Shifted(Bits(15146), 16) \subseteq 16..47
    BY <2>1, <2>2 DEF Shifted
  <2> QED BY <2>3, <2>4
<1> HIDE DEF ccsc, dcsc
<1>3. {} \in SUBSET (0..14)
  OBVIOUS
<1>4. Fcs(System(syscode, ccsc, FALSE)) = Fcs(System({}, ccsc, FALSE))
  BY <1>2, <1>3, SystemFcs
<1>5. Fcs(System(syscode, dcsc, TRUE)) = Fcs(System({}, dcsc, TRUE))
  BY <1>2, <1>3, SystemFcs
<1> QED BY <1>1, <1>4, <1>5 DEF CodeSound
=============================================================================

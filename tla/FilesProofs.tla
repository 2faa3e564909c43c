----------------------------- MODULE FilesProofs -----------------------------
(***************************************************************************)
(* Proofs about the archive and the file system, for every archive that ar *)
(* can write, every size of the tables and every number of programs.       *)
(***************************************************************************)
EXTENDS Files, FiniteSetTheorems, SequenceTheorems, TLAPS

-----------------------------------------------------------------------------
(* Induction.  The theorems of the library quantify over operators; over   *)
(* sets of natural numbers their instance is within the provers' reach.    *)

(* Every set of natural numbers that is not empty has a least element. *)
LEMMA LeastExists ==
  ASSUME NEW S \in SUBSET Nat, S # {}
  PROVE  \E x \in S : \A y \in S : x <= y
<1> DEFINE R == OpToRel(<, Nat)
<1>1. IsWellFoundedOn(R, Nat)
  BY NatLessThanWellFounded
<1>2. \A x, y \in Nat : x < y => <<x, y>> \in R
  BY DEF OpToRel
<1> HIDE DEF R
<1>3. PICK x \in S : \A y \in S : ~ (<<y, x>> \in R)
  BY <1>1, WFMin
<1>4. ASSUME NEW y \in S PROVE x <= y
  <2>1. ~(y < x) /\ x \in Nat /\ y \in Nat
    BY <1>2, <1>3
  <2> QED
    BY <2>1
<1> QED
  BY <1>4

(* Induction on a set of natural numbers. *)
LEMMA SetInduction ==
  ASSUME NEW n \in Nat, NEW G \in SUBSET (0 .. n), 0 \in G,
         \A k \in 0 .. n - 1 : k \in G => k + 1 \in G
  PROVE  G = 0 .. n
<1> SUFFICES ASSUME (0 .. n) \ G # {} PROVE FALSE
  OBVIOUS
<1>0. (0 .. n) \ G \in SUBSET Nat
  OBVIOUS
<1>1. PICK x \in (0 .. n) \ G : \A y \in (0 .. n) \ G : x <= y
  BY <1>0, LeastExists
<1>2. x # 0 /\ x - 1 \in 0 .. n - 1
  BY <1>1
<1>3. x - 1 \in G
  BY <1>1, <1>2
<1> QED
  BY <1>1, <1>2, <1>3

(* The minimum of a set of natural numbers is one of them and below all. *)
LEMMA MinIs ==
  ASSUME NEW S \in SUBSET Nat, S # {}
  PROVE  Min(S) \in S /\ \A y \in S : Min(S) <= y
BY LeastExists DEF Min

-----------------------------------------------------------------------------
(* Where the members of an archive start.                                  *)

(* The members that an archive may have. *)
LEMMA MembersOf ==
  ASSUME NEW a \in Archives
  PROVE  /\ Len(a) \in Nat
         /\ \A i \in 1 .. Len(a) : /\ a[i].name \in Names \cup {"/"}
                                   /\ a[i].size \in 0 .. WORD - 1
         /\ \A i, j \in 1 .. Len(a) : a[i].name = a[j].name => i = j
<1> DEFINE M == [name : Names \cup {"/"}, size : 0 .. WORD - 1]
<1>1. /\ a \in Seq(M)
      /\ \A i, j \in 1 .. Len(a) : a[i].name = a[j].name => i = j
  BY FilesAssumption
<1>2. Len(a) \in Nat
  BY <1>1
<1>3. ASSUME NEW i \in 1 .. Len(a)
      PROVE  a[i].name \in Names \cup {"/"} /\ a[i].size \in 0 .. WORD - 1
  <2> HIDE DEF M
  <2>1. a[i] \in M
    BY <1>1, ElementOfSeq
  <2> USE DEF M
  <2> QED
    BY <2>1
<1> QED
  BY <1>1, <1>2, <1>3

(* The recursion of Start has a solution, so Start obeys it. *)
LEMMA StartStep ==
  ASSUME NEW a \in Archives
  PROVE  /\ Start(a, 1) = MAGIC
         /\ \A i \in 1 .. Len(a) :
              Start(a, i + 1) = Start(a, i) + 2 * ((HDR + a[i].size + 1) \div 2)
<1> DEFINE n == Len(a) + 1
           Eq(f, k) == f[k] = IF k = 1 THEN MAGIC
                              ELSE f[k - 1] + 2 * ((HDR + a[k - 1].size + 1) \div 2)
           G == {m \in 0 .. n : \E f \in [1 .. n -> Nat] : \A k \in 1 .. m : Eq(f, k)}
<1>0. Len(a) \in Nat /\ n \in Nat /\ MAGIC \in Nat /\ HDR \in Nat
  BY MembersOf, ArchiveAssumption
<1>1. 0 \in G
  <2> DEFINE z == [k \in 1 .. n |-> MAGIC]
  <2>1. z \in [1 .. n -> Nat]
    BY <1>0
  <2>2. \A k \in 1 .. 0 : Eq(z, k)
    BY <1>0
  <2> HIDE DEF Eq, z, n
  <2> QED
    BY <1>0, <2>1, <2>2
<1>2. ASSUME NEW m \in 0 .. n - 1, m \in G PROVE m + 1 \in G
  <2>1. PICK f \in [1 .. n -> Nat] : \A k \in 1 .. m : Eq(f, k)
    BY <1>2
  <2> DEFINE v == IF m = 0 THEN MAGIC
                  ELSE f[m] + 2 * ((HDR + a[m].size + 1) \div 2)
             g == [f EXCEPT ![m + 1] = v]
  <2>2. v \in Nat
    <3>1. CASE m = 0
      BY <1>0, <3>1
    <3>2. CASE m # 0
      <4>1. m \in 1 .. Len(a) /\ m \in 1 .. n
        BY <1>0, <3>2
      <4>2. a[m].size \in Nat /\ f[m] \in Nat
        <5>1. a[m].size \in 0 .. WORD - 1
          BY <4>1, MembersOf
        <5>2. WORD \in Nat
          BY FilesAssumption
        <5> QED
          BY <4>1, <5>1, <5>2
      <4>3. (HDR + a[m].size + 1) \div 2 \in Nat
        BY <1>0, <4>2
      <4> QED
        BY <3>2, <4>2, <4>3
    <3> QED
      BY <3>1, <3>2
  <2> HIDE DEF v
  <2>3. g \in [1 .. n -> Nat]
    BY <2>2
  <2>4. ASSUME NEW k \in 1 .. m + 1 PROVE Eq(g, k)
    <3>1. CASE k = m + 1
      <4>1. g[k] = v
        BY <1>0, <3>1
      <4>2. m # 0 => g[k - 1] = f[m] /\ k - 1 = m
        BY <1>0, <3>1
      <4> QED
        BY <3>1, <4>1, <4>2 DEF v
    <3>2. CASE k # m + 1
      <4>1. k \in 1 .. m /\ g[k] = f[k] /\ (k # 1 => g[k - 1] = f[k - 1])
        BY <1>0, <3>2
      <4> QED
        BY <2>1, <4>1
    <3> QED
      BY <3>1, <3>2
  <2> HIDE DEF g, Eq
  <2> QED
    BY <1>0, <2>3, <2>4
<1>3. G = 0 .. n
  <2> HIDE DEF G
  <2>1. G \in SUBSET (0 .. n)
    BY DEF G
  <2> QED
    BY <1>0, <1>1, <1>2, <2>1, SetInduction
<1>4. PICK f \in [1 .. n -> Nat] : \A k \in 1 .. n : Eq(f, k)
  <2>1. n \in G
    <3> HIDE DEF G, n
    <3> QED
      BY <1>0, <1>3
  <2> HIDE DEF Eq, n
  <2> QED
    BY <2>1
<1> DEFINE Def(g) == [k \in 1 .. n |->
               IF k = 1 THEN MAGIC
               ELSE g[k - 1] + 2 * ((HDR + a[k - 1].size + 1) \div 2)]
           at == CHOOSE g : g = Def(g)
<1>5. f = Def(f)
  BY <1>4
<1>6. at = Def(at)
  <2> HIDE DEF Def
  <2> QED
    BY <1>5
<1>7. \A i : Start(a, i) = at[i]
  BY DEF Start
<1> HIDE DEF at
<1>8. \A k \in 1 .. n : at[k] = IF k = 1 THEN MAGIC
               ELSE at[k - 1] + 2 * ((HDR + a[k - 1].size + 1) \div 2)
  BY <1>6
<1>9. at[1] = MAGIC
  BY <1>0, <1>8
<1>10. ASSUME NEW i \in 1 .. Len(a)
       PROVE  at[i + 1] = at[i] + 2 * ((HDR + a[i].size + 1) \div 2)
  <2>1. i + 1 \in 1 .. n /\ i + 1 # 1 /\ (i + 1) - 1 = i
    BY <1>0
  <2> QED
    BY <1>8, <2>1
<1> QED
  BY <1>7, <1>9, <1>10
-----------------------------------------------------------------------------
(* The size in a header is read back as ar wrote it.                       *)

Digit == 0 .. RADIX - 1

(* f gives the digits of the numbers up to n. *)
IsDigits(f, n) ==
  /\ f \in [0 .. n -> Seq(Digit)]
  /\ \A k \in 0 .. n : f[k] = IF k < RADIX THEN <<k>>
                              ELSE Append(f[k \div RADIX], k % RADIX)

(* A[k] is what atoi has summed up after the last k of n digits. *)
IsSum(A, s, n) ==
  \A k \in 0 .. n :
    A[k] = IF k = 0 THEN [ret |-> 0, base |-> 1]
           ELSE [ret |-> A[k - 1].ret + A[k - 1].base * s[n - k + 1],
                 base |-> A[k - 1].base * RADIX]

(* Dividing by the radix gives a smaller number and a digit. *)
LEMMA Divide ==
  ASSUME NEW k \in Nat
  PROVE  /\ k \div RADIX \in Nat /\ k % RADIX \in Digit
         /\ k = RADIX * (k \div RADIX) + (k % RADIX)
         /\ k >= RADIX => k \div RADIX < k
<1>1. RADIX \in Nat /\ RADIX >= 2
  BY ArchiveAssumption
<1>2. /\ k = RADIX * (k \div RADIX) + (k % RADIX)
      /\ k \div RADIX \in Int /\ k % RADIX \in 0 .. RADIX - 1
  BY <1>1
<1> DEFINE q == k \div RADIX
           d == k % RADIX
<1> HIDE DEF q, d
<1>3. q >= 0
  <2> SUFFICES ASSUME q <= -1 PROVE FALSE
    BY <1>2 DEF q
  <2>1. RADIX * q <= RADIX * (-1)
    BY <1>1, <1>2 DEF q
  <2> QED
    BY <1>1, <1>2, <2>1 DEF q, d
<1>4. q > 0 => RADIX * q >= 2 * q
  BY <1>1, <1>2, <1>3 DEF q
<1>5. k >= RADIX => q < k
  BY <1>1, <1>2, <1>3, <1>4 DEF q, d
<1> QED
  BY <1>2, <1>3, <1>5 DEF q, d, Digit

(* The recursion that prints a number has a solution. *)
LEMMA DigitsExist ==
  ASSUME NEW n \in Nat
  PROVE  \E f : IsDigits(f, n)
<1> DEFINE Eq(f, k) == f[k] = IF k < RADIX THEN <<k>>
                              ELSE Append(f[k \div RADIX], k % RADIX)
           G == {m \in 0 .. n : \E f \in [0 .. n -> Seq(Digit)] : \A k \in 0 .. m : Eq(f, k)}
<1>0. RADIX \in Nat /\ RADIX >= 2
  BY ArchiveAssumption
<1>s. ASSUME NEW d \in Digit PROVE <<d>> \in Seq(Digit)
  OBVIOUS
<1>1. 0 \in G
  <2> DEFINE z == [k \in 0 .. n |-> <<0>>]
  <2>1. z \in [0 .. n -> Seq(Digit)]
    BY <1>0, <1>s DEF Digit
  <2>2. \A k \in 0 .. 0 : Eq(z, k)
    BY <1>0
  <2> HIDE DEF Eq, z
  <2> QED
    BY <2>1, <2>2
<1>2. ASSUME NEW m \in 0 .. n - 1, m \in G PROVE m + 1 \in G
  <2>1. PICK f \in [0 .. n -> Seq(Digit)] : \A k \in 0 .. m : Eq(f, k)
    BY <1>2
  <2> DEFINE c == m + 1
             v == IF c < RADIX THEN <<c>> ELSE Append(f[c \div RADIX], c % RADIX)
             g == [f EXCEPT ![c] = v]
  <2>c. c \in Nat /\ c \in 0 .. n /\ m = c - 1 /\ m \in Nat
    OBVIOUS
  <2> HIDE DEF c
  <2>2. v \in Seq(Digit)
    <3>1. CASE c < RADIX
      <4>1. c \in Digit
        BY <1>0, <2>c, <3>1 DEF Digit
      <4> QED
        BY <1>s, <3>1, <4>1
    <3>2. CASE c >= RADIX
      <4>0. c \div RADIX \in Nat /\ c \div RADIX < c /\ c % RADIX \in Digit
        BY <2>c, <3>2, Divide
      <4>1. c \div RADIX \in 0 .. n /\ c % RADIX \in Digit
        BY <2>c, <4>0
      <4>2. f[c \div RADIX] \in Seq(Digit)
        BY <4>1
      <4>3. ~(c < RADIX)
        BY <1>0, <2>c, <3>2
      <4> QED
        BY <4>1, <4>2, <4>3, AppendProperties
    <3>3. c < RADIX \/ c >= RADIX
      BY <1>0, <2>c
    <3> QED
      BY <3>1, <3>2, <3>3
  <2> HIDE DEF v
  <2>3. g \in [0 .. n -> Seq(Digit)]
    BY <2>2
  <2>4. ASSUME NEW k \in 0 .. c PROVE Eq(g, k)
    <3>0. k \in Nat /\ k <= c
      BY <2>c
    <3>a. k >= RADIX => k \div RADIX \in Nat /\ k \div RADIX < k
      BY <3>0, Divide
    <3>1. k >= RADIX => k \div RADIX \in 0 .. n /\ k \div RADIX < k
      BY <2>c, <3>0, <3>a
    <3>2. k >= RADIX => g[k \div RADIX] = f[k \div RADIX]
      BY <1>0, <2>c, <3>0, <3>1
    <3>3. CASE k = c
      <4>1. g[k] = v
        BY <2>c, <3>3
      <4> QED
        BY <1>0, <3>0, <3>2, <3>3, <4>1 DEF v
    <3>4. CASE k # c
      <4>1. k \in 0 .. m /\ g[k] = f[k]
        BY <1>0, <2>c, <3>0, <3>4
      <4>2. Eq(f, k)
        BY <2>1, <4>1
      <4> QED
        BY <1>0, <3>0, <3>2, <4>1, <4>2
    <3> QED
      BY <3>3, <3>4
  <2> HIDE DEF g, Eq
  <2>5. \E h \in [0 .. n -> Seq(Digit)] : \A k \in 0 .. c : Eq(h, k)
    BY <2>3, <2>4
  <2> QED
    BY <2>c, <2>5 DEF c
<1>3. n \in G
  <2> HIDE DEF G
  <2>1. G \in SUBSET (0 .. n)
    BY DEF G
  <2>2. G = 0 .. n
    BY <1>1, <1>2, <2>1, SetInduction
  <2> QED
    BY <2>2
<1> QED
  BY <1>3 DEF IsDigits

(* So SizeField prints the digits. *)
LEMMA SizeFieldIs ==
  ASSUME NEW n \in Nat
  PROVE  \E f : IsDigits(f, n) /\ SizeField(n) = f[n] \o <<SPACE, SPACE>>
<1> DEFINE Def(g) == [k \in 0 .. n |-> IF k < RADIX THEN <<k>>
                                       ELSE Append(g[k \div RADIX], k % RADIX)]
           digits == CHOOSE g : g = Def(g)
<1>0. RADIX \in Nat /\ RADIX >= 2
  BY ArchiveAssumption
<1>1. PICK f : IsDigits(f, n)
  BY DigitsExist
<1>2. f = Def(f)
  BY <1>1 DEF IsDigits
<1>3. digits = Def(digits)
  <2> HIDE DEF Def
  <2> QED
    BY <1>2
<1>4. SizeField(n) = digits[n] \o <<SPACE, SPACE>>
  BY DEF SizeField
<1> HIDE DEF digits
<1>5. \A k \in 0 .. n : digits[k] = IF k < RADIX THEN <<k>>
                                    ELSE Append(digits[k \div RADIX], k % RADIX)
  BY <1>3
<1> DEFINE G == {m \in 0 .. n : \A k \in 0 .. m : digits[k] \in Seq(Digit)}
<1>6. 0 \in G
  <2>1. digits[0] = <<0>>
    <3>1. 0 \in 0 .. n /\ 0 < RADIX
      BY <1>0
    <3> QED
      BY <1>5, <3>1
  <2>2. 0 \in Digit
    BY <1>0 DEF Digit
  <2>3. <<0>> \in Seq(Digit)
    BY <2>2
  <2>4. \A k \in 0 .. 0 : digits[k] \in Seq(Digit)
    <3>1. \A k \in 0 .. 0 : k = 0
      OBVIOUS
    <3> QED
      BY <2>1, <2>3, <3>1
  <2> QED
    BY <2>4
<1>7. ASSUME NEW m \in 0 .. n - 1, m \in G PROVE m + 1 \in G
  <2> DEFINE c == m + 1
  <2>c. c \in Nat /\ c \in 0 .. n /\ m = c - 1 /\ m \in Nat
    OBVIOUS
  <2>d. \A k \in 0 .. m : digits[k] \in Seq(Digit)
    BY <1>7
  <2> HIDE DEF c
  <2>1. ASSUME c < RADIX PROVE digits[c] \in Seq(Digit)
    <3>1. c \in Digit
      BY <1>0, <2>c, <2>1 DEF Digit
    <3>2. <<c>> \in Seq(Digit)
      BY <3>1
    <3>3. digits[c] = <<c>>
      BY <1>5, <2>c, <2>1
    <3> QED
      BY <3>2, <3>3
  <2>2. ASSUME c >= RADIX PROVE digits[c] \in Seq(Digit)
    <3>0. c \div RADIX \in Nat /\ c \div RADIX < c /\ c % RADIX \in Digit
      BY <2>c, <2>2, Divide
    <3>1. c \div RADIX \in 0 .. m /\ c % RADIX \in Digit
      BY <2>c, <3>0
    <3>2. digits[c \div RADIX] \in Seq(Digit)
      BY <2>d, <3>1
    <3>3. digits[c] = Append(digits[c \div RADIX], c % RADIX)
      <4>1. ~(c < RADIX)
        BY <1>0, <2>c, <2>2
      <4> QED
        BY <1>5, <2>c, <4>1
    <3> QED
      BY <3>1, <3>2, <3>3, AppendProperties
  <2>3. digits[c] \in Seq(Digit)
    <3>1. c < RADIX \/ c >= RADIX
      BY <1>0, <2>c
    <3> QED
      BY <2>1, <2>2, <3>1
  <2>4. \A k \in 0 .. c : digits[k] \in Seq(Digit)
    BY <2>c, <2>d, <2>3
  <2> QED
    BY <2>c, <2>4 DEF c
<1>8. G = 0 .. n
  <2> HIDE DEF G
  <2>1. G \in SUBSET (0 .. n)
    BY DEF G
  <2> QED
    BY <1>6, <1>7, <2>1, SetInduction
<1>9. digits \in [0 .. n -> Seq(Digit)]
  <2>1. \A k \in 0 .. n : digits[k] \in Seq(Digit)
    BY <1>8
  <2>2. digits = [k \in 0 .. n |-> digits[k]]
    BY <1>3
  <2> QED
    BY <2>1, <2>2
<1>10. IsDigits(digits, n)
  BY <1>5, <1>9 DEF IsDigits
<1> QED
  BY <1>4, <1>10

(* The sum, digit by digit. *)
LEMMA SumEqs ==
  ASSUME NEW n \in Nat, NEW s, NEW A, IsSum(A, s, n)
  PROVE  /\ A[0].ret = 0 /\ A[0].base = 1
         /\ \A k \in 0 .. n - 1 : /\ A[k + 1].ret = A[k].ret + A[k].base * s[n - k]
                                  /\ A[k + 1].base = A[k].base * RADIX
<1>1. ASSUME NEW c \in 0 .. n
      PROVE  A[c] = IF c = 0 THEN [ret |-> 0, base |-> 1]
                    ELSE [ret |-> A[c - 1].ret + A[c - 1].base * s[n - c + 1],
                          base |-> A[c - 1].base * RADIX]
  BY DEF IsSum
<1>2. A[0] = [ret |-> 0, base |-> 1]
  <2>1. 0 \in 0 .. n
    OBVIOUS
  <2> QED
    BY <1>1, <2>1
<1>3. ASSUME NEW k \in 0 .. n - 1
      PROVE  /\ A[k + 1].ret = A[k].ret + A[k].base * s[n - k]
             /\ A[k + 1].base = A[k].base * RADIX
  <2>1. k + 1 \in 0 .. n /\ k + 1 # 0 /\ (k + 1) - 1 = k /\ n - (k + 1) + 1 = n - k
    OBVIOUS
  <2>2. A[k + 1] = [ret |-> A[k].ret + A[k].base * s[n - k], base |-> A[k].base * RADIX]
    BY <1>1, <2>1
  <2> QED
    BY <2>2
<1> QED
  BY <1>2, <1>3

(* Sums of digits are natural numbers. *)
LEMMA SumType ==
  ASSUME NEW n \in Nat, NEW s, \A j \in 1 .. n : s[j] \in Nat, NEW A, IsSum(A, s, n)
  PROVE  \A k \in 0 .. n : A[k].ret \in Nat /\ A[k].base \in Nat
<1> DEFINE G == {k \in 0 .. n : A[k].ret \in Nat /\ A[k].base \in Nat}
<1>0. RADIX \in Nat
  BY ArchiveAssumption
<1>1. 0 \in G
  BY SumEqs
<1>2. ASSUME NEW k \in 0 .. n - 1, k \in G PROVE k + 1 \in G
  <2> DEFINE d == s[n - k]
             ar == A[k].ret
             ab == A[k].base
  <2>1. A[k + 1].ret = ar + ab * d /\ A[k + 1].base = ab * RADIX
    BY SumEqs
  <2>2. n - k \in 1 .. n /\ k + 1 \in 0 .. n
    OBVIOUS
  <2>3. d \in Nat /\ ar \in Nat /\ ab \in Nat
    BY <1>2, <2>2
  <2> HIDE DEF d, ar, ab
  <2>4. ar + ab * d \in Nat /\ ab * RADIX \in Nat
    BY <1>0, <2>3
  <2> QED
    BY <2>1, <2>2, <2>4
<1>3. G = 0 .. n
  <2> HIDE DEF G
  <2>1. G \in SUBSET (0 .. n)
    BY DEF G
  <2> QED
    BY <1>1, <1>2, <2>1, SetInduction
<1> QED
  BY <1>3

(* There is a sum for every string of digits. *)
LEMMA SumExists ==
  ASSUME NEW n \in Nat, NEW s, \A j \in 1 .. n : s[j] \in Nat
  PROVE  \E A \in [0 .. n -> [ret : Nat, base : Nat]] : IsSum(A, s, n)
<1> DEFINE T == [ret : Nat, base : Nat]
           Eq(A, k) == A[k] = IF k = 0 THEN [ret |-> 0, base |-> 1]
                              ELSE [ret |-> A[k - 1].ret + A[k - 1].base * s[n - k + 1],
                                    base |-> A[k - 1].base * RADIX]
           G == {m \in 0 .. n : \E A \in [0 .. n -> T] : \A k \in 0 .. m : Eq(A, k)}
<1>0. RADIX \in Nat
  BY ArchiveAssumption
<1>1. 0 \in G
  <2> DEFINE z == [k \in 0 .. n |-> [ret |-> 0, base |-> 1]]
  <2>1. z \in [0 .. n -> T]
    OBVIOUS
  <2>2. \A k \in 0 .. 0 : Eq(z, k)
    OBVIOUS
  <2> HIDE DEF z, Eq, T
  <2> QED
    BY <2>1, <2>2
<1>2. ASSUME NEW m \in 0 .. n - 1, m \in G PROVE m + 1 \in G
  <2>1. PICK A \in [0 .. n -> T] : \A k \in 0 .. m : Eq(A, k)
    BY <1>2
  <2> DEFINE c == m + 1
             d == s[n - c + 1]
             v == [ret |-> A[m].ret + A[m].base * d, base |-> A[m].base * RADIX]
             B == [A EXCEPT ![c] = v]
  <2>c. c \in 0 .. n /\ c # 0 /\ m = c - 1 /\ m \in 0 .. n /\ n - c + 1 \in 1 .. n
    OBVIOUS
  <2>2. v \in T
    <3>1. d \in Nat
      BY <2>c
    <3>2. A[m] \in T
      BY <2>c
    <3>3. A[m].ret \in Nat /\ A[m].base \in Nat
      BY <3>2
    <3> HIDE DEF d
    <3>4. A[m].ret + A[m].base * d \in Nat /\ A[m].base * RADIX \in Nat
      BY <1>0, <3>1, <3>3
    <3> QED
      BY <3>4
  <2> HIDE DEF v, T
  <2>3. B \in [0 .. n -> T]
    BY <2>2
  <2>4. ASSUME NEW k \in 0 .. c PROVE Eq(B, k)
    <3>1. CASE k = c
      <4>1. B[k] = v /\ B[k - 1] = A[m] /\ k # 0
        BY <2>c, <3>1
      <4> QED
        BY <3>1, <4>1 DEF v
    <3>2. CASE k # c
      <4>1. k \in 0 .. m /\ B[k] = A[k] /\ (k # 0 => B[k - 1] = A[k - 1])
        BY <2>c, <3>2
      <4>2. Eq(A, k)
        BY <2>1, <4>1
      <4> QED
        BY <4>1, <4>2
    <3> QED
      BY <3>1, <3>2
  <2> HIDE DEF B, Eq, c
  <2>5. \E f \in [0 .. n -> T] : \A k \in 0 .. c : Eq(f, k)
    BY <2>3, <2>4
  <2> QED
    BY <2>c, <2>5 DEF c
<1>3. n \in G
  <2> HIDE DEF G
  <2>1. G \in SUBSET (0 .. n)
    BY DEF G
  <2>2. G = 0 .. n
    BY <1>1, <1>2, <2>1, SetInduction
  <2> QED
    BY <2>2
<1> QED
  BY <1>3 DEF IsSum

(* t is s, of length n, and one more digit. *)
Longer(t, m, s, n) ==
  /\ m = n + 1 /\ t[m] \in Nat
  /\ \A j \in 1 .. n : s[j] \in Nat /\ t[j] = s[j]

(* One more digit behind the others multiplies what they stand for. *)
LEMMA SumAppend ==
  ASSUME NEW n \in Nat, NEW m, NEW s, NEW t, NEW A, NEW B,
         Longer(t, m, s, n), IsSum(A, s, n), IsSum(B, t, m)
  PROVE  B[m].ret = t[m] + RADIX * A[n].ret
<1> DEFINE d == t[m]
<1>d. /\ d \in Nat /\ t[n + 1] = d /\ IsSum(B, t, n + 1) /\ n + 1 = m
      /\ \A j \in 1 .. n : s[j] \in Nat /\ t[j] = s[j]
  BY DEF Longer
<1> HIDE DEF d
<1> DEFINE G == {k \in 0 .. n : /\ B[k + 1].ret = d + RADIX * A[k].ret
                                /\ B[k + 1].base = RADIX * A[k].base}
<1>0. RADIX \in Nat
  BY ArchiveAssumption
<1>a. \A k \in 0 .. n : A[k].ret \in Nat /\ A[k].base \in Nat
  BY <1>d, SumType
<1>b. \A k \in 0 .. n : /\ B[k + 1].ret = B[k].ret + B[k].base * t[n + 1 - k]
                        /\ B[k + 1].base = B[k].base * RADIX
  <2>1. n + 1 \in Nat /\ (n + 1) - 1 = n
    OBVIOUS
  <2> QED
    BY <1>d, <2>1, SumEqs
<1>1. 0 \in G
  <2>1. B[0].ret = 0 /\ B[0].base = 1 /\ A[0].ret = 0 /\ A[0].base = 1
    <3>1. n + 1 \in Nat
      OBVIOUS
    <3> QED
      BY <1>d, <3>1, SumEqs
  <2>2. B[1].ret = B[0].ret + B[0].base * t[n + 1] /\ B[1].base = B[0].base * RADIX
    <3>1. 0 \in 0 .. n /\ 0 + 1 = 1 /\ n + 1 - 0 = n + 1
      OBVIOUS
    <3> QED
      BY <1>b, <3>1
  <2>3. B[1].ret = d /\ B[1].base = RADIX
    BY <1>0, <1>d, <2>1, <2>2
  <2> QED
    BY <1>0, <1>d, <2>1, <2>3
<1>2. ASSUME NEW k \in 0 .. n - 1, k \in G PROVE k + 1 \in G
  <2>1. /\ k \in 0 .. n /\ k + 1 \in 0 .. n
        /\ n - k \in 1 .. n /\ n + 1 - (k + 1) = n - k
    OBVIOUS
  <2> DEFINE e == s[n - k]
             ar == A[k].ret
             ab == A[k].base
  <2>2. A[k + 1].ret = ar + ab * e /\ A[k + 1].base = ab * RADIX
    BY SumEqs
  <2>3. t[n - k] = e /\ e \in Nat /\ ar \in Nat /\ ab \in Nat
    BY <1>a, <1>d, <2>1
  <2>4. /\ B[(k + 1) + 1].ret = B[k + 1].ret + B[k + 1].base * e
        /\ B[(k + 1) + 1].base = B[k + 1].base * RADIX
    BY <1>b, <2>1, <2>3
  <2>5. B[k + 1].ret = d + RADIX * ar /\ B[k + 1].base = RADIX * ab
    BY <1>2
  <2> HIDE DEF e, ar, ab
  <2>6. (d + RADIX * ar) + (RADIX * ab) * e = d + RADIX * (ar + ab * e)
    BY <1>0, <1>d, <2>3
  <2>7. (RADIX * ab) * RADIX = RADIX * (ab * RADIX)
    BY <1>0, <2>3
  <2>8. /\ B[(k + 1) + 1].ret = d + RADIX * A[k + 1].ret
        /\ B[(k + 1) + 1].base = RADIX * A[k + 1].base
    BY <2>2, <2>4, <2>5, <2>6, <2>7
  <2> QED
    BY <2>1, <2>8
<1>3. G = 0 .. n
  <2> HIDE DEF G
  <2>1. G \in SUBSET (0 .. n)
    BY DEF G
  <2> QED
    BY <1>1, <1>2, <2>1, SetInduction
<1> QED
  BY <1>3, <1>d DEF d

(* Whoever sums up the digits of a number gets the number. *)
LEMMA DigitsValue ==
  ASSUME NEW n \in Nat, NEW f, IsDigits(f, n)
  PROVE  \A k \in 0 .. n : /\ Len(f[k]) >= 1
                           /\ \A A : IsSum(A, f[k], Len(f[k])) => A[Len(f[k])].ret = k
<1> DEFINE P(k) == /\ Len(f[k]) >= 1
                   /\ \A A : IsSum(A, f[k], Len(f[k])) => A[Len(f[k])].ret = k
           G == {m \in 0 .. n : \A k \in 0 .. m : P(k)}
<1>0. RADIX \in Nat /\ RADIX >= 2
  BY ArchiveAssumption
<1>f. \A k \in 0 .. n : /\ f[k] \in Seq(Digit)
                        /\ f[k] = IF k < RADIX THEN <<k>>
                                  ELSE Append(f[k \div RADIX], k % RADIX)
  BY DEF IsDigits
<1>1. ASSUME NEW k \in 0 .. n, k < RADIX PROVE P(k)
  <2>1. f[k] = <<k>>
    BY <1>f, <1>1
  <2>2. Len(f[k]) = 1 /\ f[k][1] = k
    BY <2>1
  <2>3. ASSUME NEW A, IsSum(A, f[k], 1) PROVE A[1].ret = k
    <3>1. A[0].ret = 0 /\ A[0].base = 1
      BY <2>3, SumEqs
    <3>2. A[0 + 1].ret = A[0].ret + A[0].base * f[k][1 - 0]
      <4>1. 0 \in 0 .. 1 - 1
        OBVIOUS
      <4> QED
        BY <2>3, <4>1, SumEqs
    <3> QED
      BY <2>2, <3>1, <3>2
  <2> QED
    BY <2>2, <2>3
<1>2. ASSUME NEW k \in 0 .. n, k >= RADIX, P(k \div RADIX) PROVE P(k)
  <2> DEFINE q == k \div RADIX
             d == k % RADIX
  <2>1. q \in 0 .. n /\ d \in Digit /\ k = RADIX * q + d
    <3>1. k \in Nat
      OBVIOUS
    <3>2. q \in Nat /\ q < k /\ d \in Digit /\ k = RADIX * q + d
      BY <1>2, <3>1, Divide
    <3> HIDE DEF q
    <3> QED
      BY <3>2
  <2>2. f[k] = Append(f[q], d)
    <3>1. ~(k < RADIX)
      BY <1>0, <1>2
    <3> QED
      BY <1>f, <3>1
  <2>3. P(q)
    BY <1>2
  <2> HIDE DEF q, d
  <2>4. f[q] \in Seq(Digit)
    BY <1>f, <2>1
  <2> DEFINE len == Len(f[q])
  <2>5. /\ Len(f[k]) = len + 1 /\ len \in Nat
        /\ \A j \in 1 .. len : f[k][j] = f[q][j]
        /\ f[k][len + 1] = d
    BY <2>1, <2>2, <2>4, AppendProperties, LenProperties
  <2>6. \A j \in 1 .. len : f[q][j] \in Nat
    <3>1. \A j \in 1 .. len : f[q][j] \in Digit
      BY <2>4, ElementOfSeq
    <3> QED
      BY <1>0, <3>1 DEF Digit
  <2>7. PICK A : IsSum(A, f[q], len)
    BY <2>5, <2>6, SumExists
  <2>8. A[len].ret = q
    BY <2>3, <2>7
  <2>9. d \in Nat
    BY <1>0, <2>1 DEF Digit
  <2>10. ASSUME NEW B, IsSum(B, f[k], len + 1) PROVE B[len + 1].ret = k
    <3> HIDE DEF len, P
    <3>0. \A j \in 1 .. len : f[q][j] \in Nat /\ f[k][j] = f[q][j]
      BY <2>5, <2>6
    <3>1. B[len + 1].ret = d + RADIX * A[len].ret
      <4> DEFINE m == len + 1
      <4>1. IsSum(B, f[k], m) /\ f[k][m] \in Nat /\ m = len + 1
        BY <2>5, <2>9, <2>10
      <4> HIDE DEF m
      <4>2. Longer(f[k], m, f[q], len)
        BY <3>0, <4>1 DEF Longer
      <4>3. B[m].ret = f[k][m] + RADIX * A[len].ret
        BY <2>5, <2>7, <4>1, <4>2, SumAppend
      <4> QED
        BY <2>5, <4>1, <4>3
    <3> QED
      BY <1>0, <2>1, <2>8, <2>9, <3>1
  <2> QED
    BY <2>5, <2>10
<1>3. 0 \in G
  <2>1. 0 \in 0 .. n /\ 0 < RADIX /\ \A k \in 0 .. 0 : k = 0
    BY <1>0
  <2>2. P(0)
    BY <1>1, <2>1
  <2> HIDE DEF P
  <2> QED
    BY <2>1, <2>2
<1>4. ASSUME NEW m \in 0 .. n - 1, m \in G PROVE m + 1 \in G
  <2> DEFINE c == m + 1
  <2>c. c \in Nat /\ c \in 0 .. n /\ m = c - 1 /\ m \in Nat
    OBVIOUS
  <2>d. \A k \in 0 .. m : P(k)
    BY <1>4
  <2> HIDE DEF c, P
  <2>1. ASSUME c >= RADIX PROVE P(c)
    <3>1. c \div RADIX \in Nat /\ c \div RADIX < c
      BY <2>c, <2>1, Divide
    <3>2. c \div RADIX \in 0 .. m
      BY <2>c, <3>1
    <3> QED
      BY <1>2, <2>c, <2>d, <2>1, <3>2
  <2>2. c < RADIX \/ c >= RADIX
    BY <1>0, <2>c
  <2>3. P(c)
    BY <1>1, <2>c, <2>1, <2>2
  <2>4. \A k \in 0 .. c : P(k)
    BY <2>c, <2>d, <2>3
  <2> QED
    BY <2>c, <2>4 DEF c
<1>5. n \in G
  <2> HIDE DEF G
  <2>1. G \in SUBSET (0 .. n)
    BY DEF G
  <2>2. G = 0 .. n
    BY <1>3, <1>4, <2>1, SetInduction
  <2> QED
    BY <2>2
<1> QED
  BY <1>5

(* atoi sums up the digits in front of the spaces. *)
LEMMA AtoiIs ==
  ASSUME NEW s \in Seq(Digit), Len(s) >= 1
  PROVE  \E A : /\ IsSum(A, s, Len(s))
                /\ atoi(null_out_space(s \o <<SPACE, SPACE>>)) = A[Len(s)].ret
<1> DEFINE len == Len(s)
           field == s \o <<SPACE, SPACE>>
           str == null_out_space(field)
           ends == {k \in 2 .. Len(str) : str[k] = NUL}
<1>0. RADIX \in Nat /\ RADIX >= 2
  BY ArchiveAssumption
<1>1. len \in Nat /\ \A j \in 1 .. len : s[j] \in Digit
  BY ElementOfSeq, LenProperties
<1>2. /\ field \in Seq(Int) /\ Len(field) = len + 2
      /\ \A j \in 1 .. len : field[j] = s[j]
      /\ field[len + 1] = SPACE /\ field[len + 2] = SPACE
  <2>1. s \in Seq(Int)
    <3>1. Digit \subseteq Int
      BY <1>0 DEF Digit
    <3> QED
      BY <3>1, SeqMonotonic
  <2>2. <<SPACE, SPACE>> \in Seq(Int) /\ Len(<<SPACE, SPACE>>) = 2
    BY DEF SPACE
  <2> DEFINE pad == <<SPACE, SPACE>>
  <2>p. pad[1] = SPACE /\ pad[2] = SPACE
    OBVIOUS
  <2> HIDE DEF pad
  <2>3. /\ field \in Seq(Int) /\ Len(field) = Len(s) + Len(pad)
        /\ \A i \in 1 .. Len(s) + Len(pad) :
             field[i] = IF i <= Len(s) THEN s[i] ELSE pad[i - Len(s)]
    BY <2>1, <2>2, ConcatProperties DEF pad
  <2>4. Len(pad) = 2
    BY <2>2 DEF pad
  <2> HIDE DEF field
  <2>5. Len(field) = len + 2
    BY <2>3, <2>4
  <2>6. ASSUME NEW j \in 1 .. len PROVE field[j] = s[j]
    BY <1>1, <2>3, <2>4
  <2>7. field[len + 1] = pad[1]
    <3>1. len + 1 \in 1 .. Len(s) + Len(pad) /\ ~(len + 1 <= len) /\ (len + 1) - len = 1
      BY <1>1, <2>4
    <3> QED
      BY <2>3, <3>1
  <2>8. field[len + 2] = pad[2]
    <3>1. len + 2 \in 1 .. Len(s) + Len(pad) /\ ~(len + 2 <= len) /\ (len + 2) - len = 2
      BY <1>1, <2>4
    <3> QED
      BY <2>3, <3>1
  <2> QED
    BY <2>3, <2>5, <2>6, <2>7, <2>8, <2>p
<1> HIDE DEF field
<1>3. DOMAIN field = 1 .. len + 2
  BY <1>2, LenProperties
<1>4. str = [k \in 1 .. len + 2 |-> IF field[k] = SPACE THEN NUL ELSE field[k]]
  BY <1>3 DEF null_out_space
<1>5. Len(str) = len + 2
  BY <1>1, <1>4
<1> HIDE DEF str
<1>6. ASSUME NEW j \in 1 .. len PROVE str[j] = s[j] /\ str[j] \in Nat
  <2>1. s[j] \in Digit /\ field[j] = s[j]
    BY <1>1, <1>2
  <2>2. s[j] \in Nat /\ s[j] # SPACE
    BY <1>0, <2>1 DEF Digit, SPACE
  <2> QED
    BY <1>1, <1>4, <2>1, <2>2
<1>7. str[len + 1] = NUL
  BY <1>1, <1>2, <1>4
<1>8. Min(ends) = len + 1
  <2>1. len + 1 \in ends
    BY <1>1, <1>5, <1>7
  <2>2. ASSUME NEW k \in ends PROVE k >= len + 1
    <3>1. k \in 2 .. len + 2 /\ str[k] = NUL
      BY <1>5
    <3>2. CASE k <= len
      <4>1. k \in 1 .. len
        BY <1>1, <3>1, <3>2
      <4>2. str[k] \in Nat
        BY <1>6, <4>1
      <4> QED
        BY <3>1, <4>2 DEF NUL
    <3> QED
      BY <1>1, <3>1, <3>2
  <2>3. ends \in SUBSET Nat
    BY <1>1, <1>5
  <2> HIDE DEF ends
  <2>4. Min(ends) \in ends /\ Min(ends) <= len + 1
    BY <2>1, <2>3, MinIs
  <2>5. Min(ends) >= len + 1 /\ Min(ends) \in Nat
    BY <2>2, <2>3, <2>4
  <2> QED
    BY <1>1, <2>4, <2>5
<1> DEFINE Def(g) == [k \in 0 .. len |->
              IF k = 0 THEN [ret |-> 0, base |-> 1]
              ELSE [ret |-> g[k - 1].ret + g[k - 1].base * str[len - k + 1],
                    base |-> g[k - 1].base * RADIX]]
           sum == CHOOSE g : g = Def(g)
<1>9. atoi(str) = sum[len].ret
  <2>1. Min({k \in 2 .. Len(str) : str[k] = NUL}) - 1 = len
    BY <1>1, <1>8
  <2> QED
    BY <2>1 DEF atoi
<1>10. PICK f \in [0 .. len -> [ret : Nat, base : Nat]] : IsSum(f, str, len)
  BY <1>1, <1>6, SumExists
<1>11. f = Def(f)
  BY <1>10 DEF IsSum
<1>12. sum = Def(sum)
  <2> HIDE DEF Def
  <2> QED
    BY <1>11
<1> HIDE DEF sum
<1>13. IsSum(sum, s, len)
  <2>1. ASSUME NEW k \in 0 .. len, k # 0 PROVE str[len - k + 1] = s[len - k + 1]
    <3>1. len - k + 1 \in 1 .. len
      BY <1>1, <2>1
    <3> QED
      BY <1>6, <3>1
  <2>2. \A k \in 0 .. len : sum[k] = IF k = 0 THEN [ret |-> 0, base |-> 1]
              ELSE [ret |-> sum[k - 1].ret + sum[k - 1].base * str[len - k + 1],
                    base |-> sum[k - 1].base * RADIX]
    BY <1>12
  <2> QED
    BY <2>1, <2>2 DEF IsSum
<1> QED
  BY <1>9, <1>13 DEF str, field

(* atoi and null_out_space read back every number that ar can print.       *)
THEOREM SizeIsReadBack ==
  ASSUME NEW n \in Nat
  PROVE  atoi(null_out_space(SizeField(n))) = n
<1>1. PICK f : IsDigits(f, n) /\ SizeField(n) = f[n] \o <<SPACE, SPACE>>
  BY SizeFieldIs
<1>2. f[n] \in Seq(Digit)
  BY <1>1 DEF IsDigits
<1>3. /\ Len(f[n]) >= 1
      /\ \A A : IsSum(A, f[n], Len(f[n])) => A[Len(f[n])].ret = n
  <2>1. n \in 0 .. n
    OBVIOUS
  <2> QED
    BY <1>1, <2>1, DigitsValue
<1>4. PICK A : /\ IsSum(A, f[n], Len(f[n]))
               /\ atoi(null_out_space(f[n] \o <<SPACE, SPACE>>)) = A[Len(f[n])].ret
  BY <1>2, <1>3, AtoiIs
<1> QED
  BY <1>1, <1>3, <1>4

-----------------------------------------------------------------------------
(* The headers of an archive.                                              *)

(* Every member starts at a natural number. *)
LEMMA StartType ==
  ASSUME NEW a \in Archives
  PROVE  \A i \in 1 .. Len(a) + 1 : Start(a, i) \in Nat
<1> DEFINE n == Len(a)
           at == [i \in 1 .. n + 1 |-> Start(a, i)]
           G == {m \in 0 .. n : Start(a, m + 1) \in Nat}
<1>0. n \in Nat /\ MAGIC \in Nat /\ HDR \in Nat /\ WORD \in Nat
  BY MembersOf, ArchiveAssumption, FilesAssumption
<1>1. 0 \in G
  <2>1. Start(a, 0 + 1) = MAGIC
    BY StartStep
  <2> QED
    BY <1>0, <2>1
<1>2. ASSUME NEW m \in 0 .. n - 1, m \in G PROVE m + 1 \in G
  <2> DEFINE i == m + 1
  <2>1. i \in 1 .. n /\ m + 1 \in 0 .. n
    BY <1>0
  <2>2. a[i].size \in 0 .. WORD - 1 /\ Start(a, i) \in Nat
    BY <1>2, <2>1, MembersOf
  <2>3. Start(a, i + 1) = Start(a, i) + 2 * ((HDR + a[i].size + 1) \div 2)
    BY <2>1, StartStep
  <2> HIDE DEF i
  <2>4. (HDR + a[i].size + 1) \div 2 \in Nat
    BY <1>0, <2>2
  <2>5. Start(a, i + 1) \in Nat
    BY <2>2, <2>3, <2>4
  <2> QED
    BY <2>1, <2>5 DEF i
<1>3. G = 0 .. n
  <2> HIDE DEF G, n
  <2>1. G \in SUBSET (0 .. n)
    BY DEF G
  <2> QED
    BY <1>0, <1>1, <1>2, <2>1, SetInduction
<1>4. ASSUME NEW i \in 1 .. n + 1 PROVE Start(a, i) \in Nat
  <2>1. i - 1 \in 0 .. n /\ (i - 1) + 1 = i
    BY <1>0
  <2>2. i - 1 \in G
    BY <1>3, <2>1
  <2> QED
    BY <2>1, <2>2
<1> QED
  BY <1>4

(* From one header, init_fs steps to the next one, whatever the parity of  *)
(* the size.                                                               *)
LEMMA StartNext ==
  ASSUME NEW a \in Archives, NEW i \in 1 .. Len(a)
  PROVE  /\ Start(a, i + 1) = NextHeader(Start(a, i), a[i].size)
         /\ Start(a, i) < Start(a, i + 1)
<1> DEFINE b == Start(a, i)
           z == a[i].size
<1>0. Len(a) \in Nat /\ HDR \in Nat \ {0} /\ HDR % 2 = 0 /\ WORD \in Nat
  BY MembersOf, ArchiveAssumption, FilesAssumption
<1>1. b \in Nat
  BY <1>0, StartType
<1>2. z \in Nat
  BY <1>0, MembersOf
<1>3. Start(a, i + 1) = b + 2 * ((HDR + z + 1) \div 2)
  BY StartStep
<1> HIDE DEF b, z
<1>4. 2 * ((HDR + z + 1) \div 2) = HDR + z + (IF z % 2 = 1 THEN 1 ELSE 0)
  BY <1>0, <1>2
<1>5. Start(a, i + 1) = NextHeader(b, z)
  BY <1>0, <1>1, <1>2, <1>3, <1>4 DEF NextHeader
<1>6. NextHeader(b, z) > b
  BY <1>0, <1>1, <1>2 DEF NextHeader
<1> QED
  BY <1>5, <1>6 DEF b, z

(* No two members start at the same byte. *)
LEMMA StartIncreasing ==
  ASSUME NEW a \in Archives, NEW i \in 1 .. Len(a) + 1, NEW j \in 1 .. Len(a) + 1, i < j
  PROVE  Start(a, i) < Start(a, j)
<1> DEFINE n == Len(a)
           G == {m \in 0 .. n : i < m + 1 => Start(a, i) < Start(a, m + 1)}
<1>0. n \in Nat
  BY MembersOf
<1>1. 0 \in G
  BY <1>0
<1>2. ASSUME NEW m \in 0 .. n - 1, m \in G PROVE m + 1 \in G
  <2> DEFINE c == m + 1
  <2>1. c \in 1 .. n /\ c + 1 \in 1 .. n + 1 /\ c \in 1 .. n + 1
    BY <1>0
  <2>2. i < c => Start(a, i) < Start(a, c)
    BY <1>2
  <2> HIDE DEF c
  <2>3. Start(a, c) < Start(a, c + 1)
    BY <2>1, StartNext
  <2>4. Start(a, c) \in Nat /\ Start(a, c + 1) \in Nat /\ Start(a, i) \in Nat
    BY <2>1, StartType
  <2>5. i < c + 1 => i < c \/ i = c
    BY <1>0, <2>1
  <2>6. i < c + 1 => Start(a, i) < Start(a, c + 1)
    BY <2>2, <2>3, <2>4, <2>5
  <2> QED
    BY <2>1, <2>6 DEF c
<1>3. G = 0 .. n
  <2> HIDE DEF G, n
  <2>1. G \in SUBSET (0 .. n)
    BY DEF G
  <2> QED
    BY <1>0, <1>1, <1>2, <2>1, SetInduction
<1>4. j - 1 \in 0 .. n /\ (j - 1) + 1 = j
  BY <1>0
<1>5. j - 1 \in G
  BY <1>3, <1>4
<1> QED
  BY <1>4, <1>5

(* What init_fs finds at the start of a member. *)
LEMMA HeaderIs ==
  ASSUME NEW a \in Archives, NEW k \in 1 .. Len(a) + 1, NEW i \in 1 .. Len(a),
         Start(a, i) = Start(a, k)
  PROVE  i = k /\ ParsedSize(a[i]) = a[i].size
<1>1. Len(a) \in Nat /\ i \in 1 .. Len(a) + 1
  BY MembersOf
<1>2. i = k
  <2>1. Start(a, i) \in Nat
    BY <1>1, StartType
  <2>2. ~(i < k)
    BY <1>1, <2>1, StartIncreasing
  <2>3. ~(k < i)
    BY <1>1, <2>1, StartIncreasing
  <2> QED
    BY <1>1, <2>2, <2>3
<1>3. a[i].size \in Nat
  <2>1. a[i].size \in 0 .. WORD - 1 /\ WORD \in Nat
    BY MembersOf, FilesAssumption
  <2> QED
    BY <2>1
<1> QED
  BY <1>2, <1>3, SizeIsReadBack DEF ParsedSize

-----------------------------------------------------------------------------
(* The pieces of fs.c and sys_file.c.                                      *)

(* The constants are natural numbers. *)
LEMMA Sizes ==
  /\ MAX_FILES \in Nat \ {0} /\ MAX_OPEN_FILES \in Nat /\ PGSIZE \in Nat
  /\ INT_SIZE \in Nat /\ WORD \in Nat \ {0} /\ MAX_FILES <= PGSIZE /\ PGSIZE < WORD
<1>1. /\ MAX_FILES \in Nat /\ MAX_OPEN_FILES \in Nat /\ PGSIZE \in Nat
      /\ INT_SIZE \in Nat /\ WORD \in Nat
  BY FilesAssumption
<1>2. 0 < MAX_FILES /\ MAX_FILES <= PGSIZE /\ PGSIZE < WORD
  BY FilesAssumption
<1> QED
  BY <1>1, <1>2

(* Sizes and positions are natural numbers below WORD. *)
LEMMA SizeType ==
  ASSUME TypeOK, NEW s \in Slots
  PROVE  /\ size[s] \in Nat /\ size[s] < WORD
         /\ pos[s] \in Nat /\ pos[s] < WORD
<1>1. size[s] \in 0 .. WORD - 1 /\ pos[s] \in 0 .. WORD - 1
  BY DEF TypeOK
<1>2. WORD \in Nat
  BY Sizes
<1> QED
  BY <1>1, <1>2

(* The counts of reads and writes are natural numbers. *)
LEMMA CountType == ASSUME NEW count \in Counts PROVE count \in Nat
<1>1. count \in 1 .. PGSIZE
  BY FilesAssumption
<1>2. PGSIZE \in Nat
  BY Sizes
<1> QED
  BY <1>1, <1>2

(* What the remainder modulo WORD is. *)
LEMMA Wrap ==
  ASSUME NEW n \in Int
  PROVE  n % WORD \in 0 .. WORD - 1 /\ (n \in 0 .. WORD - 1 => n % WORD = n)
<1>1. WORD \in Nat \ {0}
  BY Sizes
<1> QED
  BY <1>1

(* The first of a set of slots is one of them. *)
LEMMA FirstIs ==
  ASSUME NEW S \in SUBSET Slots
  PROVE  /\ S = {} => First(S) = NULL
         /\ S # {} => First(S) \in S /\ First(S) # NULL /\ \A t \in S : First(S) <= t
<1>1. S \in SUBSET Nat /\ 0 \notin S
  BY Sizes DEF Slots
<1> QED
  BY <1>1, MinIs DEF First, NULL

(* get_file finds a slot with the name if there is one. *)
LEMMA GetFileIs ==
  ASSUME NEW path
  PROVE  /\ get_file(path) # NULL => get_file(path) \in Slots /\ name[get_file(path)] = path
         /\ get_file(path) = NULL /\ path # "" => \A s \in Slots : name[s] # path
<1> DEFINE S == {s \in Slots : name[s] = path}
<1>1. S \in SUBSET Slots
  OBVIOUS
<1>2. get_file(path) = IF path = "" THEN NULL ELSE First(S)
  BY DEF get_file
<1>3. /\ S = {} => First(S) = NULL
      /\ S # {} => First(S) \in S /\ First(S) # NULL
  BY <1>1, FirstIs
<1> QED
  BY <1>2, <1>3

(* alloc_file takes the first free slot. *)
LEMMA AllocFileIs ==
  ASSUME NEW s, NEW path, alloc_file(s, path)
  PROVE  /\ s \in Slots /\ in_use[s] = 0 /\ path # LONG
         /\ \A t \in Slots : t < s => in_use[t] # 0
<1> DEFINE S == {t \in Slots : in_use[t] = 0}
<1>1. S \in SUBSET Slots
  OBVIOUS
<1>2. s = First(S) /\ s # NULL /\ path # LONG
  BY DEF alloc_file
<1>3. /\ S = {} => First(S) = NULL
      /\ S # {} => First(S) \in S /\ First(S) # NULL /\ \A t \in S : First(S) <= t
  BY <1>1, FirstIs
<1>4. s \in S /\ \A t \in S : s <= t
  BY <1>2, <1>3
<1>5. \A t \in Slots : t < s => t \notin S
  <2>1. Slots \in SUBSET Nat
    BY Sizes DEF Slots
  <2> HIDE DEF S
  <2> QED
    BY <1>1, <1>4, <2>1
<1> QED
  BY <1>2, <1>4, <1>5

(* An open resets the position of its file, and only that. *)
LEMMA InstallIs ==
  ASSUME TypeOK, NEW p \in Procs, NEW s \in Slots \cup {console_file}, install(p, s)
  PROVE  /\ open_files' \in [Procs -> [Fds -> Slots \cup {NULL, console_file}]]
         /\ pos' \in [Slots -> 0 .. WORD - 1]
         /\ \A t \in Slots : pos'[t] = IF t = s THEN 0 ELSE pos[t]
         /\ written' = written \ {s}
<1> DEFINE fd == {f \in Fds : open_files[p][f] = NULL}
<1>0. open_files \in [Procs -> [Fds -> Slots \cup {NULL, console_file}]]
      /\ pos \in [Slots -> 0 .. WORD - 1]
  BY DEF TypeOK
<1>1. open_files' \in [Procs -> [Fds -> Slots \cup {NULL, console_file}]]
  <2>1. CASE fd = {}
    BY <1>0, <2>1 DEF install
  <2>2. CASE fd # {}
    <3>1. open_files' = [open_files EXCEPT ![p][Min(fd)] = s]
      BY <2>2 DEF install
    <3>2. fd \in SUBSET Nat
      BY Sizes DEF Fds
    <3>3. Min(fd) \in Fds
      BY <2>2, <3>2, MinIs
    <3> HIDE DEF fd
    <3> QED
      BY <1>0, <3>1, <3>3
  <2> QED
    BY <2>1, <2>2
<1>2. 0 \notin {console_file} /\ console_file \notin Slots
  BY Sizes DEF console_file, Slots
<1>3. CASE s = console_file
  <2>1. pos' = pos
    BY <1>3 DEF install
  <2> QED
    BY <1>0, <1>1, <1>2, <1>3, <2>1 DEF install
<1>4. CASE s # console_file
  <2>1. pos' = [pos EXCEPT ![s] = 0] /\ s \in Slots
    BY <1>4 DEF install
  <2>2. 0 \in 0 .. WORD - 1
    BY Sizes
  <2> QED
    BY <1>0, <1>1, <2>1, <2>2 DEF install
<1> QED
  BY <1>3, <1>4

(* Counting the smaller members numbers a set of slots without gaps. *)
LEMMA RankExists ==
  ASSUME NEW S \in SUBSET Slots
  PROVE  /\ Cardinality(S) \in 0 .. MAX_FILES
         /\ \A i \in 0 .. Cardinality(S) - 1 :
              \E s \in S : Cardinality({t \in S : t < s}) = i
         /\ \A s \in S : Cardinality({t \in S : t < s}) \in 0 .. Cardinality(S) - 1
         /\ \A s, u \in S : Cardinality({t \in S : t < s}) = Cardinality({t \in S : t < u}) => s = u
<1> DEFINE n == Cardinality(S)
           below(s) == {t \in S : t < s}
           rank == [s \in S |-> Cardinality(below(s))]
<1>0. MAX_FILES \in Nat /\ Slots \in SUBSET Nat
  BY Sizes DEF Slots
<1>1. IsFiniteSet(Slots) /\ Cardinality(Slots) = MAX_FILES
  <2>1. IsFiniteSet(1 .. MAX_FILES)
        /\ Cardinality(1 .. MAX_FILES) = IF 1 > MAX_FILES THEN 0 ELSE MAX_FILES - 1 + 1
    BY <1>0, FS_Interval
  <2> QED
    BY <2>1, Sizes DEF Slots
<1>2. IsFiniteSet(S) /\ n \in Nat /\ n <= MAX_FILES
  BY <1>1, FS_Subset, FS_CardinalityType
<1>3. ASSUME NEW s \in S
      PROVE  IsFiniteSet(below(s)) /\ Cardinality(below(s)) \in 0 .. n - 1
  <2>1. below(s) \in SUBSET S /\ s \notin below(s)
    BY <1>0
  <2> HIDE DEF below
  <2>2. IsFiniteSet(below(s)) /\ Cardinality(below(s)) <= n
        /\ (n = Cardinality(below(s)) => S = below(s))
    BY <1>2, <2>1, FS_Subset
  <2>3. Cardinality(below(s)) # n /\ Cardinality(below(s)) \in Nat
    BY <2>1, <2>2, FS_CardinalityType
  <2> QED
    BY <1>2, <2>2, <2>3
<1>4. rank \in [S -> 0 .. n - 1]
  BY <1>3
<1>5. ASSUME NEW x \in S, NEW y \in S, x < y PROVE rank[x] # rank[y]
  <2> DEFINE U == below(x) \cup {x}
  <2>0. (\A t \in S : t < x => t < y) /\ ~(x < x)
    <3>1. \A t \in S : t \in Nat
      BY <1>0
    <3> QED
      BY <1>5, <3>1
  <2>1. U \in SUBSET below(y) /\ x \notin below(x)
    BY <1>5, <2>0
  <2> HIDE DEF below
  <2>2. IsFiniteSet(U) /\ Cardinality(U) = Cardinality(below(x)) + 1
    BY <1>3, <2>1, FS_AddElement
  <2> HIDE DEF U
  <2>3. Cardinality(U) <= Cardinality(below(y))
    BY <1>3, <2>1, FS_Subset
  <2>4. Cardinality(below(x)) \in Nat /\ Cardinality(below(y)) \in Nat
    BY <1>2, <1>3
  <2>5. Cardinality(below(x)) # Cardinality(below(y))
    BY <2>2, <2>3, <2>4
  <2> QED
    BY <2>5
<1>6. rank \in Injection(S, 0 .. n - 1)
  <2>1. \A x, y \in S : rank[x] = rank[y] => x = y
    <3> SUFFICES ASSUME NEW x \in S, NEW y \in S, rank[x] = rank[y], x # y PROVE FALSE
      OBVIOUS
    <3>1. x < y \/ y < x
      BY <1>0
    <3> HIDE DEF rank
    <3> QED
      BY <1>5, <3>1
  <2> HIDE DEF rank
  <2> QED
    BY <1>4, <2>1 DEF Injection, IsInjective
<1>7. IsFiniteSet(0 .. n - 1) /\ Cardinality(0 .. n - 1) = n
  <2>1. n - 1 \in Int
    BY <1>2
  <2>2. IsFiniteSet(0 .. n - 1)
        /\ Cardinality(0 .. n - 1) = IF 0 > n - 1 THEN 0 ELSE (n - 1) - 0 + 1
    BY <2>1, FS_Interval
  <2> QED
    BY <1>2, <2>2
<1>8. rank \in Surjection(S, 0 .. n - 1)
  <2> HIDE DEF rank
  <2> QED
    BY <1>6, <1>7, FS_Injection
<1>9. \A i \in 0 .. n - 1 : \E s \in S : rank[s] = i
  <2> HIDE DEF rank
  <2> QED
    BY <1>8 DEF Surjection
<1>10. \A s, u \in S : rank[s] = rank[u] => s = u
  <2> HIDE DEF rank
  <2> QED
    BY <1>6 DEF Injection, IsInjective
<1>11. \A s \in S : rank[s] = Cardinality({t \in S : t < s})
  OBVIOUS
<1>12. \A s \in S : Cardinality({t \in S : t < s}) \in 0 .. n - 1
  BY <1>3
<1> HIDE DEF n, below, rank
<1>13. /\ \A i \in 0 .. n - 1 : \E s \in S : Cardinality({t \in S : t < s}) = i
       /\ \A s, u \in S : Cardinality({t \in S : t < s}) = Cardinality({t \in S : t < u}) => s = u
  BY <1>9, <1>10, <1>11
<1> QED
  BY <1>0, <1>2, <1>12, <1>13 DEF n

(* The listing of the root: each entry is the name of a listed file, and   *)
(* each file is listed once.                                               *)
LEMMA ListingIs ==
  ASSUME TypeOK, NEW root \in Slots
  PROVE  /\ Cardinality(Listed(root)) \in 0 .. MAX_FILES
         /\ list_rootdir(root) \in [Offsets -> Contents]
         /\ \A i \in 0 .. Cardinality(Listed(root)) - 1 : \E s \in Listed(root) :
              /\ list_rootdir(root)[i] = name[s]
              /\ Cardinality({t \in Listed(root) : t < s}) = i
         /\ \A s \in Listed(root) : \E i \in 0 .. Cardinality(Listed(root)) - 1 :
              list_rootdir(root)[i] = name[s]
<1> DEFINE L == Listed(root)
           n == Cardinality(L)
           nth(i) == CHOOSE s \in L : Cardinality({t \in L : t < s}) = i
<1>1. L \in SUBSET Slots /\ \A s \in L : s # root /\ name[s] \in Names \cup {"/"}
  BY DEF Listed, TypeOK
<1> HIDE DEF L
<1>2. /\ n \in 0 .. MAX_FILES
      /\ \A i \in 0 .. n - 1 : \E s \in L : Cardinality({t \in L : t < s}) = i
      /\ \A s \in L : Cardinality({t \in L : t < s}) \in 0 .. n - 1
      /\ \A s, u \in L : Cardinality({t \in L : t < s}) = Cardinality({t \in L : t < u}) => s = u
  BY <1>1, RankExists
<1>3. n \in Nat /\ n <= PGSIZE /\ PGSIZE \in Nat
  BY <1>2, Sizes
<1>4. ASSUME NEW i \in 0 .. n - 1
      PROVE  nth(i) \in L /\ Cardinality({t \in L : t < nth(i)}) = i
  BY <1>2
<1>5. list_rootdir(root) =
        [i \in Offsets |-> IF i < n THEN IF nth(i) = root THEN "/" ELSE name[nth(i)]
                           ELSE "junk"]
  BY DEF list_rootdir, L
<1> HIDE DEF nth
<1>6. ASSUME NEW i \in 0 .. n - 1
      PROVE  i \in Offsets /\ list_rootdir(root)[i] = name[nth(i)]
  <2>1. i \in Offsets /\ i < n
    BY <1>3 DEF Offsets
  <2>2. nth(i) # root
    BY <1>1, <1>4
  <2> HIDE DEF n
  <2> QED
    BY <1>5, <2>1, <2>2
<1>7. list_rootdir(root) \in [Offsets -> Contents]
  <2>1. ASSUME NEW i \in Offsets
        PROVE  (IF i < n THEN IF nth(i) = root THEN "/" ELSE name[nth(i)] ELSE "junk")
                 \in Contents
    <3>1. CASE i < n
      <4>1. i \in 0 .. n - 1
        BY <1>3, <3>1 DEF Offsets
      <4>2. nth(i) \in L
        BY <1>4, <4>1
      <4> QED
        BY <1>1, <3>1, <4>2 DEF Contents
    <3>2. CASE ~(i < n)
      BY <3>2 DEF Contents
    <3> QED
      BY <3>1, <3>2
  <2> HIDE DEF n
  <2> QED
    BY <1>5, <2>1
<1>8. ASSUME NEW i \in 0 .. n - 1
      PROVE  \E s \in L : /\ list_rootdir(root)[i] = name[s]
                          /\ Cardinality({t \in L : t < s}) = i
  BY <1>4, <1>6
<1>9. ASSUME NEW s \in L
      PROVE  \E i \in 0 .. n - 1 : list_rootdir(root)[i] = name[s]
  <2>1. PICK i \in 0 .. n - 1 : i = Cardinality({t \in L : t < s})
    BY <1>2
  <2>2. PICK u \in L : list_rootdir(root)[i] = name[u] /\ Cardinality({t \in L : t < u}) = i
    BY <1>8
  <2>3. u = s
    BY <1>2, <2>1, <2>2
  <2> QED
    BY <2>2, <2>3
<1> QED
  BY <1>2, <1>7, <1>8, <1>9 DEF L

-----------------------------------------------------------------------------
(* The inductive invariant.                                                *)

(* How far init_fs has come: what it has unpacked, that it stands at a     *)
(* header, and that nobody has touched the table before it is done.        *)
Unpacking ==
  /\ file_cnt <= Len(archive)
  /\ panicked = 0 => arp = Start(archive, file_cnt + 1) /\ file_cnt < MAX_FILES
  /\ \A i \in 1 .. file_cnt : in_use[i] = 1 /\ size[i] = archive[i].size
                             /\ name[i] = ParsedName(archive[i])
  /\ arp >= fsar_end(archive) => file_cnt = Len(archive)
  /\ arp < fsar_end(archive) =>
       /\ \A s \in Slots : type[s] = "FT_REGULAR" /\ pos[s] = 0
       /\ panicked = 0 => \A s \in Slots : s > file_cnt => name[s] = "" /\ in_use[s] = 0

(* A directory is the root, and no slot before it is free. *)
RootInPlace ==
  \A r \in Slots : type[r] = "FT_DIR" =>
    name[r] = "/" /\ \A s \in Slots : s <= r => in_use[s] = 1

Listings == ListingAccurate /\ RootInPlace

FilesInv == TypeOK /\ Unpacking /\ UniqueNames /\ Listings /\ ReadsEndAtSize

(* What a step of a program leaves of the archive's files. *)
Kept == \A s \in Slots : in_use[s] = 1 =>
          in_use'[s] = 1 /\ size'[s] = size[s] /\ name'[s] = name[s]

(* Once the archive is unpacked, a step that keeps the files in use keeps  *)
(* what was unpacked.                                                      *)
LEMMA KeptUnpacked ==
  ASSUME TypeOK, Unpacking, arp >= fsar_end(archive), UNCHANGED boot, Kept,
         panicked = 0
  PROVE  Unpacking'
<1>0. MAX_FILES \in Nat /\ Len(archive) \in Nat /\ arp \in Nat /\ file_cnt \in 0 .. MAX_FILES
  BY Sizes, MembersOf DEF TypeOK
<1>1. UNCHANGED <<archive, arp, file_cnt>>
  BY DEF boot
<1>2. fsar_end(archive) \in Nat
  <2>1. Len(archive) + 1 \in 1 .. Len(archive) + 1
    BY <1>0
  <2> QED
    BY <2>1, StartType DEF fsar_end, TypeOK
<1>3. ~(arp < fsar_end(archive))
  BY <1>0, <1>2
<1>4. ASSUME NEW i \in 1 .. file_cnt
      PROVE  in_use'[i] = 1 /\ size'[i] = archive[i].size /\ name'[i] = ParsedName(archive[i])
  <2>1. i \in Slots
    BY <1>0 DEF Slots
  <2> QED
    BY <2>1 DEF Unpacking, Kept
<1> QED
  BY <1>1, <1>3, <1>4 DEF Unpacking

(* Listings stay accurate as long as files keep their places and names and *)
(* nobody writes to a directory.                                           *)
LEMMA ListingsKept ==
  ASSUME Listings, UNCHANGED <<name, in_use, size>>,
         \A r \in Slots : type'[r] = "FT_DIR" => type[r] = "FT_DIR" /\ data'[r] = data[r],
         \A t \in Slots : type[t] = "FT_REGULAR" => type'[t] = "FT_REGULAR"
  PROVE  Listings'
<1> DEFINE Entry(r, i) ==
             /\ \E s \in Slots : name[s] = data[r][i] /\ in_use[s] = 1 /\ type[s] = "FT_REGULAR"
             /\ \A j \in 0 .. size[r] - 1 : data[r][j] = data[r][i] => j = i
           Has(r, s) == \E i \in 0 .. size[r] - 1 : data[r][i] = name[s]
<1>1. RootInPlace'
  BY Zenon DEF Listings, RootInPlace
<1>2. ASSUME NEW r \in Slots, type'[r] = "FT_DIR"
      PROVE  /\ \A i \in 0 .. size'[r] - 1 : Entry(r, i)'
             /\ \A s \in Slots : s < r /\ name'[s] # "" => Has(r, s)'
  <2>1. type[r] = "FT_DIR" /\ data'[r] = data[r]
    BY <1>2
  <2>2. /\ \A i \in 0 .. size[r] - 1 : Entry(r, i)
        /\ \A s \in Slots : s < r /\ name[s] # "" => Has(r, s)
    BY <2>1, Zenon DEF Listings, ListingAccurate
  <2>3. \A s : Has(r, s)' <=> Has(r, s)
    BY <2>1
  <2>4. \A i : Entry(r, i) => Entry(r, i)'
    BY <2>1
  <2> HIDE DEF Entry, Has
  <2>5. \A i \in 0 .. size'[r] - 1 : Entry(r, i)'
    BY <2>2, <2>4
  <2>6. \A s \in Slots : s < r /\ name'[s] # "" => Has(r, s)'
    BY <2>2, <2>3, Zenon
  <2> QED
    BY <2>5, <2>6
<1>3. ListingAccurate'
  BY <1>2, Zenon DEF ListingAccurate
<1> QED
  BY <1>1, <1>3 DEF Listings

(* A step that leaves the files as they are, positions apart, keeps names  *)
(* and listings.                                                           *)
LEMMA SameFiles ==
  ASSUME FilesInv, arp >= fsar_end(archive), UNCHANGED <<boot, fs>>, panicked = 0
  PROVE  /\ Unpacking' /\ (panicked' = 0 => UniqueNames') /\ Listings'
<1>1. UNCHANGED <<name, in_use, type, size, data>>
  BY DEF fs
<1>2. Kept
  BY <1>1 DEF Kept
<1>3. Unpacking'
  BY <1>2, KeptUnpacked DEF FilesInv
<1>4. Listings'
  BY <1>1, ListingsKept DEF FilesInv
<1>5. panicked' = 0 => UniqueNames'
  BY <1>1 DEF FilesInv, UniqueNames
<1> QED
  BY <1>3, <1>4, <1>5

(* The system calls that move descriptors and positions only.              *)
LEMMA DescriptorStep ==
  ASSUME FilesInv, arp >= fsar_end(archive), panicked = 0, UNCHANGED boot, NEW p \in Procs,
         \/ open_console(p)
         \/ \E path \in Names \cup {"/"} : open_read(p, path)
         \/ sys_close(p) \/ fork_files(p) \/ forget_files(p)
  PROVE  FilesInv'
<1>0. UNCHANGED <<fs, rewritten, panicked>>
  BY DEF open_console, open_read, sys_close, fork_files, forget_files
<1>1. Unpacking' /\ UniqueNames' /\ Listings'
  BY <1>0, SameFiles
<1>2. /\ UNCHANGED <<archive, arp, file_cnt, name, in_use, type, size, data>>
      /\ TypeOK /\ ReadsEndAtSize
  BY <1>0 DEF boot, fs, FilesInv
<1>3. ASSUME NEW s \in Slots \cup {console_file}, install(p, s)
      PROVE  TypeOK' /\ ReadsEndAtSize'
  <2>1. /\ open_files' \in [Procs -> [Fds -> Slots \cup {NULL, console_file}]]
        /\ pos' \in [Slots -> 0 .. WORD - 1]
        /\ \A t \in Slots : pos'[t] = IF t = s THEN 0 ELSE pos[t]
        /\ written' = written \ {s}
    BY <1>2, <1>3, InstallIs
  <2>2. TypeOK'
    BY <1>0, <1>2, <2>1 DEF TypeOK
  <2>3. \A t \in Slots : size[t] \in Nat
    BY <1>2, SizeType
  <2>4. ReadsEndAtSize'
    BY <1>2, <2>1, <2>3 DEF ReadsEndAtSize
  <2> QED
    BY <2>2, <2>4
<1>4. CASE open_console(p)
  BY <1>1, <1>3, <1>4 DEF open_console, FilesInv
<1>5. ASSUME NEW path \in Names \cup {"/"}, open_read(p, path) PROVE FilesInv'
  <2>1. get_file(path) \in Slots
    BY <1>5, GetFileIs DEF open_read
  <2> QED
    BY <1>1, <1>3, <1>5, <2>1 DEF open_read, FilesInv
<1>6. ASSUME open_files' \in [Procs -> [Fds -> Slots \cup {NULL, console_file}]],
             UNCHANGED <<pos, written>>
      PROVE  FilesInv'
  <2>1. TypeOK'
    BY <1>0, <1>2, <1>6 DEF TypeOK
  <2>2. ReadsEndAtSize'
    BY <1>2, <1>6 DEF ReadsEndAtSize
  <2> QED
    BY <1>1, <2>1, <2>2 DEF FilesInv
<1>7. CASE sys_close(p)
  <2>1. PICK fd \in Fds : open_files' = [open_files EXCEPT ![p][fd] = NULL]
    BY <1>7 DEF sys_close
  <2>2. open_files' \in [Procs -> [Fds -> Slots \cup {NULL, console_file}]]
    BY <1>2, <2>1 DEF TypeOK
  <2> QED
    BY <1>6, <1>7, <2>2 DEF sys_close
<1>8. CASE fork_files(p)
  <2>1. PICK c \in Procs : open_files' = [open_files EXCEPT ![c] = open_files[p]]
    BY <1>8 DEF fork_files
  <2>2. open_files' \in [Procs -> [Fds -> Slots \cup {NULL, console_file}]]
    BY <1>2, <2>1 DEF TypeOK
  <2> QED
    BY <1>6, <1>8, <2>2 DEF fork_files
<1>9. CASE forget_files(p)
  <2>1. [fd \in Fds |-> NULL] \in [Fds -> Slots \cup {NULL, console_file}]
    OBVIOUS
  <2>2. open_files' \in [Procs -> [Fds -> Slots \cup {NULL, console_file}]]
    BY <1>2, <1>9, <2>1 DEF TypeOK, forget_files
  <2> QED
    BY <1>6, <1>9, <2>2 DEF forget_files
<1> QED
  BY <1>4, <1>5, <1>7, <1>8, <1>9

(* A read moves the position of its file, and not past the end unless a    *)
(* write moved it before.                                                  *)
LEMMA ReadStep ==
  ASSUME FilesInv, arp >= fsar_end(archive), panicked = 0, UNCHANGED boot, NEW p \in Procs,
         sys_read(p)
  PROVE  FilesInv'
<1>0. UNCHANGED <<fs, open_files, rewritten, written, panicked>>
  BY DEF sys_read
<1>1. Unpacking' /\ UniqueNames' /\ Listings'
  BY <1>0, SameFiles
<1>2. /\ UNCHANGED <<archive, arp, file_cnt, name, in_use, type, size, data>>
      /\ TypeOK /\ ReadsEndAtSize
  BY <1>0 DEF boot, fs, FilesInv
<1>3. PICK fd \in Fds, count \in Counts :
        /\ open_files[p][fd] \in Slots
        /\ pos' = [pos EXCEPT ![open_files[p][fd]] =
                     (@ + Readable(open_files[p][fd], count)) % WORD]
  BY DEF sys_read
<1> DEFINE s == open_files[p][fd]
           left == (size[s] - pos[s]) % WORD
<1>4. s \in Slots /\ pos' = [pos EXCEPT ![s] = (pos[s] + Readable(s, count)) % WORD]
  BY <1>3
<1>5. count \in Nat
  BY CountType
<1> HIDE DEF s
<1>6. /\ size[s] \in Nat /\ size[s] < WORD
      /\ pos[s] \in Nat /\ pos[s] < WORD
  BY <1>2, <1>4, SizeType
<1>7. left \in 0 .. WORD - 1 /\ (size[s] - pos[s] \in 0 .. WORD - 1 => left = size[s] - pos[s])
  BY <1>6, Wrap
<1>8. Readable(s, count) = IF left < count THEN left ELSE count
  BY DEF Readable
<1> HIDE DEF left
<1>9. WORD \in Nat
  BY Sizes
<1>10. Readable(s, count) \in Nat /\ Readable(s, count) <= left
  BY <1>5, <1>7, <1>8, <1>9
<1>11. (pos[s] + Readable(s, count)) % WORD \in 0 .. WORD - 1
  BY <1>6, <1>10, Wrap
<1>12. TypeOK'
  <2>1. pos' \in [Slots -> 0 .. WORD - 1]
    BY <1>2, <1>4, <1>11 DEF TypeOK
  <2> QED
    BY <1>0, <1>2, <2>1 DEF TypeOK
<1>13. ASSUME pos[s] <= size[s] PROVE (pos[s] + Readable(s, count)) % WORD <= size[s]
  <2>1. left = size[s] - pos[s]
    BY <1>6, <1>7, <1>9, <1>13
  <2>2. /\ pos[s] + Readable(s, count) \in Int
        /\ pos[s] + Readable(s, count) \in 0 .. WORD - 1
        /\ pos[s] + Readable(s, count) <= size[s]
    BY <1>6, <1>9, <1>10, <2>1
  <2> QED
    BY <2>2, Wrap
<1>14. ReadsEndAtSize'
  <2> SUFFICES ASSUME NEW t \in Slots \ written PROVE pos'[t] <= size[t]
    BY <1>0, <1>2 DEF ReadsEndAtSize
  <2>1. pos[t] <= size[t] /\ pos \in [Slots -> 0 .. WORD - 1]
    BY <1>2 DEF ReadsEndAtSize, TypeOK
  <2>2. CASE t = s
    BY <1>4, <1>13, <2>1, <2>2
  <2>3. CASE t # s
    BY <1>4, <2>1, <2>3
  <2> QED
    BY <2>2, <2>3
<1> QED
  BY <1>1, <1>12, <1>14 DEF FilesInv

(* A write changes the data and the position of a regular file, which is   *)
(* no listing, or panics.                                                  *)
LEMMA WriteStep ==
  ASSUME FilesInv, arp >= fsar_end(archive), panicked = 0, UNCHANGED boot, NEW p \in Procs,
         sys_write(p)
  PROVE  FilesInv'
<1>0. UNCHANGED <<name, in_use, type, size, open_files, rewritten>>
  BY DEF sys_write
<1>1. UNCHANGED <<archive, arp, file_cnt>> /\ TypeOK /\ ReadsEndAtSize
  BY DEF boot, FilesInv
<1>2. PICK fd \in Fds, count \in Counts :
        /\ open_files[p][fd] \in Slots
        /\ type[open_files[p][fd]] = "FT_REGULAR"
        /\ write_file(open_files[p][fd], count)
  BY DEF sys_write
<1> DEFINE s == open_files[p][fd]
<1>3. s \in Slots /\ type[s] = "FT_REGULAR" /\ write_file(s, count)
  BY <1>2
<1> HIDE DEF s
<1>4. Unpacking'
  <2>1. Kept
    BY <1>0 DEF Kept
  <2> QED
    BY <2>1, KeptUnpacked DEF FilesInv
<1>5. UniqueNames'
  BY <1>0 DEF FilesInv, UniqueNames
<1>6. /\ \A r \in Slots \ {s} : data'[r] = data[r]
      /\ data' \in [Slots -> [Offsets -> Contents]]
      /\ pos' \in [Slots -> 0 .. WORD - 1]
      /\ \A t \in Slots \ written' : pos'[t] = pos[t]
      /\ written \subseteq written' /\ written' \subseteq Slots
      /\ panicked' \in {0, 1}
  <2>1. CASE panicked' = 1 /\ UNCHANGED <<data, pos, written>>
    BY <1>1, <2>1 DEF TypeOK
  <2>2. CASE /\ data' = [data EXCEPT ![s] = [i \in Offsets |->
                   IF (i - pos[s]) % WORD < count THEN "data" ELSE @[i]]]
             /\ pos' = [pos EXCEPT ![s] = (@ + count) % WORD]
             /\ written' = written \cup {s}
             /\ UNCHANGED panicked
    <3> DEFINE d == [i \in Offsets |->
                   IF (i - pos[s]) % WORD < count THEN "data" ELSE data[s][i]]
    <3>1. data' = [data EXCEPT ![s] = d] /\ data \in [Slots -> [Offsets -> Contents]]
      BY <1>1, <2>2 DEF TypeOK
    <3>2. d \in [Offsets -> Contents]
      BY <1>3, <3>1 DEF Contents
    <3> HIDE DEF d
    <3>3. data' \in [Slots -> [Offsets -> Contents]] /\ \A r \in Slots \ {s} : data'[r] = data[r]
      BY <1>3, <3>1, <3>2
    <3>4. (pos[s] + count) % WORD \in 0 .. WORD - 1
      <4>1. count \in Nat /\ pos[s] \in Nat
        BY <1>1, <1>3, CountType, SizeType
      <4> QED
        BY <4>1, Wrap
    <3>5. pos \in [Slots -> 0 .. WORD - 1] /\ written \subseteq Slots
      BY <1>1 DEF TypeOK
    <3>6. pos' \in [Slots -> 0 .. WORD - 1] /\ \A t \in Slots \ written' : pos'[t] = pos[t]
      BY <1>3, <2>2, <3>4, <3>5
    <3> QED
      BY <1>1, <1>3, <2>2, <3>3, <3>5, <3>6 DEF TypeOK
  <2> QED
    BY <1>3, <2>1, <2>2 DEF write_file
<1>7. TypeOK'
  BY <1>0, <1>1, <1>6 DEF TypeOK
<1>8. ReadsEndAtSize'
  BY <1>0, <1>1, <1>6 DEF ReadsEndAtSize
<1>9. Listings'
  <2>1. \A r \in Slots : type[r] = "FT_DIR" => data'[r] = data[r]
    BY <1>3, <1>6
  <2> QED
    BY <1>0, <2>1, ListingsKept DEF FilesInv
<1> QED
  BY <1>4, <1>5, <1>7, <1>8, <1>9 DEF FilesInv

(* An open for writing of a file that exists clears it; a directory stops  *)
(* being one.                                                              *)
LEMMA RewriteStep ==
  ASSUME FilesInv, arp >= fsar_end(archive), panicked = 0, UNCHANGED boot, NEW p \in Procs,
         NEW path, open_write(p, path)
  PROVE  FilesInv'
<1> DEFINE s == get_file(path)
<1>0. UNCHANGED <<name, in_use, size, panicked>>
  BY DEF open_write
<1>1. UNCHANGED <<archive, arp, file_cnt>> /\ TypeOK /\ ReadsEndAtSize
  BY DEF boot, FilesInv
<1>2. s \in Slots
  BY GetFileIs DEF open_write
<1>3. /\ data' = [data EXCEPT ![s] = Cleared(data[s])]
      /\ type' = [type EXCEPT ![s] = "FT_REGULAR"]
      /\ rewritten' = rewritten \cup {s}
      /\ install(p, s)
  BY DEF open_write
<1> HIDE DEF s
<1>4. /\ open_files' \in [Procs -> [Fds -> Slots \cup {NULL, console_file}]]
      /\ pos' \in [Slots -> 0 .. WORD - 1]
      /\ \A t \in Slots : pos'[t] = IF t = s THEN 0 ELSE pos[t]
      /\ written' = written \ {s}
  BY <1>1, <1>2, <1>3, InstallIs
<1>5. Unpacking'
  <2>1. Kept
    BY <1>0 DEF Kept
  <2> QED
    BY <2>1, KeptUnpacked DEF FilesInv
<1>6. UniqueNames'
  BY <1>0 DEF FilesInv, UniqueNames
<1>7. TypeOK'
  <2>1. data \in [Slots -> [Offsets -> Contents]] /\ type \in [Slots -> {"FT_REGULAR", "FT_DIR"}]
    BY <1>1 DEF TypeOK
  <2>2. Cleared(data[s]) \in [Offsets -> Contents]
    BY <1>2, <2>1 DEF Cleared, Contents
  <2>3. data' \in [Slots -> [Offsets -> Contents]]
    BY <1>2, <1>3, <2>1, <2>2
  <2>4. type' \in [Slots -> {"FT_REGULAR", "FT_DIR"}]
    BY <1>2, <1>3, <2>1
  <2> QED
    BY <1>0, <1>1, <1>2, <1>3, <1>4, <2>3, <2>4 DEF TypeOK
<1>8. ReadsEndAtSize'
  <2>1. \A t \in Slots : size[t] \in Nat
    BY <1>1, SizeType
  <2> QED
    BY <1>0, <1>1, <1>4, <2>1 DEF ReadsEndAtSize
<1>9. Listings'
  <2>1. type \in [Slots -> {"FT_REGULAR", "FT_DIR"}] /\ data \in [Slots -> [Offsets -> Contents]]
    BY <1>1 DEF TypeOK
  <2>2. \A r \in Slots : type'[r] = "FT_DIR" => type[r] = "FT_DIR" /\ data'[r] = data[r]
    BY <1>2, <1>3, <2>1
  <2>3. \A t \in Slots : type[t] = "FT_REGULAR" => type'[t] = "FT_REGULAR"
    BY <1>2, <1>3, <2>1
  <2> HIDE <1>3
  <2> QED
    BY <1>0, <2>2, <2>3, ListingsKept DEF FilesInv
<1> QED
  BY <1>5, <1>6, <1>7, <1>8, <1>9 DEF FilesInv

(* The paths of new files. *)
IsPath(path) == path \in Names \cup {"", "/", LONG}

(* The entries of a listing are the names of different regular files, and  *)
(* of all that have a name.                                                *)
Entries(contents, n, root) ==
  /\ \A i \in 0 .. n - 1 :
       /\ \E t \in Slots \ {root} : name[t] = contents[i] /\ in_use[t] = 1 /\ type[t] = "FT_REGULAR"
       /\ \A j \in 0 .. n - 1 : contents[j] = contents[i] => j = i
  /\ \A t \in Slots : t < root /\ name[t] # "" => \E i \in 0 .. n - 1 : contents[i] = name[t]

(* A new file goes into a free slot, under a name that no slot has: it     *)
(* disturbs no listing, and the names stay different.                      *)
LEMMA NewFileStep ==
  ASSUME FilesInv, arp >= fsar_end(archive), UNCHANGED <<boot, panicked>>, panicked = 0,
         NEW p \in Procs, NEW s, NEW path, NEW contents, NEW n, NEW ft, IsPath(path),
         get_file(path) = NULL, alloc_file(s, path), NewFile(s, path, contents, n, ft),
         install(p, s), rewritten' \subseteq rewritten \cup {s},
         contents \in [Offsets -> Contents], n \in 0 .. WORD - 1,
         ft \in {"FT_REGULAR", "FT_DIR"},
         ft = "FT_DIR" => path = "/" /\ Entries(contents, n, s)
  PROVE  FilesInv'
<1>1. UNCHANGED <<archive, arp, file_cnt>> /\ TypeOK /\ ReadsEndAtSize /\ UniqueNames /\ Listings
  BY DEF boot, FilesInv
<1>2. /\ s \in Slots /\ in_use[s] = 0 /\ path # LONG
      /\ \A t \in Slots : t < s => in_use[t] # 0
  BY AllocFileIs
<1>3. /\ open_files' \in [Procs -> [Fds -> Slots \cup {NULL, console_file}]]
      /\ pos' \in [Slots -> 0 .. WORD - 1]
      /\ \A t \in Slots : pos'[t] = IF t = s THEN 0 ELSE pos[t]
      /\ written' = written \ {s}
  BY <1>1, <1>2, InstallIs
<1>4. /\ name \in [Slots -> Names \cup {"", "/"}]
      /\ in_use \in [Slots -> {0, 1}]
      /\ type \in [Slots -> {"FT_REGULAR", "FT_DIR"}]
      /\ size \in [Slots -> 0 .. WORD - 1]
      /\ data \in [Slots -> [Offsets -> Contents]]
  BY <1>1 DEF TypeOK
<1>5. /\ name' = [name EXCEPT ![s] = path]
      /\ in_use' = [in_use EXCEPT ![s] = 1]
      /\ type' = [type EXCEPT ![s] = ft]
      /\ size' = [size EXCEPT ![s] = n]
      /\ data' = [data EXCEPT ![s] = contents]
  BY DEF NewFile
<1>6. /\ \A t \in Slots : t # s => /\ name'[t] = name[t] /\ in_use'[t] = in_use[t]
                                   /\ type'[t] = type[t] /\ size'[t] = size[t]
                                   /\ data'[t] = data[t]
      /\ name'[s] = path /\ in_use'[s] = 1 /\ type'[s] = ft
      /\ size'[s] = n /\ data'[s] = contents
  BY <1>2, <1>4, <1>5
<1>7. TypeOK'
  <2>1. name' \in [Slots -> Names \cup {"", "/"}] /\ in_use' \in [Slots -> {0, 1}]
    BY <1>2, <1>4, <1>5 DEF IsPath
  <2>2. type' \in [Slots -> {"FT_REGULAR", "FT_DIR"}] /\ size' \in [Slots -> 0 .. WORD - 1]
    BY <1>2, <1>4, <1>5
  <2>3. data' \in [Slots -> [Offsets -> Contents]]
    BY <1>2, <1>4, <1>5
  <2> QED
    BY <1>1, <1>2, <1>3, <2>1, <2>2, <2>3 DEF TypeOK
<1>8. Unpacking'
  <2>1. Kept
    BY <1>2, <1>6 DEF Kept
  <2>2. UNCHANGED boot
    OBVIOUS
  <2> QED
    BY <2>1, <2>2, KeptUnpacked DEF FilesInv
<1>9. UniqueNames'
  <2>1. path # "" => \A t \in Slots : name[t] # path
    BY GetFileIs
  <2> SUFFICES ASSUME NEW t \in Slots, name'[t] # ""
               PROVE  in_use'[t] = 1 /\ \A u \in Slots : name'[u] = name'[t] => u = t
    BY DEF UniqueNames
  <2>2. CASE t = s
    BY <1>6, <2>1, <2>2
  <2>3. CASE t # s
    <3>1. in_use[t] = 1 /\ \A u \in Slots : name[u] = name[t] => u = t
      BY <1>1, <1>6, <2>3 DEF UniqueNames
    <3> QED
      BY <1>2, <1>6, <2>1, <2>3, <3>1
  <2> QED
    BY <2>2, <2>3
<1>10. ReadsEndAtSize'
  <2>1. n \in Nat
    <3>1. WORD \in Nat
      BY Sizes
    <3> QED
      BY <3>1
  <2> SUFFICES ASSUME NEW t \in Slots \ written' PROVE pos'[t] <= size'[t]
    BY DEF ReadsEndAtSize
  <2>2. CASE t = s
    BY <1>3, <1>6, <2>1, <2>2
  <2>3. CASE t # s
    BY <1>1, <1>3, <1>6, <2>3 DEF ReadsEndAtSize
  <2> QED
    BY <2>2, <2>3
<1>12. RootInPlace'
  <2> SUFFICES ASSUME NEW r \in Slots, type'[r] = "FT_DIR"
               PROVE  name'[r] = "/" /\ \A t \in Slots : t <= r => in_use'[t] = 1
    BY DEF RootInPlace
  <2>0. Slots \in SUBSET Nat
    BY Sizes DEF Slots
  <2>1. CASE r = s
    <3>1. \A t \in Slots : t < s => in_use[t] = 1
      BY <1>2, <1>4
    <3> QED
      BY <1>2, <1>6, <2>0, <2>1, <3>1
  <2>2. CASE r # s
    <3>1. type[r] = "FT_DIR" /\ name'[r] = name[r]
      BY <1>6, <2>2
    <3>2. name[r] = "/" /\ \A t \in Slots : t <= r => in_use[t] = 1
      BY <1>1, <3>1 DEF Listings, RootInPlace
    <3> QED
      BY <1>6, <3>1, <3>2
  <2> QED
    BY <2>1, <2>2
<1>13. ASSUME NEW r \in Slots, type'[r] = "FT_DIR", NEW t \in Slots, t < r, name'[t] # ""
       PROVE  \E i \in 0 .. size'[r] - 1 : data'[r][i] = name'[t]
  <2>0. Slots \in SUBSET Nat
    BY Sizes DEF Slots
  <2>3. t < r
    BY <1>13, Zenon
  <2>1. CASE r = s
    <3>0. t # s
      <4>1. t \in Nat
        BY <2>0
      <4>2. t < s
        BY <2>1, <2>3
      <4> QED
        BY <4>1, <4>2
    <3>1. t # s /\ name'[t] = name[t]
      BY <1>6, <3>0, Zenon
    <3>2. \A u \in Slots : u < s /\ name[u] # "" => \E i \in 0 .. n - 1 : contents[i] = name[u]
      BY <1>6, <1>13, <2>1, Zenon DEF Entries
    <3>3. \E i \in 0 .. n - 1 : contents[i] = name[t]
      BY <1>13, <2>1, <3>1, <3>2, Zenon
    <3> QED
      BY <1>6, <2>1, <3>1, <3>3
  <2>2. CASE r # s
    <3>1. type[r] = "FT_DIR" /\ size'[r] = size[r] /\ data'[r] = data[r]
      BY <1>6, <1>13, <2>2
    <3>4. \A u \in Slots : u <= r => in_use[u] = 1
      BY <1>1, <3>1, Zenon DEF Listings, RootInPlace
    <3>5. t <= r
      BY <2>0, <2>3
    <3>2. in_use[t] = 1
      BY <3>4, <3>5
    <3>3. name'[t] = name[t]
      BY <1>2, <1>6, <3>2
    <3>6. \E i \in 0 .. size[r] - 1 : data[r][i] = name[t]
      BY <1>1, <1>13, <3>1, <3>3, Zenon DEF Listings, ListingAccurate
    <3> QED
      BY <3>1, <3>3, <3>6
  <2> QED
    BY <2>1, <2>2
<1>14. ASSUME NEW r \in Slots, type'[r] = "FT_DIR", NEW i \in 0 .. size'[r] - 1
       PROVE  /\ \E t \in Slots : name'[t] = data'[r][i] /\ in_use'[t] = 1
                                  /\ type'[t] = "FT_REGULAR"
              /\ \A j \in 0 .. size'[r] - 1 : data'[r][j] = data'[r][i] => j = i
  <2>1. CASE r = s
    <3>1. i \in 0 .. n - 1 /\ data'[r] = contents /\ ft = "FT_DIR"
      BY <1>6, <1>14, <2>1
    <3>2. /\ \E t \in Slots \ {s} : name[t] = contents[i] /\ in_use[t] = 1
                                    /\ type[t] = "FT_REGULAR"
          /\ \A j \in 0 .. n - 1 : contents[j] = contents[i] => j = i
      BY <3>1, Zenon DEF Entries
    <3> QED
      BY <1>6, <2>1, <3>1, <3>2
  <2>2. CASE r # s
    <3>1. type[r] = "FT_DIR" /\ size'[r] = size[r] /\ data'[r] = data[r]
      BY <1>6, <1>14, <2>2
    <3>2. /\ \E t \in Slots : name[t] = data[r][i] /\ in_use[t] = 1 /\ type[t] = "FT_REGULAR"
          /\ \A j \in 0 .. size[r] - 1 : data[r][j] = data[r][i] => j = i
      <4>1. i \in 0 .. size[r] - 1
        BY <1>14, <3>1
      <4> QED
        BY <1>1, <3>1, <4>1, Zenon DEF Listings, ListingAccurate
    <3>3. \A t \in Slots : in_use[t] = 1 => t # s
      BY <1>2
    <3> QED
      BY <1>6, <3>1, <3>2, <3>3
  <2> QED
    BY <2>1, <2>2
<1>11. Listings'
  BY <1>12, <1>13, <1>14, Zenon DEF Listings, ListingAccurate
<1> QED
  BY <1>7, <1>8, <1>9, <1>10, <1>11 DEF FilesInv

(* An open for writing of a name that is not there. *)
LEMMA CreateStep ==
  ASSUME FilesInv, arp >= fsar_end(archive), UNCHANGED boot, panicked = 0,
         NEW p \in Procs, NEW path, IsPath(path), open_create(p, path)
  PROVE  FilesInv'
<1> DEFINE junk == [i \in Offsets |-> "junk"]
<1>1. PICK s \in Slots :
        /\ alloc_file(s, path)
        /\ NewFile(s, path, junk, 0, "FT_REGULAR")
        /\ rewritten' = rewritten \cup {s}
        /\ install(p, s)
  BY DEF open_create
<1>2. get_file(path) = NULL /\ UNCHANGED panicked
  BY DEF open_create
<1>3. junk \in [Offsets -> Contents]
  BY DEF Contents
<1>4. 0 \in 0 .. WORD - 1
  BY Sizes
<1> HIDE DEF junk
<1>5. "FT_REGULAR" \in {"FT_REGULAR", "FT_DIR"} /\ "FT_REGULAR" # "FT_DIR"
  OBVIOUS
<1>6. rewritten' \subseteq rewritten \cup {s}
  BY <1>1
<1>7. UNCHANGED <<boot, panicked>>
  BY <1>2
<1> QED
  BY <1>1, <1>2, <1>3, <1>4, <1>5, <1>6, <1>7, NewFileStep

(* The first open of the root directory.                                   *)
LEMMA RootStep ==
  ASSUME FilesInv, arp >= fsar_end(archive), UNCHANGED boot, panicked = 0,
         NEW p \in Procs, open_root(p)
  PROVE  FilesInv'
<1>1. PICK s \in Slots :
        /\ alloc_file(s, "/")
        /\ NewFile(s, "/", list_rootdir(s), Cardinality(Listed(s)), "FT_DIR")
        /\ install(p, s)
  BY DEF open_root
<1>2. get_file("/") = NULL /\ UNCHANGED <<rewritten, panicked>>
  BY DEF open_root
<1> DEFINE n == Cardinality(Listed(s))
           d == list_rootdir(s)
<1>3. /\ n \in 0 .. MAX_FILES
      /\ d \in [Offsets -> Contents]
      /\ \A i \in 0 .. n - 1 : \E t \in Listed(s) :
           d[i] = name[t] /\ Cardinality({u \in Listed(s) : u < t}) = i
      /\ \A t \in Listed(s) : \E i \in 0 .. n - 1 : d[i] = name[t]
  BY ListingIs DEF FilesInv
<1> HIDE DEF n, d
<1>4. n \in 0 .. WORD - 1
  BY <1>3, Sizes
<1>5. ASSUME NEW t \in Listed(s)
      PROVE  t \in Slots \ {s} /\ in_use[t] = 1 /\ type[t] = "FT_REGULAR" /\ name[t] # ""
  BY DEF Listed
<1>6. ASSUME NEW t \in Listed(s), NEW u \in Listed(s), name[t] = name[u] PROVE t = u
  BY <1>5, <1>6 DEF FilesInv, UniqueNames
<1>7. ASSUME NEW i \in 0 .. n - 1
      PROVE  /\ \E t \in Slots \ {s} : name[t] = d[i] /\ in_use[t] = 1 /\ type[t] = "FT_REGULAR"
             /\ \A j \in 0 .. n - 1 : d[j] = d[i] => j = i
  <2>1. PICK t \in Listed(s) : d[i] = name[t] /\ Cardinality({u \in Listed(s) : u < t}) = i
    BY <1>3
  <2>2. ASSUME NEW j \in 0 .. n - 1, d[j] = d[i] PROVE j = i
    <3>1. PICK w \in Listed(s) : d[j] = name[w] /\ Cardinality({u \in Listed(s) : u < w}) = j
      BY <1>3
    <3>2. w = t
      BY <1>6, <2>1, <2>2, <3>1
    <3> QED
      BY <2>1, <3>1, <3>2
  <2> QED
    BY <1>5, <2>1, <2>2
<1>8. alloc_file(s, "/") /\ NewFile(s, "/", d, n, "FT_DIR") /\ install(p, s)
  BY <1>1 DEF d, n
<1>9. IsPath("/") /\ "FT_DIR" \in {"FT_REGULAR", "FT_DIR"}
      /\ rewritten' \subseteq rewritten \cup {s} /\ UNCHANGED <<boot, panicked>>
  BY <1>2 DEF IsPath
<1>11. ASSUME NEW t \in Slots, t < s, name[t] # "" PROVE \E i \in 0 .. n - 1 : d[i] = name[t]
  <2>1. in_use[t] = 1
    BY <1>11 DEF FilesInv, UniqueNames
  <2>2. \A u \in Slots : name[u] # "/"
    BY <1>2, GetFileIs
  <2>3. type[t] = "FT_REGULAR"
    BY <2>2 DEF FilesInv, TypeOK, Listings, RootInPlace
  <2>4. Slots \in SUBSET Nat
    BY Sizes DEF Slots
  <2>7. t < s
    BY <1>11, Zenon
  <2>6. t # s
    BY <2>4, <2>7
  <2>5. t \in Listed(s)
    BY <1>11, <2>1, <2>3, <2>6, Zenon DEF Listed
  <2> QED
    BY <1>3, <2>5
<1>10. Entries(d, n, s)
  BY <1>7, <1>11 DEF Entries
<1> QED
  BY <1>2, <1>3, <1>4, <1>8, <1>9, <1>10, NewFileStep

(* Members of an archive with the same parsed name, "" apart, are the same. *)
LEMMA ParsedNames ==
  ASSUME NEW a \in Archives
  PROVE  /\ \A i \in 1 .. Len(a) : ParsedName(a[i]) \in Names \cup {"", "/"}
         /\ \A i, j \in 1 .. Len(a) :
              ParsedName(a[i]) = ParsedName(a[j]) /\ ParsedName(a[i]) # "" => i = j
<1>1. \A i \in 1 .. Len(a) : a[i].name \in Names \cup {"/"}
  BY MembersOf
<1>2. \A i, j \in 1 .. Len(a) : a[i].name = a[j].name => i = j
  BY FilesAssumption
<1> QED
  BY <1>1, <1>2 DEF ParsedName

(* One turn of the loop of init_fs.                                        *)
LEMMA UnpackStep ==
  ASSUME FilesInv, panicked = 0, init_fs
  PROVE  FilesInv'
<1>0. /\ arp < fsar_end(archive)
      /\ UNCHANGED <<archive, type, pos, open_files, rewritten, written>>
      /\ TypeOK /\ Unpacking
  BY DEF init_fs, FilesInv
<1>n1. archive \in Archives /\ arp \in Nat /\ file_cnt \in 0 .. MAX_FILES
  BY <1>0 DEF TypeOK
<1>1. /\ name \in [Slots -> Names \cup {"", "/"}]
      /\ in_use \in [Slots -> {0, 1}]
      /\ size \in [Slots -> 0 .. WORD - 1]
      /\ data \in [Slots -> [Offsets -> Contents]]
  BY <1>0 DEF TypeOK
<1> DEFINE s == file_cnt + 1
           m == archive[s]
<1>n2. file_cnt <= Len(archive) /\ arp = Start(archive, s) /\ file_cnt < MAX_FILES
  BY <1>0 DEF Unpacking
<1>2t. \A t \in Slots : type[t] = "FT_REGULAR"
  BY <1>0 DEF Unpacking
<1>2p. \A t \in Slots : pos[t] = 0
  BY <1>0 DEF Unpacking
<1>2. /\ \A t \in Slots : t > file_cnt => name[t] = "" /\ in_use[t] = 0
      /\ \A i \in 1 .. file_cnt : in_use[i] = 1 /\ size[i] = archive[i].size
                                  /\ name[i] = ParsedName(archive[i])
  BY <1>0 DEF Unpacking
<1>3. MAX_FILES \in Nat /\ Len(archive) \in Nat /\ WORD \in Nat /\ PGSIZE \in Nat /\ file_cnt \in Nat
  BY <1>n1, Sizes, MembersOf
<1>4. s \in Slots /\ s \in 1 .. Len(archive) + 1
  BY <1>n2, <1>3 DEF Slots
<1>5. PICK i \in 1 .. Len(archive) :
        /\ Start(archive, i) = arp
        /\ name' = [name EXCEPT ![s] = ParsedName(archive[i])]
        /\ size' = [size EXCEPT ![s] = ParsedSize(archive[i])]
        /\ \/ /\ ParsedSize(archive[i]) > PGSIZE
              /\ panicked' = 1
              /\ UNCHANGED <<data, in_use, file_cnt, arp>>
           \/ /\ ParsedSize(archive[i]) <= PGSIZE
              /\ data' = [data EXCEPT ![s] =
                   [k \in Offsets |-> IF k < ParsedSize(archive[i]) THEN "text" ELSE "zero"]]
              /\ in_use' = [in_use EXCEPT ![s] = 1]
              /\ file_cnt' = file_cnt + 1
              /\ \/ TooMany(file_cnt') /\ panicked' = 1 /\ UNCHANGED arp
                 \/ ~TooMany(file_cnt') /\ arp' = NextHeader(arp, ParsedSize(archive[i]))
                    /\ UNCHANGED panicked
  BY DEF init_fs
<1>6. i = s /\ ParsedSize(m) = m.size
  <2>1. Start(archive, i) = Start(archive, s)
    BY <1>n2, <1>5
  <2>2. i = s /\ ParsedSize(archive[i]) = archive[i].size
    BY <1>n1, <1>4, <2>1, HeaderIs
  <2> QED
    BY <2>2
<1>7. s \in 1 .. Len(archive)
  BY <1>6
<1>8. m.size \in 0 .. WORD - 1 /\ ParsedName(m) \in Names \cup {"", "/"}
  BY <1>n1, <1>7, MembersOf, ParsedNames
<1>9. /\ name' = [name EXCEPT ![s] = ParsedName(m)]
      /\ size' = [size EXCEPT ![s] = m.size]
  BY <1>5, <1>6
<1>10. /\ name' \in [Slots -> Names \cup {"", "/"}]
       /\ size' \in [Slots -> 0 .. WORD - 1]
       /\ name'[s] = ParsedName(m) /\ size'[s] = m.size
       /\ \A t \in Slots : t # s => name'[t] = name[t] /\ size'[t] = size[t]
  <2> HIDE DEF s, m
  <2> QED
    BY <1>1, <1>4, <1>8, <1>9
<1>11. Listings'
  BY <1>0, <1>2t DEF Listings, ListingAccurate, RootInPlace
<1>12. ReadsEndAtSize'
  <2>1. size' \in [Slots -> 0 .. WORD - 1]
    BY <1>10
  <2>2. \A t \in Slots : 0 <= size'[t]
    BY <1>3, <2>1
  <2> QED
    BY <1>0, <1>2p, <2>2 DEF ReadsEndAtSize
<1>13. \A j \in 1 .. file_cnt : j \in Slots /\ j # s
  BY <1>n2, <1>3 DEF Slots
<1>14. fsar_end(archive) \in Nat
  <2>1. Len(archive) + 1 \in 1 .. Len(archive) + 1
    BY <1>3
  <2> QED
    BY <1>n1, <2>1, StartType DEF fsar_end
<1>n0. arp < fsar_end(archive)
  BY <1>0
<1>15. CASE panicked' = 1 /\ UNCHANGED <<data, in_use, file_cnt, arp>>
  <2>1. TypeOK'
    BY <1>0, <1>10, <1>15 DEF TypeOK
  <2>2. Unpacking'
    <3>1. \A j \in 1 .. file_cnt : in_use'[j] = 1 /\ size'[j] = archive[j].size
                                   /\ name'[j] = ParsedName(archive[j])
      BY <1>2, <1>10, <1>13, <1>15
    <3>2. ~(arp >= fsar_end(archive))
      BY <1>n0, <1>n1, <1>14
    <3> HIDE DEF s, m
    <3> QED
      <4>0. UNCHANGED <<archive, file_cnt, arp, type, pos>> /\ panicked' # 0
        BY <1>0, <1>15
      <4>1. file_cnt' <= Len(archive')
        BY <1>n2, <4>0
      <4>2. \A j \in 1 .. file_cnt' : in_use'[j] = 1 /\ size'[j] = archive'[j].size
                                      /\ name'[j] = ParsedName(archive'[j])
        BY <3>1, <4>0
      <4>3. \A t \in Slots : type'[t] = "FT_REGULAR" /\ pos'[t] = 0
        BY <1>2t, <1>2p, <4>0
      <4>4. ~(arp' >= fsar_end(archive'))
        BY <3>2, <4>0
      <4> QED
        BY <4>0, <4>1, <4>2, <4>3, <4>4 DEF Unpacking
  <2>3. UniqueNames'
    <3>1. panicked' # 0
      BY <1>15
    <3> QED
      BY <3>1 DEF UniqueNames
  <2> QED
    BY <1>11, <1>12, <2>1, <2>2, <2>3 DEF FilesInv
<1>16. CASE /\ data' = [data EXCEPT ![s] =
                   [k \in Offsets |-> IF k < m.size THEN "text" ELSE "zero"]]
            /\ in_use' = [in_use EXCEPT ![s] = 1]
            /\ file_cnt' = file_cnt + 1
            /\ \/ TooMany(file_cnt') /\ panicked' = 1 /\ UNCHANGED arp
               \/ ~TooMany(file_cnt') /\ arp' = NextHeader(arp, m.size)
                  /\ UNCHANGED panicked
  <2>1. data' \in [Slots -> [Offsets -> Contents]]
    <3> DEFINE d == [k \in Offsets |-> IF k < m.size THEN "text" ELSE "zero"]
    <3>1. d \in [Offsets -> Contents] /\ data' = [data EXCEPT ![s] = d]
      BY <1>16 DEF Contents
    <3> HIDE DEF d, s
    <3> QED
      BY <1>1, <1>4, <3>1
  <2>2. /\ in_use' \in [Slots -> {0, 1}] /\ in_use'[s] = 1
        /\ \A t \in Slots : t # s => in_use'[t] = in_use[t]
    <3>1. in_use' = [in_use EXCEPT ![s] = 1]
      BY <1>16
    <3> HIDE DEF s
    <3> QED
      BY <1>1, <1>4, <3>1
  <2>3. file_cnt' = s /\ s <= Len(archive) /\ s \in 0 .. MAX_FILES
    <3>1. file_cnt' = s
      BY <1>16
    <3> QED
      BY <1>n2, <1>3, <1>7, <3>1
  <2>4. NextHeader(arp, m.size) = Start(archive, s + 1)
    BY <1>n1, <1>n2, <1>7, StartNext
  <2>5. s + 1 \in 1 .. Len(archive) + 1 /\ Start(archive, s + 1) \in Nat
    <3>1. s + 1 \in 1 .. Len(archive) + 1
      BY <1>3, <1>7
    <3> QED
      BY <1>n1, <3>1, StartType
  <2>6. \/ s >= MAX_FILES /\ panicked' = 1 /\ arp' = arp
        \/ s < MAX_FILES /\ panicked' = 0 /\ arp' = Start(archive, s + 1)
    <3>1. TooMany(s) <=> s >= MAX_FILES
      BY DEF TooMany
    <3> QED
      BY <1>3, <1>16, <2>3, <2>4, <3>1
  <2>7. \A j \in 1 .. s : in_use'[j] = 1 /\ size'[j] = archive[j].size
                          /\ name'[j] = ParsedName(archive[j])
    <3>1. \A j \in 1 .. s : j = s \/ j \in 1 .. file_cnt
      BY <1>3
    <3> HIDE DEF s
    <3> QED
      BY <1>2, <1>10, <1>13, <2>2, <3>1 DEF m
  <2>8. arp' >= fsar_end(archive) => s = Len(archive)
    <3> SUFFICES ASSUME arp' >= fsar_end(archive), s # Len(archive) PROVE FALSE
      OBVIOUS
    <3>1. arp' = Start(archive, s + 1)
      BY <1>n0, <1>n1, <1>14, <2>6
    <3>2. s + 1 < Len(archive) + 1 /\ Len(archive) + 1 \in 1 .. Len(archive) + 1
      <4>1. s \in Nat /\ Len(archive) \in Nat /\ s <= Len(archive) /\ s # Len(archive)
        BY <1>3, <2>3
      <4>2. PICK n \in Nat : n = Len(archive)
        BY <4>1
      <4>3. PICK k \in Nat : k = s
        BY <4>1
      <4> HIDE DEF s
      <4>4. k < n
        BY <4>1, <4>2, <4>3
      <4>5. k + 1 < n + 1 /\ n + 1 \in 1 .. n + 1
        BY <4>4
      <4> QED
        BY <4>2, <4>3, <4>5
    <3>3. Start(archive, s + 1) < fsar_end(archive)
      BY <1>n1, <2>5, <3>2, StartIncreasing DEF fsar_end
    <3> QED
      BY <1>14, <2>5, <3>1, <3>3
  <2>9. \A t \in Slots : t > s => t > file_cnt /\ t # s
    BY <1>3 DEF Slots
  <2>10. \A t \in Slots : t > s => name'[t] = "" /\ in_use'[t] = 0
    <3> HIDE DEF s
    <3> QED
      BY <1>2, <1>10, <2>2, <2>9
  <2>11. TypeOK'
    <3>1. arp' \in Nat /\ panicked' \in {0, 1}
      BY <1>n1, <2>5, <2>6
    <3> HIDE DEF s, m
    <3> QED
      BY <1>0, <1>10, <2>1, <2>2, <2>3, <3>1 DEF TypeOK
  <2>12. Unpacking'
    <3> HIDE DEF s, m
    <3> QED
      <4>0. UNCHANGED <<archive, type, pos>> /\ file_cnt' = s
        BY <1>0, <2>3
      <4>1. file_cnt' <= Len(archive')
        BY <2>3, <4>0
      <4>2. \A j \in 1 .. file_cnt' : in_use'[j] = 1 /\ size'[j] = archive'[j].size
                                      /\ name'[j] = ParsedName(archive'[j])
        BY <2>7, <4>0
      <4>3. \A t \in Slots : type'[t] = "FT_REGULAR" /\ pos'[t] = 0
        BY <1>2t, <1>2p, <4>0
      <4>4. arp' >= fsar_end(archive') => file_cnt' = Len(archive')
        BY <2>8, <4>0
      <4>5. panicked' = 0 => arp' = Start(archive', file_cnt' + 1) /\ file_cnt' < MAX_FILES
        BY <2>6, <4>0
      <4>6. \A t \in Slots : t > file_cnt' => name'[t] = "" /\ in_use'[t] = 0
        BY <2>10, <4>0
      <4> QED
        BY <4>1, <4>2, <4>3, <4>4, <4>5, <4>6 DEF Unpacking
  <2>13. UniqueNames'
    <3>1. \A u \in Slots : name'[u] # "" => u \in 1 .. s
      <4>1. \A u \in Slots : u > s \/ u \in 1 .. s
        BY <1>3, <1>4 DEF Slots
      <4> HIDE DEF s
      <4> QED
        BY <2>10, <4>1
    <3>2. \A u \in 1 .. s : u \in 1 .. Len(archive)
      BY <1>3, <1>7
    <3> HIDE DEF s, m
    <3> SUFFICES ASSUME NEW t \in Slots, name'[t] # ""
                 PROVE  in_use'[t] = 1 /\ \A u \in Slots : name'[u] = name'[t] => u = t
      BY DEF UniqueNames
    <3>3. t \in 1 .. s
      BY <3>1
    <3>4. ASSUME NEW u \in Slots, name'[u] = name'[t] PROVE u = t
      <4>1. u \in 1 .. s
        BY <3>1, <3>4
      <4>2. ParsedName(archive[u]) = ParsedName(archive[t]) /\ ParsedName(archive[u]) # ""
        BY <2>7, <3>3, <3>4, <4>1
      <4> QED
        BY <1>n1, <3>2, <3>3, <4>1, <4>2, ParsedNames
    <3> QED
      BY <2>7, <3>3, <3>4
  <2> QED
    BY <1>11, <1>12, <2>11, <2>12, <2>13 DEF FilesInv
<1> QED
  <2> HIDE DEF s
  <2> QED
    BY <1>5, <1>6, <1>15, <1>16

(* The table starts empty. *)
LEMMA FilesInit == Init => FilesInv
<1> SUFFICES ASSUME Init PROVE FilesInv
  OBVIOUS
<1>0. MAX_FILES \in Nat \ {0} /\ Len(archive) \in Nat /\ WORD \in Nat \ {0} /\ MAGIC \in Nat
      /\ archive \in Archives
  BY Sizes, MembersOf, ArchiveAssumption DEF Init
<1>1. TypeOK
  <2>1. /\ 0 \in 0 .. WORD - 1 /\ 0 \in 0 .. MAX_FILES
    BY <1>0
  <2>2. data \in [Slots -> [Offsets -> Contents]]
    BY DEF Init, Contents
  <2>3. /\ name \in [Slots -> Names \cup {"", "/"}]
        /\ in_use \in [Slots -> {0, 1}]
        /\ type \in [Slots -> {"FT_REGULAR", "FT_DIR"}]
    BY DEF Init
  <2>4. size \in [Slots -> 0 .. WORD - 1] /\ pos \in [Slots -> 0 .. WORD - 1]
    BY <2>1 DEF Init
  <2>5. open_files \in [Procs -> [Fds -> Slots \cup {NULL, console_file}]]
    BY DEF Init
  <2> QED
    BY <1>0, <2>1, <2>2, <2>3, <2>4, <2>5 DEF Init, TypeOK
<1>2. Start(archive, 1) = MAGIC /\ Start(archive, 0 + 1) = MAGIC
  BY <1>0, StartStep
<1>3. Unpacking
  <2>1. 0 <= Len(archive) /\ 0 < MAX_FILES /\ 1 .. 0 = {}
    BY <1>0
  <2>2. arp >= fsar_end(archive) => Len(archive) = 0
    <3> SUFFICES ASSUME arp >= fsar_end(archive), Len(archive) # 0 PROVE FALSE
      OBVIOUS
    <3>1. 1 < Len(archive) + 1 /\ 1 \in 1 .. Len(archive) + 1
          /\ Len(archive) + 1 \in 1 .. Len(archive) + 1
      BY <1>0
    <3>2. Start(archive, 1) < fsar_end(archive) /\ fsar_end(archive) \in Nat
      BY <1>0, <3>1, StartIncreasing, StartType DEF fsar_end
    <3> QED
      <4>1. arp = MAGIC
        BY DEF Init
      <4> QED
        BY <1>0, <1>2, <3>2, <4>1
  <2> QED
    BY <1>2, <2>1, <2>2 DEF Init, Unpacking
<1>4. UniqueNames /\ Listings /\ ReadsEndAtSize
  <2>1. \A s \in Slots : name[s] = "" /\ type[s] = "FT_REGULAR"
    BY DEF Init
  <2>3. \A s \in Slots : pos[s] = 0 /\ size[s] = 0
    BY DEF Init
  <2>2. UniqueNames /\ Listings
    BY <2>1 DEF UniqueNames, Listings, ListingAccurate, RootInPlace
  <2> QED
    BY <2>2, <2>3 DEF ReadsEndAtSize
<1> QED
  BY <1>1, <1>3, <1>4 DEF FilesInv

(* Every step of the file system keeps the invariant. *)
LEMMA FilesStep == FilesInv /\ [Next]_vars => FilesInv'
<1> SUFFICES ASSUME FilesInv, [Next]_vars PROVE FilesInv'
  OBVIOUS
<1>1. CASE UNCHANGED vars
  <2>1. UNCHANGED <<archive, arp, file_cnt, name, in_use, type, size, pos, data, open_files,
                    rewritten, written, panicked>>
    BY <1>1 DEF vars, boot, fs
  <2>2. TypeOK'
    BY <2>1 DEF FilesInv, TypeOK
  <2>3. Unpacking'
    BY <2>1 DEF FilesInv, Unpacking
  <2>4. UniqueNames'
    BY <2>1 DEF FilesInv, UniqueNames
  <2>6. Listings'
    BY <2>1, ListingsKept DEF FilesInv
  <2>5. ReadsEndAtSize'
    BY <2>1 DEF FilesInv, ReadsEndAtSize
  <2> QED
    BY <2>2, <2>3, <2>4, <2>5, <2>6 DEF FilesInv
<1>2. CASE panicked = 0 /\ init_fs
  BY <1>2, UnpackStep
<1>3. ASSUME panicked = 0, arp >= fsar_end(archive), UNCHANGED boot, NEW p \in Procs, sys_open(p)
      PROVE  FilesInv'
  <2>1. CASE open_console(p) \/ \E path \in Names \cup {"/"} : open_read(p, path)
    BY <1>3, <2>1, DescriptorStep
  <2>2. CASE open_root(p)
    BY <1>3, <2>2, RootStep
  <2>3. ASSUME NEW path \in Names \cup {"/"}, open_write(p, path) PROVE FilesInv'
    BY <1>3, <2>3, RewriteStep
  <2>4. ASSUME NEW path \in Names \cup {"", LONG}, open_create(p, path) PROVE FilesInv'
    <3>1. IsPath(path)
      BY DEF IsPath
    <3> QED
      BY <1>3, <2>4, <3>1, CreateStep
  <2> QED
    BY <1>3, <2>1, <2>2, <2>3, <2>4 DEF sys_open
<1>4. ASSUME panicked = 0, arp >= fsar_end(archive), UNCHANGED boot, NEW p \in Procs,
             sys_read(p) \/ sys_write(p) \/ sys_close(p) \/ fork_files(p) \/ forget_files(p)
      PROVE  FilesInv'
  BY <1>4, ReadStep, WriteStep, DescriptorStep
<1> QED
  BY <1>1, <1>2, <1>3, <1>4 DEF Next, stopped

(* The inductive invariant holds throughout. *)
LEMMA FilesAlways == Spec => []FilesInv
<1> QED
  BY FilesInit, FilesStep, PTL DEF Spec

-----------------------------------------------------------------------------
(* The variables of the file system keep their types: no position, size or *)
(* descriptor leaves its range, however reads and writes wrap.             *)
THEOREM FilesTypes == Spec => []TypeOK
<1>1. FilesInv => TypeOK
  BY DEF FilesInv
<1> QED
  BY <1>1, FilesAlways, PTL

(* init_fs finds every header of every archive, and what it unpacked keeps *)
(* its slot, its name and its size.                                        *)
THEOREM ArchiveIsUnpacked == Spec => []ArchiveUnpacked
<1>1. FilesInv => ArchiveUnpacked
  BY DEF FilesInv, Unpacking, ArchiveUnpacked
<1> QED
  BY <1>1, FilesAlways, PTL

(* get_file and alloc_file never leave two slots with the same name. *)
THEOREM PathsAreUnique == Spec => []UniqueNames
<1>1. FilesInv => UniqueNames
  BY DEF FilesInv
<1> QED
  BY <1>1, FilesAlways, PTL

(* The listing that list_rootdir made stays sound, and complete for the time *)
(* it was made.                                                            *)
THEOREM ListingStaysAccurate == Spec => []ListingAccurate
<1>1. FilesInv => ListingAccurate
  BY DEF FilesInv, Listings
<1> QED
  BY <1>1, FilesAlways, PTL

(* size - pos in read_file does not wrap before a write moved the position. *)
THEOREM ReadsStayInFile == Spec => []ReadsEndAtSize
<1>1. FilesInv => ReadsEndAtSize
  BY DEF FilesInv
<1> QED
  BY <1>1, FilesAlways, PTL

=============================================================================

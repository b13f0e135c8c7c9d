------------------------------ MODULE BoardProofs ------------------------------
(***************************************************************************)
(* Proofs about keys of any length (Positions), and from them about the    *)
(* boards (Board) and what is signed beside them (Evidence), for any       *)
(* number of propositions, rows, accounts and writes.                      *)
(*                                                                         *)
(* Keys first: one after a key, one between two, and their order.  Then    *)
(* the inductive invariant of a board and one lemma for each kind of step, *)
(* which says besides what the step may do to accounts, trash and log.     *)
(* That is all the comments, the evidence and the links of the second half *)
(* need to know of it.                                                     *)
(***************************************************************************)
EXTENDS Evidence, SequenceTheorems, FiniteSetTheorems, WellFoundedInduction, TLAPS

(* The places from which on a key has only the last digit.                 *)
Full(a) == {n \in 0 .. Len(a) : \A i \in n + 1 .. Len(a) : a[i] = Digits - 1}

LEMMA FirstFull ==
  ASSUME NEW a \in Seq(0 .. Digits - 1)
  PROVE  \E n \in Full(a) :
           /\ n = (CHOOSE m \in Full(a) : \A k \in Full(a) : m <= k)
           /\ n \in 0 .. Len(a)
           /\ n > 0 => a[n] \in 0 .. Digits - 2
  <1> DEFINE n == CHOOSE m \in Full(a) : \A k \in Full(a) : m <= k
  <1>1. Len(a) \in Nat /\ Len(a) \in Full(a) /\ Full(a) \subseteq Nat
    BY DEF Full
  <1>2. n \in Full(a) /\ \A k \in Full(a) : n <= k
    <2>1. \E m \in Full(a) : \A k \in Full(a) : m <= k
      <3>1. PICK m \in Full(a) : \A k \in Full(a) : <<k, m>> \notin OpToRel(<, Nat)
        BY <1>1, WFMin, NatLessThanWellFounded, Zenon
      <3>2. \A k \in Full(a) : ~ (k < m)
        BY <1>1, <3>1, Zenon DEF OpToRel
      <3> QED
        BY <1>1, <3>2
    <2> QED
      BY <2>1
  <1> HIDE DEF n
  <1>3. n \in 0 .. Len(a)
    BY <1>2 DEF Full
  <1>4. ASSUME n > 0, a[n] = Digits - 1 PROVE FALSE
    <2>1. n - 1 \in Full(a)
      BY <1>1, <1>2, <1>3, <1>4 DEF Full
    <2> QED
      BY <1>2, <1>3, <1>1, <2>1
  <1>5. ASSUME n > 0 PROVE a[n] \in 0 .. Digits - 2
    <2>1. a[n] \in 0 .. Digits - 1 /\ a[n] # Digits - 1
      <3>1. n \in 1 .. Len(a)
        BY <1>1, <1>3, <1>5
      <3> QED
        BY <1>4, <1>5, <3>1, ElementOfSeq
    <2> QED
      BY <2>1, DigitsAssumption
  <1> QED
    BY <1>2, <1>3, <1>5 DEF n

(* next (internal/frac): above every key there is one more, and it is a    *)
(* key the database accepts.                                               *)
THEOREM NextIsAbove ==
  ASSUME NEW a \in Seq(0 .. Digits - 1)
  PROVE  Valid(NextKey(a)) /\ Below(a, NextKey(a))
  <1> DEFINE n == CHOOSE m \in Full(a) : \A k \in Full(a) : m <= k
  <1> DEFINE b == NextKey(a)
  <1>1. n \in 0 .. Len(a) /\ (n > 0 => a[n] \in 0 .. Digits - 2) /\ Len(a) \in Nat
    BY FirstFull, LenProperties
  <1>2. b = IF n = 0 THEN Append(a, 1) ELSE Append(SubSeq(a, 1, n - 1), a[n] + 1)
    BY DEF NextKey, Full
  <1> HIDE DEF n, b
  <1>3. CASE n = 0
    <2>1. /\ b \in Seq(0 .. Digits - 1) /\ Len(b) = Len(a) + 1 /\ b[Len(a) + 1] = 1
          /\ \A i \in 1 .. Len(a) : b[i] = a[i]
      BY <1>1, <1>2, <1>3, DigitsAssumption
    <2>2. Valid(b)
      BY <1>1, <2>1 DEF Valid
    <2>3. Below(a, b)
      BY <1>1, <2>1 DEF Below
    <2> QED
      BY <2>2, <2>3 DEF b
  <1>4. CASE n > 0
    <2> DEFINE s == SubSeq(a, 1, n - 1)
    <2>1. s \in Seq(0 .. Digits - 1) /\ Len(s) = n - 1 /\ \A i \in 1 .. n - 1 : s[i] = a[i]
      <3> DEFINE m == n - 1
      <3>1. m \in Nat /\ m <= Len(a) /\ m - 1 + 1 = m /\ (~(1 <= m) => m = 0)
        BY <1>1, <1>4
      <3> HIDE DEF m
      <3>2. ASSUME NEW i \in 1 .. m PROVE a[i] \in 0 .. Digits - 1
        <4>1. i \in 1 .. Len(a)
          BY <1>1, <3>1
        <4> QED
          BY <4>1, ElementOfSeq
      <3>3. /\ SubSeq(a, 1, m) \in Seq(0 .. Digits - 1)
            /\ Len(SubSeq(a, 1, m)) = IF 1 <= m THEN m - 1 + 1 ELSE 0
            /\ \A i \in 1 .. m - 1 + 1 : SubSeq(a, 1, m)[i] = a[1 + i - 1]
        BY <3>1, <3>2, SubSeqProperties
      <3>4. \A i \in 1 .. m : SubSeq(a, 1, m)[i] = a[i]
        BY <3>1, <3>3
      <3> QED
        BY <3>1, <3>3, <3>4 DEF m
    <2>2. a[n] + 1 \in 1 .. Digits - 1 /\ a[n] < a[n] + 1
      BY <1>1, <1>4, DigitsAssumption
    <2>3. b = Append(s, a[n] + 1)
      BY <1>1, <1>2, <1>4 DEF s
    <2> HIDE DEF s
    <2>4. /\ b \in Seq(0 .. Digits - 1) /\ Len(b) = n /\ b[n] = a[n] + 1
          /\ \A i \in 1 .. n - 1 : b[i] = a[i]
      BY <1>1, <1>4, <2>1, <2>2, <2>3
    <2>5. Valid(b)
      BY <1>4, <2>2, <2>4 DEF Valid
    <2>6. Below(a, b)
      <3>1. \A i \in 1 .. n - 1 : i <= Len(a) /\ a[i] = b[i]
        BY <1>1, <2>4
      <3>2. n \in 1 .. Len(b) /\ a[n] < b[n]
        BY <1>1, <1>4, <2>2, <2>4
      <3> QED
        BY <3>1, <3>2 DEF Below
    <2> QED
      BY <2>5, <2>6 DEF b
  <1> QED
    BY <1>1, <1>3, <1>4

-----------------------------------------------------------------------------
(* The first of a set of places.                                           *)
LEMMA FirstPlace ==
  ASSUME NEW S \in SUBSET Nat, S # {}
  PROVE  LET n == CHOOSE n \in S : \A k \in S : n <= k
         IN  n \in S /\ \A k \in S : n <= k
  <1>1. PICK m \in S : \A k \in S : <<k, m>> \notin OpToRel(<, Nat)
    BY WFMin, NatLessThanWellFounded, Zenon
  <1>2. \A k \in S : ~ (k < m)
    BY <1>1, Zenon DEF OpToRel
  <1>3. \A k \in S : m <= k
    BY <1>2
  <1> QED
    BY <1>3

LEMMA HalfIs ==
  ASSUME NEW s \in Nat
  PROVE  s \div 2 \in Nat /\ 2 * (s \div 2) <= s /\ s < 2 * (s \div 2) + 2
  OBVIOUS

LEMMA ExtendIs ==
  ASSUME NEW a \in Seq(0 .. Digits - 1), NEW n \in Nat \ {0}, NEW x \in 1 .. Digits - 1
  PROVE  /\ Valid(Extend(a, n, x)) /\ Len(Extend(a, n, x)) = n /\ Extend(a, n, x)[n] = x
         /\ \A i \in 1 .. n - 1 : Extend(a, n, x)[i] = Digit(a, i)
  <1> DEFINE s == [i \in 1 .. n - 1 |-> Digit(a, i)]
  <1>1. \A i \in 1 .. n - 1 : Digit(a, i) \in 0 .. Digits - 1
    BY DigitsAssumption, ElementOfSeq DEF Digit
  <1>2. s \in Seq(0 .. Digits - 1) /\ Len(s) = n - 1 /\ \A i \in 1 .. n - 1 : s[i] = Digit(a, i)
    BY <1>1
  <1>3. Extend(a, n, x) = Append(s, x)
    BY DEF Extend
  <1> HIDE DEF s
  <1>4. /\ Append(s, x) \in Seq(0 .. Digits - 1) /\ Len(Append(s, x)) = n /\ Append(s, x)[n] = x
        /\ \A i \in 1 .. n - 1 : Append(s, x)[i] = s[i]
    BY <1>2, DigitsAssumption
  <1> QED
    BY <1>2, <1>3, <1>4 DEF Valid

LEMMA ExtendAbove ==
  ASSUME NEW a \in Seq(0 .. Digits - 1), NEW n \in Nat \ {0}, NEW x \in 1 .. Digits - 1,
         Digit(a, n) < x
  PROVE  Below(a, Extend(a, n, x))
  <1> DEFINE r == Extend(a, n, x)
  <1>1. Len(a) \in Nat /\ Len(r) = n /\ r[n] = x /\ \A i \in 1 .. n - 1 : r[i] = Digit(a, i)
    BY ExtendIs
  <1> HIDE DEF r
  <1>2. CASE n <= Len(a) + 1
    <2>1. \A i \in 1 .. n - 1 : i <= Len(a) /\ a[i] = r[i]
      BY <1>1, <1>2 DEF Digit
    <2>2. n > Len(a) \/ a[n] < r[n]
      BY <1>1 DEF Digit
    <2> QED
      BY <1>1, <2>1, <2>2 DEF Below, r
  <1>3. CASE n > Len(a) + 1
    <2> DEFINE k == Len(a) + 1
    <2>1. k \in 1 .. Len(r) /\ k > Len(a) /\ \A i \in 1 .. k - 1 : i <= Len(a) /\ a[i] = r[i]
      BY <1>1, <1>3 DEF Digit
    <2> QED
      BY <2>1 DEF Below, r
  <1> QED
    BY <1>1, <1>2, <1>3

(* Where a key parts from the key above it, it has the smaller digit.      *)
Parting(a, b) == {i \in 1 .. Len(b) : Digit(a, i) # b[i]}

LEMMA PartsBelow ==
  ASSUME NEW a \in Seq(0 .. Digits - 1), NEW b, Valid(b), Below(a, b),
         NEW n \in Parting(a, b), \A k \in Parting(a, b) : n <= k
  PROVE  /\ n \in 1 .. Len(b) /\ Digit(a, n) < b[n]
         /\ \A i \in 1 .. n - 1 : Digit(a, i) = b[i]
  <1>1. Len(a) \in Nat /\ Len(b) \in Nat /\ n \in 1 .. Len(b) /\ Digit(a, n) # b[n]
    BY DEF Parting, Valid
  <1>2. \A i \in 1 .. Len(b) : b[i] \in 0 .. Digits - 1
    BY ElementOfSeq DEF Valid
  <1>3. \A i \in 1 .. n - 1 : Digit(a, i) = b[i]
    BY <1>1 DEF Parting
  <1>4. PICK k \in 1 .. Len(b) : /\ \A i \in 1 .. k - 1 : i <= Len(a) /\ a[i] = b[i]
                                 /\ k > Len(a) \/ a[k] < b[k]
    BY DEF Below
  <1>5. \A i \in 1 .. k - 1 : Digit(a, i) = b[i]
    BY <1>4 DEF Digit
  <1>6. n >= k
    BY <1>1, <1>5
  <1>7. CASE k > Len(a)
    <2>1. Digit(a, n) = 0 /\ b[n] \in 0 .. Digits - 1
      BY <1>1, <1>2, <1>6, <1>7 DEF Digit
    <2> QED
      BY <1>1, <1>3, <2>1
  <1>8. CASE ~ (k > Len(a))
    <2>0. k \in 1 .. Len(a)
      BY <1>1, <1>8
    <2>1. a[k] \in 0 .. Digits - 1
      BY <2>0, ElementOfSeq
    <2>3. Digit(a, k) = a[k] /\ a[k] < b[k] /\ b[k] \in 0 .. Digits - 1
      BY <1>1, <1>2, <1>4, <1>8, <2>0 DEF Digit
    <2>2. k \in Parting(a, b)
      BY <1>1, <2>1, <2>3, DigitsAssumption DEF Parting
    <2>4. n = k
      BY <1>1, <1>6, <2>2
    <2> QED
      BY <1>1, <1>3, <2>3, <2>4
  <1> QED
    BY <1>7, <1>8

LEMMA SomethingParts ==
  ASSUME NEW a \in Seq(0 .. Digits - 1), NEW b, Valid(b), Below(a, b)
  PROVE  Parting(a, b) # {}
  <1>1. Len(a) \in Nat /\ Len(b) \in Nat /\ Len(b) \in 1 .. Len(b) /\ b[Len(b)] # 0
    BY EmptySeq DEF Valid
  <1>2. PICK k \in 1 .. Len(b) : k > Len(a) \/ a[k] < b[k]
    BY DEF Below
  <1>3. CASE k > Len(a)
    BY <1>1, <1>2, <1>3 DEF Parting, Digit
  <1>4. CASE ~ (k > Len(a))
    <2>0. k \in 1 .. Len(a)
      BY <1>1, <1>4
    <2>1. a[k] \in 0 .. Digits - 1
      BY <2>0, ElementOfSeq
    <2>3. b[k] \in 0 .. Digits - 1 /\ a[k] < b[k]
      BY <1>2, <1>4, ElementOfSeq DEF Valid
    <2>2. k \in Parting(a, b)
      BY <1>2, <1>4, <2>1, <2>3, DigitsAssumption DEF Parting, Digit
    <2> QED
      BY <2>2
  <1> QED
    BY <1>3, <1>4

(* midpoint (internal/frac): a key made between two others is valid and    *)
(* strictly between them, and one made before the first is below it.       *)
LEMMA MidpointIsBetween ==
  ASSUME NEW a \in Seq(0 .. Digits - 1), NEW b, (Valid(b) /\ Below(a, b)) \/ b = <<>>
  PROVE  /\ Valid(Midpoint(a, b)) /\ Below(a, Midpoint(a, b))
         /\ b # <<>> => Below(Midpoint(a, b), b)
  <1> DEFINE n == IF b = <<>> THEN 0 ELSE CHOOSE i \in Parting(a, b) : \A k \in Parting(a, b) : i <= k
             Roomy == {i \in n + 1 .. n + Len(a) + 1 : Digit(a, i) < Digits - 1}
             m == CHOOSE i \in Roomy : \A k \in Roomy : i <= k
             r == Midpoint(a, b)
  <1>1. r = IF b # <<>> /\ b[n] - Digit(a, n) > 1 THEN Extend(a, n, (Digit(a, n) + b[n] + 1) \div 2)
            ELSE IF n < Len(b) THEN Extend(a, n, b[n])
            ELSE Extend(a, m, (Digit(a, m) + Digits + 1) \div 2)
    BY Zenon DEF Midpoint, Parting
  <1>2. Len(a) \in Nat /\ \A i \in Nat \ {0} : Digit(a, i) \in 0 .. Digits - 1
    BY DigitsAssumption, ElementOfSeq DEF Digit
  <1>3. ASSUME b # <<>>
        PROVE  /\ n \in 1 .. Len(b) /\ Digit(a, n) < b[n] /\ b[n] \in 0 .. Digits - 1
               /\ \A i \in 1 .. n - 1 : Digit(a, i) = b[i]
               /\ Len(b) \in Nat
    <2>1. Parting(a, b) # {} /\ Parting(a, b) \subseteq Nat /\ Len(b) \in Nat
      BY <1>3, SomethingParts DEF Parting, Valid
    <2>2. n \in Parting(a, b) /\ \A k \in Parting(a, b) : n <= k
      BY <1>3, <2>1, FirstPlace
    <2> HIDE DEF n
    <2> QED
      BY <1>3, <2>1, <2>2, PartsBelow, ElementOfSeq DEF Valid
  <1>4. n \in Nat
    BY <1>3
  <1> HIDE DEF n
  <1>5. m \in Nat /\ m > n /\ Digit(a, m) < Digits - 1 /\ Digit(a, m) \in 0 .. Digits - 1
    <2>0. Roomy \in SUBSET Nat
      BY <1>2, <1>4
    <2>1. n + Len(a) + 1 \in Roomy
      BY <1>2, <1>4, DigitsAssumption DEF Digit
    <2>2. m \in Roomy
      <3> DEFINE S == Roomy
      <3>1. S \in SUBSET Nat /\ S # {}
        BY <2>0, <2>1
      <3> HIDE DEF S
      <3>2. (CHOOSE i \in S : \A k \in S : i <= k) \in S
        BY <3>1, FirstPlace
      <3> QED
        BY <3>2 DEF S
    <2>3. m \in n + 1 .. n + Len(a) + 1 /\ Digit(a, m) < Digits - 1
      BY <2>2
    <2> HIDE DEF m
    <2>4. m \in Nat \ {0} /\ m > n
      BY <1>2, <1>4, <2>3
    <2> QED
      BY <1>2, <2>3, <2>4
  <1> HIDE DEF m, r
  <1>6. CASE b # <<>> /\ b[n] - Digit(a, n) > 1
    <2> DEFINE lo == Digit(a, n)
               hi == b[n]
               x == (lo + hi + 1) \div 2
    <2>0. n \in Nat \ {0} /\ lo \in 0 .. Digits - 1 /\ hi \in 0 .. Digits - 1 /\ hi - lo > 1 /\ Digits \in Nat
      BY <1>2, <1>3, <1>6, DigitsAssumption
    <2>4. r = Extend(a, n, x)
      BY <1>1, <1>6
    <2>5. x \in 1 .. Digits - 1 /\ lo < x /\ x < hi
      <3> HIDE DEF lo, hi
      <3> DEFINE s == lo + hi + 1
      <3>4. s \in Nat
        BY <2>0
      <3>5. x = s \div 2
        BY Zenon
      <3>0. s \in Nat /\ x = s \div 2
        BY <3>4, <3>5
      <3>1. 2 * (s \div 2) <= s /\ s < 2 * (s \div 2) + 2 /\ s \div 2 \in Nat
        BY <3>0, HalfIs, Zenon
      <3>2. 2 * x <= s /\ s < 2 * x + 2 /\ x \in Nat
        BY <3>0, <3>1, Zenon
      <3> HIDE DEF x
      <3> QED
        BY <2>0, <3>2, <3>4
    <2>1. x \in 1 .. Digits - 1 /\ Digit(a, n) < x /\ x < b[n] /\ n \in Nat \ {0} /\ r = Extend(a, n, x)
      BY <2>0, <2>4, <2>5
    <2> HIDE DEF x
    <2>2. Len(r) = n /\ r[n] = x /\ (\A i \in 1 .. n - 1 : r[i] = Digit(a, i)) /\ Valid(r) /\ Below(a, r)
      BY <2>1, ExtendIs, ExtendAbove
    <2>3. Below(r, b)
      <3>1. \A i \in 1 .. n - 1 : i <= Len(r) /\ r[i] = b[i]
        BY <1>3, <1>6, <2>1, <2>2
      <3>2. r[n] < b[n]
        BY <2>1, <2>2
      <3> QED
        BY <1>3, <1>6, <3>1, <3>2 DEF Below
    <2> QED
      BY <2>2, <2>3 DEF r
  <1>7. CASE ~ (b # <<>> /\ b[n] - Digit(a, n) > 1) /\ n < Len(b)
    <2>0. b # <<>>
      BY <1>7, <1>4, EmptySeq
    <2>1. b[n] \in 1 .. Digits - 1 /\ n \in Nat \ {0} /\ r = Extend(a, n, b[n])
      BY <1>1, <1>2, <1>3, <1>7, <2>0
    <2>2. /\ Len(r) = n /\ r[n] = b[n] /\ (\A i \in 1 .. n - 1 : r[i] = Digit(a, i))
          /\ Valid(r) /\ Below(a, r)
      BY <1>3, <2>0, <2>1, ExtendIs, ExtendAbove
    <2> DEFINE k == n + 1
    <2>3. k \in 1 .. Len(b) /\ k > Len(r) /\ \A i \in 1 .. k - 1 : i <= Len(r) /\ r[i] = b[i]
      BY <1>3, <1>7, <2>0, <2>1, <2>2
    <2> HIDE DEF k
    <2>4. Below(r, b)
      BY <2>3 DEF Below
    <2> QED
      BY <2>2, <2>4 DEF r
  <1>8. CASE ~ (b # <<>> /\ b[n] - Digit(a, n) > 1) /\ ~ (n < Len(b))
    <2> DEFINE lo == Digit(a, m)
               x == (lo + Digits + 1) \div 2
    <2>0. m \in Nat \ {0} /\ lo \in 0 .. Digits - 1 /\ lo < Digits - 1 /\ Digits \in Nat
      BY <1>4, <1>5, DigitsAssumption
    <2>4. r = Extend(a, m, x)
      BY <1>1, <1>8
    <2>5. x \in 1 .. Digits - 1 /\ lo < x
      <3> HIDE DEF lo
      <3> DEFINE s == lo + Digits + 1
      <3>4. s \in Nat
        BY <2>0
      <3>5. x = s \div 2
        BY Zenon
      <3>0. s \in Nat /\ x = s \div 2
        BY <3>4, <3>5
      <3>1. 2 * (s \div 2) <= s /\ s < 2 * (s \div 2) + 2 /\ s \div 2 \in Nat
        BY <3>0, HalfIs, Zenon
      <3>2. 2 * x <= s /\ s < 2 * x + 2 /\ x \in Nat
        BY <3>0, <3>1, Zenon
      <3> HIDE DEF x
      <3> QED
        BY <2>0, <3>2, <3>4
    <2>1. x \in 1 .. Digits - 1 /\ Digit(a, m) < x /\ m \in Nat \ {0} /\ r = Extend(a, m, x)
      BY <2>0, <2>4, <2>5
    <2> HIDE DEF x
    <2>2. Len(r) = m /\ (\A i \in 1 .. m - 1 : r[i] = Digit(a, i)) /\ Valid(r) /\ Below(a, r)
      BY <2>1, ExtendIs, ExtendAbove
    <2>3. ASSUME b # <<>> PROVE Below(r, b)
      <3>1. n \in 1 .. m - 1 /\ n <= Len(r) /\ r[n] < b[n]
        BY <1>3, <1>5, <2>2, <2>3
      <3>2. \A i \in 1 .. n - 1 : i <= Len(r) /\ r[i] = b[i]
        BY <1>3, <1>5, <2>2, <2>3
      <3> QED
        BY <1>3, <2>3, <3>1, <3>2 DEF Below
    <2> QED
      BY <2>2, <2>3 DEF r
  <1> QED
    BY <1>6, <1>7, <1>8

(* Between (internal/frac): for keys in order, the empty one standing for  *)
(* an end of the list, the new key is valid and strictly between them.     *)
THEOREM BetweenIsBetween ==
  ASSUME NEW a, a = <<>> \/ Valid(a), NEW b, b = <<>> \/ (Valid(b) /\ Below(a, b))
  PROVE  /\ Valid(Between(a, b)) /\ Below(a, Between(a, b))
         /\ b # <<>> => Below(Between(a, b), b)
  <1>1. a \in Seq(0 .. Digits - 1)
    BY EmptySeq DEF Valid
  <1> QED
    BY <1>1, NextIsAbove, MidpointIsBetween DEF Between

-----------------------------------------------------------------------------
(* The order of keys is one: irreflexive, transitive and total.            *)
Written == Seq(0 .. Digits - 1)

LEMMA BelowIrreflexive ==
  ASSUME NEW a \in Written PROVE ~ Below(a, a)
  <1>1. ASSUME NEW n \in 1 .. Len(a), n > Len(a) \/ a[n] < a[n] PROVE FALSE
    <2>1. a[n] \in 0 .. Digits - 1
      BY ElementOfSeq DEF Written
    <2>2. Len(a) \in Nat
      BY DEF Written
    <2> QED
      BY <1>1, <2>1, <2>2, DigitsAssumption
  <1> QED
    BY <1>1 DEF Below

LEMMA BelowTransitive ==
  ASSUME NEW a \in Written, NEW b \in Written, NEW c \in Written, Below(a, b), Below(b, c)
  PROVE  Below(a, c)
  <1>1. Len(a) \in Nat /\ Len(b) \in Nat /\ Len(c) \in Nat
    BY DEF Written
  <1>2. PICK n \in 1 .. Len(b) : (\A i \in 1 .. n - 1 : i <= Len(a) /\ a[i] = b[i]) /\ (n > Len(a) \/ a[n] < b[n])
    BY DEF Below
  <1>3. PICK m \in 1 .. Len(c) : (\A i \in 1 .. m - 1 : i <= Len(b) /\ b[i] = c[i]) /\ (m > Len(b) \/ b[m] < c[m])
    BY DEF Below
  <1>4. CASE n < m
    <2>1. n \in 1 .. Len(c) /\ (n > Len(a) \/ a[n] < c[n]) /\ \A i \in 1 .. n - 1 : i <= Len(a) /\ a[i] = c[i]
      BY <1>1, <1>2, <1>3, <1>4
    <2> QED
      BY <2>1 DEF Below
  <1>5. CASE m < n
    <2>1. (m > Len(a) \/ a[m] < c[m]) /\ \A i \in 1 .. m - 1 : i <= Len(a) /\ a[i] = c[i]
      BY <1>1, <1>2, <1>3, <1>5
    <2> QED
      BY <2>1 DEF Below
  <1>6. CASE n = m
    <2>1. \A i \in 1 .. n - 1 : i <= Len(a) /\ a[i] = c[i]
      BY <1>1, <1>2, <1>3, <1>6
    <2>2. n > Len(a) \/ a[n] < c[n]
      <3>1. b[n] < c[n] /\ b[n] \in Int /\ c[n] \in Int
        <4>1. b[n] \in 0 .. Digits - 1 /\ c[n] \in 0 .. Digits - 1
          BY <1>2, <1>3, <1>6, ElementOfSeq DEF Written
        <4> QED
          BY <1>1, <1>2, <1>3, <1>6, <4>1, DigitsAssumption
      <3>2. ASSUME ~ (n > Len(a)) PROVE a[n] \in Int /\ a[n] < b[n]
        <4>1. n \in 1 .. Len(a)
          BY <1>1, <3>2
        <4>2. a[n] \in 0 .. Digits - 1
          BY <4>1, ElementOfSeq DEF Written
        <4> QED
          BY <1>2, <3>2, <4>2, DigitsAssumption
      <3> QED
        BY <3>1, <3>2
    <2> QED
      BY <1>3, <1>6, <2>1, <2>2 DEF Below
  <1> QED
    BY <1>4, <1>5, <1>6

LEMMA BelowTotal ==
  ASSUME NEW a \in Written, NEW b \in Written, a # b
  PROVE  Below(a, b) \/ Below(b, a)
  <1> DEFINE S == {i \in Nat \ {0} : i > Len(a) \/ i > Len(b) \/ a[i] # b[i]}
             n == CHOOSE n \in S : \A k \in S : n <= k
  <1>1. Len(a) \in Nat /\ Len(b) \in Nat
    BY DEF Written
  <1>2. n \in S /\ \A k \in S : n <= k
    <2>1. Len(a) + 1 \in S /\ S \in SUBSET Nat
      BY <1>1
    <2> HIDE DEF S
    <2>2. S # {}
      BY <2>1
    <2> QED
      BY <2>1, <2>2, FirstPlace
  <1> HIDE DEF n
  <1>3. \A i \in 1 .. n - 1 : i <= Len(a) /\ i <= Len(b) /\ a[i] = b[i]
    BY <1>1, <1>2
  <1>4. n \in Nat \ {0} /\ (n > Len(a) \/ n > Len(b) \/ a[n] # b[n])
    BY <1>2
  <1>5. CASE n <= Len(a) /\ n <= Len(b)
    <2>1. a[n] \in 0 .. Digits - 1 /\ b[n] \in 0 .. Digits - 1
      <3>1. n \in 1 .. Len(a) /\ n \in 1 .. Len(b)
        BY <1>1, <1>4, <1>5
      <3> QED
        BY <3>1, ElementOfSeq DEF Written
    <2>2. a[n] < b[n] \/ b[n] < a[n]
      BY <1>1, <1>4, <1>5, <2>1, DigitsAssumption
    <2> QED
      BY <1>1, <1>3, <1>4, <1>5, <2>2 DEF Below
  <1>6. CASE n <= Len(a) /\ n > Len(b)
    BY <1>1, <1>3, <1>4, <1>6 DEF Below
  <1>7. CASE n > Len(a) /\ n <= Len(b)
    BY <1>1, <1>3, <1>4, <1>7 DEF Below
  <1>8. CASE n > Len(a) /\ n > Len(b)
    <2>1. Len(a) = Len(b) /\ \A i \in 1 .. Len(a) : a[i] = b[i]
      BY <1>1, <1>3, <1>4, <1>8
    <2>2. a = b
      BY <2>1, SeqEqual DEF Written
    <2> QED
      BY <2>2
  <1> QED
    BY <1>1, <1>4, <1>5, <1>6, <1>7, <1>8

(* What is before all the rest, and what is after it, in a finite set of   *)
(* keys: taken where the fewest others are on the other side of it.        *)
LEMMA OneEnd ==
  ASSUME NEW K, IsFiniteSet(K), K # {}, NEW R,
         \A a, b \in K : <<a, b>> \in R => <<b, a>> \notin R,
         \A a, b, c \in K : <<a, b>> \in R /\ <<b, c>> \in R => <<a, c>> \in R
  PROVE  \E k \in K : \A q \in K : <<q, k>> \notin R
  <1> DEFINE F(k) == {q \in K : <<q, k>> \in R}
             S == {Cardinality(F(k)) : k \in K}
  <1>1. \A k \in K : IsFiniteSet(F(k)) /\ Cardinality(F(k)) \in Nat
    BY FS_Subset, FS_CardinalityType
  <1> HIDE DEF F
  <1>2. S \in SUBSET Nat /\ S # {}
    BY <1>1
  <1>3. PICK s \in S : \A t \in S : s <= t
    <2> HIDE DEF S
    <2> QED
      BY <1>2, FirstPlace
  <1>4. PICK k \in K : s = Cardinality(F(k))
    BY <1>3
  <1>5. ASSUME NEW q \in K, <<q, k>> \in R PROVE FALSE
    <2>1. F(q) \subseteq F(k) /\ q \in F(k) /\ q \notin F(q)
      BY <1>5 DEF F
    <2>2. Cardinality(F(q)) < Cardinality(F(k))
      BY <1>1, <2>1, FS_Subset
    <2>3. Cardinality(F(k)) <= Cardinality(F(q))
      BY <1>3, <1>4
    <2> QED
      BY <1>1, <2>2, <2>3
  <1> QED
    BY <1>5

LEMMA LeastKey ==
  ASSUME NEW K \in SUBSET Written, IsFiniteSet(K), K # {}
  PROVE  LET k == CHOOSE k \in K : \A q \in K \ {k} : Below(k, q)
         IN  k \in K /\ \A q \in K \ {k} : Below(k, q)
  <1> DEFINE R == {r \in K \X K : Below(r[1], r[2])}
  <1>1. \A a, b \in K : <<a, b>> \in R <=> Below(a, b)
    OBVIOUS
  <1> HIDE DEF R
  <1>2. \A a, b \in K : <<a, b>> \in R => <<b, a>> \notin R
    BY <1>1, BelowIrreflexive, BelowTransitive
  <1>3. \A a, b, c \in K : <<a, b>> \in R /\ <<b, c>> \in R => <<a, c>> \in R
    BY <1>1, BelowTransitive
  <1>4. PICK k \in K : \A q \in K : <<q, k>> \notin R
    BY <1>2, <1>3, OneEnd
  <1>5. \A q \in K \ {k} : Below(k, q)
    BY <1>1, <1>4, BelowTotal
  <1> QED
    BY <1>5

LEMMA GreatestKey ==
  ASSUME NEW K \in SUBSET Written, IsFiniteSet(K), K # {}
  PROVE  LET k == CHOOSE k \in K : \A q \in K \ {k} : Below(q, k)
         IN  k \in K /\ \A q \in K \ {k} : Below(q, k)
  <1> DEFINE R == {r \in K \X K : Below(r[2], r[1])}
  <1>1. \A a, b \in K : <<a, b>> \in R <=> Below(b, a)
    OBVIOUS
  <1> HIDE DEF R
  <1>2. \A a, b \in K : <<a, b>> \in R => <<b, a>> \notin R
    BY <1>1, BelowIrreflexive, BelowTransitive
  <1>3. \A a, b, c \in K : <<a, b>> \in R /\ <<b, c>> \in R => <<a, c>> \in R
    BY <1>1, BelowTransitive
  <1>4. PICK k \in K : \A q \in K : <<q, k>> \notin R
    BY <1>2, <1>3, OneEnd
  <1>5. \A q \in K \ {k} : Below(q, k)
    BY <1>1, <1>4, BelowTotal
  <1> QED
    BY <1>5

-----------------------------------------------------------------------------
(* Keys of a list: at the end of it, or after any of its rows, a new key   *)
(* is a key, and no other row's.                                           *)
LEMMA KeysWritten ==
  /\ \A k \in Key : k \in Written /\ Valid(k)
  /\ \A k : Valid(k) => k \in Key
  BY DEF Key, Written, Valid

LEMMA KeysFinite ==
  ASSUME NEW table, NEW scope, IsFiniteSet(scope)
  PROVE  IsFiniteSet(Keys(table, scope))
  <1> DEFINE f == [id \in scope |-> table[id].pos]
  <1>1. f \in Surjection(scope, Keys(table, scope))
    BY DEF Keys, Surjection
  <1> QED
    BY <1>1, FS_Surjection

LEMMA LastFits ==
  ASSUME NEW table, NEW scope, IsFiniteSet(scope), \A id \in scope : table[id].pos \in Key
  PROVE  last(table, scope) \in Key /\ \A id \in scope : table[id].pos # last(table, scope)
  <1> DEFINE K == Keys(table, scope)
             lo == IF K = {} THEN <<>> ELSE CHOOSE k \in K : \A q \in K \ {k} : Below(q, k)
  <1>1. last(table, scope) = Between(lo, <<>>)
    BY DEF last
  <1>2. K \in SUBSET Written /\ IsFiniteSet(K) /\ \A k \in K : Valid(k)
    BY KeysWritten, KeysFinite DEF Keys
  <1>3. (lo = <<>> \/ Valid(lo)) /\ \A k \in K : k = lo \/ Below(k, lo)
    <2>1. CASE K = {}
      BY <2>1
    <2>2. CASE K # {}
      BY <1>2, <2>2, GreatestKey
    <2> QED
      BY <2>1, <2>2
  <1> HIDE DEF lo
  <1>4. Valid(Between(lo, <<>>)) /\ Below(lo, Between(lo, <<>>))
    BY <1>3, BetweenIsBetween
  <1>5. lo \in Written
    BY <1>3, EmptySeq DEF Valid, Written
  <1>6. ASSUME NEW k \in K, k = Between(lo, <<>>) PROVE FALSE
    BY <1>2, <1>3, <1>4, <1>5, <1>6, BelowTransitive, BelowIrreflexive
  <1> QED
    BY <1>1, <1>4, <1>6, KeysWritten DEF Keys

LEMMA PlaceFits ==
  ASSUME NEW table, NEW scope, IsFiniteSet(scope), \A id \in scope : table[id].pos \in Key,
         NEW after \in scope \union {0}, NEW except
  PROVE  /\ place(table, scope, after, except) \in Key
         /\ \A id \in scope \ {except} : table[id].pos # place(table, scope, after, except)
  <1> DEFINE lo == IF after = 0 THEN <<>> ELSE table[after].pos
             K == Keys(table, scope \ {except})
             above == {k \in K : Below(lo, k)}
             hi == IF above = {} THEN <<>> ELSE CHOOSE k \in above : \A q \in above \ {k} : Below(k, q)
             new == Between(lo, hi)
  <1>1. place(table, scope, after, except) = new
    BY DEF place
  <1>2. above \in SUBSET Written /\ IsFiniteSet(above) /\ \A k \in above : Valid(k)
    <2>1. IsFiniteSet(scope \ {except})
      BY FS_Subset
    <2>2. IsFiniteSet(K)
      BY <2>1, KeysFinite
    <2>3. IsFiniteSet(above)
      BY <2>2, FS_Subset
    <2> QED
      BY <2>3, KeysWritten DEF Keys
  <1>3. lo = <<>> \/ Valid(lo)
    BY KeysWritten
  <1>4. lo \in Written
    BY <1>3, EmptySeq DEF Valid, Written
  <1>5. /\ hi = <<>> \/ (Valid(hi) /\ Below(lo, hi))
        /\ \A k \in above : hi # <<>> /\ (k = hi \/ Below(hi, k))
    <2>1. CASE above = {}
      BY <2>1
    <2>2. CASE above # {}
      <3>1. hi \in above /\ \A q \in above \ {hi} : Below(hi, q)
        BY <1>2, <2>2, LeastKey
      <3>2. hi # <<>>
        BY <1>2, <3>1 DEF Valid
      <3> QED
        BY <1>2, <3>1, <3>2
    <2> QED
      BY <2>1, <2>2
  <1> HIDE DEF lo, hi
  <1>6. Valid(new) /\ Below(lo, new) /\ (hi # <<>> => Below(new, hi))
    BY <1>3, <1>5, BetweenIsBetween
  <1>7. new \in Written
    BY <1>6, KeysWritten
  <1> HIDE DEF new
  <1>8. ASSUME NEW k \in K, k = new PROVE FALSE
    <2>1. k \in above
      BY <1>6, <1>8
    <2>2. Below(new, hi) /\ (k = hi \/ Below(hi, k)) /\ hi \in Written
      BY <1>5, <1>6, <2>1, KeysWritten
    <2> QED
      BY <1>7, <1>8, <2>2, BelowTransitive, BelowIrreflexive
  <1> QED
    BY <1>1, <1>6, <1>8, KeysWritten DEF Keys

(* The id a row is given is free, and giving it leaves every other row.    *)
LEMMA NextIdFree ==
  ASSUME NEW S, NEW table \in Seq(S)
  PROVE  /\ NextId(table) \in 1 .. Len(table) + 1
         /\ NextId(table) <= Len(table) => table[NextId(table)] = None
  <1> DEFINE L == {0} \union Live(table)
             m == Max(L)
  <1>1. Len(table) \in Nat /\ Live(table) \subseteq 1 .. Len(table) /\ \A id \in Live(table) : table[id] # None
    BY DEF Live
  <1>2. L \in SUBSET Nat /\ L # {} /\ L \subseteq 0 .. Len(table)
    BY <1>1
  <1>3. IsFiniteSet(L)
    <2>1. IsFiniteSet(0 .. Len(table))
      BY <1>1, FS_Interval
    <2> QED
      BY <1>2, <2>1, FS_Subset
  <1>4. \E x \in L : \A y \in L : x >= y
    <2> DEFINE R == {r \in L \X L : r[2] < r[1]}
    <2>1. \A a, b \in L : <<a, b>> \in R <=> b < a
      OBVIOUS
    <2> HIDE DEF R, L
    <2>2. /\ \A a, b \in L : <<a, b>> \in R => <<b, a>> \notin R
          /\ \A a, b, c \in L : <<a, b>> \in R /\ <<b, c>> \in R => <<a, c>> \in R
      BY <1>2, <2>1
    <2>3. PICK k \in L : \A q \in L : <<q, k>> \notin R
      BY <1>2, <1>3, <2>2, OneEnd
    <2>4. \A q \in L : ~ (k < q) /\ q \in Nat /\ k \in Nat
      BY <1>2, <2>1, <2>3
    <2> QED
      BY <2>4
  <1>5. m \in L /\ \A y \in L : m >= y
    BY <1>4 DEF Max
  <1>6. NextId(table) = m + 1
    BY DEF NextId
  <1> HIDE DEF m
  <1>7. m \in 0 .. Len(table)
    BY <1>2, <1>5
  <1>8. m + 1 \notin Live(table)
    BY <1>5, <1>7
  <1> QED
    BY <1>1, <1>6, <1>7, <1>8 DEF Live

HoldsRows(table, S) == table \in Seq(S)
LEMMA PutNext ==
  ASSUME NEW S, NEW table, HoldsRows(table, S), NEW row \in S,
         NEW n, n = NextId(table), NEW t, t = Put(table, n, row)
  PROVE  /\ HoldsRows(t, S) /\ t[n] = row /\ n \in Nat \ {0}
         /\ DOMAIN t = DOMAIN table \union {n}
         /\ n \in DOMAIN table => table[n] = None
         /\ \A i \in DOMAIN table \ {n} : t[i] = table[i]
  <1>0. table \in Seq(S)
    BY DEF HoldsRows
  <1>1. Len(table) \in Nat /\ n \in 1 .. Len(table) + 1 /\ (n <= Len(table) => table[n] = None)
    BY <1>0, NextIdFree
  <1>2. CASE n > Len(table)
    <2>1. t = Append(table, row) /\ n = Len(table) + 1
      BY <1>1, <1>2 DEF Put
    <2>2. t \in Seq(S) /\ Len(t) = n /\ t[n] = row /\ \A i \in 1 .. Len(table) : t[i] = table[i]
      BY <1>0, <2>1
    <2> QED
      BY <1>1, <1>2, <2>1, <2>2 DEF HoldsRows
  <1>3. CASE ~ (n > Len(table))
    <2>1. t = [table EXCEPT ![n] = row] /\ n \in DOMAIN table
      BY <1>1, <1>3 DEF Put
    <2>2. t \in Seq(S) /\ DOMAIN t = DOMAIN table /\ t[n] = row /\ \A i \in DOMAIN table \ {n} : t[i] = table[i]
      BY <1>0, <2>1
    <2> QED
      <3>2. DOMAIN table \union {n} = DOMAIN table
        BY <1>0, <2>1
      <3>1. n \in Nat \ {0} /\ table[n] = None /\ DOMAIN table \union {n} = DOMAIN table
        BY <1>1, <1>3, <3>2
      <3> QED
        BY <2>1, <2>2, <3>1 DEF HoldsRows
  <1> QED
    BY <1>2, <1>3

(* A list, whatever its entries are.                                       *)
Listed(s) == s \in Seq({s[n] : n \in DOMAIN s})

LEMMA ListedAppend ==
  ASSUME NEW s, Listed(s), NEW x
  PROVE  LET t == Append(s, x)
         IN  /\ Listed(t) /\ Len(s) \in Nat /\ DOMAIN s = 1 .. Len(s)
             /\ DOMAIN t = DOMAIN s \union {Len(s) + 1}
             /\ t[Len(s) + 1] = x /\ \A n \in DOMAIN s : t[n] = s[n]
  <1> DEFINE S == {s[n] : n \in DOMAIN s} \union {x}
             t == Append(s, x)
  <1>1. s \in Seq(S) /\ x \in S
    <2>1. Len(s) \in Nat /\ DOMAIN s = 1 .. Len(s) /\ \A n \in 1 .. Len(s) : s[n] \in S
      BY DEF Listed
    <2>2. s = [n \in 1 .. Len(s) |-> s[n]]
      BY DEF Listed
    <2> HIDE DEF S
    <2>3. s \in Seq(S)
      BY <2>1, <2>2
    <2> QED
      BY <2>3 DEF S
  <1> HIDE DEF S
  <1>2. /\ t \in Seq(S) /\ Len(t) = Len(s) + 1 /\ t[Len(s) + 1] = x /\ Len(s) \in Nat
        /\ \A n \in 1 .. Len(s) : t[n] = s[n]
    BY <1>1
  <1> HIDE DEF t
  <1>3. Listed(t)
    <2> DEFINE T == {t[n] : n \in DOMAIN t}
    <2>1. Len(t) \in Nat /\ DOMAIN t = 1 .. Len(t) /\ t = [n \in 1 .. Len(t) |-> t[n]] /\ \A n \in 1 .. Len(t) : t[n] \in T
      BY <1>2
    <2> HIDE DEF T
    <2>2. t \in Seq(T)
      BY <2>1
    <2> QED
      BY <2>2 DEF T, Listed
  <1>4. DOMAIN s = 1 .. Len(s) /\ DOMAIN t = 1 .. Len(t)
    BY <1>1, <1>2
  <1>5. DOMAIN t = DOMAIN s \union {Len(s) + 1}
    BY <1>2, <1>4
  <1> QED
    BY <1>2, <1>3, <1>4, <1>5 DEF t

LEMMA ListedOver ==
  ASSUME NEW s, Listed(s), NEW t, t = [n \in DOMAIN s |-> t[n]]
  PROVE  Listed(t) /\ DOMAIN t = DOMAIN s
  <1> DEFINE T == {t[n] : n \in DOMAIN t}
  <1>1. Len(s) \in Nat /\ DOMAIN s = 1 .. Len(s)
    BY DEF Listed
  <1>2. DOMAIN t = 1 .. Len(s) /\ \A n \in 1 .. Len(s) : t[n] \in T
    BY <1>1
  <1> HIDE DEF T
  <1>3. t \in Seq(T)
    BY <1>1, <1>2
  <1> QED
    BY <1>1, <1>2, <1>3 DEF T, Listed

-----------------------------------------------------------------------------
(* The inductive invariant of the board.  A card has one proposition, also *)
(* in the trash and in what is recorded of it; what lies in the trash and  *)
(* may come back is not on the board, lies there once, has the version     *)
(* that was last seen, and names accounts that are still there, are gone,  *)
(* or are not older than its deletion.  The accounts a card itself names   *)
(* are those that were meant, or of the second of one of its deletions:    *)
(* of these there may only come more.                                      *)
HomeIs(c, h, rows, trash) ==
  /\ rows[c] # None => rows[c].prop = h
  /\ \A n \in DOMAIN trash : trash[n].card = c => trash[n].row.prop = h
Gone(c, trash) == {trash[n].at : n \in {m \in DOMAIN trash : trash[m].card = c}}
Current(a, us, gone) ==
  a.id \in DOMAIN us /\ us[a.id] # None /\ (us[a.id] = a.made \/ us[a.id].second \in gone)
Known(a, at, us, gone) ==
  a.id \in DOMAIN us /\ (us[a.id] \in {a.made, None} \/ us[a.id].second \in gone \/ us[a.id].second >= at)
Ticks == writes' = writes + 1 /\ now' \in {now, now + 1}

IsEntry(b, rows) ==
  b \in [card : DOMAIN rows, row : CardRow, items : {b.items}, at : Nat, restored : BOOLEAN]
IsChange(r, rows, trash) ==
  /\ r \in [prop : {r.prop}, entity : {r.entity}, id : {r.id}, before : {r.before}, after : {r.after},
            undone : BOOLEAN]
  /\ r.entity = "column" => r.before \in ColumnRow
  /\ r.entity = "card" => r.before \in CardRow /\ r.id \in DOMAIN rows /\ HomeIs(r.id, r.prop, rows, trash)

TypeOK ==
  /\ columns \in Seq(ColumnRow \union {None})
  /\ cards \in Seq(CardRow \union {None})
  /\ users \in Seq(Moment \union {None}) /\ writes \in Nat /\ now \in Nat
  /\ template \in [Props -> Nat \union {None}]
  /\ Listed(bin) /\ \A n \in DOMAIN bin : IsEntry(bin[n], cards)
  /\ DOMAIN told = DOMAIN cards /\ \A c \in DOMAIN told : told[c] \in Seq(Titles)
BinOk == \A n \in DOMAIN bin :
  /\ HomeIs(bin[n].card, bin[n].row.prop, cards, bin)
  /\ bin[n].at <= now
  /\ \A a \in bin[n].row.who : Known(a, bin[n].at, users, Gone(bin[n].card, bin))
  /\ ~ bin[n].restored =>
       /\ cards[bin[n].card] = None
       /\ Len(told[bin[n].card]) = bin[n].row.version
       /\ \A m \in DOMAIN bin \ {n} : bin[m].card = bin[n].card => bin[m].restored
Titled == \A c \in Live(cards) :
  Len(told[c]) = cards[c].version /\ told[c][cards[c].version] = cards[c].title
Named == \A c \in Live(cards) : \A a \in cards[c].who : Current(a, users, Gone(c, bin))
BoardOk == TypeOK /\ BinOk /\ Titled /\ Named /\ CardsAtHome /\ KeysDistinct /\ OneTemplate
LogOk == Listed(log) /\ \A n \in DOMAIN log : IsChange(log[n], cards, bin)
BoardInv == BoardOk /\ LogOk

HomesKept ==
  \A c \in DOMAIN cards :
    c \in DOMAIN cards' /\ \A h : HomeIs(c, h, cards, bin) => HomeIs(c, h, cards', bin')

(* An account comes or goes: what a step does to the accounts.             *)
UsersKept ==
  /\ DOMAIN users \subseteq DOMAIN users'
  /\ \A u \in DOMAIN users :
       users'[u] \in {None, users[u]} \/ (users[u] = None /\ users'[u] # None /\ users'[u].second = now)

(* A card comes back by the one entry of the trash that is used up, and    *)
(* what may come back is as it was or has just been deleted.               *)
TrashKept ==
  /\ UsersKept /\ now' >= now
  /\ \A c : Gone(c, bin) \subseteq Gone(c, bin')
  /\ \A c \in DOMAIN cards :
       /\ cards[c] = None /\ cards'[c] # None =>
            /\ users' = users
            /\ \E m \in DOMAIN bin :
                 /\ bin[m].card = c /\ ~ bin[m].restored /\ bin'[m] # bin[m]
                 /\ \A k \in DOMAIN bin \ {m} : bin'[k] = bin[k]
       /\ \A k \in DOMAIN bin' : bin'[k].card = c /\ ~ bin'[k].restored /\ cards'[c] = None =>
            \/ cards[c] # None /\ bin'[k].at = now
            \/ /\ cards[c] = None /\ k \in DOMAIN bin
               /\ bin[k].card = c /\ ~ bin[k].restored /\ bin'[k].at = bin[k].at

(* What a step may do to the rows of the log.                              *)
LogSteps ==
  \/ log' = log
  \/ \E x : log' = Append(log, x) /\ IsChange(x, cards', bin')
  \/ \E n \in DOMAIN log : log' = [log EXCEPT ![n].undone = TRUE]

LEMMA LogKept ==
  ASSUME LogOk, HomesKept, LogSteps
  PROVE  LogOk'
  <1>1. \A r : IsChange(r, cards, bin) => IsChange(r, cards', bin')
    BY DEF IsChange, HomesKept
  <1>2. CASE log' = log
    BY <1>1, <1>2 DEF LogOk
  <1>3. ASSUME NEW x, log' = Append(log, x), IsChange(x, cards', bin') PROVE LogOk'
    <2>1. /\ Listed(log') /\ DOMAIN log' = DOMAIN log \union {Len(log) + 1}
          /\ log'[Len(log) + 1] = x /\ \A n \in DOMAIN log : log'[n] = log[n]
      BY <1>3, ListedAppend DEF LogOk
    <2>2. \A n \in DOMAIN log' : IsChange(log'[n], cards', bin')
      BY <1>1, <1>3, <2>1 DEF LogOk
    <2> QED
      BY <2>1, <2>2 DEF LogOk
  <1>4. ASSUME NEW n \in DOMAIN log, log' = [log EXCEPT ![n].undone = TRUE] PROVE LogOk'
    <2>1. Listed(log') /\ DOMAIN log' = DOMAIN log
      <3>1. DOMAIN log' = DOMAIN log /\ log' = [m \in DOMAIN log |-> log'[m]]
        BY <1>4
      <3> QED
        BY <3>1, ListedOver DEF LogOk
    <2>2. ASSUME NEW m \in DOMAIN log PROVE IsChange(log'[m], cards', bin')
      <3>1. CASE m # n
        BY <1>1, <1>4, <3>1 DEF LogOk
      <3>2. CASE m = n
        <4>1. IsChange(log[n], cards, bin) /\ IsChange(log[n], cards', bin')
          BY <1>1 DEF LogOk
        <4>2. log'[n] = [log[n] EXCEPT !.undone = TRUE]
          BY <1>4
        <4> QED
          BY <3>2, <4>1, <4>2 DEF IsChange
      <3> QED
        BY <3>1, <3>2
    <2> QED
      BY <2>1, <2>2 DEF LogOk
  <1> QED
    BY <1>2, <1>3, <1>4 DEF LogSteps

(* A step that leaves cards alone, and every card's column where it is.    *)
LEMMA QuietTrash ==
  ASSUME BoardOk, UsersKept, now' >= now, bin' = bin, \A c \in DOMAIN cards : cards'[c] = None <=> cards[c] = None
  PROVE  TrashKept
  BY DEF TrashKept

LEMMA MoreWrites ==
  ASSUME BoardOk, Ticks
  PROVE  now' >= now
  BY DEF BoardOk, TypeOK, Ticks

LEMMA SameUsers ==
  ASSUME users' = users
  PROVE  UsersKept
  BY DEF UsersKept

(* What is known of an account stays known, and accounts are as they were  *)
(* or gone.                                                                *)
LEMMA KnownKept ==
  ASSUME UsersKept, now \in Nat, NEW at \in Nat, at <= now, NEW a,
         NEW gone, NEW more, gone \subseteq more, Known(a, at, users, gone)
  PROVE  Known(a, at, users', more)
  BY DEF Known, UsersKept

LEMMA CurrentKept ==
  ASSUME BoardOk, UsersKept, NEW a \in Person, NEW gone, NEW more, gone \subseteq more,
         Current(a, users, gone), NEW at
  PROVE  Known(a, at, users', more) /\ (users'[a.id] # None => Current(a, users', more))
  BY DEF UsersKept, Current, Known

(* Nothing leaves the trash for good: an entry that is added or marked     *)
(* leaves the deletions there have been.                                   *)
LEMMA GoneGrows ==
  ASSUME DOMAIN bin \subseteq DOMAIN bin',
         \A n \in DOMAIN bin : bin'[n].card = bin[n].card /\ bin'[n].at = bin[n].at
  PROVE  \A c : Gone(c, bin) \subseteq Gone(c, bin')
  BY DEF Gone

LEMMA StillCards ==
  ASSUME BoardOk, UNCHANGED <<cards, users, bin, template>>,
         DOMAIN told' = DOMAIN told, \A c \in DOMAIN told : told'[c] = told[c],
         writes' \in Nat /\ now' \in Nat, now' >= now, columns' \in Seq(ColumnRow \union {None}),
         \A c \in Live(cards) :
           cards[c].col \in Live(columns') /\ columns'[cards[c].col].prop = cards[c].prop
  PROVE  BoardOk' /\ HomesKept /\ TrashKept
  <1>1. TypeOK' /\ HomesKept
    BY DEF BoardOk, TypeOK, HomesKept
  <1>2. BinOk'
    <2>1. \A n \in DOMAIN bin : bin[n].at <= now' /\ told'[bin[n].card] = told[bin[n].card]
      BY DEF BoardOk, TypeOK, BinOk, IsEntry
    <2> QED
      BY <2>1 DEF BoardOk, BinOk
  <1>3. Titled' /\ Named' /\ KeysDistinct' /\ OneTemplate'
    <2>1. \A c \in Live(cards) : told'[c] = told[c]
      BY DEF BoardOk, TypeOK, Live
    <2> QED
      BY <2>1 DEF BoardOk, Titled, Named, KeysDistinct, OneTemplate, Live
  <1>4. CardsAtHome'
    BY DEF CardsAtHome, ColumnsOf
  <1>5. TrashKept
    BY SameUsers, QuietTrash
  <1> QED
    BY <1>5, <1>1, <1>2, <1>3, <1>4 DEF BoardOk

(* A card of the board is changed to a row its board has room for.         *)
LEMMA ChangeFits ==
  ASSUME BoardOk, NEW c \in Live(cards), NEW row \in CardRow,
         cards' = [cards EXCEPT ![c] = row], Told,
         UNCHANGED <<columns, users, bin, template>>, Ticks,
         row.prop = cards[c].prop, row.template = cards[c].template,
         \A a \in row.who : Current(a, users, Gone(c, bin)),
         row.col \in Live(columns), columns[row.col].prop = row.prop,
         \A o \in Live(cards) \ {c} : cards[o].col = row.col => cards[o].pos # row.pos,
         \/ row.version = cards[c].version /\ row.title = cards[c].title
         \/ row.version = cards[c].version + 1
  PROVE  BoardOk' /\ HomesKept /\ TrashKept
  <1>1. /\ cards \in Seq(CardRow \union {None}) /\ cards[c] \in CardRow /\ None \notin CardRow
        /\ c \in DOMAIN cards /\ DOMAIN told = DOMAIN cards
    BY BoardAssumption DEF BoardOk, TypeOK, Live
  <1>2. /\ cards' \in Seq(CardRow \union {None}) /\ DOMAIN cards' = DOMAIN cards /\ cards'[c] = row
        /\ \A o \in DOMAIN cards \ {c} : cards'[o] = cards[o]
    BY <1>1
  <1>3. Live(cards') = Live(cards) /\ row # None
    BY <1>1, <1>2 DEF Live
  <1>4. /\ DOMAIN told' = DOMAIN told /\ \A o \in DOMAIN told \ {c} : told'[o] = told[o]
        /\ told'[c] = IF row.version > Len(told[c]) THEN Append(told[c], row.title) ELSE told[c]
    <2>1. ASSUME NEW o \in DOMAIN told \ {c} PROVE told'[o] = told[o]
      <3>1. CASE cards[o] = None
        BY <1>1, <1>2, <2>1, <3>1 DEF Told
      <3>2. CASE cards[o] # None
        <4>1. cards[o] \in CardRow /\ Len(told[o]) = cards[o].version
          BY <1>1, <3>2 DEF BoardOk, Titled, Live
        <4>2. ~ (cards[o].version > Len(told[o]))
          BY <4>1 DEF CardRow
        <4> QED
          BY <1>1, <1>2, <2>1, <4>2 DEF Told
      <3> QED
        BY <3>1, <3>2
    <2>2. told'[c] = IF row.version > Len(told[c]) THEN Append(told[c], row.title) ELSE told[c]
      BY <1>1, <1>2, <1>3 DEF Told
    <2> QED
      BY <1>1, <1>2, <2>1, <2>2 DEF Told
  <1>5. /\ told'[c] \in Seq(Titles) /\ Len(told'[c]) = row.version /\ told'[c][row.version] = row.title
    <2>1. /\ told[c] \in Seq(Titles) /\ Len(told[c]) = cards[c].version
          /\ told[c][cards[c].version] = cards[c].title /\ cards[c].version \in Nat \ {0}
          /\ row.title \in Titles
      BY <1>1 DEF BoardOk, TypeOK, Titled, CardRow
    <2> QED
      BY <1>4, <2>1
  <1>6. TypeOK'
    <2>1. \A o \in DOMAIN told' : told'[o] \in Seq(Titles)
      BY <1>4, <1>5 DEF BoardOk, TypeOK
    <2>2. \A n \in DOMAIN bin : IsEntry(bin[n], cards')
      BY <1>2 DEF BoardOk, TypeOK, IsEntry
    <2>3. writes' \in Nat /\ now' \in Nat
      BY DEF BoardOk, TypeOK, Ticks
    <2>4. /\ columns' \in Seq(ColumnRow \union {None}) /\ users' \in Seq(Moment \union {None})
          /\ template' \in [Props -> Nat \union {None}] /\ Listed(bin')
      BY DEF BoardOk, TypeOK
    <2>5. DOMAIN told' = DOMAIN cards' /\ \A n \in DOMAIN bin' : IsEntry(bin'[n], cards')
      BY <1>1, <1>2, <1>4, <2>2
    <2> QED
      BY <1>2, <2>1, <2>3, <2>4, <2>5 DEF TypeOK
  <1>7. HomesKept
    BY <1>1, <1>2 DEF HomesKept, HomeIs, Live
  <1>8. BinOk'
    <2>1. ASSUME NEW n \in DOMAIN bin
          PROVE  /\ bin[n].card \in DOMAIN cards /\ bin[n].at <= now'
                 /\ HomeIs(bin[n].card, bin[n].row.prop, cards', bin')
                 /\ ~ bin[n].restored => cards'[bin[n].card] = None /\ told'[bin[n].card] = told[bin[n].card]
      <3>1. bin[n].card \in DOMAIN cards /\ bin[n].at <= now /\ bin[n].at \in Nat /\ writes \in Nat /\ now \in Nat
        BY DEF BoardOk, TypeOK, BinOk, IsEntry
      <3>2. ~ bin[n].restored => bin[n].card # c
        BY DEF BoardOk, BinOk, Live
      <3>3. HomeIs(bin[n].card, bin[n].row.prop, cards, bin)
        BY DEF BoardOk, BinOk
      <3>4. HomeIs(bin[n].card, bin[n].row.prop, cards', bin')
        BY <1>7, <3>1, <3>3 DEF HomesKept
      <3> QED
        BY <1>1, <1>2, <1>4, <3>1, <3>2, <3>4 DEF BoardOk, BinOk, Ticks
    <2> QED
      BY <2>1 DEF BoardOk, BinOk
  <1>9. Titled' /\ Named'
    BY <1>1, <1>2, <1>3, <1>4, <1>5 DEF BoardOk, Titled, Named, Live
  <1>10. CardsAtHome' /\ OneTemplate'
    BY <1>1, <1>2, <1>3 DEF BoardOk, CardsAtHome, OneTemplate, ColumnsOf, Live
  <1>11. KeysDistinct'
    BY <1>1, <1>2, <1>3 DEF BoardOk, KeysDistinct, Live
  <1>12. TrashKept
    BY <1>1, <1>2, <1>3, SameUsers, MoreWrites, QuietTrash DEF Live
  <1> QED
    BY <1>12, <1>6, <1>7, <1>8, <1>9, <1>10, <1>11 DEF BoardOk

(* A card is added where its board has room for it.                        *)
LEMMA AddFits ==
  ASSUME BoardOk, NEW row \in CardRow, cards' = Append(cards, row), Told,
         UNCHANGED <<columns, users, bin>>, Ticks,
         row.version = 1, row.who = {},
         row.col \in Live(columns), columns[row.col].prop = row.prop,
         \A o \in Live(cards) : cards[o].col = row.col => cards[o].pos # row.pos,
         \/ ~ row.template /\ template' = template
         \/ template[row.prop] = None /\ template' = [template EXCEPT ![row.prop] = Len(cards')]
  PROVE  BoardOk' /\ HomesKept /\ TrashKept
  <1> DEFINE c == Len(cards) + 1
  <1>1. /\ cards \in Seq(CardRow \union {None}) /\ None \notin CardRow /\ row # None
        /\ DOMAIN told = DOMAIN cards /\ Len(cards) \in Nat /\ DOMAIN cards = 1 .. Len(cards)
    BY BoardAssumption DEF BoardOk, TypeOK
  <1>2. /\ cards' \in Seq(CardRow \union {None}) /\ Len(cards') = c /\ cards'[c] = row
        /\ \A o \in DOMAIN cards : cards'[o] = cards[o]
    <2>1. row \in CardRow \union {None}
      OBVIOUS
    <2> QED
      BY <1>1, <2>1
  <1>3. DOMAIN cards' = DOMAIN cards \union {c} /\ c \notin DOMAIN cards /\ c \in Nat
    <2>1. DOMAIN cards' = 1 .. c
      BY <1>2
    <2> QED
      BY <1>1, <2>1
  <1> HIDE DEF c
  <1>4. Live(cards') = Live(cards) \union {c} /\ c \notin Live(cards)
    BY <1>1, <1>2, <1>3 DEF Live
  <1>5. /\ DOMAIN told' = DOMAIN cards' /\ told'[c] = <<row.title>>
        /\ \A o \in DOMAIN told : told'[o] = told[o]
    <2>1. ASSUME NEW o \in DOMAIN told PROVE told'[o] = told[o]
      <3>1. CASE cards[o] = None
        BY <1>1, <1>2, <1>3, <2>1, <3>1 DEF Told
      <3>2. CASE cards[o] # None
        <4>1. cards[o] \in CardRow /\ Len(told[o]) = cards[o].version
          BY <1>1, <3>2 DEF BoardOk, Titled, Live
        <4>2. ~ (cards[o].version > Len(told[o]))
          BY <4>1 DEF CardRow
        <4> QED
          BY <1>1, <1>2, <1>3, <2>1, <4>2 DEF Told
      <3> QED
        BY <3>1, <3>2
    <2> QED
      BY <1>1, <1>2, <1>3, <2>1 DEF Told
  <1>6. TypeOK'
    <2>1. row.title \in Titles /\ <<row.title>> \in Seq(Titles)
      BY DEF CardRow
    <2>2. \A o \in DOMAIN told' : told'[o] \in Seq(Titles)
      BY <1>1, <1>3, <1>5, <2>1 DEF BoardOk, TypeOK
    <2>3. \A n \in DOMAIN bin' : IsEntry(bin'[n], cards')
      BY <1>3 DEF BoardOk, TypeOK, IsEntry
    <2>4. columns' \in Seq(ColumnRow \union {None}) /\ users' \in Seq(Moment \union {None}) /\ Listed(bin')
      BY DEF BoardOk, TypeOK
    <2>5. template' \in [Props -> Nat \union {None}]
      BY <1>2, <1>3 DEF BoardOk, TypeOK
    <2>6. writes' \in Nat /\ now' \in Nat
      BY DEF BoardOk, TypeOK, Ticks
    <2> QED
      BY <1>2, <1>5, <2>2, <2>3, <2>4, <2>5, <2>6 DEF TypeOK
  <1>7. HomesKept
    BY <1>1, <1>2, <1>3 DEF HomesKept, HomeIs
  <1>8. BinOk'
    <2>1. ASSUME NEW n \in DOMAIN bin
          PROVE  /\ bin[n].card \in DOMAIN cards /\ bin[n].at <= now'
                 /\ HomeIs(bin[n].card, bin[n].row.prop, cards', bin')
                 /\ cards'[bin[n].card] = cards[bin[n].card] /\ told'[bin[n].card] = told[bin[n].card]
      <3>1. bin[n].card \in DOMAIN cards /\ bin[n].at <= now /\ bin[n].at \in Nat /\ writes \in Nat /\ now \in Nat
        BY DEF BoardOk, TypeOK, BinOk, IsEntry
      <3>3. HomeIs(bin[n].card, bin[n].row.prop, cards, bin)
        BY DEF BoardOk, BinOk
      <3>4. HomeIs(bin[n].card, bin[n].row.prop, cards', bin')
        BY <1>7, <3>1, <3>3 DEF HomesKept
      <3> QED
        BY <1>1, <1>2, <1>5, <3>1, <3>4 DEF Ticks
    <2> QED
      BY <2>1 DEF BoardOk, BinOk
  <1>9. Titled'
    <2>1. Len(told'[c]) = 1 /\ told'[c][1] = row.title
      BY <1>5
    <2>2. \A o \in Live(cards) : o \in DOMAIN told /\ cards'[o] = cards[o] /\ told'[o] = told[o]
      BY <1>1, <1>2, <1>5 DEF Live
    <2>3. \A o \in Live(cards') : o = c \/ o \in Live(cards)
      BY <1>4
    <2>4. row.version = 1 /\ cards'[c] = row
      BY <1>2
    <2>5. ASSUME NEW o \in Live(cards')
          PROVE  Len(told'[o]) = cards'[o].version /\ told'[o][cards'[o].version] = cards'[o].title
      <3>1. CASE o = c
        BY <2>1, <2>4, <3>1
      <3>2. CASE o \in Live(cards)
        BY <2>2, <3>2 DEF BoardOk, Titled
      <3> QED
        BY <2>3, <3>1, <3>2
    <2> QED
      BY <2>5 DEF Titled, Live
  <1>10. Named'
    BY <1>2, <1>4 DEF BoardOk, Named, Live
  <1>11. CardsAtHome'
    BY <1>2, <1>4 DEF BoardOk, CardsAtHome, ColumnsOf, Live
  <1>12. OneTemplate'
    <2>1. \A o \in Live(cards) : cards[o].template => template[cards[o].prop] = o /\ o # None
      BY <1>1, BoardAssumption DEF BoardOk, OneTemplate, Live
    <2>2. \A o \in Live(cards) : cards[o].prop \in Props
      BY <1>1 DEF CardRow, Live
    <2>3. row.prop \in Props
      BY DEF CardRow
    <2> QED
      BY <1>2, <1>4, <2>1, <2>2, <2>3 DEF OneTemplate, Live, BoardOk, TypeOK
  <1>13. KeysDistinct'
    BY <1>2, <1>4 DEF BoardOk, KeysDistinct, Live
  <1>14. TrashKept
    BY <1>2, SameUsers, MoreWrites, QuietTrash
  <1> QED
    BY <1>14, <1>6, <1>7, <1>8, <1>9, <1>10, <1>11, <1>12, <1>13 DEF BoardOk

(* A card is deleted.                                                      *)
LEMMA DeletingFits ==
  ASSUME BoardOk, NEW c \in Live(cards), DeleteCard(c)
  PROVE  BoardOk' /\ HomesKept /\ TrashKept /\ LogSteps
  <1> DEFINE b == Snapshot(c)
             m == Len(bin) + 1
  <1>1. /\ cards \in Seq(CardRow \union {None}) /\ cards[c] \in CardRow /\ None \notin CardRow
        /\ c \in DOMAIN cards /\ DOMAIN told = DOMAIN cards /\ Listed(bin) /\ writes \in Nat /\ now \in Nat
    BY BoardAssumption DEF BoardOk, TypeOK, Live
  <1>2. /\ cards' \in Seq(CardRow \union {None}) /\ DOMAIN cards' = DOMAIN cards /\ cards'[c] = None
        /\ \A o \in DOMAIN cards \ {c} : cards'[o] = cards[o]
    BY <1>1 DEF DeleteCard
  <1>3. Live(cards') = Live(cards) \ {c}
    BY <1>1, <1>2 DEF Live
  <1>4. /\ b.card = c /\ b.row = cards[c] /\ b.at = now /\ ~ b.restored
        /\ IsEntry(b, cards)
    BY <1>1 DEF Snapshot, IsEntry
  <1>5. /\ Listed(bin') /\ DOMAIN bin' = DOMAIN bin \union {m} /\ bin'[m] = b /\ m \notin DOMAIN bin
        /\ \A n \in DOMAIN bin : bin'[n] = bin[n]
    <2>1. bin' = Append(bin, b)
      BY DEF DeleteCard
    <2> HIDE DEF b
    <2>2. /\ Listed(bin') /\ DOMAIN bin' = DOMAIN bin \union {m} /\ bin'[m] = b /\ DOMAIN bin = 1 .. Len(bin)
          /\ Len(bin) \in Nat /\ \A n \in DOMAIN bin : bin'[n] = bin[n]
      BY <1>1, <2>1, ListedAppend
    <2> QED
      BY <2>2
  <1> HIDE DEF b, m
  <1>6. UNCHANGED <<columns, users, told, log>> /\ Ticks
    BY DEF DeleteCard, Command, Write, Ticks, Prompt
  <1>14. \A o : Gone(o, bin) \subseteq Gone(o, bin')
    BY <1>5, GoneGrows
  <1>7. TypeOK'
    <2>1. \A n \in DOMAIN bin' : IsEntry(bin'[n], cards')
      BY <1>2, <1>4, <1>5 DEF BoardOk, TypeOK, IsEntry
    <2>2. template' \in [Props -> Nat \union {None}]
      BY DEF DeleteCard, BoardOk, TypeOK
    <2> QED
      BY <1>1, <1>2, <1>5, <1>6, <2>1, <2>2 DEF BoardOk, TypeOK, Ticks
  <1>8. HomesKept
    <2> SUFFICES ASSUME NEW o \in DOMAIN cards, NEW h, HomeIs(o, h, cards, bin)
                 PROVE  HomeIs(o, h, cards', bin')
      BY <1>2 DEF HomesKept
    <2>1. CASE o = c
      BY <1>1, <1>2, <1>4, <1>5, <2>1 DEF HomeIs
    <2>2. CASE o # c
      BY <1>2, <1>4, <1>5, <2>2 DEF HomeIs
    <2> QED
      BY <2>1, <2>2
  <1>9. BinOk'
    <2>1. \A n \in DOMAIN bin : bin[n].card \in DOMAIN cards /\ bin[n].at \in Nat
      BY DEF BoardOk, TypeOK, IsEntry
    <2>2. \A n \in DOMAIN bin : ~ bin[n].restored => bin[n].card # c
      BY DEF BoardOk, BinOk, Live
    <2>3. \A n \in DOMAIN bin : HomeIs(bin[n].card, bin[n].row.prop, cards', bin')
      BY <1>8, <2>1 DEF BoardOk, BinOk, HomesKept
    <2>4. HomeIs(b.card, b.row.prop, cards', bin')
      <3>1. \A n \in DOMAIN bin : bin[n].card = c => bin[n].row.prop = cards[c].prop
        BY DEF BoardOk, BinOk, HomeIs, Live
      <3> QED
        BY <1>2, <1>4, <1>5, <3>1 DEF HomeIs
    <2>5. \A a \in b.row.who : Known(a, b.at, users', Gone(b.card, bin'))
      <3>1. \A a \in b.row.who : Current(a, users, Gone(c, bin))
        BY <1>4 DEF BoardOk, Named
      <3> QED
        BY <1>4, <1>6, <1>14, <3>1 DEF Known, Current
    <2>6. Len(told[b.card]) = b.row.version
      BY <1>4 DEF BoardOk, Titled
    <2>7. ASSUME NEW n \in DOMAIN bin
          PROVE  /\ bin[n].at <= now'
                 /\ ~ bin[n].restored =>
                      /\ cards'[bin[n].card] = None /\ Len(told'[bin[n].card]) = bin[n].row.version
                      /\ \A k \in DOMAIN bin' \ {n} : bin'[k].card = bin[n].card => bin'[k].restored
      BY <1>1, <1>2, <1>4, <1>5, <1>6, <2>1, <2>2 DEF BoardOk, BinOk, Ticks
    <2>8. \A k \in DOMAIN bin : bin[k].card = c => bin[k].restored
      BY <2>1, <2>2 DEF BoardOk, TypeOK, IsEntry
    <2>9. /\ b.at <= now' /\ cards'[b.card] = None
          /\ \A k \in DOMAIN bin' \ {m} : bin'[k].card = b.card => bin'[k].restored
      BY <1>1, <1>2, <1>4, <1>5, <1>6, <2>8 DEF Ticks
    <2>10. ASSUME NEW n \in DOMAIN bin' PROVE
             /\ HomeIs(bin'[n].card, bin'[n].row.prop, cards', bin')
             /\ bin'[n].at <= now'
             /\ \A a \in bin'[n].row.who : Known(a, bin'[n].at, users', Gone(bin'[n].card, bin'))
             /\ ~ bin'[n].restored =>
                  /\ cards'[bin'[n].card] = None
                  /\ Len(told'[bin'[n].card]) = bin'[n].row.version
                  /\ \A k \in DOMAIN bin' \ {n} : bin'[k].card = bin'[n].card => bin'[k].restored
      <3>1. CASE n = m
        BY <1>5, <1>6, <2>4, <2>5, <2>6, <2>9, <3>1
      <3>2. CASE n \in DOMAIN bin
        <4>1. bin'[n] = bin[n] /\ \A a \in bin[n].row.who : Known(a, bin[n].at, users', Gone(bin[n].card, bin'))
          BY <1>5, <1>6, <1>14, <3>2 DEF BoardOk, BinOk, Known
        <4> QED
          BY <2>3, <2>7, <3>2, <4>1
      <3> QED
        BY <1>5, <3>1, <3>2
    <2> QED
      BY <2>10 DEF BinOk
  <1>10. Titled' /\ KeysDistinct'
    BY <1>2, <1>3, <1>6 DEF BoardOk, Titled, KeysDistinct, Live
  <1>15. Named'
    BY <1>2, <1>3, <1>6, <1>14 DEF BoardOk, Named, Current, Live
  <1>11. CardsAtHome'
    BY <1>2, <1>3, <1>6 DEF BoardOk, CardsAtHome, ColumnsOf, Live
  <1>12. OneTemplate'
    <2>1. \A o \in Live(cards) : cards[o].prop \in Props
      BY <1>1 DEF CardRow, Live
    <2>2. template' = [p \in Props |-> IF template[p] = c THEN None ELSE template[p]]
      BY DEF DeleteCard
    <2> QED
      BY <1>2, <1>3, <2>1, <2>2 DEF BoardOk, OneTemplate, Live
  <1>13. TrashKept
    <2>1. \A k \in DOMAIN bin : ~ bin[k].restored => cards[bin[k].card] = None
      BY DEF BoardOk, BinOk
    <2>2. \A o \in DOMAIN cards : cards[o] = None => cards'[o] = None
      BY <1>2
    <2>3. ASSUME NEW o \in DOMAIN cards, NEW k \in DOMAIN bin', bin'[k].card = o, ~ bin'[k].restored
          PROVE  \/ cards[o] # None /\ bin'[k].at = now
                 \/ /\ cards[o] = None /\ k \in DOMAIN bin
                    /\ bin[k].card = o /\ ~ bin[k].restored /\ bin'[k].at = bin[k].at
      <3>1. CASE k = m
        BY <1>1, <1>4, <1>5, <2>3, <3>1
      <3>2. CASE k \in DOMAIN bin
        BY <1>5, <2>1, <2>3, <3>2
      <3> QED
        BY <1>5, <3>1, <3>2
    <2> QED
      BY <1>6, <1>14, <2>2, <2>3, SameUsers, MoreWrites DEF TrashKept
  <1> QED
    BY <1>13, <1>6, <1>7, <1>8, <1>9, <1>10, <1>11, <1>12, <1>15 DEF BoardOk, LogSteps


(* A deleted card comes back from the trash.                               *)
LEMMA RestoringFits ==
  ASSUME BoardOk, NEW m \in DOMAIN bin, Restorable(bin[m]), NEW row \in CardRow,
         row = [bin[m].row EXCEPT !.who = StillThere(@, bin[m].at), !.version = @ + 1],
         bin' = [bin EXCEPT ![m].restored = TRUE],
         cards' = [cards EXCEPT ![bin[m].card] = row], Told,
         template' = IF bin[m].row.template THEN [template EXCEPT ![bin[m].row.prop] = bin[m].card] ELSE template,
         UNCHANGED <<columns, users>>, Ticks
  PROVE  BoardOk' /\ HomesKept /\ TrashKept
  <1> DEFINE b == bin[m]
             c == bin[m].card
  <1>0. b \in [card : DOMAIN cards, row : CardRow, items : {b.items}, at : Nat, restored : BOOLEAN]
    BY DEF BoardOk, TypeOK, IsEntry
  <1>1. /\ cards \in Seq(CardRow \union {None}) /\ b.row \in CardRow /\ None \notin CardRow /\ cards[c] = None
        /\ c \in DOMAIN cards /\ DOMAIN told = DOMAIN cards /\ Listed(bin) /\ writes \in Nat /\ now \in Nat
        /\ c \in Nat \ {0} /\ c # None /\ ~ b.restored
    BY <1>0, BoardAssumption DEF BoardOk, TypeOK, BinOk, Restorable
  <1>2. /\ cards' \in Seq(CardRow \union {None}) /\ DOMAIN cards' = DOMAIN cards /\ cards'[c] = row
        /\ \A o \in DOMAIN cards \ {c} : cards'[o] = cards[o]
    BY <1>1
  <1>3. Live(cards') = Live(cards) \union {c} /\ c \notin Live(cards) /\ row # None
    BY <1>1, <1>2 DEF Live
  <1>4. /\ row.prop = b.row.prop /\ row.col = b.row.col /\ row.pos = b.row.pos /\ row.title = b.row.title
        /\ row.template = b.row.template /\ row.version = b.row.version + 1
        /\ row.who = StillThere(b.row.who, b.at)
    BY <1>1 DEF CardRow
  <1>5. /\ Listed(bin') /\ DOMAIN bin' = DOMAIN bin /\ bin'[m] = [b EXCEPT !.restored = TRUE]
        /\ \A n \in DOMAIN bin \ {m} : bin'[n] = bin[n]
    <2>1. DOMAIN bin' = DOMAIN bin /\ bin' = [n \in DOMAIN bin |-> bin'[n]]
      OBVIOUS
    <2>2. Listed(bin')
      BY <1>1, <2>1, ListedOver
    <2> QED
      BY <2>1, <2>2
  <1>6. /\ bin'[m].card = c /\ bin'[m].row = b.row /\ bin'[m].at = b.at /\ bin'[m].restored
        /\ bin'[m].items = b.items
        /\ bin'[m] \in [card : DOMAIN cards, row : CardRow, items : {b.items}, at : Nat, restored : BOOLEAN]
    BY <1>0, <1>5
  <1>7. \A n \in DOMAIN bin : bin'[n].card = bin[n].card /\ bin'[n].row = bin[n].row /\ bin'[n].at = bin[n].at
    BY <1>5, <1>6
  <1>8. /\ DOMAIN told' = DOMAIN told /\ \A o \in DOMAIN told \ {c} : told'[o] = told[o]
        /\ told'[c] \in Seq(Titles) /\ Len(told'[c]) = row.version /\ told'[c][row.version] = row.title
    <2>1. ASSUME NEW o \in DOMAIN told \ {c} PROVE told'[o] = told[o]
      <3>1. CASE cards[o] = None
        BY <1>1, <1>2, <2>1, <3>1 DEF Told
      <3>2. CASE cards[o] # None
        <4>1. cards[o] \in CardRow /\ Len(told[o]) = cards[o].version
          BY <1>1, <3>2 DEF BoardOk, Titled, Live
        <4>2. ~ (cards[o].version > Len(told[o]))
          BY <4>1 DEF CardRow
        <4> QED
          BY <1>1, <1>2, <2>1, <4>2 DEF Told
      <3> QED
        BY <3>1, <3>2
    <2>2. told[c] \in Seq(Titles) /\ Len(told[c]) = b.row.version /\ row.title \in Titles /\ b.row.version \in Nat
      BY <1>1 DEF BoardOk, TypeOK, BinOk, CardRow
    <2>3. told'[c] = IF row.version > Len(told[c]) THEN Append(told[c], row.title) ELSE told[c]
      BY <1>1, <1>2, <1>3 DEF Told
    <2>4. told'[c] = Append(told[c], row.title)
      BY <1>4, <2>2, <2>3
    <2>5. told'[c] \in Seq(Titles) /\ Len(told'[c]) = row.version /\ told'[c][row.version] = row.title
      BY <1>4, <2>2, <2>4
    <2> QED
      BY <1>1, <1>2, <2>1, <2>5 DEF Told
  <1>18. /\ \A o : Gone(o, bin) \subseteq Gone(o, bin')
         /\ b.at \in Gone(c, bin)
    BY <1>5, <1>7, GoneGrows DEF Gone
  <1> HIDE DEF b, c
  <1>9. TypeOK'
    <2>1. \A n \in DOMAIN bin' : IsEntry(bin'[n], cards')
      BY <1>2, <1>5, <1>6 DEF BoardOk, TypeOK, IsEntry
    <2>2. template' \in [Props -> Nat \union {None}]
      BY <1>1 DEF BoardOk, TypeOK, b, c
    <2>3. \A o \in DOMAIN told' : told'[o] \in Seq(Titles)
      BY <1>8 DEF BoardOk, TypeOK
    <2>4. columns' \in Seq(ColumnRow \union {None}) /\ users' \in Seq(Moment \union {None}) /\ writes' \in Nat /\ now' \in Nat
      BY DEF BoardOk, TypeOK, Ticks
    <2> QED
      BY <1>1, <1>2, <1>5, <1>8, <2>1, <2>2, <2>3, <2>4 DEF TypeOK
  <1>10. HomesKept
    <2> SUFFICES ASSUME NEW o \in DOMAIN cards, NEW h, HomeIs(o, h, cards, bin)
                 PROVE  HomeIs(o, h, cards', bin')
      BY <1>2 DEF HomesKept
    <2>1. \A n \in DOMAIN bin' : bin'[n].card = o => bin'[n].row.prop = h
      BY <1>5, <1>7 DEF HomeIs
    <2>2. CASE o = c
      <3>1. b.row.prop = h
        BY <2>2 DEF HomeIs, b, c
      <3> QED
        BY <1>2, <1>4, <2>1, <2>2, <3>1 DEF HomeIs
    <2>3. CASE o # c
      BY <1>2, <2>1, <2>3 DEF HomeIs
    <2> QED
      BY <2>2, <2>3
  <1>11. BinOk'
    <2> SUFFICES ASSUME NEW n \in DOMAIN bin
                 PROVE  /\ HomeIs(bin'[n].card, bin'[n].row.prop, cards', bin')
                        /\ bin'[n].at <= now'
                        /\ \A a \in bin'[n].row.who : Known(a, bin'[n].at, users', Gone(bin'[n].card, bin'))
                        /\ ~ bin'[n].restored =>
                             /\ cards'[bin'[n].card] = None
                             /\ Len(told'[bin'[n].card]) = bin'[n].row.version
                             /\ \A k \in DOMAIN bin' \ {n} : bin'[k].card = bin'[n].card => bin'[k].restored
      BY <1>5 DEF BinOk
    <2>1. bin[n].card \in DOMAIN cards /\ bin[n].at \in Nat /\ bin[n].at <= now
      BY DEF BoardOk, TypeOK, IsEntry, BinOk
    <2>2. HomeIs(bin'[n].card, bin'[n].row.prop, cards', bin')
      BY <1>7, <1>10, <2>1 DEF BoardOk, BinOk, HomesKept
    <2>3. bin'[n].at <= now' /\ \A a \in bin'[n].row.who : Known(a, bin'[n].at, users', Gone(bin'[n].card, bin'))
      <3>1. \A a \in bin[n].row.who : Known(a, bin[n].at, users, Gone(bin[n].card, bin))
        BY DEF BoardOk, BinOk
      <3>2. \A a \in bin[n].row.who : Known(a, bin[n].at, users', Gone(bin[n].card, bin'))
        <4> DEFINE at == bin[n].at
                   was == Gone(bin[n].card, bin)
                   is == Gone(bin[n].card, bin')
        <4>1. now \in Nat /\ UsersKept /\ was \subseteq is /\ at \in Nat /\ at <= now
          BY <1>1, <1>18, <2>1, SameUsers
        <4>2. \A a \in bin[n].row.who : Known(a, at, users, was)
          BY <3>1
        <4> HIDE DEF at, was, is
        <4>3. \A a \in bin[n].row.who : Known(a, at, users', is)
          BY <4>1, <4>2, KnownKept
        <4> QED
          BY <4>3 DEF at, is
      <3>3. bin[n].at <= now'
        BY <1>1, <2>1 DEF Ticks
      <3> QED
        BY <1>7, <3>2, <3>3
    <2>4. ASSUME ~ bin'[n].restored
          PROVE  /\ cards'[bin'[n].card] = None
                 /\ Len(told'[bin'[n].card]) = bin'[n].row.version
                 /\ \A k \in DOMAIN bin' \ {n} : bin'[k].card = bin'[n].card => bin'[k].restored
      <3>1. n # m /\ ~ bin[n].restored /\ bin'[n] = bin[n]
        BY <1>5, <1>6, <2>4
      <3>2. bin[n].card # c
        BY <1>1, <3>1 DEF BoardOk, BinOk, b, c
      <3>3. \A k \in DOMAIN bin' \ {n} : bin'[k].card = bin[n].card => bin'[k].restored
        BY <1>5, <1>6, <3>1, <3>2 DEF BoardOk, BinOk
      <3> QED
        BY <1>1, <1>2, <1>8, <2>1, <3>1, <3>2, <3>3 DEF BoardOk, BinOk
    <2> QED
      BY <2>2, <2>3, <2>4
  <1>12. Titled'
    BY <1>1, <1>2, <1>3, <1>8 DEF BoardOk, Titled, Live
  <1>13. Named'
    <2>1. \A a \in row.who : Current(a, users, Gone(c, bin))
      <3> SUFFICES ASSUME NEW a \in row.who PROVE Current(a, users, Gone(c, bin))
        OBVIOUS
      <3>1. a \in b.row.who /\ users[a.id] # None /\ users[a.id].second <= b.at
        BY <1>4 DEF StillThere
      <3>2. Known(a, b.at, users, Gone(c, bin))
        BY <3>1 DEF BoardOk, BinOk, b, c
      <3>3. a.id \in DOMAIN users /\ users[a.id].second \in Nat /\ b.at \in Nat
        BY <1>0, <3>1, <3>2 DEF BoardOk, TypeOK, Known, Moment
      <3> QED
        BY <1>18, <3>1, <3>2, <3>3 DEF Known, Current
    <2>2. \A o \in Live(cards) : \A a \in cards[o].who : Current(a, users, Gone(o, bin))
      BY DEF BoardOk, Named
    <2> QED
      BY <1>2, <1>3, <1>18, <2>1, <2>2 DEF Named, Current, Live
  <1>14. CardsAtHome'
    <2>1. row.col \in Live(columns) /\ columns[row.col].prop = row.prop
      BY <1>4 DEF Restorable, ColumnsOf, b
    <2> QED
      BY <1>2, <1>3, <2>1 DEF BoardOk, CardsAtHome, ColumnsOf, Live
  <1>15. KeysDistinct'
    <2>1. \A o \in Live(cards) : cards[o].col = row.col => cards[o].pos # row.pos
      BY <1>4 DEF Restorable, Keys, CardsIn, b
    <2> QED
      BY <1>2, <1>3, <2>1 DEF BoardOk, KeysDistinct, Live
  <1>16. OneTemplate'
    <2>1. \A o \in Live(cards) : cards[o].template => template[cards[o].prop] = o /\ o # None
      BY <1>1, BoardAssumption DEF BoardOk, OneTemplate, Live
    <2>2. \A o \in Live(cards) : cards[o].prop \in Props
      BY <1>1 DEF CardRow, Live
    <2>3. row.prop \in Props
      BY DEF CardRow
    <2>4. row.template => template[row.prop] = None /\ template' = [template EXCEPT ![row.prop] = c]
      BY <1>4 DEF Restorable, b, c
    <2>5. ~ row.template => template' = template
      BY <1>4 DEF b
    <2> QED
      BY <1>2, <1>3, <2>1, <2>2, <2>3, <2>4, <2>5 DEF OneTemplate, Live, BoardOk, TypeOK
  <1>17. TrashKept
    <2>1. bin'[m] # bin[m] /\ ~ bin[m].restored /\ bin[m].card = c
      BY <1>1, <1>6 DEF c, b
    <2>2. ASSUME NEW o \in DOMAIN cards, cards[o] = None, cards'[o] # None
          PROVE  /\ users' = users
                 /\ \E n \in DOMAIN bin :
                      /\ bin[n].card = o /\ ~ bin[n].restored /\ bin'[n] # bin[n]
                      /\ \A k \in DOMAIN bin \ {n} : bin'[k] = bin[k]
      <3>1. o = c
        BY <1>2, <2>2
      <3> QED
        BY <1>5, <2>1, <3>1
    <2>3. ASSUME NEW o \in DOMAIN cards, NEW k \in DOMAIN bin', bin'[k].card = o, ~ bin'[k].restored
          PROVE  cards[o] = None /\ k \in DOMAIN bin /\ bin[k].card = o /\ ~ bin[k].restored /\ bin'[k].at = bin[k].at
      <3>1. k \in DOMAIN bin \ {m} /\ bin'[k] = bin[k]
        BY <1>5, <1>6, <2>3
      <3> QED
        BY <2>3, <3>1 DEF BoardOk, BinOk
    <2> QED
      <3>1. UsersKept /\ now' >= now
        BY SameUsers, MoreWrites
      <3>3. \A o \in DOMAIN cards :
              /\ cards[o] = None /\ cards'[o] # None =>
                   /\ users' = users
                   /\ \E n \in DOMAIN bin :
                        /\ bin[n].card = o /\ ~ bin[n].restored /\ bin'[n] # bin[n]
                        /\ \A k \in DOMAIN bin \ {n} : bin'[k] = bin[k]
              /\ \A k \in DOMAIN bin' : bin'[k].card = o /\ ~ bin'[k].restored /\ cards'[o] = None =>
                   \/ cards[o] # None /\ bin'[k].at = now
                   \/ /\ cards[o] = None /\ k \in DOMAIN bin
                      /\ bin[k].card = o /\ ~ bin[k].restored /\ bin'[k].at = bin[k].at
        BY <2>2, <2>3
      <3> QED
        BY <1>18, <3>1, <3>3, Zenon DEF TrashKept
  <1> QED
    BY <1>17, <1>9, <1>10, <1>11, <1>12, <1>13, <1>14, <1>15, <1>16 DEF BoardOk

(* A proposition is deleted with all that is on its board and in its trash.*)
LEMMA ClearingFits ==
  ASSUME BoardOk, NEW p \in Props, DeleteProposition(p)
  PROVE  BoardOk' /\ HomesKept /\ TrashKept
  <1>1. /\ columns \in Seq(ColumnRow \union {None}) /\ cards \in Seq(CardRow \union {None})
        /\ None \notin CardRow /\ None \notin ColumnRow /\ DOMAIN told = DOMAIN cards /\ Listed(bin) /\ writes \in Nat /\ now \in Nat
    BY BoardAssumption DEF BoardOk, TypeOK
  <1>2. /\ cards' \in Seq(CardRow \union {None}) /\ DOMAIN cards' = DOMAIN cards
        /\ \A c \in DOMAIN cards : cards'[c] = IF cards[c] # None /\ cards[c].prop # p THEN cards[c] ELSE None
    <2>1. cards' = [c \in DOMAIN cards |-> IF c \in Live(cards) \ CardsOf(p) THEN cards[c] ELSE None]
      BY DEF DeleteProposition, Kept
    <2>2. DOMAIN cards = 1 .. Len(cards) /\ Len(cards) \in Nat
      BY <1>1
    <2>3. \A c \in DOMAIN cards : cards'[c] = IF cards[c] # None /\ cards[c].prop # p THEN cards[c] ELSE None
      BY <2>1 DEF Live, CardsOf
    <2>4. \A c \in 1 .. Len(cards) : cards'[c] \in CardRow \union {None}
      BY <1>1, <2>2, <2>3
    <2>5. DOMAIN cards' = 1 .. Len(cards) /\ cards' = [c \in 1 .. Len(cards) |-> cards'[c]]
      BY <2>1, <2>2
    <2>6. cards' \in Seq(CardRow \union {None})
      BY <2>2, <2>4, <2>5
    <2> QED
      BY <2>2, <2>3, <2>5, <2>6
  <1>3. /\ columns' \in Seq(ColumnRow \union {None}) /\ DOMAIN columns' = DOMAIN columns
        /\ \A c \in DOMAIN columns :
             columns'[c] = IF columns[c] # None /\ columns[c].prop # p THEN columns[c] ELSE None
    <2>1. columns' = [c \in DOMAIN columns |-> IF c \in Live(columns) \ ColumnsOf(p) THEN columns[c] ELSE None]
      BY DEF DeleteProposition, Kept
    <2>2. DOMAIN columns = 1 .. Len(columns) /\ Len(columns) \in Nat
      BY <1>1
    <2>3. \A c \in DOMAIN columns :
            columns'[c] = IF columns[c] # None /\ columns[c].prop # p THEN columns[c] ELSE None
      BY <2>1 DEF Live, ColumnsOf
    <2>4. \A c \in 1 .. Len(columns) : columns'[c] \in ColumnRow \union {None}
      BY <1>1, <2>2, <2>3
    <2>5. DOMAIN columns' = 1 .. Len(columns) /\ columns' = [c \in 1 .. Len(columns) |-> columns'[c]]
      BY <2>1, <2>2
    <2>6. columns' \in Seq(ColumnRow \union {None})
      BY <2>2, <2>4, <2>5
    <2> QED
      BY <2>2, <2>3, <2>5, <2>6
  <1>4. /\ bin' = [n \in DOMAIN bin |-> IF bin[n].row.prop = p THEN [bin[n] EXCEPT !.restored = TRUE] ELSE bin[n]]
        /\ template' = [template EXCEPT ![p] = None]
        /\ UNCHANGED <<users, told>> /\ Ticks
    BY DEF DeleteProposition, Off, Write, Ticks
  <1>5. Listed(bin') /\ DOMAIN bin' = DOMAIN bin
    <2>1. bin' = [n \in DOMAIN bin |-> bin'[n]]
      BY <1>4
    <2> QED
      BY <1>1, <2>1, ListedOver
  <1>6. ASSUME NEW n \in DOMAIN bin
        PROVE  /\ bin'[n].card = bin[n].card /\ bin'[n].row = bin[n].row /\ bin'[n].at = bin[n].at
               /\ bin'[n].restored = (bin[n].restored \/ bin[n].row.prop = p)
               /\ bin[n].card \in DOMAIN cards /\ bin[n].row \in CardRow /\ bin[n].at \in Nat
               /\ IsEntry(bin'[n], cards')
    <2>1. bin[n] \in [card : DOMAIN cards, row : CardRow, items : {bin[n].items}, at : Nat, restored : BOOLEAN]
      BY DEF BoardOk, TypeOK, IsEntry
    <2>2. CASE bin[n].row.prop = p
      <3>1. bin'[n] = [bin[n] EXCEPT !.restored = TRUE]
        BY <1>4, <2>2
      <3>2. /\ bin'[n].card = bin[n].card /\ bin'[n].row = bin[n].row /\ bin'[n].at = bin[n].at
            /\ bin'[n].restored = TRUE /\ bin'[n].items = bin[n].items
            /\ bin'[n] \in [card : DOMAIN cards, row : CardRow, items : {bin[n].items}, at : Nat, restored : BOOLEAN]
        BY <2>1, <3>1
      <3> QED
        BY <1>2, <2>1, <2>2, <3>2 DEF IsEntry
    <2>3. CASE bin[n].row.prop # p
      BY <1>2, <1>4, <2>1, <2>3 DEF IsEntry
    <2> QED
      BY <2>2, <2>3
  <1>15. \A c : Gone(c, bin) \subseteq Gone(c, bin')
    BY <1>5, <1>6, GoneGrows
  <1>7. TypeOK'
    <2>1. template' \in [Props -> Nat \union {None}]
      BY <1>4 DEF BoardOk, TypeOK
    <2>2. users' \in Seq(Moment \union {None}) /\ writes' \in Nat /\ now' \in Nat /\ \A c \in DOMAIN told' : told'[c] \in Seq(Titles)
      BY <1>4 DEF BoardOk, TypeOK, Ticks
    <2> QED
      BY <1>1, <1>2, <1>3, <1>4, <1>5, <1>6, <2>1, <2>2 DEF TypeOK
  <1>8. HomesKept
    BY <1>2, <1>5, <1>6 DEF HomesKept, HomeIs
  <1>9. BinOk'
    <2> SUFFICES ASSUME NEW n \in DOMAIN bin
                 PROVE  /\ HomeIs(bin'[n].card, bin'[n].row.prop, cards', bin')
                        /\ bin'[n].at <= now'
                        /\ \A a \in bin'[n].row.who : Known(a, bin'[n].at, users', Gone(bin'[n].card, bin'))
                        /\ ~ bin'[n].restored =>
                             /\ cards'[bin'[n].card] = None
                             /\ Len(told'[bin'[n].card]) = bin'[n].row.version
                             /\ \A k \in DOMAIN bin' \ {n} : bin'[k].card = bin'[n].card => bin'[k].restored
      BY <1>5 DEF BinOk
    <2>1. HomeIs(bin'[n].card, bin'[n].row.prop, cards', bin')
      BY <1>6, <1>8 DEF BoardOk, BinOk, HomesKept
    <2>2. bin'[n].at <= now' /\ \A a \in bin'[n].row.who : Known(a, bin'[n].at, users', Gone(bin'[n].card, bin'))
      <3>1. bin[n].at <= now /\ \A a \in bin[n].row.who : Known(a, bin[n].at, users, Gone(bin[n].card, bin))
        BY DEF BoardOk, BinOk
      <3>2. bin'[n].at = bin[n].at /\ bin'[n].row = bin[n].row /\ bin[n].at \in Nat /\ users' = users
             /\ bin'[n].card = bin[n].card
        BY <1>4, <1>6
      <3>3. \A a \in bin[n].row.who : Known(a, bin[n].at, users', Gone(bin[n].card, bin'))
        BY <1>1, <1>15, <3>1, <3>2, SameUsers, KnownKept
      <3>4. bin[n].at <= now'
        BY <1>1, <1>4, <3>1, <3>2 DEF Ticks
      <3> QED
        BY <3>2, <3>3, <3>4
    <2>3. ASSUME ~ bin'[n].restored
          PROVE  /\ cards'[bin'[n].card] = None
                 /\ Len(told'[bin'[n].card]) = bin'[n].row.version
                 /\ \A k \in DOMAIN bin' \ {n} : bin'[k].card = bin'[n].card => bin'[k].restored
      <3>1. ~ bin[n].restored
        BY <1>6, <2>3
      <3>2. \A k \in DOMAIN bin' \ {n} : bin'[k].card = bin'[n].card => bin'[k].restored
        BY <1>5, <1>6, <3>1 DEF BoardOk, BinOk
      <3>3. cards[bin[n].card] = None /\ Len(told[bin[n].card]) = bin[n].row.version
        BY <3>1 DEF BoardOk, BinOk
      <3>4. bin'[n].card = bin[n].card /\ bin'[n].row = bin[n].row /\ bin[n].card \in DOMAIN cards /\ told' = told
        BY <1>4, <1>6
      <3>5. cards'[bin[n].card] = None
        BY <1>2, <3>3, <3>4
      <3> QED
        BY <3>2, <3>3, <3>4, <3>5
    <2> QED
      BY <2>1, <2>2, <2>3
  <1>10. \A c \in Live(cards') : c \in Live(cards) /\ cards'[c] = cards[c] /\ cards[c].prop # p
    BY <1>2 DEF Live
  <1>11. Titled' /\ Named' /\ KeysDistinct'
    <2>1. Titled' /\ KeysDistinct'
      BY <1>4, <1>10 DEF BoardOk, Titled, KeysDistinct, Live
    <2>2. Named'
      BY <1>4, <1>10, <1>15 DEF BoardOk, Named, Current, Live
    <2> QED
      BY <2>1, <2>2
  <1>12. CardsAtHome'
    BY <1>1, <1>3, <1>10 DEF BoardOk, CardsAtHome, ColumnsOf, Live
  <1>13. OneTemplate'
    <2>1. \A c \in Live(cards) : cards[c].prop \in Props
      BY <1>1 DEF CardRow, Live
    <2> QED
      BY <1>4, <1>10, <2>1 DEF BoardOk, TypeOK, OneTemplate, Live
  <1>14. TrashKept
    <2>1. \A c \in DOMAIN cards : cards[c] = None => cards'[c] = None
      BY <1>2
    <2>2. ASSUME NEW c \in DOMAIN cards, NEW k \in DOMAIN bin', bin'[k].card = c, ~ bin'[k].restored
          PROVE  cards[c] = None /\ k \in DOMAIN bin /\ bin[k].card = c /\ ~ bin[k].restored /\ bin'[k].at = bin[k].at
      <3>1. k \in DOMAIN bin /\ ~ bin[k].restored /\ bin[k].card = c
        BY <1>5, <1>6, <2>2
      <3> QED
        BY <1>6, <3>1 DEF BoardOk, BinOk
    <2> QED
      BY <1>4, <1>15, <2>1, <2>2, SameUsers, MoreWrites DEF TrashKept
  <1> QED
    BY <1>14, <1>7, <1>8, <1>9, <1>11, <1>12, <1>13 DEF BoardOk

(* An account goes from the cards it was assigned to, or a new one comes.  *)
LEMMA AccountsFit ==
  ASSUME BoardOk, UsersKept, users' \in Seq(Moment \union {None}),
         UNCHANGED <<columns, bin, template, told>>, Ticks,
         cards' \in Seq(CardRow \union {None}), DOMAIN cards' = DOMAIN cards,
         Live(cards') = Live(cards), \A c \in DOMAIN cards : cards[c] = None => cards'[c] = None,
         \A c \in Live(cards) :
           /\ cards'[c] = [cards[c] EXCEPT !.who = cards'[c].who]
           /\ \A a \in cards'[c].who : a \in cards[c].who /\ (users'[a.id] = users[a.id])
  PROVE  BoardOk' /\ HomesKept /\ TrashKept
  <1>1. /\ cards \in Seq(CardRow \union {None}) /\ None \notin CardRow /\ writes \in Nat /\ now \in Nat
        /\ \A c \in Live(cards) : cards[c] \in CardRow /\ c \in DOMAIN cards
    BY BoardAssumption DEF BoardOk, TypeOK, Live
  <1>2. \A c \in Live(cards) :
          /\ cards'[c].prop = cards[c].prop /\ cards'[c].col = cards[c].col /\ cards'[c].pos = cards[c].pos
          /\ cards'[c].title = cards[c].title /\ cards'[c].version = cards[c].version
          /\ cards'[c].template = cards[c].template
    <2> SUFFICES ASSUME NEW c \in Live(cards)
                 PROVE  /\ cards'[c].prop = cards[c].prop /\ cards'[c].col = cards[c].col /\ cards'[c].pos = cards[c].pos
                        /\ cards'[c].title = cards[c].title /\ cards'[c].version = cards[c].version
                        /\ cards'[c].template = cards[c].template
      OBVIOUS
    <2> DEFINE w == cards'[c].who
    <2>1. cards'[c] = [cards[c] EXCEPT !.who = w]
      OBVIOUS
    <2> HIDE DEF w
    <2> QED
      BY <1>1, <2>1 DEF CardRow
  <1>3. TypeOK'
    BY <1>1 DEF BoardOk, TypeOK, IsEntry, Ticks
  <1>4. HomesKept
    BY <1>1, <1>2 DEF HomesKept, HomeIs, Live
  <1>5. BinOk'
    <2> SUFFICES ASSUME NEW n \in DOMAIN bin
                 PROVE  /\ HomeIs(bin[n].card, bin[n].row.prop, cards', bin')
                        /\ bin[n].at <= now'
                        /\ \A a \in bin[n].row.who : Known(a, bin[n].at, users', Gone(bin[n].card, bin'))
                        /\ ~ bin[n].restored => cards'[bin[n].card] = None
      BY DEF BoardOk, BinOk
    <2>1. bin[n].card \in DOMAIN cards /\ bin[n].at \in Nat /\ bin[n].at <= now
      BY DEF BoardOk, TypeOK, IsEntry, BinOk
    <2>2. HomeIs(bin[n].card, bin[n].row.prop, cards', bin')
      BY <1>4, <2>1 DEF BoardOk, BinOk, HomesKept
    <2>3. \A a \in bin[n].row.who : Known(a, bin[n].at, users', Gone(bin[n].card, bin'))
      BY <1>1, <2>1, KnownKept DEF BoardOk, BinOk
    <2> QED
      BY <1>1, <2>1, <2>2, <2>3 DEF BoardOk, BinOk, Ticks
  <1>6. Titled' /\ KeysDistinct' /\ OneTemplate'
    <2>1. Live(cards)' = Live(cards)
      BY DEF Live
    <2> QED
      BY <1>2, <2>1 DEF BoardOk, Titled, KeysDistinct, OneTemplate
  <1>7. CardsAtHome'
    BY <1>2 DEF BoardOk, CardsAtHome, ColumnsOf, Live
  <1>8. Named'
    <2>1. Live(cards)' = Live(cards)
      BY DEF Live
    <2>2. ASSUME NEW c \in Live(cards), NEW a \in cards'[c].who PROVE Current(a, users', Gone(c, bin'))
      <3>1. Current(a, users, Gone(c, bin)) /\ users'[a.id] = users[a.id]
        BY DEF BoardOk, Named
      <3> QED
        BY <3>1 DEF Current, UsersKept
    <2> QED
      BY <2>1, <2>2 DEF Named
  <1>9. TrashKept
    <2>1. \A c \in DOMAIN cards : cards'[c] = None <=> cards[c] = None
      BY DEF Live
    <2> QED
      BY <2>1, MoreWrites, QuietTrash
  <1> QED
    BY <1>9, <1>3, <1>4, <1>5, <1>6, <1>7, <1>8 DEF BoardOk

(* Every row of the board is found where its id is looked up.              *)
LEMMA RowsFound ==
  ASSUME BoardOk
  PROVE  /\ \A c \in Live(columns) : c \in DOMAIN columns /\ columns[c] \in ColumnRow /\ c \in Nat \ {0}
         /\ \A c \in Live(cards) : c \in DOMAIN cards /\ cards[c] \in CardRow /\ c \in Nat \ {0}
         /\ \A u \in Live(users) : u \in DOMAIN users /\ users[u] \in Moment /\ u \in Nat \ {0}
         /\ IsFiniteSet(Live(columns)) /\ IsFiniteSet(Live(cards))
  <1>1. /\ columns \in Seq(ColumnRow \union {None}) /\ cards \in Seq(CardRow \union {None})
        /\ users \in Seq(Moment \union {None})
    BY DEF BoardOk, TypeOK
  <1>2. IsFiniteSet(Live(columns))
    <2>1. Live(columns) \subseteq 1 .. Len(columns) /\ IsFiniteSet(1 .. Len(columns))
      BY <1>1, FS_Interval DEF Live
    <2> QED
      BY <2>1, FS_Subset
  <1>3. IsFiniteSet(Live(cards))
    <2>1. Live(cards) \subseteq 1 .. Len(cards) /\ IsFiniteSet(1 .. Len(cards))
      BY <1>1, FS_Interval DEF Live
    <2> QED
      BY <2>1, FS_Subset
  <1> QED
    BY <1>1, <1>2, <1>3 DEF Live

LEMMA ColumnKeys ==
  ASSUME BoardOk, NEW p, NEW after \in ColumnsOf(p) \union {0}, NEW except
  PROVE  last(columns, ColumnsOf(p)) \in Key /\ place(columns, ColumnsOf(p), after, except) \in Key
  <1>1. IsFiniteSet(ColumnsOf(p)) /\ \A id \in ColumnsOf(p) : columns[id].pos \in Key
    BY RowsFound, FS_Subset DEF ColumnsOf, ColumnRow
  <1> QED
    BY <1>1, LastFits, PlaceFits

LEMMA CardKeys ==
  ASSUME BoardOk, NEW col, NEW after \in CardsIn(col) \union {0}, NEW except
  PROVE  LET end == last(cards, CardsIn(col))
             there == place(cards, CardsIn(col), after, except)
         IN  /\ end \in Key /\ \A o \in Live(cards) : cards[o].col = col => cards[o].pos # end
             /\ there \in Key
             /\ \A o \in Live(cards) \ {except} : cards[o].col = col => cards[o].pos # there
  <1>1. IsFiniteSet(CardsIn(col)) /\ \A id \in CardsIn(col) : cards[id].pos \in Key
    BY RowsFound, FS_Subset DEF CardsIn, CardRow
  <1>2. \A o \in Live(cards) : cards[o].col = col => o \in CardsIn(col)
    BY DEF CardsIn
  <1> QED
    BY <1>1, <1>2, LastFits, PlaceFits

LEMMA HomeOfCard ==
  ASSUME BoardOk, NEW c \in Live(cards)
  PROVE  HomeIs(c, cards[c].prop, cards, bin)
  BY DEF BoardOk, BinOk, HomeIs, Live

LEMMA HomesOfColumns ==
  ASSUME BoardOk
  PROVE  \A c \in Live(cards) : cards[c].col \in Live(columns) /\ columns[cards[c].col].prop = cards[c].prop
  BY DEF BoardOk, CardsAtHome, ColumnsOf

(* A column is changed, but for its proposition.                           *)
LEMMA ColumnFits ==
  ASSUME BoardOk, NEW id \in Live(columns), NEW row \in ColumnRow, row.prop = columns[id].prop,
         columns' = [columns EXCEPT ![id] = row], UNCHANGED <<cards, users, bin, template>>,
         DOMAIN told' = DOMAIN told, \A c \in DOMAIN told : told'[c] = told[c], Ticks
  PROVE  BoardOk' /\ HomesKept /\ TrashKept
  <1>1. columns \in Seq(ColumnRow \union {None}) /\ None \notin ColumnRow /\ id \in DOMAIN columns /\ writes \in Nat /\ now \in Nat
    BY BoardAssumption DEF BoardOk, TypeOK, Live
  <1>2. /\ columns' \in Seq(ColumnRow \union {None}) /\ DOMAIN columns' = DOMAIN columns /\ columns'[id] = row
        /\ \A c \in DOMAIN columns \ {id} : columns'[c] = columns[c]
    BY <1>1
  <1>3. \A c \in Live(columns) : c \in Live(columns') /\ columns'[c].prop = columns[c].prop
    BY <1>1, <1>2 DEF Live
  <1>4. \A c \in Live(cards) : cards[c].col \in Live(columns') /\ columns'[cards[c].col].prop = cards[c].prop
    BY <1>3, HomesOfColumns
  <1>5. writes' \in Nat /\ now' \in Nat /\ now' >= now /\ columns' \in Seq(ColumnRow \union {None})
    BY <1>1, <1>2 DEF Ticks
  <1> QED
    BY <1>4, <1>5, StillCards

LEMMA AskedIs ==
  /\ \A t \in Asked("column") : t.entity = "column" /\ t.id \in Live(columns)
  /\ \A t \in Asked("item") : t.entity = "item" /\ t.id \in Live(items)
  BY DEF Asked

(* What is recorded of a step is a change of a row there is.               *)
LEMMA Recording ==
  ASSUME NEW p, NEW entity, NEW id, NEW before, NEW after,
         log' = Append(log, [prop |-> p, entity |-> entity, id |-> id, before |-> before, after |-> after,
                             undone |-> FALSE]),
         entity = "column" => before \in ColumnRow,
         entity = "card" => before \in CardRow /\ id \in DOMAIN cards' /\ HomeIs(id, p, cards', bin')
  PROVE  LogSteps
  <1> DEFINE x == [prop |-> p, entity |-> entity, id |-> id, before |-> before, after |-> after, undone |-> FALSE]
  <1>1. IsChange(x, cards', bin')
    BY DEF IsChange
  <1> QED
    BY <1>1 DEF LogSteps

LEMMA ColumnActions ==
  ASSUME BoardOk, NEW t \in Asked("column"),
         \/ DeleteColumn(t)
         \/ \E name \in Titles : RenameColumn(t, name)
         \/ \E after \in Live(columns) \union {0} : MoveColumn(t, after)
  PROVE  BoardOk' /\ HomesKept /\ TrashKept /\ LogSteps
  <1>1. t.id \in Live(columns) /\ columns[t.id] \in ColumnRow
    BY AskedIs, RowsFound
  <1>2. ASSUME NEW row \in ColumnRow, row.prop = columns[t.id].prop, Command(t.prop), ChangesColumn(t, row)
        PROVE  BoardOk' /\ HomesKept /\ TrashKept /\ LogSteps
    <2>1. /\ columns' = [columns EXCEPT ![t.id] = row] /\ UNCHANGED <<cards, users, bin, template, told>>
          /\ Ticks
      BY <1>2 DEF ChangesColumn, Command, Write, Ticks, Sideways
    <2>2. LogSteps
      BY <1>1, <1>2, Recording DEF ChangesColumn, Recorded
    <2> QED
      BY <1>1, <1>2, <2>1, <2>2, ColumnFits
  <1>3. ASSUME NEW name \in Titles, RenameColumn(t, name) PROVE BoardOk' /\ HomesKept /\ TrashKept /\ LogSteps
    <2> DEFINE row == [columns[t.id] EXCEPT !.name = name]
    <2>1. row \in ColumnRow /\ row.prop = columns[t.id].prop
      BY <1>1 DEF ColumnRow
    <2>2. Command(t.prop) /\ ChangesColumn(t, row)
      BY <1>3 DEF RenameColumn
    <2> HIDE DEF row
    <2> QED
      BY <1>2, <2>1, <2>2
  <1>4. ASSUME NEW after \in Live(columns) \union {0}, MoveColumn(t, after) PROVE BoardOk' /\ HomesKept /\ TrashKept /\ LogSteps
    <2> DEFINE key == place(columns, ColumnsOf(columns[t.id].prop), after, t.id)
               row == [columns[t.id] EXCEPT !.pos = key]
    <2>1. Command(t.prop) /\ ChangesColumn(t, row) /\ after \in ColumnsOf(columns[t.id].prop) \union {0}
      BY <1>4 DEF MoveColumn
    <2>2. key \in Key
      BY <2>1, ColumnKeys
    <2> HIDE DEF key
    <2>3. row \in ColumnRow /\ row.prop = columns[t.id].prop
      BY <1>1, <2>2 DEF ColumnRow
    <2> HIDE DEF row
    <2> QED
      BY <1>2, <2>1, <2>3
  <1>5. ASSUME DeleteColumn(t) PROVE BoardOk' /\ HomesKept /\ TrashKept /\ LogSteps
    <2>1. /\ columns' = [columns EXCEPT ![t.id] = None] /\ UNCHANGED <<cards, users, bin, template, told, log>>
          /\ Ticks /\ CardsIn(t.id) = {}
      BY <1>5 DEF DeleteColumn, Command, Write, Ticks, Sideways
    <2>2. columns \in Seq(ColumnRow \union {None}) /\ t.id \in DOMAIN columns /\ writes \in Nat /\ now \in Nat
      BY <1>1 DEF BoardOk, TypeOK, Live
    <2>3. /\ columns' \in Seq(ColumnRow \union {None}) /\ DOMAIN columns' = DOMAIN columns
          /\ \A c \in DOMAIN columns \ {t.id} : columns'[c] = columns[c]
      BY <2>1, <2>2
    <2>4. \A c \in Live(cards) : cards[c].col # t.id
      BY <2>1 DEF CardsIn
    <2>5. \A c \in Live(cards) : cards[c].col \in Live(columns') /\ columns'[cards[c].col].prop = cards[c].prop
      BY <2>3, <2>4, HomesOfColumns DEF Live
    <2>6. writes' \in Nat /\ now' \in Nat /\ now' >= now /\ columns' \in Seq(ColumnRow \union {None})
      BY <2>1, <2>2, <2>3 DEF Ticks
    <2> QED
      BY <2>1, <2>5, <2>6, StillCards DEF LogSteps
  <1> QED
    BY <1>3, <1>4, <1>5

LEMMA ColumnAdded ==
  ASSUME BoardOk, NEW p \in Props, NEW name \in Titles, CreateColumn(p, name)
  PROVE  BoardOk' /\ HomesKept /\ TrashKept /\ LogSteps
  <1> DEFINE key == last(columns, ColumnsOf(p))
             row == [prop |-> p, name |-> name, pos |-> key]
  <1>1. key \in Key
    BY ColumnKeys
  <1>2. columns' = Put(columns, NextId(columns), row) /\ UNCHANGED <<cards, users, bin, template, told, log>>
        /\ Ticks
    BY DEF CreateColumn, Command, Write, Ticks, Sideways
  <1> HIDE DEF key
  <1>3. row \in ColumnRow \union {None} /\ columns \in Seq(ColumnRow \union {None}) /\ writes \in Nat /\ now \in Nat
    BY <1>1 DEF ColumnRow, BoardOk, TypeOK
  <1> HIDE DEF row
  <1>4. columns' \in Seq(ColumnRow \union {None}) /\ \A c \in Live(columns) : c \in DOMAIN columns' /\ columns'[c] = columns[c]
    <2> DEFINE n == NextId(columns)
               new == Put(columns, n, row)
    <2>1. /\ new \in Seq(ColumnRow \union {None}) /\ DOMAIN new = DOMAIN columns \union {n}
          /\ n \in DOMAIN columns => columns[n] = None
          /\ \A c \in DOMAIN columns \ {n} : new[c] = columns[c]
      <3> DEFINE S == ColumnRow \union {None}
      <3>1. HoldsRows(columns, S) /\ row \in S
        BY <1>3 DEF HoldsRows
      <3>3. n = NextId(columns) /\ new = Put(columns, n, row)
        OBVIOUS
      <3> HIDE DEF S, n, new
      <3>2. /\ HoldsRows(new, S) /\ DOMAIN new = DOMAIN columns \union {n}
            /\ n \in DOMAIN columns => columns[n] = None
            /\ \A c \in DOMAIN columns \ {n} : new[c] = columns[c]
        BY <3>1, <3>3, PutNext
      <3> QED
        BY <3>2 DEF S, HoldsRows
    <2>2. columns' = new
      BY <1>2
    <2> HIDE DEF n, new
    <2> QED
      BY <2>1, <2>2 DEF Live
  <1>5. \A c \in Live(cards) : cards[c].col \in Live(columns') /\ columns'[cards[c].col].prop = cards[c].prop
    BY <1>4, HomesOfColumns DEF Live
  <1>6. writes' \in Nat /\ now' \in Nat /\ now' >= now
    BY <1>2, <1>3 DEF Ticks
  <1> QED
    BY <1>2, <1>3, <1>4, <1>5, <1>6, StillCards DEF LogSteps

LEMMA ToldSame ==
  ASSUME BoardOk, cards' = cards, Told
  PROVE  DOMAIN told' = DOMAIN told /\ \A c \in DOMAIN told : told'[c] = told[c]
  <1>1. DOMAIN told = DOMAIN cards
    BY DEF BoardOk, TypeOK
  <1>2. ASSUME NEW c \in DOMAIN told PROVE told'[c] = told[c]
    <2>1. CASE cards[c] = None
      BY <1>1, <2>1 DEF Told
    <2>2. CASE cards[c] # None
      <3>1. cards[c] \in CardRow /\ Len(told[c]) = cards[c].version
        BY <1>1, <2>2, RowsFound DEF BoardOk, Titled, Live
      <3>2. ~ (cards[c].version > Len(told[c]))
        BY <3>1 DEF CardRow
      <3> QED
        BY <1>1, <3>2 DEF Told
    <2> QED
      BY <2>1, <2>2
  <1> QED
    BY <1>1, <1>2 DEF Told

(* What is not about a card, a column or an account.                       *)
LEMMA Aside ==
  ASSUME BoardOk, UNCHANGED <<columns, cards, users, bin, template>>,
         DOMAIN told' = DOMAIN told, \A c \in DOMAIN told : told'[c] = told[c], Ticks
  PROVE  BoardOk' /\ HomesKept /\ TrashKept
  <1>1. writes' \in Nat /\ now' \in Nat /\ now' >= now /\ columns' \in Seq(ColumnRow \union {None})
    BY DEF BoardOk, TypeOK, Ticks
  <1>2. \A c \in Live(cards) : cards[c].col \in Live(columns') /\ columns'[cards[c].col].prop = cards[c].prop
    BY HomesOfColumns
  <1> QED
    BY <1>1, <1>2, StillCards

LEMMA ItemActions ==
  ASSUME BoardOk,
         \/ LooksUp
         \/ \E t \in Asked("item") : ToggleChecklistItem(t) \/ RemoveChecklistItem(t)
         \/ \E c \in Live(cards) : \E title \in Titles : AddChecklistItem(c, title)
         \/ \E p \in Props : ArchiveProposition(p) \/ RestoreProposition(p)
  PROVE  BoardOk' /\ HomesKept /\ TrashKept /\ LogSteps
  <1>1. UNCHANGED <<columns, cards, users, bin, template, told>> /\ Ticks
    BY DEF LooksUp, ToggleChecklistItem, RemoveChecklistItem, AddChecklistItem, ArchiveProposition,
           RestoreProposition, Command, Off, Write, Ticks, Sideways, places
  <1>2. LogSteps
    <2>1. ASSUME NEW t \in Asked("item"), ToggleChecklistItem(t) PROVE LogSteps
      <3>1. t.entity = "item"
        BY AskedIs
      <3> QED
        BY <2>1, Recording DEF ToggleChecklistItem, Recorded
    <2> QED
      BY <2>1 DEF LooksUp, RemoveChecklistItem, AddChecklistItem, ArchiveProposition, RestoreProposition, LogSteps
  <1> QED
    BY <1>1, <1>2, Aside

(* Changes of a card.                                                      *)
LEMMA CardChanged ==
  ASSUME BoardOk, NEW c \in Live(cards), NEW row \in CardRow, Changes(c, row),
         row.prop = cards[c].prop, row.template = cards[c].template,
         \A a \in row.who : Current(a, users, Gone(c, bin)),
         row.col \in Live(columns), columns[row.col].prop = row.prop,
         \A o \in Live(cards) \ {c} : cards[o].col = row.col => cards[o].pos # row.pos,
         \/ row.version = cards[c].version /\ row.title = cards[c].title
         \/ row.version = cards[c].version + 1
  PROVE  BoardOk' /\ HomesKept /\ TrashKept /\ LogSteps
  <1>1. /\ cards' = [cards EXCEPT ![c] = row] /\ Told /\ UNCHANGED <<columns, users, bin, template>>
        /\ Ticks
    BY DEF Changes, Command, Write, Ticks, Sideways
  <1>2. BoardOk' /\ HomesKept /\ TrashKept
    BY <1>1, ChangeFits
  <1>3. LogSteps
    <2>1. cards[c] \in CardRow /\ c \in DOMAIN cards' /\ HomeIs(c, row.prop, cards', bin')
      BY <1>2, RowsFound, HomeOfCard DEF HomesKept
    <2>2. log' = Append(log, [prop |-> row.prop, entity |-> "card", id |-> c, before |-> cards[c], after |-> row,
                              undone |-> FALSE])
      BY DEF Changes, Recorded
    <2> QED
      BY <2>1, <2>2, Recording
  <1> QED
    BY <1>2, <1>3

LEMMA SameKey ==
  ASSUME BoardOk, NEW c \in Live(cards)
  PROVE  /\ \A o \in Live(cards) \ {c} : cards[o].col = cards[c].col => cards[o].pos # cards[c].pos
         /\ cards[c].col \in Live(columns) /\ columns[cards[c].col].prop = cards[c].prop
         /\ \A a \in cards[c].who : Current(a, users, Gone(c, bin))
         /\ cards[c] \in CardRow
  BY RowsFound, HomesOfColumns DEF BoardOk, KeysDistinct, Named

LEMMA CardActions ==
  ASSUME BoardOk, NEW c \in Live(cards),
         \/ SetCardDone(c)
         \/ \E title \in Titles, base \in 1 .. cards[c].version : EditCardTitle(c, base, title)
         \/ \E col \in Live(columns), after \in Live(cards) \union {0} : MoveCard(c, col, after)
         \/ \E u \in Live(users) : AssignCard(c, u)
  PROVE  BoardOk' /\ HomesKept /\ TrashKept /\ LogSteps
  <1>1. CASE SetCardDone(c)
    <2> DEFINE row == [cards[c] EXCEPT !.done = ~ @]
    <2>1. /\ row \in CardRow /\ row.prop = cards[c].prop /\ row.template = cards[c].template
          /\ row.who = cards[c].who /\ row.col = cards[c].col /\ row.pos = cards[c].pos
          /\ row.version = cards[c].version /\ row.title = cards[c].title
      BY SameKey DEF CardRow
    <2>2. Changes(c, row)
      BY <1>1 DEF SetCardDone
    <2> HIDE DEF row
    <2> QED
      BY <2>1, <2>2, SameKey, CardChanged
  <1>2. ASSUME NEW title \in Titles, NEW base, EditCardTitle(c, base, title)
        PROVE  BoardOk' /\ HomesKept /\ TrashKept /\ LogSteps
    <2> DEFINE row == [cards[c] EXCEPT !.title = title, !.version = @ + 1]
    <2>1. /\ row \in CardRow /\ row.prop = cards[c].prop /\ row.template = cards[c].template
          /\ row.who = cards[c].who /\ row.col = cards[c].col /\ row.pos = cards[c].pos
          /\ row.version = cards[c].version + 1
      <3>1. cards[c] \in CardRow /\ cards[c].version + 1 \in Nat \ {0}
        BY SameKey DEF CardRow
      <3> QED
        BY <3>1 DEF CardRow
    <2>2. Changes(c, row)
      BY <1>2 DEF EditCardTitle
    <2> HIDE DEF row
    <2> QED
      BY <2>1, <2>2, SameKey, CardChanged
  <1>3. ASSUME NEW col \in Live(columns), NEW after \in Live(cards) \union {0}, MoveCard(c, col, after)
        PROVE  BoardOk' /\ HomesKept /\ TrashKept /\ LogSteps
    <2> DEFINE key == place(cards, CardsIn(col), after, c)
               row == [cards[c] EXCEPT !.col = col, !.pos = key]
    <2>1. Changes(c, row) /\ after \in CardsIn(col) \union {0} /\ columns[col].prop = cards[c].prop
      BY <1>3 DEF MoveCard
    <2>2. key \in Key /\ \A o \in Live(cards) \ {c} : cards[o].col = col => cards[o].pos # key
      BY <2>1, CardKeys
    <2> HIDE DEF key
    <2>3. /\ row \in CardRow /\ row.prop = cards[c].prop /\ row.template = cards[c].template
          /\ row.who = cards[c].who /\ row.col = col /\ row.pos = key
          /\ row.version = cards[c].version /\ row.title = cards[c].title
      BY <2>2, SameKey, RowsFound DEF CardRow
    <2> HIDE DEF row
    <2> QED
      BY <2>1, <2>2, <2>3, SameKey, CardChanged
  <1>4. ASSUME NEW u \in Live(users), AssignCard(c, u) PROVE BoardOk' /\ HomesKept /\ TrashKept /\ LogSteps
    <2> DEFINE a == [id |-> u, made |-> users[u]]
               row == [cards[c] EXCEPT !.who = @ \union {a}]
    <2>1. a \in Person /\ Current(a, users, Gone(c, bin))
      BY RowsFound DEF Person, Current, Live
    <2>2. Changes(c, row)
      BY <1>4 DEF AssignCard
    <2> HIDE DEF a
    <2>3. /\ row \in CardRow /\ row.prop = cards[c].prop /\ row.template = cards[c].template
          /\ row.who = cards[c].who \union {a} /\ row.col = cards[c].col /\ row.pos = cards[c].pos
          /\ row.version = cards[c].version /\ row.title = cards[c].title
      BY <2>1, SameKey DEF CardRow
    <2>4. \A b \in row.who : Current(b, users, Gone(c, bin))
      BY <2>1, <2>3, SameKey
    <2> HIDE DEF row
    <2> QED
      BY <2>2, <2>3, <2>4, SameKey, CardChanged
  <1> QED
    BY <1>1, <1>2, <1>3, <1>4

LEMMA CardAdded ==
  ASSUME BoardOk,
         \/ \E t \in Asked("column"), title \in Titles : CreateCard(t, title)
         \/ \E p \in Props : ProductionTemplate(p)
  PROVE  BoardOk' /\ HomesKept /\ TrashKept /\ LogSteps
  <1>1. ASSUME NEW h \in Props, NEW col \in Live(columns), columns[col].prop = h, NEW title \in Titles
        PROVE  LET row == NewCard(h, col, title)
               IN  /\ row \in CardRow /\ row.version = 1 /\ row.who = {} /\ ~ row.template
                   /\ row.prop = h /\ row.col = col
                   /\ \A o \in Live(cards) : cards[o].col = col => cards[o].pos # row.pos
    <2> DEFINE key == last(cards, CardsIn(col))
               row == [prop |-> h, col |-> col, pos |-> key, title |-> title, done |-> FALSE,
                       version |-> 1, who |-> {}, template |-> FALSE]
    <2>1. NewCard(h, col, title) = row
      BY DEF NewCard
    <2>2. key \in Key /\ \A o \in Live(cards) : cards[o].col = col => cards[o].pos # key
      BY CardKeys
    <2> HIDE DEF key
    <2>3. row \in CardRow
      BY <2>2, RowsFound DEF CardRow
    <2> QED
      BY <2>1, <2>2, <2>3
  <1>2. ASSUME NEW t \in Asked("column"), NEW title \in Titles, CreateCard(t, title)
        PROVE  BoardOk' /\ HomesKept /\ TrashKept /\ LogSteps
    <2> DEFINE row == NewCard(t.prop, t.id, title)
    <2>1. /\ cards' = Append(cards, row) /\ Told /\ UNCHANGED <<columns, users, bin, template, log>>
          /\ Ticks /\ columns[t.id].prop = t.prop
      BY <1>2 DEF CreateCard, Command, Write, Ticks, Sideways
    <2>2. t.id \in Live(columns) /\ t.prop \in Props
      BY <2>1, AskedIs, RowsFound DEF ColumnRow
    <2>3. /\ row \in CardRow /\ row.version = 1 /\ row.who = {} /\ ~ row.template
          /\ row.prop = t.prop /\ row.col = t.id
          /\ \A o \in Live(cards) : cards[o].col = t.id => cards[o].pos # row.pos
      BY <1>1, <2>1, <2>2
    <2> HIDE DEF row
    <2> QED
      BY <2>1, <2>2, <2>3, AddFits DEF LogSteps
  <1>3. ASSUME NEW p \in Props, ProductionTemplate(p) PROVE BoardOk' /\ HomesKept /\ TrashKept /\ LogSteps
    <2> DEFINE first == CHOOSE c \in ColumnsOf(p) : \A o \in ColumnsOf(p) \ {c} : ~ Below(columns[o].pos, columns[c].pos)
               title == CHOOSE title \in Titles : TRUE
               plain == NewCard(p, first, title)
               row == [plain EXCEPT !.template = TRUE]
    <2>1. /\ cards' = Append(cards, row) /\ Told /\ UNCHANGED <<columns, users, bin, log>>
          /\ Ticks /\ template[p] = None /\ ColumnsOf(p) # {}
          /\ template' = [template EXCEPT ![p] = Len(cards')]
      BY <1>3 DEF ProductionTemplate, Command, Write, Ticks
    <2>2. title \in Titles
      BY BoardAssumption
    <2>3. first \in ColumnsOf(p)
      <3> DEFINE K == ColumnsOf(p)
                 R == {r \in K \X K : Below(columns[r[1]].pos, columns[r[2]].pos)}
      <3>1. IsFiniteSet(K) /\ \A c \in K : columns[c].pos \in Written
        BY RowsFound, FS_Subset, KeysWritten DEF ColumnsOf, ColumnRow
      <3>2. \A a, b \in K : <<a, b>> \in R <=> Below(columns[a].pos, columns[b].pos)
        OBVIOUS
      <3> HIDE DEF K, R
      <3>3. \A a, b \in K : <<a, b>> \in R => <<b, a>> \notin R
        BY <3>1, <3>2, BelowIrreflexive, BelowTransitive
      <3>4. \A a, b, c \in K : <<a, b>> \in R /\ <<b, c>> \in R => <<a, c>> \in R
        BY <3>1, <3>2, BelowTransitive
      <3>5. K # {}
        BY <2>1 DEF K
      <3>6. PICK c \in K : \A o \in K : <<o, c>> \notin R
        BY <3>1, <3>3, <3>4, <3>5, OneEnd
      <3>7. \E d \in K : \A o \in K \ {d} : ~ Below(columns[o].pos, columns[d].pos)
        BY <3>2, <3>6
      <3> QED
        BY <3>7 DEF K
    <2> HIDE DEF first, title
    <2>4. first \in Live(columns) /\ columns[first].prop = p
      BY <2>3 DEF ColumnsOf
    <2>5. /\ plain \in CardRow /\ plain.version = 1 /\ plain.who = {}
          /\ plain.prop = p /\ plain.col = first
          /\ \A o \in Live(cards) : cards[o].col = first => cards[o].pos # plain.pos
      BY <1>1, <2>2, <2>4
    <2> HIDE DEF plain
    <2>6. /\ row \in CardRow /\ row.version = 1 /\ row.who = {} /\ row.prop = p /\ row.col = first
          /\ row.pos = plain.pos
      BY <2>5 DEF CardRow
    <2> HIDE DEF row
    <2> QED
      BY <2>1, <2>4, <2>5, <2>6, AddFits DEF LogSteps
  <1> QED
    BY <1>2, <1>3

LEMMA AccountActions ==
  ASSUME BoardOk, CreateUser \/ \E u \in Live(users) : DeleteUser(u)
  PROVE  BoardOk' /\ HomesKept /\ TrashKept /\ LogSteps
  <1>1. /\ users \in Seq(Moment \union {None}) /\ cards \in Seq(CardRow \union {None}) /\ None \notin Moment
        /\ None \notin CardRow /\ writes \in Nat /\ now \in Nat
    BY BoardAssumption DEF BoardOk, TypeOK
  <1>2. CASE CreateUser
    <2>1. /\ users' = Put(users, NextId(users), [nth |-> writes, second |-> now]) /\ Ticks
          /\ UNCHANGED <<columns, cards, bin, template, told, log>>
      BY <1>2 DEF CreateUser, Write, Ticks, places
    <2> DEFINE n == NextId(users)
               born == [nth |-> writes, second |-> now]
               new == Put(users, n, born)
               S == Moment \union {None}
    <2>2. HoldsRows(users, S) /\ born \in S /\ born # None /\ born.second = now
      BY <1>1 DEF HoldsRows, Moment
    <2>8. n = NextId(users) /\ new = Put(users, n, born)
      OBVIOUS
    <2>4. users' = new
      BY <2>1
    <2> HIDE DEF S, n, new, born
    <2>3. /\ HoldsRows(new, S) /\ DOMAIN new = DOMAIN users \union {n}
          /\ n \in DOMAIN users => users[n] = None
          /\ \A u \in DOMAIN users \ {n} : new[u] = users[u]
          /\ new[n] = born
      BY <2>2, <2>8, PutNext
    <2>5. UsersKept /\ users' \in Seq(Moment \union {None})
      BY <1>1, <2>2, <2>3, <2>4 DEF UsersKept, S, HoldsRows
    <2>6. \A c \in Live(cards) :
            /\ cards'[c] = [cards[c] EXCEPT !.who = cards'[c].who]
            /\ \A a \in cards'[c].who : a \in cards[c].who /\ users'[a.id] = users[a.id]
      <3> SUFFICES ASSUME NEW c \in Live(cards)
                   PROVE  /\ cards[c] = [cards[c] EXCEPT !.who = cards[c].who]
                          /\ \A a \in cards[c].who : users'[a.id] = users[a.id]
        BY <2>1
      <3>1. cards[c] = [cards[c] EXCEPT !.who = cards[c].who]
        BY RowsFound DEF CardRow
      <3>2. ASSUME NEW a \in cards[c].who PROVE users'[a.id] = users[a.id]
        <4>1. a.id \in DOMAIN users /\ users[a.id] # None
          BY DEF BoardOk, Named, Current
        <4> QED
          BY <2>3, <2>4, <4>1
      <3> QED
        BY <3>1, <3>2
    <2>7. /\ cards' \in Seq(CardRow \union {None}) /\ DOMAIN cards' = DOMAIN cards /\ Live(cards') = Live(cards)
          /\ \A c \in DOMAIN cards : cards[c] = None => cards'[c] = None
      BY <1>1, <2>1
    <2> QED
      BY <2>1, <2>5, <2>6, <2>7, AccountsFit DEF LogSteps
  <1>3. ASSUME NEW u \in Live(users), DeleteUser(u)
        PROVE  BoardOk' /\ HomesKept /\ TrashKept /\ LogSteps
    <2>1. /\ users' = [users EXCEPT ![u] = None] /\ Ticks
          /\ UNCHANGED <<columns, bin, template, told, log>>
          /\ cards' = [c \in DOMAIN cards |->
               IF cards[c] = None THEN None ELSE [cards[c] EXCEPT !.who = {a \in @ : a.id # u}]]
      BY <1>3 DEF DeleteUser, Write, Ticks
    <2>8. DOMAIN users' = DOMAIN users /\ users'[u] = None /\ \A v \in DOMAIN users \ {u} : users'[v] = users[v]
      BY <2>1, RowsFound
    <2>9. users' \in Seq(Moment \union {None})
      BY <1>1, <2>1, RowsFound
    <2>2. UsersKept /\ users' \in Seq(Moment \union {None}) /\ \A v \in DOMAIN users \ {u} : users'[v] = users[v]
      BY <2>8, <2>9 DEF UsersKept
    <2>3. ASSUME NEW c \in Live(cards)
          PROVE  LET w == {a \in cards[c].who : a.id # u}
                 IN  /\ cards'[c] = [cards[c] EXCEPT !.who = w] /\ cards'[c].who = w /\ cards'[c] \in CardRow
      <3> DEFINE w == {a \in cards[c].who : a.id # u}
      <3>1. cards[c] \in CardRow /\ c \in DOMAIN cards /\ cards[c] # None
        BY RowsFound DEF Live
      <3>2. cards'[c] = [cards[c] EXCEPT !.who = w]
        BY <2>1, <3>1
      <3>3. w \in SUBSET Person
        BY <3>1 DEF CardRow
      <3> HIDE DEF w
      <3>4. cards'[c].who = w /\ cards'[c] \in CardRow
        BY <3>1, <3>2, <3>3 DEF CardRow
      <3> QED
        BY <3>2, <3>4 DEF w
    <2>4. \A c \in DOMAIN cards : (cards[c] = None => cards'[c] = None) /\ (cards[c] # None => cards'[c] \in CardRow)
      BY <2>1, <2>3 DEF Live
    <2>5. cards' \in Seq(CardRow \union {None}) /\ DOMAIN cards' = DOMAIN cards
      <3>1. DOMAIN cards = 1 .. Len(cards) /\ Len(cards) \in Nat
        BY <1>1
      <3>2. cards' = [c \in 1 .. Len(cards) |-> cards'[c]] /\ \A c \in 1 .. Len(cards) : cards'[c] \in CardRow \union {None}
        BY <2>1, <2>4, <3>1
      <3> QED
        BY <3>1, <3>2
    <2>6. Live(cards') = Live(cards)
      BY <1>1, <2>4, <2>5 DEF Live
    <2>7. ASSUME NEW c \in Live(cards)
          PROVE  /\ cards'[c] = [cards[c] EXCEPT !.who = cards'[c].who]
                 /\ \A a \in cards'[c].who : a \in cards[c].who /\ users'[a.id] = users[a.id]
      <3>1. \A a \in cards[c].who : a.id \in DOMAIN users
        BY DEF BoardOk, Named, Current
      <3>2. cards'[c] = [cards[c] EXCEPT !.who = cards'[c].who]
        BY <2>3
      <3>3. \A a \in cards'[c].who : a \in cards[c].who /\ a.id # u
        BY <2>3
      <3> QED
        BY <2>2, <3>1, <3>2, <3>3
    <2> QED
      BY <2>1, <2>2, <2>4, <2>5, <2>6, <2>7, AccountsFit DEF LogSteps
  <1> QED
    BY <1>2, <1>3

LEMMA UndoFits ==
  ASSUME BoardOk, LogOk, Undo
  PROVE  BoardOk' /\ HomesKept /\ TrashKept /\ LogSteps
  <1>1. PICK n \in DOMAIN log :
          LET r == log[n]
              put(entity, table) == IF r.entity = entity THEN [table EXCEPT ![r.id] = Back(r)] ELSE table
          IN  /\ CanUndo(r) /\ Command(r.prop)
              /\ log' = [log EXCEPT ![n].undone = TRUE]
              /\ columns' = put("column", columns) /\ cards' = put("card", cards)
              /\ Sideways /\ Told
    BY Zenon DEF Undo
  <1> DEFINE r == log[n]
  <1>2. /\ CanUndo(r) /\ Ticks /\ log' = [log EXCEPT ![n].undone = TRUE]
        /\ columns' = IF r.entity = "column" THEN [columns EXCEPT ![r.id] = Back(r)] ELSE columns
        /\ cards' = IF r.entity = "card" THEN [cards EXCEPT ![r.id] = Back(r)] ELSE cards
        /\ UNCHANGED <<users, bin, template>> /\ Told
    BY <1>1 DEF Command, Write, Ticks, Sideways
  <1>3. IsChange(r, cards, bin)
    BY DEF LogOk
  <1>4. LogSteps
    BY <1>2 DEF LogSteps
  <1> HIDE DEF r
  <1>5. CASE r.entity = "column"
    <2> DEFINE row == [columns[r.id] EXCEPT !.name = r.before.name, !.pos = r.before.pos]
    <2>1. r.id \in Live(columns) /\ r.before \in ColumnRow
      BY <1>2, <1>3, <1>5 DEF CanUndo, Table, IsChange
    <2>2. row \in ColumnRow /\ row.prop = columns[r.id].prop
      BY <2>1, RowsFound DEF ColumnRow
    <2>3. columns' = [columns EXCEPT ![r.id] = row] /\ cards' = cards
      BY <1>2, <1>5 DEF Back
    <2> HIDE DEF row
    <2>4. DOMAIN told' = DOMAIN told /\ \A c \in DOMAIN told : told'[c] = told[c]
      BY <1>2, <2>3, ToldSame
    <2> QED
      BY <1>2, <1>4, <2>1, <2>2, <2>3, <2>4, ColumnFits
  <1>6. CASE r.entity = "card"
    <2> DEFINE c == r.id
               row == [cards[c] EXCEPT !.col = r.before.col, !.pos = r.before.pos,
                                       !.title = r.before.title, !.done = r.before.done, !.version = @ + 1]
    <2>1. /\ c \in Live(cards) /\ r.before \in CardRow /\ r.prop = cards[c].prop
          /\ r.before.col \in Live(columns) /\ columns[r.before.col].prop = r.prop
          /\ \A o \in Live(cards) \ {c} : cards[o].col = r.before.col => cards[o].pos # r.before.pos
      BY <1>2, <1>3, <1>6 DEF CanUndo, Table, IsChange, HomeIs, ColumnOurs, ColumnsOf, KeyFree, CardsIn, Live
    <2>2. cards' = [cards EXCEPT ![c] = row] /\ columns' = columns
      BY <1>2, <1>6 DEF Back
    <2>3. /\ row \in CardRow /\ row.prop = cards[c].prop /\ row.template = cards[c].template
          /\ row.who = cards[c].who /\ row.col = r.before.col /\ row.pos = r.before.pos
          /\ row.version = cards[c].version + 1
      <3>1. cards[c] \in CardRow /\ cards[c].version + 1 \in Nat \ {0}
        BY <2>1, SameKey DEF CardRow
      <3> QED
        BY <2>1, <3>1 DEF CardRow
    <2>4. \A a \in row.who : Current(a, users, Gone(c, bin))
      BY <2>1, <2>3, SameKey
    <2> HIDE DEF row, c
    <2>5. \A o \in Live(cards) \ {c} : cards[o].col = row.col => cards[o].pos # row.pos
      BY <2>1, <2>3 DEF c
    <2>6. row.col \in Live(columns) /\ columns[row.col].prop = row.prop /\ c \in Live(cards)
      BY <2>1, <2>3 DEF c
    <2>7. BoardOk' /\ HomesKept /\ TrashKept
      BY <1>2, <2>2, <2>3, <2>4, <2>5, <2>6, ChangeFits
    <2> QED
      BY <1>4, <2>7
  <1>7. CASE r.entity # "column" /\ r.entity # "card"
    <2>1. columns' = columns /\ cards' = cards
      BY <1>2, <1>7
    <2>2. DOMAIN told' = DOMAIN told /\ \A c \in DOMAIN told : told'[c] = told[c]
      BY <1>2, <2>1, ToldSame
    <2> QED
      BY <1>2, <1>4, <2>1, <2>2, Aside
  <1> QED
    BY <1>5, <1>6, <1>7

LEMMA TrashActions ==
  ASSUME BoardOk,
         \/ RestoreDeleted
         \/ \E c \in Live(cards) : DeleteCard(c)
         \/ \E p \in Props : DeleteProposition(p)
  PROVE  BoardOk' /\ HomesKept /\ TrashKept /\ LogSteps
  <1>1. ASSUME RestoreDeleted PROVE BoardOk' /\ HomesKept /\ TrashKept /\ LogSteps
    <2>1. PICK m \in DOMAIN bin :
            /\ Restorable(bin[m])
            /\ bin' = [bin EXCEPT ![m].restored = TRUE]
            /\ cards' = [cards EXCEPT ![bin[m].card] =
                          [bin[m].row EXCEPT !.who = StillThere(@, bin[m].at), !.version = @ + 1]]
            /\ template' = IF bin[m].row.template THEN [template EXCEPT ![bin[m].row.prop] = bin[m].card] ELSE template
            /\ Told /\ UNCHANGED <<columns, users, log>> /\ Ticks
      BY <1>1, Zenon DEF RestoreDeleted, Command, Write, Ticks
    <2> DEFINE old == bin[m].row
               row == [old EXCEPT !.who = StillThere(@, bin[m].at), !.version = @ + 1]
    <2>2. row \in CardRow
      <3>1. old \in CardRow
        BY DEF BoardOk, TypeOK, IsEntry
      <3>2. StillThere(old.who, bin[m].at) \in SUBSET Person /\ old.version + 1 \in Nat \ {0}
        BY <3>1 DEF StillThere, CardRow
      <3> HIDE DEF old
      <3> QED
        BY <3>1, <3>2 DEF CardRow
    <2>3. row = [bin[m].row EXCEPT !.who = StillThere(@, bin[m].at), !.version = @ + 1]
      OBVIOUS
    <2>4. cards' = [cards EXCEPT ![bin[m].card] = row]
      BY <2>1
    <2> HIDE DEF row
    <2> QED
      BY <2>1, <2>2, <2>3, <2>4, RestoringFits DEF LogSteps
  <1>2. ASSUME NEW c \in Live(cards), DeleteCard(c) PROVE BoardOk' /\ HomesKept /\ TrashKept /\ LogSteps
    BY <1>2, DeletingFits
  <1>3. ASSUME NEW p \in Props, DeleteProposition(p) PROVE BoardOk' /\ HomesKept /\ TrashKept /\ LogSteps
    <2>1. LogSteps
      BY <1>3 DEF DeleteProposition, LogSteps
    <2> QED
      BY <1>3, <2>1, ClearingFits
  <1> QED
    BY <1>1, <1>2, <1>3

-----------------------------------------------------------------------------
LEMMA BoardStarts ==
  ASSUME Init
  PROVE  BoardInv
  <1>1. /\ columns = FirstColumns /\ cards = FirstCards /\ users = <<Start>> /\ bin = <<>> /\ log = <<>> /\ writes = 0 /\ now = 0
        /\ columns \in Seq(ColumnRow) /\ cards \in Seq(CardRow) /\ None \notin ColumnRow /\ None \notin CardRow
        /\ told = [c \in DOMAIN cards |-> <<cards[c].title>>]
        /\ template = [p \in Props |-> IF \E c \in CardsOf(p) : cards[c].template
                                        THEN CHOOSE c \in CardsOf(p) : cards[c].template ELSE None]
    BY BoardAssumption DEF Init
  <1>2. /\ DOMAIN columns = 1 .. Len(columns) /\ Len(columns) \in Nat
        /\ DOMAIN cards = 1 .. Len(cards) /\ Len(cards) \in Nat
        /\ \A c \in DOMAIN columns : columns[c] \in ColumnRow /\ columns[c] # None
        /\ \A c \in DOMAIN cards : cards[c] \in CardRow /\ cards[c] # None
    BY <1>1
  <1>3. Live(columns) = DOMAIN columns /\ Live(cards) = DOMAIN cards
    BY <1>2 DEF Live
  <1>4. ASSUME NEW c \in DOMAIN cards
        PROVE  /\ cards[c].col \in DOMAIN columns /\ columns[cards[c].col].prop = cards[c].prop
               /\ cards[c].version = 1 /\ cards[c].who \subseteq {[id |-> 1, made |-> Start]}
               /\ \A o \in DOMAIN cards \ {c} :
                    /\ cards[o].col = cards[c].col => cards[o].pos # cards[c].pos
                    /\ cards[c].template /\ cards[o].template => cards[o].prop # cards[c].prop
    BY <1>1, BoardAssumption
  <1>5. TypeOK
    <2>1. columns \in Seq(ColumnRow \union {None}) /\ cards \in Seq(CardRow \union {None})
      BY <1>1
    <2>2. template \in [Props -> Nat \union {None}]
      <3>1. ASSUME NEW p \in Props PROVE template[p] \in Nat \union {None}
        <4>1. CASE \E c \in CardsOf(p) : cards[c].template
          <5>1. template[p] \in CardsOf(p)
            BY <1>1, <4>1
          <5> QED
            BY <1>2, <1>3, <5>1 DEF CardsOf
        <4>2. CASE ~ \E c \in CardsOf(p) : cards[c].template
          BY <1>1, <4>2
        <4> QED
          BY <4>1, <4>2
      <3> QED
        BY <1>1, <3>1
    <2>3. \A c \in DOMAIN told : told[c] \in Seq(Titles)
      <3>1. \A c \in DOMAIN cards : cards[c].title \in Titles
        BY <1>2 DEF CardRow
      <3> QED
        BY <1>1, <3>1
    <2>4. Listed(bin) /\ DOMAIN bin = {} /\ users \in Seq(Moment \union {None}) /\ writes \in Nat /\ now \in Nat
      BY <1>1 DEF Listed, Start, Moment
    <2> QED
      BY <1>1, <2>1, <2>2, <2>3, <2>4 DEF TypeOK
  <1>6. BinOk /\ LogOk
    BY <1>1 DEF BinOk, LogOk, Listed
  <1>7. Titled
    BY <1>1, <1>3, <1>4 DEF Titled
  <1>8. Named
    <2>1. Start # None
      BY BoardAssumption DEF Start, Moment
    <2> QED
      BY <1>1, <1>3, <1>4, <2>1 DEF Named, Current
  <1>9. CardsAtHome /\ KeysDistinct
    BY <1>3, <1>4 DEF CardsAtHome, KeysDistinct, ColumnsOf
  <1>10. OneTemplate
    <2> SUFFICES ASSUME NEW c \in DOMAIN cards, cards[c].template PROVE template[cards[c].prop] = c
      BY <1>3 DEF OneTemplate
    <2> DEFINE p == cards[c].prop
    <2>1. c \in CardsOf(p) /\ p \in Props
      BY <1>2, <1>3 DEF CardsOf, CardRow
    <2>2. template[p] \in CardsOf(p) /\ cards[template[p]].template
      BY <1>1, <2>1
    <2>3. template[p] \in DOMAIN cards /\ cards[template[p]].prop = p
      BY <1>3, <2>2 DEF CardsOf
    <2> QED
      BY <1>4, <2>2, <2>3
  <1> QED
    BY <1>5, <1>6, <1>7, <1>8, <1>9, <1>10 DEF BoardInv, BoardOk

LEMMA BoardSteps ==
  ASSUME BoardOk, LogOk, Next
  PROVE  BoardOk' /\ HomesKept /\ TrashKept /\ LogSteps
  <1>1. CASE \/ LooksUp
             \/ \E t \in Asked("item") : ToggleChecklistItem(t) \/ RemoveChecklistItem(t)
             \/ \E c \in Live(cards) : \E title \in Titles : AddChecklistItem(c, title)
             \/ \E p \in Props : ArchiveProposition(p) \/ RestoreProposition(p)
    BY <1>1, ItemActions, Zenon
  <1>2. ASSUME NEW t \in Asked("column"),
               \/ DeleteColumn(t)
               \/ \E name \in Titles : RenameColumn(t, name)
               \/ \E after \in Live(columns) \union {0} : MoveColumn(t, after)
        PROVE  BoardOk' /\ HomesKept /\ TrashKept /\ LogSteps
    BY <1>2, ColumnActions, Zenon
  <1>3. CASE \E p \in Props, name \in Titles : CreateColumn(p, name)
    BY <1>3, ColumnAdded
  <1>4. CASE \/ \E t \in Asked("column"), title \in Titles : CreateCard(t, title)
             \/ \E p \in Props : ProductionTemplate(p)
    BY <1>4, CardAdded, Zenon
  <1>5. ASSUME NEW c \in Live(cards),
               \/ SetCardDone(c)
               \/ \E title \in Titles, base \in 1 .. cards[c].version : EditCardTitle(c, base, title)
               \/ \E col \in Live(columns), after \in Live(cards) \union {0} : MoveCard(c, col, after)
               \/ \E u \in Live(users) : AssignCard(c, u)
        PROVE  BoardOk' /\ HomesKept /\ TrashKept /\ LogSteps
    BY <1>5, CardActions, Zenon
  <1>6. CASE CreateUser \/ \E u \in Live(users) : DeleteUser(u)
    BY <1>6, AccountActions, Zenon
  <1>7. CASE \/ RestoreDeleted
             \/ \E c \in Live(cards) : DeleteCard(c)
             \/ \E p \in Props : DeleteProposition(p)
    BY <1>7, TrashActions, Zenon
  <1>8. CASE Undo
    BY <1>8, UndoFits
  <1> QED
    BY <1>1, <1>2, <1>3, <1>4, <1>5, <1>6, <1>7, <1>8, Zenon DEF Next

-----------------------------------------------------------------------------
(* The inductive invariant of what is signed beside the board: the same    *)
(* three ways an account may stand, for comments and checks, and for a     *)
(* piece of evidence in the trash what is wanted of one on the desk.       *)
ContentRow == [text : Texts, link : Link]
Thrown(e, trash) == {trash[n].at : n \in {m \in DOMAIN trash : trash[m].id = e}}
Vouched(row) ==
  row.verified => row.checked # None /\ row.checked.text = row.text /\ row.by \subseteq {row.checked.who}
IsDrawn(b, table) == b \in [id : DOMAIN table, row : EvidenceRow, at : Nat, restored : BOOLEAN]

NotesOk ==
  /\ notes \in Seq(NoteRow \union {None})
  /\ \A n \in Live(notes) :
       /\ notes[n].card \in DOMAIN cards
       /\ cards[notes[n].card] # None =>
            \A a \in notes[n].by : Current(a, users, Gone(notes[n].card, bin))
       /\ \A k \in DOMAIN bin : bin[k].card = notes[n].card /\ ~ bin[k].restored =>
            \A a \in notes[n].by : Known(a, bin[k].at, users, Gone(notes[n].card, bin))
ShownOk ==
  /\ evidence \in Seq(EvidenceRow \union {None})
  /\ DOMAIN shown = DOMAIN evidence /\ \A e \in DOMAIN evidence : shown[e] \in Seq(ContentRow)
  /\ \A e \in Live(evidence) :
       /\ Len(shown[e]) = evidence[e].version
       /\ evidence[e].text = shown[e][evidence[e].version].text
       /\ evidence[e].link \in {None, shown[e][evidence[e].version].link}
CheckedOk == \A e \in Live(evidence) :
  Vouched(evidence[e]) /\ \A a \in evidence[e].by : Current(a, users, Thrown(e, drawer))
DrawerOk ==
  /\ Listed(drawer)
  /\ \A n \in DOMAIN drawer :
       /\ IsDrawn(drawer[n], evidence) /\ drawer[n].at <= now
       /\ Vouched(drawer[n].row) /\ \A a \in drawer[n].row.by : Known(a, drawer[n].at, users, Thrown(drawer[n].id, drawer))
       /\ ~ drawer[n].restored =>
            /\ evidence[drawer[n].id] = None /\ Len(shown[drawer[n].id]) = drawer[n].row.version
            /\ \A m \in DOMAIN drawer \ {n} : drawer[m].id = drawer[n].id => drawer[m].restored
LinksOk == links \subseteq DOMAIN LinkOf /\ DOMAIN refs = DOMAIN LinkOf
DeskOk == NotesOk /\ ShownOk /\ CheckedOk /\ DrawerOk /\ LinksOk
DeskInv == BoardInv /\ DeskOk

(* Comments through a step of the board.                                   *)
LEMMA NotesFollow ==
  ASSUME BoardOk, BoardOk', HomesKept, TrashKept, NotesOk, NotesAfter
  PROVE  NotesOk'
  <1>1. /\ None \notin NoteRow /\ DOMAIN notes = 1 .. Len(notes) /\ Len(notes) \in Nat
        /\ \A n \in DOMAIN notes : notes[n] = None \/ notes[n] \in NoteRow
    BY EvidenceAssumption DEF NotesOk
  <1>2. ASSUME NEW n \in DOMAIN notes, notes[n] # None
        PROVE  /\ notes'[n] \in NoteRow /\ notes'[n].card = notes[n].card
               /\ cards[notes[n].card] # None /\ cards'[notes[n].card] # None => notes'[n].by = Left(notes[n].by)
               /\ cards'[notes[n].card] = None => notes'[n] = notes[n]
               /\ \A m \in DOMAIN bin :
                    /\ cards[notes[n].card] = None /\ cards'[notes[n].card] # None
                    /\ bin'[m] # bin[m] /\ \A k \in DOMAIN bin \ {m} : bin'[k] = bin[k]
                    => notes'[n].by = StillThere(notes[n].by, bin[m].at)
    <2>1. notes[n] \in NoteRow
      BY <1>1, <1>2
    <2> DEFINE c == notes[n].card
               x == StillThere(notes[n].by, bin[CHOOSE b \in DOMAIN bin : bin[b] # bin'[b]].at)
    <2>2. Left(notes[n].by) \in SUBSET Person /\ x \in SUBSET Person
      BY <2>1 DEF Left, StillThere, NoteRow
    <2>3. notes'[n] = IF cards'[c] = None THEN notes[n]
                      ELSE IF cards[c] = None THEN [notes[n] EXCEPT !.by = x]
                      ELSE [notes[n] EXCEPT !.by = Left(notes[n].by)]
      <3>1. notes'[n] = IF notes[n] = None \/ cards'[c] = None THEN notes[n]
                        ELSE IF cards[c] = None
                        THEN [notes[n] EXCEPT !.by = SignedBack(@, bin[CHOOSE b \in DOMAIN bin : bin[b] # bin'[b]].at)]
                        ELSE [notes[n] EXCEPT !.by = Left(@)]
        BY <1>2 DEF NotesAfter
      <3>2. SignedBack(notes[n].by, bin[CHOOSE b \in DOMAIN bin : bin[b] # bin'[b]].at) = x
        BY DEF SignedBack
      <3> HIDE DEF x
      <3> QED
        BY <1>2, <3>1, <3>2
    <2>4. ASSUME NEW m \in DOMAIN bin, bin'[m] # bin[m], \A k \in DOMAIN bin \ {m} : bin'[k] = bin[k]
          PROVE  x = StillThere(notes[n].by, bin[m].at)
      <3>1. (CHOOSE b \in DOMAIN bin : bin[b] # bin'[b]) = m
        BY <2>4
      <3> QED
        BY <3>1
    <2> DEFINE y == Left(notes[n].by)
    <2> HIDE DEF x, c, y
    <2>5. CASE cards'[c] = None
      BY <2>1, <2>3, <2>5 DEF c
    <2>6. CASE cards'[c] # None /\ cards[c] = None
      <3>1. notes'[n] = [notes[n] EXCEPT !.by = x]
        BY <2>3, <2>6
      <3>2. notes'[n] \in NoteRow /\ notes'[n].card = c /\ notes'[n].by = x
        BY <2>1, <2>2, <3>1 DEF NoteRow, c
      <3> QED
        BY <2>4, <2>6, <3>2 DEF c
    <2>7. CASE cards'[c] # None /\ cards[c] # None
      <3>1. notes'[n] = [notes[n] EXCEPT !.by = y]
        BY <2>3, <2>7 DEF y
      <3>2. notes'[n] \in NoteRow /\ notes'[n].card = c /\ notes'[n].by = y
        BY <2>1, <2>2, <3>1 DEF NoteRow, c, y
      <3> QED
        BY <2>7, <3>2 DEF c, y
    <2> QED
      BY <2>5, <2>6, <2>7
  <1>3. DOMAIN notes' = DOMAIN notes /\ \A n \in DOMAIN notes : notes[n] = None => notes'[n] = None
    BY DEF NotesAfter
  <1>4. notes' \in Seq(NoteRow \union {None})
    <2>1. notes' = [n \in 1 .. Len(notes) |-> notes'[n]]
      BY <1>1 DEF NotesAfter
    <2>2. \A n \in 1 .. Len(notes) : notes'[n] \in NoteRow \union {None}
      BY <1>1, <1>2, <1>3
    <2> QED
      BY <1>1, <2>1, <2>2
  <1>5. ASSUME NEW n \in Live(notes')
        PROVE  /\ notes'[n].card \in DOMAIN cards'
               /\ cards'[notes'[n].card] # None => \A a \in notes'[n].by : Current(a, users', Gone(notes'[n].card, bin'))
               /\ \A k \in DOMAIN bin' : bin'[k].card = notes'[n].card /\ ~ bin'[k].restored =>
                    \A a \in notes'[n].by : Known(a, bin'[k].at, users', Gone(notes'[n].card, bin'))
    <2> DEFINE c == notes[n].card
    <2>1. n \in DOMAIN notes /\ notes[n] # None /\ notes[n] \in NoteRow /\ n \in Live(notes)
      BY <1>1, <1>3, <1>5 DEF Live
    <2>2. /\ c \in DOMAIN cards /\ notes'[n].card = c /\ c \in DOMAIN cards'
          /\ \A a \in notes[n].by : a \in Person
          /\ cards[c] # None => \A a \in notes[n].by : Current(a, users, Gone(c, bin))
          /\ \A k \in DOMAIN bin : bin[k].card = c /\ ~ bin[k].restored =>
               \A a \in notes[n].by : Known(a, bin[k].at, users, Gone(c, bin))
          /\ Gone(c, bin) \subseteq Gone(c, bin')
      BY <1>2, <2>1 DEF NotesOk, NoteRow, HomesKept, TrashKept
    <2>3. CASE cards'[c] = None
      <3>1. notes'[n] = notes[n]
        BY <1>2, <2>1, <2>3
      <3>2. ASSUME NEW k \in DOMAIN bin', bin'[k].card = c, ~ bin'[k].restored, NEW a \in notes[n].by
            PROVE  Known(a, bin'[k].at, users', Gone(c, bin'))
        <4>1. CASE cards[c] # None
          BY <2>2, <4>1, CurrentKept DEF TrashKept
        <4>2. CASE cards[c] = None
          <5>1. k \in DOMAIN bin /\ bin[k].card = c /\ ~ bin[k].restored /\ bin'[k].at = bin[k].at
            BY <2>2, <2>3, <3>2, <4>2 DEF TrashKept
          <5>2. Known(a, bin[k].at, users, Gone(c, bin)) /\ bin[k].at \in Nat /\ bin[k].at <= now /\ writes \in Nat /\ now \in Nat
            BY <2>2, <5>1 DEF BoardOk, TypeOK, IsEntry, BinOk
          <5> QED
            BY <2>2, <5>1, <5>2, KnownKept DEF TrashKept
        <4> QED
          BY <4>1, <4>2
      <3> QED
        BY <2>2, <2>3, <3>1, <3>2
    <2>4. CASE cards'[c] # None
      <3>1. \A k \in DOMAIN bin' : bin'[k].card = c => bin'[k].restored
        BY <2>4 DEF BoardOk, BinOk, TypeOK, IsEntry
      <3>2. ASSUME NEW a \in notes'[n].by PROVE Current(a, users', Gone(c, bin'))
        <4>1. CASE cards[c] # None
          <5>1. a \in notes[n].by /\ users'[a.id] # None
            BY <1>2, <2>1, <2>4, <3>2, <4>1 DEF Left
          <5> QED
            BY <2>2, <4>1, <5>1, CurrentKept DEF TrashKept
        <4>2. CASE cards[c] = None
          <5>1. PICK m \in DOMAIN bin : /\ bin[m].card = c /\ ~ bin[m].restored /\ bin'[m] # bin[m]
                                        /\ \A k \in DOMAIN bin \ {m} : bin'[k] = bin[k]
            BY <2>2, <2>4, <4>2 DEF TrashKept
          <5>2. users' = users
            BY <2>2, <2>4, <4>2 DEF TrashKept
          <5>3. a \in StillThere(notes[n].by, bin[m].at)
            BY <1>2, <2>1, <2>4, <3>2, <4>2, <5>1
          <5>4. a \in notes[n].by /\ users[a.id] # None /\ users[a.id].second <= bin[m].at
            BY <5>3 DEF StillThere
          <5>5. Known(a, bin[m].at, users, Gone(c, bin)) /\ bin[m].at \in Nat
            BY <2>2, <5>1, <5>4 DEF BoardOk, TypeOK, IsEntry
          <5>6. a.id \in DOMAIN users /\ users[a.id].second \in Nat
            BY <5>4, <5>5 DEF BoardOk, TypeOK, Known, Moment
          <5>7. bin[m].at \in Gone(c, bin)
            BY <5>1 DEF Gone
          <5> QED
            BY <2>2, <5>2, <5>4, <5>5, <5>6, <5>7 DEF Known, Current
        <4> QED
          BY <4>1, <4>2
      <3> QED
        BY <2>2, <3>1, <3>2
    <2> QED
      BY <2>3, <2>4
  <1> QED
    BY <1>4, <1>5 DEF NotesOk, Live

(* What was shown of evidence, where a step shows it again.                *)
LEMMA ShownFits ==
  ASSUME ShownOk, evidence' \in Seq(EvidenceRow \union {None}), DOMAIN evidence \subseteq DOMAIN evidence', Shown,
         \A e \in DOMAIN evidence :
           \/ evidence'[e] = None
           \/ evidence[e] # None /\ evidence'[e] = evidence[e]
           \/ evidence'[e].version = Len(shown[e]) + 1,
         \A e \in DOMAIN evidence' \ DOMAIN evidence : evidence'[e] # None /\ evidence'[e].version = 1
  PROVE  /\ ShownOk'
         /\ \A e \in DOMAIN evidence : evidence'[e] = None => shown'[e] = shown[e]
  <1>1. /\ DOMAIN shown = DOMAIN evidence /\ None \notin EvidenceRow
        /\ \A e \in DOMAIN evidence' : evidence'[e] # None => evidence'[e] \in EvidenceRow
        /\ \A e \in DOMAIN evidence : evidence[e] # None => evidence[e] \in EvidenceRow
        /\ \A e \in DOMAIN evidence : shown[e] \in Seq(ContentRow)
    BY EvidenceAssumption DEF ShownOk
  <1>2. ASSUME NEW e \in DOMAIN evidence', evidence'[e] # None
        PROVE  /\ Content(evidence'[e]) \in ContentRow /\ Content(evidence'[e]).text = evidence'[e].text
               /\ Content(evidence'[e]).link = evidence'[e].link /\ evidence'[e].version \in Nat \ {0}
    BY <1>1, <1>2 DEF Content, ContentRow, EvidenceRow
  <1>3. DOMAIN shown' = DOMAIN evidence'
    BY DEF Shown
  <1>4. ASSUME NEW e \in DOMAIN evidence' \ DOMAIN evidence
        PROVE  /\ shown'[e] \in Seq(ContentRow) /\ Len(shown'[e]) = evidence'[e].version
               /\ shown'[e][evidence'[e].version] = Content(evidence'[e])
    <2> DEFINE x == Content(evidence'[e])
    <2>1. shown'[e] = <<x>> /\ evidence'[e].version = 1
      BY <1>1 DEF Shown
    <2>2. x \in ContentRow
      BY <1>2
    <2> HIDE DEF x
    <2>3. <<x>> \in Seq(ContentRow) /\ Len(<<x>>) = 1 /\ <<x>>[1] = x
      BY <2>2
    <2> QED
      BY <2>1, <2>3 DEF x
  <1>5. ASSUME NEW e \in DOMAIN evidence
        PROVE  /\ shown'[e] \in Seq(ContentRow)
               /\ evidence'[e] = None => shown'[e] = shown[e]
               /\ evidence'[e] # None =>
                    /\ Len(shown'[e]) = evidence'[e].version
                    /\ evidence'[e].text = shown'[e][evidence'[e].version].text
                    /\ evidence'[e].link \in {None, shown'[e][evidence'[e].version].link}
    <2> DEFINE x == Content(evidence'[e])
    <2>1. shown'[e] = IF evidence'[e] # None /\ evidence'[e].version > Len(shown[e])
                      THEN Append(shown[e], x) ELSE shown[e]
      BY <1>1 DEF Shown
    <2>2. evidence'[e] # None => x \in ContentRow /\ x.text = evidence'[e].text /\ x.link = evidence'[e].link
      BY <1>2
    <2> HIDE DEF x
    <2>3. CASE evidence'[e] = None
      BY <1>1, <2>1, <2>3
    <2>4. CASE evidence'[e] # None /\ evidence[e] # None /\ evidence'[e] = evidence[e]
      <3>1. /\ Len(shown[e]) = evidence[e].version /\ evidence[e].text = shown[e][evidence[e].version].text
            /\ evidence[e].link \in {None, shown[e][evidence[e].version].link}
        BY <2>4 DEF ShownOk, Live
      <3>2. ~ (evidence'[e].version > Len(shown[e]))
        BY <1>2, <2>4, <3>1
      <3> QED
        BY <1>1, <2>1, <2>4, <3>1, <3>2
    <2>5. CASE evidence'[e] # None /\ evidence'[e].version = Len(shown[e]) + 1
      <3>1. shown[e] \in Seq(ContentRow) /\ Len(shown[e]) \in Nat /\ x \in ContentRow
        BY <1>1, <2>2, <2>5
      <3>2. shown'[e] = Append(shown[e], x)
        BY <2>1, <2>5, <3>1
      <3>3. shown'[e] \in Seq(ContentRow) /\ Len(shown'[e]) = evidence'[e].version /\ shown'[e][evidence'[e].version] = x
        BY <2>5, <3>1, <3>2
      <3> QED
        BY <2>2, <2>5, <3>3
    <2> QED
      BY <2>3, <2>4, <2>5
  <1>6. \A e \in DOMAIN evidence' : shown'[e] \in Seq(ContentRow)
    BY <1>4, <1>5
  <1>7. ASSUME NEW e \in Live(evidence')
        PROVE  /\ Len(shown'[e]) = evidence'[e].version
               /\ evidence'[e].text = shown'[e][evidence'[e].version].text
               /\ evidence'[e].link \in {None, shown'[e][evidence'[e].version].link}
    <2>1. e \in DOMAIN evidence' /\ evidence'[e] # None
      BY DEF Live
    <2>2. CASE e \in DOMAIN evidence
      BY <1>5, <2>1, <2>2
    <2>3. CASE e \notin DOMAIN evidence
      BY <1>2, <1>4, <2>1, <2>3
    <2> QED
      BY <2>2, <2>3
  <1> QED
    BY <1>3, <1>5, <1>6, <1>7 DEF ShownOk, Live

(* And where it does not: nothing has changed but a link that was lost.    *)
LEMMA QuietShown ==
  ASSUME ShownOk, evidence' \in Seq(EvidenceRow \union {None}), DOMAIN evidence' = DOMAIN evidence, shown' = shown,
         \A e \in Live(evidence') :
           /\ e \in Live(evidence) /\ evidence'[e].version = evidence[e].version
           /\ evidence'[e].text = evidence[e].text /\ evidence'[e].link \in {None, evidence[e].link}
  PROVE  ShownOk'
  BY DEF ShownOk, Live

(* The trash of evidence, where the step puts nothing there and takes      *)
(* nothing out.                                                            *)
LEMMA QuietDrawer ==
  ASSUME BoardOk, ShownOk, DrawerOk, UsersKept, writes' \in Nat /\ now' \in Nat, now' >= now, drawer' = drawer,
         DOMAIN evidence \subseteq DOMAIN evidence',
         \A e \in DOMAIN evidence : evidence[e] = None => evidence'[e] = None /\ shown'[e] = shown[e]
  PROVE  DrawerOk'
  <1> SUFFICES ASSUME NEW n \in DOMAIN drawer
               PROVE  /\ IsDrawn(drawer[n], evidence') /\ drawer[n].at <= now'
                      /\ \A a \in drawer[n].row.by : Known(a, drawer[n].at, users', Thrown(drawer[n].id, drawer'))
                      /\ ~ drawer[n].restored =>
                           evidence'[drawer[n].id] = None /\ shown'[drawer[n].id] = shown[drawer[n].id]
    BY DEF DrawerOk
  <1>1. /\ drawer[n] \in [id : DOMAIN evidence, row : EvidenceRow, at : Nat, restored : BOOLEAN]
        /\ drawer[n].at <= now /\ writes \in Nat /\ now \in Nat
    BY DEF DrawerOk, IsDrawn, BoardOk, TypeOK
  <1>2. IsDrawn(drawer[n], evidence') /\ drawer[n].at \in Nat /\ drawer[n].id \in DOMAIN evidence
    BY <1>1 DEF IsDrawn
  <1>3. \A a \in drawer[n].row.by : Known(a, drawer[n].at, users', Thrown(drawer[n].id, drawer'))
    BY <1>1, <1>2, KnownKept DEF DrawerOk
  <1> QED
    BY <1>1, <1>2, <1>3 DEF DrawerOk

(* Evidence through a step of the board.                                   *)
LEMMA EvidenceFollows ==
  ASSUME BoardOk, BoardOk', TrashKept, ShownOk, CheckedOk, DrawerOk, LinksOk,
         EvidenceAfter, UNCHANGED <<refs, shown, drawer>>
  PROVE  ShownOk' /\ CheckedOk' /\ DrawerOk' /\ LinksOk'
  <1>1. /\ DOMAIN evidence = 1 .. Len(evidence) /\ Len(evidence) \in Nat /\ None \notin EvidenceRow
        /\ \A e \in DOMAIN evidence : evidence[e] = None \/ evidence[e] \in EvidenceRow
    BY EvidenceAssumption DEF ShownOk
  <1>2. DOMAIN evidence' = DOMAIN evidence /\ evidence' = [e \in 1 .. Len(evidence) |-> evidence'[e]]
    BY <1>1 DEF EvidenceAfter
  <1>3. ASSUME NEW e \in DOMAIN evidence
        PROVE  \/ evidence'[e] = None
               \/ /\ evidence[e] # None /\ evidence'[e] \in EvidenceRow
                  /\ evidence'[e] = [evidence[e] EXCEPT !.by = Left(@)] /\ evidence'[e].by = Left(evidence[e].by)
                  /\ evidence'[e].version = evidence[e].version /\ evidence'[e].text = evidence[e].text
                  /\ evidence'[e].link = evidence[e].link /\ evidence'[e].verified = evidence[e].verified
                  /\ evidence'[e].checked = evidence[e].checked
    <2> SUFFICES ASSUME evidence'[e] # None
                 PROVE  /\ evidence[e] # None /\ evidence'[e] \in EvidenceRow
                        /\ evidence'[e] = [evidence[e] EXCEPT !.by = Left(@)] /\ evidence'[e].by = Left(evidence[e].by)
                        /\ evidence'[e].version = evidence[e].version /\ evidence'[e].text = evidence[e].text
                        /\ evidence'[e].link = evidence[e].link /\ evidence'[e].verified = evidence[e].verified
                        /\ evidence'[e].checked = evidence[e].checked
      OBVIOUS
    <2> DEFINE w == Left(evidence[e].by)
    <2>1. evidence[e] # None /\ evidence'[e] = [evidence[e] EXCEPT !.by = w]
      BY DEF EvidenceAfter
    <2>2. evidence[e] \in EvidenceRow
      BY <1>1, <2>1
    <2>3. w \in SUBSET Person
      BY <2>2 DEF Left, EvidenceRow
    <2>4. evidence'[e] = [evidence[e] EXCEPT !.by = Left(@)]
      BY <2>1
    <2> HIDE DEF w
    <2>5. /\ evidence'[e] \in EvidenceRow /\ evidence'[e].by = w
          /\ evidence'[e].version = evidence[e].version /\ evidence'[e].text = evidence[e].text
          /\ evidence'[e].link = evidence[e].link /\ evidence'[e].verified = evidence[e].verified
          /\ evidence'[e].checked = evidence[e].checked
      BY <2>1, <2>2, <2>3 DEF EvidenceRow
    <2> QED
      BY <2>1, <2>4, <2>5 DEF w
  <1>4. evidence' \in Seq(EvidenceRow \union {None})
    BY <1>1, <1>2, <1>3
  <1>5. ShownOk'
    BY <1>1, <1>2, <1>3, <1>4, QuietShown DEF Live
  <1>6. CheckedOk'
    <2> SUFFICES ASSUME NEW e \in Live(evidence')
                 PROVE  Vouched(evidence'[e]) /\ \A a \in evidence'[e].by : Current(a, users', Thrown(e, drawer'))
      BY DEF CheckedOk, Live
    <2>1. e \in Live(evidence) /\ evidence[e] \in EvidenceRow
      BY <1>1, <1>2, <1>3 DEF Live
    <2>2. Vouched(evidence'[e])
      BY <1>2, <1>3, <2>1 DEF CheckedOk, Vouched, Left, Live
    <2>3. ASSUME NEW a \in evidence'[e].by PROVE Current(a, users', Thrown(e, drawer'))
      <3>1. a \in evidence[e].by /\ users'[a.id] # None
        BY <1>2, <1>3 DEF Left, Live
      <3>2. a \in Person /\ Current(a, users, Thrown(e, drawer))
        BY <2>1, <3>1 DEF CheckedOk, EvidenceRow
      <3> QED
        BY <3>1, <3>2, CurrentKept DEF TrashKept
    <2> QED
      BY <2>2, <2>3
  <1>7. DrawerOk'
    <2>1. writes' \in Nat /\ now' \in Nat /\ now' >= now
      BY DEF TrashKept, BoardOk, TypeOK
    <2>2. \A e \in DOMAIN evidence : evidence[e] = None => evidence'[e] = None /\ shown'[e] = shown[e]
      BY DEF EvidenceAfter
    <2> QED
      BY <1>2, <2>1, <2>2, QuietDrawer DEF TrashKept
  <1>8. LinksOk'
    BY DEF LinksOk, EvidenceAfter
  <1> QED
    BY <1>5, <1>6, <1>7, <1>8

(* A command at the desk leaves the board as it is.                        *)
LEMMA DeskAside ==
  ASSUME BoardInv, NEW p, AtDesk(p)
  PROVE  /\ BoardInv' /\ UsersKept /\ Ticks /\ writes \in Nat /\ now \in Nat /\ writes' \in Nat /\ now' \in Nat /\ now' >= now
         /\ UNCHANGED <<cards, users, bin>>
  <1>1. Ticks /\ UNCHANGED <<columns, cards, users, bin, template, told, log>>
    BY DEF AtDesk, Command, Write, Ticks, Sideways, places
  <1>2. BoardOk' /\ HomesKept
    BY <1>1, Aside DEF BoardInv
  <1>3. LogOk'
    BY <1>1, <1>2, LogKept DEF BoardInv, LogSteps
  <1> QED
    BY <1>1, <1>2, <1>3, SameUsers DEF BoardInv, BoardOk, TypeOK, Ticks

LEMMA NotesStay ==
  ASSUME NotesOk, UNCHANGED <<notes, cards, users, bin>>
  PROVE  NotesOk'
  BY DEF NotesOk

(* Evidence that a command writes, new or a version on from what it was.   *)
Signs(row, us, gone) == Vouched(row) /\ \A a \in row.by : Current(a, us, gone)

LEMMA WritingFits ==
  ASSUME BoardOk, ShownOk, CheckedOk, DrawerOk,
         UsersKept, users' = users, writes' \in Nat /\ now' \in Nat, now' >= now, drawer' = drawer,
         evidence' \in Seq(EvidenceRow \union {None}), DOMAIN evidence \subseteq DOMAIN evidence', Shown,
         \A e \in DOMAIN evidence :
           \/ evidence'[e] = evidence[e]
           \/ /\ evidence[e] # None /\ evidence'[e].version = evidence[e].version + 1
              /\ Signs(evidence'[e], users, Thrown(e, drawer)),
         \A e \in DOMAIN evidence' \ DOMAIN evidence :
           evidence'[e] # None /\ evidence'[e].version = 1 /\ Signs(evidence'[e], users, Thrown(e, drawer))
  PROVE  ShownOk' /\ CheckedOk' /\ DrawerOk'
  <1>1. \A e \in DOMAIN evidence :
          \/ evidence'[e] = None
          \/ evidence[e] # None /\ evidence'[e] = evidence[e]
          \/ evidence'[e].version = Len(shown[e]) + 1
    BY DEF ShownOk, Live
  <1>2. ShownOk' /\ \A e \in DOMAIN evidence : evidence'[e] = None => shown'[e] = shown[e]
    BY <1>1, ShownFits
  <1>3. CheckedOk'
    BY DEF CheckedOk, Signs, Live
  <1>4. \A e \in DOMAIN evidence : evidence[e] = None => evidence'[e] = None /\ shown'[e] = shown[e]
    BY <1>2
  <1>5. DrawerOk'
    BY <1>4, QuietDrawer
  <1> QED
    BY <1>2, <1>3, <1>5

(* What a command asks for, and who puts their name to it.                 *)
LEMMA AccountIs ==
  ASSUME BoardOk, NEW u \in Live(users), NEW gone
  PROVE  Account(u) \in Person /\ Current(Account(u), users, gone)
  <1>1. u \in DOMAIN users /\ u \in Nat \ {0} /\ users[u] \in Moment /\ users[u] # None
    BY DEF BoardOk, TypeOK, Live
  <1> QED
    BY <1>1 DEF Account, Person, Current

LEMMA SigningFits ==
  ASSUME BoardOk, LinksOk, NEW u \in Live(users), NEW p, NEW in \in Wanted(p), NEW gone
  PROVE  /\ in.text \in Texts /\ in.link \in Link /\ in.verified \in BOOLEAN
         /\ Signed(u, in) \in SUBSET Person /\ \A a \in Signed(u, in) : Current(a, users, gone)
         /\ Seen(u, in) \in {None} \union Check
         /\ in.verified => Seen(u, in) # None /\ Seen(u, in).text = in.text /\ Signed(u, in) \subseteq {Seen(u, in).who}
  <1>1. in.text \in Texts /\ in.link \in Link /\ in.verified \in BOOLEAN
    BY DEF Wanted, Link, LinksOk
  <1>2. Account(u) \in Person /\ Current(Account(u), users, gone)
    BY AccountIs
  <1>3. [who |-> Account(u), text |-> in.text, link |-> in.link] \in Check /\ None \notin Check
    BY <1>1, <1>2, EvidenceAssumption DEF Check
  <1> QED
    BY <1>1, <1>2, <1>3 DEF Signed, Seen

LEMMA Commenting ==
  ASSUME DeskInv,
         \/ \E u \in Live(users), c \in Live(cards) : PostComment(u, c)
         \/ \E u \in Live(users), n \in {m \in Live(notes) : notes[m].card \in Live(cards)} : DeleteComment(u, n)
  PROVE  DeskInv'
  <1>1. /\ BoardInv' /\ UsersKept /\ writes' \in Nat /\ now' \in Nat /\ now' >= now /\ UNCHANGED <<cards, users, bin>>
        /\ UNCHANGED <<evidence, links, refs, shown, drawer>>
    BY DeskAside, Zenon DEF DeskInv, PostComment, DeleteComment
  <1>2. ShownOk' /\ CheckedOk' /\ LinksOk'
    BY <1>1 DEF DeskInv, DeskOk, ShownOk, CheckedOk, LinksOk
  <1>3. DrawerOk'
    BY <1>1, QuietDrawer DEF DeskInv, DeskOk, BoardInv
  <1>4. /\ notes \in Seq(NoteRow \union {None}) /\ None \notin NoteRow
        /\ \A n \in DOMAIN notes : n \in Live(notes) <=> notes[n] # None
    BY EvidenceAssumption DEF DeskInv, DeskOk, NotesOk, Live
  <1>5. ASSUME NEW u \in Live(users), NEW c \in Live(cards), PostComment(u, c)
        PROVE  NotesOk'
    <2> DEFINE new == [card |-> c, by |-> {Account(u)}]
    <2>1. notes' = Append(notes, new)
      BY <1>5 DEF PostComment
    <2>2. Account(u) \in Person /\ Current(Account(u), users, Gone(c, bin))
      BY AccountIs DEF DeskInv, BoardInv
    <2>3. c \in Nat \ {0} /\ c \in DOMAIN cards /\ cards[c] # None
      BY DEF DeskInv, BoardInv, BoardOk, TypeOK, Live
    <2>4. new \in NoteRow /\ new.card = c /\ \A a \in new.by : Current(a, users, Gone(c, bin))
      BY <2>2, <2>3 DEF NoteRow
    <2>5. \A k \in DOMAIN bin : bin[k].card = c => bin[k].restored
      BY <2>3 DEF DeskInv, BoardInv, BoardOk, BinOk, TypeOK, IsEntry
    <2> HIDE DEF new
    <2>6. /\ notes' \in Seq(NoteRow \union {None})
          /\ \A n \in DOMAIN notes' : notes'[n] = new \/ (n \in DOMAIN notes /\ notes'[n] = notes[n])
      BY <1>4, <2>1, <2>4
    <2>7. ASSUME NEW n \in DOMAIN notes', notes'[n] # None
          PROVE  /\ notes'[n].card \in DOMAIN cards
                 /\ cards[notes'[n].card] # None => \A a \in notes'[n].by : Current(a, users, Gone(notes'[n].card, bin))
                 /\ \A k \in DOMAIN bin : bin[k].card = notes'[n].card /\ ~ bin[k].restored =>
                      \A a \in notes'[n].by : Known(a, bin[k].at, users, Gone(notes'[n].card, bin))
      <3>1. CASE notes'[n] = new
        BY <2>3, <2>4, <2>5, <3>1
      <3>2. CASE n \in DOMAIN notes /\ notes'[n] = notes[n]
        <4>1. n \in Live(notes)
          BY <1>4, <2>7, <3>2
        <4> QED
          BY <3>2, <4>1 DEF DeskInv, DeskOk, NotesOk
      <3> QED
        BY <2>6, <3>1, <3>2
    <2> QED
      BY <1>1, <2>6, <2>7 DEF NotesOk, Live
  <1>6. ASSUME NEW u \in Live(users), NEW n \in Live(notes), DeleteComment(u, n)
        PROVE  NotesOk'
    <2>1. notes' = [notes EXCEPT ![n] = None]
      BY <1>6 DEF DeleteComment
    <2>2. notes' \in Seq(NoteRow \union {None}) /\ \A m \in Live(notes') : m \in Live(notes) /\ notes'[m] = notes[m]
      BY <1>4, <2>1 DEF Live
    <2> QED
      BY <1>1, <2>2 DEF DeskInv, DeskOk, NotesOk
  <1>7. NotesOk'
    BY <1>5, <1>6
  <1> QED
    BY <1>1, <1>2, <1>3, <1>7 DEF DeskInv, DeskOk

LEMMA Checking ==
  ASSUME DeskInv,
         \/ \E u \in Live(users), p \in Props : CreateEvidence(u, p)
         \/ \E u \in Live(users), e \in Live(evidence) : \E seen \in 1 .. evidence[e].version : SaveEvidence(u, e, seen)
  PROVE  DeskInv'
  <1>1. /\ BoardInv' /\ UsersKept /\ writes' \in Nat /\ now' \in Nat /\ now' >= now /\ UNCHANGED <<cards, users, bin>>
        /\ UNCHANGED <<notes, links, refs, drawer>> /\ Shown
    BY DeskAside, Zenon DEF DeskInv, CreateEvidence, SaveEvidence
  <1>2. NotesOk' /\ LinksOk'
    BY <1>1, NotesStay DEF DeskInv, DeskOk, LinksOk
  <1>3. /\ evidence \in Seq(EvidenceRow \union {None}) /\ None \notin EvidenceRow /\ BoardOk /\ LinksOk
        /\ ShownOk /\ CheckedOk /\ DrawerOk
    BY EvidenceAssumption DEF DeskInv, DeskOk, BoardInv, ShownOk
  <1>4. ASSUME NEW u \in Live(users), NEW p \in Props, CreateEvidence(u, p)
        PROVE  ShownOk' /\ CheckedOk' /\ DrawerOk'
    <2>1. PICK in \in Wanted(p) :
            evidence' = Append(evidence, [prop |-> p, text |-> in.text, link |-> in.link, verified |-> in.verified,
                                          by |-> Signed(u, in), version |-> 1, checked |-> Seen(u, in)])
      BY <1>4 DEF CreateEvidence
    <2> DEFINE row == [prop |-> p, text |-> in.text, link |-> in.link, verified |-> in.verified,
                       by |-> Signed(u, in), version |-> 1, checked |-> Seen(u, in)]
    <2>2. row \in EvidenceRow /\ row.version = 1 /\ \A gone : Signs(row, users, gone)
      BY <1>3, SigningFits DEF EvidenceRow, Signs, Vouched
    <2>3. evidence' = Append(evidence, row)
      BY <2>1
    <2> HIDE DEF row
    <2>4. /\ evidence' \in Seq(EvidenceRow \union {None}) /\ DOMAIN evidence \subseteq DOMAIN evidence'
          /\ \A e \in DOMAIN evidence : evidence'[e] = evidence[e]
          /\ \A e \in DOMAIN evidence' \ DOMAIN evidence : evidence'[e] = row
      BY <1>3, <2>2, <2>3
    <2>5. \A e \in DOMAIN evidence' \ DOMAIN evidence :
            evidence'[e] # None /\ evidence'[e].version = 1 /\ Signs(evidence'[e], users, Thrown(e, drawer))
      BY <1>3, <2>2, <2>4
    <2> QED
      BY <1>1, <1>3, <2>4, <2>5, WritingFits
  <1>5. ASSUME NEW u \in Live(users), NEW e \in Live(evidence), NEW seen, SaveEvidence(u, e, seen)
        PROVE  ShownOk' /\ CheckedOk' /\ DrawerOk'
    <2> DEFINE old == evidence[e]
               new(in, keeps) == [old EXCEPT !.text = in.text, !.link = in.link, !.verified = in.verified,
                                   !.version = @ + 1, !.by = IF keeps THEN @ ELSE Signed(u, in),
                                   !.checked = IF keeps THEN @ ELSE Seen(u, in)]
    <2>1. PICK in \in Wanted(old.prop) :
            evidence' = [evidence EXCEPT ![e] = new(in, old.verified /\ in.verified /\ sameContent(old, in))]
      BY <1>5 DEF SaveEvidence
    <2> DEFINE keeps == old.verified /\ in.verified /\ sameContent(old, in)
               row == new(in, keeps)
    <2>2. e \in DOMAIN evidence /\ old \in EvidenceRow /\ old # None
      BY <1>3 DEF Live
    <2>3. Vouched(old) /\ \A a \in old.by : Current(a, users, Thrown(e, drawer))
      BY <1>3 DEF CheckedOk
    <2> HIDE DEF old
    <2>4. /\ row.version = old.version + 1 /\ row.text = in.text /\ row.verified = in.verified
          /\ row.by = IF keeps THEN old.by ELSE Signed(u, in)
          /\ row.checked = IF keeps THEN old.checked ELSE Seen(u, in)
          /\ row = [old EXCEPT !.text = in.text, !.link = in.link, !.verified = in.verified,
                      !.version = row.version, !.by = row.by, !.checked = row.checked]
      BY <2>2 DEF EvidenceRow
    <2>5. keeps => old.verified /\ in.text = old.text
      BY DEF sameContent
    <2>6. evidence' = [evidence EXCEPT ![e] = row]
      BY <2>1
    <2> HIDE DEF row, keeps
    <2>7. Signs(row, users, Thrown(e, drawer))
      <3>1. /\ \A a \in Signed(u, in) : Current(a, users, Thrown(e, drawer))
            /\ in.verified => Seen(u, in) # None /\ Seen(u, in).text = in.text /\ Signed(u, in) \subseteq {Seen(u, in).who}
        BY <1>3, SigningFits
      <3> QED
        BY <2>3, <2>4, <2>5, <3>1 DEF Signs, Vouched
    <2>8. row \in EvidenceRow
      <3>1. /\ row.version \in Nat \ {0} /\ row.by \in SUBSET Person /\ row.checked \in {None} \union Check
            /\ in.text \in Texts /\ in.link \in Link /\ in.verified \in BOOLEAN
        <4>1. /\ Signed(u, in) \in SUBSET Person /\ Seen(u, in) \in {None} \union Check
              /\ in.text \in Texts /\ in.link \in Link /\ in.verified \in BOOLEAN
          BY <1>3, SigningFits
        <4> QED
          BY <2>2, <2>4, <4>1 DEF EvidenceRow
      <3> DEFINE v == row.version
                 b == row.by
                 k == row.checked
      <3>2. row = [old EXCEPT !.text = in.text, !.link = in.link, !.verified = in.verified,
                     !.version = v, !.by = b, !.checked = k]
        BY <2>4
      <3> HIDE DEF v, b, k
      <3>3. v \in Nat \ {0} /\ b \in SUBSET Person /\ k \in {None} \union Check
        BY <3>1 DEF v, b, k
      <3> QED
        BY <2>2, <3>1, <3>2, <3>3 DEF EvidenceRow
    <2>9. /\ evidence' \in Seq(EvidenceRow \union {None}) /\ DOMAIN evidence' = DOMAIN evidence
          /\ evidence'[e] = row /\ \A o \in DOMAIN evidence \ {e} : evidence'[o] = evidence[o]
      BY <1>3, <2>2, <2>6, <2>8
    <2>10. \A o \in DOMAIN evidence :
             \/ evidence'[o] = evidence[o]
             \/ /\ evidence[o] # None /\ evidence'[o].version = evidence[o].version + 1
                /\ Signs(evidence'[o], users, Thrown(o, drawer))
      BY <2>2, <2>4, <2>7, <2>9 DEF old
    <2> QED
      BY <1>1, <1>3, <2>9, <2>10, WritingFits
  <1>6. ShownOk' /\ CheckedOk' /\ DrawerOk'
    BY <1>4, <1>5
  <1> QED
    BY <1>1, <1>2, <1>6 DEF DeskInv, DeskOk

LEMMA Discarding ==
  ASSUME DeskInv, NEW e \in Live(evidence), NEW seen, DeleteEvidence(e, seen)
  PROVE  DeskInv'
  <1> DEFINE old == evidence[e]
             b == [id |-> e, row |-> old, at |-> now, restored |-> FALSE]
             m == Len(drawer) + 1
  <1>1. /\ BoardInv' /\ UsersKept /\ Ticks /\ writes \in Nat /\ now \in Nat /\ UNCHANGED <<cards, users, bin>>
        /\ UNCHANGED <<notes, links, refs, shown>> /\ drawer' = Append(drawer, b)
        /\ evidence' = [evidence EXCEPT ![e] = None]
    BY DeskAside, Zenon DEF DeskInv, DeleteEvidence
  <1>2. NotesOk' /\ LinksOk'
    BY <1>1, NotesStay DEF DeskInv, DeskOk, LinksOk
  <1>3. /\ evidence \in Seq(EvidenceRow \union {None}) /\ None \notin EvidenceRow
        /\ ShownOk /\ CheckedOk /\ DrawerOk /\ Listed(drawer)
    BY EvidenceAssumption DEF DeskInv, DeskOk, ShownOk, DrawerOk
  <1>4. e \in DOMAIN evidence /\ old \in EvidenceRow /\ evidence[e] # None
    BY <1>3 DEF Live
  <1>5. /\ evidence' \in Seq(EvidenceRow \union {None}) /\ DOMAIN evidence' = DOMAIN evidence
        /\ evidence'[e] = None /\ \A o \in DOMAIN evidence \ {e} : evidence'[o] = evidence[o]
    BY <1>1, <1>3, <1>4
  <1>6. Live(evidence') = Live(evidence) \ {e}
    BY <1>4, <1>5 DEF Live
  <1>7. ShownOk'
    BY <1>1, <1>3, <1>5, <1>6, QuietShown DEF Live
  <1>9. b.id = e /\ b.row = old /\ b.at = now /\ ~ b.restored /\ IsDrawn(b, evidence)
    BY <1>1, <1>4 DEF IsDrawn
  <1>10. Vouched(old) /\ (\A a \in old.by : Known(a, now, users, Thrown(e, drawer))) /\ Len(shown[e]) = old.version
    BY <1>3 DEF CheckedOk, ShownOk, Known, Current
  <1> HIDE DEF b, old
  <1>11. /\ Listed(drawer') /\ DOMAIN drawer' = DOMAIN drawer \union {m} /\ drawer'[m] = b /\ m \notin DOMAIN drawer
         /\ \A n \in DOMAIN drawer : drawer'[n] = drawer[n]
    <2>1. /\ Listed(drawer') /\ DOMAIN drawer' = DOMAIN drawer \union {m} /\ drawer'[m] = b /\ Len(drawer) \in Nat
          /\ DOMAIN drawer = 1 .. Len(drawer) /\ \A n \in DOMAIN drawer : drawer'[n] = drawer[n]
      BY <1>1, <1>3, ListedAppend
    <2> QED
      BY <2>1
  <1> HIDE DEF m
  <1>15. \A o : Thrown(o, drawer) \subseteq Thrown(o, drawer')
    BY <1>11 DEF Thrown
  <1>8. CheckedOk'
    BY <1>1, <1>3, <1>5, <1>6, <1>15 DEF CheckedOk, Current, Live
  <1>12. \A n \in DOMAIN drawer :
           /\ IsDrawn(drawer[n], evidence') /\ drawer[n].id \in DOMAIN evidence /\ drawer[n].at \in Nat
           /\ drawer[n].restored \in BOOLEAN
           /\ ~ drawer[n].restored => drawer[n].id # e
    BY <1>3, <1>4, <1>5 DEF DrawerOk, IsDrawn
  <1>13. ASSUME NEW n \in DOMAIN drawer'
         PROVE  /\ IsDrawn(drawer'[n], evidence') /\ drawer'[n].at <= now'
                /\ Vouched(drawer'[n].row) /\ \A a \in drawer'[n].row.by : Known(a, drawer'[n].at, users', Thrown(drawer'[n].id, drawer'))
                /\ ~ drawer'[n].restored =>
                     /\ evidence'[drawer'[n].id] = None /\ Len(shown'[drawer'[n].id]) = drawer'[n].row.version
                     /\ \A k \in DOMAIN drawer' \ {n} : drawer'[k].id = drawer'[n].id => drawer'[k].restored
    <2>1. CASE n = m
      <3>1. \A k \in DOMAIN drawer' \ {n} : drawer'[k].id = e => drawer'[k].restored
        BY <1>11, <1>12, <2>1
      <3> QED
        BY <1>1, <1>5, <1>9, <1>10, <1>11, <1>15, <2>1, <3>1 DEF IsDrawn, Known, Ticks
    <2>2. CASE n \in DOMAIN drawer
      <3>1. drawer'[n] = drawer[n] /\ IsDrawn(drawer[n], evidence')
        BY <1>11, <1>12, <2>2
      <3>2. /\ drawer[n].at <= now' /\ Vouched(drawer[n].row)
            /\ \A a \in drawer[n].row.by : Known(a, drawer[n].at, users', Thrown(drawer[n].id, drawer'))
        <4>1. /\ drawer[n].at <= now /\ Vouched(drawer[n].row) /\ drawer[n].at \in Nat
              /\ \A a \in drawer[n].row.by : Known(a, drawer[n].at, users, Thrown(drawer[n].id, drawer))
          BY <1>3, <1>12, <2>2 DEF DrawerOk
        <4>2. \A a \in drawer[n].row.by : Known(a, drawer[n].at, users', Thrown(drawer[n].id, drawer'))
          BY <1>1, <1>15, <4>1, KnownKept
        <4> QED
          BY <1>1, <4>1, <4>2 DEF Ticks
      <3>3. ASSUME ~ drawer[n].restored
            PROVE  /\ evidence'[drawer[n].id] = None /\ Len(shown[drawer[n].id]) = drawer[n].row.version
                   /\ \A k \in DOMAIN drawer' \ {n} : drawer'[k].id = drawer[n].id => drawer'[k].restored
        <4>1. drawer[n].id # e /\ drawer[n].id \in DOMAIN evidence
          BY <1>12, <2>2, <3>3
        <4>2. evidence[drawer[n].id] = None /\ Len(shown[drawer[n].id]) = drawer[n].row.version
          BY <1>3, <2>2, <3>3 DEF DrawerOk
        <4>3. \A k \in DOMAIN drawer \ {n} : drawer[k].id = drawer[n].id => drawer[k].restored
          BY <1>3, <2>2, <3>3 DEF DrawerOk
        <4> QED
          BY <1>5, <1>9, <1>11, <4>1, <4>2, <4>3
      <3> QED
        BY <1>1, <3>1, <3>2, <3>3
    <2> QED
      BY <1>11, <2>1, <2>2
  <1>14. DrawerOk'
    BY <1>11, <1>13 DEF DrawerOk
  <1> QED
    BY <1>1, <1>2, <1>7, <1>8, <1>14 DEF DeskInv, DeskOk

LEMMA TakingUp ==
  ASSUME DeskInv, NEW m \in DOMAIN drawer, RestoreEvidence(m)
  PROVE  DeskInv'
  <1> DEFINE b == drawer[m]
             e == drawer[m].id
             old == drawer[m].row
             w == StillThere(old.by, drawer[m].at)
             row == [old EXCEPT !.by = w, !.version = @ + 1]
  <1>1. /\ BoardInv' /\ UsersKept /\ Ticks /\ writes \in Nat /\ now \in Nat /\ UNCHANGED <<cards, users, bin>>
        /\ UNCHANGED <<notes, links, refs>> /\ Shown /\ ~ b.restored
    BY DeskAside, Zenon DEF DeskInv, RestoreEvidence
  <1>2. evidence' = [evidence EXCEPT ![e] = row] /\ drawer' = [drawer EXCEPT ![m].restored = TRUE]
    BY DEF RestoreEvidence
  <1>3. NotesOk' /\ LinksOk'
    BY <1>1, NotesStay DEF DeskInv, DeskOk, LinksOk
  <1>4. /\ evidence \in Seq(EvidenceRow \union {None}) /\ None \notin EvidenceRow
        /\ ShownOk /\ CheckedOk /\ DrawerOk /\ Listed(drawer)
    BY EvidenceAssumption DEF DeskInv, DeskOk, ShownOk, DrawerOk
  <1>5. /\ b \in [id : DOMAIN evidence, row : EvidenceRow, at : Nat, restored : BOOLEAN]
        /\ old \in EvidenceRow /\ e \in DOMAIN evidence /\ Vouched(old) /\ evidence[e] = None
        /\ Len(shown[e]) = old.version
    BY <1>1, <1>4 DEF DrawerOk, IsDrawn
  <1>6. \A a \in w : a \in old.by /\ Current(a, users, Thrown(e, drawer))
    <2>1. \A a \in w : a \in old.by /\ users[a.id] # None /\ users[a.id].second <= b.at /\ Known(a, b.at, users, Thrown(e, drawer))
      BY <1>4 DEF StillThere, DrawerOk
    <2>2. \A a \in w : a.id \in DOMAIN users /\ users[a.id].second \in Nat /\ b.at \in Nat
      BY <1>5, <2>1 DEF Known, DeskInv, BoardInv, BoardOk, TypeOK, Moment
    <2>3. b.at \in Thrown(e, drawer)
      BY DEF Thrown
    <2> QED
      BY <2>1, <2>2, <2>3 DEF Known, Current
  <1>7. w \in SUBSET Person /\ w \subseteq old.by
    BY <1>5, <1>6 DEF EvidenceRow
  <1> HIDE DEF w, old
  <1>8. /\ row \in EvidenceRow /\ row.by = w /\ row.version = old.version + 1 /\ row.text = old.text
        /\ row.verified = old.verified /\ row.checked = old.checked
    <2>1. old.version + 1 \in Nat \ {0}
      BY <1>5 DEF EvidenceRow
    <2> DEFINE v == old.version + 1
    <2>2. row = [old EXCEPT !.by = w, !.version = v]
      OBVIOUS
    <2> HIDE DEF v
    <2> QED
      BY <1>5, <1>7, <2>1, <2>2 DEF EvidenceRow, v
  <1> HIDE DEF row, e
  <1>9. /\ evidence' \in Seq(EvidenceRow \union {None}) /\ DOMAIN evidence' = DOMAIN evidence
        /\ evidence'[e] = row /\ \A o \in DOMAIN evidence \ {e} : evidence'[o] = evidence[o]
    BY <1>2, <1>4, <1>5, <1>8
  <1>10. ShownOk' /\ \A o \in DOMAIN evidence : evidence'[o] = None => shown'[o] = shown[o]
    <2>1. \A o \in DOMAIN evidence :
            \/ evidence'[o] = None
            \/ evidence[o] # None /\ evidence'[o] = evidence[o]
            \/ evidence'[o].version = Len(shown[o]) + 1
      BY <1>5, <1>8, <1>9
    <2> QED
      BY <1>1, <1>4, <1>9, <2>1, ShownFits
  <1>12. /\ DOMAIN drawer' = DOMAIN drawer /\ Listed(drawer') /\ drawer'[m] = [b EXCEPT !.restored = TRUE]
         /\ \A n \in DOMAIN drawer \ {m} : drawer'[n] = drawer[n]
    <2>1. DOMAIN drawer' = DOMAIN drawer /\ drawer' = [n \in DOMAIN drawer |-> drawer'[n]]
      BY <1>2
    <2> QED
      BY <1>2, <1>4, <2>1, ListedOver
  <1>13. /\ drawer'[m].id = e /\ drawer'[m].row = old /\ drawer'[m].at = b.at /\ drawer'[m].restored
         /\ drawer'[m] \in [id : DOMAIN evidence, row : EvidenceRow, at : Nat, restored : BOOLEAN]
    BY <1>5, <1>12 DEF e, old
  <1>16. \A o : Thrown(o, drawer') = Thrown(o, drawer)
    <2>1. \A n \in DOMAIN drawer : drawer'[n].id = drawer[n].id /\ drawer'[n].at = drawer[n].at
      BY <1>12, <1>13 DEF e
    <2> QED
      BY <1>12, <2>1 DEF Thrown
  <1>11. CheckedOk'
    <2>1. Vouched(row) /\ \A a \in row.by : Current(a, users, Thrown(e, drawer))
      BY <1>5, <1>6, <1>7, <1>8 DEF Vouched
    <2> QED
      BY <1>1, <1>4, <1>9, <1>16, <2>1 DEF CheckedOk, Live
  <1>14. ASSUME NEW n \in DOMAIN drawer
         PROVE  /\ IsDrawn(drawer'[n], evidence') /\ drawer'[n].at <= now'
                /\ Vouched(drawer'[n].row) /\ \A a \in drawer'[n].row.by : Known(a, drawer'[n].at, users', Thrown(drawer'[n].id, drawer'))
                /\ ~ drawer'[n].restored =>
                     /\ evidence'[drawer'[n].id] = None /\ Len(shown'[drawer'[n].id]) = drawer'[n].row.version
                     /\ \A k \in DOMAIN drawer' \ {n} : drawer'[k].id = drawer'[n].id => drawer'[k].restored
    <2>1. /\ drawer'[n].id = drawer[n].id /\ drawer'[n].row = drawer[n].row /\ drawer'[n].at = drawer[n].at
          /\ drawer[n].restored => drawer'[n].restored
      BY <1>12, <1>13 DEF e, old
    <2>2. /\ IsDrawn(drawer[n], evidence) /\ drawer[n].at <= now /\ drawer[n].at \in Nat
          /\ Vouched(drawer[n].row) /\ \A a \in drawer[n].row.by : Known(a, drawer[n].at, users, Thrown(drawer[n].id, drawer))
      BY <1>4 DEF DrawerOk, IsDrawn
    <2>3. IsDrawn(drawer'[n], evidence')
      BY <1>9, <1>12, <1>13, <2>2 DEF IsDrawn
    <2>4. ASSUME ~ drawer'[n].restored
          PROVE  /\ evidence'[drawer[n].id] = None /\ Len(shown'[drawer[n].id]) = drawer[n].row.version
                 /\ \A k \in DOMAIN drawer \ {n} : drawer[k].id = drawer[n].id => drawer'[k].restored
      <3>1. n # m /\ ~ drawer[n].restored
        BY <1>13, <2>1, <2>4
      <3>2. /\ evidence[drawer[n].id] = None /\ Len(shown[drawer[n].id]) = drawer[n].row.version
            /\ \A k \in DOMAIN drawer \ {n} : drawer[k].id = drawer[n].id => drawer[k].restored
        BY <1>4, <3>1 DEF DrawerOk
      <3>3. drawer[n].id # e /\ drawer[n].id \in DOMAIN evidence
        BY <1>1, <2>2, <3>1, <3>2 DEF e, IsDrawn
      <3>4. \A k \in DOMAIN drawer : drawer[k].restored => drawer'[k].restored
        BY <1>12, <1>13
      <3>5. evidence'[drawer[n].id] = None
        BY <1>9, <3>2, <3>3
      <3> QED
        BY <1>10, <3>2, <3>3, <3>4, <3>5
    <2>5. \A k \in DOMAIN drawer : drawer'[k].id = drawer[k].id
      BY <1>12, <1>13 DEF e
    <2> QED
      BY <1>1, <1>12, <1>16, <2>1, <2>2, <2>3, <2>4, <2>5 DEF Ticks
  <1>15. DrawerOk'
    BY <1>12, <1>14 DEF DrawerOk
  <1> QED
    BY <1>1, <1>3, <1>10, <1>11, <1>15 DEF DeskInv, DeskOk

LEMMA Unlinking ==
  ASSUME DeskInv, NEW l \in links, DeleteLink(l)
  PROVE  DeskInv'
  <1> DEFINE named == {e \in Live(evidence) : evidence[e].link = l}
  <1>1. /\ BoardInv' /\ UsersKept /\ writes' \in Nat /\ now' \in Nat /\ now' >= now /\ UNCHANGED <<cards, users, bin>>
        /\ UNCHANGED <<notes, shown, drawer>>
    BY DeskAside, Zenon DEF DeskInv, DeleteLink
  <1>2. NotesOk'
    BY <1>1, NotesStay DEF DeskInv, DeskOk
  <1>3. /\ evidence \in Seq(EvidenceRow \union {None}) /\ None \notin EvidenceRow
        /\ ShownOk /\ CheckedOk /\ DrawerOk /\ BoardOk /\ l \in DOMAIN LinkOf
    BY EvidenceAssumption DEF DeskInv, DeskOk, BoardInv, ShownOk, LinksOk
  <1>4. LinksOk'
    BY DEF DeskInv, DeskOk, LinksOk, DeleteLink
  <1>5. refs'[l] = named
    BY <1>3 DEF DeleteLink, DeskInv, DeskOk, LinksOk
  <1>6. evidence' = [e \in DOMAIN evidence |-> IF e \in named THEN [evidence[e] EXCEPT !.link = None] ELSE evidence[e]]
    BY <1>5 DEF DeleteLink
  <1>7. ASSUME NEW e \in DOMAIN evidence
        PROVE  \/ evidence'[e] = evidence[e]
               \/ /\ evidence[e] # None /\ evidence'[e] \in EvidenceRow /\ evidence'[e].by = evidence[e].by
                  /\ evidence'[e].version = evidence[e].version /\ evidence'[e].text = evidence[e].text
                  /\ evidence'[e].link = None /\ evidence'[e].verified = evidence[e].verified
                  /\ evidence'[e].checked = evidence[e].checked
    <2>1. CASE e \in named
      <3>1. evidence[e] # None /\ evidence[e] \in EvidenceRow
        BY <1>3, <2>1 DEF Live
      <3>2. evidence'[e] = [evidence[e] EXCEPT !.link = None]
        BY <1>6, <2>1
      <3> QED
        BY <3>1, <3>2 DEF EvidenceRow, Link
    <2>2. CASE e \notin named
      BY <1>6, <2>2
    <2> QED
      BY <2>1, <2>2
  <1> HIDE DEF named
  <1>8. evidence' \in Seq(EvidenceRow \union {None}) /\ DOMAIN evidence' = DOMAIN evidence
    <2>1. DOMAIN evidence = 1 .. Len(evidence) /\ Len(evidence) \in Nat
      BY <1>3
    <2>2. evidence' = [e \in 1 .. Len(evidence) |-> evidence'[e]]
      BY <1>6, <2>1
    <2>3. \A e \in 1 .. Len(evidence) : evidence'[e] \in EvidenceRow \union {None}
      BY <1>3, <1>7, <2>1
    <2> QED
      BY <2>1, <2>2, <2>3
  <1>9. \A e \in Live(evidence') : e \in Live(evidence)
    BY <1>7, <1>8 DEF Live
  <1>10. ShownOk'
    BY <1>1, <1>3, <1>7, <1>8, <1>9, QuietShown DEF Live
  <1>11. CheckedOk'
    BY <1>1, <1>3, <1>7, <1>8, <1>9 DEF CheckedOk, Vouched, Live
  <1>12. DrawerOk'
    <2>1. \A e \in DOMAIN evidence : evidence[e] = None => evidence'[e] = None /\ shown'[e] = shown[e]
      BY <1>1, <1>7
    <2> QED
      BY <1>1, <1>3, <1>8, <2>1, QuietDrawer
  <1> QED
    BY <1>1, <1>2, <1>4, <1>10, <1>11, <1>12 DEF DeskInv, DeskOk

LEMMA Relinking ==
  ASSUME DeskInv, NEW l \in DOMAIN LinkOf, RestoreLink(l)
  PROVE  DeskInv'
  <1> DEFINE again == {e \in refs[l] \cap Live(evidence) : evidence[e].link = None}
  <1>1. /\ BoardInv' /\ UsersKept /\ writes' \in Nat /\ now' \in Nat /\ now' >= now /\ UNCHANGED <<cards, users, bin>>
        /\ UNCHANGED <<notes, refs, drawer>> /\ Shown
    BY DeskAside, Zenon DEF DeskInv, RestoreLink
  <1>2. NotesOk'
    BY <1>1, NotesStay DEF DeskInv, DeskOk
  <1>3. /\ evidence \in Seq(EvidenceRow \union {None}) /\ None \notin EvidenceRow
        /\ ShownOk /\ CheckedOk /\ DrawerOk /\ BoardOk
    BY EvidenceAssumption DEF DeskInv, DeskOk, BoardInv, ShownOk
  <1>4. LinksOk'
    BY DEF DeskInv, DeskOk, LinksOk, RestoreLink
  <1>5. evidence' = [e \in DOMAIN evidence |->
          IF e \in again THEN [evidence[e] EXCEPT !.link = l, !.version = @ + 1] ELSE evidence[e]]
    BY DEF RestoreLink
  <1>6. again \subseteq Live(evidence)
    OBVIOUS
  <1> HIDE DEF again
  <1>7. ASSUME NEW e \in DOMAIN evidence
        PROVE  \/ evidence'[e] = evidence[e]
               \/ /\ evidence[e] # None /\ evidence'[e] \in EvidenceRow
                  /\ evidence'[e].version = evidence[e].version + 1 /\ Signs(evidence'[e], users, Thrown(e, drawer))
    <2>1. CASE e \in again
      <3>1. /\ evidence[e] # None /\ evidence[e] \in EvidenceRow
            /\ Vouched(evidence[e]) /\ \A a \in evidence[e].by : Current(a, users, Thrown(e, drawer))
        BY <1>3, <1>6, <2>1 DEF Live, CheckedOk
      <3> DEFINE v == evidence[e].version + 1
      <3>2. v \in Nat \ {0} /\ l \in Link
        BY <3>1 DEF EvidenceRow, Link
      <3>3. evidence'[e] = [evidence[e] EXCEPT !.link = l, !.version = v]
        BY <1>5, <2>1
      <3> HIDE DEF v
      <3>4. /\ evidence'[e] \in EvidenceRow /\ evidence'[e].version = v /\ evidence'[e].by = evidence[e].by
            /\ evidence'[e].text = evidence[e].text /\ evidence'[e].verified = evidence[e].verified
            /\ evidence'[e].checked = evidence[e].checked
        BY <3>1, <3>2, <3>3 DEF EvidenceRow
      <3> QED
        BY <3>1, <3>4 DEF v, Signs, Vouched
    <2>2. CASE e \notin again
      BY <1>5, <2>2
    <2> QED
      BY <2>1, <2>2
  <1>8. evidence' \in Seq(EvidenceRow \union {None}) /\ DOMAIN evidence' = DOMAIN evidence
    <2>1. DOMAIN evidence = 1 .. Len(evidence) /\ Len(evidence) \in Nat
      BY <1>3
    <2>2. evidence' = [e \in 1 .. Len(evidence) |-> evidence'[e]]
      BY <1>5, <2>1
    <2>3. \A e \in 1 .. Len(evidence) : evidence'[e] \in EvidenceRow \union {None}
      BY <1>3, <1>7, <2>1
    <2> QED
      BY <2>1, <2>2, <2>3
  <1>9. ShownOk' /\ CheckedOk' /\ DrawerOk'
    BY <1>1, <1>3, <1>7, <1>8, WritingFits
  <1> QED
    BY <1>1, <1>2, <1>4, <1>9 DEF DeskInv, DeskOk

LEMMA BoardFollows ==
  ASSUME DeskInv, BoardStep
  PROVE  DeskInv'
  <1>1. Next /\ NotesAfter /\ EvidenceAfter /\ UNCHANGED <<refs, shown, drawer>>
    BY Zenon DEF BoardStep, Around, Next
  <1>2. BoardOk' /\ HomesKept /\ TrashKept /\ LogSteps
    BY <1>1, BoardSteps DEF DeskInv, BoardInv
  <1>3. LogOk'
    BY <1>2, LogKept DEF DeskInv, BoardInv
  <1>4. NotesOk'
    BY <1>1, <1>2, NotesFollow DEF DeskInv, DeskOk, BoardInv
  <1>5. ShownOk' /\ CheckedOk' /\ DrawerOk' /\ LinksOk'
    BY <1>1, <1>2, EvidenceFollows DEF DeskInv, DeskOk, BoardInv
  <1> QED
    BY <1>2, <1>3, <1>4, <1>5 DEF DeskInv, DeskOk, BoardInv

LEMMA DeskStarts ==
  ASSUME DeskInit
  PROVE  DeskInv
  <1>1. BoardInv
    BY BoardStarts DEF DeskInit
  <1>2. /\ Init /\ users = <<Start>> /\ cards = FirstCards /\ bin = <<>> /\ drawer = <<>>
        /\ links = DOMAIN LinkOf /\ DOMAIN refs = DOMAIN LinkOf
        /\ shown = [e \in DOMAIN evidence |-> <<Content(evidence[e])>>]
        /\ notes = FirstNotes \/ notes = <<>>
        /\ evidence = FirstEvidence \/ evidence = <<>>
    BY DEF DeskInit, Init
  <1>3. \A gone : \A a \in {[id |-> 1, made |-> Start]} : Current(a, users, gone)
    <2>1. Start # None
      BY BoardAssumption DEF Start, Moment
    <2> QED
      BY <1>2, <2>1 DEF Current
  <1>4. NotesOk
    <2>1. notes \in Seq(NoteRow) /\ \A n \in DOMAIN notes :
            notes[n].card \in DOMAIN cards /\ notes[n].by \subseteq {[id |-> 1, made |-> Start]}
      <3>1. CASE notes = FirstNotes
        BY <1>2, <3>1, EvidenceAssumption
      <3>2. CASE notes = <<>>
        BY <3>2
      <3> QED
        BY <1>2, <3>1, <3>2
    <2>2. notes \in Seq(NoteRow \union {None}) /\ DOMAIN bin = {}
      BY <1>2, <2>1
    <2> QED
      BY <1>3, <2>1, <2>2 DEF NotesOk, Live
  <1>5. /\ evidence \in Seq(EvidenceRow)
        /\ \A e \in DOMAIN evidence :
             evidence[e].version = 1 /\ evidence[e].by \subseteq {[id |-> 1, made |-> Start]} /\ Vouched(evidence[e])
    BY <1>2, EvidenceAssumption DEF Vouched
  <1>6. ShownOk
    <2>1. ASSUME NEW e \in DOMAIN evidence
          PROVE  /\ shown[e] \in Seq(ContentRow) /\ Len(shown[e]) = 1
                 /\ shown[e][1].text = evidence[e].text /\ shown[e][1].link = evidence[e].link
      <3> DEFINE x == Content(evidence[e])
      <3>1. evidence[e] \in EvidenceRow
        BY <1>5
      <3>2. x \in ContentRow /\ x.text = evidence[e].text /\ x.link = evidence[e].link
        BY <3>1 DEF Content, ContentRow, EvidenceRow
      <3>3. shown[e] = <<x>>
        BY <1>2
      <3> HIDE DEF x
      <3> QED
        BY <3>2, <3>3
    <2>2. evidence \in Seq(EvidenceRow \union {None}) /\ DOMAIN shown = DOMAIN evidence
      BY <1>2, <1>5
    <2> QED
      BY <1>5, <2>1, <2>2 DEF ShownOk, Live
  <1>7. CheckedOk
    BY <1>3, <1>5 DEF CheckedOk, Live
  <1>8. DrawerOk /\ LinksOk
    BY <1>2 DEF DrawerOk, LinksOk, Listed
  <1> QED
    BY <1>1, <1>4, <1>6, <1>7, <1>8 DEF DeskInv, DeskOk

LEMMA DeskSteps ==
  ASSUME DeskInv, DeskNext
  PROVE  DeskInv'
  <1>1. CASE BoardStep
    BY <1>1, BoardFollows
  <1>2. CASE \/ \E u \in Live(users), c \in Live(cards) : PostComment(u, c)
             \/ \E u \in Live(users), n \in {m \in Live(notes) : notes[m].card \in Live(cards)} : DeleteComment(u, n)
    BY <1>2, Commenting
  <1>3. CASE \/ \E u \in Live(users), p \in Props : CreateEvidence(u, p)
             \/ \E u \in Live(users), e \in Live(evidence) :
                  \E seen \in 1 .. evidence[e].version : SaveEvidence(u, e, seen)
    BY <1>3, Checking
  <1>4. CASE \E e \in Live(evidence) : \E seen \in 1 .. evidence[e].version : DeleteEvidence(e, seen)
    BY <1>4, Discarding
  <1>5. CASE \E n \in DOMAIN drawer : RestoreEvidence(n)
    BY <1>5, TakingUp
  <1>6. CASE \E l \in links : DeleteLink(l)
    BY <1>6, Unlinking
  <1>7. CASE \E l \in DOMAIN LinkOf \ links : RestoreLink(l)
    BY <1>7, Relinking
  <1> QED
    BY <1>1, <1>2, <1>3, <1>4, <1>5, <1>6, <1>7, Zenon DEF DeskNext

LEMMA DeskStill ==
  ASSUME DeskInv, UNCHANGED allvars
  PROVE  DeskInv'
  <1>1. UNCHANGED <<columns, cards, users, bin, template, log, told, writes, now, notes, evidence, links, refs, shown, drawer>>
    BY DEF allvars, vars, desk
  <1>2. BoardInv'
    BY <1>1 DEF DeskInv, BoardInv, BoardOk, TypeOK, BinOk, Titled, Named, CardsAtHome, KeysDistinct, OneTemplate,
                ColumnsOf, LogOk
  <1>3. DeskOk'
    BY <1>1 DEF DeskInv, DeskOk, NotesOk, ShownOk, CheckedOk, DrawerOk, LinksOk
  <1> QED
    BY <1>2, <1>3 DEF DeskInv

-----------------------------------------------------------------------------
(* Boards, their trash and what is signed beside them are what the         *)
(* inductive invariant says, whatever is done to them in whatever order:   *)
(* moves, undo, deletion and restoring (internal/core, internal/board,     *)
(* internal/workflow), for every number of writes.                         *)
THEOREM DeskInvariant == DeskSpec => []DeskInv
  <1>1. DeskInit => DeskInv
    BY DeskStarts
  <1>2. DeskInv /\ [DeskNext]_allvars => DeskInv'
    BY DeskSteps, DeskStill
  <1> QED
    BY <1>1, <1>2, PTL DEF DeskSpec

(* A card stands in a column of its own proposition, no two of a column    *)
(* share a key, and a proposition has the one template card recorded of    *)
(* it: through moves (board.moveCard), undo (core.undo) and the trash      *)
(* (core.restoreDeleted).                                                  *)
THEOREM BoardsAreWhole == DeskSpec => []BoardWhole
  <1>1. DeskInv => BoardWhole
    BY DEF DeskInv, BoardInv, BoardOk, BoardWhole
  <1> QED
    BY <1>1, DeskInvariant, PTL

(* A version of a card or of a piece of evidence stands for what it was    *)
(* seen to hold, so that an edit made of a version is of what its writer   *)
(* saw: through undo, the trash and links that go and come back.           *)
THEOREM EditsAreMeant == DeskSpec => []EditsMeant
  <1>1. DeskInv => EditsMeant
    BY DEF DeskInv, BoardInv, BoardOk, DeskOk, Titled, ShownOk, EditsMeant, VersionsTell, EvidenceTells
  <1> QED
    BY <1>1, DeskInvariant, PTL

(* Whoever a card, a comment or a check names is who was named, through    *)
(* the deletion of accounts, ids given again and the trash                 *)
(* (core.restoreDeleted, which looks at when the account was made): but    *)
(* for accounts made in the very second of a deletion, which it lets by.   *)
THEOREM NamesAreMeant == DeskSpec => []NamesMeant
  <1>1. DeskInv => AssigneesMeant
    BY DEF DeskInv, BoardInv, BoardOk, Named, Current, AssigneesMeant, Meant, Deletions, Gone
  <1>2. DeskInv => AuthorsMeant
    BY DEF DeskInv, DeskOk, NotesOk, Current, AuthorsMeant, Meant, Deletions, Gone, Live
  <1>3. DeskInv => CheckersMeant
    BY DEF DeskInv, DeskOk, CheckedOk, Vouched, Current, CheckersMeant, Meant, Discards, Thrown
  <1> QED
    BY <1>1, <1>2, <1>3, DeskInvariant, PTL DEF NamesMeant

==============================================================================

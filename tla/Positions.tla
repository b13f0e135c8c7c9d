------------------------------ MODULE Positions ------------------------------
(***************************************************************************)
(* The ordering keys of blocks, cards, columns and checklist items         *)
(* (internal/frac).  A key is a sequence of digits, read as the fraction   *)
(* 0.key; comparing keys digit by digit compares the fractions.  The code  *)
(* has 62 digits; Digits is their number.                                  *)
(***************************************************************************)
EXTENDS Integers, Sequences, FiniteSets

CONSTANT Digits

ASSUME DigitsAssumption == Digits \in Nat /\ Digits >= 3

\* A key is not empty, is made of digits and does not end in nought.
Valid(key) == /\ key \in Seq(0 .. Digits - 1)
              /\ key # <<>>
              /\ key[Len(key)] # 0
Key == {key \in Seq(0 .. Digits - 1) : Valid(key)}

\* What a byte-wise comparison of the two strings answers.
Below(a, b) ==
  \E n \in 1 .. Len(b) :
    /\ \A i \in 1 .. n - 1 : i <= Len(a) /\ a[i] = b[i]
    /\ n > Len(a) \/ a[n] < b[n]

\* The digit at a place of the fraction, and a's first digits followed by x.
Digit(a, n) == IF n <= Len(a) THEN a[n] ELSE 0
Extend(a, n, x) == Append([i \in 1 .. n - 1 |-> Digit(a, i)], x)

\* The smallest key above a: a digit more, not half of the space that is left.
NextKey(a) ==
  LET full == {n \in 0 .. Len(a) : \A i \in n + 1 .. Len(a) : a[i] = Digits - 1}
      n    == CHOOSE n \in full : \A k \in full : n <= k
  IN  IF n = 0 THEN Append(a, 1) ELSE Append(SubSeq(a, 1, n - 1), a[n] + 1)

\* A key between the fractions a and b; an empty a is 0 and an empty b is 1.
\* Past the digits the two share it takes a digit in the gap, or the upper bound
\* cut short, or else the lower one up to a digit that has room above it.
Midpoint(a, b) ==
  LET Lowest(places) == CHOOSE n \in places : \A k \in places : n <= k
      n == IF b = <<>> THEN 0 ELSE Lowest({i \in 1 .. Len(b) : Digit(a, i) # b[i]})
      m == Lowest({i \in n + 1 .. n + Len(a) + 1 : Digit(a, i) < Digits - 1})
  IN  IF b # <<>> /\ b[n] - Digit(a, n) > 1 THEN Extend(a, n, (Digit(a, n) + b[n] + 1) \div 2)
      ELSE IF n < Len(b) THEN Extend(a, n, b[n])
      ELSE Extend(a, m, (Digit(a, m) + Digits + 1) \div 2)

\* A key after a and before b, where <<>> is the start or the end of the list.
Between(a, b) == IF a # <<>> /\ b = <<>> THEN NextKey(a) ELSE Midpoint(a, b)
==============================================================================

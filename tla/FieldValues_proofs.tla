-------------------------- MODULE FieldValues_proofs --------------------------
(* Proofs about the values of fields.  Of PackedVector: what was packed comes  *)
(* back, for vectors of any strings of any lengths.  Of FieldText: what is     *)
(* written into an INSERT arrives as it was given, and a condition takes the   *)
(* rows that its caller means.                                                 *)
EXTENDS FieldText, PackedVector, SequenceInduction

Value == INSTANCE SequenceInduction WITH Op <- AddDigit

Figures == ToSet(Digits)  \* the ten characters

-----------------------------------------------------------------------------
(* Numbers in decimal.                                                         *)

(* Each figure has its value.                                                  *)
LEMMA FigureValues ==
    /\ \A n \in 0 .. 9 : Digit(n) \in Figures /\ ValueOf(Digit(n)) = n
    /\ \A d \in Figures : ValueOf(d) \in 0 .. 9
    /\ " " \notin Figures
<1>1. DOMAIN Digits = 1 .. 10
  BY DEF Digits
<1>2. \A i, j \in 1 .. 10 : Digits[i] = Digits[j] => i = j
  BY DEF Digits
<1>3. ASSUME NEW n \in 0 .. 9
      PROVE  Digit(n) \in Figures /\ ValueOf(Digit(n)) = n
  <2>1. n + 1 \in 1 .. 10
    OBVIOUS
  <2>2. (CHOOSE i \in DOMAIN Digits : Digits[i] = Digits[n + 1]) = n + 1
    <3>1. \A i \in DOMAIN Digits : Digits[i] = Digits[n + 1] => i = n + 1
      BY <1>1, <1>2, <2>1
    <3>. QED  BY <1>1, <2>1, <3>1
  <2>3. Digit(n) \in Figures
    BY <1>1, <2>1 DEF Digit, Figures, ToSet
  <2>4. ValueOf(Digit(n)) = (n + 1) - 1
    BY <2>2 DEF Digit, ValueOf
  <2>. QED  BY <2>3, <2>4
<1>4. \A d \in Figures : \E n \in 0 .. 9 : d = Digit(n)
  <2>. SUFFICES ASSUME NEW i \in 1 .. 10
                PROVE  \E n \in 0 .. 9 : Digits[i] = Digits[n + 1]
    BY <1>1 DEF Figures, ToSet, Digit
  <2>1. i - 1 \in 0 .. 9 /\ (i - 1) + 1 = i
    OBVIOUS
  <2>. QED  BY <2>1
<1>5. " " \notin Figures
  <2>1. \A i \in 1 .. 10 : Digits[i] # " "
    <3>1. /\ Digits[1] # " " /\ Digits[2] # " " /\ Digits[3] # " " /\ Digits[4] # " "
          /\ Digits[5] # " " /\ Digits[6] # " " /\ Digits[7] # " " /\ Digits[8] # " "
          /\ Digits[9] # " " /\ Digits[10] # " "
      BY DEF Digits
    <3>2. \A i \in 1 .. 10 : \/ i = 1 \/ i = 2 \/ i = 3 \/ i = 4 \/ i = 5
                             \/ i = 6 \/ i = 7 \/ i = 8 \/ i = 9 \/ i = 10
      OBVIOUS
    <3>. QED  BY <3>1, <3>2
  <2>. QED  BY <1>1, <2>1 DEF Figures, ToSet
<1>. QED  BY <1>3, <1>4, <1>5

(* The number without its last figure is smaller, and both make the number.    *)
LEMMA DivMod ==
    ASSUME NEW n \in Nat, n >= 10
    PROVE  /\ n \div 10 \in Nat /\ n \div 10 < n
           /\ n % 10 \in 0 .. 9
           /\ n = 10 * (n \div 10) + (n % 10)
OBVIOUS

(* A function with the recursion of Decimal for the numbers below m.           *)
DecimalTo(f, m) ==
    f = [n \in 0 .. m - 1 |-> IF n < 10 THEN <<Digit(n)>>
                              ELSE f[n \div 10] \o <<Digit(n % 10)>>]

(* There is one for every m.                                                   *)
LEMMA DecimalToExists ==
    ASSUME NEW k \in Nat
    PROVE  \E f : DecimalTo(f, k)
<1>. DEFINE T == {m \in Nat : \E f : DecimalTo(f, m)}
<1>1. 0 \in T
  <2>1. DecimalTo([n \in 0 .. 0 - 1 |-> <<>>], 0)
    BY DEF DecimalTo
  <2>. QED  BY <2>1
<1>2. ASSUME NEW m \in Nat, m \in T
      PROVE  m + 1 \in T
  <2>1. PICK f : DecimalTo(f, m)
    BY <1>2
  <2>. DEFINE g == [n \in 0 .. (m + 1) - 1 |->
                       IF n < m THEN f[n]
                       ELSE IF n < 10 THEN <<Digit(n)>>
                       ELSE f[n \div 10] \o <<Digit(n % 10)>>]
              h == [n \in 0 .. (m + 1) - 1 |->
                       IF n < 10 THEN <<Digit(n)>>
                       ELSE g[n \div 10] \o <<Digit(n % 10)>>]
  <2>2. ASSUME NEW n \in 0 .. (m + 1) - 1
        PROVE  g[n] = IF n < 10 THEN <<Digit(n)>>
                      ELSE g[n \div 10] \o <<Digit(n % 10)>>
    <3>1. n >= 10 => n \div 10 \in 0 .. (m + 1) - 1 /\ n \div 10 < m
      BY DivMod
    <3>2. n >= 10 => g[n \div 10] = f[n \div 10]
      BY <3>1
    <3>3. CASE n < m
      <4>1. f[n] = IF n < 10 THEN <<Digit(n)>>
                   ELSE f[n \div 10] \o <<Digit(n % 10)>>
        <5>1. n \in 0 .. m - 1
          BY <3>3
        <5>. QED  BY <2>1, <5>1 DEF DecimalTo
      <4>. QED  BY <3>2, <3>3, <4>1
    <3>4. CASE ~(n < m)
      BY <3>2, <3>4
    <3>. QED  BY <3>3, <3>4
  <2>3. \A n \in 0 .. (m + 1) - 1 : g[n] = h[n]
    <3>. HIDE DEF g
    <3>. QED  BY <2>2
  <2>4. /\ g = [n \in 0 .. (m + 1) - 1 |-> g[n]]
        /\ h = [n \in 0 .. (m + 1) - 1 |-> h[n]]
    OBVIOUS
  <2>5. g = h
    <3>. HIDE DEF g, h
    <3>. QED  BY <2>3, <2>4
  <2>6. \E e : DecimalTo(e, m + 1)
    <3>. HIDE DEF g
    <3>. QED  BY <2>5 DEF DecimalTo
  <2>. QED  BY <2>6
<1>3. Nat \subseteq T
  <2>. HIDE DEF T
  <2>. QED  BY <1>1, <1>2, SetInduction
<1>. QED  BY <1>3

(* They agree where both are defined.                                          *)
LEMMA DecimalToUnique ==
    ASSUME NEW f, NEW g, NEW k \in Nat, NEW m \in Nat,
           DecimalTo(f, k), DecimalTo(g, m)
    PROVE  \A n \in Nat : n < k /\ n < m => f[n] = g[n]
<1>. DEFINE T == {n \in Nat : n < k /\ n < m => f[n] = g[n]}
<1>1. ASSUME NEW n \in Nat, \A l \in Nat : l < n => l \in T
      PROVE  n \in T
  <2>. SUFFICES ASSUME n < k, n < m
                PROVE  f[n] = g[n]
    OBVIOUS
  <2>1. /\ f[n] = IF n < 10 THEN <<Digit(n)>> ELSE f[n \div 10] \o <<Digit(n % 10)>>
        /\ g[n] = IF n < 10 THEN <<Digit(n)>> ELSE g[n \div 10] \o <<Digit(n % 10)>>
    <3>1. n \in 0 .. k - 1 /\ n \in 0 .. m - 1
      OBVIOUS
    <3>. QED  BY <3>1 DEF DecimalTo
  <2>2. n >= 10 => n \div 10 \in Nat /\ n \div 10 < n
    BY DivMod
  <2>3. n >= 10 => f[n \div 10] = g[n \div 10]
    BY <1>1, <2>2
  <2>. QED  BY <2>1, <2>3
<1>2. Nat \subseteq T
  <2>. HIDE DEF T
  <2>. QED  BY <1>1, StrongSetInduction
<1>. QED  BY <1>2

(* Decimal meets its recursion.                                                *)
LEMMA DecimalDef ==
    ASSUME NEW n \in Nat
    PROVE  Decimal[n] = IF n < 10 THEN <<Digit(n)>>
                        ELSE Decimal[n \div 10] \o <<Digit(n % 10)>>
<1>. DEFINE Recurs(d) == d = [k \in Nat |-> IF k < 10 THEN <<Digit(k)>>
                                            ELSE d[k \div 10] \o <<Digit(k % 10)>>]
            upto(m) == CHOOSE f : DecimalTo(f, m)
            g == [k \in Nat |-> upto(k + 1)[k]]
            h == [k \in Nat |-> IF k < 10 THEN <<Digit(k)>>
                                ELSE g[k \div 10] \o <<Digit(k % 10)>>]
<1>1. \A m \in Nat : DecimalTo(upto(m), m)
  <2>. SUFFICES ASSUME NEW m \in Nat
                PROVE  DecimalTo(upto(m), m)
    OBVIOUS
  <2>1. \E f : DecimalTo(f, m)
    BY DecimalToExists
  <2>. QED  BY <2>1, Zenon
<1>. HIDE DEF upto
<1>2. ASSUME NEW k \in Nat
      PROVE  g[k] = IF k < 10 THEN <<Digit(k)>>
                    ELSE g[k \div 10] \o <<Digit(k % 10)>>
  <2>1. upto(k + 1)[k] = IF k < 10 THEN <<Digit(k)>>
                         ELSE upto(k + 1)[k \div 10] \o <<Digit(k % 10)>>
    <3>1. k \in 0 .. (k + 1) - 1 /\ k + 1 \in Nat
      OBVIOUS
    <3>. QED  BY <1>1, <3>1 DEF DecimalTo
  <2>2. ASSUME k >= 10
        PROVE  upto(k + 1)[k \div 10] = g[k \div 10]
    <3>. DEFINE q == k \div 10
    <3>1. q \in Nat /\ q < k + 1 /\ q < q + 1 /\ q + 1 \in Nat /\ k + 1 \in Nat
      BY <2>2, DivMod
    <3>. HIDE DEF q
    <3>2. upto(k + 1)[q] = upto(q + 1)[q]
      BY <1>1, <3>1, DecimalToUnique
    <3>. QED  BY <3>1, <3>2 DEF q
  <2>. QED  BY <2>1, <2>2
<1>3. \A k \in Nat : g[k] = h[k]
  <2>. HIDE DEF g
  <2>. QED  BY <1>2
<1>4. g = [k \in Nat |-> g[k]] /\ h = [k \in Nat |-> h[k]]
  OBVIOUS
<1>5. g = h
  <2>. HIDE DEF g, h
  <2>. QED  BY <1>3, <1>4
<1>6. \E d : Recurs(d)
  <2>. HIDE DEF g
  <2>. QED  BY <1>5
<1>7. Recurs(CHOOSE d : Recurs(d))
  <2>. HIDE DEF Recurs
  <2>. QED  BY <1>6, Zenon
<1>8. Recurs(Decimal)
  BY <1>7 DEF Decimal
<1>. QED  BY <1>8

-----------------------------------------------------------------------------
(* Reading a number.                                                           *)

AsNumber(q) == FoldLeft(AddDigit, 0, q)

(* The number of no figure, and of one more.                                   *)
LEMMA NumberOfFigures ==
    /\ AsNumber(<<>>) = 0
    /\ \A q \in Seq(Figures) : \A d \in Figures :
           AsNumber(Append(q, d)) = 10 * AsNumber(q) + ValueOf(d)
<1>1. \A q : AsNumber(q) = Value!Fold(0, q)
  BY DEF AsNumber, FoldLeft, MapThenFoldSet, Max, Value!Fold, Value!Greatest
<1>2. AsNumber(<<>>) = 0
  BY <1>1, Value!FoldEmpty
<1>3. ASSUME NEW q \in Seq(Figures), NEW d \in Figures
      PROVE  AsNumber(Append(q, d)) = 10 * AsNumber(q) + ValueOf(d)
  <2>1. Value!Fold(0, Append(q, d)) = AddDigit(Value!Fold(0, q), d)
    BY Value!FoldAppend
  <2>. QED  BY <1>1, <2>1 DEF AddDigit
<1>. QED  BY <1>2, <1>3

(* It is a number for any figures.                                             *)
LEMMA NumberType ==
    ASSUME NEW q \in Seq(Figures)
    PROVE  AsNumber(q) \in Nat
<1>. DEFINE T == {r \in Seq(Figures) : AsNumber(r) \in Nat}
<1>1. <<>> \in T
  BY NumberOfFigures, EmptySeq
<1>2. ASSUME NEW r \in Seq(Figures), NEW d \in Figures, r \in T
      PROVE  Append(r, d) \in T
  <2>1. Append(r, d) \in Seq(Figures)
    BY AppendProperties
  <2>2. AsNumber(Append(r, d)) = 10 * AsNumber(r) + ValueOf(d)
    BY NumberOfFigures
  <2>3. AsNumber(r) \in Nat /\ ValueOf(d) \in 0 .. 9
    BY <1>2, FigureValues
  <2>4. 10 * AsNumber(r) + ValueOf(d) \in Nat
    BY <2>3
  <2>. QED  BY <2>1, <2>2, <2>4
<1>3. Seq(Figures) \subseteq T
  <2>. HIDE DEF T
  <2>. QED  BY <1>1, <1>2, AppendInduction
<1>. QED  BY <1>3

(* What std::to_string writes, atoi reads: for every number.                   *)
LEMMA DecimalIsRead ==
    ASSUME NEW n \in Nat
    PROVE  /\ Decimal[n] \in Seq(Figures) /\ Decimal[n] # <<>>
           /\ AsNumber(Decimal[n]) = n
<1>. DEFINE T == {k \in Nat : /\ Decimal[k] \in Seq(Figures) /\ Decimal[k] # <<>>
                              /\ AsNumber(Decimal[k]) = k}
<1>1. ASSUME NEW k \in Nat, \A l \in Nat : l < k => l \in T
      PROVE  k \in T
  <2>1. CASE k < 10
    <3>1. k \in 0 .. 9
      BY <2>1
    <3>2. Decimal[k] = Append(<<>>, Digit(k))
      <4>1. Decimal[k] = <<Digit(k)>>
        BY <2>1, DecimalDef
      <4>. QED  BY <4>1
    <3>3. Digit(k) \in Figures /\ ValueOf(Digit(k)) = k
      BY <3>1, FigureValues
    <3>4. <<>> \in Seq(Figures)
      BY EmptySeq
    <3>5. AsNumber(Decimal[k]) = 10 * 0 + k
      <4>1. AsNumber(Append(<<>>, Digit(k))) = 10 * AsNumber(<<>>) + ValueOf(Digit(k))
        BY <3>3, <3>4, NumberOfFigures
      <4>. QED  BY <3>2, <3>3, <4>1, NumberOfFigures
    <3>6. Decimal[k] \in Seq(Figures) /\ Decimal[k] # <<>>
      BY <3>2, <3>3, <3>4, AppendProperties
    <3>. QED  BY <3>5, <3>6
  <2>2. CASE k >= 10
    <3>. DEFINE q == k \div 10
                r == k % 10
    <3>1. q \in Nat /\ q < k /\ r \in 0 .. 9 /\ k = 10 * q + r
      BY <2>2, DivMod
    <3>2. Decimal[k] = Decimal[q] \o <<Digit(r)>>
      <4>1. Decimal[k] = IF k < 10 THEN <<Digit(k)>>
                         ELSE Decimal[k \div 10] \o <<Digit(k % 10)>>
        BY DecimalDef
      <4>2. ~(k < 10)
        BY <2>2
      <4>. QED  BY <4>1, <4>2
    <3>. HIDE DEF q, r
    <3>3. Decimal[q] \in Seq(Figures) /\ AsNumber(Decimal[q]) = q
      BY <1>1, <3>1
    <3>4. Digit(r) \in Figures /\ ValueOf(Digit(r)) = r
      BY <3>1, FigureValues
    <3>5. Decimal[k] = Append(Decimal[q], Digit(r))
      BY <3>2, <3>3, <3>4, AppendIsConcat
    <3>6. AsNumber(Decimal[k]) = 10 * q + r
      <4>1. AsNumber(Append(Decimal[q], Digit(r)))
                = 10 * AsNumber(Decimal[q]) + ValueOf(Digit(r))
        BY <3>3, <3>4, NumberOfFigures
      <4>. QED  BY <3>3, <3>4, <3>5, <4>1
    <3>7. Decimal[k] \in Seq(Figures) /\ Decimal[k] # <<>>
      BY <3>3, <3>4, <3>5, AppendProperties
    <3>. QED  BY <3>1, <3>6, <3>7
  <2>. QED  BY <2>1, <2>2
<1>2. Nat \subseteq T
  <2>. HIDE DEF T
  <2>. QED  BY <1>1, StrongSetInduction
<1>. QED  BY <1>2

-----------------------------------------------------------------------------
(* Places in a text.                                                           *)

(* The first place at or behind i that is in a set, or the one behind the end. *)
EndsAt(n, i, places, j) ==
    /\ j \in i .. n + 1
    /\ j = n + 1 \/ j \in places
    /\ \A k \in i .. j - 1 : k \notin places

(* There is exactly one.                                                       *)
LEMMA OneEnd ==
    ASSUME NEW n \in Nat, NEW i \in 1 .. n + 1, NEW places
    PROVE  /\ \E j : EndsAt(n, i, places, j)
           /\ \A j, k : EndsAt(n, i, places, j) /\ EndsAt(n, i, places, k) => j = k
<1>1. \E j : EndsAt(n, i, places, j)
  <2>. DEFINE T == {j \in i .. n + 1 : j = n + 1 \/ j \in places}
  <2>1. n + 1 \in T /\ T \in SUBSET Nat
    OBVIOUS
  <2>2. PICK j \in T : \A k \in T : j <= k
    <3>. HIDE DEF T
    <3>. QED  BY <2>1, LeastNumber
  <2>3. \A k \in i .. j - 1 : k \notin places
    BY <2>2
  <2>. QED  BY <2>2, <2>3 DEF EndsAt
<1>2. ASSUME NEW j, NEW k, EndsAt(n, i, places, j), EndsAt(n, i, places, k)
      PROVE  j = k
  <2>1. /\ j \in Int /\ i <= j /\ j <= n + 1
        /\ k \in Int /\ i <= k /\ k <= n + 1
    BY <1>2 DEF EndsAt
  <2>2. ~(j < k)
    <3>. SUFFICES ASSUME j < k PROVE FALSE
      OBVIOUS
    <3>1. j \in places /\ j \in i .. k - 1
      BY <1>2, <2>1 DEF EndsAt
    <3>. QED  BY <1>2, <3>1 DEF EndsAt
  <2>3. ~(k < j)
    <3>. SUFFICES ASSUME k < j PROVE FALSE
      OBVIOUS
    <3>1. k \in places /\ k \in i .. j - 1
      BY <1>2, <2>1 DEF EndsAt
    <3>. QED  BY <1>2, <3>1 DEF EndsAt
  <2>. QED  BY <2>1, <2>2, <2>3
<1>. QED  BY <1>1, <1>2

(* The places where blanks, figures and parts of a text end.                   *)
Others(s, chars) == {j \in 1 .. Len(s) : s[j] \notin chars}
Commas(s) == {j \in 1 .. Len(s) : s[j] = ","}

LEMMA EndsAreFound ==
    ASSUME NEW C, NEW s \in Seq(C), NEW i \in 1 .. Len(s) + 1
    PROVE  /\ EndsAt(Len(s), i, Others(s, {" "}), BlanksEnd(s, i))
           /\ EndsAt(Len(s), i, Others(s, Figures), DigitsEnd(s, i))
           /\ EndsAt(Len(s), i, Commas(s), PartEnd(s, i))
<1>1. Len(s) \in Nat
  BY LenProperties
<1>0. \A j \in i .. Len(s) + 1 :
          /\ j # Len(s) + 1 => j \in 1 .. Len(s)
          /\ \A k \in i .. j - 1 : k \in 1 .. Len(s)
  BY <1>1
<1>2. EndsAt(Len(s), i, Others(s, {" "}), BlanksEnd(s, i))
  <2>. DEFINE Good(j) == /\ j = Len(s) + 1 \/ s[j] # " "
                         /\ \A k \in i .. j - 1 : s[k] = " "
  <2>1. \A j \in i .. Len(s) + 1 : Good(j) <=> EndsAt(Len(s), i, Others(s, {" "}), j)
    BY <1>0 DEF EndsAt, Others
  <2>2. \E j \in i .. Len(s) + 1 : Good(j)
    <3>1. PICK j : EndsAt(Len(s), i, Others(s, {" "}), j)
      BY <1>1, OneEnd
    <3>2. j \in i .. Len(s) + 1
      BY <3>1 DEF EndsAt
    <3>. QED  BY <2>1, <3>1, <3>2
  <2>3. BlanksEnd(s, i) \in i .. Len(s) + 1 /\ Good(BlanksEnd(s, i))
    <3>1. BlanksEnd(s, i) = CHOOSE j \in i .. Len(s) + 1 : Good(j)
      BY DEF BlanksEnd
    <3>. HIDE DEF Good
    <3>. QED  BY <2>2, <3>1
  <2>. HIDE DEF Good
  <2>. QED  BY <2>1, <2>3
<1>3. EndsAt(Len(s), i, Others(s, Figures), DigitsEnd(s, i))
  <2>. DEFINE Good(j) == /\ j = Len(s) + 1 \/ ~IsDigit(s[j])
                         /\ \A k \in i .. j - 1 : IsDigit(s[k])
  <2>1. \A j \in i .. Len(s) + 1 : Good(j) <=> EndsAt(Len(s), i, Others(s, Figures), j)
    BY <1>0 DEF EndsAt, Others, IsDigit, Figures
  <2>2. \E j \in i .. Len(s) + 1 : Good(j)
    <3>1. PICK j : EndsAt(Len(s), i, Others(s, Figures), j)
      BY <1>1, OneEnd
    <3>2. j \in i .. Len(s) + 1
      BY <3>1 DEF EndsAt
    <3>. QED  BY <2>1, <3>1, <3>2
  <2>3. DigitsEnd(s, i) \in i .. Len(s) + 1 /\ Good(DigitsEnd(s, i))
    <3>1. DigitsEnd(s, i) = CHOOSE j \in i .. Len(s) + 1 : Good(j)
      BY DEF DigitsEnd
    <3>. HIDE DEF Good
    <3>. QED  BY <2>2, <3>1
  <2>. HIDE DEF Good
  <2>. QED  BY <2>1, <2>3
<1>4. EndsAt(Len(s), i, Commas(s), PartEnd(s, i))
  <2>. DEFINE Good(j) == /\ j = Len(s) + 1 \/ s[j] = ","
                         /\ \A k \in i .. j - 1 : s[k] # ","
  <2>1. \A j \in i .. Len(s) + 1 : Good(j) <=> EndsAt(Len(s), i, Commas(s), j)
    BY <1>0 DEF EndsAt, Commas
  <2>2. \E j \in i .. Len(s) + 1 : Good(j)
    <3>1. PICK j : EndsAt(Len(s), i, Commas(s), j)
      BY <1>1, OneEnd
    <3>2. j \in i .. Len(s) + 1
      BY <3>1 DEF EndsAt
    <3>. QED  BY <2>1, <3>1, <3>2
  <2>3. PartEnd(s, i) \in i .. Len(s) + 1 /\ Good(PartEnd(s, i))
    <3>1. PartEnd(s, i) = CHOOSE j \in i .. Len(s) + 1 : Good(j)
      BY DEF PartEnd
    <3>. HIDE DEF Good
    <3>. QED  BY <2>2, <3>1
  <2>. HIDE DEF Good
  <2>. QED  BY <2>1, <2>3
<1>. QED  BY <1>2, <1>3, <1>4

(* Whatever the text, atoi gives a number.                                     *)
LEMMA NumberIsNat ==
    ASSUME NEW C, NEW s \in Seq(C), NEW i \in 1 .. Len(s) + 1
    PROVE  Number(s, i) \in Nat
<1>. DEFINE first == BlanksEnd(s, i)
            last == DigitsEnd(s, first) - 1
<1>1. Len(s) \in Nat
  BY LenProperties
<1>2. first \in 1 .. Len(s) + 1
  <2>1. first \in i .. Len(s) + 1
    BY EndsAreFound DEF EndsAt
  <2>. QED  BY <1>1, <2>1
<1>. HIDE DEF first
<1>3. /\ last \in Int /\ last <= Len(s)
      /\ \A k \in first .. last : s[k] \in Figures
  <2>1. EndsAt(Len(s), first, Others(s, Figures), DigitsEnd(s, first))
    BY <1>2, EndsAreFound
  <2>2. DigitsEnd(s, first) \in first .. Len(s) + 1
    BY <2>1 DEF EndsAt
  <2>3. \A k \in first .. last : k \notin Others(s, Figures) /\ k \in 1 .. Len(s)
    BY <1>1, <1>2, <2>1, <2>2 DEF EndsAt
  <2>. QED  BY <1>1, <1>2, <2>2, <2>3 DEF Others
<1>. HIDE DEF last
<1>4. SubSeq(s, first, last) \in Seq(Figures)
  BY <1>2, <1>3, SubSeqProperties
<1>5. Number(s, i) = AsNumber(SubSeq(s, first, last))
  BY DEF Number, AsNumber, first, last
<1>. QED  BY <1>4, <1>5, NumberType

-----------------------------------------------------------------------------
(* What a vector is packed into.                                               *)

Chars == STRING \cup Figures \cup {" ", ",", "{", "}"}

(* An element behind its length and a blank.                                   *)
Item(e) == Decimal[Len(e)] \o <<" ">> \o e

(* Its places: the figures, the blank, the characters.                         *)
LEMMA ItemPlaces ==
    ASSUME NEW e \in Strings
    PROVE  /\ e \in Seq(Chars) /\ Len(e) \in Nat
           /\ Decimal[Len(e)] \in Seq(Figures) /\ Len(Decimal[Len(e)]) \in Nat \ {0}
           /\ Item(e) \in Seq(Chars)
           /\ Len(Item(e)) = Len(Decimal[Len(e)]) + 1 + Len(e)
           /\ \A k \in 1 .. Len(Decimal[Len(e)]) : Item(e)[k] = Decimal[Len(e)][k]
           /\ Item(e)[Len(Decimal[Len(e)]) + 1] = " "
           /\ \A k \in 1 .. Len(e) : Item(e)[Len(Decimal[Len(e)]) + 1 + k] = e[k]
<1>. DEFINE d == Decimal[Len(e)]
<1>1. e \in Seq(Chars) /\ Len(e) \in Nat
  <2>1. e \in Seq(STRING) /\ STRING \subseteq Chars
    BY TextsAssumption DEF Texts, Chars
  <2>. QED  BY <2>1, SeqMonotonic, LenProperties
<1>2. d \in Seq(Figures) /\ Len(d) \in Nat \ {0} /\ d \in Seq(Chars)
  <2>1. d \in Seq(Figures) /\ d # <<>>
    BY <1>1, DecimalIsRead
  <2>2. Figures \subseteq Chars
    BY DEF Chars
  <2>. QED  BY <2>1, <2>2, EmptySeq, SeqMonotonic
<1>. HIDE DEF d
<1>3. <<" ">> \in Seq(Chars) /\ Len(<<" ">>) = 1 /\ <<" ">>[1] = " "
  <2>1. " " \in Chars
    BY DEF Chars
  <2>2. \A x \in Chars : <<x>> \in Seq(Chars) /\ Len(<<x>>) = 1 /\ <<x>>[1] = x
    OBVIOUS
  <2>. QED  BY <2>1, <2>2
<1>4. /\ d \o <<" ">> \in Seq(Chars) /\ Len(d \o <<" ">>) = Len(d) + 1
      /\ \A k \in 1 .. Len(d) + 1 :
             (d \o <<" ">>)[k] = IF k <= Len(d) THEN d[k] ELSE <<" ">>[k - Len(d)]
  BY <1>2, <1>3, ConcatProperties
<1>5. /\ Item(e) \in Seq(Chars) /\ Len(Item(e)) = Len(d) + 1 + Len(e)
      /\ \A k \in 1 .. Len(d) + 1 + Len(e) :
             Item(e)[k] = IF k <= Len(d) + 1 THEN (d \o <<" ">>)[k] ELSE e[k - (Len(d) + 1)]
  <2>1. Item(e) = (d \o <<" ">>) \o e
    BY DEF Item, d
  <2>2. /\ (d \o <<" ">>) \o e \in Seq(Chars)
        /\ Len((d \o <<" ">>) \o e) = Len(d \o <<" ">>) + Len(e)
        /\ \A k \in 1 .. Len(d \o <<" ">>) + Len(e) :
               ((d \o <<" ">>) \o e)[k] = IF k <= Len(d \o <<" ">>) THEN (d \o <<" ">>)[k]
                                          ELSE e[k - Len(d \o <<" ">>)]
    BY <1>1, <1>4, ConcatProperties
  <2>. QED  BY <1>4, <2>1, <2>2
<1>6. \A k \in 1 .. Len(d) : Item(e)[k] = d[k]
  <2>. SUFFICES ASSUME NEW k \in 1 .. Len(d)
                PROVE  Item(e)[k] = d[k]
    OBVIOUS
  <2>1. /\ k \in 1 .. Len(d) + 1 /\ k \in 1 .. Len(d) + 1 + Len(e)
        /\ k <= Len(d) /\ k <= Len(d) + 1
    BY <1>1, <1>2
  <2>. QED  BY <1>4, <1>5, <2>1
<1>7. Item(e)[Len(d) + 1] = " "
  <2>1. /\ Len(d) + 1 \in 1 .. Len(d) + 1 /\ Len(d) + 1 \in 1 .. Len(d) + 1 + Len(e)
        /\ ~(Len(d) + 1 <= Len(d)) /\ (Len(d) + 1) - Len(d) = 1
        /\ Len(d) + 1 <= Len(d) + 1
    BY <1>1, <1>2
  <2>2. Item(e)[Len(d) + 1] = (d \o <<" ">>)[Len(d) + 1]
    BY <1>5, <2>1
  <2>3. (d \o <<" ">>)[Len(d) + 1] = <<" ">>[1]
    BY <1>4, <2>1
  <2>. QED  BY <1>3, <2>2, <2>3
<1>8. \A k \in 1 .. Len(e) : Item(e)[Len(d) + 1 + k] = e[k]
  <2>. SUFFICES ASSUME NEW k \in 1 .. Len(e)
                PROVE  Item(e)[Len(d) + 1 + k] = e[k]
    OBVIOUS
  <2>1. /\ Len(d) + 1 + k \in 1 .. Len(d) + 1 + Len(e)
        /\ ~(Len(d) + 1 + k <= Len(d) + 1) /\ (Len(d) + 1 + k) - (Len(d) + 1) = k
    BY <1>1, <1>2
  <2>. QED  BY <1>5, <2>1
<1>. QED  BY <1>1, <1>2, <1>5, <1>6, <1>7, <1>8 DEF d

(* What is packed of no element and of one more.                               *)
LEMMA PackedEmpty == TranslateFromVector(<<>>) = <<>>
BY FlattenEmpty DEF TranslateFromVector

LEMMA PackedAppend ==
    ASSUME NEW v \in Seq(Strings), NEW e \in Strings
    PROVE  /\ TranslateFromVector(v) \in Seq(Chars)
           /\ TranslateFromVector(Append(v, e)) = TranslateFromVector(v) \o Item(e)
<1>. DEFINE Items(w) == [i \in DOMAIN w |-> Item(w[i])]
<1>1. \A w : TranslateFromVector(w) = FlattenSeq(Items(w))
  BY DEF TranslateFromVector, Item
<1>2. Items(v) \in Seq(Seq(Chars))
  <2>1. Len(v) \in Nat /\ DOMAIN v = 1 .. Len(v) /\ \A i \in 1 .. Len(v) : v[i] \in Strings
    BY LenProperties
  <2>2. \A i \in 1 .. Len(v) : Item(v[i]) \in Seq(Chars)
    BY <2>1, ItemPlaces
  <2>3. Items(v) \in [1 .. Len(v) -> Seq(Chars)]
    BY <2>1, <2>2
  <2>. HIDE DEF Items
  <2>. QED  BY <2>1, <2>3, SeqDef
<1>3. Items(Append(v, e)) = Append(Items(v), Item(e))
  OBVIOUS
<1>4. Item(e) \in Seq(Chars)
  BY ItemPlaces
<1>. HIDE DEF Items
<1>. QED  BY <1>1, <1>2, <1>3, <1>4, FlattenAppend, FlattenType

(* The text before an element, the element, and the rest of the text.          *)
LEMMA PackedSplit ==
    ASSUME NEW v \in Seq(Strings), NEW k \in Nat, k < Len(v)
    PROVE  /\ SubSeq(v, 1, k) \in Seq(Strings) /\ v[k + 1] \in Strings
           /\ SubSeq(v, 1, k + 1) = Append(SubSeq(v, 1, k), v[k + 1])
           /\ \E r \in Seq(Chars) : TranslateFromVector(v) =
                  (TranslateFromVector(SubSeq(v, 1, k)) \o Item(v[k + 1])) \o r
<1>. DEFINE Splits(w) ==
               \A n \in Nat : n < Len(w) => \E r \in Seq(Chars) : TranslateFromVector(w) =
                   (TranslateFromVector(SubSeq(w, 1, n)) \o Item(w[n + 1])) \o r
            T == {w \in Seq(Strings) : Splits(w)}
<1>1. <<>> \in T
  BY EmptySeq
<1>2. ASSUME NEW w \in Seq(Strings), NEW e \in Strings, w \in T
      PROVE  Append(w, e) \in T
  <2>. DEFINE ap == Append(w, e)
  <2>1. /\ Len(w) \in Nat /\ ap \in Seq(Strings) /\ Len(ap) = Len(w) + 1
        /\ \A i \in 1 .. Len(w) : ap[i] = w[i]
        /\ ap[Len(w) + 1] = e
    BY LenProperties, AppendProperties
  <2>2. TranslateFromVector(ap) = TranslateFromVector(w) \o Item(e)
    BY PackedAppend
  <2>3. ASSUME NEW n \in Nat, n <= Len(w)
        PROVE  SubSeq(ap, 1, n) = SubSeq(w, 1, n)
    <3>. HIDE DEF ap
    <3>1. \A i \in 1 .. n : w[i] \in Strings /\ ap[i] \in Strings /\ ap[i] = w[i]
      <4>1. \A i \in 1 .. n : i \in 1 .. Len(w)
        BY <2>1, <2>3
      <4>. QED  BY <2>1, <4>1, ElementOfSeq
    <3>2. /\ SubSeq(w, 1, n) \in Seq(Strings)
          /\ Len(SubSeq(w, 1, n)) = IF 1 <= n THEN (n - 1) + 1 ELSE 0
          /\ \A i \in 1 .. (n - 1) + 1 : SubSeq(w, 1, n)[i] = w[(1 + i) - 1]
      BY <3>1, SubSeqProperties
    <3>3. /\ SubSeq(ap, 1, n) \in Seq(Strings)
          /\ Len(SubSeq(ap, 1, n)) = IF 1 <= n THEN (n - 1) + 1 ELSE 0
          /\ \A i \in 1 .. (n - 1) + 1 : SubSeq(ap, 1, n)[i] = ap[(1 + i) - 1]
      BY <3>1, SubSeqProperties
    <3>4. \A i \in 1 .. n : i \in 1 .. (n - 1) + 1 /\ (1 + i) - 1 = i
      OBVIOUS
    <3>5. Len(SubSeq(w, 1, n)) = n /\ Len(SubSeq(ap, 1, n)) = n
      BY <3>2, <3>3
    <3>. QED  BY <3>1, <3>2, <3>3, <3>4, <3>5, SeqEqual
  <2>. HIDE DEF ap
  <2>. SUFFICES ASSUME NEW n \in Nat, n < Len(ap)
                PROVE  \E r \in Seq(Chars) : TranslateFromVector(ap) =
                          (TranslateFromVector(SubSeq(ap, 1, n)) \o Item(ap[n + 1])) \o r
    BY <2>1 DEF ap
  <2>4. CASE n < Len(w)
    <3>1. PICK r \in Seq(Chars) : TranslateFromVector(w) =
              (TranslateFromVector(SubSeq(w, 1, n)) \o Item(w[n + 1])) \o r
      BY <1>2, <2>4
    <3>. DEFINE p == TranslateFromVector(SubSeq(w, 1, n)) \o Item(w[n + 1])
    <3>2. n <= Len(w) /\ n + 1 \in 1 .. Len(w)
      BY <2>1, <2>4
    <3>3. /\ SubSeq(ap, 1, n) = SubSeq(w, 1, n) /\ ap[n + 1] = w[n + 1]
          /\ w[n + 1] \in Strings /\ SubSeq(w, 1, n) \in Seq(Strings)
      <4>1. \A i \in 1 .. n : w[i] \in Strings
        BY <2>1, <3>2
      <4>. QED  BY <2>1, <2>3, <3>2, <4>1, SubSeqProperties
    <3>4. p \in Seq(Chars) /\ Item(e) \in Seq(Chars)
      <4>1. TranslateFromVector(SubSeq(w, 1, n)) \in Seq(Chars)
        BY <3>3, PackedAppend
      <4>2. Item(w[n + 1]) \in Seq(Chars) /\ Item(e) \in Seq(Chars)
        BY <3>3, ItemPlaces
      <4>. QED  BY <4>1, <4>2, ConcatProperties
    <3>. HIDE DEF p
    <3>5. TranslateFromVector(ap) = p \o (r \o Item(e))
      <4>1. (p \o r) \o Item(e) = p \o (r \o Item(e))
        <5>1. r \in Seq(Chars)
          OBVIOUS
        <5>2. Glued(Glued(p, r), Item(e)) = Glued(p, Glued(r, Item(e)))
          BY <3>4, <5>1, GluedAssociates
        <5>. QED  BY <5>2, Zenon DEF Glued
      <4>2. TranslateFromVector(w) = p \o r
        BY <3>1 DEF p
      <4>. QED  BY <2>2, <4>1, <4>2
    <3>6. r \o Item(e) \in Seq(Chars)
      BY <3>4, ConcatProperties
    <3>. QED  BY <3>3, <3>5, <3>6 DEF p
  <2>5. CASE n = Len(w)
    <3>1. SubSeq(ap, 1, n) = w /\ ap[n + 1] = e
      BY <2>1, <2>3, <2>5, SubSeqFull
    <3>2. TranslateFromVector(w) \o Item(e) \in Seq(Chars)
      BY PackedAppend, ItemPlaces, ConcatProperties
    <3>3. (TranslateFromVector(w) \o Item(e)) \o <<>> = TranslateFromVector(w) \o Item(e)
      BY <3>2, ConcatEmptySeq
    <3>4. <<>> \in Seq(Chars)
      BY EmptySeq
    <3>5. TranslateFromVector(SubSeq(ap, 1, n)) \o Item(ap[n + 1]) = TranslateFromVector(ap)
      BY <2>2, <3>1
    <3>. QED  BY <2>2, <3>3, <3>4, <3>5
  <2>6. n < Len(w) \/ n = Len(w)
    BY <2>1
  <2>. QED  BY <2>4, <2>5, <2>6
<1>3. v \in T
  <2>1. Seq(Strings) \subseteq T
    <3>. HIDE DEF T
    <3>. QED  BY <1>1, <1>2, AppendInduction
  <2>. QED  BY <2>1
<1>4. /\ SubSeq(v, 1, k) \in Seq(Strings) /\ v[k + 1] \in Strings
      /\ SubSeq(v, 1, k + 1) = Append(SubSeq(v, 1, k), v[k + 1])
  <2>1. Len(v) \in Nat /\ k + 1 \in 1 .. Len(v) /\ \A i \in 1 .. Len(v) : v[i] \in Strings
    BY LenProperties
  <2>2. SubSeq(v, 1, k) \in Seq(Strings)
    <3>1. \A i \in 1 .. k : v[i] \in Strings
      BY <2>1
    <3>. QED  BY <3>1, SubSeqProperties
  <2>3. SubSeq(v, 1, k + 1) = SubSeq(v, 1, k) \o <<v[k + 1]>>
    <3>1. 1 \in 1 .. Len(v) /\ k + 1 \in 1 .. Len(v) /\ (k + 1) - 1 = k
      BY <2>1
    <3>2. SubSeq(v, 1, k + 1) = SubSeq(v, 1, (k + 1) - 1) \o <<v[k + 1]>>
      BY <3>1, SubSeqRecursiveSecond
    <3>. QED  BY <3>1, <3>2
  <2>. QED  BY <2>1, <2>2, <2>3, AppendIsConcat
<1>. QED  BY <1>3, <1>4

(* An element in a text, with something before and behind it.                  *)
LEMMA ItemInText ==
    ASSUME NEW p \in Seq(Chars), NEW t \in Seq(Chars), NEW r \in Seq(Chars)
    PROVE  /\ p \o t \in Seq(Chars) /\ (p \o t) \o r \in Seq(Chars)
           /\ Len(p) \in Nat /\ Len(p \o t) = Len(p) + Len(t)
           /\ Len((p \o t) \o r) >= Len(p) + Len(t)
           /\ \A k \in 1 .. Len(t) : ((p \o t) \o r)[Len(p) + k] = t[k]
<1>1. Len(p) \in Nat /\ Len(t) \in Nat /\ Len(r) \in Nat
  BY LenProperties
<1>2. /\ p \o t \in Seq(Chars) /\ Len(p \o t) = Len(p) + Len(t)
      /\ \A k \in 1 .. Len(p) + Len(t) :
             (p \o t)[k] = IF k <= Len(p) THEN p[k] ELSE t[k - Len(p)]
  BY ConcatProperties
<1>3. /\ (p \o t) \o r \in Seq(Chars) /\ Len((p \o t) \o r) = Len(p \o t) + Len(r)
      /\ \A k \in 1 .. Len(p \o t) + Len(r) :
             ((p \o t) \o r)[k] = IF k <= Len(p \o t) THEN (p \o t)[k]
                                  ELSE r[k - Len(p \o t)]
  BY <1>2, ConcatProperties
<1>4. ASSUME NEW k \in 1 .. Len(t)
      PROVE  ((p \o t) \o r)[Len(p) + k] = t[k]
  <2>1. /\ Len(p) + k \in 1 .. Len(p) + Len(t)
        /\ ~(Len(p) + k <= Len(p)) /\ (Len(p) + k) - Len(p) = k
        /\ Len(p) + k \in 1 .. (Len(p) + Len(t)) + Len(r)
        /\ Len(p) + k <= Len(p) + Len(t)
    BY <1>1
  <2>2. ((p \o t) \o r)[Len(p) + k] = (p \o t)[Len(p) + k]
    BY <1>2, <1>3, <2>1
  <2>. QED  BY <1>2, <2>1, <2>2
<1>. QED  BY <1>1, <1>2, <1>3, <1>4

(* Where an element begins in a text, it is read: its length is found, and     *)
(* that many characters behind the next blank are the element.                 *)
LEMMA ElementIsRead ==
    ASSUME NEW s \in Seq(Chars), NEW a \in Nat, NEW e \in Strings,
           Len(s) >= a + Len(Item(e)),
           \A k \in 1 .. Len(Item(e)) : s[a + k] = Item(e)[k]
    PROVE  /\ a + 1 \in 1 .. Len(s)
           /\ Blanks(s, a + 1) # {}
           /\ Number(s, a + 1) = Len(e)
           /\ Find(s, a + 1) \in Nat
           /\ Find(s, a + 1) + Len(e) = a + Len(Item(e))
           /\ SubSeq(s, Find(s, a + 1) + 1, Find(s, a + 1) + Len(e)) = e
<1>. DEFINE i == a + 1
            d == Decimal[Len(e)]
            b == a + Len(d) + 1
            n == Len(e)
<1>1. /\ e \in Seq(Chars) /\ n \in Nat
      /\ d \in Seq(Figures) /\ Len(d) \in Nat /\ Len(d) >= 1
      /\ Len(Item(e)) = Len(d) + 1 + n
  <2>1. Len(d) \in Nat \ {0} => Len(d) \in Nat /\ Len(d) >= 1
    OBVIOUS
  <2>. QED  BY <2>1, ItemPlaces
<1>2. /\ \A k \in 1 .. Len(d) : Item(e)[k] = d[k]
      /\ Item(e)[Len(d) + 1] = " "
      /\ \A k \in 1 .. n : Item(e)[Len(d) + 1 + k] = e[k]
  BY ItemPlaces
<1>. HIDE DEF d
<1>5. /\ Len(s) \in Nat /\ Len(s) >= a + Len(d) + 1 + n
      /\ i \in 1 .. Len(s) /\ b \in i .. Len(s) /\ b + n <= Len(s)
      /\ b + n = a + Len(Item(e)) /\ b \in Nat
  BY <1>1, LenProperties
<1>6. \A k \in 1 .. Len(d) : s[a + k] = d[k]
  <2>1. \A k \in 1 .. Len(d) : k \in 1 .. Len(Item(e))
    BY <1>1
  <2>. QED  BY <1>2, <2>1
<1>7. s[b] = " "
  <2>1. Len(d) + 1 \in 1 .. Len(Item(e)) /\ a + (Len(d) + 1) = b
    BY <1>1
  <2>2. s[a + (Len(d) + 1)] = Item(e)[Len(d) + 1]
    BY <2>1
  <2>. QED  BY <1>2, <2>1, <2>2
<1>8. \A k \in 1 .. n : s[b + k] = e[k]
  <2>. SUFFICES ASSUME NEW k \in 1 .. n
                PROVE  s[b + k] = e[k]
    OBVIOUS
  <2>1. Len(d) + 1 + k \in 1 .. Len(Item(e)) /\ a + (Len(d) + 1 + k) = b + k
    BY <1>1
  <2>2. s[a + (Len(d) + 1 + k)] = Item(e)[Len(d) + 1 + k]
    BY <2>1
  <2>. QED  BY <1>2, <2>1, <2>2
<1>9. \A k \in i .. b - 1 : k \in 1 .. Len(s) /\ s[k] \in Figures /\ s[k] # " "
  <2>. SUFFICES ASSUME NEW k \in i .. b - 1
                PROVE  k \in 1 .. Len(s) /\ s[k] \in Figures /\ s[k] # " "
    OBVIOUS
  <2>1. k - a \in 1 .. Len(d) /\ a + (k - a) = k /\ k \in 1 .. Len(s)
    BY <1>1, <1>5
  <2>2. s[k] = d[k - a]
    BY <1>6, <2>1
  <2>3. d[k - a] \in Figures
    BY <1>1, <2>1, ElementOfSeq
  <2>. QED  BY <2>1, <2>2, <2>3, FigureValues
<1>. HIDE DEF i, b
<1>10. Find(s, i) = b /\ Blanks(s, i) # {}
  <2>1. b \in Blanks(s, i)
    BY <1>5, <1>7 DEF Blanks
  <2>2. Blanks(s, i) \subseteq i .. Len(s) /\ \A k \in i .. b - 1 : k \notin Blanks(s, i)
    BY <1>9 DEF Blanks
  <2>3. \A k \in Blanks(s, i) : b <= k
    BY <1>5, <2>2
  <2>4. \A k \in Blanks(s, i) : (\A j \in Blanks(s, i) : k <= j) => k = b
    BY <1>5, <2>1, <2>2, <2>3
  <2>. QED  BY <2>1, <2>3, <2>4 DEF Find
<1>11. BlanksEnd(s, i) = i
  <2>1. i \in 1 .. Len(s) + 1
    BY <1>5
  <2>2. EndsAt(Len(s), i, Others(s, {" "}), BlanksEnd(s, i))
    BY <2>1, EndsAreFound
  <2>3. EndsAt(Len(s), i, Others(s, {" "}), i)
    <3>1. i \in Others(s, {" "})
      <4>1. i \in i .. b - 1
        BY <1>1 DEF i, b
      <4>. QED  BY <1>9, <4>1 DEF Others
    <3>2. i \in i .. Len(s) + 1 /\ \A k \in i .. i - 1 : FALSE
      BY <1>5
    <3>. QED  BY <3>1, <3>2 DEF EndsAt
  <2>. QED  BY <1>5, <2>1, <2>2, <2>3, OneEnd
<1>12. DigitsEnd(s, i) = b
  <2>1. i \in 1 .. Len(s) + 1
    BY <1>5
  <2>2. EndsAt(Len(s), i, Others(s, Figures), DigitsEnd(s, i))
    BY <2>1, EndsAreFound
  <2>3. EndsAt(Len(s), i, Others(s, Figures), b)
    <3>1. b \in Others(s, Figures)
      <4>1. b \in 1 .. Len(s)
        BY <1>5
      <4>. QED  BY <1>7, <4>1, FigureValues DEF Others
    <3>2. b \in i .. Len(s) + 1
      BY <1>5
    <3>3. \A k \in i .. b - 1 : k \notin Others(s, Figures)
      BY <1>9 DEF Others
    <3>. QED  BY <3>1, <3>2, <3>3 DEF EndsAt
  <2>. QED  BY <1>5, <2>1, <2>2, <2>3, OneEnd
<1>13. SubSeq(s, i, b - 1) = d
  <2>1. i \in Int /\ b - 1 \in Int /\ ((b - 1) - i) + 1 = Len(d) /\ i <= b - 1
    BY <1>1 DEF i, b
  <2>2. /\ SubSeq(s, i, b - 1) \in Seq(Figures)
        /\ Len(SubSeq(s, i, b - 1)) = Len(d)
        /\ \A k \in 1 .. Len(d) : SubSeq(s, i, b - 1)[k] = s[(i + k) - 1]
    <3>1. \A k \in i .. b - 1 : s[k] \in Figures
      BY <1>9
    <3>2. /\ SubSeq(s, i, b - 1) \in Seq(Figures)
          /\ Len(SubSeq(s, i, b - 1)) = IF i <= b - 1 THEN ((b - 1) - i) + 1 ELSE 0
          /\ \A k \in 1 .. ((b - 1) - i) + 1 : SubSeq(s, i, b - 1)[k] = s[(i + k) - 1]
      BY <2>1, <3>1, SubSeqProperties
    <3>. QED  BY <2>1, <3>2
  <2>3. \A k \in 1 .. Len(d) : s[(i + k) - 1] = d[k]
    <3>1. \A k \in 1 .. Len(d) : (i + k) - 1 = a + k
      BY <1>1 DEF i
    <3>. QED  BY <1>6, <3>1
  <2>. QED  BY <1>1, <2>2, <2>3, SeqEqual
<1>14. Number(s, i) = n
  <2>1. Number(s, i) = AsNumber(d)
    BY <1>11, <1>12, <1>13 DEF Number, AsNumber
  <2>. QED  BY <1>1, <2>1, DecimalIsRead DEF d
<1>15. SubSeq(s, b + 1, b + n) = e
  <2>1. b + 1 \in Int /\ b + n \in Int /\ ((b + n) - (b + 1)) + 1 = n
    BY <1>1, <1>5
  <2>2. \A k \in b + 1 .. b + n : s[k] \in Chars
    <3>1. \A k \in b + 1 .. b + n : k \in 1 .. Len(s)
      BY <1>1, <1>5
    <3>. QED  BY <3>1, ElementOfSeq
  <2>3. /\ SubSeq(s, b + 1, b + n) \in Seq(Chars)
        /\ Len(SubSeq(s, b + 1, b + n)) = n
        /\ \A k \in 1 .. n :
               SubSeq(s, b + 1, b + n)[k] = s[((b + 1) + k) - 1]
    <3>1. /\ SubSeq(s, b + 1, b + n) \in Seq(Chars)
          /\ Len(SubSeq(s, b + 1, b + n)) =
                 IF b + 1 <= b + n THEN ((b + n) - (b + 1)) + 1 ELSE 0
          /\ \A k \in 1 .. ((b + n) - (b + 1)) + 1 :
                 SubSeq(s, b + 1, b + n)[k] = s[((b + 1) + k) - 1]
      <4>. DEFINE p == b + 1
                  q == b + n
      <4>1. p \in Int /\ q \in Int /\ \A k \in p .. q : s[k] \in Chars
        BY <2>1, <2>2
      <4>. HIDE DEF p, q
      <4>2. /\ SubSeq(s, p, q) \in Seq(Chars)
            /\ Len(SubSeq(s, p, q)) = IF p <= q THEN q - p + 1 ELSE 0
            /\ \A k \in 1 .. q - p + 1 : SubSeq(s, p, q)[k] = s[p + k - 1]
        BY <4>1, SubSeqProperties
      <4>. QED  BY <4>2 DEF p, q
    <3>2. IF b + 1 <= b + n THEN n >= 1 ELSE n = 0
      BY <1>1, <1>5
    <3>. QED  BY <2>1, <3>1, <3>2
  <2>4. \A k \in 1 .. n : s[((b + 1) + k) - 1] = e[k]
    <3>1. \A k \in 1 .. n : ((b + 1) + k) - 1 = b + k
      BY <1>1, <1>5
    <3>. QED  BY <1>8, <3>1
  <2>. QED  BY <1>1, <2>3, <2>4, SeqEqual
<1>. QED  BY <1>5, <1>10, <1>14, <1>15 DEF i, n

(* One round: the element behind the first k ones of a packed vector.          *)
LEMMA NextElement ==
    ASSUME NEW v \in Seq(Strings), NEW k \in Nat, k < Len(v)
    PROVE  LET s == TranslateFromVector(v)
               i == Len(TranslateFromVector(SubSeq(v, 1, k))) + 1
           IN  /\ v[k + 1] \in Strings /\ Len(v[k + 1]) \in Nat
               /\ i \in 1 .. Len(s) /\ Len(s) \in Nat
               /\ Blanks(s, i) # {}
               /\ Number(s, i) = Len(v[k + 1])
               /\ Find(s, i) \in Nat /\ Find(s, i) + Len(v[k + 1]) <= Len(s)
               /\ SubSeq(s, Find(s, i) + 1, Find(s, i) + Len(v[k + 1])) = v[k + 1]
               /\ SubSeq(v, 1, k + 1) = Append(SubSeq(v, 1, k), v[k + 1])
               /\ Find(s, i) + Len(v[k + 1]) + 1
                      = Len(TranslateFromVector(SubSeq(v, 1, k + 1))) + 1
<1>. DEFINE s == TranslateFromVector(v)
            w == SubSeq(v, 1, k)
            e == v[k + 1]
            p == TranslateFromVector(w)
            a == Len(p)
<1>1. /\ w \in Seq(Strings) /\ e \in Strings
      /\ SubSeq(v, 1, k + 1) = Append(w, e)
      /\ \E r \in Seq(Chars) : s = (p \o Item(e)) \o r
  BY PackedSplit
<1>. HIDE DEF s, w, e
<1>2. PICK r \in Seq(Chars) : s = (p \o Item(e)) \o r
  BY <1>1
<1>3. /\ p \in Seq(Chars) /\ TranslateFromVector(Append(w, e)) = p \o Item(e)
      /\ Item(e) \in Seq(Chars) /\ Len(Item(e)) \in Nat /\ Len(e) \in Nat
  BY <1>1, PackedAppend, ItemPlaces, LenProperties
<1>. HIDE DEF p
<1>4. /\ (p \o Item(e)) \o r \in Seq(Chars)
      /\ a \in Nat /\ Len(p \o Item(e)) = a + Len(Item(e))
      /\ Len((p \o Item(e)) \o r) >= a + Len(Item(e))
      /\ \A n \in 1 .. Len(Item(e)) : ((p \o Item(e)) \o r)[a + n] = Item(e)[n]
  BY <1>3, ItemInText
<1>5. /\ s \in Seq(Chars) /\ Len(s) >= a + Len(Item(e))
      /\ \A n \in 1 .. Len(Item(e)) : s[a + n] = Item(e)[n]
  BY <1>2, <1>4
<1>6. Len(s) \in Nat
  BY <1>5, LenProperties
<1>. HIDE DEF a
<1>7. /\ a + 1 \in 1 .. Len(s)
      /\ Blanks(s, a + 1) # {}
      /\ Number(s, a + 1) = Len(e)
      /\ Find(s, a + 1) \in Nat
      /\ Find(s, a + 1) + Len(e) = a + Len(Item(e))
      /\ SubSeq(s, Find(s, a + 1) + 1, Find(s, a + 1) + Len(e)) = e
  BY <1>1, <1>4, <1>5, ElementIsRead
<1>8. Find(s, a + 1) + Len(e) <= Len(s)
  BY <1>3, <1>4, <1>5, <1>6, <1>7
<1>9. Find(s, a + 1) + Len(e) + 1 = Len(TranslateFromVector(SubSeq(v, 1, k + 1))) + 1
  BY <1>1, <1>3, <1>4, <1>7
<1>. QED  BY <1>1, <1>3, <1>6, <1>7, <1>8, <1>9 DEF s, w, e, p, a

-----------------------------------------------------------------------------
(* The invariant: the loop has taken as many elements as have been packed      *)
(* before the place where it is.                                               *)

Unpacking ==
    /\ text = TranslateFromVector(vec) /\ st = "OK"
    /\ Len(out) <= Len(vec) /\ out = SubSeq(vec, 1, Len(out))
    /\ start = Len(TranslateFromVector(out)) + 1
    /\ <<>> \notin ToSet(out)

OfPacked ==
    /\ vec \in Seq(Strings) /\ out \in Seq(Strings)
    /\ phase = "unpack" => Unpacking
    /\ phase = "thrown" => <<>> \in ToSet(vec)
    /\ phase = "refused" => vec = <<>>
    /\ isArray => /\ phase = "insert" => st = "OK" /\ out = vec
                  /\ phase = "stored" => text = ArrayText(vec)
                  /\ phase = "read" => back = Parts(WithoutBraces(ArrayText(vec)))

PackedInv ==
    /\ TypeOK
    /\ phase = "unpack" => isArray /\ text \in Seq(Chars)
    /\ IsPacked => OfPacked

LEMMA RawTextsHaveChars == RawTexts \subseteq Seq(Chars)
<1>. SUFFICES ASSUME NEW t \in RawTexts
              PROVE  t \in Seq(Chars)
  OBVIOUS
<1>1. t \in Seq(STRING) /\ STRING \subseteq Chars
  BY TextsAssumption DEF Texts, Chars
<1>. QED  BY <1>1, SeqMonotonic

LEMMA InitInv == Init => PackedInv
<1>. SUFFICES ASSUME Init
              PROVE  PackedInv
  OBVIOUS
<1>1. /\ IsPacked => vec \in Seq(Strings) /\ text = TranslateFromVector(vec)
      /\ ~IsPacked => text \in RawTexts
  <2>1. ASSUME NEW n \in 0 .. MaxLen, NEW v \in [1 .. n -> Strings]
        PROVE  v \in Seq(Strings)
    <3>1. n \in Nat
      BY TextsAssumption
    <3>. QED  BY <3>1, SeqDef
  <2>2. NotPacked \notin Seq(Strings)
    BY TextsAssumption
  <2>. QED  BY <2>1, <2>2 DEF Init, IsPacked
<1>2. text \in Seq(Chars)
  <2>1. CASE IsPacked
    <3>1. vec = <<>> \/ \E v \in Seq(Strings), e \in Strings : vec = Append(v, e)
      BY <1>1, <2>1, SequenceEmptyOrAppend
    <3>2. CASE vec = <<>>
      BY <1>1, <2>1, <3>2, PackedEmpty, EmptySeq
    <3>3. CASE \E v \in Seq(Strings), e \in Strings : vec = Append(v, e)
      <4>1. PICK v \in Seq(Strings), e \in Strings : vec = Append(v, e)
        BY <3>3
      <4>2. TranslateFromVector(v) \o Item(e) \in Seq(Chars)
        BY PackedAppend, ItemPlaces, ConcatProperties
      <4>. QED  BY <1>1, <2>1, <4>1, <4>2, PackedAppend
    <3>. QED  BY <3>1, <3>2, <3>3
  <2>2. CASE ~IsPacked
    BY <1>1, <2>2, RawTextsHaveChars
  <2>. QED  BY <2>1, <2>2
<1>3. phase = "unpack" => start \in 1 .. Len(text) + 1
  BY <1>2, LenProperties DEF Init
<1>4. TypeOK
  BY <1>3 DEF Init, TypeOK
<1>5. ASSUME IsPacked
      PROVE  OfPacked
  <2>1. /\ out = <<>> /\ st = "OK" /\ start = 1
        /\ phase = IF isArray THEN "unpack" ELSE "insert"
    BY DEF Init
  <2>2. out \in Seq(Strings) /\ Len(out) = 0 /\ ToSet(out) = {}
    BY <2>1 DEF ToSet
  <2>3. Unpacking
    <3>1. SubSeq(vec, 1, 0) = <<>> /\ Len(vec) \in Nat
      BY <1>1, <1>5, SubSeqEmpty, LenProperties
    <3>2. Len(TranslateFromVector(out)) = 0
      BY <2>1, <2>2, PackedEmpty
    <3>. QED  BY <1>1, <1>5, <2>1, <2>2, <3>1, <3>2 DEF Unpacking
  <2>. QED  BY <1>1, <1>5, <2>1, <2>2, <2>3 DEF OfPacked
<1>. QED  BY <1>2, <1>4, <1>5 DEF PackedInv, Init

(* A round takes one more element of a packed vector, or meets the empty one;  *)
(* in a text of an application it stays within the text.                       *)
LEMMA RoundKeeps ==
    ASSUME PackedInv, TranslateToVector
    PROVE  PackedInv'
<1>1. /\ phase = "unpack" /\ start \in 1 .. Len(text) + 1 /\ start <= Len(text)
      /\ isArray /\ text \in Seq(Chars)
      /\ isArray' = isArray /\ vec' = vec /\ text' = text /\ back' = back
  BY DEF PackedInv, TypeOK, TranslateToVector
<1>2. Len(text) \in Nat /\ start \in 1 .. Len(text)
  BY <1>1, LenProperties
<1>. DEFINE n == Number(text, start)
            pos == Find(text, start)
<1>3. CASE IsPacked
  <2>1. OfPacked /\ Unpacking
    BY <1>1, <1>3 DEF PackedInv, OfPacked
  <2>. DEFINE k == Len(out)
              e == vec[k + 1]
  <2>2. /\ vec \in Seq(Strings) /\ out \in Seq(Strings) /\ k \in Nat /\ Len(vec) \in Nat
        /\ out = SubSeq(vec, 1, k) /\ start = Len(TranslateFromVector(out)) + 1
        /\ text = TranslateFromVector(vec) /\ k <= Len(vec) /\ st = "OK"
    BY <2>1, LenProperties DEF OfPacked, Unpacking
  <2>3. k < Len(vec)
    <3>. SUFFICES ASSUME k = Len(vec)
                  PROVE  FALSE
      BY <2>2
    <3>1. out = vec
      BY <2>2, SubSeqFull
    <3>. QED  BY <1>2, <2>2, <3>1
  <2>. HIDE DEF k
  <2>4. /\ Blanks(text, start) # {}
        /\ e \in Strings /\ Len(e) \in Nat
        /\ n = Len(e) /\ pos \in Nat /\ pos + Len(e) <= Len(text)
        /\ SubSeq(text, pos + 1, pos + Len(e)) = e
        /\ SubSeq(vec, 1, k + 1) = Append(out, e)
        /\ pos + Len(e) + 1 = Len(TranslateFromVector(SubSeq(vec, 1, k + 1))) + 1
    BY <2>2, <2>3, NextElement
  <2>. HIDE DEF n, pos
  <2>5. CASE n = 0
    <3>1. phase' = "thrown" /\ UNCHANGED <<start, out, st>>
      BY <2>4, <2>5 DEF TranslateToVector, n
    <3>2. <<>> \in ToSet(vec)
      <4>1. e = <<>>
        <5>1. e \in Seq(Chars) /\ Len(e) = 0
          BY <2>4, <2>5, ItemPlaces
        <5>. QED  BY <5>1, EmptySeq
      <4>2. k + 1 \in DOMAIN vec
        BY <2>2, <2>3, LenProperties
      <4>. QED  BY <4>1, <4>2 DEF ToSet
    <3>. QED  BY <1>1, <1>3, <2>1, <2>2, <3>1, <3>2
         DEF PackedInv, TypeOK, OfPacked, IsPacked
  <2>6. CASE n # 0
    <3>1. /\ out' = Append(out, e) /\ start' = pos + Len(e) + 1
          /\ phase' = phase /\ st' = st
      BY <2>4, <2>6 DEF TranslateToVector, Take, n, pos
    <3>2. /\ out' \in Seq(Strings) /\ Len(out') = k + 1
          /\ \A i \in 1 .. k : out'[i] = out[i]
          /\ out'[k + 1] = e
      BY <2>2, <2>4, <3>1, AppendProperties DEF k
    <3>3. <<>> \notin ToSet(out')
      <4>1. e # <<>>
        BY <2>4, <2>6
      <4>2. DOMAIN out' = 1 .. k + 1 /\ DOMAIN out = 1 .. k
        BY <2>2, <3>2, LenProperties DEF k
      <4>3. \A i \in 1 .. k : out[i] # <<>>
        BY <2>1, <4>2 DEF Unpacking, ToSet
      <4>4. \A i \in 1 .. k + 1 : i \in 1 .. k \/ i = k + 1
        BY <2>2
      <4>5. \A i \in 1 .. k + 1 : out'[i] # <<>>
        BY <3>2, <4>1, <4>3, <4>4
      <4>. QED  BY <4>2, <4>5 DEF ToSet
    <3>4. /\ out' = SubSeq(vec, 1, Len(out'))
          /\ start' = Len(TranslateFromVector(out')) + 1
          /\ Len(out') <= Len(vec)
      <4>1. out' = SubSeq(vec, 1, k + 1)
        BY <2>4, <3>1
      <4>2. start' = Len(TranslateFromVector(out')) + 1
        BY <2>4, <3>1, <4>1
      <4>3. out' = SubSeq(vec, 1, Len(out'))
        BY <3>2, <4>1
      <4>4. Len(out') <= Len(vec)
        BY <2>2, <2>3, <3>2
      <4>. QED  BY <4>2, <4>3, <4>4
    <3>5. start' \in 1 .. Len(text') + 1
      BY <1>1, <1>2, <2>4, <3>1
    <3>6. Unpacking'
      BY <1>1, <2>2, <3>1, <3>3, <3>4 DEF Unpacking
    <3>. QED  BY <1>1, <1>3, <2>2, <3>1, <3>2, <3>5, <3>6
         DEF PackedInv, TypeOK, OfPacked, IsPacked
  <2>. QED  BY <2>5, <2>6
<1>4. CASE ~IsPacked
  <2>1. CASE Blanks(text, start) = {}
    BY <1>1, <1>4, <2>1 DEF TranslateToVector, PackedInv, TypeOK, IsPacked
  <2>2. CASE Blanks(text, start) # {} /\ n = 0
    BY <1>1, <1>4, <2>2 DEF TranslateToVector, PackedInv, TypeOK, IsPacked
  <2>3. CASE Blanks(text, start) # {} /\ n # 0
    <3>1. Take(n, pos)
      BY <2>3 DEF TranslateToVector
    <3>2. n \in Nat
      <4>1. start \in 1 .. Len(text) + 1
        BY <1>1
      <4>. QED  BY <1>1, <4>1, NumberIsNat
    <3>3. pos \in start .. Len(text)
      <4>1. Blanks(text, start) \subseteq start .. Len(text)
        BY DEF Blanks
      <4>2. Blanks(text, start) \in SUBSET Nat
        BY <1>2, <4>1
      <4>3. \E k \in Blanks(text, start) : \A j \in Blanks(text, start) : k <= j
        BY <2>3, <4>2, LeastNumber
      <4>. QED  BY <4>1, <4>3 DEF Find
    <3>. HIDE DEF n, pos
    <3>4. CASE pos + n <= Len(text)
      <4>1. start' = pos + n + 1 /\ phase' = phase /\ st' = st
        BY <3>1, <3>4 DEF Take
      <4>2. start' \in 1 .. Len(text) + 1
        BY <1>2, <3>2, <3>3, <3>4, <4>1
      <4>. QED  BY <1>1, <1>4, <4>1, <4>2 DEF PackedInv, TypeOK, IsPacked
    <3>5. CASE ~(pos + n <= Len(text))
      BY <1>1, <1>4, <3>1, <3>5 DEF Take, PackedInv, TypeOK, IsPacked
    <3>. QED  BY <3>4, <3>5
  <2>. QED  BY <2>1, <2>2, <2>3
<1>. QED  BY <1>3, <1>4

LEMMA NextInv ==
    ASSUME PackedInv, [Next]_vars
    PROVE  PackedInv'
<1>1. CASE TranslateToVector
  BY <1>1, RoundKeeps
<1>2. CASE Unpacked
  <2>1. /\ phase = "unpack" /\ phase' = "insert" /\ start > Len(text)
        /\ UNCHANGED <<vec, text, start, out, st, back>>
    BY <1>2 DEF Unpacked
  <2>2. ASSUME IsPacked
        PROVE  out = vec /\ st = "OK"
               /\ vec \in Seq(Strings) /\ out \in Seq(Strings)
    <3>. DEFINE k == Len(out)
    <3>1. OfPacked /\ Unpacking
      BY <2>1, <2>2 DEF PackedInv, OfPacked
    <3>2. /\ vec \in Seq(Strings) /\ out \in Seq(Strings) /\ k \in Nat /\ Len(vec) \in Nat
          /\ out = SubSeq(vec, 1, k) /\ start = Len(TranslateFromVector(out)) + 1
          /\ text = TranslateFromVector(vec) /\ k <= Len(vec)
      BY <3>1, LenProperties DEF OfPacked, Unpacking
    <3>. HIDE DEF k
    <3>3. k = Len(vec)
      <4>. SUFFICES ASSUME k < Len(vec)
                    PROVE  FALSE
        BY <3>2
      <4>1. start \in 1 .. Len(text) /\ Len(text) \in Nat
        BY <3>2, NextElement
      <4>. QED  BY <2>1, <4>1
    <3>4. out = vec
      BY <3>2, <3>3, SubSeqFull
    <3>. QED  BY <3>1, <3>2, <3>4 DEF Unpacking
  <2>. QED  BY <2>1, <2>2 DEF PackedInv, TypeOK, OfPacked, IsPacked
<1>3. CASE WriteColumn
  <2>1. CASE phase' = "refused" /\ isArray /\ text' = text
    BY <1>3, <2>1 DEF WriteColumn, PackedInv, TypeOK, OfPacked, IsPacked
  <2>2. CASE phase' = "stored"
    BY <1>3, <2>2 DEF WriteColumn, PackedInv, TypeOK, OfPacked, IsPacked
  <2>. QED  BY <1>3, <2>1, <2>2 DEF WriteColumn
<1>4. CASE string2Container
  BY <1>4 DEF string2Container, PackedInv, TypeOK, OfPacked, IsPacked
<1>5. CASE UNCHANGED vars
  BY <1>5 DEF vars, PackedInv, TypeOK, OfPacked, Unpacking, IsPacked
<1>. QED  BY <1>1, <1>2, <1>3, <1>4, <1>5 DEF Next

LEMMA Invariance == Spec => []PackedInv
BY InitInv, NextInv, PTL DEF Spec

(* Nothing is read beyond the end of a text, whatever the text.                *)
THEOREM ReadsWithinText == Spec => []TypeOK
<1>1. PackedInv => TypeOK
  BY DEF PackedInv
<1>. QED  BY <1>1, Invariance, PTL

(* Unpacking gives what was packed, whatever the characters of the elements    *)
(* and however long they are; it throws only for an empty element, and the     *)
(* server refuses only the array of a vector without any.                      *)
THEOREM ComesBack == Spec => []PackedComesBack
<1>1. PackedInv => PackedComesBack
  BY DEF PackedInv, OfPacked, PackedComesBack
<1>. QED  BY <1>1, Invariance, PTL

-----------------------------------------------------------------------------
(* The column: the elements between commas, and these between braces.          *)

CommaEnded(v) == FlattenSeq([i \in DOMAIN v |-> v[i] \o <<",">>])
EndsWithComma(s) == s = <<>> \/ s[Len(s)] = ","
NoBraces(s) == ToSet(s) \cap {"{", "}"} = {}

(* Another element goes behind the last comma, and is followed by one.         *)
LEMMA CommaEndedIs ==
    ASSUME NEW v \in Seq(Strings), NEW e \in Strings
    PROVE  /\ CommaEnded(<<>>) = <<>>
           /\ CommaEnded(v) \in Seq(Chars) /\ CommaEnded(v) \o e \in Seq(Chars)
           /\ e \in Seq(Chars) /\ "," \in Chars
           /\ CommaEnded(Append(v, e)) = Append(CommaEnded(v) \o e, ",")
<1>. DEFINE Ended(w) == [i \in DOMAIN w |-> w[i] \o <<",">>]
<1>1. \A w : CommaEnded(w) = FlattenSeq(Ended(w))
  BY DEF CommaEnded
<1>2. "," \in Chars /\ <<",">> \in Seq(Chars)
  <2>1. "," \in Chars
    BY DEF Chars
  <2>. QED  BY <2>1, OneElement
<1>3. \A x \in Strings : x \in Seq(Chars) /\ x \o <<",">> \in Seq(Chars)
  BY <1>2, ItemPlaces, ConcatProperties
<1>4. Ended(v) \in Seq(Seq(Chars))
  <2>1. Len(v) \in Nat /\ DOMAIN v = 1 .. Len(v) /\ \A i \in 1 .. Len(v) : v[i] \in Strings
    BY LenProperties
  <2>2. Ended(v) \in [1 .. Len(v) -> Seq(Chars)]
    BY <1>3, <2>1
  <2>. HIDE DEF Ended
  <2>. QED  BY <2>1, <2>2, SeqDef
<1>5. Ended(Append(v, e)) = Append(Ended(v), e \o <<",">>)
  <2>. DEFINE Behind(x) == x \o <<",">>
  <2>1. [i \in DOMAIN Append(v, e) |-> Behind(Append(v, e)[i])]
            = Append([i \in DOMAIN v |-> Behind(v[i])], Behind(e))
    <3>. HIDE DEF Behind
    <3>. QED  OBVIOUS
  <2>. QED  BY <2>1
<1>6. CommaEnded(<<>>) = <<>>
  BY FlattenEmpty DEF CommaEnded
<1>. HIDE DEF Ended
<1>7. /\ CommaEnded(v) \in Seq(Chars)
      /\ CommaEnded(Append(v, e)) = CommaEnded(v) \o (e \o <<",">>)
  BY <1>1, <1>3, <1>4, <1>5, FlattenAppend, FlattenType
<1>8. CommaEnded(v) \o e \in Seq(Chars)
  <2>1. \A x, y \in Seq(Chars) : x \o y \in Seq(Chars)
    BY ConcatProperties
  <2>. QED  BY <1>3, <1>7, <2>1
<1>9. (CommaEnded(v) \o e) \o <<",">> = CommaEnded(v) \o (e \o <<",">>)
  <2>1. \A x, y, z \in Seq(Chars) : (x \o y) \o z = x \o (y \o z)
    BY Associates
  <2>. QED  BY <1>2, <1>3, <1>7, <2>1
<1>10. (CommaEnded(v) \o e) \o <<",">> = Append(CommaEnded(v) \o e, ",")
  BY <1>2, <1>8, AppendIsConcat
<1>. QED  BY <1>2, <1>3, <1>6, <1>7, <1>8, <1>9, <1>10

(* The last comma is left out.                                                 *)
LEMMA JoinedIs ==
    ASSUME NEW v \in Seq(Strings), NEW e \in Strings
    PROVE  Joined(Append(v, e)) = CommaEnded(v) \o e
<1>1. Append(v, e) # <<>>
  BY AppendProperties
<1>2. Joined(Append(v, e)) = Front(CommaEnded(Append(v, e)))
  BY <1>1 DEF Joined, CommaEnded
<1>. QED  BY <1>2, CommaEndedIs, FrontOfAppend

(* A word has something in it, and none of the characters of an array.         *)
LEMMA WordsAre ==
    ASSUME NEW e, IsWord(e)
    PROVE  Element(e) = e /\ e # <<>> /\ ToSet(e) \cap {",", "{", "}"} = {}
BY DEF IsWord, NeedsQuotes, Element

(* The array of some words.                                                    *)
AsArray(v) == <<"{">> \o Joined(v) \o <<"}">>

(* It is written so.                                                           *)
LEMMA WordsAreWritten ==
    ASSUME NEW v \in Seq(Strings), \A e \in ToSet(v) : IsWord(e)
    PROVE  ArrayText(v) = AsArray(v)
<1>1. \A i \in DOMAIN v : Element(v[i]) = v[i]
  BY WordsAre DEF ToSet
<1>2. v = [i \in DOMAIN v |-> v[i]]
  BY LenProperties
<1>3. [i \in DOMAIN v |-> Element(v[i])] = v
  BY <1>1, <1>2
<1>. QED  BY <1>3 DEF ArrayText, AsArray

(* With words there is no brace, and a comma at the end.                       *)
LEMMA CommaEndedWords ==
    ASSUME NEW v \in Seq(Strings), \A e \in ToSet(v) : IsWord(e)
    PROVE  /\ NoBraces(CommaEnded(v)) /\ CommaEnded(v) \in Seq(Chars)
           /\ EndsWithComma(CommaEnded(v))
<1>. DEFINE Good(w) == /\ NoBraces(CommaEnded(w)) /\ CommaEnded(w) \in Seq(Chars)
                       /\ EndsWithComma(CommaEnded(w))
            T == {w \in Seq(Strings) : (\A e \in ToSet(w) : IsWord(e)) => Good(w)}
<1>1. <<>> \in T
  <2>1. CommaEnded(<<>>) = <<>>
    BY FlattenEmpty DEF CommaEnded
  <2>2. <<>> \in Seq(Chars) /\ <<>> \in Seq(Strings) /\ NoBraces(<<>>)
    BY EmptySeq DEF NoBraces, ToSet
  <2>. QED  BY <2>1, <2>2 DEF EndsWithComma
<1>2. ASSUME NEW w \in Seq(Strings), NEW e \in Strings, w \in T
      PROVE  Append(w, e) \in T
  <2>1. Append(w, e) \in Seq(Strings) /\ ToSet(Append(w, e)) = ToSet(w) \cup {e}
    BY AppendProperties, MembersOfAppend
  <2>. SUFFICES ASSUME \A x \in ToSet(w) \cup {e} : IsWord(x)
                PROVE  Good(Append(w, e))
    BY <2>1
  <2>2. Good(w) /\ IsWord(e)
    BY <1>2
  <2>. DEFINE u == CommaEnded(w) \o e
  <2>3. /\ CommaEnded(w) \in Seq(Chars) /\ e \in Seq(Chars) /\ u \in Seq(Chars)
        /\ "," \in Chars /\ CommaEnded(Append(w, e)) = Append(u, ",")
    BY CommaEndedIs
  <2>4. ToSet(u) = ToSet(CommaEnded(w)) \cup ToSet(e)
    <3>1. \A x, y \in Seq(Chars) : ToSet(x \o y) = ToSet(x) \cup ToSet(y)
      BY MembersOfConcat
    <3>. QED  BY <2>3, <3>1
  <2>. HIDE DEF u
  <2>5. \A c \in Chars : /\ Append(u, c) \in Seq(Chars)
                         /\ ToSet(Append(u, c)) = ToSet(u) \cup {c}
                         /\ Append(u, c)[Len(Append(u, c))] = c
    <3>1. u \in Seq(Chars)
      BY <2>3
    <3>2. ASSUME NEW c \in Chars
          PROVE  /\ Append(u, c) \in Seq(Chars)
                 /\ Append(u, c)[Len(Append(u, c))] = c
      BY <3>1, AppendProperties
    <3>3. ASSUME NEW c \in Chars
          PROVE  ToSet(Append(u, c)) = ToSet(u) \cup {c}
      BY <3>1, MembersOfAppend
    <3>. QED  BY <3>2, <3>3
  <2>6. /\ Append(u, ",") \in Seq(Chars)
        /\ ToSet(Append(u, ",")) = ToSet(u) \cup {","}
        /\ Append(u, ",")[Len(Append(u, ","))] = ","
    <3>. DEFINE Ends(c) == /\ Append(u, c) \in Seq(Chars)
                          /\ ToSet(Append(u, c)) = ToSet(u) \cup {c}
                          /\ Append(u, c)[Len(Append(u, c))] = c
    <3>1. Ends(",")
      <4>1. \A c \in Chars : Ends(c)
        BY <2>5
      <4>. HIDE DEF Ends
      <4>. QED  BY <2>3, <4>1
    <3>. QED  BY <3>1
  <2>7. NoBraces(Append(u, ","))
    <3>1. ToSet(e) \cap {",", "{", "}"} = {}
      BY <2>2, WordsAre
    <3>. QED  BY <2>2, <2>4, <2>6, <3>1 DEF NoBraces
  <2>. QED  BY <2>3, <2>6, <2>7 DEF EndsWithComma
<1>3. v \in T
  <2>1. Seq(Strings) \subseteq T
    <3>. HIDE DEF T
    <3>. QED  BY <1>1, <1>2, AppendInduction
  <2>. QED  BY <2>1
<1>. QED  BY <1>3

(* Only the braces around an array are taken away.                             *)
LEMMA BracesGo ==
    ASSUME NEW s \in Seq(Chars), NoBraces(s)
    PROVE  WithoutBraces(<<"{">> \o s \o <<"}">>) = s
<1>. DEFINE Kept(c) == IF c \in {"{", "}"} THEN <<>> ELSE <<c>>
            All(t) == [i \in DOMAIN t |-> Kept(t[i])]
            n == Len(s)
<1>1. \A t : WithoutBraces(t) = FlattenSeq(All(t))
  BY DEF WithoutBraces
<1>2. /\ Kept("{") = <<>> /\ Kept("}") = <<>>
      /\ \A i \in 1 .. n : Kept(s[i]) = <<s[i]>>
  <2>1. \A i \in 1 .. n : s[i] \notin {"{", "}"}
    BY LenProperties DEF NoBraces, ToSet
  <2>. QED  BY <2>1
<1>3. "{" \in Chars /\ "}" \in Chars
  BY DEF Chars
<1>4. n \in Nat /\ DOMAIN s = 1 .. n /\ \A i \in 1 .. n : s[i] \in Chars
  BY LenProperties
<1>. HIDE DEF Kept
<1>. DEFINE singles == [i \in DOMAIN s |-> <<s[i]>>]
<1>5. All(s) = singles
  BY <1>2, <1>4
<1>6. singles \in Seq(Seq(Chars)) /\ <<>> \in Seq(Chars)
  <2>1. \A i \in 1 .. n : <<s[i]>> \in Seq(Chars)
    BY <1>4, OneElement
  <2>2. singles \in [1 .. n -> Seq(Chars)]
    BY <1>4, <2>1
  <2>. HIDE DEF singles
  <2>. QED  BY <1>4, <2>2, SeqDef, EmptySeq
<1>7. ASSUME NEW x \in Seq(Chars), NEW y \in Seq(Chars)
      PROVE  All(x \o y) = All(x) \o All(y)
  <2>1. /\ Len(x) \in Nat /\ DOMAIN x = 1 .. Len(x)
        /\ Len(y) \in Nat /\ DOMAIN y = 1 .. Len(y)
        /\ x \o y \in Seq(Chars) /\ DOMAIN (x \o y) = 1 .. Len(x) + Len(y)
        /\ \A i \in 1 .. Len(x) + Len(y) :
               (x \o y)[i] = IF i <= Len(x) THEN x[i] ELSE y[i - Len(x)]
    BY ConcatProperties, LenProperties
  <2>. DEFINE K == {Kept(c) : c \in Chars}
  <2>2. /\ All(x) \in Seq(K) /\ Len(All(x)) = Len(x)
        /\ All(y) \in Seq(K) /\ Len(All(y)) = Len(y)
        /\ All(x \o y) \in Seq(K) /\ Len(All(x \o y)) = Len(x) + Len(y)
    <3>1. ASSUME NEW z \in Seq(Chars)
          PROVE  All(z) \in Seq(K) /\ Len(All(z)) = Len(z)
      <4>1. /\ Len(z) \in Nat /\ DOMAIN z = 1 .. Len(z)
            /\ \A i \in 1 .. Len(z) : z[i] \in Chars
        BY LenProperties
      <4>2. All(z) \in [1 .. Len(z) -> K]
        BY <4>1
      <4>. HIDE DEF All, K
      <4>. QED  BY <4>1, <4>2, SeqDef
    <3>2. Len(x \o y) = Len(x) + Len(y)
      BY ConcatProperties
    <3>. HIDE DEF All, K
    <3>. QED  BY <2>1, <3>1, <3>2
  <2>3. /\ All(x) \o All(y) \in Seq(K)
        /\ Len(All(x) \o All(y)) = Len(x) + Len(y)
        /\ \A i \in 1 .. Len(x) + Len(y) : (All(x) \o All(y))[i] =
               IF i <= Len(x) THEN All(x)[i] ELSE All(y)[i - Len(x)]
    <3>. HIDE DEF All, K
    <3>1. \A a, b \in Seq(K) :
              /\ a \o b \in Seq(K) /\ Len(a \o b) = Len(a) + Len(b)
              /\ \A i \in 1 .. Len(a) + Len(b) :
                     (a \o b)[i] = IF i <= Len(a) THEN a[i] ELSE b[i - Len(a)]
      BY ConcatProperties
    <3>2. /\ All(x) \o All(y) \in Seq(K)
          /\ Len(All(x) \o All(y)) = Len(All(x)) + Len(All(y))
          /\ \A i \in 1 .. Len(All(x)) + Len(All(y)) : (All(x) \o All(y))[i] =
                 IF i <= Len(All(x)) THEN All(x)[i] ELSE All(y)[i - Len(All(x))]
      <4>1. All(x) \in Seq(K) /\ All(y) \in Seq(K)
        BY <2>2
      <4>. QED  BY <3>1, <4>1
    <3>3. Len(All(x)) = Len(x) /\ Len(All(y)) = Len(y)
      BY <2>2
    <3>. QED  BY <3>2, <3>3
  <2>4. ASSUME NEW i \in 1 .. Len(x) + Len(y)
        PROVE  All(x \o y)[i] = (All(x) \o All(y))[i]
    <3>1. All(x \o y)[i] = Kept((x \o y)[i])
      BY <2>1
    <3>2. CASE i <= Len(x)
      <4>1. i \in 1 .. Len(x)
        BY <2>1, <3>2
      <4>2. All(x)[i] = Kept(x[i])
        BY <2>1, <4>1
      <4>. HIDE DEF All
      <4>. QED  BY <2>1, <2>3, <3>1, <3>2, <4>2
    <3>3. CASE ~(i <= Len(x))
      <4>1. i - Len(x) \in 1 .. Len(y)
        BY <2>1, <3>3
      <4>2. All(y)[i - Len(x)] = Kept(y[i - Len(x)])
        BY <2>1, <4>1
      <4>. HIDE DEF All
      <4>. QED  BY <2>1, <2>3, <3>1, <3>3, <4>2
    <3>. QED  BY <3>2, <3>3
  <2>. HIDE DEF All, K
  <2>. QED  BY <2>2, <2>3, <2>4, SeqEqual
<1>8. All(<<"{">> \o s \o <<"}">>) = (<<<<>>>> \o singles) \o <<<<>>>>
  <2>1. \A c \in Chars : All(<<c>>) = <<Kept(c)>>
    OBVIOUS
  <2>2. <<"{">> \in Seq(Chars) /\ <<"}">> \in Seq(Chars) /\ <<"{">> \o s \in Seq(Chars)
    BY <1>3, OneElement, ConcatProperties
  <2>. HIDE DEF All, singles
  <2>. QED  BY <1>2, <1>3, <1>5, <1>7, <2>1, <2>2
<1>. HIDE DEF All
<1>9. FlattenSeq(singles) = s
  BY FlattenSingles
<1>. HIDE DEF singles
<1>10. <<<<>>>> \in Seq(Seq(Chars)) /\ FlattenSeq(<<<<>>>>) = <<>>
  <2>1. <<<<>>>> \in Seq(Seq(Chars)) /\ Len(<<<<>>>>) = 1 /\ <<<<>>>>[1] = <<>>
    BY <1>6, OneElement
  <2>. QED  BY <2>1, FlattenOne
<1>11. FlattenSeq(<<<<>>>> \o singles) = <<>> \o s /\ <<<<>>>> \o singles \in Seq(Seq(Chars))
  BY <1>6, <1>9, <1>10, FlattenConcat, ConcatProperties
<1>12. FlattenSeq((<<<<>>>> \o singles) \o <<<<>>>>) = (<<>> \o s) \o <<>>
  BY <1>10, <1>11, FlattenConcat
<1>13. (<<>> \o s) \o <<>> = s
  BY ConcatEmptySeq
<1>. QED  BY <1>1, <1>8, <1>12, <1>13

-----------------------------------------------------------------------------
(* split_str: what the first places of a text give.                            *)

Piece(s, i) ==
    IF i = 1 \/ s[i - 1] = "," THEN <<SubSeq(s, i, PartEnd(s, i) - 1)>> ELSE <<>>
Cut(s, m) == FlattenSeq([i \in 1 .. m |-> Piece(s, i)])
Subtexts(s) == {SubSeq(s, i, PartEnd(s, i) - 1) : i \in Nat}

(* One place more.                                                             *)
LEMMA CutIs ==
    ASSUME NEW s, NEW m \in Nat
    PROVE  /\ Cut(s, 0) = <<>>
           /\ Cut(s, m) \in Seq(Subtexts(s))
           /\ Cut(s, m + 1) = Cut(s, m) \o Piece(s, m + 1)
<1>. DEFINE Pieces(n) == [i \in 1 .. n |-> Piece(s, i)]
            S == Subtexts(s)
<1>1. \A i \in Nat : Piece(s, i) \in Seq(S)
  <2>. SUFFICES ASSUME NEW i \in Nat
                PROVE  Piece(s, i) \in Seq(S)
    OBVIOUS
  <2>1. SubSeq(s, i, PartEnd(s, i) - 1) \in S
    BY DEF Subtexts
  <2>. HIDE DEF S
  <2>2. <<SubSeq(s, i, PartEnd(s, i) - 1)>> \in Seq(S) /\ <<>> \in Seq(S)
    BY <2>1, OneElement, EmptySeq
  <2>. QED  BY <2>2 DEF Piece
<1>. HIDE DEF S
<1>2. ASSUME NEW n \in Nat
      PROVE  Pieces(n) \in Seq(Seq(S)) /\ Len(Pieces(n)) = n
  <2>1. Pieces(n) \in [1 .. n -> Seq(S)]
    BY <1>1
  <2>. HIDE DEF Pieces
  <2>. QED  BY <2>1, SeqDef
<1>3. Pieces(m + 1) = Append(Pieces(m), Piece(s, m + 1))
  <2>. DEFINE a == Append(Pieces(m), Piece(s, m + 1))
  <2>1. m + 1 \in Nat /\ Piece(s, m + 1) \in Seq(S)
    BY <1>1
  <2>2. /\ a \in Seq(Seq(S)) /\ Len(a) = m + 1
        /\ \A i \in 1 .. m : a[i] = Pieces(m)[i]
        /\ a[m + 1] = Piece(s, m + 1)
    <3>. HIDE DEF Pieces
    <3>. QED  BY <1>2, <2>1, AppendProperties
  <2>3. \A i \in 1 .. m : Pieces(m)[i] = Piece(s, i)
    OBVIOUS
  <2>4. \A i \in 1 .. m + 1 : Pieces(m + 1)[i] = Piece(s, i)
    OBVIOUS
  <2>5. \A i \in 1 .. m + 1 : i \in 1 .. m \/ i = m + 1
    OBVIOUS
  <2>6. \A i \in 1 .. m + 1 : Pieces(m + 1)[i] = a[i]
    <3>. HIDE DEF Pieces, a
    <3>. QED  BY <2>2, <2>3, <2>4, <2>5
  <2>7. Pieces(m + 1) \in Seq(Seq(S)) /\ Len(Pieces(m + 1)) = m + 1
    BY <1>2, <2>1
  <2>. HIDE DEF Pieces, a
  <2>. QED  BY <2>2, <2>6, <2>7, SeqEqual DEF a
<1>4. FlattenSeq(Append(Pieces(m), Piece(s, m + 1))) = FlattenSeq(Pieces(m)) \o Piece(s, m + 1)
  <2>1. Pieces(m) \in Seq(Seq(S)) /\ Piece(s, m + 1) \in Seq(S)
    BY <1>1, <1>2
  <2>. HIDE DEF Pieces
  <2>. QED  BY <2>1, FlattenAppend
<1>5. Cut(s, 0) = <<>>
  <2>1. Pieces(0) = <<>>
    OBVIOUS
  <2>. QED  BY <2>1, FlattenEmpty DEF Cut
<1>6. FlattenSeq(Pieces(m)) \in Seq(S)
  <2>1. Pieces(m) \in Seq(Seq(S))
    BY <1>2
  <2>. HIDE DEF Pieces
  <2>. QED  BY <2>1, FlattenType
<1>. QED  BY <1>3, <1>4, <1>5, <1>6 DEF Cut, S

(* A part begins behind a comma.                                               *)
LEMMA PieceIs ==
    ASSUME NEW s, NEW i, i - 1 \in 1 .. Len(s)
    PROVE  Piece(s, i) = IF i = 1 \/ i - 1 \in Commas(s)
                         THEN <<SubSeq(s, i, PartEnd(s, i) - 1)>> ELSE <<>>
BY DEF Piece, Commas

(* A part without commas, from the text's begin or a comma to a comma or the   *)
(* text's end, is one element of the result.                                   *)
IsPart(s, a, n, e) ==
    /\ s \in Seq(Chars) /\ e \in Seq(Chars) /\ a \in Nat /\ n \in Nat
    /\ n = Len(e) /\ a + n <= Len(s)
    /\ \A k \in 1 .. n : s[a + k] = e[k]
    /\ \A k \in 1 .. n : a + k \notin Commas(s)
    /\ a = 0 \/ a \in Commas(s)
    /\ a + n = Len(s) \/ a + n + 1 \in Commas(s)

LEMMA PartIsCut ==
    ASSUME NEW s, NEW a, NEW n, NEW e, IsPart(s, a, n, e)
    PROVE  Cut(s, a + n + 1) = Append(Cut(s, a), e)
<1>. USE DEF IsPart
<1>1. Len(s) \in Nat /\ a + 1 \in 1 .. Len(s) + 1
      /\ a + n + 1 \in a + 1 .. Len(s) + 1
  BY LenProperties
<1>2. PartEnd(s, a + 1) = a + n + 1
  <2>1. EndsAt(Len(s), a + 1, Commas(s), PartEnd(s, a + 1))
    BY <1>1, EndsAreFound
  <2>2. a + n + 1 = Len(s) + 1 \/ a + n + 1 \in Commas(s)
    OBVIOUS
  <2>3. \A k \in a + 1 .. (a + n + 1) - 1 : k \notin Commas(s)
    <3>. SUFFICES ASSUME NEW k \in a + 1 .. (a + n + 1) - 1
                  PROVE  k \notin Commas(s)
      OBVIOUS
    <3>1. k - a \in 1 .. n /\ a + (k - a) = k
      OBVIOUS
    <3>. QED  BY <3>1
  <2>4. EndsAt(Len(s), a + 1, Commas(s), a + n + 1)
    BY <1>1, <2>2, <2>3 DEF EndsAt
  <2>. QED  BY <1>1, <2>1, <2>4, OneEnd
<1>3. SubSeq(s, a + 1, a + n) = e
  <2>1. a + 1 \in Int /\ a + n \in Int /\ ((a + n) - (a + 1)) + 1 = n
    OBVIOUS
  <2>2. \A k \in a + 1 .. a + n : s[k] \in Chars
    <3>1. \A k \in a + 1 .. a + n : k \in 1 .. Len(s)
      BY <1>1
    <3>. QED  BY <3>1, ElementOfSeq
  <2>3. /\ SubSeq(s, a + 1, a + n) \in Seq(Chars)
        /\ Len(SubSeq(s, a + 1, a + n)) = n
        /\ \A k \in 1 .. n : SubSeq(s, a + 1, a + n)[k] = s[((a + 1) + k) - 1]
    <3>1. /\ SubSeq(s, a + 1, a + n) \in Seq(Chars)
          /\ Len(SubSeq(s, a + 1, a + n)) =
                 IF a + 1 <= a + n THEN ((a + n) - (a + 1)) + 1 ELSE 0
          /\ \A k \in 1 .. ((a + n) - (a + 1)) + 1 :
                 SubSeq(s, a + 1, a + n)[k] = s[((a + 1) + k) - 1]
      <4>. DEFINE p == a + 1
                  q == a + n
      <4>1. p \in Int /\ q \in Int /\ \A k \in p .. q : s[k] \in Chars
        BY <2>1, <2>2
      <4>. HIDE DEF p, q
      <4>2. /\ SubSeq(s, p, q) \in Seq(Chars)
            /\ Len(SubSeq(s, p, q)) = IF p <= q THEN q - p + 1 ELSE 0
            /\ \A k \in 1 .. q - p + 1 : SubSeq(s, p, q)[k] = s[p + k - 1]
        BY <4>1, SubSeqProperties
      <4>. QED  BY <4>2 DEF p, q
    <3>2. IF a + 1 <= a + n THEN n >= 1 ELSE n = 0
      OBVIOUS
    <3>. QED  BY <2>1, <3>1, <3>2
  <2>4. \A k \in 1 .. n : s[((a + 1) + k) - 1] = e[k]
    <3>1. \A k \in 1 .. n : ((a + 1) + k) - 1 = a + k
      OBVIOUS
    <3>. QED  BY <3>1
  <2>. DEFINE t == SubSeq(s, a + 1, a + n)
  <2>5. /\ t \in Seq(Chars) /\ e \in Seq(Chars)
        /\ Len(t) = Len(e) /\ \A k \in 1 .. Len(t) : t[k] = e[k]
    BY <2>3, <2>4
  <2>. HIDE DEF t
  <2>6. t = e
    BY <2>5, SeqEqual
  <2>. QED  BY <2>6 DEF t
<1>4. Piece(s, a + 1) = <<e>>
  <2>1. (a + 1) - 1 = a /\ (a = 0 => a + 1 = 1) /\ PartEnd(s, a + 1) - 1 = a + n
    BY <1>2
  <2>2. CASE a = 0
    BY <1>3, <2>1, <2>2 DEF Piece
  <2>3. CASE a # 0
    <3>1. (a + 1) - 1 \in 1 .. Len(s) /\ (a + 1) - 1 \in Commas(s)
      BY <1>1, <2>1, <2>3
    <3>. QED  BY <1>3, <2>1, <3>1, PieceIs
  <2>. QED  BY <2>2, <2>3
<1>5. ASSUME NEW k \in 1 .. n
      PROVE  Piece(s, a + 1 + k) = <<>>
  <2>1. (a + 1 + k) - 1 = a + k /\ a + 1 + k # 1 /\ (a + 1 + k) - 1 \in 1 .. Len(s)
    BY <1>1
  <2>. QED  BY <2>1, PieceIs
<1>. DEFINE S == Subtexts(s)
            whole == Append(Cut(s, a), e)
<1>6. e \in S /\ Cut(s, a) \in Seq(S)
  <2>1. e = SubSeq(s, a + 1, PartEnd(s, a + 1) - 1)
    BY <1>2, <1>3
  <2>2. a + 1 \in Nat
    OBVIOUS
  <2>3. e \in Subtexts(s)
    BY <2>1, <2>2 DEF Subtexts
  <2>4. Cut(s, a) \in Seq(Subtexts(s))
    BY CutIs
  <2>. QED  BY <2>3, <2>4
<1>. HIDE DEF S
<1>7. whole \in Seq(S) /\ whole = Cut(s, a) \o <<e>>
  BY <1>6, AppendProperties, AppendIsConcat
<1>. HIDE DEF whole
<1>. DEFINE T == {k \in Nat : k <= n => Cut(s, a + 1 + k) = whole}
<1>8. 0 \in T
  <2>1. Cut(s, a + 1) = whole
    BY <1>4, <1>7, CutIs
  <2>2. a + 1 + 0 = a + 1
    OBVIOUS
  <2>. QED  BY <2>1, <2>2
<1>9. ASSUME NEW k \in Nat, k \in T
       PROVE  k + 1 \in T
  <2>. SUFFICES ASSUME k + 1 <= n
                PROVE  Cut(s, a + 1 + (k + 1)) = whole
    OBVIOUS
  <2>1. Cut(s, a + 1 + k) = whole
    BY <1>9
  <2>2. /\ a + 1 + (k + 1) = (a + 1 + k) + 1 /\ a + 1 + k \in Nat
        /\ k + 1 \in 1 .. n
    OBVIOUS
  <2>3. Cut(s, (a + 1 + k) + 1) = Cut(s, a + 1 + k) \o Piece(s, (a + 1 + k) + 1)
    BY <2>2, CutIs
  <2>4. Piece(s, a + 1 + (k + 1)) = <<>>
    BY <1>5, <2>2
  <2>5. whole \o <<>> = whole
    BY <1>7, ConcatEmptySeq
  <2>. QED  BY <2>1, <2>2, <2>3, <2>4, <2>5
<1>10. Nat \subseteq T
  <2>. HIDE DEF T
  <2>. QED  BY <1>8, <1>9, SetInduction
<1>11. Cut(s, a + 1 + n) = whole
  <2>1. n \in T /\ n <= n
    BY <1>10
  <2>. QED  BY <2>1
<1>12. a + 1 + n = a + n + 1
  OBVIOUS
<1>. QED  BY <1>11, <1>12 DEF whole

(* The same for the parts of a concatenation.                                  *)
NoComma(e) == "," \notin ToSet(e)
BeginsWithComma(s) == s = <<>> \/ s[1] = ","

LEMMA OneMorePart ==
    ASSUME NEW p \in Seq(Chars), NEW e \in Seq(Chars), NEW r \in Seq(Chars),
           EndsWithComma(p), NoComma(e), BeginsWithComma(r)
    PROVE  /\ Len(p) \in Nat /\ Len(e) \in Nat
           /\ Cut((p \o e) \o r, Len(p) + Len(e) + 1) = Append(Cut((p \o e) \o r, Len(p)), e)
<1>. DEFINE s == (p \o e) \o r
            a == Len(p)
            n == Len(e)
<1>1. a \in Nat /\ n \in Nat /\ Len(r) \in Nat
  BY LenProperties
<1>2. /\ p \o e \in Seq(Chars) /\ Len(p \o e) = a + n
      /\ \A k \in 1 .. a + n : (p \o e)[k] = IF k <= a THEN p[k] ELSE e[k - a]
  BY ConcatProperties
<1>3. /\ s \in Seq(Chars) /\ Len(s) = a + n + Len(r)
      /\ \A k \in 1 .. a + n + Len(r) :
             s[k] = IF k <= a + n THEN (p \o e)[k] ELSE r[k - (a + n)]
  <2>1. /\ s \in Seq(Chars) /\ Len(s) = Len(p \o e) + Len(r)
        /\ \A k \in 1 .. Len(p \o e) + Len(r) :
               s[k] = IF k <= Len(p \o e) THEN (p \o e)[k] ELSE r[k - Len(p \o e)]
    BY <1>2, ConcatProperties
  <2>. QED  BY <1>2, <2>1
<1>. HIDE DEF s
<1>4. \A k \in 1 .. n : s[a + k] = e[k] /\ a + k \notin Commas(s)
  <2>. SUFFICES ASSUME NEW k \in 1 .. n
                PROVE  s[a + k] = e[k] /\ a + k \notin Commas(s)
    OBVIOUS
  <2>1. /\ a + k \in 1 .. a + n /\ a + k \in 1 .. a + n + Len(r)
        /\ a + k <= a + n /\ ~(a + k <= a) /\ (a + k) - a = k
    BY <1>1
  <2>2. s[a + k] = e[k]
    BY <1>2, <1>3, <2>1
  <2>3. e[k] # ","
    BY LenProperties DEF ToSet, NoComma
  <2>. QED  BY <2>2, <2>3 DEF Commas
<1>5. a = 0 \/ a \in Commas(s)
  <2>. SUFFICES ASSUME a # 0
                PROVE  a \in Commas(s)
    OBVIOUS
  <2>1. /\ a \in 1 .. a + n /\ a \in 1 .. a + n + Len(r)
        /\ a <= a + n /\ a <= a /\ a \in 1 .. Len(s)
    BY <1>1, <1>3
  <2>2. s[a] = p[a]
    BY <1>2, <1>3, <2>1
  <2>3. p # <<>>
    BY EmptySeq
  <2>. QED  BY <2>1, <2>2, <2>3 DEF Commas, EndsWithComma
<1>6. a + n = Len(s) \/ a + n + 1 \in Commas(s)
  <2>1. CASE r = <<>>
    BY <1>1, <1>3, <2>1, EmptySeq
  <2>2. CASE r # <<>>
    <3>1. Len(r) \in Nat \ {0}
      BY <2>2, EmptySeq
    <3>2. /\ a + n + 1 \in 1 .. a + n + Len(r) /\ ~(a + n + 1 <= a + n)
          /\ (a + n + 1) - (a + n) = 1 /\ a + n + 1 \in 1 .. Len(s)
      BY <1>1, <1>3, <3>1
    <3>3. s[a + n + 1] = r[1]
      BY <1>3, <3>2
    <3>. QED  BY <2>2, <3>2, <3>3 DEF Commas, BeginsWithComma
  <2>. QED  BY <2>1, <2>2
<1>7. a + n <= Len(s)
  BY <1>1, <1>3
<1>. HIDE DEF a, n
<1>8. Cut(s, a + n + 1) = Append(Cut(s, a), e)
  <2>1. n = Len(e)
    BY DEF n
  <2>2. IsPart(s, a, n, e)
    BY <1>1, <1>3, <1>4, <1>5, <1>6, <1>7, <2>1 DEF IsPart
  <2>. QED  BY <2>2, PartIsCut
<1>. QED  BY <1>1, <1>8 DEF s, a, n

(* The parts up to the last comma are the elements before it.                  *)
LEMMA PartsUpTo ==
    ASSUME NEW v \in Seq(Strings), \A e \in ToSet(v) : IsWord(e), NEW y \in Seq(Chars)
    PROVE  Cut(CommaEnded(v) \o y, Len(CommaEnded(v))) = v
<1>. DEFINE Good(w) == \A x \in Seq(Chars) : Cut(CommaEnded(w) \o x, Len(CommaEnded(w))) = w
            T == {w \in Seq(Strings) : (\A e \in ToSet(w) : IsWord(e)) => Good(w)}
<1>1. <<>> \in T
  <2>1. CommaEnded(<<>>) = <<>>
    BY FlattenEmpty DEF CommaEnded
  <2>2. <<>> \in Seq(Strings) /\ Len(<<>>) = 0
    BY EmptySeq
  <2>3. \A x : Cut(x, 0) = <<>>
    BY CutIs
  <2>. QED  BY <2>1, <2>2, <2>3
<1>2. ASSUME NEW w \in Seq(Strings), NEW e \in Strings, w \in T
      PROVE  Append(w, e) \in T
  <2>1. Append(w, e) \in Seq(Strings) /\ ToSet(Append(w, e)) = ToSet(w) \cup {e}
    BY AppendProperties, MembersOfAppend
  <2>. SUFFICES ASSUME \A d \in ToSet(w) \cup {e} : IsWord(d), NEW x \in Seq(Chars)
                PROVE  Cut(CommaEnded(Append(w, e)) \o x, Len(CommaEnded(Append(w, e))))
                           = Append(w, e)
    BY <2>1
  <2>2. Good(w) /\ \A d \in ToSet(w) : IsWord(d)
    BY <1>2
  <2>3. NoComma(e)
    BY WordsAre DEF NoComma
  <2>. DEFINE c == CommaEnded(w)
              comma == <<",">>
              r == comma \o x
  <2>4. /\ c \in Seq(Chars) /\ c \o e \in Seq(Chars) /\ e \in Seq(Chars) /\ "," \in Chars
        /\ CommaEnded(Append(w, e)) = Append(c \o e, ",")
        /\ EndsWithComma(c)
    BY <2>2, CommaEndedIs, CommaEndedWords
  <2>. HIDE DEF c
  <2>5. comma \in Seq(Chars) /\ r \in Seq(Chars) /\ BeginsWithComma(r)
    <3>1. ASSUME NEW z \in Chars
          PROVE  <<z>> \in Seq(Chars) /\ <<z>> \o x \in Seq(Chars) /\ (<<z>> \o x)[1] = z
      <4>1. <<z>> \in Seq(Chars) /\ Len(<<z>>) = 1 /\ <<z>>[1] = z
        BY OneElement
      <4>. QED  BY <4>1, ConcatProperties
    <3>. QED  BY <2>4, <3>1 DEF BeginsWithComma
  <2>6. /\ CommaEnded(Append(w, e)) \o x = (c \o e) \o r
        /\ (c \o e) \o r = c \o (e \o r)
        /\ e \o r \in Seq(Chars)
    <3>1. CommaEnded(Append(w, e)) = (c \o e) \o comma
      BY <2>4, AppendIsConcat
    <3>. HIDE DEF comma
    <3>2. FourSequences(Chars, c, e, comma, x, r)
      BY <2>4, <2>5 DEF FourSequences, Glued
    <3>. HIDE DEF r
    <3>3. /\ ((c \o e) \o comma) \o x = (c \o e) \o r
          /\ (c \o e) \o r = c \o (e \o r) /\ e \o r \in Seq(Chars)
      BY <3>2, Regroup
    <3>. QED  BY <3>1, <3>3
  <2>7. Cut(c \o (e \o r), Len(c)) = w
    BY <2>2, <2>6 DEF c
  <2>8. /\ Len(c) \in Nat /\ Len(e) \in Nat
        /\ Cut((c \o e) \o r, Len(c) + Len(e) + 1) = Append(Cut((c \o e) \o r, Len(c)), e)
    BY <2>3, <2>4, <2>5, OneMorePart
  <2>9. Len(Append(c \o e, ",")) = Len(c) + Len(e) + 1
    <3>1. Len(c \o e) = Len(c) + Len(e)
      BY <2>4, ConcatProperties
    <3>2. Len(Append(c \o e, ",")) = Len(c \o e) + 1
      BY <2>4, AppendProperties
    <3>. QED  BY <3>1, <3>2
  <2>. QED  BY <2>4, <2>6, <2>7, <2>8, <2>9
<1>3. v \in T
  <2>1. Seq(Strings) \subseteq T
    <3>. HIDE DEF T
    <3>. QED  BY <1>1, <1>2, AppendInduction
  <2>. QED  BY <2>1
<1>. QED  BY <1>3

(* What is written between braces and commas is read from it again.            *)
LEMMA ArrayComesBack ==
    ASSUME NEW v \in Seq(Strings), \A e \in ToSet(v) : IsWord(e)
    PROVE  Parts(WithoutBraces(AsArray(v))) = v
<1>1. CASE v = <<>>
  <2>1. Joined(v) = <<>>
    BY <1>1 DEF Joined
  <2>2. <<>> \in Seq(Chars) /\ NoBraces(<<>>)
    BY EmptySeq DEF NoBraces, ToSet
  <2>3. WithoutBraces(AsArray(v)) = <<>>
    BY <2>1, <2>2, BracesGo DEF AsArray
  <2>. QED  BY <1>1, <2>3 DEF Parts
<1>2. CASE v # <<>>
  <2>1. PICK w \in Seq(Strings), e \in Strings : v = Append(w, e)
    BY <1>2, SequenceEmptyOrAppend
  <2>2. ToSet(v) = ToSet(w) \cup {e}
    BY <2>1, MembersOfAppend
  <2>3. IsWord(e) /\ e # <<>> /\ \A d \in ToSet(w) : IsWord(d)
    BY <2>2, WordsAre
  <2>. DEFINE c == CommaEnded(w)
              s == c \o e
  <2>4. /\ c \in Seq(Chars) /\ s \in Seq(Chars) /\ e \in Seq(Chars)
        /\ NoBraces(c) /\ EndsWithComma(c)
        /\ Joined(v) = s
    BY <2>1, <2>3, CommaEndedIs, CommaEndedWords, JoinedIs
  <2>5. Cut(s, Len(c)) = w
    BY <2>3, <2>4, PartsUpTo
  <2>. HIDE DEF c
  <2>6. NoBraces(s)
    <3>1. \A x, y \in Seq(Chars) : ToSet(x \o y) = ToSet(x) \cup ToSet(y)
      BY MembersOfConcat
    <3>2. ToSet(s) = ToSet(c) \cup ToSet(e)
      BY <2>4, <3>1
    <3>. HIDE DEF s
    <3>3. ToSet(e) \cap {",", "{", "}"} = {}
      BY <2>3, WordsAre
    <3>. QED  BY <2>4, <3>2, <3>3 DEF NoBraces
  <2>7. Len(s) = Len(c) + Len(e) /\ s # <<>> /\ s \o <<>> = s
    <3>1. Len(s) = Len(c) + Len(e)
      BY <2>4, ConcatProperties
    <3>2. Len(c) \in Nat /\ Len(e) \in Nat \ {0}
      BY <2>3, <2>4, EmptySeq, LenProperties
    <3>3. Len(s) # 0
      BY <3>1, <3>2
    <3>4. s # <<>>
      BY <3>3, EmptySeq
    <3>5. s \o <<>> = s
      BY <2>4, ConcatEmptySeq
    <3>. QED  BY <3>1, <3>4, <3>5
  <2>8. Cut(s, Len(c) + Len(e) + 1) = Append(w, e)
    <3>1. NoComma(e) /\ BeginsWithComma(<<>>) /\ <<>> \in Seq(Chars)
      BY <2>3, EmptySeq, WordsAre DEF NoComma, BeginsWithComma
    <3>2. Cut((c \o e) \o <<>>, Len(c) + Len(e) + 1)
              = Append(Cut((c \o e) \o <<>>, Len(c)), e)
      BY <2>4, <3>1, OneMorePart
    <3>. QED  BY <2>5, <2>7, <3>2
  <2>9. Parts(s) = Cut(s, Len(s) + 1)
    BY <2>7 DEF Parts, Cut, Piece
  <2>10. WithoutBraces(AsArray(v)) = s
    BY <2>4, <2>6, BracesGo DEF AsArray
  <2>. QED  BY <2>1, <2>7, <2>8, <2>9, <2>10
<1>. QED  BY <1>1, <1>2

(* A vector of words that is stored in an array column is read from it again,  *)
(* however many words it has and whatever these are.                           *)
THEOREM ColumnIsRead == Spec => []ColumnComesBack
<1>1. PackedInv => ColumnComesBack
  <2>. SUFFICES ASSUME PackedInv, IsPacked, isArray, phase = "read",
                       \A e \in ToSet(vec) : IsWord(e)
                PROVE  back = vec
    BY DEF ColumnComesBack
  <2>1. vec \in Seq(Strings) /\ back = Parts(WithoutBraces(ArrayText(vec)))
    BY DEF PackedInv, OfPacked
  <2>. QED  BY <2>1, WordsAreWritten, ArrayComesBack
<1>. QED  BY <1>1, Invariance, PTL

-----------------------------------------------------------------------------
(* The values of a row in the text of a statement.                             *)

(* The literal that stands for an element in an INSERT over a connection.      *)
Written(type, v) ==
    Literal(CASE type \in {"text", "char_array"} -> "escaped"
              [] type \in {"date", "time"} -> "quoted"
              [] OTHER -> "bare", v)
WrittenAll(f, value) == [i \in 1 .. Len(value) |-> Written(Type[f], value[i])]

Literals == [form : {"escaped", "quoted", "bare"}, value : Elements]

-----------------------------------------------------------------------------
(* The text of an INSERT.                                                      *)

(* Outside a dry run every element that can be written has exactly one literal. *)
LEMMA OneLiteral ==
    ASSUME ~dry, NEW f \in Names, NEW v, Type[f] = "date" => v.length # "long"
    PROVE  getVariableValue(Type[f], v) = <<Written(Type[f], v)>>
BY FieldsAssumption
   DEF getVariableValue, Written, Literal, DateToPostgreDate, TimeToPostgreTime, Types

(* The literals of a value are sequences of literals.                          *)
LEMMA WrittenType ==
    ASSUME NEW f \in Names, NEW value \in Seq(Elements)
    PROVE  /\ WrittenAll(f, value) \in Seq(Literals)
           /\ Len(WrittenAll(f, value)) = Len(value)
<1>1. Len(value) \in Nat /\ \A i \in 1 .. Len(value) : value[i] \in Elements
  BY LenProperties
<1>2. \A v \in Elements : Written(Type[f], v) \in Literals
  BY DEF Written, Literal, Literals
<1>3. WrittenAll(f, value) \in [1 .. Len(value) -> Literals]
  BY <1>1, <1>2 DEF WrittenAll
<1>. QED  BY <1>1, <1>3, SeqDef, LenProperties DEF WrittenAll

(* A field that has a value that can be written is one text: all of its        *)
(* literals, in their order.                                                   *)
LEMMA OneTextForField ==
    ASSUME ~dry, NEW f \in Names, NEW value \in Seq(Elements), CanBeWritten(f, value)
    PROVE  addVariableToString(f, value) = <<WrittenAll(f, value)>>
<1>. DEFINE w == WrittenAll(f, value)
            each == [i \in DOMAIN value |-> getVariableValue(Type[f], value[i])]
            single == [i \in DOMAIN w |-> <<w[i]>>]
<1>1. DOMAIN value = 1 .. Len(value)
  BY LenProperties
<1>2. w \in Seq(Literals) /\ Len(w) = Len(value)
  BY WrittenType
<1>3. each = single
  BY <1>1, OneLiteral DEF WrittenAll, CanBeWritten
<1>4. FlattenSeq(each) = w
  <2>. HIDE DEF w, each
  <2>. QED  BY <1>2, <1>3, FlattenSingles
<1>5. w # <<>>
  <2>1. Len(value) # 0
    BY EmptySeq DEF CanBeWritten
  <2>. QED  BY <1>2, <2>1, EmptySeq
<1>6. IsWrittenAsArray(f) => {i \in DOMAIN value : value[i].length = "none"} = {}
  BY DEF CanBeWritten
<1>7. addVariableToString(f, value) =
          IF /\ IsWrittenAsArray(f)
             /\ {i \in DOMAIN value : value[i].length = "none"} # {}
          THEN <<<<Exception(value)>>>>
          ELSE IF IsWrittenAsArray(f) \/ FlattenSeq(each) # <<>>
          THEN <<FlattenSeq(each)>> ELSE <<>>
  BY DEF addVariableToString
<1>. HIDE DEF w, each
<1>. QED  BY <1>4, <1>5, <1>6, <1>7 DEF w

(* The rows that this is about: every field has a value that can be written.   *)
Writable(row) ==
    /\ DOMAIN row \subseteq Names
    /\ \A f \in DOMAIN row : row[f] \in Seq(Elements) /\ CanBeWritten(f, row[f])

(* The statement of such a row names the fields of the row, each of them, and  *)
(* has for each of them the text of its own value.                             *)
LEMMA StatementOfRow ==
    ASSUME ~dry, NEW row, Writable(row)
    PROVE  LET stmt == setupInsertString(row)
           IN  /\ Len(stmt.columns) \in Nat /\ Len(stmt.values) = Len(stmt.columns)
               /\ DOMAIN stmt.columns = 1 .. Len(stmt.columns)
               /\ DOMAIN stmt.values = 1 .. Len(stmt.columns)
               /\ ToSet(stmt.columns) = DOMAIN row
               /\ \A k \in 1 .. Len(stmt.columns) :
                      /\ stmt.columns[k] \in DOMAIN row
                      /\ stmt.values[k] = WrittenAll(stmt.columns[k], row[stmt.columns[k]])
<1>. DEFINE n == Len(Fields)
            S == Seq(Literals)
            Has(i) == Fields[i] \in DOMAIN row
            literals(i) == WrittenAll(Fields[i], row[Fields[i]])
            cs == [i \in 1 .. n |-> IF Has(i) THEN <<Fields[i]>> ELSE <<>>]
            vs == [i \in 1 .. n |-> IF Has(i) THEN <<literals(i)>> ELSE <<>>]
            columns == FlattenSeq(cs)
            values == FlattenSeq(vs)
<1>1. /\ n \in Nat /\ DOMAIN Fields = 1 .. n
      /\ \A i \in 1 .. n : Fields[i] \in Names
  BY FieldsAssumption, LenProperties
<1>2. ASSUME NEW i \in 1 .. n, Has(i)
      PROVE  /\ literals(i) \in S
             /\ addVariableToString(Fields[i], row[Fields[i]]) = <<literals(i)>>
  BY <1>1, <1>2, WrittenType, OneTextForField DEF Writable
<1>3. setupInsertString(row) = [columns |-> columns, values |-> values]
  BY <1>1, <1>2 DEF setupInsertString, ForEach
<1>4. cs \in Seq(Seq(Names)) /\ Len(cs) = n
  <2>1. \A i \in 1 .. n : cs[i] \in Seq(Names)
    BY <1>1
  <2>. QED  BY <1>1, <2>1
<1>5. vs \in Seq(Seq(S)) /\ Len(vs) = n
  <2>1. \A i \in 1 .. n : vs[i] \in Seq(S)
    <3>. HIDE DEF S, literals
    <3>. QED  BY <1>2
  <2>. HIDE DEF S, literals
  <2>. QED  BY <1>1, <2>1
<1>6. /\ \A i \in 1 .. n : Has(i) => /\ Len(cs[i]) = 1 /\ cs[i][1] = Fields[i]
                                     /\ Len(vs[i]) = 1 /\ vs[i][1] = literals(i)
      /\ \A i \in 1 .. n : ~Has(i) => Len(cs[i]) = 0 /\ Len(vs[i]) = 0
  <2>. HIDE DEF literals
  <2>. QED  OBVIOUS
<1>. HIDE DEF cs, vs
<1>7. PlaceByPlace(cs, vs, columns, values)
  <2>1. SameShape(cs, vs)
    BY <1>4, <1>5, <1>6 DEF SameShape
  <2>. QED  BY <1>4, <1>5, <2>1, FlattenTogether
<1>8. columns \in Seq(Names) /\ values \in Seq(S)
  <2>. HIDE DEF S
  <2>. QED  BY <1>4, <1>5, FlattenType
<1>. HIDE DEF columns, values, S
<1>9. /\ Len(columns) \in Nat /\ Len(values) = Len(columns)
      /\ DOMAIN columns = 1 .. Len(columns) /\ DOMAIN values = 1 .. Len(columns)
  BY <1>7, <1>8, LenProperties DEF PlaceByPlace
<1>10. ASSUME NEW k \in 1 .. Len(columns)
       PROVE  /\ columns[k] \in DOMAIN row
              /\ values[k] = WrittenAll(columns[k], row[columns[k]])
  <2>1. PICK i \in 1 .. n : \E j \in 1 .. Len(cs[i]) :
            columns[k] = cs[i][j] /\ values[k] = vs[i][j]
    <3>1. \A m \in 1 .. Len(columns) :
              \E i \in 1 .. Len(cs) : \E j \in 1 .. Len(cs[i]) :
                  columns[m] = cs[i][j] /\ values[m] = vs[i][j]
      BY <1>7, Zenon DEF PlaceByPlace
    <3>2. \E i \in 1 .. Len(cs) : \E j \in 1 .. Len(cs[i]) :
              columns[k] = cs[i][j] /\ values[k] = vs[i][j]
      BY <3>1, Zenon
    <3>3. Len(cs) = n
      BY <1>4
    <3>. QED  BY <3>2, <3>3, Zenon
  <2>2. PICK j \in 1 .. Len(cs[i]) : columns[k] = cs[i][j] /\ values[k] = vs[i][j]
    BY <2>1
  <2>3. Has(i) /\ j = 1
    BY <1>6, <2>2
  <2>. QED  BY <1>6, <2>2, <2>3
<1>11. ASSUME NEW f \in DOMAIN row
       PROVE  \E k \in 1 .. Len(columns) : columns[k] = f
  <2>1. PICK i \in 1 .. n : Fields[i] = f
    BY <1>1 DEF Writable, Names, ToSet
  <2>2. 1 \in 1 .. Len(cs[i]) /\ cs[i][1] = f
    BY <1>6, <2>1
  <2>. QED  BY <1>4, <1>7, <2>2 DEF PlaceByPlace
<1>12. ToSet(columns) = DOMAIN row
  BY <1>9, <1>10, <1>11 DEF ToSet
<1>. QED  BY <1>3, <1>9, <1>10, <1>12

-----------------------------------------------------------------------------
(* The server.                                                                 *)

(* It can read what is written for any field but a UUID.                       *)
LEMMA WrittenIsReadable ==
    ASSUME NEW f \in Names, Type[f] # "uuid", NEW v \in Elements
    PROVE  /\ Readable(Type[f], Written(Type[f], v))
           /\ Written(Type[f], v).form # "exception"
BY FieldsAssumption DEF Readable, Written, Literal, Types

(* It takes the statement of a row that can be written, and what it has then   *)
(* is this row.                                                                *)
LEMMA RowArrives ==
    ASSUME ~dry, NEW row \in GivenRows,
           \A f \in DOMAIN row : CanBeWritten(f, row[f])
    PROVE  /\ ~Throws(setupInsertString(row))
           /\ Accepts(setupInsertString(row))
           /\ RowOf(setupInsertString(row)) = row
<1>. DEFINE stmt == setupInsertString(row)
            n == Len(stmt.columns)
<1>1. PICK set \in SUBSET Names : row \in [set -> UNION {Values[f] : f \in set}]
                                  /\ \A f \in set : row[f] \in Values[f]
  BY DEF GivenRows
<1>2. /\ DOMAIN row \subseteq Names
      /\ \A f \in DOMAIN row : row[f] \in Values[f] /\ row[f] \in Seq(Elements)
      /\ row = [f \in DOMAIN row |-> row[f]]
  BY <1>1, ValuesAssumption
<1>3. Writable(row)
  BY <1>2 DEF Writable
<1>4. /\ n \in Nat /\ Len(stmt.values) = n
      /\ DOMAIN stmt.columns = 1 .. n /\ DOMAIN stmt.values = 1 .. n
      /\ ToSet(stmt.columns) = DOMAIN row
      /\ \A k \in 1 .. n :
             /\ stmt.columns[k] \in DOMAIN row
             /\ stmt.values[k] = WrittenAll(stmt.columns[k], row[stmt.columns[k]])
  BY <1>3, StatementOfRow
<1>. HIDE DEF stmt, n
<1>5. ASSUME NEW i \in 1 .. n
      PROVE  /\ stmt.values[i] # <<>>
             /\ IsWrittenAsArray(stmt.columns[i]) =>
                    Type[stmt.columns[i]] \notin {"date", "time"}
             /\ \A k \in DOMAIN stmt.values[i] :
                    /\ Readable(Type[stmt.columns[i]], stmt.values[i][k])
                    /\ stmt.values[i][k].form # "exception"
  <2>. DEFINE f == stmt.columns[i]
              value == row[f]
  <2>1. f \in Names /\ value \in Values[f] /\ value \in Seq(Elements) /\ value # <<>>
        /\ Type[f] # "uuid"
    BY <1>2, <1>4 DEF CanBeWritten
  <2>7. IsWrittenAsArray(f) => Type[f] \notin {"date", "time"}
    BY <1>2, <1>4 DEF CanBeWritten
  <2>2. stmt.values[i] = WrittenAll(f, value)
    BY <1>4
  <2>. HIDE DEF f, value
  <2>3. Len(value) \in Nat \ {0} /\ DOMAIN value = 1 .. Len(value)
        /\ \A k \in 1 .. Len(value) : value[k] \in Elements
    BY <2>1, EmptySeq, LenProperties
  <2>4. DOMAIN WrittenAll(f, value) = 1 .. Len(value)
        /\ \A k \in 1 .. Len(value) :
               WrittenAll(f, value)[k] = Written(Type[f], value[k])
    BY DEF WrittenAll
  <2>5. WrittenAll(f, value) # <<>>
    BY <2>1, <2>3, WrittenType, EmptySeq
  <2>6. ASSUME NEW k \in 1 .. Len(value)
        PROVE  /\ Readable(Type[f], Written(Type[f], value[k]))
               /\ Written(Type[f], value[k]).form # "exception"
    BY <2>1, <2>3, WrittenIsReadable
  <2>. QED  BY <2>2, <2>4, <2>5, <2>6, <2>7 DEF f
<1>6. Accepts(stmt) /\ ~Throws(stmt)
  BY <1>4, <1>5 DEF Accepts, Throws, n
<1>7. ASSUME NEW f \in DOMAIN row
      PROVE  RowOf(stmt)[f] = row[f]
  <2>. DEFINE i == CHOOSE j \in DOMAIN stmt.columns : stmt.columns[j] = f
  <2>1. i \in 1 .. n /\ stmt.columns[i] = f
    <3>1. \E j \in DOMAIN stmt.columns : stmt.columns[j] = f
      BY <1>4 DEF ToSet
    <3>. QED  BY <1>4, <3>1
  <2>2. RowOf(stmt)[f] = [k \in DOMAIN stmt.values[i] |-> stmt.values[i][k].value]
    BY <1>4 DEF RowOf
  <2>. HIDE DEF i
  <2>3. stmt.values[i] = WrittenAll(f, row[f])
    BY <1>4, <2>1
  <2>4. row[f] = [k \in 1 .. Len(row[f]) |-> row[f][k]]
    BY <1>2, LenProperties
  <2>. QED  BY <2>2, <2>3, <2>4 DEF WrittenAll, Written, Literal
<1>8. RowOf(stmt) = row
  <2>1. RowOf(stmt) = [f \in DOMAIN row |-> RowOf(stmt)[f]]
    BY <1>4 DEF RowOf
  <2>. QED  BY <1>2, <1>7, <2>1
<1>. QED  BY <1>6, <1>8 DEF stmt

(* Every row is taken: whatever values that can be written - no UUID, no date  *)
(* of too many characters, no array that is empty, has an empty element or is  *)
(* of dates or times - an application gives to the fields of any table, the    *)
(* INSERT made of them is understood and the table has the row as it was given. *)
THEOREM RowsAreTaken == TextSpec => []EveryRowIsTaken
<1>1. TextInit => EveryRowIsTaken
  BY DEF TextInit, Answer, EveryRowIsTaken
<1>2. EveryRowIsTaken /\ [TextNext]_textVars => EveryRowIsTaken'
  <2>. SUFFICES ASSUME EveryRowIsTaken, [TextNext]_textVars
                PROVE  EveryRowIsTaken'
    OBVIOUS
  <2>1. CASE InsertRows
    <3>1. PICK row \in GivenRows :
              LET stmt == setupInsertString(row)
                  sent == ~dry /\ DOMAIN row # {} /\ ~Throws(stmt)
                  status == IF Throws(stmt) THEN "HAVE_ERROR" ELSE IF dry THEN "OK"
                            ELSE IF ~sent THEN "NOT" ELSE IF Accepts(stmt) THEN "OK" ELSE "HAVE_ERROR"
              IN  /\ rows' = IF sent /\ Accepts(stmt) THEN rows \cup {RowOf(stmt)} ELSE rows
                  /\ answer' = Answer(IF DOMAIN row = {} THEN "nothing" ELSE "insert",
                                      status, {}, "none", row)
                  /\ dry' = dry
      BY <2>1 DEF InsertRows
    <3>. SUFFICES ASSUME answer'.call = "insert", ~dry',
                         \A f \in DOMAIN answer'.value :
                             CanBeWritten(f, answer'.value[f])
                  PROVE  answer'.status = "OK" /\ answer'.value \in rows'
      BY DEF EveryRowIsTaken
    <3>2. ~dry /\ DOMAIN row # {} /\ answer'.value = row
      BY <3>1 DEF Answer
    <3>3. /\ ~Throws(setupInsertString(row)) /\ Accepts(setupInsertString(row))
          /\ RowOf(setupInsertString(row)) = row
      BY <3>2, RowArrives
    <3>. QED  BY <3>1, <3>2, <3>3 DEF Answer
  <2>2. CASE SelectRows
    BY <2>2 DEF SelectRows, Answer, EveryRowIsTaken
  <2>3. CASE DeleteRows
    BY <2>3 DEF DeleteRows, Answer, EveryRowIsTaken
  <2>4. CASE UNCHANGED textVars
    BY <2>4 DEF textVars, EveryRowIsTaken
  <2>. QED  BY <2>1, <2>2, <2>3, <2>4 DEF TextNext
<1>. QED  BY <1>1, <1>2, PTL DEF TextSpec

-----------------------------------------------------------------------------
(* Conditions.                                                                 *)

(* The value of a condition that the server can read is the one that is meant. *)
LEMMA MeantIsWritten ==
    ASSUME NEW f \in Names \ Arrays, NEW v \in Asked(f),
           Readable(Type[f], DataFieldToStr(Type[f], v.value[1]))
    PROVE  v.meant = <<DataFieldToStr(Type[f], v.value[1]).value>>
<1>1. Type[f] \notin {"date", "time"}
  BY DEF Readable, DataFieldToStr, Literal
<1>2. PICK w \in Values[f] : v = [meant |-> w, value |-> w]
  BY <1>1 DEF Asked
<1>3. w \in Seq(Elements) /\ Len(w) = 1
  BY ValuesAssumption
<1>4. w = <<w[1]>>
  BY <1>3
<1>. QED  BY <1>2, <1>4 DEF DataFieldToStr, Literal

(* A number or a text is one that the server can read.                         *)
LEMMA AskedIsReadable ==
    ASSUME NEW f \in Names, NEW v, Type[f] \in {"int", "text", "char_array"}
    PROVE  Readable(Type[f], DataFieldToStr(Type[f], v))
BY DEF Readable, DataFieldToStr, Literal

(* The rows that hold what the caller of a condition means.                    *)
Meant(f, v) == {r \in rows : f \in DOMAIN r /\ r[f] = v.meant}

(* Without an apostrophe a condition is refused or takes these rows; on a      *)
(* number or a text it is understood.                                          *)
LEMMA MeantIsTaken ==
    ASSUME NEW f \in Names \ Arrays, NEW v \in Asked(f), ~v.value[1].apostrophe,
           NEW o \in Outcomes(f, DataFieldToStr(Type[f], v.value[1]))
    PROVE  /\ o = Refused \/ o = Understood(Meant(f, v))
           /\ Type[f] \in {"int", "text", "char_array"} => o = Understood(Meant(f, v))
<1>. DEFINE l == DataFieldToStr(Type[f], v.value[1])
<1>1. ~l.value.apostrophe
  BY DEF DataFieldToStr, Literal
<1>2. Readable(Type[f], l) => v.meant = <<l.value>>
  BY MeantIsWritten
<1>3. Type[f] \in {"int", "text", "char_array"} => Readable(Type[f], l)
  BY AskedIsReadable
<1>. HIDE DEF l
<1>4. o \in Outcomes(f, l)
  BY DEF l
<1>5. CASE Readable(Type[f], l)
  <2>1. o = Understood(Matching(f, l))
    BY <1>1, <1>4, <1>5 DEF Outcomes
  <2>2. Matching(f, l) = Meant(f, v)
    BY <1>2, <1>5 DEF Matching, Meant
  <2>. QED  BY <2>1, <2>2
<1>6. CASE ~Readable(Type[f], l)
  <2>1. o = Refused
    BY <1>4, <1>6 DEF Outcomes
  <2>. QED  BY <1>3, <1>6, <2>1
<1>. QED  BY <1>5, <1>6

(* What is stored is found: for any table, any values and any clock, a         *)
(* condition on a value without an apostrophe takes only rows that hold the    *)
(* value its caller means, and all of them when it is a number or a text.      *)
THEOREM StoredIsFound == TextSpec => []WhatIsStoredIsFound
<1>1. TextInit => WhatIsStoredIsFound
  BY DEF TextInit, Answer, WhatIsStoredIsFound
<1>2. WhatIsStoredIsFound /\ [TextNext]_textVars => WhatIsStoredIsFound'
  <2>. SUFFICES ASSUME WhatIsStoredIsFound, [TextNext]_textVars
                PROVE  WhatIsStoredIsFound'
    OBVIOUS
  <2>1. CASE InsertRows
    BY <2>1 DEF InsertRows, Answer, WhatIsStoredIsFound
  <2>2. CASE SelectRows
    <3>1. PICK f \in Names \ Arrays : \E v \in Asked(f) :
              \E o \in Outcomes(f, DataFieldToStr(Type[f], v.value[1])) :
                  /\ answer' = IF dry THEN Answer("select", "OK", {}, f, v)
                               ELSE Answer("select", o.status, o.hits, f, v)
                  /\ UNCHANGED <<dry, rows>>
      BY <2>2 DEF SelectRows
    <3>2. PICK v \in Asked(f) :
              \E o \in Outcomes(f, DataFieldToStr(Type[f], v.value[1])) :
                  /\ answer' = IF dry THEN Answer("select", "OK", {}, f, v)
                               ELSE Answer("select", o.status, o.hits, f, v)
                  /\ UNCHANGED <<dry, rows>>
      BY <3>1
    <3>3. PICK o \in Outcomes(f, DataFieldToStr(Type[f], v.value[1])) :
                  /\ answer' = IF dry THEN Answer("select", "OK", {}, f, v)
                               ELSE Answer("select", o.status, o.hits, f, v)
                  /\ UNCHANGED <<dry, rows>>
      BY <3>2
    <3>. SUFFICES ASSUME ~dry', ~answer'.value.value[1].apostrophe
                  PROVE  WhatIsStoredIsFound'
      BY DEF WhatIsStoredIsFound
    <3>4. answer' = Answer("select", o.status, o.hits, f, v) /\ rows' = rows
      BY <3>3
    <3>5. ~v.value[1].apostrophe
      BY <3>4 DEF Answer
    <3>6. /\ o = Refused \/ o = Understood(Meant(f, v))
          /\ Type[f] \in {"int", "text", "char_array"} => o = Understood(Meant(f, v))
      BY <3>5, MeantIsTaken
    <3>. QED  BY <3>4, <3>6
              DEF Answer, Meant, Refused, Understood, WhatIsStoredIsFound
  <2>3. CASE DeleteRows
    <3>1. PICK f \in Names \ Arrays : \E v \in Asked(f) :
              \E o \in Outcomes(f, DataFieldToStr(Type[f], v.value[1])) :
                  /\ answer' = IF dry THEN Answer("delete", "OK", {}, f, v)
                               ELSE Answer("delete", o.status, o.hits, f, v)
                  /\ rows' = IF dry THEN rows ELSE rows \ o.hits
                  /\ UNCHANGED dry
      BY <2>3 DEF DeleteRows
    <3>2. PICK v \in Asked(f) :
              \E o \in Outcomes(f, DataFieldToStr(Type[f], v.value[1])) :
                  /\ answer' = IF dry THEN Answer("delete", "OK", {}, f, v)
                               ELSE Answer("delete", o.status, o.hits, f, v)
                  /\ rows' = IF dry THEN rows ELSE rows \ o.hits
                  /\ UNCHANGED dry
      BY <3>1
    <3>3. PICK o \in Outcomes(f, DataFieldToStr(Type[f], v.value[1])) :
                  /\ answer' = IF dry THEN Answer("delete", "OK", {}, f, v)
                               ELSE Answer("delete", o.status, o.hits, f, v)
                  /\ rows' = IF dry THEN rows ELSE rows \ o.hits
                  /\ UNCHANGED dry
      BY <3>2
    <3>. SUFFICES ASSUME ~dry', ~answer'.value.value[1].apostrophe
                  PROVE  WhatIsStoredIsFound'
      BY DEF WhatIsStoredIsFound
    <3>4. answer' = Answer("delete", o.status, o.hits, f, v) /\ rows' = rows \ o.hits
      BY <3>3
    <3>5. ~v.value[1].apostrophe
      BY <3>4 DEF Answer
    <3>6. /\ o = Refused \/ o = Understood(Meant(f, v))
          /\ Type[f] \in {"int", "text", "char_array"} => o = Understood(Meant(f, v))
      BY <3>5, MeantIsTaken
    <3>. QED  BY <3>4, <3>6
              DEF Answer, Meant, Refused, Understood, WhatIsStoredIsFound
  <2>4. CASE UNCHANGED textVars
    BY <2>4 DEF textVars, WhatIsStoredIsFound
  <2>. QED  BY <2>1, <2>2, <2>3, <2>4 DEF TextNext
<1>. QED  BY <1>1, <1>2, PTL DEF TextSpec
=============================================================================

-------------------------- MODULE SequenceInduction --------------------------
(* Induction over numbers and sequences in terms of sets, and what FlattenSeq  *)
(* and FoldLeft compute.  The theorems of the library that have a predicate as *)
(* a parameter are stated here for a set, which stands for the predicate.      *)
EXTENDS SequencesExt, SequenceTheorems, WellFoundedInduction, TLAPS

-----------------------------------------------------------------------------
(* Numbers.                                                                    *)

(* There is no endless descent in the natural numbers.                         *)
LEMMA BelowIsWellFounded ==
    IsWellFoundedOn({p \in Nat \X Nat : p[1] < p[2]}, Nat)
BY NatLessThanWellFounded DEF OpToRel

(* A set of natural numbers has a least element.                               *)
LEMMA LeastNumber ==
    ASSUME NEW T \in SUBSET Nat, T # {}
    PROVE  \E x \in T : \A y \in T : x <= y
<1>. DEFINE Below == {p \in Nat \X Nat : p[1] < p[2]}
<1>1. PICK x \in T : \A y \in T : <<y, x>> \notin Below
  BY BelowIsWellFounded, WFMin
<1>2. \A y \in T : ~(y < x)
  BY <1>1
<1>. QED  BY <1>2

(* A set that has 0 and is closed under successor has all natural numbers.     *)
LEMMA SetInduction ==
    ASSUME NEW T, 0 \in T, \A n \in Nat : n \in T => n + 1 \in T
    PROVE  Nat \subseteq T
<1>. SUFFICES ASSUME Nat \ T # {}
              PROVE  FALSE
  OBVIOUS
<1>1. PICK x \in Nat \ T : \A y \in Nat \ T : x <= y
  BY LeastNumber
<1>2. x - 1 \in Nat
  BY <1>1
<1>3. x - 1 \in T
  BY <1>1, <1>2
<1>. QED  BY <1>1, <1>2, <1>3

(* The same where membership may follow from that of all smaller numbers.      *)
LEMMA StrongSetInduction ==
    ASSUME NEW T, \A n \in Nat : (\A m \in Nat : m < n => m \in T) => n \in T
    PROVE  Nat \subseteq T
<1>. SUFFICES ASSUME Nat \ T # {}
              PROVE  FALSE
  OBVIOUS
<1>1. PICK x \in Nat \ T : \A y \in Nat \ T : x <= y
  BY LeastNumber
<1>2. \A m \in Nat : m < x => m \in T
  BY <1>1
<1>. QED  BY <1>1, <1>2

(* A set that has the empty sequence and is closed under Append has all        *)
(* sequences.                                                                  *)
LEMMA AppendInduction ==
    ASSUME NEW S, NEW T, <<>> \in T,
           \A s \in Seq(S), e \in S : s \in T => Append(s, e) \in T
    PROVE  Seq(S) \subseteq T
<1>. DEFINE Short == {n \in Nat : \A s \in Seq(S) : Len(s) = n => s \in T}
<1>1. 0 \in Short
  BY EmptySeq
<1>2. ASSUME NEW n \in Nat, n \in Short
      PROVE  n + 1 \in Short
  <2>. SUFFICES ASSUME NEW s \in Seq(S), Len(s) = n + 1
                PROVE  s \in T
    OBVIOUS
  <2>1. PICK r \in Seq(S), e \in S : s = Append(r, e)
    BY SequenceEmptyOrAppend, EmptySeq
  <2>2. Len(r) = n
    BY <2>1, AppendProperties, LenProperties
  <2>. QED  BY <1>2, <2>1, <2>2
<1>3. Nat \subseteq Short
  <2>. HIDE DEF Short
  <2>. QED  BY <1>1, <1>2, SetInduction
<1>. QED  BY <1>3, LenProperties

(* Concatenation, for any sequences of a set.                                  *)
LEMMA Associates ==
    \A S : \A x, y, z \in Seq(S) : (x \o y) \o z = x \o (y \o z)
BY ConcatAssociative

(* A concatenation is a sequence of the same set.                              *)
LEMMA Concatenates ==
    \A S : \A x, y \in Seq(S) : x \o y \in Seq(S)
BY ConcatProperties

(* Concatenation as a name of its own, which the provers do not look into.     *)
Glued(x, y) == x \o y

(* Four sequences one behind the other, the last two of them together.         *)
FourSequences(S, c, d, e, f, r) ==
    /\ c \in Seq(S) /\ d \in Seq(S) /\ e \in Seq(S) /\ f \in Seq(S)
    /\ r = Glued(e, f)

(* It is associative, and stays within the sequences of a set.                *)
LEMMA GluedAssociates ==
    \A S : \A x, y, z \in Seq(S) :
        /\ Glued(x, y) \in Seq(S)
        /\ Glued(Glued(x, y), z) = Glued(x, Glued(y, z))
BY Associates, Concatenates DEF Glued

(* Four sequences are put together from the left or from the right.            *)
LEMMA RegroupFour ==
    \A S : \A c, d, e, f \in Seq(S) :
        /\ Glued(Glued(Glued(c, d), e), f) = Glued(Glued(c, d), Glued(e, f))
        /\ Glued(Glued(c, d), Glued(e, f)) = Glued(c, Glued(d, Glued(e, f)))
        /\ Glued(d, Glued(e, f)) \in Seq(S)
<1>. SUFFICES ASSUME NEW S, NEW c \in Seq(S), NEW d \in Seq(S), NEW e \in Seq(S), NEW f \in Seq(S)
              PROVE  /\ Glued(Glued(Glued(c, d), e), f) = Glued(Glued(c, d), Glued(e, f))
                     /\ Glued(Glued(c, d), Glued(e, f)) = Glued(c, Glued(d, Glued(e, f)))
                     /\ Glued(d, Glued(e, f)) \in Seq(S)
  BY Zenon
<1>1. /\ Glued(c, d) \in Seq(S) /\ Glued(e, f) \in Seq(S)
      /\ Glued(d, Glued(e, f)) \in Seq(S)
  BY GluedAssociates
<1>. QED  BY <1>1, GluedAssociates

(* The same for sequences of which the last two have a name.                   *)
LEMMA RegroupGlued ==
    \A S, c, d, e, f, r :
        FourSequences(S, c, d, e, f, r) =>
            /\ Glued(Glued(Glued(c, d), e), f) = Glued(Glued(c, d), r)
            /\ Glued(Glued(c, d), r) = Glued(c, Glued(d, r))
            /\ Glued(d, r) \in Seq(S)
BY RegroupFour DEF FourSequences

(* The same, written out.                                                      *)
LEMMA Regroup ==
    \A S, c, d, e, f, r :
        FourSequences(S, c, d, e, f, r) =>
            /\ ((c \o d) \o e) \o f = (c \o d) \o r
            /\ (c \o d) \o r = c \o (d \o r)
            /\ d \o r \in Seq(S)
BY RegroupGlued DEF Glued

(* The members of a concatenation.                                             *)
LEMMA MembersOfConcat ==
    \A S : \A x, y \in Seq(S) : ToSet(x \o y) = ToSet(x) \cup ToSet(y)
BY RangeConcatenation DEF ToSet, Range

(* The sequence of one element.                                                *)
LEMMA OneElement ==
    \A S : \A e \in S : <<e>> \in Seq(S) /\ Len(<<e>>) = 1 /\ <<e>>[1] = e /\ ToSet(<<e>>) = {e}
<1>. SUFFICES ASSUME NEW S, NEW e \in S
              PROVE  /\ <<e>> \in Seq(S) /\ Len(<<e>>) = 1 /\ <<e>>[1] = e
                     /\ ToSet(<<e>>) = {e}
  OBVIOUS
<1>1. <<e>> \in Seq(S) /\ Len(<<e>>) = 1 /\ <<e>>[1] = e /\ DOMAIN <<e>> = {1}
  OBVIOUS
<1>. QED  BY <1>1 DEF ToSet

(* The members with an appended element.                                       *)
LEMMA MembersOfAppend ==
    ASSUME NEW S, NEW s \in Seq(S), NEW e \in S
    PROVE  ToSet(Append(s, e)) = ToSet(s) \cup {e}
<1>1. <<e>> \in Seq(S) /\ ToSet(<<e>>) = {e}
  BY OneElement
<1>2. \A x, y \in Seq(S) : ToSet(x \o y) = ToSet(x) \cup ToSet(y)
  BY MembersOfConcat
<1>3. ToSet(s \o <<e>>) = ToSet(s) \cup {e}
  BY <1>1, <1>2
<1>. QED  BY <1>3, AppendIsConcat

(* What is in front of an appended element.                                    *)
LEMMA FrontOfAppend ==
    ASSUME NEW S, NEW s \in Seq(S), NEW e \in S
    PROVE  Front(Append(s, e)) = s
<1>. DEFINE t == Append(s, e)
            n == Len(s)
<1>1. n \in Nat /\ Len(t) = n + 1 /\ \A i \in 1 .. n : t[i] = s[i] /\ t[i] \in S
  BY AppendProperties, LenProperties
<1>. HIDE DEF t
<1>2. /\ SubSeq(t, 1, n) \in Seq(S)
      /\ Len(SubSeq(t, 1, n)) = IF 1 <= n THEN (n - 1) + 1 ELSE 0
      /\ \A i \in 1 .. (n - 1) + 1 : SubSeq(t, 1, n)[i] = t[(1 + i) - 1]
  BY <1>1, SubSeqProperties
<1>3. Len(SubSeq(t, 1, n)) = n
  BY <1>1, <1>2
<1>4. ASSUME NEW i \in 1 .. n
      PROVE  SubSeq(t, 1, n)[i] = s[i]
  <2>1. i \in 1 .. (n - 1) + 1 /\ (1 + i) - 1 = i
    BY <1>1
  <2>. QED  BY <1>1, <1>2, <2>1
<1>5. SubSeq(t, 1, n) = s
  BY <1>2, <1>3, <1>4, SeqEqual
<1>6. Len(t) - 1 = n
  BY <1>1
<1>. QED  BY <1>5, <1>6 DEF Front, t

-----------------------------------------------------------------------------
(* FlattenSeq.                                                                 *)

(* What the recursive function in the definition of FlattenSeq meets, for the  *)
(* first n elements.                                                           *)
Flattens(f, s, n) ==
    f = [i \in 1 .. n |-> IF i = 1 THEN s[i] ELSE f[i - 1] \o s[i]]

(* Such a function exists for every sequence.                                  *)
LEMMA FlattensExists ==
    ASSUME NEW s, NEW m \in Nat
    PROVE  \E f : Flattens(f, s, m)
<1>. DEFINE Ns == {n \in Nat : \E f : Flattens(f, s, n)}
<1>1. 0 \in Ns
  <2>1. Flattens([i \in 1 .. 0 |-> s[i]], s, 0)
    BY DEF Flattens
  <2>. QED  BY <2>1
<1>2. ASSUME NEW n \in Nat, n \in Ns
      PROVE  n + 1 \in Ns
  <2>1. PICK f : Flattens(f, s, n)
    BY <1>2
  <2>. DEFINE g == [i \in 1 .. n + 1 |->
                       IF i \in 1 .. n THEN f[i]
                       ELSE IF i = 1 THEN s[i] ELSE f[n] \o s[i]]
              h == [i \in 1 .. n + 1 |-> IF i = 1 THEN s[i] ELSE g[i - 1] \o s[i]]
  <2>2. ASSUME NEW i \in 1 .. n + 1
        PROVE  g[i] = IF i = 1 THEN s[i] ELSE g[i - 1] \o s[i]
    <3>1. CASE i \in 1 .. n
      <4>1. f[i] = IF i = 1 THEN s[i] ELSE f[i - 1] \o s[i]
        BY <2>1, <3>1 DEF Flattens
      <4>2. i # 1 => i - 1 \in 1 .. n /\ i - 1 \in 1 .. n + 1
        BY <3>1
      <4>. QED  BY <3>1, <4>1, <4>2
    <3>2. CASE i = n + 1
      <4>1. i # 1 => i - 1 = n /\ n \in 1 .. n /\ n \in 1 .. n + 1
        BY <3>2
      <4>2. i \notin 1 .. n
        BY <3>2
      <4>. QED  BY <3>2, <4>1, <4>2
    <3>. QED  BY <3>1, <3>2
  <2>3. \A i \in 1 .. n + 1 : g[i] = h[i]
    <3>. HIDE DEF g
    <3>. QED  BY <2>2
  <2>4. g = [i \in 1 .. n + 1 |-> g[i]] /\ h = [i \in 1 .. n + 1 |-> h[i]]
    OBVIOUS
  <2>5. g = h
    <3>. HIDE DEF g, h
    <3>. QED  BY <2>3, <2>4
  <2>6. \E k : Flattens(k, s, n + 1)
    <3>. HIDE DEF g
    <3>. QED  BY <2>5 DEF Flattens
  <2>. QED  BY <2>6
<1>3. Nat \subseteq Ns
  <2>. HIDE DEF Ns
  <2>. QED  BY <1>1, <1>2, SetInduction
<1>. QED  BY <1>3

(* It agrees with the one for a longer sequence that begins in the same way.   *)
LEMMA FlattensUnique ==
    ASSUME NEW s, NEW t, NEW n \in Nat, NEW f, NEW g,
           Flattens(f, s, n), Flattens(g, t, n + 1),
           \A i \in 1 .. n : s[i] = t[i]
    PROVE  \A i \in 1 .. n : f[i] = g[i]
<1>. DEFINE Same == {j \in Nat : j \in 1 .. n => f[j] = g[j]}
<1>1. 0 \in Same
  OBVIOUS
<1>2. ASSUME NEW j \in Nat, j \in Same
      PROVE  j + 1 \in Same
  <2>. SUFFICES ASSUME j + 1 \in 1 .. n
                PROVE  f[j + 1] = g[j + 1]
    OBVIOUS
  <2>1. j + 1 \in 1 .. n + 1
    OBVIOUS
  <2>2. f[j + 1] = IF j + 1 = 1 THEN s[j + 1] ELSE f[(j + 1) - 1] \o s[j + 1]
    BY DEF Flattens
  <2>3. g[j + 1] = IF j + 1 = 1 THEN t[j + 1] ELSE g[(j + 1) - 1] \o t[j + 1]
    BY <2>1 DEF Flattens
  <2>4. (j + 1) - 1 = j /\ (j + 1 # 1 => f[j] = g[j])
    BY <1>2
  <2>. QED  BY <2>2, <2>3, <2>4
<1>3. Nat \subseteq Same
  <2>. HIDE DEF Same
  <2>. QED  BY <1>1, <1>2, SetInduction
<1>. QED  BY <1>3

(* FlattenSeq is the value of such a function.                                 *)
LEMMA FlattenIs ==
    ASSUME NEW s, Len(s) \in Nat \ {0}
    PROVE  \E f : Flattens(f, s, Len(s)) /\ FlattenSeq(s) = f[Len(s)]
<1>. DEFINE f == CHOOSE f : Flattens(f, s, Len(s))
<1>1. Flattens(f, s, Len(s))
  <2>1. \E g : Flattens(g, s, Len(s))
    BY FlattensExists
  <2>. QED  BY <2>1, Zenon
<1>2. FlattenSeq(s) = f[Len(s)]
  BY DEF FlattenSeq, Flattens
<1>. QED  BY <1>1, <1>2

(* What FlattenSeq makes of no sequence.                                       *)
LEMMA FlattenEmpty == FlattenSeq(<<>>) = <<>>
BY DEF FlattenSeq

(* Of one it makes that one.                                                   *)
LEMMA FlattenOne ==
    ASSUME NEW s, Len(s) = 1
    PROVE  FlattenSeq(s) = s[1]
<1>1. Len(s) \in Nat \ {0}
  OBVIOUS
<1>2. PICK f : Flattens(f, s, 1) /\ FlattenSeq(s) = f[1]
  BY <1>1, FlattenIs
<1>. QED  BY <1>2 DEF Flattens

(* One more is put behind the others.                                          *)
LEMMA FlattenAppend ==
    ASSUME NEW S, NEW s \in Seq(Seq(S)), NEW e \in Seq(S)
    PROVE  FlattenSeq(Append(s, e)) = FlattenSeq(s) \o e
<1>. DEFINE t == Append(s, e)
            n == Len(s)
<1>1. /\ n \in Nat /\ Len(t) = n + 1 /\ Len(t) \in Nat \ {0}
      /\ \A i \in 1 .. n : t[i] = s[i]
      /\ t[n + 1] = e
  BY LenProperties, AppendProperties
<1>2. PICK g : Flattens(g, t, n + 1) /\ FlattenSeq(t) = g[n + 1]
  <2>. HIDE DEF t, n
  <2>. QED  BY <1>1, FlattenIs
<1>3. CASE n = 0
  <2>1. s = <<>>
    BY <1>3, EmptySeq
  <2>2. FlattenSeq(t) = e
    <3>. HIDE DEF t, n
    <3>. QED  BY <1>1, <1>2, <1>3 DEF Flattens
  <2>. QED  BY <2>1, <2>2, FlattenEmpty, ConcatEmptySeq
<1>4. CASE n # 0
  <2>1. PICK f : Flattens(f, s, n) /\ FlattenSeq(s) = f[n]
    <3>1. Len(s) \in Nat \ {0}
      BY <1>1, <1>4
    <3>. QED  BY <3>1, FlattenIs
  <2>. HIDE DEF t, n
  <2>2. f[n] = g[n]
    <3>1. /\ n \in Nat
          /\ Flattens(f, s, n) /\ Flattens(g, t, n + 1)
          /\ \A i \in 1 .. n : s[i] = t[i]
      BY <1>1, <1>2, <2>1 DEF n
    <3>2. \A i \in 1 .. n : f[i] = g[i]
      BY <3>1, FlattensUnique
    <3>. QED  BY <1>1, <1>4, <3>2
  <2>3. g[n + 1] = g[n] \o e
    <3>1. n + 1 \in 1 .. n + 1 /\ n + 1 # 1 /\ (n + 1) - 1 = n
      BY <1>1, <1>4
    <3>2. g[n + 1] = g[(n + 1) - 1] \o t[n + 1]
      BY <1>2, <3>1 DEF Flattens
    <3>. QED  BY <1>1, <3>1, <3>2
  <2>. QED  BY <1>2, <2>1, <2>2, <2>3 DEF t
<1>. QED  BY <1>3, <1>4

(* Flattened sequences are sequences of the same elements.                     *)
LEMMA FlattenType ==
    ASSUME NEW S, NEW s \in Seq(Seq(S))
    PROVE  FlattenSeq(s) \in Seq(S)
<1>. DEFINE T == {r \in Seq(Seq(S)) : FlattenSeq(r) \in Seq(S)}
<1>1. <<>> \in T
  BY FlattenEmpty, EmptySeq
<1>2. ASSUME NEW r \in Seq(Seq(S)), NEW e \in Seq(S), r \in T
      PROVE  Append(r, e) \in T
  BY <1>2, FlattenAppend, AppendProperties, ConcatProperties
<1>3. Seq(Seq(S)) \subseteq T
  <2>. HIDE DEF T
  <2>. QED  BY <1>1, <1>2, AppendInduction
<1>. QED  BY <1>3

(* The flattened concatenation.                                                *)
LEMMA FlattenConcat ==
    ASSUME NEW S, NEW s \in Seq(Seq(S)), NEW t \in Seq(Seq(S))
    PROVE  FlattenSeq(s \o t) = FlattenSeq(s) \o FlattenSeq(t)
<1>. DEFINE T == {r \in Seq(Seq(S)) :
                     FlattenSeq(s \o r) = FlattenSeq(s) \o FlattenSeq(r)}
<1>1. <<>> \in T
  BY FlattenEmpty, FlattenType, ConcatEmptySeq, EmptySeq
<1>2. ASSUME NEW r \in Seq(Seq(S)), NEW e \in Seq(S), r \in T
      PROVE  Append(r, e) \in T
  <2>1. /\ Append(r, e) \in Seq(Seq(S)) /\ s \o r \in Seq(Seq(S))
        /\ FlattenSeq(s) \in Seq(S) /\ FlattenSeq(r) \in Seq(S)
    BY AppendProperties, ConcatProperties, FlattenType
  <2>2. s \o Append(r, e) = Append(s \o r, e)
    OBVIOUS
  <2>3. /\ FlattenSeq(Append(s \o r, e)) = FlattenSeq(s \o r) \o e
        /\ FlattenSeq(Append(r, e)) = FlattenSeq(r) \o e
    BY <2>1, FlattenAppend
  <2>4. \A x, y \in Seq(S) : (x \o y) \o e = x \o (y \o e)
    BY ConcatAssociative, SMTT(30)
  <2>5. (FlattenSeq(s) \o FlattenSeq(r)) \o e = FlattenSeq(s) \o (FlattenSeq(r) \o e)
    BY <2>1, <2>4
  <2>6. FlattenSeq(s \o r) = FlattenSeq(s) \o FlattenSeq(r)
    BY <1>2
  <2>. QED  BY <2>1, <2>2, <2>3, <2>5, <2>6
<1>3. Seq(Seq(S)) \subseteq T
  <2>. HIDE DEF T
  <2>. QED  BY <1>1, <1>2, AppendInduction
<1>. QED  BY <1>3

(* Sequences of one element each.                                              *)
LEMMA FlattenSingles ==
    ASSUME NEW S, NEW s \in Seq(S)
    PROVE  FlattenSeq([i \in DOMAIN s |-> <<s[i]>>]) = s
<1>. DEFINE Single(r) == [i \in DOMAIN r |-> <<r[i]>>]
            T == {r \in Seq(S) : FlattenSeq(Single(r)) = r}
<1>1. <<>> \in T
  BY FlattenEmpty, EmptySeq
<1>2. ASSUME NEW r \in Seq(S), NEW e \in S, r \in T
      PROVE  Append(r, e) \in T
  <2>1. Single(r) \in Seq(Seq(S)) /\ <<e>> \in Seq(S) /\ Append(r, e) \in Seq(S)
    <3>1. Len(r) \in Nat /\ DOMAIN r = 1 .. Len(r) /\ \A i \in 1 .. Len(r) : r[i] \in S
      BY LenProperties
    <3>2. \A x \in S : <<x>> \in Seq(S)
      OBVIOUS
    <3>3. \A i \in 1 .. Len(r) : <<r[i]>> \in Seq(S)
      BY <3>1, <3>2
    <3>4. Single(r) \in [1 .. Len(r) -> Seq(S)]
      BY <3>1, <3>3
    <3>5. Single(r) \in Seq(Seq(S))
      <4>. HIDE DEF Single
      <4>. QED  BY <3>1, <3>4, SeqDef, SMTT(30)
    <3>. QED  BY <3>2, <3>5, AppendProperties
  <2>2. Single(Append(r, e)) = Append(Single(r), <<e>>)
    OBVIOUS
  <2>3. FlattenSeq(Append(Single(r), <<e>>)) = r \o <<e>>
    <3>. HIDE DEF Single
    <3>. QED  BY <1>2, <2>1, FlattenAppend
  <2>. QED  BY <2>1, <2>2, <2>3, AppendIsConcat
<1>3. Seq(S) \subseteq T
  <2>. HIDE DEF T
  <2>. QED  BY <1>1, <1>2, AppendInduction
<1>. QED  BY <1>3

(* Of two sequences whose members have the same lengths: each place of the one *)
(* flattened sequence holds an element that has its counterpart at the same    *)
(* place of the other, and no element is left out.                             *)
SameShape(s, t) ==
    Len(s) = Len(t) /\ \A i \in 1 .. Len(s) : Len(s[i]) = Len(t[i])

PlaceByPlace(s, t, fs, ft) ==
    /\ Len(fs) = Len(ft)
    /\ \A k \in 1 .. Len(fs) : \E i \in 1 .. Len(s) : \E j \in 1 .. Len(s[i]) :
           fs[k] = s[i][j] /\ ft[k] = t[i][j]
    /\ \A i \in 1 .. Len(s) : \A j \in 1 .. Len(s[i]) :
           \E k \in 1 .. Len(fs) : fs[k] = s[i][j]

(* Sequences of the same shape are flattened in step.                          *)
LEMMA FlattenTogether ==
    ASSUME NEW S, NEW s \in Seq(Seq(S)), NEW R, NEW t \in Seq(Seq(R)),
           SameShape(s, t)
    PROVE  PlaceByPlace(s, t, FlattenSeq(s), FlattenSeq(t))
<1>. DEFINE T == {p \in Seq(Seq(S)) : \A q \in Seq(Seq(R)) :
                     SameShape(p, q) => PlaceByPlace(p, q, FlattenSeq(p), FlattenSeq(q))}
<1>1. <<>> \in T
  <2>. SUFFICES ASSUME NEW q \in Seq(Seq(R)), SameShape(<<>>, q)
                PROVE  PlaceByPlace(<<>>, q, FlattenSeq(<<>>), FlattenSeq(q))
    BY EmptySeq
  <2>1. q = <<>>
    BY EmptySeq DEF SameShape
  <2>. QED  BY <2>1, FlattenEmpty DEF PlaceByPlace
<1>2. ASSUME NEW p \in Seq(Seq(S)), NEW d \in Seq(S), p \in T
      PROVE  Append(p, d) \in T
  <2>. SUFFICES ASSUME NEW q \in Seq(Seq(R)), SameShape(Append(p, d), q)
                PROVE  PlaceByPlace(Append(p, d), q,
                                    FlattenSeq(Append(p, d)), FlattenSeq(q))
    BY AppendProperties
  <2>1. PICK o \in Seq(Seq(R)), e \in Seq(R) : q = Append(o, e)
    <3>1. q # <<>>
      BY LenProperties, AppendProperties, EmptySeq DEF SameShape
    <3>. QED  BY <3>1, SequenceEmptyOrAppend
  <2>. DEFINE ap == Append(p, d)
              fp == FlattenSeq(p)
              fo == FlattenSeq(o)
  <2>2. /\ Len(p) \in Nat /\ Len(ap) = Len(p) + 1
        /\ \A i \in 1 .. Len(p) : ap[i] = p[i]
        /\ ap[Len(p) + 1] = d
    BY LenProperties, AppendProperties
  <2>3. /\ Len(o) \in Nat /\ Len(q) = Len(o) + 1
        /\ \A i \in 1 .. Len(o) : q[i] = o[i]
        /\ q[Len(o) + 1] = e
    BY <2>1, LenProperties, AppendProperties
  <2>4. Len(p) = Len(o) /\ Len(d) = Len(e) /\ SameShape(p, o)
    <3>. HIDE DEF ap
    <3>1. SameShape(ap, q)
      BY DEF ap
    <3>2. Len(p) = Len(o)
      BY <2>2, <2>3, <3>1 DEF SameShape
    <3>3. \A i \in 1 .. Len(p) + 1 : Len(ap[i]) = Len(q[i])
      BY <2>2, <3>1 DEF SameShape
    <3>4. Len(p) + 1 \in 1 .. Len(p) + 1
          /\ \A i \in 1 .. Len(p) : i \in 1 .. Len(p) + 1
      BY <2>2
    <3>5. Len(d) = Len(e)
      BY <2>2, <2>3, <3>2, <3>3, <3>4
    <3>6. \A i \in 1 .. Len(p) : Len(p[i]) = Len(o[i])
      BY <2>2, <2>3, <3>2, <3>3, <3>4
    <3>. QED  BY <3>2, <3>5, <3>6 DEF SameShape
  <2>5. PlaceByPlace(p, o, fp, fo)
    BY <1>2, <2>4
  <2>6. /\ fp \in Seq(S) /\ fo \in Seq(R)
        /\ FlattenSeq(ap) = fp \o d /\ FlattenSeq(q) = fo \o e
    BY <2>1, FlattenAppend, FlattenType
  <2>. HIDE DEF ap, fp, fo
  <2>7. /\ Len(fp) \in Nat /\ Len(d) \in Nat /\ Len(fp) = Len(fo)
        /\ Len(fp \o d) = Len(fp) + Len(d) /\ Len(fo \o e) = Len(fp) + Len(d)
        /\ \A k \in 1 .. Len(fp) : (fp \o d)[k] = fp[k] /\ (fo \o e)[k] = fo[k]
        /\ \A k \in 1 .. Len(d) : /\ (fp \o d)[Len(fp) + k] = d[k]
                                  /\ (fo \o e)[Len(fp) + k] = e[k]
    <3>1. Len(fp) \in Nat /\ Len(d) \in Nat /\ Len(fp) = Len(fo) /\ Len(d) = Len(e)
      BY <2>4, <2>5, <2>6, LenProperties DEF PlaceByPlace
    <3>2. /\ Len(fp \o d) = Len(fp) + Len(d)
          /\ \A k \in 1 .. Len(fp) + Len(d) :
                 (fp \o d)[k] = IF k <= Len(fp) THEN fp[k] ELSE d[k - Len(fp)]
      BY <2>6, ConcatProperties
    <3>3. /\ Len(fo \o e) = Len(fp) + Len(d)
          /\ \A k \in 1 .. Len(fp) + Len(d) :
                 (fo \o e)[k] = IF k <= Len(fp) THEN fo[k] ELSE e[k - Len(fp)]
      BY <2>6, <3>1, ConcatProperties
    <3>4. ASSUME NEW k \in 1 .. Len(d)
          PROVE  /\ Len(fp) + k \in 1 .. Len(fp) + Len(d)
                 /\ ~(Len(fp) + k <= Len(fp))
                 /\ (Len(fp) + k) - Len(fp) = k
      BY <3>1
    <3>5. \A k \in 1 .. Len(fp) : k \in 1 .. Len(fp) + Len(d) /\ k <= Len(fp)
      BY <3>1
    <3>. QED  BY <3>1, <3>2, <3>3, <3>4, <3>5
  <2>8. ASSUME NEW k \in 1 .. Len(fp \o d)
        PROVE  \E i \in 1 .. Len(ap) : \E j \in 1 .. Len(ap[i]) :
                   (fp \o d)[k] = ap[i][j] /\ (fo \o e)[k] = q[i][j]
    <3>1. CASE k \in 1 .. Len(fp)
      <4>1. PICK i \in 1 .. Len(p) : \E j \in 1 .. Len(p[i]) :
                fp[k] = p[i][j] /\ fo[k] = o[i][j]
        BY <2>5, <3>1 DEF PlaceByPlace
      <4>2. i \in 1 .. Len(ap) /\ ap[i] = p[i] /\ q[i] = o[i]
        BY <2>2, <2>3, <2>4
      <4>. QED  BY <2>7, <3>1, <4>1, <4>2
    <3>2. CASE k \notin 1 .. Len(fp)
      <4>1. k - Len(fp) \in 1 .. Len(d) /\ k = Len(fp) + (k - Len(fp))
        BY <2>7, <3>2
      <4>2. (fp \o d)[k] = d[k - Len(fp)] /\ (fo \o e)[k] = e[k - Len(fp)]
        BY <2>7, <4>1
      <4>3. Len(p) + 1 \in 1 .. Len(ap) /\ ap[Len(p) + 1] = d /\ q[Len(p) + 1] = e
        BY <2>2, <2>3, <2>4
      <4>. QED  BY <4>1, <4>2, <4>3
    <3>. QED  BY <3>1, <3>2
  <2>9. ASSUME NEW i \in 1 .. Len(ap), NEW j \in 1 .. Len(ap[i])
        PROVE  \E k \in 1 .. Len(fp \o d) : (fp \o d)[k] = ap[i][j]
    <3>1. CASE i \in 1 .. Len(p)
      <4>1. PICK k \in 1 .. Len(fp) : fp[k] = p[i][j]
        BY <2>2, <2>5, <3>1 DEF PlaceByPlace
      <4>2. k \in 1 .. Len(fp \o d)
        BY <2>7
      <4>. QED  BY <2>2, <2>7, <3>1, <4>1, <4>2
    <3>2. CASE i = Len(p) + 1
      <4>1. ap[i] = d /\ Len(fp) + j \in 1 .. Len(fp \o d)
        <5>1. ap[i] = d
          BY <2>2, <3>2
        <5>2. j \in 1 .. Len(d)
          BY <5>1
        <5>. QED  BY <2>7, <5>1, <5>2
      <4>. QED  BY <2>7, <4>1
    <3>3. i \in 1 .. Len(p) \/ i = Len(p) + 1
      <4>1. Len(ap) = Len(p) + 1 /\ Len(p) \in Nat
        BY <2>2
      <4>2. i \in 1 .. Len(p) + 1
        BY <4>1
      <4>. QED  BY <4>1, <4>2
    <3>. QED  BY <3>1, <3>2, <3>3
  <2>10. PlaceByPlace(ap, q, fp \o d, fo \o e)
    BY <2>7, <2>8, <2>9 DEF PlaceByPlace
  <2>. QED  BY <2>6, <2>10 DEF ap
<1>3. Seq(Seq(S)) \subseteq T
  <2>. HIDE DEF T
  <2>. QED  BY <1>1, <1>2, AppendInduction
<1>. QED  BY <1>3

-----------------------------------------------------------------------------
(* A function applied to each member of a sequence.                            *)

Mapped(g, s) == [i \in DOMAIN s |-> g[s[i]]]

(* A sequence of the same length, with the values of the function.             *)
IsMapped(g, s, m, R) ==
    /\ m \in Seq(R) /\ Len(m) = Len(s)
    /\ \A i \in 1 .. Len(s) : m[i] = g[s[i]]

(* This is what Mapped gives.                                                  *)
LEMMA MappedType ==
    \A S, R : \A g \in [S -> R], s \in Seq(S) : IsMapped(g, s, Mapped(g, s), R)
<1>. SUFFICES ASSUME NEW S, NEW R, NEW g \in [S -> R], NEW s \in Seq(S)
              PROVE  IsMapped(g, s, Mapped(g, s), R)
  OBVIOUS
<1>. DEFINE n == Len(s)
<1>1. n \in Nat /\ DOMAIN s = 1 .. n /\ \A i \in 1 .. n : s[i] \in S
  BY LenProperties
<1>. HIDE DEF n
<1>2. Mapped(g, s) \in [1 .. n -> R] /\ \A i \in 1 .. n : Mapped(g, s)[i] = g[s[i]]
  BY <1>1 DEF Mapped
<1>3. Mapped(g, s) \in Seq(R)
  BY <1>1, <1>2, SeqDef
<1>4. DOMAIN Mapped(g, s) = 1 .. n
  BY <1>2
<1>5. Len(Mapped(g, s)) = n
  BY <1>1, <1>3, <1>4, LenProperties
<1>. QED  BY <1>2, <1>3, <1>5 DEF n, IsMapped

(* Two sequences are mapped one behind the other.                              *)
MapsParts(g, s, t) == Mapped(g, s \o t) = Mapped(g, s) \o Mapped(g, t)

(* Of a longer sequence it gives the two parts.                                *)
LEMMA MappedConcat ==
    \A S, R : \A g \in [S -> R], s, t \in Seq(S) : MapsParts(g, s, t)
<1>. SUFFICES ASSUME NEW S, NEW R, NEW g \in [S -> R], NEW s \in Seq(S), NEW t \in Seq(S)
              PROVE  Mapped(g, s \o t) = Mapped(g, s) \o Mapped(g, t)
  BY DEF MapsParts
<1>. DEFINE x == Mapped(g, s)
            y == Mapped(g, t)
            z == Mapped(g, s \o t)
<1>1. /\ s \o t \in Seq(S) /\ Len(s \o t) = Len(s) + Len(t)
      /\ \A i \in 1 .. Len(s) + Len(t) :
             (s \o t)[i] = IF i <= Len(s) THEN s[i] ELSE t[i - Len(s)]
  BY ConcatProperties
<1>2. Len(s) \in Nat /\ Len(t) \in Nat
  BY LenProperties
<1>9. IsMapped(g, s, x, R) /\ IsMapped(g, t, y, R) /\ IsMapped(g, s \o t, z, R)
  BY <1>1, MappedType
<1>. HIDE DEF x, y, z
<1>3. /\ x \in Seq(R) /\ Len(x) = Len(s) /\ \A i \in 1 .. Len(s) : x[i] = g[s[i]]
  BY <1>9 DEF IsMapped
<1>4. /\ y \in Seq(R) /\ Len(y) = Len(t) /\ \A i \in 1 .. Len(t) : y[i] = g[t[i]]
  BY <1>9 DEF IsMapped
<1>5. /\ z \in Seq(R) /\ Len(z) = Len(s) + Len(t)
      /\ \A i \in 1 .. Len(s) + Len(t) : z[i] = g[(s \o t)[i]]
  BY <1>1, <1>9 DEF IsMapped
<1>6. /\ x \o y \in Seq(R) /\ Len(x \o y) = Len(x) + Len(y)
      /\ \A i \in 1 .. Len(x) + Len(y) :
             (x \o y)[i] = IF i <= Len(x) THEN x[i] ELSE y[i - Len(x)]
  BY <1>3, <1>4, ConcatProperties
<1>7. ASSUME NEW i \in 1 .. Len(z)
      PROVE  z[i] = (x \o y)[i]
  <2>1. z[i] = g[(s \o t)[i]]
    BY <1>5
  <2>2. CASE i <= Len(s)
    <3>1. i \in 1 .. Len(s) /\ i \in 1 .. Len(s) + Len(t)
      BY <1>2, <1>5, <2>2
    <3>2. (s \o t)[i] = s[i] /\ (x \o y)[i] = x[i]
      BY <1>1, <1>3, <1>4, <1>6, <2>2, <3>1
    <3>. QED  BY <1>3, <2>1, <3>1, <3>2
  <2>3. CASE ~(i <= Len(s))
    <3>1. i - Len(s) \in 1 .. Len(t) /\ i \in 1 .. Len(s) + Len(t)
      BY <1>2, <1>5, <2>3
    <3>2. (s \o t)[i] = t[i - Len(s)] /\ (x \o y)[i] = y[i - Len(s)]
      BY <1>1, <1>3, <1>4, <1>6, <2>3, <3>1
    <3>. QED  BY <1>4, <2>1, <3>1, <3>2
  <2>. QED  BY <2>2, <2>3
<1>8. z = x \o y
  BY <1>3, <1>4, <1>5, <1>6, <1>7, SeqEqual
<1>. QED  BY <1>8 DEF x, y, z

(* The members of a flattened sequence are those of its members.               *)
LEMMA FlattenMembers ==
    ASSUME NEW S, NEW s \in Seq(Seq(S))
    PROVE  /\ \A i \in 1 .. Len(s) : ToSet(s[i]) \subseteq ToSet(FlattenSeq(s))
           /\ \A e \in ToSet(FlattenSeq(s)) : \E i \in 1 .. Len(s) : e \in ToSet(s[i])
<1>. DEFINE f == FlattenSeq(s)
<1>1. f \in Seq(S)
  BY FlattenType
<1>2. PlaceByPlace(s, s, f, f)
  <2>1. SameShape(s, s)
    BY DEF SameShape
  <2>. QED  BY <2>1, FlattenTogether
<1>. HIDE DEF f
<1>3. DOMAIN f = 1 .. Len(f)
  BY <1>1, LenProperties
<1>4. \A i \in 1 .. Len(s) : DOMAIN s[i] = 1 .. Len(s[i])
  <2>1. \A i \in 1 .. Len(s) : s[i] \in Seq(S)
    BY ElementOfSeq
  <2>. QED  BY <2>1, LenProperties
<1>5. ASSUME NEW i \in 1 .. Len(s), NEW e \in ToSet(s[i])
      PROVE  e \in ToSet(f)
  <2>1. PICK j \in 1 .. Len(s[i]) : e = s[i][j]
    BY <1>4 DEF ToSet
  <2>2. PICK k \in 1 .. Len(f) : f[k] = s[i][j]
    BY <1>2 DEF PlaceByPlace
  <2>. QED  BY <1>3, <2>1, <2>2 DEF ToSet
<1>6. ASSUME NEW e \in ToSet(f)
      PROVE  \E i \in 1 .. Len(s) : e \in ToSet(s[i])
  <2>1. PICK k \in 1 .. Len(f) : e = f[k]
    BY <1>3 DEF ToSet
  <2>2. PICK i \in 1 .. Len(s) : \E j \in 1 .. Len(s[i]) : f[k] = s[i][j]
    BY <1>2 DEF PlaceByPlace
  <2>3. PICK j \in 1 .. Len(s[i]) : f[k] = s[i][j]
    BY <2>2
  <2>. QED  BY <1>4, <2>1, <2>3 DEF ToSet
<1>. QED  BY <1>5, <1>6 DEF f

(* Of empty sequences nothing is made.                                         *)
LEMMA FlattenNothing ==
    ASSUME NEW S, NEW s \in Seq(Seq(S)), \A i \in 1 .. Len(s) : s[i] = <<>>
    PROVE  FlattenSeq(s) = <<>>
<1>. DEFINE f == FlattenSeq(s)
<1>1. f \in Seq(S)
  BY FlattenType
<1>2. \A e \in ToSet(f) : \E i \in 1 .. Len(s) : e \in ToSet(s[i])
  BY FlattenMembers
<1>. HIDE DEF f
<1>3. SUFFICES ASSUME f # <<>>
               PROVE  FALSE
  BY DEF f
<1>4. Len(f) \in Nat \ {0} /\ DOMAIN f = 1 .. Len(f)
  BY <1>1, <1>3, EmptySeq, LenProperties
<1>5. f[1] \in ToSet(f)
  BY <1>4 DEF ToSet
<1>6. PICK i \in 1 .. Len(s) : f[1] \in ToSet(<<>>)
  BY <1>2, <1>5
<1>. QED  BY <1>6 DEF ToSet

-----------------------------------------------------------------------------
(* What FoldLeft computes, for one operator: nothing more than the base of an  *)
(* empty sequence, and one step of the operator for each further element.  To  *)
(* be used as F == INSTANCE SequenceInduction WITH Op <- ...                   *)
CONSTANT Op(_, _)

(* FoldLeft(Op, base, s) with the definitions of the library expanded: a       *)
(* function on sets of places, which takes off the greatest one.               *)
Greatest(t) == CHOOSE x \in t : \A y \in t : x >= y

FoldsOn(iter, base, s, n) ==
    iter = [t \in SUBSET (1 .. n) |->
               IF t = {} THEN base
               ELSE Op(iter[t \ {Greatest(t)}], s[Greatest(t)])]

Fold(base, s) ==
    (CHOOSE iter : iter = [t \in SUBSET DOMAIN s |->
                              IF t = {} THEN base
                              ELSE Op(iter[t \ {Greatest(t)}], s[Greatest(t)])])
        [DOMAIN s]

(* The greatest of the first n numbers, and of a set of them.                  *)
LEMMA GreatestOfFirst ==
    ASSUME NEW n \in Nat, NEW t \in SUBSET (1 .. n + 1), n + 1 \in t
    PROVE  Greatest(t) = n + 1 /\ t \ {Greatest(t)} \in SUBSET (1 .. n)
<1>1. n + 1 \in t /\ \A y \in t : n + 1 >= y
  OBVIOUS
<1>2. ASSUME NEW x \in t, \A y \in t : x >= y
      PROVE  x = n + 1
  BY <1>2
<1>3. Greatest(t) = n + 1
  BY <1>1, <1>2 DEF Greatest
<1>. QED  BY <1>3

(* There is such a function for every number of places.                        *)
LEMMA FoldExists ==
    ASSUME NEW base, NEW s, NEW m \in Nat
    PROVE  \E iter : FoldsOn(iter, base, s, m)
<1>. DEFINE Ns == {n \in Nat : \E iter : FoldsOn(iter, base, s, n)}
<1>1. 0 \in Ns
  <2>1. FoldsOn([t \in SUBSET (1 .. 0) |-> base], base, s, 0)
    BY DEF FoldsOn
  <2>. QED  BY <2>1
<1>2. ASSUME NEW n \in Nat, n \in Ns
      PROVE  n + 1 \in Ns
  <2>1. PICK f : FoldsOn(f, base, s, n)
    BY <1>2
  <2>. DEFINE g == [t \in SUBSET (1 .. n + 1) |->
                       IF n + 1 \notin t THEN f[t] ELSE Op(f[t \ {n + 1}], s[n + 1])]
              h == [t \in SUBSET (1 .. n + 1) |->
                       IF t = {} THEN base
                       ELSE Op(g[t \ {Greatest(t)}], s[Greatest(t)])]
  <2>2. ASSUME NEW t \in SUBSET (1 .. n + 1)
        PROVE  g[t] = IF t = {} THEN base
                      ELSE Op(g[t \ {Greatest(t)}], s[Greatest(t)])
    <3>1. CASE n + 1 \notin t
      <4>1. t \in SUBSET (1 .. n) /\ t \ {Greatest(t)} \in SUBSET (1 .. n)
            /\ n + 1 \notin t \ {Greatest(t)}
        <5>1. \A i \in t : i \in 1 .. n
          <6>1. \A i \in 1 .. n + 1 : i # n + 1 => i \in 1 .. n
            OBVIOUS
          <6>. QED  BY <3>1, <6>1
        <5>. QED  BY <3>1, <5>1
      <4>2. g[t] = f[t] /\ g[t \ {Greatest(t)}] = f[t \ {Greatest(t)}]
        BY <3>1, <4>1
      <4>. QED  BY <2>1, <4>1, <4>2 DEF FoldsOn
    <3>2. CASE n + 1 \in t
      <4>1. Greatest(t) = n + 1 /\ t \ {n + 1} \in SUBSET (1 .. n)
        BY <3>2, GreatestOfFirst
      <4>2. g[t] = Op(f[t \ {n + 1}], s[n + 1]) /\ g[t \ {n + 1}] = f[t \ {n + 1}]
        BY <3>2, <4>1
      <4>. QED  BY <3>2, <4>1, <4>2
    <3>. QED  BY <3>1, <3>2
  <2>3. \A t \in SUBSET (1 .. n + 1) : g[t] = h[t]
    <3>. HIDE DEF g
    <3>. QED  BY <2>2
  <2>4. /\ g = [t \in SUBSET (1 .. n + 1) |-> g[t]]
        /\ h = [t \in SUBSET (1 .. n + 1) |-> h[t]]
    OBVIOUS
  <2>5. g = h
    <3>. HIDE DEF g, h
    <3>. QED  BY <2>3, <2>4
  <2>6. \E k : FoldsOn(k, base, s, n + 1)
    <3>. HIDE DEF g
    <3>. QED  BY <2>5 DEF FoldsOn
  <2>. QED  BY <2>6
<1>3. Nat \subseteq Ns
  <2>. HIDE DEF Ns
  <2>. QED  BY <1>1, <1>2, SetInduction
<1>. QED  BY <1>3

(* It agrees with the one for a longer sequence that begins in the same way.   *)
LEMMA FoldUnique ==
    ASSUME NEW base, NEW s, NEW t, NEW n \in Nat, NEW f, NEW g,
           FoldsOn(f, base, s, n), FoldsOn(g, base, t, n + 1),
           \A i \in 1 .. n : s[i] = t[i]
    PROVE  f[1 .. n] = g[1 .. n]
<1>. DEFINE Same == {j \in Nat : j <= n => f[1 .. j] = g[1 .. j]}
<1>1. 0 \in Same
  BY DEF FoldsOn
<1>2. ASSUME NEW j \in Nat, j \in Same
      PROVE  j + 1 \in Same
  <2>. SUFFICES ASSUME j + 1 <= n
                PROVE  f[1 .. j + 1] = g[1 .. j + 1]
    OBVIOUS
  <2>. DEFINE p == 1 .. j + 1
  <2>1. /\ p # {} /\ p \in SUBSET (1 .. n) /\ p \in SUBSET (1 .. n + 1)
        /\ p \ {j + 1} = 1 .. j /\ Greatest(p) = j + 1
    <3>1. p \in SUBSET (1 .. j + 1) /\ j + 1 \in p
      OBVIOUS
    <3>2. Greatest(p) = j + 1
      <4>. HIDE DEF p
      <4>. QED  BY <3>1, GreatestOfFirst
    <3>3. p # {} /\ p \in SUBSET (1 .. n) /\ p \in SUBSET (1 .. n + 1)
      OBVIOUS
    <3>4. p \ {j + 1} = 1 .. j
      <4>1. \A i : i \in p \ {j + 1} <=> i \in 1 .. j
        OBVIOUS
      <4>. HIDE DEF p
      <4>. QED  BY <4>1
    <3>. QED  BY <3>2, <3>3, <3>4
  <2>. HIDE DEF p
  <2>2. f[p] = Op(f[1 .. j], s[j + 1])
    BY <2>1 DEF FoldsOn
  <2>3. g[p] = Op(g[1 .. j], t[j + 1])
    BY <2>1 DEF FoldsOn
  <2>4. f[1 .. j] = g[1 .. j] /\ s[j + 1] = t[j + 1]
    BY <1>2
  <2>. QED  BY <2>2, <2>3, <2>4 DEF p
<1>3. Nat \subseteq Same
  <2>. HIDE DEF Same
  <2>. QED  BY <1>1, <1>2, SetInduction
<1>. QED  BY <1>3

(* Fold is the value of such a function.                                       *)
LEMMA FoldIs ==
    ASSUME NEW base, NEW s, NEW n \in Nat, DOMAIN s = 1 .. n
    PROVE  \E f : FoldsOn(f, base, s, n) /\ Fold(base, s) = f[1 .. n]
<1>. DEFINE f == CHOOSE f : FoldsOn(f, base, s, n)
<1>1. FoldsOn(f, base, s, n)
  <2>1. \E g : FoldsOn(g, base, s, n)
    BY FoldExists
  <2>. QED  BY <2>1, Zenon
<1>2. Fold(base, s) = f[1 .. n]
  BY DEF Fold, FoldsOn
<1>. QED  BY <1>1, <1>2

(* The fold of no element.                                                     *)
LEMMA FoldEmpty ==
    ASSUME NEW base
    PROVE  Fold(base, <<>>) = base
<1>1. DOMAIN <<>> = 1 .. 0
  OBVIOUS
<1>2. PICK f : FoldsOn(f, base, <<>>, 0) /\ Fold(base, <<>>) = f[1 .. 0]
  BY <1>1, FoldIs
<1>. QED  BY <1>2 DEF FoldsOn

(* The fold of one more element.                                               *)
LEMMA FoldAppend ==
    ASSUME NEW base, NEW S, NEW s \in Seq(S), NEW e \in S
    PROVE  Fold(base, Append(s, e)) = Op(Fold(base, s), e)
<1>. DEFINE t == Append(s, e)
            n == Len(s)
<1>1. /\ n \in Nat /\ DOMAIN s = 1 .. n /\ DOMAIN t = 1 .. n + 1
      /\ \A i \in 1 .. n : s[i] = t[i]
      /\ t[n + 1] = e
  BY LenProperties, AppendProperties
<1>. HIDE DEF t, n
<1>2. PICK f : FoldsOn(f, base, s, n) /\ Fold(base, s) = f[1 .. n]
  BY <1>1, FoldIs
<1>3. PICK g : FoldsOn(g, base, t, n + 1) /\ Fold(base, t) = g[1 .. n + 1]
  <2>1. n + 1 \in Nat /\ DOMAIN t = 1 .. n + 1
    BY <1>1
  <2>. QED  BY <2>1, FoldIs
<1>4. f[1 .. n] = g[1 .. n]
  BY <1>1, <1>2, <1>3, FoldUnique
<1>5. g[1 .. n + 1] = Op(g[1 .. n], e)
  <2>1. /\ 1 .. n + 1 # {} /\ (1 .. n + 1) \ {n + 1} = 1 .. n
        /\ 1 .. n + 1 \in SUBSET (1 .. n + 1) /\ n + 1 \in 1 .. n + 1
    BY <1>1
  <2>2. Greatest(1 .. n + 1) = n + 1
    BY <1>1, <2>1, GreatestOfFirst
  <2>. QED  BY <1>1, <1>3, <2>1, <2>2 DEF FoldsOn
<1>. QED  BY <1>2, <1>3, <1>4, <1>5 DEF t
=============================================================================

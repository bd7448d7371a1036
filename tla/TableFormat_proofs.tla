-------------------------- MODULE TableFormat_proofs --------------------------
(* Proofs about TableFormat: a table is created as its setup asks or not at    *)
(* all, and its key and the ends of its references come back from the catalog, *)
(* for any designs of any tables.                                              *)
EXTENDS TableFormat, SequenceInduction

List == INSTANCE SequenceInduction WITH Op <- Listed

-----------------------------------------------------------------------------
(* The data of a text.                                                         *)

DataSet == FieldSet \cup RefSet \cup Seq(STRING)
Kinds == {"column", "unique", "reference", "key"}
ClauseSet == [kind : Kinds \cup {"comma", "bad"}, data : DataSet]

Found(k) == [c \in ClauseSet |-> IF c.kind = k THEN <<c.data>> ELSE <<>>]

(* It is what is found in each clause, put together.                           *)
LEMMA DataIs ==
    \A k, text : text \in Seq(ClauseSet) => Data(text, k) = FlattenSeq(Mapped(Found(k), text))
<1>. SUFFICES ASSUME NEW k, NEW text \in Seq(ClauseSet)
              PROVE  Data(text, k) = FlattenSeq(Mapped(Found(k), text))
  OBVIOUS
<1>1. \A i \in DOMAIN text : text[i] \in ClauseSet
  BY LenProperties, ElementOfSeq
<1>2. [i \in DOMAIN text |-> IF text[i].kind = k THEN <<text[i].data>> ELSE <<>>]
          = Mapped(Found(k), text)
  BY <1>1 DEF Found, Mapped
<1>. QED  BY <1>2 DEF Data

(* What is found is a sequence of data.                                        *)
LEMMA FoundType == \A k : Found(k) \in [ClauseSet -> Seq(DataSet)]
<1>. SUFFICES ASSUME NEW k, NEW c \in ClauseSet
              PROVE  (IF c.kind = k THEN <<c.data>> ELSE <<>>) \in Seq(DataSet)
  BY DEF Found
<1>1. c.data \in DataSet
  BY DEF ClauseSet
<1>. HIDE DEF DataSet
<1>2. <<c.data>> \in Seq(DataSet) /\ <<>> \in Seq(DataSet)
  BY <1>1, OneElement, EmptySeq
<1>. QED  BY <1>2

(* So are the data of a text.                                                  *)
LEMMA DataTyped ==
    \A k, text : text \in Seq(ClauseSet) => Data(text, k) \in Seq(DataSet)
<1>. SUFFICES ASSUME NEW k, NEW text \in Seq(ClauseSet)
              PROVE  Data(text, k) \in Seq(DataSet)
  OBVIOUS
<1>. DEFINE D == DataSet
            g == Found(k)
            m == Mapped(g, text)
<1>1. IsMapped(g, text, m, Seq(D))
  BY FoundType, MappedType
<1>. HIDE DEF m, g, D
<1>2. FlattenSeq(m) \in Seq(D)
  BY <1>1, FlattenType DEF IsMapped
<1>. QED  BY <1>2, DataIs DEF m, g, D

(* The data of a longer text are those of its parts.                           *)
LEMMA DataConcat ==
    \A k, x, y : x \in Seq(ClauseSet) /\ y \in Seq(ClauseSet)
                     => Data(x \o y, k) = Data(x, k) \o Data(y, k)
<1>. SUFFICES ASSUME NEW k, NEW x \in Seq(ClauseSet), NEW y \in Seq(ClauseSet)
              PROVE  Data(x \o y, k) = Data(x, k) \o Data(y, k)
  OBVIOUS
<1>. DEFINE C == ClauseSet
            D == DataSet
            g == Found(k)
            mx == Mapped(g, x)
            my == Mapped(g, y)
<1>1. g \in [C -> Seq(D)]
  BY FoundType
<1>2. x \in Seq(C) /\ y \in Seq(C) /\ x \o y \in Seq(C)
  BY Concatenates
<1>3. /\ Data(x, k) = FlattenSeq(mx) /\ Data(y, k) = FlattenSeq(my)
      /\ Data(x \o y, k) = FlattenSeq(Mapped(g, x \o y))
  BY <1>2, DataIs
<1>4. IsMapped(g, x, mx, Seq(D)) /\ IsMapped(g, y, my, Seq(D))
  <2>. HIDE DEF C, D, g
  <2>. QED  BY <1>1, <1>2, MappedType
<1>5. Mapped(g, x \o y) = mx \o my
  <2>. DEFINE R == Seq(D)
  <2>1. g \in [C -> R]
    BY <1>1
  <2>. HIDE DEF C, D, R, g
  <2>2. MapsParts(g, x, y)
    BY <1>2, <2>1, MappedConcat
  <2>. QED  BY <2>2 DEF MapsParts
<1>. HIDE DEF C, D, g, mx, my
<1>6. mx \in Seq(Seq(D)) /\ my \in Seq(Seq(D))
  BY <1>4 DEF IsMapped
<1>7. FlattenSeq(mx \o my) = FlattenSeq(mx) \o FlattenSeq(my)
  BY <1>6, FlattenConcat
<1>. QED  BY <1>3, <1>5, <1>7

(* The data of one clause.                                                     *)
LEMMA DataOfOne ==
    \A k : \A c \in ClauseSet :
        /\ Data(<<c>>, k) = IF c.kind = k THEN <<c.data>> ELSE <<>>
        /\ <<c>> \in Seq(ClauseSet) /\ ToSet(<<c>>) = {c}
<1>. SUFFICES ASSUME NEW k, NEW c \in ClauseSet
              PROVE  /\ Data(<<c>>, k) = IF c.kind = k THEN <<c.data>> ELSE <<>>
                     /\ <<c>> \in Seq(ClauseSet) /\ ToSet(<<c>>) = {c}
  OBVIOUS
<1>1. <<c>> \in Seq(ClauseSet) /\ ToSet(<<c>>) = {c}
  BY OneElement
<1>. DEFINE t == <<c>>
            m == [i \in DOMAIN t |-> IF t[i].kind = k THEN <<t[i].data>> ELSE <<>>]
<1>2. Len(m) = 1 /\ m[1] = IF c.kind = k THEN <<c.data>> ELSE <<>>
  OBVIOUS
<1>3. Data(t, k) = FlattenSeq(m)
  BY DEF Data
<1>. HIDE DEF m
<1>4. FlattenSeq(m) = m[1]
  BY <1>2, FlattenOne
<1>. QED  BY <1>1, <1>2, <1>3, <1>4

-----------------------------------------------------------------------------
(* The list of clauses.                                                        *)

ItemSet == [text : Seq(ClauseSet), error : BOOLEAN]

DataIn(k) == [item \in ItemSet |-> Data(item.text, k)]
Pieces(p, k) == Mapped(DataIn(k), p)

(* What is written behind each item.                                           *)
LEMMA CommaIs ==
    /\ Comma \in ClauseSet /\ <<Comma>> \in Seq(ClauseSet) /\ ToSet(<<Comma>>) = {Comma}
    /\ \A k \in Kinds : Data(<<Comma>>, k) = <<>>
<1>1. <<>> \in DataSet
  BY EmptySeq DEF DataSet
<1>. HIDE DEF DataSet
<1>2. Comma \in ClauseSet /\ Comma.kind = "comma"
  <2>. DEFINE nothing == <<>>
  <2>1. Comma = [kind |-> "comma", data |-> nothing]
    BY DEF Comma, Clause
  <2>2. nothing \in DataSet
    BY <1>1
  <2>. HIDE DEF nothing
  <2>3. Comma \in ClauseSet
    BY <2>1, <2>2 DEF ClauseSet
  <2>4. Comma.kind = "comma"
    BY <2>1
  <2>. QED  BY <2>3, <2>4
<1>3. \A k \in Kinds : Comma.kind # k
  BY <1>2 DEF Kinds
<1>. HIDE DEF Comma
<1>. QED  BY <1>2, <1>3, DataOfOne

(* The data of an item are a sequence.                                         *)
LEMMA PiecesType ==
    \A k : /\ DataIn(k) \in [ItemSet -> Seq(DataSet)]
           /\ \A p \in Seq(ItemSet) : IsMapped(DataIn(k), p, Pieces(p, k), Seq(DataSet))
<1>. SUFFICES ASSUME NEW k
              PROVE  /\ DataIn(k) \in [ItemSet -> Seq(DataSet)]
                     /\ \A p \in Seq(ItemSet) :
                            IsMapped(DataIn(k), p, Pieces(p, k), Seq(DataSet))
  OBVIOUS
<1>1. \A item \in ItemSet : Data(item.text, k) \in Seq(DataSet)
  BY DataTyped DEF ItemSet
<1>2. DataIn(k) \in [ItemSet -> Seq(DataSet)]
  BY <1>1 DEF DataIn
<1>3. \A p \in Seq(ItemSet) : IsMapped(DataIn(k), p, Pieces(p, k), Seq(DataSet))
  <2>. DEFINE R == Seq(DataSet)
              g == DataIn(k)
  <2>1. g \in [ItemSet -> R]
    BY <1>2
  <2>. HIDE DEF R, g
  <2>2. \A p \in Seq(ItemSet) : IsMapped(g, p, Mapped(g, p), R)
    BY <2>1, MappedType
  <2>. QED  BY <2>2 DEF R, g, Pieces
<1>. QED  BY <1>2, <1>3

(* The data of one more item are put behind the others.                        *)
LEMMA PiecesAppend ==
    \A k : \A p \in Seq(ItemSet), e \in ItemSet :
        FlattenSeq(Pieces(Append(p, e), k)) = FlattenSeq(Pieces(p, k)) \o Data(e.text, k)
<1>. SUFFICES ASSUME NEW k, NEW p \in Seq(ItemSet), NEW e \in ItemSet
              PROVE  FlattenSeq(Pieces(Append(p, e), k))
                         = FlattenSeq(Pieces(p, k)) \o Data(e.text, k)
  OBVIOUS
<1>. DEFINE q == Append(p, e)
            x == Pieces(p, k)
            y == Pieces(q, k)
            d == Data(e.text, k)
            D == DataSet
            n == Len(p)
<1>1. /\ n \in Nat /\ q \in Seq(ItemSet) /\ Len(q) = n + 1
      /\ \A i \in 1 .. n : q[i] = p[i] /\ p[i] \in ItemSet
      /\ q[n + 1] = e
  BY LenProperties, AppendProperties
<1>2. IsMapped(DataIn(k), p, x, Seq(D)) /\ IsMapped(DataIn(k), q, y, Seq(D))
  BY <1>1, PiecesType
<1>3. d \in Seq(D) /\ \A item \in ItemSet : DataIn(k)[item] = Data(item.text, k)
  BY DataTyped DEF DataIn, ItemSet
<1>. HIDE DEF q, x, y, d, D, n
<1>4. /\ x \in Seq(Seq(D)) /\ Len(x) = n /\ y \in Seq(Seq(D)) /\ Len(y) = n + 1
      /\ \A i \in 1 .. n : x[i] = DataIn(k)[p[i]]
      /\ \A i \in 1 .. n + 1 : y[i] = DataIn(k)[q[i]]
  BY <1>1, <1>2 DEF IsMapped, n
<1>5. y[n + 1] = d /\ \A i \in 1 .. n : y[i] = x[i]
  <2>1. n + 1 \in 1 .. n + 1 /\ \A i \in 1 .. n : i \in 1 .. n + 1
    BY <1>1
  <2>2. y[n + 1] = DataIn(k)[e]
    BY <1>1, <1>4, <2>1
  <2>3. \A i \in 1 .. n : y[i] = DataIn(k)[p[i]]
    BY <1>1, <1>4, <2>1
  <2>. QED  BY <1>3, <1>4, <2>2, <2>3 DEF d
<1>6. y = Append(x, d)
  <2>. DEFINE R == Seq(D)
              z == Append(x, d)
  <2>1. x \in Seq(R) /\ y \in Seq(R) /\ d \in R
    BY <1>3, <1>4
  <2>. HIDE DEF R
  <2>2. /\ z \in Seq(R) /\ Len(z) = n + 1
        /\ z[n + 1] = d /\ \A i \in 1 .. n : z[i] = x[i]
    BY <1>4, <2>1, AppendProperties
  <2>. HIDE DEF z
  <2>3. \A i \in 1 .. Len(y) : y[i] = z[i]
    BY <1>1, <1>4, <1>5, <2>2
  <2>4. y = z
    BY <1>4, <2>1, <2>2, <2>3, SeqEqual
  <2>. QED  BY <2>4 DEF z
<1>7. FlattenSeq(Append(x, d)) = FlattenSeq(x) \o d
  BY <1>3, <1>4, FlattenAppend
<1>. QED  BY <1>6, <1>7 DEF q, x, y, d

(* What the list is after some items: it ends with a comma, and if none of     *)
(* them was in error it has the data of all of them.                           *)
Ended(text) == text # <<>> /\ text[Len(text)] = Comma
Whole(text, p) ==
    /\ \A i \in 1 .. Len(p) : p[i].error = FALSE /\ ToSet(p[i].text) \subseteq ToSet(text)
    /\ \A k \in Kinds : Data(text, k) = FlattenSeq(Pieces(p, k))
Reached(s, p) ==
    /\ s \in ItemSet
    /\ p = <<>> => s.error = FALSE
    /\ p # <<>> => Ended(s.text)
    /\ s.error = FALSE => Whole(s.text, p)

(* One item more.                                                              *)
LEMMA ListStep ==
    ASSUME NEW p \in Seq(ItemSet), NEW s, Reached(s, p), NEW e \in ItemSet
    PROVE  Reached(Listed(s, e), Append(p, e))
<1>. DEFINE q == Append(p, e)
            n == Len(p)
<1>1. s \in ItemSet /\ (p = <<>> => s.error = FALSE) /\ (p # <<>> => Ended(s.text))
      /\ (s.error = FALSE => Whole(s.text, p))
  BY DEF Reached
<1>2. /\ n \in Nat /\ q \in Seq(ItemSet) /\ Len(q) = n + 1 /\ q # <<>>
      /\ \A i \in 1 .. n : q[i] = p[i]
      /\ q[n + 1] = e
  BY LenProperties, AppendProperties
<1>3. /\ s.text \in Seq(ClauseSet) /\ s.error \in BOOLEAN
      /\ e.text \in Seq(ClauseSet) /\ e.error \in BOOLEAN
  BY <1>1 DEF ItemSet
<1>4. CASE s.error = TRUE
  <2>1. Listed(s, e) = s
    BY <1>4 DEF Listed
  <2>. HIDE DEF q
  <2>2. Reached(s, q)
    BY <1>1, <1>2, <1>4 DEF Reached
  <2>. QED  BY <2>1, <2>2 DEF q
<1>5. CASE s.error = FALSE
  <2>. DEFINE u == s.text \o e.text
              v == u \o <<Comma>>
              r == [text |-> v, error |-> e.error]
  <2>1. Listed(s, e) = r
    BY <1>5 DEF Listed
  <2>2. u \in Seq(ClauseSet) /\ v \in Seq(ClauseSet)
    BY <1>3, CommaIs, Concatenates
  <2>3. Ended(v)
    <3>1. v = Append(u, Comma)
      BY <2>2, CommaIs, AppendIsConcat
    <3>. HIDE DEF u, v
    <3>2. Len(v) = Len(u) + 1 /\ v[Len(u) + 1] = Comma /\ Len(u) \in Nat
      BY <2>2, <3>1, CommaIs, AppendProperties, LenProperties
    <3>3. v # <<>>
      BY <3>2
    <3>. QED  BY <3>2, <3>3 DEF Ended
  <2>4. r \in ItemSet /\ r.error = e.error /\ r.text = v
    BY <1>3, <2>2 DEF ItemSet
  <2>5. ASSUME e.error = FALSE
        PROVE  Whole(v, q)
    <3>1. ToSet(v) = (ToSet(s.text) \cup ToSet(e.text)) \cup {Comma}
      <4>1. ToSet(u) = ToSet(s.text) \cup ToSet(e.text)
        BY <1>3, MembersOfConcat
      <4>. HIDE DEF u
      <4>2. v = Append(u, Comma)
        BY <2>2, CommaIs, AppendIsConcat
      <4>. HIDE DEF v
      <4>3. ToSet(Append(u, Comma)) = ToSet(u) \cup {Comma}
        BY <2>2, CommaIs, MembersOfAppend
      <4>. QED  BY <4>1, <4>2, <4>3
    <3>2. ASSUME NEW i \in 1 .. Len(q)
          PROVE  q[i].error = FALSE /\ ToSet(q[i].text) \subseteq ToSet(v)
      <4>1. CASE i = n + 1
        BY <1>2, <2>5, <3>1, <4>1
      <4>2. CASE i \in 1 .. n
        <5>1. p[i].error = FALSE /\ ToSet(p[i].text) \subseteq ToSet(s.text)
          BY <1>1, <1>5, <4>2 DEF Whole
        <5>2. q[i] = p[i]
          BY <1>2, <4>2
        <5>. HIDE DEF q, v
        <5>. QED  BY <3>1, <5>1, <5>2
      <4>3. i = n + 1 \/ i \in 1 .. n
        BY <1>2
      <4>. QED  BY <4>1, <4>2, <4>3
    <3>3. ASSUME NEW k \in Kinds
          PROVE  Data(v, k) = FlattenSeq(Pieces(q, k))
      <4>. DEFINE a == Data(s.text, k)
                  b == Data(e.text, k)
      <4>1. Data(u, k) = a \o b
        BY <1>3, DataConcat
      <4>2. Data(u, k) \in Seq(DataSet) /\ Data(<<Comma>>, k) = <<>>
        BY <2>2, CommaIs, DataTyped
      <4>3. Data(v, k) = Data(u, k) \o Data(<<Comma>>, k)
        <5>. HIDE DEF u
        <5>. QED  BY <2>2, CommaIs, DataConcat
      <4>4. Data(v, k) = Data(u, k)
        <5>. DEFINE x == Data(u, k)
        <5>. HIDE DEF x
        <5>1. x \o <<>> = x
          BY <4>2, ConcatEmptySeq DEF x
        <5>. HIDE DEF u, v
        <5>. QED  BY <4>2, <4>3, <5>1 DEF x
      <4>5. a = FlattenSeq(Pieces(p, k))
        BY <1>1, <1>5 DEF Whole
      <4>6. FlattenSeq(Pieces(q, k)) = FlattenSeq(Pieces(p, k)) \o b
        BY PiecesAppend
      <4>. HIDE DEF a, b, u, v, q
      <4>. QED  BY <4>1, <4>4, <4>5, <4>6
    <3>. HIDE DEF q, v
    <3>. QED  BY <3>2, <3>3 DEF Whole
  <2>. HIDE DEF q, r, v
  <2>6. Reached(r, q)
    BY <1>2, <2>3, <2>4, <2>5 DEF Reached
  <2>. QED  BY <2>1, <2>6 DEF q
<1>. QED  BY <1>3, <1>4, <1>5

(* All items.                                                                  *)
LEMMA ListedIs ==
    ASSUME NEW p \in Seq(ItemSet)
    PROVE  Reached(FoldLeft(Listed, NothingListed, p), p)
<1>. DEFINE T == {q \in Seq(ItemSet) : Reached(List!Fold(NothingListed, q), q)}
<1>1. FoldLeft(Listed, NothingListed, p) = List!Fold(NothingListed, p)
  BY DEF FoldLeft, MapThenFoldSet, Max, List!Fold, List!Greatest
<1>2. <<>> \in T
  <2>1. List!Fold(NothingListed, <<>>) = NothingListed
    BY List!FoldEmpty
  <2>2. /\ <<>> \in Seq(ItemSet) /\ <<>> \in Seq(ClauseSet) /\ Len(<<>>) = 0
    BY EmptySeq
  <2>3. /\ NothingListed \in ItemSet /\ NothingListed.text = <<>>
        /\ NothingListed.error = FALSE
    BY <2>2 DEF NothingListed, ItemSet
  <2>4. \A k : Data(<<>>, k) = <<>>
    BY FlattenEmpty DEF Data
  <2>5. \A k : Pieces(<<>>, k) = <<>>
    BY DEF Pieces, Mapped
  <2>6. Whole(<<>>, <<>>)
    BY <2>2, <2>4, <2>5, FlattenEmpty DEF Whole
  <2>7. Reached(NothingListed, <<>>)
    BY <2>3, <2>6 DEF Reached
  <2>. QED  BY <2>1, <2>2, <2>7
<1>3. ASSUME NEW q \in Seq(ItemSet), NEW e \in ItemSet, q \in T
      PROVE  Append(q, e) \in T
  <2>1. Append(q, e) \in Seq(ItemSet)
    BY AppendProperties
  <2>2. List!Fold(NothingListed, Append(q, e)) = Listed(List!Fold(NothingListed, q), e)
    BY List!FoldAppend
  <2>3. Reached(List!Fold(NothingListed, q), q)
    BY <1>3
  <2>4. Reached(Listed(List!Fold(NothingListed, q), e), Append(q, e))
    BY <2>3, ListStep
  <2>. QED  BY <2>1, <2>2, <2>4
<1>4. p \in T
  <2>1. Seq(ItemSet) \subseteq T
    <3>. HIDE DEF T
    <3>. QED  BY <1>2, <1>3, AppendInduction
  <2>. QED  BY <2>1
<1>. QED  BY <1>1, <1>4

(* The data of two lists of items are those of the one and those of the other. *)
LEMMA PiecesConcat ==
    \A k : \A p, q \in Seq(ItemSet) :
        FlattenSeq(Pieces(p \o q, k)) = FlattenSeq(Pieces(p, k)) \o FlattenSeq(Pieces(q, k))
<1>. SUFFICES ASSUME NEW k, NEW p \in Seq(ItemSet), NEW q \in Seq(ItemSet)
              PROVE  FlattenSeq(Pieces(p \o q, k))
                         = FlattenSeq(Pieces(p, k)) \o FlattenSeq(Pieces(q, k))
  OBVIOUS
<1>. DEFINE I == ItemSet
            D == DataSet
            R == Seq(D)
            g == DataIn(k)
            x == Pieces(p, k)
            y == Pieces(q, k)
<1>1. g \in [I -> R] /\ IsMapped(g, p, x, R) /\ IsMapped(g, q, y, R)
  BY PiecesType
<1>2. Pieces(p \o q, k) = Mapped(g, p \o q) /\ x = Mapped(g, p) /\ y = Mapped(g, q)
  BY DEF Pieces
<1>3. MapsParts(g, p, q)
  <2>. HIDE DEF R, g
  <2>. QED  BY <1>1, MappedConcat
<1>. HIDE DEF g, x, y, I, D
<1>4. x \in Seq(Seq(D)) /\ y \in Seq(Seq(D))
  BY <1>1 DEF IsMapped
<1>5. FlattenSeq(x \o y) = FlattenSeq(x) \o FlattenSeq(y)
  BY <1>4, FlattenConcat
<1>. QED  BY <1>2, <1>3, <1>5 DEF MapsParts, x, y

(* A list of items of the same kind, each with one clause.                     *)
OneClauseEach(b, s, kind) ==
    /\ b \in Seq(ItemSet) /\ Len(b) = Len(s)
    /\ \A i \in 1 .. Len(s) : b[i].text = <<Clause(kind, s[i])>>

(* Its data are those of its clauses, all under its own kind.                  *)
LEMMA BlockOf ==
    ASSUME NEW S, S \subseteq DataSet, NEW s \in Seq(S), NEW kind \in Kinds, NEW b,
           OneClauseEach(b, s, kind), NEW k \in Kinds
    PROVE  FlattenSeq(Pieces(b, k)) = IF k = kind THEN s ELSE <<>>
<1>. DEFINE n == Len(s)
            D == DataSet
            x == Pieces(b, k)
<1>1. /\ b \in Seq(ItemSet) /\ Len(b) = n
      /\ \A i \in 1 .. n : b[i].text = <<Clause(kind, s[i])>>
  BY DEF OneClauseEach
<1>2. n \in Nat /\ DOMAIN s = 1 .. n /\ \A i \in 1 .. n : s[i] \in S
  BY LenProperties
<1>3. \A i \in 1 .. n : b[i] \in ItemSet
  BY <1>1, ElementOfSeq
<1>4. IsMapped(DataIn(k), b, x, Seq(D))
  BY <1>1, PiecesType
<1>5. \A item \in ItemSet : DataIn(k)[item] = Data(item.text, k)
  BY DEF DataIn
<1>. HIDE DEF n, D, x
<1>6. x \in Seq(Seq(D)) /\ Len(x) = n /\ \A i \in 1 .. n : x[i] = DataIn(k)[b[i]]
  BY <1>1, <1>4 DEF IsMapped
<1>7. ASSUME NEW i \in 1 .. n
      PROVE  x[i] = IF kind = k THEN <<s[i]>> ELSE <<>>
  <2>. DEFINE c == Clause(kind, s[i])
  <2>1. s[i] \in DataSet
    BY <1>2
  <2>2. c \in ClauseSet /\ c.kind = kind /\ c.data = s[i]
    BY <2>1 DEF ClauseSet, Clause
  <2>3. x[i] = Data(<<c>>, k)
    BY <1>1, <1>3, <1>5, <1>6
  <2>. HIDE DEF c
  <2>. QED  BY <2>2, <2>3, DataOfOne
<1>8. CASE k = kind
  <2>. DEFINE y == [i \in DOMAIN s |-> <<s[i]>>]
  <2>1. DOMAIN x = 1 .. n
    BY <1>2, <1>6, LenProperties
  <2>2. x = [i \in 1 .. n |-> x[i]]
    BY <1>6, <2>1, LenProperties
  <2>3. x = y
    BY <1>2, <1>7, <1>8, <2>2
  <2>4. FlattenSeq(y) = s
    BY FlattenSingles
  <2>. QED  BY <1>8, <2>3, <2>4 DEF x
<1>9. CASE k # kind
  <2>1. \A i \in 1 .. Len(x) : x[i] = <<>>
    BY <1>6, <1>7, <1>9
  <2>2. FlattenSeq(x) = <<>>
    BY <1>6, <2>1, FlattenNothing
  <2>. QED  BY <1>9, <2>2 DEF x
<1>. QED  BY <1>8, <1>9

-----------------------------------------------------------------------------
(* The statement of a setup.                                                   *)

FieldItem(f) == [text |-> VariableText(f), error |-> VariableError(f)]
UniqueItem(u) == [text |-> UniqueText(u), error |-> FALSE]
RefItem(r) == [text |-> ReferenceText(r), error |-> ReferenceError(r)]

(* An item that is in no error and has nothing bad has a clause of its kind.   *)
Good(item) == item.error = FALSE /\ \A c \in ToSet(item.text) : c.kind # "bad"

(* So it is with fields, uniques and references.                               *)
LEMMA ItemsAre ==
    /\ \A f \in FieldSet : /\ FieldItem(f) \in ItemSet
                           /\ Good(FieldItem(f)) => FieldItem(f).text = <<Clause("column", f)>>
    /\ \A u \in Seq(STRING) : /\ UniqueItem(u) \in ItemSet
                              /\ Good(UniqueItem(u)) => UniqueItem(u).text = <<Clause("unique", u)>>
    /\ \A r \in RefSet : /\ RefItem(r) \in ItemSet
                         /\ Good(RefItem(r)) => RefItem(r).text = <<Clause("reference", r)>>
<1>1. /\ FieldSet \subseteq DataSet /\ Seq(STRING) \subseteq DataSet /\ RefSet \subseteq DataSet
  BY DEF DataSet
<1>2. \A d \in DataSet : \A k \in Kinds \cup {"comma", "bad"} :
          /\ Clause(k, d) \in ClauseSet /\ Clause(k, d).kind = k
          /\ <<Clause(k, d)>> \in Seq(ClauseSet)
          /\ ToSet(<<Clause(k, d)>>) = {Clause(k, d)}
  <2>. SUFFICES ASSUME NEW d \in DataSet, NEW k \in Kinds \cup {"comma", "bad"}
                PROVE  /\ Clause(k, d) \in ClauseSet /\ Clause(k, d).kind = k
                       /\ <<Clause(k, d)>> \in Seq(ClauseSet)
                       /\ ToSet(<<Clause(k, d)>>) = {Clause(k, d)}
    OBVIOUS
  <2>1. Clause(k, d) \in ClauseSet /\ Clause(k, d).kind = k
    BY DEF Clause, ClauseSet
  <2>. QED  BY <2>1, OneElement
<1>3. <<>> \in Seq(ClauseSet)
  BY EmptySeq
<1>4. ASSUME NEW f \in FieldSet
      PROVE  /\ FieldItem(f) \in ItemSet
             /\ Good(FieldItem(f)) => FieldItem(f).text = <<Clause("column", f)>>
  <2>. DEFINE k == IF f.type \in DOMAIN TypeNames \ {"empty"} THEN "column" ELSE "bad"
              t == <<Clause(k, f)>>
              item == FieldItem(f)
  <2>1. k \in Kinds \cup {"comma", "bad"} /\ (k # "bad" => k = "column")
    BY DEF Kinds
  <2>. HIDE DEF k
  <2>2. /\ t \in Seq(ClauseSet) /\ ToSet(t) = {Clause(k, f)} /\ Clause(k, f).kind = k
    BY <1>1, <1>2, <2>1
  <2>3. item.text = (IF ~CheckYourself(f) THEN <<>> ELSE t) /\ item.error = VariableError(f)
    BY DEF FieldItem, VariableText, k
  <2>4. VariableError(f) \in BOOLEAN /\ (~CheckYourself(f) => VariableError(f))
    BY DEF VariableError
  <2>. HIDE DEF t
  <2>5. FieldItem(f) \in ItemSet
    <3>1. VariableText(f) \in Seq(ClauseSet)
      BY <1>3, <2>2, <2>3 DEF FieldItem
    <3>. QED  BY <2>4, <3>1 DEF FieldItem, ItemSet
  <2>6. ASSUME Good(item)
        PROVE  item.text = <<Clause("column", f)>>
    <3>1. item.error = FALSE /\ \A c \in ToSet(item.text) : c.kind # "bad"
      BY <2>6 DEF Good
    <3>2. CheckYourself(f)
      BY <2>3, <2>4, <3>1
    <3>3. item.text = t
      BY <2>3, <3>2
    <3>4. k = "column"
      BY <2>1, <2>2, <3>1, <3>3
    <3>. QED  BY <3>3, <3>4 DEF t
  <2>. QED  BY <2>5, <2>6
<1>5. ASSUME NEW u \in Seq(STRING)
      PROVE  /\ UniqueItem(u) \in ItemSet
             /\ Good(UniqueItem(u)) => UniqueItem(u).text = <<Clause("unique", u)>>
  <2>. DEFINE k == IF u = <<>> THEN "bad" ELSE "unique"
              t == <<Clause(k, u)>>
              item == UniqueItem(u)
  <2>1. k \in Kinds \cup {"comma", "bad"} /\ (k # "bad" => k = "unique")
    BY DEF Kinds
  <2>. HIDE DEF k
  <2>2. /\ t \in Seq(ClauseSet) /\ ToSet(t) = {Clause(k, u)} /\ Clause(k, u).kind = k
    BY <1>1, <1>2, <2>1
  <2>3. item.text = t /\ item = [text |-> t, error |-> FALSE]
    BY DEF UniqueItem, UniqueText, k
  <2>. HIDE DEF t, item
  <2>4. item \in ItemSet
    BY <2>2, <2>3 DEF ItemSet
  <2>5. ASSUME Good(item)
        PROVE  item.text = <<Clause("unique", u)>>
    <3>1. k = "unique"
      BY <2>1, <2>2, <2>3, <2>5 DEF Good
    <3>. QED  BY <2>3, <3>1 DEF t
  <2>. QED  BY <2>4, <2>5 DEF item
<1>6. ASSUME NEW r \in RefSet
      PROVE  /\ RefItem(r) \in ItemSet
             /\ Good(RefItem(r)) => RefItem(r).text = <<Clause("reference", r)>>
  <2>. DEFINE k == IF r.fkey THEN "reference" ELSE "bad"
              t == <<Clause(k, r)>>
              item == RefItem(r)
  <2>1. k \in Kinds \cup {"comma", "bad"} /\ (k # "bad" => k = "reference")
    BY DEF Kinds
  <2>. HIDE DEF k
  <2>2. /\ t \in Seq(ClauseSet) /\ ToSet(t) = {Clause(k, r)} /\ Clause(k, r).kind = k
    BY <1>1, <1>2, <2>1
  <2>3. item.text = (IF ReferenceError(r) THEN <<>> ELSE t) /\ item.error = ReferenceError(r)
    BY DEF RefItem, ReferenceText, k
  <2>4. ReferenceError(r) \in BOOLEAN
    BY DEF ReferenceError
  <2>. HIDE DEF t
  <2>5. RefItem(r) \in ItemSet
    <3>1. ReferenceText(r) \in Seq(ClauseSet)
      BY <1>3, <2>2, <2>3 DEF RefItem
    <3>. QED  BY <2>4, <3>1 DEF RefItem, ItemSet
  <2>6. ASSUME Good(item)
        PROVE  item.text = <<Clause("reference", r)>>
    <3>1. item.error = FALSE /\ \A c \in ToSet(item.text) : c.kind # "bad"
      BY <2>6 DEF Good
    <3>2. ~ReferenceError(r)
      BY <2>3, <2>4, <3>1
    <3>3. item.text = t
      BY <2>3, <3>2
    <3>4. k = "reference"
      BY <2>1, <2>2, <3>1, <3>3
    <3>. QED  BY <3>3, <3>4 DEF t
  <2>. QED  BY <2>5, <2>6
<1>. QED  BY <1>4, <1>5, <1>6

(* The primary key has the names of the fields that say so.                    *)
LEMMA PrimaryKeyIs ==
    ASSUME NEW setup \in SetupSet
    PROVE  /\ PrimaryKey(setup) \in Seq(STRING)
           /\ ToSet(PrimaryKey(setup)) = {f.fname : f \in {g \in ToSet(setup.fields) : g.pk}}
<1>. DEFINE F == setup.fields
            one == [f \in FieldSet |-> IF f.pk THEN <<f.fname>> ELSE <<>>]
            m == Mapped(one, F)
            N == STRING
<1>1. F \in Seq(FieldSet)
  BY DEF SetupSet
<1>. HIDE DEF F
<1>2. /\ DOMAIN F = 1 .. Len(F) /\ Len(F) \in Nat
      /\ \A i \in 1 .. Len(F) : F[i] \in FieldSet
  BY <1>1, LenProperties
<1>3. PrimaryKey(setup) = FlattenSeq(m)
  <2>1. [i \in DOMAIN F |-> IF F[i].pk THEN <<F[i].fname>> ELSE <<>>] = m
    BY <1>2 DEF Mapped
  <2>. HIDE DEF m
  <2>. QED  BY <2>1 DEF PrimaryKey, F
<1>4. \A f \in FieldSet : f.fname \in N /\ f.pk \in BOOLEAN
  BY DEF FieldSet
<1>. HIDE DEF N
<1>5. \A e \in N : <<e>> \in Seq(N) /\ ToSet(<<e>>) = {e}
  BY OneElement
<1>6. <<>> \in Seq(N) /\ ToSet(<<>>) = {}
  BY EmptySeq DEF ToSet
<1>7. one \in [FieldSet -> Seq(N)]
  BY <1>4, <1>5, <1>6
<1>8. \A f \in FieldSet : ToSet(one[f]) = IF f.pk THEN {f.fname} ELSE {}
  BY <1>4, <1>5, <1>6
<1>. HIDE DEF one
<1>9. IsMapped(one, F, m, Seq(N))
  <2>. DEFINE R == Seq(N)
  <2>1. one \in [FieldSet -> R]
    BY <1>7
  <2>. HIDE DEF R
  <2>2. IsMapped(one, F, m, R)
    BY <1>1, <2>1, MappedType
  <2>. QED  BY <2>2 DEF R
<1>. HIDE DEF m
<1>10. m \in Seq(Seq(N)) /\ Len(m) = Len(F) /\ \A i \in 1 .. Len(F) : m[i] = one[F[i]]
  BY <1>9 DEF IsMapped
<1>11. FlattenSeq(m) \in Seq(N)
  BY <1>10, FlattenType
<1>12. /\ \A i \in 1 .. Len(F) : ToSet(m[i]) \subseteq ToSet(FlattenSeq(m))
       /\ \A e \in ToSet(FlattenSeq(m)) : \E i \in 1 .. Len(F) : e \in ToSet(m[i])
  BY <1>10, FlattenMembers
<1>13. ToSet(F) = {F[i] : i \in 1 .. Len(F)}
  BY <1>2 DEF ToSet
<1>14. \A i \in 1 .. Len(F) : ToSet(m[i]) = IF F[i].pk THEN {F[i].fname} ELSE {}
  BY <1>2, <1>8, <1>10
<1>15. ToSet(FlattenSeq(m)) = {f.fname : f \in {g \in ToSet(F) : g.pk}}
  <2>1. ASSUME NEW e \in ToSet(FlattenSeq(m))
        PROVE  e \in {f.fname : f \in {g \in ToSet(F) : g.pk}}
    <3>1. PICK i \in 1 .. Len(F) : e \in ToSet(m[i])
      BY <1>12
    <3>2. F[i].pk /\ e = F[i].fname
      BY <1>14, <3>1
    <3>3. F[i] \in ToSet(F)
      BY <1>13
    <3>. QED  BY <3>2, <3>3
  <2>2. ASSUME NEW f \in ToSet(F), f.pk
        PROVE  f.fname \in ToSet(FlattenSeq(m))
    <3>1. PICK i \in 1 .. Len(F) : f = F[i]
      BY <1>13
    <3>2. f.fname \in ToSet(m[i])
      BY <1>14, <2>2, <3>1
    <3>. QED  BY <1>12, <3>2
  <2>. QED  BY <2>1, <2>2
<1>. QED  BY <1>3, <1>11, <1>15 DEF N, F

(* The items of a setup, its fields, uniques and references.                   *)
FieldItems(setup) == [i \in DOMAIN setup.fields |-> FieldItem(setup.fields[i])]
UniqueItems(setup) == [i \in DOMAIN setup.uniques |-> UniqueItem(setup.uniques[i])]
RefItems(setup) == [i \in DOMAIN setup.refs |-> RefItem(setup.refs[i])]

(* They are sequences of items, of the same lengths.                           *)
LEMMA ItemLists ==
    ASSUME NEW setup \in SetupSet
    PROVE  /\ Items(setup) = (FieldItems(setup) \o UniqueItems(setup)) \o RefItems(setup)
           /\ FieldItems(setup) \in Seq(ItemSet) /\ Len(FieldItems(setup)) = Len(setup.fields)
           /\ UniqueItems(setup) \in Seq(ItemSet) /\ Len(UniqueItems(setup)) = Len(setup.uniques)
           /\ RefItems(setup) \in Seq(ItemSet) /\ Len(RefItems(setup)) = Len(setup.refs)
<1>1. /\ setup.fields \in Seq(FieldSet) /\ setup.uniques \in Seq(Seq(STRING))
      /\ setup.refs \in Seq(RefSet)
  BY DEF SetupSet
<1>2. \A x : x \in Seq(FieldSet) =>
          [i \in DOMAIN x |-> FieldItem(x[i])] \in [1 .. Len(x) -> ItemSet] /\ Len(x) \in Nat
  <2>. SUFFICES ASSUME NEW x \in Seq(FieldSet)
                PROVE  [i \in DOMAIN x |-> FieldItem(x[i])] \in [1 .. Len(x) -> ItemSet]
                       /\ Len(x) \in Nat
    OBVIOUS
  <2>1. Len(x) \in Nat /\ DOMAIN x = 1 .. Len(x) /\ \A i \in 1 .. Len(x) : x[i] \in FieldSet
    BY LenProperties
  <2>. QED  BY <2>1, ItemsAre
<1>3. \A x : x \in Seq(Seq(STRING)) =>
          [i \in DOMAIN x |-> UniqueItem(x[i])] \in [1 .. Len(x) -> ItemSet] /\ Len(x) \in Nat
  <2>. SUFFICES ASSUME NEW x \in Seq(Seq(STRING))
                PROVE  [i \in DOMAIN x |-> UniqueItem(x[i])] \in [1 .. Len(x) -> ItemSet]
                       /\ Len(x) \in Nat
    OBVIOUS
  <2>1. Len(x) \in Nat /\ DOMAIN x = 1 .. Len(x) /\ \A i \in 1 .. Len(x) : x[i] \in Seq(STRING)
    BY LenProperties
  <2>. QED  BY <2>1, ItemsAre
<1>4. \A x : x \in Seq(RefSet) =>
          [i \in DOMAIN x |-> RefItem(x[i])] \in [1 .. Len(x) -> ItemSet] /\ Len(x) \in Nat
  <2>. SUFFICES ASSUME NEW x \in Seq(RefSet)
                PROVE  [i \in DOMAIN x |-> RefItem(x[i])] \in [1 .. Len(x) -> ItemSet]
                       /\ Len(x) \in Nat
    OBVIOUS
  <2>1. Len(x) \in Nat /\ DOMAIN x = 1 .. Len(x) /\ \A i \in 1 .. Len(x) : x[i] \in RefSet
    BY LenProperties
  <2>. QED  BY <2>1, ItemsAre
<1>5. \A n \in Nat : \A f \in [1 .. n -> ItemSet] : f \in Seq(ItemSet) /\ Len(f) = n
  <2>. SUFFICES ASSUME NEW n \in Nat, NEW f \in [1 .. n -> ItemSet]
                PROVE  f \in Seq(ItemSet) /\ Len(f) = n
    OBVIOUS
  <2>1. f \in Seq(ItemSet)
    BY SeqDef
  <2>2. DOMAIN f = 1 .. n
    OBVIOUS
  <2>. QED  BY <2>1, <2>2, LenProperties
<1>6. Items(setup) = (FieldItems(setup) \o UniqueItems(setup)) \o RefItems(setup)
  BY DEF Items, FieldItems, UniqueItems, RefItems, FieldItem, UniqueItem, RefItem
<1>7. FieldItems(setup) \in Seq(ItemSet) /\ Len(FieldItems(setup)) = Len(setup.fields)
  BY <1>1, <1>2, <1>5 DEF FieldItems
<1>8. UniqueItems(setup) \in Seq(ItemSet) /\ Len(UniqueItems(setup)) = Len(setup.uniques)
  BY <1>1, <1>3, <1>5 DEF UniqueItems
<1>9. RefItems(setup) \in Seq(ItemSet) /\ Len(RefItems(setup)) = Len(setup.refs)
  BY <1>1, <1>4, <1>5 DEF RefItems
<1>. QED  BY <1>6, <1>7, <1>8, <1>9

(* A text that the server can read has all that the setup has.                 *)
Says(text, setup) ==
    /\ Data(text, "column") = setup.fields
    /\ Data(text, "unique") = setup.uniques
    /\ Data(text, "reference") = setup.refs
    /\ Data(text, "key") = <<PrimaryKey(setup)>>

(* A list that ends early ends with a comma.                                   *)
LEMMA EndedIsRefused ==
    ASSUME NEW text \in Seq(ClauseSet), Ended(text)
    PROVE  ~Parses(text)
<1>1. Len(text) \in Nat \ {0} /\ DOMAIN text = 1 .. Len(text) /\ text[Len(text)] = Comma
  BY EmptySeq, LenProperties DEF Ended
<1>2. Comma.kind = "comma"
  BY DEF Comma, Clause
<1>. SUFFICES ASSUME Parses(text)
              PROVE  FALSE
  OBVIOUS
<1>3. Len(text) % 2 = 1 /\ (text[Len(text)].kind = "comma") = (Len(text) % 2 = 0)
  BY <1>1 DEF Parses
<1>. HIDE DEF Comma
<1>. QED  BY <1>1, <1>2, <1>3

(* A list without an error and without anything bad has the data of the setup. *)
LEMMA WholeSays ==
    ASSUME NEW setup \in SetupSet, NEW text, Whole(text, Items(setup)),
           \A c \in ToSet(text) : c.kind # "bad"
    PROVE  /\ Data(text, "column") = setup.fields
           /\ Data(text, "unique") = setup.uniques
           /\ Data(text, "reference") = setup.refs
           /\ Data(text, "key") = <<>>
<1>. DEFINE F == FieldItems(setup)
            U == UniqueItems(setup)
            R == RefItems(setup)
            p == Items(setup)
            fs == setup.fields
            us == setup.uniques
            rs == setup.refs
            N == Seq(STRING)
<1>1. /\ fs \in Seq(FieldSet) /\ us \in Seq(N) /\ rs \in Seq(RefSet)
  BY DEF SetupSet
<1>2. FieldSet \subseteq DataSet /\ N \subseteq DataSet /\ RefSet \subseteq DataSet
  BY DEF DataSet
<1>3. /\ p = (F \o U) \o R
      /\ F \in Seq(ItemSet) /\ Len(F) = Len(fs)
      /\ U \in Seq(ItemSet) /\ Len(U) = Len(us)
      /\ R \in Seq(ItemSet) /\ Len(R) = Len(rs)
  BY ItemLists
<1>4. /\ \A i \in 1 .. Len(fs) : fs[i] \in FieldSet /\ F[i] = FieldItem(fs[i])
      /\ \A i \in 1 .. Len(us) : us[i] \in N /\ U[i] = UniqueItem(us[i])
      /\ \A i \in 1 .. Len(rs) : rs[i] \in RefSet /\ R[i] = RefItem(rs[i])
  <2>1. DOMAIN fs = 1 .. Len(fs) /\ \A i \in 1 .. Len(fs) : fs[i] \in FieldSet
    BY <1>1, LenProperties
  <2>2. DOMAIN us = 1 .. Len(us) /\ \A i \in 1 .. Len(us) : us[i] \in N
    <3>. HIDE DEF N
    <3>. QED  BY <1>1, LenProperties
  <2>3. DOMAIN rs = 1 .. Len(rs) /\ \A i \in 1 .. Len(rs) : rs[i] \in RefSet
    BY <1>1, LenProperties
  <2>. QED  BY <2>1, <2>2, <2>3 DEF FieldItems, UniqueItems, RefItems
<1>5. Len(fs) \in Nat /\ Len(us) \in Nat /\ Len(rs) \in Nat
  BY <1>1, LenProperties
<1>6. /\ \A i \in 1 .. Len(p) : p[i].error = FALSE /\ ToSet(p[i].text) \subseteq ToSet(text)
      /\ \A k \in Kinds : Data(text, k) = FlattenSeq(Pieces(p, k))
  BY DEF Whole
<1>. HIDE DEF F, U, R, p, fs, us, rs, N
<1>7. \A i \in 1 .. Len(p) : Good(p[i])
  BY <1>6 DEF Good
<1>8. /\ F \o U \in Seq(ItemSet) /\ Len(F \o U) = Len(fs) + Len(us)
      /\ Len(p) = Len(fs) + Len(us) + Len(rs)
      /\ \A i \in 1 .. Len(fs) : p[i] = F[i]
      /\ \A i \in 1 .. Len(us) : p[Len(fs) + i] = U[i]
      /\ \A i \in 1 .. Len(rs) : p[Len(fs) + Len(us) + i] = R[i]
  <2>. DEFINE q == F \o U
  <2>0. F \in Seq(ItemSet) /\ U \in Seq(ItemSet) /\ R \in Seq(ItemSet)
    BY <1>3
  <2>1. /\ q \in Seq(ItemSet) /\ Len(q) = Len(fs) + Len(us)
        /\ \A i \in 1 .. Len(fs) + Len(us) :
               q[i] = IF i <= Len(fs) THEN F[i] ELSE U[i - Len(fs)]
    <3>1. /\ F \o U \in Seq(ItemSet) /\ Len(F \o U) = Len(F) + Len(U)
          /\ \A i \in 1 .. Len(F) + Len(U) :
                 (F \o U)[i] = IF i <= Len(F) THEN F[i] ELSE U[i - Len(F)]
      BY <2>0, ConcatProperties
    <3>2. Len(F) = Len(fs) /\ Len(U) = Len(us)
      BY <1>3
    <3>. QED  BY <3>1, <3>2
  <2>3. p = q \o R
    BY <1>3
  <2>. HIDE DEF q
  <2>2. /\ q \o R \in Seq(ItemSet) /\ Len(q \o R) = Len(q) + Len(rs)
        /\ \A i \in 1 .. Len(q) + Len(rs) :
               (q \o R)[i] = IF i <= Len(q) THEN q[i] ELSE R[i - Len(q)]
    <3>0. q \in Seq(ItemSet)
      BY <2>1
    <3>1. /\ q \o R \in Seq(ItemSet) /\ Len(q \o R) = Len(q) + Len(R)
          /\ \A i \in 1 .. Len(q) + Len(R) :
                 (q \o R)[i] = IF i <= Len(q) THEN q[i] ELSE R[i - Len(q)]
      BY <2>0, <3>0, ConcatProperties
    <3>2. Len(R) = Len(rs)
      BY <1>3
    <3>. QED  BY <3>1, <3>2
  <2>4. /\ Len(p) = Len(fs) + Len(us) + Len(rs)
        /\ \A i \in 1 .. Len(fs) + Len(us) + Len(rs) :
               p[i] = IF i <= Len(fs) + Len(us) THEN q[i] ELSE R[i - (Len(fs) + Len(us))]
    BY <1>5, <2>1, <2>2, <2>3
  <2>5. ASSUME NEW i \in 1 .. Len(fs)
        PROVE  p[i] = F[i]
    <3>1. /\ i \in 1 .. Len(fs) + Len(us) + Len(rs) /\ i \in 1 .. Len(fs) + Len(us)
          /\ i <= Len(fs) + Len(us) /\ i <= Len(fs)
      BY <1>5
    <3>. QED  BY <2>1, <2>4, <3>1
  <2>6. ASSUME NEW i \in 1 .. Len(us)
        PROVE  p[Len(fs) + i] = U[i]
    <3>. DEFINE j == Len(fs) + i
    <3>1. /\ j \in 1 .. Len(fs) + Len(us) + Len(rs) /\ j \in 1 .. Len(fs) + Len(us)
          /\ j <= Len(fs) + Len(us) /\ ~(j <= Len(fs)) /\ j - Len(fs) = i
      BY <1>5
    <3>. HIDE DEF j
    <3>2. p[j] = U[i]
      BY <2>1, <2>4, <3>1
    <3>. QED  BY <3>2 DEF j
  <2>7. ASSUME NEW i \in 1 .. Len(rs)
        PROVE  p[Len(fs) + Len(us) + i] = R[i]
    <3>. DEFINE j == Len(fs) + Len(us) + i
    <3>1. /\ j \in 1 .. Len(fs) + Len(us) + Len(rs) /\ ~(j <= Len(fs) + Len(us))
          /\ j - (Len(fs) + Len(us)) = i
      BY <1>5
    <3>. HIDE DEF j
    <3>2. p[j] = R[i]
      BY <2>4, <3>1
    <3>. QED  BY <3>2 DEF j
  <2>. QED  BY <2>1, <2>4, <2>5, <2>6, <2>7 DEF q
<1>9. OneClauseEach(F, fs, "column")
  <2>1. ASSUME NEW i \in 1 .. Len(fs)
        PROVE  F[i].text = <<Clause("column", fs[i])>>
    <3>1. i \in 1 .. Len(p)
      BY <1>5, <1>8
    <3>2. Good(F[i])
      BY <1>7, <1>8, <3>1
    <3>. QED  BY <1>4, <3>2, ItemsAre
  <2>. QED  BY <1>3, <2>1 DEF OneClauseEach
<1>10. OneClauseEach(U, us, "unique")
  <2>1. ASSUME NEW i \in 1 .. Len(us)
        PROVE  U[i].text = <<Clause("unique", us[i])>>
    <3>1. Len(fs) + i \in 1 .. Len(p)
      BY <1>5, <1>8
    <3>2. Good(U[i])
      BY <1>7, <1>8, <3>1
    <3>. QED  BY <1>4, <3>2, ItemsAre DEF N
  <2>. QED  BY <1>3, <2>1 DEF OneClauseEach
<1>11. OneClauseEach(R, rs, "reference")
  <2>1. ASSUME NEW i \in 1 .. Len(rs)
        PROVE  R[i].text = <<Clause("reference", rs[i])>>
    <3>1. Len(fs) + Len(us) + i \in 1 .. Len(p)
      BY <1>5, <1>8
    <3>2. Good(R[i])
      BY <1>7, <1>8, <3>1
    <3>. QED  BY <1>4, <3>2, ItemsAre
  <2>. QED  BY <1>3, <2>1 DEF OneClauseEach
<1>12. ASSUME NEW k \in Kinds
       PROVE  Data(text, k) = ((IF k = "column" THEN fs ELSE <<>>)
                                   \o (IF k = "unique" THEN us ELSE <<>>))
                                   \o (IF k = "reference" THEN rs ELSE <<>>)
  <2>1. Data(text, k) = FlattenSeq(Pieces(p, k))
    BY <1>6
  <2>2. FlattenSeq(Pieces(p, k)) = FlattenSeq(Pieces(F \o U, k)) \o FlattenSeq(Pieces(R, k))
    BY <1>3, <1>8, PiecesConcat
  <2>3. FlattenSeq(Pieces(F \o U, k)) = FlattenSeq(Pieces(F, k)) \o FlattenSeq(Pieces(U, k))
    BY <1>3, PiecesConcat
  <2>4. FlattenSeq(Pieces(F, k)) = IF k = "column" THEN fs ELSE <<>>
    <3>1. "column" \in Kinds
      BY DEF Kinds
    <3>. QED  BY <1>1, <1>2, <1>9, <3>1, BlockOf
  <2>5. FlattenSeq(Pieces(U, k)) = IF k = "unique" THEN us ELSE <<>>
    <3>1. "unique" \in Kinds
      BY DEF Kinds
    <3>. QED  BY <1>1, <1>2, <1>10, <3>1, BlockOf
  <2>6. FlattenSeq(Pieces(R, k)) = IF k = "reference" THEN rs ELSE <<>>
    <3>1. "reference" \in Kinds
      BY DEF Kinds
    <3>. QED  BY <1>1, <1>2, <1>11, <3>1, BlockOf
  <2>. QED  BY <2>1, <2>2, <2>3, <2>4, <2>5, <2>6
<1>13. /\ (fs \o <<>>) \o <<>> = fs /\ (<<>> \o us) \o <<>> = us
       /\ (<<>> \o <<>>) \o rs = rs
  BY <1>1, ConcatEmptySeq
<1>14. (<<>> \o <<>>) \o <<>> = <<>>
  OBVIOUS
<1>15. Data(text, "column") = (fs \o <<>>) \o <<>>
  BY <1>12 DEF Kinds
<1>16. Data(text, "unique") = (<<>> \o us) \o <<>>
  BY <1>12 DEF Kinds
<1>17. Data(text, "reference") = (<<>> \o <<>>) \o rs
  BY <1>12 DEF Kinds
<1>18. Data(text, "key") = (<<>> \o <<>>) \o <<>>
  BY <1>12 DEF Kinds
<1>. QED  BY <1>13, <1>14, <1>15, <1>16, <1>17, <1>18 DEF fs, us, rs

(* So has a text that the server reads: it does not end early, it has nothing  *)
(* bad, and the key is put behind the list.                                    *)
LEMMA TextSays ==
    ASSUME NEW setup \in SetupSet, Parses(setupCreateTableString(setup))
    PROVE  Says(setupCreateTableString(setup), setup)
<1>. DEFINE p == Items(setup)
            s == Lists(setup)
            key == Clause("key", PrimaryKey(setup))
            text == setupCreateTableString(setup)
<1>1. p \in Seq(ItemSet)
  <2>. DEFINE F == FieldItems(setup)
              U == UniqueItems(setup)
              R == RefItems(setup)
  <2>1. p = (F \o U) \o R /\ F \in Seq(ItemSet) /\ U \in Seq(ItemSet) /\ R \in Seq(ItemSet)
    BY ItemLists
  <2>. HIDE DEF p, F, U, R
  <2>. QED  BY <2>1, Concatenates
<1>2. Reached(s, p)
  BY <1>1, ListedIs DEF Lists
<1>3. text = IF s.error THEN s.text ELSE Append(s.text, key)
  BY DEF setupCreateTableString
<1>. HIDE DEF p, s, text
<1>4. s \in ItemSet /\ s.text \in Seq(ClauseSet) /\ s.error \in BOOLEAN
  BY <1>2 DEF Reached, ItemSet
<1>5. Parses(text)
  BY DEF text
<1>6. s.error = FALSE
  <2>. SUFFICES ASSUME s.error = TRUE
                PROVE  FALSE
    BY <1>4
  <2>1. Ended(s.text) /\ text = s.text
    BY <1>2, <1>3 DEF Reached
  <2>. QED  BY <1>4, <1>5, <2>1, EndedIsRefused
<1>7. Whole(s.text, p)
  BY <1>2, <1>6 DEF Reached
<1>8. key \in ClauseSet /\ key.kind = "key" /\ key.data = PrimaryKey(setup)
  <2>1. PrimaryKey(setup) \in DataSet
    BY PrimaryKeyIs DEF DataSet
  <2>. QED  BY <2>1 DEF Clause, ClauseSet, Kinds
<1>. HIDE DEF key
<1>9. text = Append(s.text, key)
  BY <1>3, <1>6
<1>10. \A c \in ToSet(text) : c.kind # "bad"
  BY <1>5 DEF Parses, ToSet
<1>11. ToSet(text) = ToSet(s.text) \cup {key}
  BY <1>4, <1>8, <1>9, MembersOfAppend
<1>12. /\ Data(s.text, "column") = setup.fields /\ Data(s.text, "unique") = setup.uniques
       /\ Data(s.text, "reference") = setup.refs /\ Data(s.text, "key") = <<>>
  BY <1>7, <1>10, <1>11, WholeSays DEF p
<1>13. text = s.text \o <<key>>
  BY <1>4, <1>8, <1>9, AppendIsConcat
<1>14. /\ <<key>> \in Seq(ClauseSet)
       /\ \A k : Data(<<key>>, k) = IF k = "key" THEN <<PrimaryKey(setup)>> ELSE <<>>
  BY <1>8, DataOfOne
<1>15. \A k : Data(text, k) = Data(s.text, k) \o (IF k = "key" THEN <<PrimaryKey(setup)>> ELSE <<>>)
  <2>. SUFFICES ASSUME NEW k
                PROVE  Data(text, k)
                           = Data(s.text, k) \o (IF k = "key" THEN <<PrimaryKey(setup)>> ELSE <<>>)
    OBVIOUS
  <2>. DEFINE one == <<key>>
              d == IF k = "key" THEN <<PrimaryKey(setup)>> ELSE <<>>
  <2>1. one \in Seq(ClauseSet) /\ Data(one, k) = d /\ text = s.text \o one
    BY <1>13, <1>14
  <2>. HIDE DEF one, d
  <2>2. Data(s.text \o one, k) = Data(s.text, k) \o Data(one, k)
    BY <1>4, <2>1, DataConcat
  <2>3. Data(text, k) = Data(s.text, k) \o d
    BY <2>1, <2>2
  <2>. QED  BY <2>3 DEF d
<1>16. \A k : Data(s.text, k) \in Seq(DataSet)
  BY <1>4, DataTyped
<1>17. \A x \in Seq(DataSet) : x \o <<>> = x
  BY ConcatEmptySeq
<1>18. /\ Data(text, "column") = Data(s.text, "column")
       /\ Data(text, "unique") = Data(s.text, "unique")
       /\ Data(text, "reference") = Data(s.text, "reference")
  BY <1>15, <1>16, <1>17
<1>19. Data(text, "key") = <<>> \o <<PrimaryKey(setup)>>
  BY <1>12, <1>15
<1>20. <<>> \o <<PrimaryKey(setup)>> = <<PrimaryKey(setup)>>
  OBVIOUS
<1>. QED  BY <1>12, <1>18, <1>19, <1>20 DEF Says, text

-----------------------------------------------------------------------------
(* The table of a setup.                                                       *)

ColumnSet == [name : STRING, type : STRING, null : BOOLEAN]
KeySet == [col : STRING, table : Tables, foreign : STRING, del : STRING, upd : STRING]
TableSet == [columns : Seq(ColumnSet), key : Seq(STRING), uniques : SUBSET Seq(STRING),
             refs : SUBSET KeySet]

(* Its columns have different names, among them those of the key.              *)
Keyed(table) ==
    /\ \A i, j \in DOMAIN table.columns :
           table.columns[i].name = table.columns[j].name => i = j
    /\ ToSet(table.key) \subseteq ColumnNames(table)

OfDesign(setup) ==
    /\ setup \in SetupSet /\ PrimaryKey(setup) # <<>>
    /\ \A i, j \in DOMAIN setup.fields :
           setup.fields[i].fname = setup.fields[j].fname => i = j

(* What the setup asks is what it gets.                                        *)
LEMMA TableIs ==
    ASSUME NEW setup, OfDesign(setup), NEW text, Says(text, setup)
    PROVE  /\ TableOf(text) \in TableSet /\ Keyed(TableOf(text))
           /\ TableOf(text).key # <<>>
           /\ Asked(setup, TableOf(text))
<1>. DEFINE fs == setup.fields
            rs == setup.refs
            key == PrimaryKey(setup)
            cs == [i \in DOMAIN fs |->
                      [name |-> fs[i].fname, type |-> fs[i].type,
                       null |-> fs[i].null /\ fs[i].fname \notin ToSet(key)]]
            One(r) == [col |-> r.fname, table |-> r.table, foreign |-> r.foreign,
                       del |-> r.del, upd |-> r.upd]
            refs == {One(r) : r \in ToSet(rs)}
            T == TableOf(text)
<1>1. /\ setup \in SetupSet /\ key # <<>>
      /\ \A i, j \in DOMAIN fs : fs[i].fname = fs[j].fname => i = j
  BY DEF OfDesign
<1>2. /\ fs \in Seq(FieldSet) /\ setup.uniques \in Seq(Seq(STRING)) /\ rs \in Seq(RefSet)
  BY <1>1 DEF SetupSet
<1>3. /\ Data(text, "column") = fs /\ Data(text, "unique") = setup.uniques
      /\ Data(text, "reference") = rs /\ Data(text, "key") = <<key>>
  BY DEF Says
<1>4. <<key>> # <<>> /\ <<key>>[1] = key
  OBVIOUS
<1>5. /\ T.columns = cs /\ T.key = key /\ T.uniques = ToSet(setup.uniques) /\ T.refs = refs
      /\ T = [columns |-> cs, key |-> key, uniques |-> ToSet(setup.uniques), refs |-> refs]
  <2>. HIDE DEF key, fs, rs
  <2>1. (IF Data(text, "key") = <<>> THEN <<>> ELSE Data(text, "key")[1]) = key
    BY <1>3, <1>4
  <2>. QED  BY <1>3, <2>1 DEF TableOf
<1>6. key \in Seq(STRING) /\ ToSet(key) = {f.fname : f \in {g \in ToSet(fs) : g.pk}}
  BY <1>1, PrimaryKeyIs
<1>7. Len(fs) \in Nat /\ DOMAIN fs = 1 .. Len(fs) /\ \A i \in 1 .. Len(fs) : fs[i] \in FieldSet
  BY <1>2, LenProperties
<1>. HIDE DEF key, fs, rs, T
<1>8. ToSet(fs) = {fs[i] : i \in 1 .. Len(fs)}
  BY <1>7 DEF ToSet
<1>9. \A i \in 1 .. Len(fs) : fs[i].fname \in ToSet(key) <=> fs[i].pk
  <2>1. ASSUME NEW i \in 1 .. Len(fs), fs[i].pk
        PROVE  fs[i].fname \in ToSet(key)
    BY <1>6, <1>8, <2>1
  <2>2. ASSUME NEW i \in 1 .. Len(fs), fs[i].fname \in ToSet(key)
        PROVE  fs[i].pk
    <3>1. PICK g \in ToSet(fs) : g.pk /\ g.fname = fs[i].fname
      BY <1>6, <2>2
    <3>2. PICK j \in 1 .. Len(fs) : g = fs[j]
      BY <1>8
    <3>3. j = i
      BY <1>1, <1>7, <3>1, <3>2
    <3>. QED  BY <3>1, <3>2, <3>3
  <2>. QED  BY <2>1, <2>2
<1>10. \A i \in 1 .. Len(fs) :
           /\ cs[i] \in ColumnSet
           /\ cs[i].name = fs[i].fname /\ cs[i].type = fs[i].type
           /\ cs[i].null = (fs[i].null /\ ~fs[i].pk)
  BY <1>7, <1>9 DEF FieldSet, ColumnSet
<1>11. cs \in [1 .. Len(fs) -> ColumnSet] /\ DOMAIN cs = 1 .. Len(fs)
  BY <1>7, <1>10
<1>12. refs \in SUBSET KeySet
  <2>1. \A r \in ToSet(rs) : r \in RefSet
    BY <1>2, LenProperties, ElementOfSeq DEF ToSet
  <2>2. \A r \in RefSet : One(r) \in KeySet
    BY DEF RefSet, KeySet
  <2>. QED  BY <2>1, <2>2
<1>13. ToSet(setup.uniques) \in SUBSET Seq(STRING)
  <2>. DEFINE us == setup.uniques
              N == Seq(STRING)
  <2>1. us \in Seq(N)
    BY <1>2
  <2>. HIDE DEF us, N
  <2>2. ToSet(us) \in SUBSET N
    BY <2>1, LenProperties DEF ToSet
  <2>. QED  BY <2>2 DEF us, N
<1>. HIDE DEF cs, One, refs
<1>14. cs \in Seq(ColumnSet)
  BY <1>7, <1>11, SeqDef
<1>15. ToSet(cs) = {cs[i] : i \in 1 .. Len(fs)}
  BY <1>11 DEF ToSet
<1>16. T \in TableSet
  BY <1>5, <1>6, <1>12, <1>13, <1>14 DEF TableSet
<1>17. Keyed(T)
  <2>1. ASSUME NEW i \in DOMAIN cs, NEW j \in DOMAIN cs, cs[i].name = cs[j].name
        PROVE  i = j
    BY <1>1, <1>7, <1>10, <1>11, <2>1
  <2>2. ColumnNames(T) = {fs[i].fname : i \in 1 .. Len(fs)}
    <3>1. ColumnNames(T) = {cs[i].name : i \in 1 .. Len(fs)}
      BY <1>5, <1>11 DEF ColumnNames
    <3>. QED  BY <1>10, <3>1
  <2>3. ToSet(key) \subseteq {fs[i].fname : i \in 1 .. Len(fs)}
    BY <1>6, <1>8
  <2>. QED  BY <1>5, <2>1, <2>2, <2>3 DEF Keyed
<1>18. Asked(setup, T)
  <2>1. {<<f.fname, f.type>> : f \in ToSet(fs)} = {<<c.name, c.type>> : c \in ToSet(cs)}
    <3>1. \A f \in ToSet(fs) : \E c \in ToSet(cs) : f.fname = c.name /\ f.type = c.type
      BY <1>8, <1>10, <1>15
    <3>2. \A c \in ToSet(cs) : \E f \in ToSet(fs) : f.fname = c.name /\ f.type = c.type
      BY <1>8, <1>10, <1>15
    <3>. QED  BY <3>1, <3>2
  <2>2. ASSUME NEW f \in ToSet(fs), NEW c \in ToSet(cs), f.fname = c.name
        PROVE  c.null = (f.null /\ ~f.pk)
    <3>1. PICK i \in 1 .. Len(fs) : f = fs[i]
      BY <1>8
    <3>2. PICK j \in 1 .. Len(fs) : c = cs[j]
      BY <1>15
    <3>3. i = j
      BY <1>1, <1>7, <1>10, <2>2, <3>1, <3>2
    <3>. QED  BY <1>10, <3>1, <3>2, <3>3
  <2>3. {<<r.fname, r.table, r.foreign, r.del, r.upd>> : r \in ToSet(rs)}
            = {<<r.col, r.table, r.foreign, r.del, r.upd>> : r \in refs}
    <3>1. \A r \in ToSet(rs) : \E q \in refs :
              <<r.fname, r.table, r.foreign, r.del, r.upd>>
                  = <<q.col, q.table, q.foreign, q.del, q.upd>>
      <4>. TAKE r \in ToSet(rs)
      <4>1. One(r) \in refs
        BY DEF refs
      <4>2. /\ One(r).col = r.fname /\ One(r).table = r.table /\ One(r).foreign = r.foreign
            /\ One(r).del = r.del /\ One(r).upd = r.upd
        BY DEF One
      <4>. QED  BY <4>1, <4>2
    <3>2. \A q \in refs : \E r \in ToSet(rs) :
              <<r.fname, r.table, r.foreign, r.del, r.upd>>
                  = <<q.col, q.table, q.foreign, q.del, q.upd>>
      BY DEF refs, One
    <3>. QED  BY <3>1, <3>2
  <2>. QED  BY <1>5, <2>1, <2>2, <2>3 DEF Asked, fs, rs, key
<1>. QED  BY <1>1, <1>5, <1>16, <1>17, <1>18 DEF T

-----------------------------------------------------------------------------
(* The invariant.                                                              *)

(* Each table is made as some design had it, and a reference leads to a column *)
(* that is there.                                                              *)
CatalogInv ==
    /\ catalog \in [Tables -> TableSet]
    /\ \A t \in Tables :
           /\ Keyed(catalog[t]) /\ (Exists(t) => catalog[t].key # <<>>)
           /\ \A u \in catalog[t].uniques : ToSet(u) \subseteq ColumnNames(catalog[t])
           /\ \A r \in catalog[t].refs : r.foreign \in ColumnNames(catalog[r.table])

(* What has been read is what is in the catalog.                               *)
ReadInv ==
    format.table # "" =>
        LET table == catalog[format.table]
        IN  /\ format.table \in Tables
            /\ format.pk = table.key
            /\ {<<r.fname, r.table, r.foreign>> : r \in format.refs}
                   = {<<r.col, r.table, r.foreign>> : r \in table.refs}

FormatInv == design \in Designs /\ CatalogInv /\ ReadInv

(* A table that is not there.                                                  *)
LEMMA AbsentIs ==
    /\ Absent \in TableSet /\ Keyed(Absent)
    /\ Absent.columns = <<>> /\ Absent.key = <<>> /\ Absent.uniques = {} /\ Absent.refs = {}
    /\ ColumnNames(Absent) = {}
<1>1. /\ <<>> \in Seq(ColumnSet) /\ <<>> \in Seq(STRING) /\ DOMAIN <<>> = {}
  BY EmptySeq
<1>2. Absent.columns = <<>> /\ Absent.key = <<>> /\ Absent.uniques = {} /\ Absent.refs = {}
  BY DEF Absent
<1>3. Absent \in TableSet
  BY <1>1 DEF Absent, TableSet
<1>4. ColumnNames(Absent) = {} /\ ToSet(<<>>) = {}
  BY <1>1, <1>2 DEF ColumnNames, ToSet
<1>. QED  BY <1>1, <1>2, <1>3, <1>4 DEF Keyed

(* The setups of a design.                                                     *)
LEMMA DesignIs ==
    \A d \in Designs : \A t \in Tables : OfDesign(d[t])
BY DesignsAssumption DEF OfDesign

(* Numbers of columns are turned into their names again.                       *)
LEMMA ConstrainedIs ==
    ASSUME NEW t, catalog[t] \in TableSet, NEW names \in Seq(STRING),
           ToSet(names) \subseteq ColumnNames(catalog[t])
    PROVE  Constrained(t, names) = names
<1>. DEFINE cs == catalog[t].columns
            fs == FieldsRead(t)
            ns == Numbers(t, names)
            is == StringToIntNumbers(ns)
            m == [i \in DOMAIN is |->
                      IF is[i] + 1 \in DOMAIN fs THEN <<fs[is[i] + 1]>> ELSE <<>>]
            y == [i \in DOMAIN names |-> <<names[i]>>]
<1>1. cs \in Seq(ColumnSet)
  BY DEF TableSet
<1>2. DOMAIN cs = 1 .. Len(cs) /\ Len(cs) \in Nat
  BY <1>1, LenProperties
<1>3. /\ DOMAIN ns = DOMAIN names
      /\ \A i \in DOMAIN names : ns[i] = CHOOSE n \in DOMAIN cs : cs[n].name = names[i]
  BY DEF Numbers
<1>4. ToSet(names) \subseteq {cs[i].name : i \in DOMAIN cs}
  BY DEF ColumnNames
<1>5. Constrained(t, names) = FlattenSeq(m)
  BY DEF Constrained, setConstrainVector
<1>11. DOMAIN fs = DOMAIN cs /\ \A i \in DOMAIN cs : fs[i] = cs[i].name
  BY DEF FieldsRead
<1>. HIDE DEF cs, fs, ns
<1>6. \A i \in DOMAIN names : ns[i] \in DOMAIN cs /\ cs[ns[i]].name = names[i]
  <2>. TAKE i \in DOMAIN names
  <2>1. names[i] \in ToSet(names)
    BY DEF ToSet
  <2>2. \E n \in DOMAIN cs : cs[n].name = names[i]
    BY <1>4, <2>1
  <2>. QED  BY <1>3, <2>2
<1>7. /\ DOMAIN is = DOMAIN names
      /\ \A i \in DOMAIN names : is[i] = ns[i] - 1
  BY <1>3 DEF StringToIntNumbers
<1>. HIDE DEF is
<1>8. \A i \in DOMAIN names : is[i] + 1 = ns[i]
  BY <1>2, <1>6, <1>7
<1>9. m = y
  BY <1>6, <1>7, <1>8, <1>11
<1>10. FlattenSeq(y) = names
  BY FlattenSingles
<1>. HIDE DEF m, y
<1>. QED  BY <1>5, <1>9, <1>10

-----------------------------------------------------------------------------
(* The calls.                                                                  *)

(* A table that is created is as its setup asks, and its references lead to    *)
(* columns of tables that are there.                                           *)
Created(t) ==
    LET new == catalog'[t]
    IN  /\ ~Exists(t) /\ catalog' = [catalog EXCEPT ![t] = new]
        /\ new \in TableSet /\ Keyed(new) /\ new.key # <<>>
        /\ Asked(design[t], new)
        /\ \A u \in new.uniques : ToSet(u) \subseteq ColumnNames(new)
        /\ \A r \in new.refs :
               /\ r.col \in ColumnNames(new)
               /\ \/ catalog'[r.table].key = <<r.foreign>>
                  \/ <<r.foreign>> \in catalog'[r.table].uniques

(* What CREATE TABLE does, if the server takes it.                             *)
LEMMA CreateTableIs ==
    ASSUME design \in Designs, CatalogInv, NEW t \in Tables, CreateTable(t)
    PROVE  catalog' = catalog \/ Created(t)
<1>. DEFINE setup == design[t]
            text == setupCreateTableString(setup)
            new == TableOf(text)
<1>1. catalog' = IF Accepts(t, text) THEN [catalog EXCEPT ![t] = new] ELSE catalog
  BY DEF CreateTable
<1>2. OfDesign(setup) /\ setup \in SetupSet
  BY DesignIs DEF OfDesign
<1>3. catalog \in [Tables -> TableSet]
  BY DEF CatalogInv
<1>. HIDE DEF setup, text
<1>. SUFFICES ASSUME Accepts(t, text)
              PROVE  Created(t)
  BY <1>1
<1>4. ~Exists(t) /\ Parses(text)
  BY DEF Accepts
<1>5. Says(text, setup)
  BY <1>2, <1>4, TextSays DEF text
<1>6. new \in TableSet /\ Keyed(new) /\ new.key # <<>> /\ Asked(setup, new)
  BY <1>2, <1>5, TableIs
<1>7. catalog' = [catalog EXCEPT ![t] = new] /\ catalog'[t] = new
      /\ \A u \in Tables : catalog'[u] = IF u = t THEN new ELSE catalog[u]
  BY <1>1, <1>3
<1>8. /\ \A u \in new.uniques : ToSet(u) \subseteq ColumnNames(new)
      /\ \A r \in new.refs :
             /\ r.col \in ColumnNames(new)
             /\ \/ (IF r.table = t THEN new ELSE catalog[r.table]).key = <<r.foreign>>
                \/ <<r.foreign>> \in (IF r.table = t THEN new ELSE catalog[r.table]).uniques
  BY DEF Accepts
<1>. HIDE DEF new
<1>9. \A r \in new.refs : r.table \in Tables
  BY <1>6 DEF TableSet, KeySet
<1>10. \A r \in new.refs : \/ catalog'[r.table].key = <<r.foreign>>
                           \/ <<r.foreign>> \in catalog'[r.table].uniques
  BY <1>7, <1>8, <1>9
<1>. QED  BY <1>4, <1>6, <1>7, <1>8, <1>10 DEF Created, setup

(* The catalog keeps its rules.                                                *)
LEMMA CreateTableKeeps ==
    ASSUME CatalogInv, NEW t \in Tables, Created(t)
    PROVE  CatalogInv'
<1>. DEFINE new == catalog'[t]
<1>1. /\ ~Exists(t) /\ catalog' = [catalog EXCEPT ![t] = new]
      /\ new \in TableSet /\ Keyed(new) /\ new.key # <<>>
      /\ \A u \in new.uniques : ToSet(u) \subseteq ColumnNames(new)
      /\ \A r \in new.refs : \/ catalog'[r.table].key = <<r.foreign>>
                             \/ <<r.foreign>> \in catalog'[r.table].uniques
  BY DEF Created
<1>2. catalog \in [Tables -> TableSet]
  BY DEF CatalogInv
<1>. HIDE DEF new
<1>3. /\ catalog' \in [Tables -> TableSet]
      /\ catalog'[t] = new /\ \A u \in Tables : u # t => catalog'[u] = catalog[u]
  BY <1>1, <1>2
<1>4. ColumnNames(catalog[t]) = {}
  BY <1>1, AbsentIs DEF Exists
<1>5. ASSUME NEW u \in Tables
      PROVE  /\ Keyed(catalog'[u]) /\ (Exists(u)' => catalog'[u].key # <<>>)
             /\ \A x \in catalog'[u].uniques : ToSet(x) \subseteq ColumnNames(catalog'[u])
  <2>1. CASE u = t
    BY <1>1, <1>3, <2>1
  <2>2. CASE u # t
    BY <1>3, <2>2 DEF CatalogInv, Exists
  <2>. QED  BY <2>1, <2>2
<1>6. ASSUME NEW u \in Tables, NEW r \in catalog'[u].refs
      PROVE  r.foreign \in ColumnNames(catalog'[r.table])
  <2>1. r.table \in Tables /\ r.foreign \in STRING
    BY <1>3 DEF TableSet, KeySet
  <2>2. CASE u = t
    <3>. DEFINE f == <<r.foreign>>
    <3>1. f[1] = r.foreign /\ ToSet(f) = {r.foreign}
      BY <2>1, OneElement
    <3>2. catalog'[r.table].key = f \/ f \in catalog'[r.table].uniques
      BY <1>1, <1>3, <2>2
    <3>. HIDE DEF f
    <3>3. ToSet(f) \subseteq ColumnNames(catalog'[r.table])
      BY <1>5, <2>1, <3>2 DEF Keyed
    <3>. QED  BY <3>1, <3>3
  <2>3. CASE u # t
    <3>1. r \in catalog[u].refs
      BY <1>3, <2>3
    <3>2. r.foreign \in ColumnNames(catalog[r.table])
      BY <3>1 DEF CatalogInv
    <3>3. r.table # t
      BY <1>4, <3>2
    <3>. QED  BY <1>3, <2>1, <3>2, <3>3
  <2>. QED  BY <2>2, <2>3
<1>. QED  BY <1>3, <1>5, <1>6 DEF CatalogInv

(* A table with other references.                                              *)
LEMMA WithRefs ==
    ASSUME NEW A, NEW B, NEW C, NEW D,
           NEW table \in [columns : A, key : B, uniques : C, refs : D], NEW refs
    PROVE  [table EXCEPT !.refs = refs]
               = [columns |-> table.columns, key |-> table.key,
                  uniques |-> table.uniques, refs |-> refs]
OBVIOUS

(* Where a table is dropped, the references to it go too or it stays.          *)
LEMMA DropTableKeeps ==
    ASSUME CatalogInv, NEW t \in Tables, NEW act, DropTable(t, act)
    PROVE  CatalogInv' /\ \A u \in Tables : ~Exists(u) => ~Exists(u)'
<1>. DEFINE Others(u) == {r \in catalog[u].refs : r.table # t}
            Left(u) == [catalog[u] EXCEPT !.refs = Others(u)]
            after == [u \in Tables |-> IF u = t THEN Absent ELSE Left(u)]
<1>1. catalog' = catalog \/ catalog' = after
  BY DEF DropTable
<1>2. CASE catalog' = catalog
  BY <1>2 DEF CatalogInv, Exists
<1>3. CASE catalog' = after
  <2>1. \A u \in Tables : catalog[u] \in TableSet
    BY DEF CatalogInv
  <2>2. ASSUME NEW u \in Tables
        PROVE  /\ Left(u) \in TableSet
               /\ Left(u).columns = catalog[u].columns /\ Left(u).key = catalog[u].key
               /\ Left(u).uniques = catalog[u].uniques /\ Left(u).refs = Others(u)
               /\ ~Exists(u) => Left(u) = Absent
    <3>1. catalog[u] \in TableSet
      BY <2>1
    <3>2. Others(u) \in SUBSET KeySet
      BY <3>1 DEF TableSet
    <3>3. Left(u) = [columns |-> catalog[u].columns, key |-> catalog[u].key,
                     uniques |-> catalog[u].uniques, refs |-> Others(u)]
      <4>. HIDE DEF Others
      <4>. QED  BY <3>1, WithRefs DEF TableSet
    <3>. HIDE DEF Left
    <3>4. Left(u) \in TableSet
      <4>. HIDE DEF Others
      <4>. QED  BY <3>1, <3>2, <3>3 DEF TableSet
    <3>5. ASSUME ~Exists(u)
          PROVE  Left(u) = Absent
      <4>1. catalog[u] = Absent
        BY <3>5 DEF Exists
      <4>2. Others(u) = {}
        BY <4>1, AbsentIs
      <4>. HIDE DEF Others
      <4>. QED  BY <3>3, <4>1, <4>2 DEF Absent
    <3>. QED  BY <3>3, <3>4, <3>5
  <2>3. /\ after[t] = Absent /\ after \in [Tables -> TableSet]
        /\ \A u \in Tables : u # t => after[u] = Left(u)
    <3>. HIDE DEF Left
    <3>. QED  BY <2>2, AbsentIs
  <2>. HIDE DEF after, Left
  <2>4. ASSUME NEW u \in Tables, ~Exists(u)
        PROVE  ~Exists(u)'
    BY <1>3, <2>2, <2>3, <2>4 DEF Exists
  <2>5. ASSUME NEW u \in Tables
        PROVE  /\ Keyed(after[u]) /\ (after[u] # Absent => after[u].key # <<>>)
               /\ \A x \in after[u].uniques : ToSet(x) \subseteq ColumnNames(after[u])
    <3>1. CASE u = t
      BY <2>3, <3>1, AbsentIs
    <3>2. CASE u # t
      <4>1. /\ after[u].columns = catalog[u].columns /\ after[u].key = catalog[u].key
            /\ after[u].uniques = catalog[u].uniques
        BY <2>2, <2>3, <3>2
      <4>2. /\ Keyed(catalog[u]) /\ (Exists(u) => catalog[u].key # <<>>)
            /\ \A x \in catalog[u].uniques : ToSet(x) \subseteq ColumnNames(catalog[u])
        BY DEF CatalogInv
      <4>3. ColumnNames(after[u]) = ColumnNames(catalog[u]) /\ Keyed(after[u])
        BY <4>1, <4>2 DEF ColumnNames, Keyed
      <4>4. after[u] # Absent => Exists(u)
        BY <2>2, <2>3, <3>2
      <4>. QED  BY <4>1, <4>2, <4>3, <4>4
    <3>. QED  BY <3>1, <3>2
  <2>6. ASSUME NEW u \in Tables, NEW r \in after[u].refs
        PROVE  r.foreign \in ColumnNames(after[r.table])
    <3>1. u # t
      BY <2>3, AbsentIs
    <3>2. r \in catalog[u].refs /\ r.table # t
      BY <2>2, <2>3, <3>1
    <3>3. r.table \in Tables
      BY <2>1, <3>2 DEF TableSet, KeySet
    <3>4. after[r.table].columns = catalog[r.table].columns
      BY <2>2, <2>3, <3>2, <3>3
    <3>5. r.foreign \in ColumnNames(catalog[r.table])
      BY <3>2 DEF CatalogInv
    <3>. QED  BY <3>4, <3>5 DEF ColumnNames
  <2>7. CatalogInv'
    BY <1>3, <2>3, <2>5, <2>6 DEF CatalogInv, Exists
  <2>. QED  BY <2>4, <2>7
<1>. QED  BY <1>1, <1>2, <1>3

(* The format that is read is that of the catalog.                             *)
LEMMA GetTableFormatReads ==
    ASSUME CatalogInv, NEW t \in Tables, GetTableFormat(t)
    PROVE  ReadInv'
<1>1. catalog' = catalog
  BY DEF GetTableFormat
<1>3. CASE format' = NoFormat
  <2>1. format'.table = ""
    BY <1>3 DEF NoFormat
  <2>. QED  BY <2>1 DEF ReadInv
<1>4. ASSUME NEW first,
             format' = [table |-> t, pk |-> Constrained(t, catalog[t].key),
                        refs |-> {ReferenceRead(r, first) : r \in catalog[t].refs}]
      PROVE  ReadInv'
  <2>. DEFINE table == catalog[t]
  <2>1. table \in TableSet /\ Keyed(table)
    BY DEF CatalogInv
  <2>2. table.key \in Seq(STRING) /\ table.columns \in Seq(ColumnSet)
    BY <2>1 DEF TableSet
  <2>3. Constrained(t, table.key) = table.key
    BY <2>1, <2>2, ConstrainedIs DEF Keyed
  <2>5. {<<q.fname, q.table, q.foreign>> : q \in {ReferenceRead(r, first) : r \in table.refs}}
            = {<<r.col, r.table, r.foreign>> : r \in table.refs}
    <3>1. \A r : /\ ReferenceRead(r, first).fname = r.col /\ ReferenceRead(r, first).table = r.table
                 /\ ReferenceRead(r, first).foreign = r.foreign
      BY DEF ReferenceRead
    <3>. QED  BY <3>1
  <2>6. /\ format'.table = t /\ format'.pk = table.key
        /\ format'.refs = {ReferenceRead(r, first) : r \in table.refs}
    BY <1>4, <2>3
  <2>. QED  BY <1>1, <2>5, <2>6 DEF ReadInv
<1>. QED  BY <1>3, <1>4 DEF GetTableFormat

(* What is forgotten is not read.                                              *)
LEMMA ForgetKeeps ==
    ASSUME Forget
    PROVE  ReadInv'
<1>1. format'.table = ""
  BY DEF Forget, NoFormat
<1>. QED  BY <1>1 DEF ReadInv

(* It holds in the beginning.                                                  *)
LEMMA FormatBegins ==
    Init => FormatInv
<1>. SUFFICES ASSUME Init
              PROVE  FormatInv
  OBVIOUS
<1>1. /\ design \in Designs /\ catalog = [t \in Tables |-> Absent]
      /\ format.table = ""
  BY DEF Init, NoFormat
<1>2. \A t \in Tables : catalog[t] = Absent
  BY <1>1
<1>3. CatalogInv
  BY <1>1, <1>2, AbsentIs DEF CatalogInv, Exists
<1>. QED  BY <1>1, <1>3 DEF FormatInv, ReadInv

(* Every call keeps it.                                                        *)
LEMMA FormatKept ==
    FormatInv /\ [Next]_vars => FormatInv'
<1>. SUFFICES ASSUME FormatInv, [Next]_vars
              PROVE  FormatInv'
  OBVIOUS
<1>1. design \in Designs /\ CatalogInv /\ ReadInv
  BY DEF FormatInv
<1>2. ASSUME NEW t \in Tables, CreateTable(t)
      PROVE  FormatInv'
  <2>1. CatalogInv'
    <3>1. catalog' = catalog \/ Created(t)
      BY <1>1, <1>2, CreateTableIs
    <3>2. CASE catalog' = catalog
      BY <1>1, <3>2 DEF CatalogInv, Exists
    <3>3. CASE Created(t)
      BY <1>1, <3>3, CreateTableKeeps
    <3>. QED  BY <3>1, <3>2, <3>3
  <2>2. Forget /\ design' = design
    BY <1>2 DEF CreateTable
  <2>. QED  BY <1>1, <2>1, <2>2, ForgetKeeps DEF FormatInv
<1>3. ASSUME NEW t \in Tables, NEW act, DropTable(t, act)
      PROVE  FormatInv'
  <2>1. CatalogInv'
    BY <1>1, <1>3, DropTableKeeps
  <2>2. Forget /\ design' = design
    BY <1>3 DEF DropTable
  <2>. QED  BY <1>1, <2>1, <2>2, ForgetKeeps DEF FormatInv
<1>4. ASSUME NEW t \in Tables, GetTableFormat(t)
      PROVE  FormatInv'
  <2>1. UNCHANGED <<design, catalog>>
    BY <1>4 DEF GetTableFormat
  <2>2. CatalogInv'
    BY <1>1, <2>1 DEF CatalogInv, Exists
  <2>. QED  BY <1>1, <1>4, <2>1, <2>2, GetTableFormatReads DEF FormatInv
<1>6. ASSUME NewVersion
      PROVE  FormatInv'
  <2>1. design' \in Designs /\ Forget /\ UNCHANGED catalog
    BY <1>6 DEF NewVersion
  <2>2. CatalogInv'
    BY <1>1, <2>1 DEF CatalogInv, Exists
  <2>. QED  BY <2>1, <2>2, ForgetKeeps DEF FormatInv
<1>7. ASSUME UNCHANGED vars
      PROVE  FormatInv'
  BY <1>1, <1>7 DEF vars, FormatInv, CatalogInv, ReadInv, Exists
<1>. QED  BY <1>2, <1>3, <1>4, <1>6, <1>7 DEF Next

(* It always holds.                                                            *)
THEOREM FormatAlways == Spec => []FormatInv
BY FormatBegins, FormatKept, PTL DEF Spec

-----------------------------------------------------------------------------
(* The properties.                                                             *)

(* Every table of the server has a key of its own columns, and no reference    *)
(* leads to a column that is not there, whatever is created and dropped.       *)
THEOREM TablesHold == Spec => []TypeOK
<1>1. FormatInv => TypeOK
  BY DEF FormatInv, CatalogInv, Keyed, TypeOK
<1>. QED  BY <1>1, FormatAlways, PTL

(* What GetTableFormat reads has the key and the ends of every reference that  *)
(* the table has, although the numbers of the columns go through two counts.   *)
THEOREM KeysAreRead == Spec => []KeysComeBack
<1>1. FormatInv => KeysComeBack
  BY DEF FormatInv, ReadInv, KeysComeBack
<1>. QED  BY <1>1, FormatAlways, PTL

(* A table is there only after it was created.                                 *)
LEMMA NewIsCreated ==
    ASSUME FormatInv, [Next]_vars, NEW t \in Tables, ~Exists(t), Exists(t)'
    PROVE  Created(t) /\ design' = design
<1>1. design \in Designs /\ CatalogInv /\ catalog \in [Tables -> TableSet]
  BY DEF FormatInv, CatalogInv
<1>2. catalog' # catalog
  BY DEF Exists
<1>3. ASSUME NEW u \in Tables, CreateTable(u)
      PROVE  Created(t) /\ design' = design
  <2>1. Created(u) /\ design' = design
    BY <1>1, <1>2, <1>3, CreateTableIs DEF CreateTable
  <2>2. catalog' = [catalog EXCEPT ![u] = catalog'[u]]
    BY <2>1 DEF Created
  <2>3. u = t
    <3>1. u # t => catalog'[t] = catalog[t]
      BY <1>1, <2>2
    <3>. QED  BY <3>1 DEF Exists
  <2>. QED  BY <2>1, <2>3
<1>4. ASSUME NEW u \in Tables, NEW act, DropTable(u, act)
      PROVE  FALSE
  BY <1>1, <1>4, DropTableKeeps
<1>5. ASSUME NEW u \in Tables, GetTableFormat(u)
      PROVE  FALSE
  BY <1>2, <1>5 DEF GetTableFormat
<1>6. ~NewVersion /\ ~UNCHANGED vars
  BY <1>2 DEF NewVersion, vars
<1>. QED  BY <1>3, <1>4, <1>5, <1>6 DEF Next

(* A table that CREATE TABLE makes has every column, key, unique and reference *)
(* of its setup: an error in the middle of the text never makes half a table.  *)
THEOREM CreatedIsWhole == Spec => WholeOrNotAtAll
<1>1. FormatInv /\ [Next]_vars =>
          [\A t \in Tables : ~Exists(t) /\ Exists(t)' => Asked(design[t], catalog'[t])]_vars
  <2>. SUFFICES ASSUME FormatInv, [Next]_vars, NEW t \in Tables, ~Exists(t), Exists(t)'
                PROVE  Asked(design[t], catalog'[t])
    OBVIOUS
  <2>. QED  BY NewIsCreated DEF Created
<1>. QED  BY <1>1, FormatAlways, PTL DEF Spec, WholeOrNotAtAll

(* The columns of a table have the names of the fields of its setup.           *)
LEMMA AskedNames ==
    ASSUME NEW setup, NEW table, Asked(setup, table)
    PROVE  ColumnNames(table) = ToSet(Names(setup.fields))
<1>. DEFINE fs == setup.fields
            cs == table.columns
<1>1. {<<f.fname, f.type>> : f \in ToSet(fs)} = {<<c.name, c.type>> : c \in ToSet(cs)}
  BY DEF Asked
<1>2. ColumnNames(table) = {cs[i].name : i \in DOMAIN cs}
  BY DEF ColumnNames
<1>3. ToSet(Names(setup.fields)) = {fs[i].fname : i \in DOMAIN fs}
  BY DEF Names, ToSet
<1>. HIDE DEF fs, cs
<1>4. ToSet(fs) = {fs[i] : i \in DOMAIN fs} /\ ToSet(cs) = {cs[i] : i \in DOMAIN cs}
  BY DEF ToSet
<1>5. \A i \in DOMAIN fs : \E j \in DOMAIN cs : cs[j].name = fs[i].fname
  <2>. TAKE i \in DOMAIN fs
  <2>1. <<fs[i].fname, fs[i].type>> \in {<<c.name, c.type>> : c \in ToSet(cs)}
    BY <1>1, <1>4
  <2>2. PICK c \in ToSet(cs) : <<fs[i].fname, fs[i].type>> = <<c.name, c.type>>
    BY <2>1
  <2>. QED  BY <1>4, <2>2
<1>6. \A j \in DOMAIN cs : \E i \in DOMAIN fs : cs[j].name = fs[i].fname
  <2>. TAKE j \in DOMAIN cs
  <2>1. <<cs[j].name, cs[j].type>> \in {<<f.fname, f.type>> : f \in ToSet(fs)}
    BY <1>1, <1>4
  <2>2. PICK f \in ToSet(fs) : <<cs[j].name, cs[j].type>> = <<f.fname, f.type>>
    BY <2>1
  <2>. QED  BY <1>4, <2>2
<1>. QED  BY <1>2, <1>3, <1>5, <1>6

(* What the server has created CheckReferences would not have refused, if the  *)
(* tables that are referred to are of the same version of the application.     *)
THEOREM CreatedIsNotRefused == Spec => RefusedIsNotCreated
<1>1. FormatInv /\ FormatInv' /\ [Next]_vars =>
          [\A t \in Tables : ~Exists(t) /\ Exists(t)' /\ OfThisVersion(catalog)
                                 => CheckReferences(t)]_vars
  <2>. SUFFICES ASSUME FormatInv, FormatInv', [Next]_vars, NEW t \in Tables,
                       ~Exists(t), Exists(t)', OfThisVersion(catalog)
                PROVE  CheckReferences(t)
    OBVIOUS
  <2>. DEFINE new == catalog'[t]
              refs == design[t].refs
  <2>1. Created(t)
    BY NewIsCreated
  <2>2. /\ catalog' = [catalog EXCEPT ![t] = new] /\ Asked(design[t], new)
        /\ \A r \in new.refs : r.col \in ColumnNames(new)
    BY <2>1 DEF Created
  <2>3. catalog \in [Tables -> TableSet]
    BY DEF FormatInv, CatalogInv
  <2>4. \A r \in new.refs : r.foreign \in ColumnNames(catalog'[r.table])
    BY DEF FormatInv, CatalogInv
  <2>5. \A u \in Tables : u # t => catalog'[u] = catalog[u]
    BY <2>2, <2>3
  <2>6. \A u \in Tables : ColumnNames(catalog'[u]) # {} => Asked(design[u], catalog'[u])
    <3>. TAKE u \in Tables
    <3>1. CASE u = t
      BY <2>2, <3>1
    <3>2. CASE u # t
      <4>1. ColumnNames(catalog[u]) # {} => Exists(u)
        BY AbsentIs DEF Exists
      <4>2. Exists(u) => Asked(design[u], catalog[u])
        BY DEF OfThisVersion
      <4>. QED  BY <2>5, <3>2, <4>1, <4>2
    <3>. QED  BY <3>1, <3>2
  <2>7. {<<r.fname, r.table, r.foreign, r.del, r.upd>> : r \in ToSet(refs)}
            = {<<r.col, r.table, r.foreign, r.del, r.upd>> : r \in new.refs}
    BY <2>2 DEF Asked
  <2>8. design[t] \in SetupSet
    BY DesignIs DEF FormatInv, OfDesign
  <2>9. \A r \in ToSet(refs) : r.table \in Tables
    <3>1. refs \in Seq(RefSet)
      BY <2>8 DEF SetupSet
    <3>. HIDE DEF refs
    <3>2. \A r \in ToSet(refs) : r \in RefSet
      BY <3>1, LenProperties, ElementOfSeq DEF ToSet
    <3>. QED  BY <3>2 DEF RefSet
  <2>. HIDE DEF new, refs
  <2>10. ASSUME NEW ref \in ToSet(refs)
         PROVE  /\ ref.fname \in ToSet(Names(design[t].fields))
                /\ ~ForeignMissing(t, ref)
    <3>1. <<ref.fname, ref.table, ref.foreign, ref.del, ref.upd>>
              \in {<<r.col, r.table, r.foreign, r.del, r.upd>> : r \in new.refs}
      BY <2>7
    <3>2. PICK r \in new.refs : /\ r.col = ref.fname /\ r.table = ref.table
                                /\ r.foreign = ref.foreign
      BY <3>1
    <3>3. ref.fname \in ToSet(Names(design[t].fields))
      BY <2>2, <3>2, AskedNames
    <3>4. ref.foreign \in ColumnNames(catalog'[ref.table])
      BY <2>4, <3>2
    <3>5. Asked(design[ref.table], catalog'[ref.table])
      BY <2>6, <2>9, <3>4
    <3>6. ref.foreign \in ToSet(Names(design[ref.table].fields))
      BY <3>4, <3>5, AskedNames
    <3>. QED  BY <3>3, <3>6 DEF ForeignMissing
  <2>11. \A i \in DOMAIN refs : refs[i] \in ToSet(refs)
    BY DEF ToSet
  <2>. QED  BY <2>10, <2>11 DEF CheckReferences, refs
<1>. QED  BY <1>1, FormatAlways, PTL DEF Spec, RefusedIsNotCreated
===============================================================================

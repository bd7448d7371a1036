--------------------------- MODULE TableRows_proofs ---------------------------
(* Proofs about TableRows: the table keeps its rules, and what is saved with   *)
(* rows of the same fields arrives in the columns of its own fields and comes  *)
(* back from them.                                                             *)
EXTENDS TableRows, SequenceInduction, FiniteSetTheorems

Server == INSTANCE SequenceInduction WITH Op <- InsertOne

-----------------------------------------------------------------------------
(* The fields of a row in the order of the table.                              *)

Ordered(F, A) ==
    FlattenSeq([i \in DOMAIN F |-> IF F[i] \in A THEN <<F[i]>> ELSE <<>>])

(* One more field of the table is added at the end, if the row has it.         *)
LEMMA OrderedAppend ==
    ASSUME NEW A, NEW S, NEW F \in Seq(S), NEW e \in S
    PROVE  Ordered(Append(F, e), A)
               = Ordered(F, A) \o (IF e \in A THEN <<e>> ELSE <<>>)
<1>. DEFINE one(x) == IF x \in A THEN <<x>> ELSE <<>>
            p == [i \in DOMAIN F |-> one(F[i])]
            q == [i \in DOMAIN Append(F, e) |-> one(Append(F, e)[i])]
            n == Len(F)
<1>1. /\ n \in Nat /\ DOMAIN F = 1 .. n /\ DOMAIN Append(F, e) = 1 .. n + 1
      /\ \A i \in 1 .. n : Append(F, e)[i] = F[i] /\ F[i] \in S
      /\ Append(F, e)[n + 1] = e
  BY LenProperties, AppendProperties
<1>2. \A x \in S : one(x) \in Seq(S)
  OBVIOUS
<1>. HIDE DEF one
<1>3. p \in Seq(Seq(S)) /\ Len(p) = n
  <2>1. p \in [1 .. n -> Seq(S)]
    BY <1>1, <1>2
  <2>. QED  BY <1>1, <2>1, SeqDef, LenProperties
<1>4. q = Append(p, one(e))
  <2>. DEFINE r == Append(p, one(e))
  <2>1. /\ DOMAIN r = 1 .. n + 1 /\ r[n + 1] = one(e)
        /\ \A i \in 1 .. n : r[i] = p[i]
        /\ r = [i \in 1 .. n + 1 |-> r[i]]
    BY <1>2, <1>3, AppendProperties
  <2>2. ASSUME NEW i \in 1 .. n + 1
        PROVE  q[i] = r[i]
    <3>1. q[i] = one(Append(F, e)[i])
      BY <1>1
    <3>2. CASE i = n + 1
      BY <1>1, <2>1, <3>1, <3>2
    <3>3. CASE i \in 1 .. n
      <4>1. p[i] = one(F[i])
        BY <1>1, <3>3
      <4>. QED  BY <1>1, <2>1, <3>1, <3>3, <4>1
    <3>. QED  BY <1>1, <3>2, <3>3
  <2>. HIDE DEF r
  <2>. QED  BY <1>1, <2>1, <2>2
<1>5. FlattenSeq(Append(p, one(e))) = FlattenSeq(p) \o one(e)
  <2>. HIDE DEF p
  <2>. QED  BY <1>2, <1>3, FlattenAppend
<1>6. Ordered(Append(F, e), A) = FlattenSeq(q) /\ Ordered(F, A) = FlattenSeq(p)
  BY DEF Ordered, one
<1>. QED  BY <1>4, <1>5, <1>6 DEF one

(* These fields are those of the table that the row has.                       *)
LEMMA OrderedIs ==
    ASSUME NEW A, NEW S, NEW F \in Seq(S)
    PROVE  /\ Ordered(F, A) \in Seq(S)
           /\ ToSet(Ordered(F, A)) = ToSet(F) \cap A
<1>. DEFINE T == {G \in Seq(S) : /\ Ordered(G, A) \in Seq(S)
                                 /\ ToSet(Ordered(G, A)) = ToSet(G) \cap A}
<1>1. <<>> \in T
  <2>1. Ordered(<<>>, A) = <<>>
    BY FlattenEmpty DEF Ordered
  <2>2. <<>> \in Seq(S) /\ ToSet(<<>>) = {}
    BY DEF ToSet
  <2>. QED  BY <2>1, <2>2
<1>2. ASSUME NEW G \in Seq(S), NEW e \in S, G \in T
      PROVE  Append(G, e) \in T
  <2>1. Append(G, e) \in Seq(S) /\ ToSet(Append(G, e)) = ToSet(G) \cup {e}
    BY AppendProperties, MembersOfAppend
  <2>2. Ordered(Append(G, e), A)
            = Ordered(G, A) \o (IF e \in A THEN <<e>> ELSE <<>>)
    BY OrderedAppend
  <2>3. Ordered(G, A) \in Seq(S) /\ ToSet(Ordered(G, A)) = ToSet(G) \cap A
    BY <1>2
  <2>4. CASE e \in A
    <3>1. <<e>> \in Seq(S) /\ ToSet(<<e>>) = {e}
      BY OneElement
    <3>2. /\ Ordered(G, A) \o <<e>> \in Seq(S)
          /\ ToSet(Ordered(G, A) \o <<e>>) = (ToSet(G) \cap A) \cup {e}
      <4>. DEFINE x == Ordered(G, A)
                  o == <<e>>
      <4>1. x \in Seq(S) /\ o \in Seq(S)
        BY <2>3, <3>1
      <4>2. ToSet(x) = ToSet(G) \cap A /\ ToSet(o) = {e}
        BY <2>3, <3>1
      <4>. HIDE DEF x, o
      <4>3. x \o o \in Seq(S) /\ ToSet(x \o o) = ToSet(x) \cup ToSet(o)
        BY <4>1, MembersOfConcat, Concatenates
      <4>4. x \o o \in Seq(S) /\ ToSet(x \o o) = (ToSet(G) \cap A) \cup {e}
        BY <4>2, <4>3
      <4>. QED  BY <4>4 DEF x, o
    <3>. QED  BY <2>1, <2>2, <2>4, <3>2
  <2>5. CASE e \notin A
    <3>1. Ordered(G, A) \o <<>> = Ordered(G, A)
      BY <2>3, ConcatEmptySeq
    <3>. QED  BY <2>1, <2>2, <2>3, <2>5, <3>1
  <2>. QED  BY <2>4, <2>5
<1>3. Seq(S) \subseteq T
  <2>. HIDE DEF T
  <2>. QED  BY <1>1, <1>2, AppendInduction
<1>. QED  BY <1>3

-----------------------------------------------------------------------------
(* Rows of the table.                                                          *)

Rows == [Names -> Nat \cup {NULL}]
Acts == {"not_set", "do_nothing", "do_update"}

(* The rules that a table keeps.                                               *)
Allowed(r) ==
    /\ r[Id] \in Nat
    /\ \A f \in NotNull : r[f] # NULL
Ruled(rows) ==
    /\ IsFiniteSet(rows) /\ rows \subseteq Rows
    /\ \A r \in rows : Allowed(r) /\ ~Clashes(r, rows \ {r})

(* A row that clashes with none of them can be added.                          *)
LEMMA OneMoreRow ==
    ASSUME NEW rows, Ruled(rows), NEW row \in Rows, Allowed(row), ~Clashes(row, rows)
    PROVE  Ruled(rows \cup {row})
<1>1. IsFiniteSet(rows \cup {row}) /\ rows \cup {row} \subseteq Rows
  BY FS_AddElement DEF Ruled
<1>2. ASSUME NEW r \in rows \cup {row}
      PROVE  Allowed(r) /\ ~Clashes(r, (rows \cup {row}) \ {r})
  <2>1. Allowed(r)
    BY DEF Ruled
  <2>2. ASSUME Clashes(r, (rows \cup {row}) \ {r})
        PROVE  FALSE
    <3>1. PICK o \in (rows \cup {row}) \ {r} :
              \E u \in Uniques : \A f \in u : o[f] = r[f] /\ o[f] # NULL
      BY <2>2 DEF Clashes
    <3>2. CASE o \in rows /\ r \in rows
      <4>1. o \in rows \ {r}
        BY <3>1, <3>2
      <4>2. Clashes(r, rows \ {r})
        BY <3>1, <4>1 DEF Clashes
      <4>. QED  BY <3>2, <4>2 DEF Ruled
    <3>3. CASE o = row /\ r \in rows
      <4>1. \E u \in Uniques : \A f \in u : r[f] = row[f] /\ r[f] # NULL
        BY <3>1, <3>3
      <4>. QED  BY <3>3, <4>1 DEF Clashes
    <3>4. CASE r = row
      BY <3>1, <3>4 DEF Clashes
    <3>. QED  BY <3>1, <3>2, <3>3, <3>4
  <2>. QED  BY <2>1, <2>2
<1>. QED  BY <1>1, <1>2 DEF Ruled

(* What stands in the row that a server makes of a tuple.                      *)
OfTuple(row, columns, tuple, number) ==
    /\ row \in Rows
    /\ \A f \in ToSet(columns) : \E i \in 1 .. Len(columns) :
           columns[i] = f /\ row[f] = tuple[i]
    /\ \A f \in Names \ ToSet(columns) : row[f] = IF f = Id THEN number ELSE NULL

(* It is made so.                                                              *)
LEMMA NewRowIs ==
    ASSUME NEW columns \in Seq(Names), NEW tuple \in Seq(Nat), Len(tuple) = Len(columns),
           NEW number \in Nat
    PROVE  OfTuple(NewRow(columns, tuple, number), columns, tuple, number)
<1>. DEFINE row == NewRow(columns, tuple, number)
            n == Len(columns)
<1>1. /\ n \in Nat /\ DOMAIN columns = 1 .. n
      /\ \A i \in 1 .. n : columns[i] \in Names /\ tuple[i] \in Nat
  BY LenProperties
<1>2. ASSUME NEW f \in ToSet(columns)
      PROVE  f \in Names /\ \E i \in 1 .. n : columns[i] = f /\ row[f] = tuple[i]
  <2>. DEFINE j == CHOOSE i \in DOMAIN columns : columns[i] = f
  <2>1. \E i \in DOMAIN columns : columns[i] = f
    BY DEF ToSet
  <2>2. j \in DOMAIN columns /\ columns[j] = f
    BY <2>1
  <2>3. f \in Names
    BY <1>1, <2>2
  <2>4. row[f] = tuple[j]
    BY <2>1, <2>3 DEF NewRow
  <2>. QED  BY <1>1, <2>2, <2>3, <2>4
<1>3. ASSUME NEW f \in Names \ ToSet(columns)
      PROVE  row[f] = IF f = Id THEN number ELSE NULL
  BY DEF NewRow, ToSet
<1>4. row \in Rows
  <2>1. \A f \in Names : row[f] \in Nat \cup {NULL}
    BY <1>1, <1>2, <1>3
  <2>2. row = [f \in Names |-> row[f]]
    BY DEF NewRow
  <2>. HIDE DEF row
  <2>. QED  BY <2>1, <2>2 DEF Rows
<1>. QED  BY <1>2, <1>3, <1>4 DEF OfTuple

-----------------------------------------------------------------------------
(* An INSERT.                                                                  *)

States == [columns : Seq(Names), act : Acts, ok : BOOLEAN, table : SUBSET Rows,
           serial : Nat, ids : Seq(Nat)]

(* A tuple that fits the columns; one that gives no number that is none to the *)
(* id.                                                                         *)
Proper(columns, t) == Len(t) = Len(columns)
Positive(columns, t) == \A i \in 1 .. Len(columns) : columns[i] = Id => t[i] > 0

(* What the server has after the tuples p, if it had b before: rows that keep  *)
(* the rules, and have a number where the tuples do; if no tuple has been left *)
(* out, the row of each under the id that it returns.                          *)
Stored(rows, columns, id, t) ==
    \E r \in rows : r[Id] = id /\ \E n \in Nat : r = NewRow(columns, t, n)
Numbered(s, b, p) ==
    (\A j \in 1 .. Len(p) : Positive(b.columns, p[j])) =>
        \A r \in s.table \ b.table : r[Id] > 0
Reached(s, b, p) ==
    /\ s \in States /\ s.columns = b.columns /\ s.act = b.act
    /\ s.ok => b.ok
    /\ Ruled(s.table) /\ b.table \subseteq s.table /\ Numbered(s, b, p)
    /\ b.serial <= s.serial
    /\ Len(s.ids) <= Len(p)
    /\ s.ok /\ Len(s.ids) = Len(p) =>
           \A j \in 1 .. Len(p) : Stored(s.table \ b.table, b.columns, s.ids[j], p[j])

(* One tuple more.                                                             *)
LEMMA InsertStep ==
    ASSUME NEW b \in States, b.serial > 0, NEW s, NEW p \in Seq(Seq(Nat)), Reached(s, b, p),
           NEW t \in Seq(Nat), b.ok => Proper(b.columns, t)
    PROVE  Reached(InsertOne(s, t), b, Append(p, t))
<1>. DEFINE row == NewRow(s.columns, t, s.serial)
            next == IF Id \in ToSet(s.columns) THEN s.serial ELSE s.serial + 1
            q == Append(p, t)
<1>1. /\ s \in States /\ s.columns = b.columns /\ s.act = b.act /\ (s.ok => b.ok)
      /\ Ruled(s.table) /\ b.table \subseteq s.table
      /\ b.serial <= s.serial /\ Len(s.ids) <= Len(p)
  BY DEF Reached
<1>2. /\ s.columns \in Seq(Names) /\ s.act \in Acts /\ s.ok \in BOOLEAN
      /\ s.table \in SUBSET Rows /\ s.serial \in Nat /\ s.ids \in Seq(Nat)
      /\ b.serial \in Nat
  BY <1>1 DEF States
<1>3. /\ Len(p) \in Nat /\ q \in Seq(Seq(Nat)) /\ Len(q) = Len(p) + 1
      /\ q[Len(p) + 1] = t /\ \A j \in 1 .. Len(p) : q[j] = p[j]
  BY LenProperties, AppendProperties
<1>4. Len(s.ids) \in Nat
  BY <1>2, LenProperties
<1>5. next \in Nat /\ s.serial <= next /\ next <= s.serial + 1
  BY <1>2
<1>6. (\A j \in 1 .. Len(q) : Positive(b.columns, q[j])) =>
          Positive(b.columns, t) /\ \A j \in 1 .. Len(p) : Positive(b.columns, p[j])
  <2>. HIDE DEF q
  <2>1. \A j \in 1 .. Len(p) : j \in 1 .. Len(q)
    BY <1>3
  <2>2. Len(p) + 1 \in 1 .. Len(q)
    BY <1>3
  <2>. QED  BY <1>3, <2>1, <2>2
<1>7. Numbered(s, b, p)
  BY DEF Reached
<1>8. CASE ~s.ok
  <2>1. InsertOne(s, t) = s
    BY <1>8 DEF InsertOne
  <2>. HIDE DEF q
  <2>2. Len(s.ids) <= Len(q)
    BY <1>1, <1>2, <1>3, <1>4
  <2>3. s.ok = FALSE
    BY <1>2, <1>8
  <2>4. Numbered(s, b, q)
    BY <1>6, <1>7 DEF Numbered
  <2>5. Reached(s, b, q)
    BY <1>1, <1>2, <2>2, <2>3, <2>4 DEF Reached
  <2>. QED  BY <2>1, <2>5 DEF q
<1>9. ASSUME NEW ok \in BOOLEAN, s.ok,
             InsertOne(s, t) = [s EXCEPT !.ok = ok, !.serial = next]
      PROVE  Reached(InsertOne(s, t), b, q)
  <2>. DEFINE z == [s EXCEPT !.ok = ok, !.serial = next]
  <2>. HIDE DEF next, q
  <2>1. /\ z \in States /\ z.columns = s.columns /\ z.act = s.act /\ z.table = s.table
        /\ z.serial = next /\ z.ids = s.ids
    BY <1>1, <1>5 DEF States
  <2>2. b.serial <= z.serial /\ Len(z.ids) < Len(q)
    BY <1>1, <1>2, <1>3, <1>4, <1>5, <2>1
  <2>. HIDE DEF z
  <2>3. Len(z.ids) # Len(q) /\ Len(z.ids) <= Len(q)
    BY <1>3, <1>4, <2>1, <2>2
  <2>4. Numbered(z, b, q)
    BY <1>6, <1>7, <2>1 DEF Numbered
  <2>5. Reached(z, b, q)
    BY <1>1, <1>9, <2>1, <2>2, <2>3, <2>4 DEF Reached
  <2>. QED  BY <1>9, <2>5 DEF z
<1>10. CASE s.ok /\ (\A f \in NotNull : row[f] # NULL) /\ ~Clashes(row, s.table)
  <2>. DEFINE z == [s EXCEPT !.table = @ \cup {row}, !.serial = next,
                             !.ids = Append(@, row[Id])]
  <2>1. InsertOne(s, t) = z
    BY <1>10 DEF InsertOne
  <2>2. Len(t) = Len(s.columns)
    BY <1>1, <1>10 DEF Proper
  <2>3. /\ row \in Rows
        /\ \A f \in ToSet(s.columns) : \E i \in 1 .. Len(s.columns) :
               s.columns[i] = f /\ row[f] = t[i]
        /\ \A f \in Names \ ToSet(s.columns) :
               row[f] = IF f = Id THEN s.serial ELSE NULL
    <3>. DEFINE c == s.columns
                k == s.serial
    <3>1. c \in Seq(Names) /\ k \in Nat /\ Len(t) = Len(c)
      BY <1>2, <2>2
    <3>2. row = NewRow(c, t, k)
      OBVIOUS
    <3>. HIDE DEF c, k, row
    <3>3. OfTuple(row, c, t, k)
      BY <3>1, <3>2, NewRowIs
    <3>. QED  BY <3>3 DEF c, k, OfTuple
  <2>. HIDE DEF row
  <2>4. Allowed(row) /\ (Positive(b.columns, t) => row[Id] > 0)
    <3>1. CASE Id \in ToSet(s.columns)
      <4>1. PICK i \in 1 .. Len(s.columns) : s.columns[i] = Id /\ row[Id] = t[i]
        BY <2>3, <3>1
      <4>2. t[i] \in Nat
        BY <2>2, LenProperties
      <4>. QED  BY <1>1, <1>10, <4>1, <4>2 DEF Allowed, Positive
    <3>2. CASE Id \notin ToSet(s.columns)
      <4>1. row[Id] = s.serial /\ s.serial > 0
        BY <1>1, <1>2, <2>3, <3>2, FieldsAssumption
      <4>. QED  BY <1>2, <1>10, <4>1 DEF Allowed
    <3>. QED  BY <3>1, <3>2
  <2>5. row \notin s.table
    <3>1. row[Id] # NULL
      BY <2>4 DEF Allowed, NULL
    <3>. QED  BY <1>10, <3>1, FieldsAssumption DEF Clashes
  <2>6. Ruled(s.table \cup {row})
    BY <1>1, <1>10, <2>3, <2>4, OneMoreRow
  <2>. DEFINE ids == Append(s.ids, row[Id])
  <2>7. /\ ids \in Seq(Nat) /\ Len(ids) = Len(s.ids) + 1
        /\ ids[Len(s.ids) + 1] = row[Id] /\ \A j \in 1 .. Len(s.ids) : ids[j] = s.ids[j]
    BY <1>2, <2>4, AppendProperties DEF Allowed
  <2>. HIDE DEF next, q, ids
  <2>8. /\ z \in States /\ z.columns = s.columns /\ z.act = s.act /\ z.ok = s.ok
        /\ z.table = s.table \cup {row} /\ z.serial = next /\ z.ids = ids
    <3>1. s.table \cup {row} \in SUBSET Rows
      BY <1>2, <2>3
    <3>2. z = [s EXCEPT !.table = s.table \cup {row}, !.serial = next, !.ids = ids]
      BY DEF ids
    <3>. QED  BY <1>1, <1>5, <2>7, <3>1, <3>2 DEF States
  <2>. HIDE DEF z
  <2>9. /\ b.serial <= z.serial /\ Len(z.ids) <= Len(q)
        /\ (Len(z.ids) = Len(q) => Len(s.ids) = Len(p))
    <3>1. Len(q) \in Nat /\ Len(ids) \in Nat /\ z.serial = next /\ Len(z.ids) = Len(ids)
      BY <1>3, <1>4, <2>7, <2>8
    <3>2. Len(ids) = Len(s.ids) + 1 /\ Len(q) = Len(p) + 1
      BY <1>3, <2>7
    <3>3. b.serial <= next
      BY <1>1, <1>2, <1>3, <1>5, <3>2
    <3>4. Len(ids) <= Len(q) /\ (Len(ids) = Len(q) => Len(s.ids) = Len(p))
      BY <1>1, <1>3, <1>4, <3>2
    <3>. QED  BY <3>1, <3>3, <3>4
  <2>10. ASSUME Len(s.ids) = Len(p), NEW j \in 1 .. Len(q)
        PROVE  Stored(z.table \ b.table, b.columns, z.ids[j], q[j])
    <3>1. CASE j \in 1 .. Len(p)
      <4>1. Stored(s.table \ b.table, b.columns, s.ids[j], p[j])
        BY <1>10, <2>10, <3>1 DEF Reached
      <4>2. z.ids[j] = s.ids[j] /\ q[j] = p[j]
        BY <1>3, <2>7, <2>8, <2>10, <3>1
      <4>. QED  BY <2>8, <4>1, <4>2 DEF Stored
    <3>2. CASE j = Len(p) + 1
      <4>1. z.ids[j] = row[Id] /\ q[j] = t
        BY <1>3, <2>7, <2>8, <2>10, <3>2
      <4>2. row \in z.table \ b.table /\ row = NewRow(b.columns, t, s.serial)
        BY <1>1, <2>8, <2>5 DEF row
      <4>. QED  BY <1>2, <4>1, <4>2 DEF Stored
    <3>. QED  BY <1>3, <3>1, <3>2
  <2>11. Numbered(z, b, q)
    BY <1>6, <1>7, <2>4, <2>8 DEF Numbered
  <2>12. Reached(z, b, q)
    BY <1>1, <1>10, <2>6, <2>8, <2>9, <2>10, <2>11 DEF Reached
  <2>. QED  BY <2>1, <2>12 DEF q
<1>11. CASE s.ok /\ ~((\A f \in NotNull : row[f] # NULL) /\ ~Clashes(row, s.table))
  <2>1. CASE \E f \in NotNull : row[f] = NULL
    <3>1. InsertOne(s, t) = [s EXCEPT !.ok = FALSE, !.serial = next]
      BY <1>11, <2>1 DEF InsertOne
    <3>. QED  BY <1>9, <1>11, <3>1
  <2>2. CASE (\A f \in NotNull : row[f] # NULL) /\ Clashes(row, s.table)
    <3>1. InsertOne(s, t) = [s EXCEPT !.ok = (s.act = "do_nothing"), !.serial = next]
      BY <1>11, <2>2 DEF InsertOne
    <3>. QED  BY <1>9, <1>11, <3>1
  <2>. QED  BY <1>11, <2>1, <2>2
<1>. QED  BY <1>2, <1>8, <1>10, <1>11

(* The server folds the tuples.                                                *)
LEMMA InsertedIs ==
    ASSUME NEW b \in States, b.serial > 0, Ruled(b.table), b.ids = <<>>,
           NEW p \in Seq(Seq(Nat)),
           b.ok => \A j \in 1 .. Len(p) : Proper(b.columns, p[j])
    PROVE  Reached(FoldLeft(InsertOne, b, p), b, p)
<1>. DEFINE Fits(q) == b.ok => \A j \in 1 .. Len(q) : Proper(b.columns, q[j])
            T == {q \in Seq(Seq(Nat)) : Fits(q) => Reached(Server!Fold(b, q), b, q)}
<1>1. FoldLeft(InsertOne, b, p) = Server!Fold(b, p)
  BY DEF FoldLeft, MapThenFoldSet, Max, Server!Fold, Server!Greatest
<1>2. <<>> \in T
  <2>1. Server!Fold(b, <<>>) = b
    BY Server!FoldEmpty
  <2>2. <<>> \in Seq(Seq(Nat)) /\ Len(<<>>) = 0
    OBVIOUS
  <2>3. b.serial \in Nat
    BY DEF States
  <2>4. Reached(b, b, <<>>)
    BY <2>2, <2>3 DEF Reached, Numbered
  <2>. QED  BY <2>1, <2>2, <2>4
<1>3. ASSUME NEW q \in Seq(Seq(Nat)), NEW t \in Seq(Nat), q \in T
      PROVE  Append(q, t) \in T
  <2>1. /\ Len(q) \in Nat /\ Append(q, t) \in Seq(Seq(Nat))
        /\ Len(Append(q, t)) = Len(q) + 1
        /\ Append(q, t)[Len(q) + 1] = t /\ \A j \in 1 .. Len(q) : Append(q, t)[j] = q[j]
    BY LenProperties, AppendProperties
  <2>. SUFFICES ASSUME Fits(Append(q, t))
                PROVE  Reached(Server!Fold(b, Append(q, t)), b, Append(q, t))
    BY <2>1
  <2>2. b.ok => Proper(b.columns, t)
    BY <2>1
  <2>3. Fits(q)
    <3>. SUFFICES ASSUME b.ok, NEW j \in 1 .. Len(q)
                  PROVE  Proper(b.columns, q[j])
      OBVIOUS
    <3>1. j \in 1 .. Len(Append(q, t)) /\ Append(q, t)[j] = q[j]
      BY <2>1
    <3>2. Proper(b.columns, Append(q, t)[j])
      BY <3>1
    <3>. QED  BY <3>1, <3>2
  <2>4. Reached(Server!Fold(b, q), b, q)
    BY <1>3, <2>3
  <2>5. Server!Fold(b, Append(q, t)) = InsertOne(Server!Fold(b, q), t)
    BY Server!FoldAppend
  <2>6. Reached(InsertOne(Server!Fold(b, q), t), b, Append(q, t))
    BY <2>2, <2>4, InsertStep
  <2>. QED  BY <2>5, <2>6
<1>4. p \in T
  <2>1. Seq(Seq(Nat)) \subseteq T
    <3>. HIDE DEF T
    <3>. QED  BY <1>2, <1>3, AppendInduction
  <2>. QED  BY <2>1
<1>. QED  BY <1>1, <1>4

-----------------------------------------------------------------------------
(* The statement of some structs.                                              *)

Given == [initialized : SUBSET Names, value : [Names -> Nat]]

(* Structs are given as such records.                                          *)
LEMMA StructsAreGiven == Structs \subseteq Given
<1>. SUFFICES ASSUME NEW s \in Structs
              PROVE  s \in Given
  OBVIOUS
<1>1. PICK set \in SUBSET Names :
          s \in {Struct(set, v) : v \in {w \in [set -> UNION {Values[f] : f \in set}] :
                                            \A f \in set : w[f] \in Values[f]}}
  BY DEF Structs
<1>2. PICK v \in [set -> UNION {Values[f] : f \in set}] :
          (\A f \in set : v[f] \in Values[f]) /\ s = Struct(set, v)
  BY <1>1
<1>3. \A f \in set : v[f] \in Nat
  BY <1>2, ValuesAssumption
<1>. QED  BY <1>2, <1>3 DEF Struct, Given, None

(* The fields of the row of a struct.                                          *)
RowFields(s) == {f \in s.initialized : f \in Optional => s.value[f] > 0}

(* They are in the statement in the order of the table.                        *)
LEMMA InOrderIs ==
    ASSUME NEW s \in Given
    PROVE  /\ InOrder(setInsertValues(s)) = Ordered(Fields, RowFields(s))
           /\ InOrder(setInsertValues(s)) \in Seq(Names)
           /\ ToSet(InOrder(setInsertValues(s))) = RowFields(s)
           /\ \A f \in RowFields(s) : setInsertValues(s)[f] = s.value[f]
<1>1. DOMAIN setInsertValues(s) = RowFields(s)
      /\ \A f \in RowFields(s) : setInsertValues(s)[f] = s.value[f]
  BY DEF setInsertValues, RowFields
<1>2. InOrder(setInsertValues(s)) = Ordered(Fields, RowFields(s))
  BY <1>1 DEF InOrder, Ordered
<1>3. RowFields(s) \subseteq Names
  BY DEF RowFields, Given
<1>4. /\ Ordered(Fields, RowFields(s)) \in Seq(Names)
      /\ ToSet(Ordered(Fields, RowFields(s))) = Names \cap RowFields(s)
  BY FieldsAssumption, OrderedIs DEF Names
<1>. QED  BY <1>1, <1>2, <1>3, <1>4

(* Rows of structs with the same flags that agree on the optional fields have  *)
(* the same fields.                                                            *)
LEMMA SameFields ==
    ASSUME NEW s, NEW u, s.initialized = u.initialized,
           \A f \in Optional : s.value[f] > 0 <=> u.value[f] > 0
    PROVE  RowFields(s) = RowFields(u)
BY DEF RowFields

(* The values of a row, one for each of its fields.                            *)
Columns(s) == InOrder(setInsertValues(s))
TupleIn(s) == [i \in DOMAIN Columns(s) |-> setInsertValues(s)[Columns(s)[i]]]

(* They are the struct's.                                                      *)
LEMMA TupleIs ==
    ASSUME NEW s \in Given
    PROVE  /\ TupleIn(s) \in Seq(Nat) /\ Columns(s) \in Seq(Names)
           /\ Proper(Columns(s), TupleIn(s)) /\ Positive(Columns(s), TupleIn(s))
           /\ \A i \in 1 .. Len(Columns(s)) : TupleIn(s)[i] = s.value[Columns(s)[i]]
<1>. DEFINE c == Columns(s)
            n == Len(c)
<1>1. /\ c \in Seq(Names) /\ ToSet(c) = RowFields(s)
      /\ \A f \in RowFields(s) : setInsertValues(s)[f] = s.value[f]
  BY InOrderIs DEF Columns
<1>. HIDE DEF c
<1>2. n \in Nat /\ DOMAIN c = 1 .. n
  BY <1>1, LenProperties
<1>3. ASSUME NEW i \in 1 .. n
      PROVE  /\ c[i] \in RowFields(s) /\ TupleIn(s)[i] = s.value[c[i]]
             /\ s.value[c[i]] \in Nat
  <2>1. c[i] \in RowFields(s)
    BY <1>1, <1>2 DEF ToSet
  <2>2. TupleIn(s)[i] = setInsertValues(s)[c[i]]
    BY <1>2 DEF TupleIn, c
  <2>3. c[i] \in Names /\ s.value \in [Names -> Nat]
    BY <1>1, <1>2 DEF Given
  <2>. QED  BY <1>1, <2>1, <2>2, <2>3
<1>4. TupleIn(s) \in [1 .. n -> Nat]
  <2>1. TupleIn(s) = [i \in 1 .. n |-> TupleIn(s)[i]]
    BY <1>2 DEF TupleIn, c
  <2>. QED  BY <1>3, <2>1
<1>5. TupleIn(s) \in Seq(Nat) /\ Len(TupleIn(s)) = n
  BY <1>2, <1>4, SeqDef, LenProperties
<1>6. ASSUME NEW i \in 1 .. n, c[i] = Id
      PROVE  TupleIn(s)[i] > 0
  BY <1>3, <1>6, FieldsAssumption DEF RowFields
<1>7. Proper(c, TupleIn(s)) /\ Positive(c, TupleIn(s))
  BY <1>5, <1>6 DEF Proper, Positive
<1>. QED  BY <1>1, <1>3, <1>5, <1>7 DEF c

(* What an INSERT says of the structs: for each of them a tuple, and, if they  *)
(* agree, one that the server makes a row of with the values of this struct.   *)
Says(st, structs) ==
    /\ st.columns \in Seq(Names)
    /\ st.tuples \in Seq(Seq(Nat)) /\ Len(st.tuples) = Len(structs)
    /\ Parses(st) => \A k \in 1 .. Len(structs) : Proper(st.columns, st.tuples[k])
    /\ Agree(structs) =>
           \A k \in 1 .. Len(structs) :
               /\ Positive(st.columns, st.tuples[k])
               /\ \A n \in Nat : Holds(NewRow(st.columns, st.tuples[k], n), structs[k])

(* A row holds what its struct does.                                           *)
LEMMA RowHolds ==
    ASSUME NEW s \in Given, NEW n \in Nat
    PROVE  Holds(NewRow(Columns(s), TupleIn(s), n), s)
<1>. DEFINE c == Columns(s)
            t == TupleIn(s)
            row == NewRow(c, t, n)
<1>1. /\ t \in Seq(Nat) /\ c \in Seq(Names) /\ Len(t) = Len(c)
      /\ \A i \in 1 .. Len(c) : t[i] = s.value[c[i]]
  BY TupleIs DEF Proper
<1>2. ToSet(c) = RowFields(s)
  BY InOrderIs DEF Columns
<1>. HIDE DEF c, t
<1>3. OfTuple(row, c, t, n)
  BY <1>1, NewRowIs
<1>. HIDE DEF row
<1>4. ASSUME NEW f \in s.initialized, s.value[f] > 0
      PROVE  row[f] = s.value[f]
  <2>1. f \in ToSet(c)
    BY <1>2, <1>4 DEF RowFields
  <2>2. PICK i \in 1 .. Len(c) : c[i] = f /\ row[f] = t[i]
    BY <1>3, <2>1 DEF OfTuple
  <2>. QED  BY <1>1, <2>2
<1>5. Holds(row, s)
  BY <1>4 DEF Holds
<1>. QED  BY <1>5 DEF row, c, t

(* The statement of structs without a conflict says of them what it should.    *)
LEMMA StatementIs ==
    ASSUME NEW structs \in Seq(Given), structs # <<>>, ~haveConflict(structs), NEW act
    PROVE  Says(Statement(values_vec(structs), act), structs)
<1>. DEFINE st == Statement(values_vec(structs), act)
            m == Len(structs)
<1>1. /\ m \in Nat \ {0} /\ DOMAIN structs = 1 .. m
      /\ \A k \in 1 .. m : structs[k] \in Given
  BY LenProperties, EmptySeq
<1>2. /\ st.columns = Columns(structs[1])
      /\ st.tuples = [k \in 1 .. m |-> TupleIn(structs[k])]
  BY <1>1 DEF Statement, values_vec, Columns, TupleIn
<1>. HIDE DEF st
<1>3. st.columns \in Seq(Names)
  BY <1>1, <1>2, TupleIs
<1>4. st.tuples \in Seq(Seq(Nat)) /\ Len(st.tuples) = m /\ DOMAIN st.tuples = 1 .. m
  <2>1. \A k \in 1 .. m : TupleIn(structs[k]) \in Seq(Nat)
    BY <1>1, TupleIs
  <2>. QED  BY <1>1, <1>2, <2>1, SeqDef, LenProperties
<1>5. ASSUME Parses(st), NEW k \in 1 .. m
      PROVE  Proper(st.columns, st.tuples[k])
  BY <1>4, <1>5 DEF Parses, Proper
<1>6. ASSUME Agree(structs), NEW k \in 1 .. m
      PROVE  /\ Positive(st.columns, st.tuples[k])
             /\ \A n \in Nat : Holds(NewRow(st.columns, st.tuples[k], n), structs[k])
  <2>1. /\ structs[1] \in Given /\ structs[k] \in Given
        /\ structs[k].initialized = structs[1].initialized
    BY <1>1 DEF haveConflict
  <2>2. \A f \in Optional : structs[k].value[f] > 0 <=> structs[1].value[f] > 0
    BY <1>1, <1>6 DEF Agree
  <2>3. RowFields(structs[k]) = RowFields(structs[1])
    BY <2>1, <2>2, SameFields
  <2>4. Columns(structs[k]) = Columns(structs[1])
    BY <2>1, <2>3, InOrderIs DEF Columns
  <2>5. st.tuples[k] = TupleIn(structs[k]) /\ st.columns = Columns(structs[k])
    BY <1>2, <2>4
  <2>. QED  BY <2>1, <2>5, TupleIs, RowHolds
<1>7. Says(st, structs)
  BY <1>3, <1>4, <1>5, <1>6 DEF Says
<1>. QED  BY <1>7 DEF st

-----------------------------------------------------------------------------
(* The invariant.                                                              *)

(* A struct that was read has no flags.                                        *)
Read == [initialized : {{}}, value : [Names -> Nat]]

RowsInv ==
    /\ Ruled(table) /\ serial \in 1 .. MaxSerial
    /\ mixed \subseteq table /\ \A r \in table \ mixed : r[Id] > 0
    /\ StoredAsGiven /\ \A e \in ledger : e[2] \in Given
    /\ read \in Seq(Read)
    /\ answer.call = "select" =>
           \A r \in table : \E k \in DOMAIN read : read[k] = SetSelectData(r)

(* What an INSERT makes of the table.                                          *)
LEMMA InsertedRows ==
    ASSUME RowsInv, NEW structs \in Seq(Given), structs # <<>>,
           ~haveConflict(structs), NEW act \in Acts
    PROVE  LET st == Statement(values_vec(structs), act)
               s == Inserted(st)
           IN  /\ Ruled(s.table) /\ table \subseteq s.table
               /\ s.serial \in Nat /\ serial <= s.serial
               /\ Agree(structs) => \A r \in s.table \ table : r[Id] > 0
               /\ s.ok /\ Len(s.ids) = Len(structs) =>
                      \A k \in DOMAIN structs : \E r \in s.table \ table :
                          r[Id] = s.ids[k] /\ (Agree(structs) => Holds(r, structs[k]))
<1>. DEFINE st == Statement(values_vec(structs), act)
            b == Begun(st)
            s == Inserted(st)
            m == Len(structs)
<1>1. Says(st, structs) /\ st.act = act
  BY StatementIs DEF Statement
<1>. HIDE DEF st
<1>2. /\ st.columns \in Seq(Names) /\ st.tuples \in Seq(Seq(Nat)) /\ Len(st.tuples) = m
      /\ m \in Nat /\ DOMAIN structs = 1 .. m
  BY <1>1, LenProperties DEF Says
<1>3. /\ b \in States /\ b.columns = st.columns /\ b.table = table /\ b.ids = <<>>
      /\ b.serial = serial /\ b.ok = Parses(st)
  <2>1. /\ serial \in Nat /\ table \in SUBSET Rows /\ <<>> \in Seq(Nat)
        /\ Parses(st) \in BOOLEAN
    BY ValuesAssumption DEF RowsInv, Ruled, Parses
  <2>. QED  BY <1>1, <1>2, <2>1 DEF Begun, States
<1>4. b.serial > 0 /\ Ruled(b.table)
  BY <1>3, ValuesAssumption DEF RowsInv
<1>5. b.ok => \A j \in 1 .. Len(st.tuples) : Proper(b.columns, st.tuples[j])
  BY <1>1, <1>2, <1>3 DEF Says
<1>. HIDE DEF b
<1>6. Reached(s, b, st.tuples)
  <2>1. s = FoldLeft(InsertOne, b, st.tuples)
    BY DEF Inserted, b
  <2>. QED  BY <1>2, <1>3, <1>4, <1>5, <2>1, InsertedIs
<1>. HIDE DEF s
<1>7. /\ Ruled(s.table) /\ table \subseteq s.table
      /\ s.serial \in Nat /\ serial <= s.serial
  BY <1>2, <1>3, <1>6 DEF Reached, States
<1>8. ASSUME Agree(structs)
      PROVE  \A r \in s.table \ table : r[Id] > 0
  <2>1. \A j \in 1 .. Len(st.tuples) : Positive(b.columns, st.tuples[j])
    BY <1>1, <1>2, <1>3, <1>8 DEF Says
  <2>2. Numbered(s, b, st.tuples)
    BY <1>6 DEF Reached
  <2>. QED  BY <1>3, <2>1, <2>2 DEF Numbered
<1>9. ASSUME s.ok, Len(s.ids) = m, NEW k \in DOMAIN structs
      PROVE  \E r \in s.table \ table :
                 r[Id] = s.ids[k] /\ (Agree(structs) => Holds(r, structs[k]))
  <2>1. Stored(s.table \ table, st.columns, s.ids[k], st.tuples[k])
    BY <1>2, <1>3, <1>6, <1>9 DEF Reached
  <2>2. PICK r \in s.table \ table : r[Id] = s.ids[k]
                             /\ \E n \in Nat : r = NewRow(st.columns, st.tuples[k], n)
    BY <2>1 DEF Stored
  <2>3. Agree(structs) => Holds(r, structs[k])
    BY <1>1, <1>2, <2>2 DEF Says
  <2>. QED  BY <2>2, <2>3
<1>. QED  BY <1>7, <1>8, <1>9 DEF s, st

(* A set as a sequence: every element has a place.                             *)
LEMMA SetAsSequence ==
    ASSUME NEW X, IsFiniteSet(X)
    PROVE  /\ SetToSeq(X) \in Seq(X)
           /\ \A x \in X : \E k \in DOMAIN SetToSeq(X) : SetToSeq(X)[k] = x
<1>. DEFINE n == Cardinality(X)
            q == SetToSeq(X)
<1>1. n \in Nat /\ ExistsBijection(1 .. n, X)
  BY FS_CardinalityType
<1>2. \E f \in [1 .. n -> X] : IsInjective(f)
  BY <1>1 DEF ExistsBijection, Bijection, Injection
<1>3. q \in [1 .. n -> X] /\ IsInjective(q)
  BY <1>2 DEF SetToSeq
<1>. HIDE DEF q
<1>4. q \in Injection(1 .. n, X)
  BY <1>3 DEF Injection
<1>5. IsFiniteSet(1 .. n) /\ Cardinality(1 .. n) = n
  BY <1>1, FS_Interval
<1>6. q \in Surjection(1 .. n, X)
  <2>. HIDE DEF n
  <2>1. Cardinality(1 .. n) = Cardinality(X)
    BY <1>5 DEF n
  <2>. QED  BY <1>4, <2>1, FS_Injection
<1>7. \A x \in X : \E k \in 1 .. n : q[k] = x
  BY <1>6 DEF Surjection
<1>. QED  BY <1>1, <1>3, <1>7, SeqDef DEF q

(* The struct of a row has its values.                                         *)
LEMMA SelectDataIs ==
    ASSUME NEW r \in Rows
    PROVE  /\ SetSelectData(r) \in Read
           /\ \A f \in Names : r[f] # NULL => SetSelectData(r).value[f] = r[f]
BY DEF SetSelectData, Member, Read, Rows, None

-----------------------------------------------------------------------------
(* The calls.                                                                  *)

(* A call that saves something.                                                *)
LEMMA SaveStep ==
    ASSUME RowsInv, NEW structs \in Seq(Given), NEW act \in Acts, Save(structs, act)
    PROVE  RowsInv'
<1>. DEFINE st == Statement(values_vec(structs), act)
            s == Inserted(st)
<1>1. answer'.call # "select" /\ read' = <<>> /\ serial' <= MaxSerial
  BY DEF Save, Answer
<1>2. read' \in Seq(Read)
  BY <1>1
<1>3. /\ Ruled(table) /\ serial \in 1 .. MaxSerial /\ StoredAsGiven
      /\ \A e \in ledger : e[2] \in Given
      /\ mixed \subseteq table /\ \A r \in table \ mixed : r[Id] > 0
  BY DEF RowsInv
<1>4. CASE NothingToSend(structs)
  <2>1. UNCHANGED <<table, ledger, mixed, serial>>
    BY <1>4 DEF Save
  <2>. QED  BY <1>1, <1>2, <1>3, <2>1 DEF RowsInv, StoredAsGiven, Ruled
<1>5. CASE ~NothingToSend(structs)
  <2>1. structs # <<>> /\ ~haveConflict(structs)
    BY <1>5 DEF NothingToSend
  <2>2. /\ Ruled(s.table) /\ table \subseteq s.table
        /\ s.serial \in Nat /\ serial <= s.serial
        /\ Agree(structs) => \A r \in s.table \ table : r[Id] > 0
        /\ s.ok /\ Len(s.ids) = Len(structs) =>
               \A k \in DOMAIN structs : \E r \in s.table \ table :
                   r[Id] = s.ids[k] /\ (Agree(structs) => Holds(r, structs[k]))
    BY <2>1, InsertedRows
  <2>3. /\ serial' = s.serial
        /\ ~s.ok => UNCHANGED <<table, ledger, mixed>>
        /\ s.ok => /\ table' = s.table
                   /\ ledger' = IF Len(s.ids) # Len(structs) THEN ledger
                                ELSE ledger \cup {<<s.ids[k], structs[k]>> :
                                                      k \in DOMAIN structs}
                   /\ mixed' = IF Agree(structs) THEN mixed
                               ELSE mixed \cup (s.table \ table)
    BY <1>5 DEF Save
  <2>. HIDE DEF s
  <2>4. serial' \in 1 .. MaxSerial
    BY <1>1, <1>3, <2>2, <2>3, ValuesAssumption
  <2>5. CASE ~s.ok
    <3>1. UNCHANGED <<table, ledger, mixed>>
      BY <2>3, <2>5
    <3>. QED  BY <1>1, <1>2, <1>3, <2>4, <3>1 DEF RowsInv, StoredAsGiven, Ruled
  <2>6. CASE s.ok
    <3>1. Ruled(table)' /\ table \subseteq table'
      BY <2>2, <2>3, <2>6 DEF Ruled
    <3>2. /\ mixed \subseteq mixed' /\ mixed' \subseteq table'
          /\ mixed' \cap table = mixed
          /\ ~Agree(structs) => table' \ table \subseteq mixed'
      BY <1>3, <2>2, <2>3, <2>6
    <3>3. \A r \in table' \ mixed' : r[Id] > 0
      BY <1>3, <2>2, <2>3, <2>6, <3>2
    <3>4. ASSUME NEW e \in ledger'
          PROVE  /\ e[2] \in Given
                 /\ \E r \in table' : r[Id] = e[1] /\ (r \in mixed' \/ Holds(r, e[2]))
      <4>1. CASE e \in ledger
        BY <1>3, <3>1, <3>2, <4>1 DEF StoredAsGiven
      <4>2. CASE e \notin ledger
        <5>1. PICK k \in DOMAIN structs :
                  e = <<s.ids[k], structs[k]>> /\ Len(s.ids) = Len(structs)
          BY <2>3, <2>6, <4>2
        <5>2. e[1] = s.ids[k] /\ e[2] = structs[k] /\ structs[k] \in Given
          BY <5>1, LenProperties
        <5>3. PICK r \in table' \ table :
                  r[Id] = s.ids[k] /\ (Agree(structs) => Holds(r, structs[k]))
          BY <2>2, <2>3, <2>6, <5>1
        <5>. QED  BY <3>2, <5>2, <5>3
      <4>. QED  BY <4>1, <4>2
    <3>5. StoredAsGiven'
      BY <3>4 DEF StoredAsGiven, Holds
    <3>. QED  BY <1>1, <1>2, <2>4, <3>1, <3>2, <3>3, <3>4, <3>5 DEF RowsInv
  <2>. QED  BY <2>5, <2>6
<1>. QED  BY <1>4, <1>5

(* A SELECT of all rows.                                                       *)
LEMMA SelectStep ==
    ASSUME RowsInv, SelectAllRows
    PROVE  RowsInv'
<1>. DEFINE X == {SetSelectData(r) : r \in table}
            f == [r \in table |-> SetSelectData(r)]
<1>1. table \subseteq Rows /\ IsFiniteSet(table)
  BY DEF RowsInv, Ruled
<1>2. f \in Surjection(table, X)
  BY DEF Surjection
<1>3. IsFiniteSet(X)
  <2>. HIDE DEF f, X
  <2>. QED  BY <1>1, <1>2, FS_Surjection
<1>4. X \subseteq Read
  BY <1>1, SelectDataIs
<1>5. /\ read' \in Seq(Read)
      /\ \A x \in X : \E k \in DOMAIN read' : read'[k] = x
  <2>1. read' = SetToSeq(X)
    BY DEF SelectAllRows
  <2>. HIDE DEF X
  <2>2. SetToSeq(X) \in Seq(X)
        /\ \A x \in X : \E k \in DOMAIN SetToSeq(X) : SetToSeq(X)[k] = x
    BY <1>3, SetAsSequence
  <2>3. Seq(X) \subseteq Seq(Read)
    BY <1>4
  <2>. QED  BY <2>1, <2>2, <2>3
<1>6. UNCHANGED <<table, serial, ledger, mixed>>
  BY DEF SelectAllRows
<1>7. \A r \in table : \E k \in DOMAIN read' : read'[k] = SetSelectData(r)
  BY <1>5
<1>8. StoredAsGiven'
  BY <1>6 DEF RowsInv, StoredAsGiven, Holds
<1>. QED  BY <1>5, <1>6, <1>7, <1>8 DEF RowsInv, Ruled

(* Every call keeps the invariant.                                             *)
LEMMA RowsStep ==
    ASSUME RowsInv, [Next]_vars
    PROVE  RowsInv'
<1>1. ASSUME NEW n \in 0 .. MaxSaved, NEW ss \in [1 .. n -> Structs], NEW act \in Acts,
             Save(ss, act)
      PROVE  RowsInv'
  <2>1. n \in Nat /\ ss \in [1 .. n -> Given]
    BY StructsAreGiven, ValuesAssumption
  <2>2. ss \in Seq(Given)
    BY <2>1, SeqDef
  <2>. QED  BY <1>1, <2>2, SaveStep
<1>2. CASE SaveSingleRow
  <2>1. PICK s \in Structs : Save(<<s>>, "not_set")
    BY <1>2 DEF SaveSingleRow
  <2>2. <<s>> \in Seq(Given)
    BY StructsAreGiven
  <2>. QED  BY <2>1, <2>2, SaveStep DEF Acts
<1>3. CASE SaveVectorOfRows
  BY <1>1, <1>3 DEF SaveVectorOfRows, Acts
<1>4. CASE SaveNotExistsRows
  BY <1>1, <1>4 DEF SaveNotExistsRows, Acts
<1>5. CASE SaveWhatWasRead
  <2>1. Save(read, "do_nothing")
    BY <1>5 DEF SaveWhatWasRead
  <2>2. read \in Seq(Given)
    <3>1. Read \subseteq Given
      BY DEF Read, Given
    <3>2. read \in Seq(Read)
      BY DEF RowsInv
    <3>. QED  BY <3>1, <3>2
  <2>. QED  BY <2>1, <2>2, SaveStep DEF Acts
<1>6. CASE SelectAllRows
  BY <1>6, SelectStep
<1>7. CASE UNCHANGED vars
  BY <1>7 DEF vars, RowsInv, Ruled, StoredAsGiven, Holds
<1>. QED  BY <1>2, <1>3, <1>4, <1>5, <1>6, <1>7 DEF Next

(* It holds in the beginning, and so always.                                   *)
LEMMA RowsAlways == Spec => []RowsInv
<1>1. Init => RowsInv
  <2>. SUFFICES ASSUME Init
                PROVE  RowsInv
    OBVIOUS
  <2>1. IsFiniteSet({})
    BY FS_EmptySet
  <2>2. Ruled(table)
    BY <2>1 DEF Init, Ruled
  <2>3. answer.call # "select"
    BY DEF Init, Answer
  <2>4. <<>> \in Seq(Read) /\ 1 \in 1 .. MaxSerial
    BY ValuesAssumption
  <2>. QED  BY <2>2, <2>3, <2>4 DEF Init, RowsInv, StoredAsGiven
<1>2. RowsInv /\ [Next]_vars => RowsInv'
  BY RowsStep
<1>. QED  BY <1>1, <1>2, PTL DEF Spec

(* The table keeps its own rules, whatever is saved into it, in any number of  *)
(* calls and of any table: no NULL where none may be, no two rows with the     *)
(* same value of a unique column.  No row has the number of a struct that has  *)
(* none, because an id that holds nothing is left out of the row               *)
(* (library_tables.cpp, setInsertValues) - but for rows that were saved with   *)
(* rows of other fields, in whose id the value of another field may stand.     *)
THEOREM TableKeepsRules == Spec => []TypeOK
<1>1. RowsInv => TypeOK
  <2>. SUFFICES ASSUME RowsInv
                PROVE  TypeOK
    OBVIOUS
  <2>1. read \in Seq(Read)
    BY DEF RowsInv
  <2>2. \A k \in DOMAIN read : read[k] \in Read
    BY <2>1, LenProperties
  <2>. QED  BY <2>2 DEF RowsInv, Ruled, Allowed, TypeOK, Read
<1>. QED  BY <1>1, RowsAlways, PTL

(* A row whose id the caller was told stays, and holds what the struct held,   *)
(* each value in the column of its own field, if the structs of its call       *)
(* agreed on the optional fields.  The statement names the columns of the      *)
(* first row only (setupInsertString), and haveConflict compares the flags of  *)
(* the structs but not what setInsertValues leaves out: structs that disagree  *)
(* on an id and on the books, or the book, are stored under wrong columns.     *)
THEOREM StoredAsItWasGiven == Spec => []StoredAsGiven
<1>1. RowsInv => StoredAsGiven
  BY DEF RowsInv
<1>. QED  BY <1>1, RowsAlways, PTL

(* A SELECT gives every such row back, with the values that it was saved with: *)
(* SetSelectData takes them by the names of the columns.                       *)
THEOREM ReadAsItWasGiven == Spec => []ReadAsGiven
<1>1. RowsInv => ReadAsGiven
  <2>. SUFFICES ASSUME RowsInv, answer.call = "select", NEW e \in ledger
                PROVE  \E r \in table, k \in DOMAIN read :
                           /\ r[Id] = e[1] /\ read[k].value[Id] = e[1]
                           /\ r \in mixed \/ Holds(read[k].value, e[2])
    BY DEF ReadAsGiven
  <2>1. PICK r \in table : r[Id] = e[1] /\ (r \in mixed \/ Holds(r, e[2]))
    BY DEF RowsInv, StoredAsGiven
  <2>2. r \in Rows /\ r[Id] \in Nat /\ e[2] \in Given
    BY DEF RowsInv, Ruled, Allowed
  <2>3. PICK k \in DOMAIN read : read[k] = SetSelectData(r)
    BY DEF RowsInv
  <2>4. \A f \in Names : r[f] # NULL => read[k].value[f] = r[f]
    BY <2>2, <2>3, SelectDataIs
  <2>5. read[k].value[Id] = e[1]
    BY <2>1, <2>2, <2>4, FieldsAssumption DEF NULL
  <2>6. ASSUME Holds(r, e[2])
        PROVE  Holds(read[k].value, e[2])
    <3>. SUFFICES ASSUME NEW f \in e[2].initialized, e[2].value[f] > 0
                  PROVE  read[k].value[f] = e[2].value[f]
      BY DEF Holds
    <3>1. f \in Names /\ e[2].value[f] \in Nat
      BY <2>2 DEF Given
    <3>2. r[f] = e[2].value[f]
      BY <2>6 DEF Holds
    <3>. QED  BY <2>4, <3>1, <3>2 DEF NULL
  <2>. QED  BY <2>1, <2>5, <2>6
<1>. QED  BY <1>1, RowsAlways, PTL
=============================================================================

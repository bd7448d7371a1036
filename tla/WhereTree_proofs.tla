--------------------------- MODULE WhereTree_proofs ---------------------------
(* Proofs about WhereTree: the heap of conditions stays one, no living node    *)
(* points to a parent that is gone, the server reads the text of a condition   *)
(* as it was built, and no statement of an initialised tree takes the whole    *)
(* table.                                                                      *)
EXTENDS WhereTree, SequenceInduction, FiniteSetTheorems

-----------------------------------------------------------------------------
(* How a text is read.                                                         *)

(* The right side of the definition of Reading, for any function.              *)
HalvesBy(f, s, op) ==
    LET i == CHOOSE j \in Splits(s, op) : TRUE
    IN  Combine(op, f[SubSeq(s, 1, i - 1)], f[SubSeq(s, i + 1, Len(s))])

ReadBy(f, s) ==
    LET op == IF Splits(s, "OR") # {} THEN "OR" ELSE "AND"
    IN  IF s \in Atoms THEN {r \in Rows : s \in r}
        ELSE IF Splits(s, op) # {} THEN HalvesBy(f, s, op)
        ELSE IF Len(s) > 2 /\ s[1] = "(" /\ s[Len(s)] = ")"
        THEN f[SubSeq(s, 2, Len(s) - 1)]
        ELSE SyntaxError

(* What is between two places of a text is a text.                             *)
LEMMA PartOfText ==
    \A s \in Tokens : \A i, j \in Nat :
        (1 <= i /\ j <= Len(s)) =>
            /\ SubSeq(s, i, j) \in Tokens
            /\ Len(SubSeq(s, i, j)) = IF i <= j THEN j - i + 1 ELSE 0
<1>. SUFFICES ASSUME NEW s \in Tokens, NEW i \in Nat, NEW j \in Nat, 1 <= i, j <= Len(s)
              PROVE  /\ SubSeq(s, i, j) \in Tokens
                     /\ Len(SubSeq(s, i, j)) = IF i <= j THEN j - i + 1 ELSE 0
  OBVIOUS
<1>. DEFINE W == Names \cup Marks
<1>1. s \in Seq(W) /\ Tokens = Seq(W)
  BY DEF Tokens
<1>. HIDE DEF W
<1>2. \A k \in i .. j : s[k] \in W
  BY <1>1, ElementOfSeq
<1>. QED  BY <1>1, <1>2, SubSeqProperties

(* Only the readings of shorter texts matter for that of a text.               *)
LEMMA ReadsShorter ==
    ASSUME NEW f, NEW g, NEW s \in Tokens,
           \A t \in Tokens : Len(t) < Len(s) => f[t] = g[t]
    PROVE  ReadBy(f, s) = ReadBy(g, s)
<1>0. Len(s) \in Nat
  BY LenProperties DEF Tokens
<1>1. ASSUME NEW op, Splits(s, op) # {}
      PROVE  HalvesBy(f, s, op) = HalvesBy(g, s, op)
  <2>. DEFINE i == CHOOSE j \in Splits(s, op) : TRUE
  <2>1. i \in Splits(s, op)
    BY <1>1
  <2>. HIDE DEF i
  <2>2. i \in 2 .. Len(s) - 1
    BY <2>1 DEF Splits
  <2>3. /\ SubSeq(s, 1, i - 1) \in Tokens /\ Len(SubSeq(s, 1, i - 1)) < Len(s)
        /\ SubSeq(s, i + 1, Len(s)) \in Tokens /\ Len(SubSeq(s, i + 1, Len(s))) < Len(s)
    BY <1>0, <2>2, PartOfText
  <2>4. /\ f[SubSeq(s, 1, i - 1)] = g[SubSeq(s, 1, i - 1)]
        /\ f[SubSeq(s, i + 1, Len(s))] = g[SubSeq(s, i + 1, Len(s))]
    BY <2>3
  <2>. QED  BY <2>4 DEF HalvesBy, i
<1>2. ASSUME Len(s) > 2
      PROVE  f[SubSeq(s, 2, Len(s) - 1)] = g[SubSeq(s, 2, Len(s) - 1)]
  <2>1. SubSeq(s, 2, Len(s) - 1) \in Tokens /\ Len(SubSeq(s, 2, Len(s) - 1)) < Len(s)
    BY <1>0, <1>2, PartOfText
  <2>. QED  BY <2>1
<1>. QED  BY <1>1, <1>2 DEF ReadBy

(* A function that reads the texts of at most n words.                         *)
ReadsUpTo(f, n) == f = [s \in {t \in Tokens : Len(t) <= n} |-> ReadBy(f, s)]

(* Two of them agree where both are defined.                                   *)
LEMMA ReadersAgree ==
    ASSUME NEW f, NEW g, NEW n \in Nat, NEW m \in Nat, ReadsUpTo(f, n), ReadsUpTo(g, m)
    PROVE  \A s \in Tokens : (Len(s) <= n /\ Len(s) <= m) => f[s] = g[s]
<1>. DEFINE T == {k \in Nat : \A s \in Tokens :
                      (Len(s) = k /\ k <= n /\ k <= m) => f[s] = g[s]}
<1>1. ASSUME NEW k \in Nat, \A l \in Nat : l < k => l \in T
      PROVE  k \in T
  <2>. SUFFICES ASSUME NEW s \in Tokens, Len(s) = k, k <= n, k <= m
                PROVE  f[s] = g[s]
    OBVIOUS
  <2>1. ASSUME NEW t \in Tokens, Len(t) < Len(s)
        PROVE  f[t] = g[t]
    <3>1. Len(t) \in Nat
      BY LenProperties DEF Tokens
    <3>2. Len(t) \in T
      BY <1>1, <2>1, <3>1
    <3>. QED  BY <2>1, <3>1, <3>2
  <2>2. ReadBy(f, s) = ReadBy(g, s)
    BY <2>1, ReadsShorter
  <2>3. f[s] = ReadBy(f, s) /\ g[s] = ReadBy(g, s)
    BY DEF ReadsUpTo
  <2>. QED  BY <2>2, <2>3
<1>2. Nat \subseteq T
  <2>. HIDE DEF T
  <2>. QED  BY <1>1, StrongSetInduction
<1>. QED  BY <1>2, LenProperties DEF Tokens

(* There is one for every n.                                                   *)
LEMMA ReaderExists ==
    \A n \in Nat : \E f : ReadsUpTo(f, n)
<1>. DEFINE T == {n \in Nat : \E f : ReadsUpTo(f, n)}
            Short(n) == {t \in Tokens : Len(t) <= n}
<1>1. ASSUME NEW n \in Nat, NEW f, \A s \in Tokens : Len(s) < n => f[s] = ReadBy(f, s)
      PROVE  \E g : ReadsUpTo(g, n)
  <2>. DEFINE g == [s \in Short(n) |-> ReadBy(f, s)]
              h == [s \in Short(n) |-> ReadBy(g, s)]
  <2>1. ASSUME NEW s \in Short(n)
        PROVE  ReadBy(f, s) = ReadBy(g, s)
    <3>1. ASSUME NEW t \in Tokens, Len(t) < Len(s)
          PROVE  f[t] = g[t]
      <4>1. Len(t) \in Nat /\ Len(s) \in Nat /\ Len(s) <= n
        BY LenProperties DEF Tokens
      <4>2. t \in Short(n) /\ Len(t) < n
        BY <3>1, <4>1
      <4>. QED  BY <1>1, <4>2
    <3>. QED
      <4>. HIDE DEF g
      <4>. QED  BY <3>1, ReadsShorter
  <2>2. g = h
    <3>. SUFFICES \A s \in Short(n) : ReadBy(f, s) = ReadBy(g, s)
      OBVIOUS
    <3>. QED  BY <2>1
  <2>. QED
    <3>. HIDE DEF g
    <3>. QED  BY <2>2 DEF ReadsUpTo
<1>2. 0 \in T
  <2>. DEFINE f == [s \in {} |-> s]
  <2>1. \A s \in Tokens : ~(Len(s) < 0)
    BY LenProperties DEF Tokens
  <2>2. \A s \in Tokens : Len(s) < 0 => f[s] = ReadBy(f, s)
    <3>. HIDE DEF f
    <3>. QED  BY <2>1
  <2>3. \E g : ReadsUpTo(g, 0)
    <3>. HIDE DEF f
    <3>. QED  BY <1>1, <2>2
  <2>. QED  BY <2>3
<1>3. ASSUME NEW n \in Nat, n \in T
      PROVE  n + 1 \in T
  <2>1. PICK f : ReadsUpTo(f, n)
    BY <1>3
  <2>2. ASSUME NEW s \in Tokens, Len(s) < n + 1
        PROVE  f[s] = ReadBy(f, s)
    <3>1. Len(s) \in Nat
      BY LenProperties DEF Tokens
    <3>2. Len(s) <= n
      BY <2>2, <3>1
    <3>. QED  BY <2>1, <3>2 DEF ReadsUpTo
  <2>3. \E g : ReadsUpTo(g, n + 1)
    BY <1>1, <2>2
  <2>. QED  BY <2>3
<1>4. Nat \subseteq T
  <2>. HIDE DEF T
  <2>. QED  BY <1>2, <1>3, SetInduction
<1>. QED  BY <1>4

(* Reading meets its definition: on every text the recursion ends.             *)
LEMMA ReadingDef ==
    \A s \in Tokens : Reading[s] = ReadBy(Reading, s)
<1>. DEFINE Recurs(f) == f = [s \in Tokens |-> ReadBy(f, s)]
            reader(n) == CHOOSE f : ReadsUpTo(f, n)
            g == [s \in Tokens |-> reader(Len(s))[s]]
            h == [s \in Tokens |-> ReadBy(g, s)]
<1>1. \A n \in Nat : ReadsUpTo(reader(n), n)
  <2>. SUFFICES ASSUME NEW n \in Nat
                PROVE  ReadsUpTo(reader(n), n)
    OBVIOUS
  <2>1. \E f : ReadsUpTo(f, n)
    BY ReaderExists
  <2>. QED  BY <2>1, Zenon
<1>. HIDE DEF reader
<1>2. ASSUME NEW s \in Tokens
      PROVE  g[s] = ReadBy(g, s)
  <2>1. Len(s) \in Nat /\ ReadsUpTo(reader(Len(s)), Len(s))
    BY <1>1, LenProperties DEF Tokens
  <2>2. reader(Len(s))[s] = ReadBy(reader(Len(s)), s)
    BY <2>1 DEF ReadsUpTo
  <2>3. ASSUME NEW t \in Tokens, Len(t) < Len(s)
        PROVE  reader(Len(s))[t] = g[t]
    <3>1. Len(t) \in Nat /\ ReadsUpTo(reader(Len(t)), Len(t)) /\ Len(t) <= Len(s)
      BY <1>1, <2>1, <2>3, LenProperties DEF Tokens
    <3>2. Len(t) <= Len(t)
      BY <3>1
    <3>3. reader(Len(s))[t] = reader(Len(t))[t]
      BY <2>1, <3>1, <3>2, ReadersAgree
    <3>. QED  BY <3>3
  <2>4. ReadBy(reader(Len(s)), s) = ReadBy(g, s)
    <3>. HIDE DEF g
    <3>. QED  BY <2>3, ReadsShorter
  <2>. QED  BY <2>2, <2>4
<1>3. g = h
  <2>. SUFFICES \A s \in Tokens : g[s] = ReadBy(g, s)
    <3>1. g = [s \in Tokens |-> g[s]]
      OBVIOUS
    <3>. HIDE DEF g
    <3>. QED  BY <3>1
  <2>. QED  BY <1>2
<1>4. Recurs(g)
  <2>. HIDE DEF g
  <2>. QED  BY <1>3
<1>5. Recurs(CHOOSE f : Recurs(f))
  <2>. HIDE DEF g, Recurs
  <2>. QED  BY <1>4, Zenon
<1>6. Reading = CHOOSE f : Recurs(f)
  BY DEF Reading, ReadBy, HalvesBy
<1>7. Recurs(Reading)
  <2>. HIDE DEF Recurs
  <2>. QED  BY <1>5, <1>6
<1>. QED  BY <1>7

(* The row that meets no condition is taken by no text.                        *)
LEMMA NoTextTakesAll ==
    \A s \in Tokens : {} \notin Reading[s]
<1>. DEFINE T == {k \in Nat : \A s \in Tokens : Len(s) = k => {} \notin Reading[s]}
<1>0. {} \notin SyntaxError /\ {} \notin Nothing
  BY DEF SyntaxError, Nothing
<1>1. \A op, x, y : ({} \notin x /\ {} \notin y) => {} \notin Combine(op, x, y)
  BY <1>0 DEF Combine
<1>2. ASSUME NEW k \in Nat, \A l \in Nat : l < k => l \in T
      PROVE  k \in T
  <2>. SUFFICES ASSUME NEW s \in Tokens, Len(s) = k
                PROVE  {} \notin Reading[s]
    OBVIOUS
  <2>1. ASSUME NEW t \in Tokens, Len(t) < k
        PROVE  {} \notin Reading[t]
    <3>1. Len(t) \in Nat
      BY LenProperties DEF Tokens
    <3>. QED  BY <1>2, <2>1, <3>1
  <2>2. ASSUME NEW op, Splits(s, op) # {}
        PROVE  {} \notin HalvesBy(Reading, s, op)
    <3>. DEFINE i == CHOOSE j \in Splits(s, op) : TRUE
    <3>1. i \in Splits(s, op)
      BY <2>2
    <3>. HIDE DEF i
    <3>2. i \in 2 .. Len(s) - 1
      BY <3>1 DEF Splits
    <3>3. /\ SubSeq(s, 1, i - 1) \in Tokens /\ Len(SubSeq(s, 1, i - 1)) < k
          /\ SubSeq(s, i + 1, Len(s)) \in Tokens /\ Len(SubSeq(s, i + 1, Len(s))) < k
      BY <3>2, PartOfText
    <3>4. /\ {} \notin Reading[SubSeq(s, 1, i - 1)]
          /\ {} \notin Reading[SubSeq(s, i + 1, Len(s))]
      BY <2>1, <3>3
    <3>. QED  BY <1>1, <3>4 DEF HalvesBy, i
  <2>3. ASSUME Len(s) > 2
        PROVE  {} \notin Reading[SubSeq(s, 2, Len(s) - 1)]
    <3>1. /\ SubSeq(s, 2, Len(s) - 1) \in Tokens
          /\ Len(SubSeq(s, 2, Len(s) - 1)) < k
      BY <2>3, PartOfText
    <3>. QED  BY <2>1, <3>1
  <2>4. {} \notin ReadBy(Reading, s)
    <3>1. {} \notin {r \in Rows : s \in r}
      OBVIOUS
    <3>. QED  BY <1>0, <2>2, <2>3, <3>1 DEF ReadBy
  <2>. QED  BY <2>4, ReadingDef
<1>3. Nat \subseteq T
  <2>. HIDE DEF T
  <2>. QED  BY <1>2, StrongSetInduction
<1>. QED  BY <1>3, LenProperties DEF Tokens

-----------------------------------------------------------------------------
(* The heap.                                                                   *)

Types == {"field", "value", "raw", "operator"}
Nodes == [type : Types, text : Tokens, left : Nat, right : Nat, parent : Nat]

(* A heap: children are older than their parents, and parents are there.       *)
Heap(h) ==
    /\ h \in Seq(Nodes)
    /\ \A n \in 1 .. Len(h) : /\ h[n].left < n /\ h[n].right < n
                              /\ h[n].parent <= Len(h)

BracedIn(h, n) ==
    /\ h[n].type = "operator"
    /\ h[n].parent # Null
    /\ h[h[n].parent].text # <<"BETWEEN">>

InBraces(s) == <<"(">> \o s \o <<")">>

(* The text of a node without parentheses of its own.                          *)
FlatOf(h, f, n) == f[h[n].left] \o h[n].text \o f[h[n].right]

(* What Text is on a heap, and what Subtree is.                                *)
TextOn(h, f) ==
    /\ f \in [0 .. Len(h) -> Tokens]
    /\ f[0] = <<>>
    /\ \A n \in 1 .. Len(h) :
           /\ FlatOf(h, f, n) \in Tokens
           /\ f[n] = IF BracedIn(h, n) THEN InBraces(FlatOf(h, f, n)) ELSE FlatOf(h, f, n)

SubtreeOn(h, f) ==
    /\ f \in [0 .. Len(h) -> SUBSET (1 .. Len(h))]
    /\ f[0] = {}
    /\ \A n \in 1 .. Len(h) : f[n] = {n} \cup f[h[n].left] \cup f[h[n].right]

(* The nodes of a heap.                                                        *)
LEMMA NodeType ==
    \A h : Heap(h) =>
        /\ Len(h) \in Nat /\ DOMAIN h = 1 .. Len(h)
        /\ \A n \in 1 .. Len(h) :
               /\ h[n] \in Nodes /\ h[n].type \in Types /\ h[n].text \in Tokens
               /\ h[n].left \in 0 .. n - 1 /\ h[n].right \in 0 .. n - 1
               /\ h[n].left \in 0 .. Len(h) /\ h[n].right \in 0 .. Len(h)
               /\ h[n].parent \in 0 .. Len(h)
<1>. SUFFICES ASSUME NEW h, Heap(h)
              PROVE  /\ Len(h) \in Nat /\ DOMAIN h = 1 .. Len(h)
                     /\ \A n \in 1 .. Len(h) :
                            /\ h[n] \in Nodes /\ h[n].type \in Types /\ h[n].text \in Tokens
                            /\ h[n].left \in 0 .. n - 1 /\ h[n].right \in 0 .. n - 1
                            /\ h[n].left \in 0 .. Len(h) /\ h[n].right \in 0 .. Len(h)
                            /\ h[n].parent \in 0 .. Len(h)
  OBVIOUS
<1>1. Len(h) \in Nat /\ DOMAIN h = 1 .. Len(h) /\ \A n \in 1 .. Len(h) : h[n] \in Nodes
  BY LenProperties, ElementOfSeq DEF Heap
<1>2. ASSUME NEW n \in 1 .. Len(h)
      PROVE  /\ h[n].type \in Types /\ h[n].text \in Tokens
             /\ h[n].left \in 0 .. n - 1 /\ h[n].right \in 0 .. n - 1
             /\ h[n].left \in 0 .. Len(h) /\ h[n].right \in 0 .. Len(h)
             /\ h[n].parent \in 0 .. Len(h)
  <2>1. /\ h[n].type \in Types /\ h[n].text \in Tokens
        /\ h[n].left \in Nat /\ h[n].right \in Nat /\ h[n].parent \in Nat
    BY <1>1 DEF Nodes
  <2>2. h[n].left < n /\ h[n].right < n /\ h[n].parent <= Len(h)
    BY DEF Heap
  <2>. QED  BY <1>1, <2>1, <2>2
<1>. QED  BY <1>1, <1>2

(* What is needed for a recursion down a tree: older children, and an operator *)
(* on values.                                                                  *)
Recursion(N, L, R, V, G) ==
    /\ \A n \in 1 .. N : L[n] \in 0 .. n - 1 /\ R[n] \in 0 .. n - 1
    /\ \A n \in 1 .. N, x, y \in V : G[<<n, x, y>>] \in V

Solution(N, L, R, V, v, G, f) ==
    /\ f \in [0 .. N -> V]
    /\ f[0] = v
    /\ \A n \in 1 .. N : f[n] = G[<<n, f[L[n]], f[R[n]]>>]

(* Such a recursion has a solution.                                            *)
LEMMA TreeRecursion ==
    \A N \in Nat : \A L, R, V, v, G :
        (v \in V /\ Recursion(N, L, R, V, G)) => \E f : Solution(N, L, R, V, v, G, f)
<1>. SUFFICES ASSUME NEW N \in Nat, NEW L, NEW R, NEW V, NEW v, NEW G,
                     v \in V, Recursion(N, L, R, V, G)
              PROVE  \E f : Solution(N, L, R, V, v, G, f)
  BY Zenon
<1>. DEFINE Solves(f, m) == /\ f \in [0 .. m -> V]
                            /\ f[0] = v
                            /\ \A n \in 1 .. m : f[n] = G[<<n, f[L[n]], f[R[n]]>>]
            T == {m \in Nat : m <= N => \E f : Solves(f, m)}
<1>1. 0 \in T
  <2>1. Solves([n \in 0 .. 0 |-> v], 0)
    OBVIOUS
  <2>. QED  BY <2>1
<1>2. ASSUME NEW m \in Nat, m \in T
      PROVE  m + 1 \in T
  <2>. SUFFICES ASSUME m + 1 <= N
                PROVE  \E f : Solves(f, m + 1)
    OBVIOUS
  <2>1. PICK f : Solves(f, m)
    BY <1>2
  <2>. DEFINE new == G[<<m + 1, f[L[m + 1]], f[R[m + 1]]>>]
              g == [n \in 0 .. m + 1 |-> IF n = m + 1 THEN new ELSE f[n]]
  <2>2. new \in V
    <3>1. m + 1 \in 1 .. N
      OBVIOUS
    <3>2. L[m + 1] \in 0 .. m /\ R[m + 1] \in 0 .. m
      BY <3>1 DEF Recursion
    <3>3. f[L[m + 1]] \in V /\ f[R[m + 1]] \in V
      BY <2>1, <3>2
    <3>. QED  BY <3>1, <3>3 DEF Recursion
  <2>3. /\ g \in [0 .. m + 1 -> V] /\ g[m + 1] = new
        /\ \A n \in 0 .. m : g[n] = f[n]
    <3>. HIDE DEF new
    <3>. QED  BY <2>1, <2>2
  <2>4. ASSUME NEW n \in 1 .. m + 1
        PROVE  g[n] = G[<<n, g[L[n]], g[R[n]]>>]
    <3>. HIDE DEF g, new
    <3>1. n \in 1 .. N
      OBVIOUS
    <3>2. L[n] \in 0 .. m /\ R[n] \in 0 .. m
      BY <3>1 DEF Recursion
    <3>3. g[L[n]] = f[L[n]] /\ g[R[n]] = f[R[n]]
      BY <2>3, <3>2
    <3>4. CASE n = m + 1
      BY <2>3, <3>3, <3>4 DEF new
    <3>5. CASE n # m + 1
      <4>1. n \in 1 .. m /\ n \in 0 .. m
        BY <3>5
      <4>. QED  BY <2>1, <2>3, <3>3, <4>1
    <3>. QED  BY <3>4, <3>5
  <2>5. g[0] = v
    <3>. HIDE DEF g
    <3>. QED  BY <2>1, <2>3
  <2>. QED
    <3>. HIDE DEF g
    <3>. QED  BY <2>3, <2>4, <2>5
<1>3. Nat \subseteq T
  <2>. HIDE DEF T
  <2>. QED  BY <1>1, <1>2, SetInduction
<1>4. N \in T
  BY <1>3
<1>. QED  BY <1>4 DEF Solution

(* The equation of Subtree.                                                    *)
IsSubtree(h, f) ==
    f = [n \in 0 .. Len(h) |-> IF n = Null THEN {}
                               ELSE {n} \cup f[h[n].left] \cup f[h[n].right]]

(* It has a solution on a heap.                                                *)
LEMMA SubtreeExists ==
    ASSUME NEW h, Heap(h)
    PROVE  \E f : IsSubtree(h, f)
<1>. DEFINE N == Len(h)
            V == SUBSET (1 .. N)
            L == [n \in 1 .. N |-> h[n].left]
            R == [n \in 1 .. N |-> h[n].right]
            G == [t \in (1 .. N) \X V \X V |-> {t[1]} \cup t[2] \cup t[3]]
<1>1. /\ N \in Nat
      /\ \A n \in 1 .. N : /\ h[n].left \in 0 .. n - 1 /\ h[n].right \in 0 .. n - 1
                           /\ L[n] = h[n].left /\ R[n] = h[n].right
  BY NodeType
<1>2. \A n \in 1 .. N, x, y \in V : /\ G[<<n, x, y>>] = {n} \cup x \cup y
                                    /\ G[<<n, x, y>>] \in V
  OBVIOUS
<1>3. Recursion(N, L, R, V, G)
  <2>. HIDE DEF N, V, L, R, G
  <2>. QED  BY <1>1, <1>2 DEF Recursion
<1>4. PICK f : Solution(N, L, R, V, {}, G, f)
  <2>1. {} \in V
    OBVIOUS
  <2>. HIDE DEF N, V, L, R, G
  <2>. QED  BY <1>1, <1>3, <2>1, TreeRecursion
<1>5. ASSUME NEW n \in 1 .. N
      PROVE  f[n] = {n} \cup f[h[n].left] \cup f[h[n].right]
  <2>. HIDE DEF N, V, L, R, G
  <2>1. h[n].left \in 0 .. N /\ h[n].right \in 0 .. N
    BY <1>1
  <2>2. f[h[n].left] \in V /\ f[h[n].right] \in V
    BY <1>4, <2>1 DEF Solution
  <2>3. G[<<n, f[h[n].left], f[h[n].right]>>] = {n} \cup f[h[n].left] \cup f[h[n].right]
    BY <1>2, <2>2
  <2>. QED  BY <1>1, <1>4, <2>3 DEF Solution
<1>6. IsSubtree(h, f)
  <2>. DEFINE g == [n \in 0 .. N |-> IF n = Null THEN {}
                                     ELSE {n} \cup f[h[n].left] \cup f[h[n].right]]
  <2>1. ASSUME NEW n \in 0 .. N
        PROVE  f[n] = g[n]
    <3>1. n # 0 => n \in 1 .. N
      BY <1>1
    <3>. QED
      <4>. HIDE DEF N, V
      <4>. QED  BY <1>4, <1>5, <3>1 DEF Null, Solution
  <2>2. f = g
    <3>1. f = [n \in 0 .. N |-> f[n]]
      BY <1>4 DEF Solution
    <3>2. g = [n \in 0 .. N |-> g[n]]
      OBVIOUS
    <3>. HIDE DEF g, N
    <3>. QED  BY <2>1, <3>1, <3>2
  <2>. QED  BY <2>2 DEF IsSubtree
<1>. QED  BY <1>6

(* Subtree on the heap that the program has.                                   *)
LEMMA SubtreeIs ==
    ASSUME NEW h, NEW f, Heap(h), f = CHOOSE g : IsSubtree(h, g)
    PROVE  SubtreeOn(h, f)
<1>1. IsSubtree(h, f)
  <2>1. \E g : IsSubtree(h, g)
    BY SubtreeExists
  <2>. QED  BY <2>1, Zenon
<1>2. /\ Len(h) \in Nat
      /\ \A n \in 1 .. Len(h) : h[n].left \in 0 .. n - 1 /\ h[n].right \in 0 .. n - 1
  BY NodeType
<1>3. /\ f = [n \in 0 .. Len(h) |-> f[n]]
      /\ \A n \in 0 .. Len(h) :
             f[n] = IF n = Null THEN {} ELSE {n} \cup f[h[n].left] \cup f[h[n].right]
  BY <1>1 DEF IsSubtree
<1>4. f[0] = {} /\ \A n \in 1 .. Len(h) : f[n] = {n} \cup f[h[n].left] \cup f[h[n].right]
  <2>1. 0 \in 0 .. Len(h) /\ \A n \in 1 .. Len(h) : n \in 0 .. Len(h) /\ n # 0
    BY <1>2
  <2>. QED  BY <1>3, <2>1 DEF Null
<1>. DEFINE T == {n \in Nat : n <= Len(h) => f[n] \in SUBSET (1 .. Len(h))}
<1>5. ASSUME NEW n \in Nat, \A m \in Nat : m < n => m \in T
      PROVE  n \in T
  <2>. SUFFICES ASSUME n <= Len(h), n # 0
                PROVE  f[n] \in SUBSET (1 .. Len(h))
    BY <1>4
  <2>1. n \in 1 .. Len(h)
    BY <1>2
  <2>2. /\ h[n].left \in Nat /\ h[n].left < n /\ h[n].left <= Len(h)
        /\ h[n].right \in Nat /\ h[n].right < n /\ h[n].right <= Len(h)
    BY <1>2, <2>1
  <2>3. f[h[n].left] \in SUBSET (1 .. Len(h)) /\ f[h[n].right] \in SUBSET (1 .. Len(h))
    BY <1>5, <2>2
  <2>4. f[n] = {n} \cup f[h[n].left] \cup f[h[n].right]
    BY <1>4, <2>1
  <2>. QED  BY <2>1, <2>3, <2>4
<1>6. Nat \subseteq T
  <2>. HIDE DEF T
  <2>. QED  BY <1>5, StrongSetInduction
<1>7. \A n \in 0 .. Len(h) : f[n] \in SUBSET (1 .. Len(h))
  BY <1>2, <1>6
<1>8. f \in [0 .. Len(h) -> SUBSET (1 .. Len(h))]
  BY <1>3, <1>7
<1>. QED  BY <1>4, <1>8 DEF SubtreeOn

(* The equation of GetString.                                                  *)
IsText(h, b, f) ==
    f = [n \in 0 .. Len(h) |->
            IF n = Null THEN <<>>
            ELSE IF BracedIn(h, n) /\ n \notin b THEN InBraces(FlatOf(h, f, n))
            ELSE FlatOf(h, f, n)]

(* What it says of each node.                                                  *)
Spells(h, b, f) ==
    /\ f \in [0 .. Len(h) -> Tokens] /\ f[0] = <<>>
    /\ \A n \in 1 .. Len(h) :
           /\ f[n] = IF BracedIn(h, n) /\ n \notin b THEN InBraces(FlatOf(h, f, n))
                     ELSE FlatOf(h, f, n)
           /\ FlatOf(h, f, n) \in Tokens

(* Texts put together are texts.                                               *)
LEMMA TextsTogether ==
    /\ <<>> \in Tokens
    /\ \A x, y \in Tokens : x \o y \in Tokens
    /\ \A s \in Tokens : InBraces(s) \in Tokens
    /\ \A w \in Names \cup Marks : <<w>> \in Tokens
<1>. DEFINE W == Names \cup Marks
<1>1. <<>> \in Seq(W) /\ \A x, y \in Seq(W) : x \o y \in Seq(W)
  <2>. HIDE DEF W
  <2>. QED  BY EmptySeq, Concatenates
<1>2. \A w \in W : <<w>> \in Seq(W)
  <2>. HIDE DEF W
  <2>. QED  BY OneElement
<1>3. "(" \in W /\ ")" \in W
  BY DEF Marks
<1>4. \A s \in Seq(W) : (<<"(">> \o s) \o <<")">> \in Seq(W)
  <2>. HIDE DEF W
  <2>1. <<"(">> \in Seq(W) /\ <<")">> \in Seq(W)
    BY <1>2, <1>3
  <2>. QED  BY <1>1, <2>1
<1>. QED  BY <1>1, <1>2, <1>4 DEF Tokens, InBraces

(* The equation of GetString has a solution on a heap.                         *)
LEMMA TextExists ==
    ASSUME NEW h, NEW b, Heap(h)
    PROVE  \E f : IsText(h, b, f)
<1>. DEFINE N == Len(h)
            L == [n \in 1 .. N |-> h[n].left]
            R == [n \in 1 .. N |-> h[n].right]
            Node3(n, x, y) == LET flat == x \o h[n].text \o y
                              IN  IF BracedIn(h, n) /\ n \notin b THEN InBraces(flat)
                                  ELSE flat
            G == [t \in (1 .. N) \X Tokens \X Tokens |-> Node3(t[1], t[2], t[3])]
<1>1. /\ N \in Nat
      /\ \A n \in 1 .. N : /\ h[n].left \in 0 .. n - 1 /\ h[n].right \in 0 .. n - 1
                           /\ L[n] = h[n].left /\ R[n] = h[n].right
                           /\ h[n].text \in Tokens
  BY NodeType
<1>2. \A n \in 1 .. N, x, y \in Tokens : G[<<n, x, y>>] = Node3(n, x, y)
  <2>. HIDE DEF Node3
  <2>. QED  OBVIOUS
<1>3. \A n \in 1 .. N, x, y \in Tokens : Node3(n, x, y) \in Tokens
  <2>. SUFFICES ASSUME NEW n \in 1 .. N, NEW x \in Tokens, NEW y \in Tokens
                PROVE  Node3(n, x, y) \in Tokens
    BY Zenon
  <2>1. (x \o h[n].text) \o y \in Tokens
    BY <1>1, TextsTogether
  <2>2. InBraces((x \o h[n].text) \o y) \in Tokens
    BY <2>1, TextsTogether
  <2>. QED  BY <2>1, <2>2
<1>. HIDE DEF Node3
<1>4. Recursion(N, L, R, Tokens, G)
  <2>. HIDE DEF N, L, R, G
  <2>. QED  BY <1>1, <1>2, <1>3 DEF Recursion
<1>5. PICK f : Solution(N, L, R, Tokens, <<>>, G, f)
  <2>1. <<>> \in Tokens
    BY TextsTogether
  <2>. HIDE DEF N, L, R, G
  <2>. QED  BY <1>1, <1>4, <2>1, TreeRecursion
<1>6. ASSUME NEW n \in 1 .. N
      PROVE  f[n] = Node3(n, f[h[n].left], f[h[n].right])
  <2>. HIDE DEF N, L, R, G
  <2>1. h[n].left \in 0 .. N /\ h[n].right \in 0 .. N
    BY <1>1
  <2>2. f[h[n].left] \in Tokens /\ f[h[n].right] \in Tokens
    BY <1>5, <2>1 DEF Solution
  <2>3. G[<<n, f[h[n].left], f[h[n].right]>>] = Node3(n, f[h[n].left], f[h[n].right])
    BY <1>2, <2>2
  <2>. QED  BY <1>1, <1>5, <2>3 DEF Solution
<1>7. IsText(h, b, f)
  <2>. DEFINE e(n) == IF n = Null THEN <<>> ELSE Node3(n, f[h[n].left], f[h[n].right])
              g == [n \in 0 .. N |-> e(n)]
  <2>1. ASSUME NEW n \in 0 .. N
        PROVE  f[n] = e(n)
    <3>1. n # 0 => n \in 1 .. N
      BY <1>1
    <3>. QED
      <4>. HIDE DEF N
      <4>. QED  BY <1>5, <1>6, <3>1 DEF Null, Solution
  <2>2. f = g
    <3>1. f = [n \in 0 .. N |-> f[n]]
      BY <1>5 DEF Solution
    <3>. HIDE DEF e, N
    <3>. QED  BY <2>1, <3>1
  <2>. QED  BY <2>2 DEF IsText, Node3, FlatOf
<1>. QED  BY <1>7

(* The texts on the heap that the program has.                                 *)
LEMMA TextIs ==
    ASSUME NEW h, NEW b, NEW f, Heap(h), f = CHOOSE g : IsText(h, b, g)
    PROVE  Spells(h, b, f)
<1>1. IsText(h, b, f)
  <2>1. \E g : IsText(h, b, g)
    BY TextExists
  <2>. QED  BY <2>1, Zenon
<1>. DEFINE e(n) == IF BracedIn(h, n) /\ n \notin b THEN InBraces(FlatOf(h, f, n))
                    ELSE FlatOf(h, f, n)
<1>2. /\ Len(h) \in Nat
      /\ \A n \in 1 .. Len(h) : /\ h[n].left \in 0 .. n - 1 /\ h[n].right \in 0 .. n - 1
                                /\ h[n].text \in Tokens
  BY NodeType
<1>3. /\ f = [n \in 0 .. Len(h) |-> f[n]]
      /\ \A n \in 0 .. Len(h) : f[n] = IF n = Null THEN <<>> ELSE e(n)
  <2>. HIDE DEF e
  <2>1. f = [n \in 0 .. Len(h) |-> IF n = Null THEN <<>> ELSE e(n)]
    BY <1>1 DEF IsText, e
  <2>. QED  BY <2>1
<1>4. f[0] = <<>> /\ \A n \in 1 .. Len(h) : f[n] = e(n)
  <2>. HIDE DEF e
  <2>1. 0 \in 0 .. Len(h) /\ \A n \in 1 .. Len(h) : n \in 0 .. Len(h) /\ n # 0
    BY <1>2
  <2>. QED  BY <1>3, <2>1 DEF Null
<1>. DEFINE T == {n \in Nat : n <= Len(h) => f[n] \in Tokens}
<1>5. ASSUME NEW n \in 1 .. Len(h), f[h[n].left] \in Tokens, f[h[n].right] \in Tokens
      PROVE  FlatOf(h, f, n) \in Tokens /\ f[n] \in Tokens
  <2>1. h[n].text \in Tokens
    BY <1>2
  <2>2. FlatOf(h, f, n) \in Tokens
    BY <1>5, <2>1, TextsTogether DEF FlatOf
  <2>3. InBraces(FlatOf(h, f, n)) \in Tokens
    BY <2>2, TextsTogether
  <2>. QED  BY <1>4, <2>2, <2>3
<1>. HIDE DEF e
<1>6. ASSUME NEW n \in Nat, \A m \in Nat : m < n => m \in T
      PROVE  n \in T
  <2>. SUFFICES ASSUME n <= Len(h), n # 0
                PROVE  f[n] \in Tokens
    BY <1>4, TextsTogether
  <2>1. n \in 1 .. Len(h)
    BY <1>2
  <2>2. /\ h[n].left \in Nat /\ h[n].left < n /\ h[n].left <= Len(h)
        /\ h[n].right \in Nat /\ h[n].right < n /\ h[n].right <= Len(h)
    BY <1>2, <2>1
  <2>3. f[h[n].left] \in Tokens /\ f[h[n].right] \in Tokens
    BY <1>6, <2>2
  <2>. QED  BY <1>5, <2>1, <2>3
<1>7. Nat \subseteq T
  <2>. HIDE DEF T
  <2>. QED  BY <1>6, StrongSetInduction
<1>8. \A n \in 0 .. Len(h) : f[n] \in Tokens
  BY <1>2, <1>7
<1>9. \A n \in 1 .. Len(h) : FlatOf(h, f, n) \in Tokens
  <2>. SUFFICES ASSUME NEW n \in 1 .. Len(h)
                PROVE  FlatOf(h, f, n) \in Tokens
    OBVIOUS
  <2>1. h[n].left \in 0 .. Len(h) /\ h[n].right \in 0 .. Len(h)
    BY <1>2
  <2>. QED  BY <1>5, <1>8, <2>1
<1>10. f \in [0 .. Len(h) -> Tokens]
  BY <1>3, <1>8
<1>. QED  BY <1>4, <1>9, <1>10 DEF Spells, e

(* Without a parent that is gone they are the text of the nodes.               *)
LEMMA SpeltText ==
    \A h, f : Spells(h, {}, f) => TextOn(h, f)
BY DEF Spells, TextOn

(* What GetString returns, whatever it makes of the parents that are gone.     *)
LEMMA GetStringIs ==
    ASSUME NEW b, Heap(node)
    PROVE  Spells(node, b, GetString(b))
<1>1. GetString(b) = CHOOSE g : IsText(node, b, g)
  BY DEF GetString, IsText, FlatOf, InBraces, Braced, BracedIn
<1>. QED  BY <1>1, TextIs

(* The heap of a state.                                                        *)
LEMMA OnHeap ==
    Heap(node) => SubtreeOn(node, Subtree) /\ TextOn(node, Text)
<1>1. Subtree = CHOOSE g : IsSubtree(node, g)
  BY DEF Subtree, IsSubtree
<1>2. Heap(node) => TextOn(node, Text)
  BY GetStringIs, SpeltText DEF Text
<1>. QED  BY <1>1, <1>2, SubtreeIs

(* The heap of the next state.                                                 *)
LEMMA OnHeapNext ==
    Heap(node') => SubtreeOn(node', Subtree') /\ TextOn(node', Text')
<1>1. Subtree' = CHOOSE g : IsSubtree(node', g)
  BY DEF Subtree, IsSubtree
<1>2. Text' = CHOOSE g : IsText(node', {}, g)
  BY DEF Text, GetString, IsText, FlatOf, InBraces, Braced, BracedIn
<1>3. Heap(node') => TextOn(node', Text')
  BY <1>2, TextIs, SpeltText
<1>. QED  BY <1>1, <1>3, SubtreeIs

-----------------------------------------------------------------------------
(* What a step does to the heap.                                               *)

(* No child is without a parent.                                               *)
Linked(h) ==
    \A n \in 1 .. Len(h) : \A c \in {h[n].left, h[n].right} :
        c # Null => h[c].parent # Null

(* The nodes of h are there, with the same data and the same children.         *)
SameNodes(h, g) ==
    /\ Len(h) <= Len(g)
    /\ \A n \in 1 .. Len(h) : /\ g[n].type = h[n].type /\ g[n].text = h[n].text
                              /\ g[n].left = h[n].left /\ g[n].right = h[n].right

(* A child has parentheses as before.                                          *)
SameBraces(h, g) ==
    \A n \in 1 .. Len(h) : \A c \in {h[n].left, h[n].right} :
        c # Null => (BracedIn(g, c) <=> BracedIn(h, c))

(* Both.                                                                       *)
Stays(h, g) == Heap(h) /\ Heap(g) /\ SameNodes(h, g) /\ SameBraces(h, g)

(* What is below a node stays the same.                                        *)
LEMMA SubtreeStays ==
    ASSUME NEW h, NEW g, NEW f, NEW e, Heap(h), Heap(g), SameNodes(h, g),
           SubtreeOn(h, f), SubtreeOn(g, e)
    PROVE  \A n \in 0 .. Len(h) : e[n] = f[n]
<1>1. /\ Len(h) \in Nat /\ Len(g) \in Nat /\ Len(h) <= Len(g)
      /\ \A n \in 1 .. Len(h) : h[n].left \in 0 .. n - 1 /\ h[n].right \in 0 .. n - 1
  BY NodeType DEF SameNodes
<1>2. f[0] = {} /\ e[0] = {}
  BY DEF SubtreeOn
<1>. DEFINE T == {n \in Nat : n <= Len(h) => e[n] = f[n]}
<1>3. ASSUME NEW n \in Nat, \A m \in Nat : m < n => m \in T
      PROVE  n \in T
  <2>. SUFFICES ASSUME n <= Len(h), n # 0
                PROVE  e[n] = f[n]
    BY <1>2
  <2>1. n \in 1 .. Len(h) /\ n \in 1 .. Len(g)
    BY <1>1
  <2>2. /\ h[n].left \in Nat /\ h[n].left < n /\ h[n].left <= Len(h)
        /\ h[n].right \in Nat /\ h[n].right < n /\ h[n].right <= Len(h)
    BY <1>1, <2>1
  <2>3. e[h[n].left] = f[h[n].left] /\ e[h[n].right] = f[h[n].right]
    BY <1>3, <2>2
  <2>4. g[n].left = h[n].left /\ g[n].right = h[n].right
    BY <2>1 DEF SameNodes
  <2>5. /\ f[n] = {n} \cup f[h[n].left] \cup f[h[n].right]
        /\ e[n] = {n} \cup e[g[n].left] \cup e[g[n].right]
    BY <2>1 DEF SubtreeOn
  <2>. QED  BY <2>3, <2>4, <2>5
<1>4. Nat \subseteq T
  <2>. HIDE DEF T
  <2>. QED  BY <1>3, StrongSetInduction
<1>. QED  BY <1>1, <1>4

(* So does the text of a node but for its own parentheses.                     *)
LEMMA FlatStays ==
    ASSUME NEW h, NEW g, NEW f, NEW e, Stays(h, g), TextOn(h, f), TextOn(g, e)
    PROVE  \A n \in 1 .. Len(h) : FlatOf(g, e, n) = FlatOf(h, f, n)
<1>1. /\ Len(h) \in Nat /\ Len(g) \in Nat /\ Len(h) <= Len(g)
      /\ \A n \in 1 .. Len(h) : h[n].left \in 0 .. n - 1 /\ h[n].right \in 0 .. n - 1
  BY NodeType DEF SameNodes, Stays
<1>2. f[0] = <<>> /\ e[0] = <<>>
  BY DEF TextOn
<1>. DEFINE T == {n \in Nat : n \in 1 .. Len(h) => FlatOf(g, e, n) = FlatOf(h, f, n)}
<1>3. ASSUME NEW n \in Nat, \A m \in Nat : m < n => m \in T
      PROVE  n \in T
  <2>. SUFFICES ASSUME n \in 1 .. Len(h)
                PROVE  FlatOf(g, e, n) = FlatOf(h, f, n)
    OBVIOUS
  <2>1. ASSUME NEW c \in {h[n].left, h[n].right}
        PROVE  e[c] = f[c]
    <3>1. CASE c = 0
      BY <1>2, <3>1
    <3>2. CASE c # 0
      <4>1. c \in 1 .. Len(h) /\ c \in 1 .. Len(g) /\ c \in Nat /\ c < n
        BY <1>1, <3>2
      <4>2. FlatOf(g, e, c) = FlatOf(h, f, c)
        BY <1>3, <4>1
      <4>3. BracedIn(g, c) <=> BracedIn(h, c)
        BY <3>2 DEF Stays, SameBraces, Null
      <4>4. /\ f[c] = IF BracedIn(h, c) THEN InBraces(FlatOf(h, f, c)) ELSE FlatOf(h, f, c)
            /\ e[c] = IF BracedIn(g, c) THEN InBraces(FlatOf(g, e, c)) ELSE FlatOf(g, e, c)
        BY <4>1 DEF TextOn
      <4>. QED  BY <4>2, <4>3, <4>4
    <3>. QED  BY <3>1, <3>2
  <2>2. g[n].left = h[n].left /\ g[n].right = h[n].right /\ g[n].text = h[n].text
    BY DEF Stays, SameNodes
  <2>. QED  BY <2>1, <2>2 DEF FlatOf
<1>4. Nat \subseteq T
  <2>. HIDE DEF T
  <2>. QED  BY <1>3, StrongSetInduction
<1>. QED  BY <1>1, <1>4

(* New nodes behind those of h.                                                *)
Prefix(h, g) == Len(h) <= Len(g) /\ \A n \in 1 .. Len(h) : g[n] = h[n]

(* New nodes that are linked with each other make a heap of a heap.            *)
LEMMA PrefixStays ==
    ASSUME NEW h, NEW g, Heap(h), Linked(h), Prefix(h, g), g \in Seq(Nodes),
           \A n \in Len(h) + 1 .. Len(g) :
               /\ g[n].left < n /\ g[n].right < n /\ g[n].parent <= Len(g)
               /\ \A c \in {g[n].left, g[n].right} : c # Null => g[c].parent # Null
    PROVE  Stays(h, g) /\ Linked(g)
<1>1. /\ Len(h) \in Nat /\ Len(g) \in Nat /\ Len(h) <= Len(g)
      /\ \A n \in 1 .. Len(h) : /\ h[n].left \in 0 .. n - 1 /\ h[n].right \in 0 .. n - 1
                                /\ h[n].left \in 0 .. Len(h) /\ h[n].right \in 0 .. Len(h)
                                /\ h[n].parent \in 0 .. Len(h)
                                /\ g[n] = h[n]
  BY NodeType, LenProperties DEF Prefix
<1>2. Heap(g)
  <2>1. ASSUME NEW n \in 1 .. Len(g)
        PROVE  g[n].left < n /\ g[n].right < n /\ g[n].parent <= Len(g)
    <3>1. CASE n \in 1 .. Len(h)
      BY <1>1, <3>1
    <3>2. CASE n \notin 1 .. Len(h)
      <4>1. n \in Len(h) + 1 .. Len(g)
        BY <1>1, <3>2
      <4>. QED  BY <4>1
    <3>. QED  BY <3>1, <3>2
  <2>. QED  BY <2>1 DEF Heap
<1>3. Linked(g)
  <2>1. ASSUME NEW n \in 1 .. Len(g), NEW c \in {g[n].left, g[n].right}, c # Null
        PROVE  g[c].parent # Null
    <3>1. CASE n \in 1 .. Len(h)
      <4>1. c \in {h[n].left, h[n].right}
        BY <1>1, <3>1
      <4>2. h[c].parent # Null
        BY <2>1, <3>1, <4>1 DEF Linked
      <4>3. c \in 1 .. Len(h)
        BY <1>1, <2>1, <3>1, <4>1 DEF Null
      <4>. QED  BY <1>1, <4>2, <4>3
    <3>2. CASE n \notin 1 .. Len(h)
      <4>1. n \in Len(h) + 1 .. Len(g)
        BY <1>1, <3>2
      <4>. QED  BY <2>1, <4>1
    <3>. QED  BY <3>1, <3>2
  <2>. QED  BY <2>1 DEF Linked
<1>4. SameNodes(h, g)
  BY <1>1 DEF SameNodes
<1>5. SameBraces(h, g)
  <2>1. ASSUME NEW n \in 1 .. Len(h), NEW c \in {h[n].left, h[n].right}, c # Null
        PROVE  BracedIn(g, c) <=> BracedIn(h, c)
    <3>1. c \in 1 .. Len(h)
      BY <1>1, <2>1 DEF Null
    <3>2. g[c] = h[c] /\ h[c].parent \in 0 .. Len(h)
      BY <1>1, <3>1
    <3>3. h[c].parent # Null => g[h[c].parent] = h[h[c].parent]
      BY <1>1, <3>2 DEF Null
    <3>. QED  BY <3>2, <3>3 DEF BracedIn
  <2>. QED  BY <2>1 DEF SameBraces
<1>. QED  BY <1>2, <1>3, <1>4, <1>5 DEF Stays

(* A node that is made.                                                        *)
LEMMA MadeNode ==
    \A ty \in Types, t \in Tokens, l, r, p \in Nat :
        /\ Node(ty, t, l, r, p) \in Nodes
        /\ Node(ty, t, l, r, p).type = ty /\ Node(ty, t, l, r, p).text = t
        /\ Node(ty, t, l, r, p).left = l /\ Node(ty, t, l, r, p).right = r
        /\ Node(ty, t, l, r, p).parent = p
BY DEF Node, Nodes

(* A node that is made is a node.                                              *)
LEMMA NodeMade ==
    ASSUME NEW ty \in Types, NEW t \in Tokens,
           NEW l \in Nat, NEW r \in Nat, NEW p \in Nat
    PROVE  Node(ty, t, l, r, p) \in Nodes
BY MadeNode

(* Words one behind the other.                                                 *)
IsTogether(S, x, y, z) ==
    /\ x \in Seq(S) /\ y \in Seq(S) /\ z \in Seq(S)
    /\ Len(z) = Len(x) + Len(y)
    /\ \A i \in 1 .. Len(x) : z[i] = x[i]
    /\ \A i \in 1 .. Len(y) : z[Len(x) + i] = y[i]

(* Such a sequence is the concatenation.                                       *)
LEMMA TwoTogether ==
    \A S, x, y, z : IsTogether(S, x, y, z) => x \o y = z
<1>. SUFFICES ASSUME NEW S, NEW x \in Seq(S), NEW y \in Seq(S), NEW z \in Seq(S),
                     Len(z) = Len(x) + Len(y),
                     \A i \in 1 .. Len(x) : z[i] = x[i],
                     \A i \in 1 .. Len(y) : z[Len(x) + i] = y[i]
              PROVE  x \o y = z
  BY Zenon DEF IsTogether
<1>. DEFINE t == x \o y
<1>1. Len(x) \in Nat /\ Len(y) \in Nat
  BY LenProperties
<1>2. /\ t \in Seq(S) /\ Len(t) = Len(x) + Len(y)
      /\ \A i \in 1 .. Len(x) + Len(y) : t[i] = IF i <= Len(x) THEN x[i] ELSE y[i - Len(x)]
  BY ConcatProperties
<1>. HIDE DEF t
<1>3. ASSUME NEW i \in 1 .. Len(t)
      PROVE  t[i] = z[i]
  <2>1. CASE i <= Len(x)
    BY <1>1, <1>2, <2>1
  <2>2. CASE ~(i <= Len(x))
    <3>1. i - Len(x) \in 1 .. Len(y) /\ Len(x) + (i - Len(x)) = i
      BY <1>1, <1>2, <2>2
    <3>. QED  BY <1>2, <2>2, <3>1
  <2>. QED  BY <2>1, <2>2
<1>4. t = z
  BY <1>2, <1>3, SeqEqual
<1>. QED  BY <1>4 DEF t

FiveWords(S, a, b, c, d, e) == a \in S /\ b \in S /\ c \in S /\ d \in S /\ e \in S

(* The texts of a comparison and of a range, word by word.                     *)
LEMMA WordsTogether ==
    \A S, a, b, c, d, e :
        FiveWords(S, a, b, c, d, e) =>
            /\ (<<a>> \o <<b>>) \o <<c>> = <<a, b, c>>
            /\ (<<a>> \o <<b>>) \o ((<<c>> \o <<d>>) \o <<e>>) = <<a, b, c, d, e>>
<1>. SUFFICES ASSUME NEW S,
                     NEW p, NEW q, NEW r, NEW t, NEW u, FiveWords(S, p, q, r, t, u)
              PROVE  /\ (<<p>> \o <<q>>) \o <<r>> = <<p, q, r>>
                     /\ (<<p>> \o <<q>>) \o ((<<r>> \o <<t>>) \o <<u>>)
                            = <<p, q, r, t, u>>
  OBVIOUS
<1>1. \A a, b \in S : <<a>> \o <<b>> = <<a, b>>
  <2>. SUFFICES ASSUME NEW a \in S, NEW b \in S
                PROVE  <<a>> \o <<b>> = <<a, b>>
    OBVIOUS
  <2>. DEFINE x == <<a>>
              y == <<b>>
              z == <<a, b>>
  <2>1. /\ x \in Seq(S) /\ y \in Seq(S) /\ z \in Seq(S)
        /\ Len(x) = 1 /\ Len(y) = 1 /\ Len(z) = 2
        /\ x[1] = a /\ y[1] = b /\ z[1] = a /\ z[2] = b
    OBVIOUS
  <2>. HIDE DEF x, y, z
  <2>2. (\A i \in 1 .. 1 : i = 1) /\ 1 + 1 = 2
    OBVIOUS
  <2>3. IsTogether(S, x, y, z)
    BY <2>1, <2>2 DEF IsTogether
  <2>4. x \o y = z
    BY <2>3, TwoTogether
  <2>. QED  BY <2>4 DEF x, y, z
<1>2. \A a, b, c \in S : <<a, b>> \o <<c>> = <<a, b, c>>
  <2>. SUFFICES ASSUME NEW a \in S, NEW b \in S, NEW c \in S
                PROVE  <<a, b>> \o <<c>> = <<a, b, c>>
    OBVIOUS
  <2>. DEFINE x == <<a, b>>
              y == <<c>>
              z == <<a, b, c>>
  <2>1. /\ x \in Seq(S) /\ y \in Seq(S) /\ z \in Seq(S)
        /\ Len(x) = 2 /\ Len(y) = 1 /\ Len(z) = 3
        /\ x[1] = a /\ x[2] = b /\ y[1] = c /\ z[1] = a /\ z[2] = b /\ z[3] = c
    OBVIOUS
  <2>. HIDE DEF x, y, z
  <2>2. (\A i \in 1 .. 1 : i = 1) /\ (\A i \in 1 .. 2 : i = 1 \/ i = 2) /\ 2 + 1 = 3
    OBVIOUS
  <2>3. \A i \in 1 .. Len(x) : z[i] = x[i]
    BY <2>1, <2>2
  <2>4. \A i \in 1 .. Len(y) : z[Len(x) + i] = y[i]
    BY <2>1, <2>2
  <2>5. IsTogether(S, x, y, z)
    BY <2>1, <2>2, <2>3, <2>4 DEF IsTogether
  <2>6. x \o y = z
    BY <2>5, TwoTogether
  <2>. QED  BY <2>6 DEF x, y, z
<1>3. \A a, b, c, d, e \in S : <<a, b>> \o <<c, d, e>> = <<a, b, c, d, e>>
  <2>. SUFFICES ASSUME NEW a \in S, NEW b \in S, NEW c \in S, NEW d \in S, NEW e \in S
                PROVE  <<a, b>> \o <<c, d, e>> = <<a, b, c, d, e>>
    BY Zenon
  <2>. DEFINE x == <<a, b>>
              y == <<c, d, e>>
              z == <<a, b, c, d, e>>
  <2>1. /\ x \in Seq(S) /\ y \in Seq(S) /\ z \in Seq(S)
        /\ Len(x) = 2 /\ Len(y) = 3 /\ Len(z) = 5
        /\ x[1] = a /\ x[2] = b /\ y[1] = c /\ y[2] = d /\ y[3] = e
        /\ z[1] = a /\ z[2] = b /\ z[3] = c /\ z[4] = d /\ z[5] = e
    OBVIOUS
  <2>. HIDE DEF x, y, z
  <2>2. /\ \A i \in 1 .. 2 : i = 1 \/ i = 2
        /\ \A i \in 1 .. 3 : i = 1 \/ i = 2 \/ i = 3
        /\ 2 + 1 = 3 /\ 2 + 2 = 4 /\ 2 + 3 = 5
    OBVIOUS
  <2>3. \A i \in 1 .. Len(x) : z[i] = x[i]
    BY <2>1, <2>2
  <2>4. \A i \in 1 .. Len(y) : z[Len(x) + i] = y[i]
    BY <2>1, <2>2
  <2>5. IsTogether(S, x, y, z)
    BY <2>1, <2>2, <2>3, <2>4 DEF IsTogether
  <2>6. x \o y = z
    BY <2>5, TwoTogether
  <2>. QED  BY <2>6 DEF x, y, z
<1>4. \A a, b, c \in S : (<<a>> \o <<b>>) \o <<c>> = <<a, b, c>>
  <2>. SUFFICES ASSUME NEW a \in S, NEW b \in S, NEW c \in S
                PROVE  (<<a>> \o <<b>>) \o <<c>> = <<a, b, c>>
    BY Zenon
  <2>1. <<a>> \o <<b>> = <<a, b>>
    BY <1>1
  <2>2. <<a, b>> \o <<c>> = <<a, b, c>>
    BY <1>2
  <2>. QED  BY <2>1, <2>2, Zenon
<1>5. p \in S /\ q \in S /\ r \in S /\ t \in S /\ u \in S
  BY DEF FiveWords
<1>6. (<<p>> \o <<q>>) \o <<r>> = <<p, q, r>>
  BY <1>4, <1>5
<1>7. (<<p>> \o <<q>>) \o ((<<r>> \o <<t>>) \o <<u>>) = <<p, q, r, t, u>>
  <2>1. <<p>> \o <<q>> = <<p, q>>
    BY <1>1, <1>5
  <2>2. (<<r>> \o <<t>>) \o <<u>> = <<r, t, u>>
    BY <1>4, <1>5
  <2>3. <<p, q>> \o <<r, t, u>> = <<p, q, r, t, u>>
    BY <1>3, <1>5
  <2>. QED  BY <2>1, <2>2, <2>3, Zenon
<1>. QED  BY <1>6, <1>7

(* New nodes put behind a heap.                                                *)
LEMMA PutBehind ==
    \A h, t \in Seq(Nodes) :
        /\ h \o t \in Seq(Nodes) /\ Len(h \o t) = Len(h) + Len(t)
        /\ Prefix(h, h \o t)
        /\ \A i \in 1 .. Len(t) : (h \o t)[Len(h) + i] = t[i]
<1>. SUFFICES ASSUME NEW h \in Seq(Nodes), NEW t \in Seq(Nodes)
              PROVE  /\ h \o t \in Seq(Nodes) /\ Len(h \o t) = Len(h) + Len(t)
                     /\ Prefix(h, h \o t)
                     /\ \A i \in 1 .. Len(t) : (h \o t)[Len(h) + i] = t[i]
  OBVIOUS
<1>. DEFINE g == h \o t
<1>1. Len(h) \in Nat /\ Len(t) \in Nat
  BY LenProperties
<1>2. /\ g \in Seq(Nodes) /\ Len(g) = Len(h) + Len(t)
      /\ \A i \in 1 .. Len(h) + Len(t) : g[i] = IF i <= Len(h) THEN h[i] ELSE t[i - Len(h)]
  BY ConcatProperties
<1>. HIDE DEF g
<1>3. Prefix(h, g)
  BY <1>1, <1>2 DEF Prefix
<1>4. ASSUME NEW i \in 1 .. Len(t)
      PROVE  g[Len(h) + i] = t[i]
  <2>1. /\ Len(h) + i \in 1 .. Len(h) + Len(t) /\ ~(Len(h) + i <= Len(h))
        /\ (Len(h) + i) - Len(h) = i
    BY <1>1
  <2>. QED  BY <1>2, <2>1
<1>. QED  BY <1>2, <1>3, <1>4 DEF g

(* The same for one node.                                                      *)
LEMMA PutOneBehind ==
    \A h \in Seq(Nodes), x \in Nodes :
        /\ Append(h, x) \in Seq(Nodes) /\ Len(Append(h, x)) = Len(h) + 1
        /\ Prefix(h, Append(h, x)) /\ Append(h, x)[Len(h) + 1] = x
<1>. SUFFICES ASSUME NEW h \in Seq(Nodes), NEW x \in Nodes
              PROVE  /\ Append(h, x) \in Seq(Nodes) /\ Len(Append(h, x)) = Len(h) + 1
                     /\ Prefix(h, Append(h, x)) /\ Append(h, x)[Len(h) + 1] = x
  OBVIOUS
<1>1. /\ Append(h, x) \in Seq(Nodes) /\ Len(Append(h, x)) = Len(h) + 1
      /\ \A i \in 1 .. Len(h) : Append(h, x)[i] = h[i]
      /\ Append(h, x)[Len(h) + 1] = x /\ Len(h) \in Nat
  BY AppendProperties, LenProperties
<1>. QED  BY <1>1 DEF Prefix

(* One node without children.                                                  *)
LEMMA LeafHeap ==
    \A h, x : (/\ Heap(h) /\ Linked(h)
               /\ x \in Nodes /\ x.left = Null /\ x.right = Null /\ x.parent = Null) =>
        /\ Stays(h, Append(h, x)) /\ Linked(Append(h, x))
        /\ Len(Append(h, x)) = Len(h) + 1 /\ Append(h, x)[Len(h) + 1] = x
        /\ Prefix(h, Append(h, x))
<1>. SUFFICES ASSUME NEW h, NEW x, Heap(h), Linked(h),
                     x \in Nodes, x.left = Null, x.right = Null, x.parent = Null
              PROVE  /\ Stays(h, Append(h, x)) /\ Linked(Append(h, x))
                     /\ Len(Append(h, x)) = Len(h) + 1 /\ Append(h, x)[Len(h) + 1] = x
                     /\ Prefix(h, Append(h, x))
  BY Zenon
<1>. DEFINE g == Append(h, x)
<1>1. h \in Seq(Nodes) /\ Len(h) \in Nat
  BY LenProperties DEF Heap
<1>2. g \in Seq(Nodes) /\ Len(g) = Len(h) + 1 /\ Prefix(h, g) /\ g[Len(h) + 1] = x
  BY <1>1, PutOneBehind
<1>. HIDE DEF g
<1>3. ASSUME NEW n \in Len(h) + 1 .. Len(g)
      PROVE  /\ g[n].left < n /\ g[n].right < n /\ g[n].parent <= Len(g)
             /\ \A c \in {g[n].left, g[n].right} : c # Null => g[c].parent # Null
  <2>1. n = Len(h) + 1
    BY <1>1, <1>2
  <2>2. g[n].left = 0 /\ g[n].right = 0 /\ g[n].parent = 0
    BY <1>2, <2>1 DEF Null
  <2>. QED  BY <1>1, <1>2, <2>1, <2>2 DEF Null
<1>4. Stays(h, g) /\ Linked(g)
  BY <1>2, <1>3, PrefixStays
<1>. QED  BY <1>2, <1>4 DEF g

(* The nodes of a comparison.                                                  *)
ComparisonOn(h, g, c) ==
    LET k == Len(h) + 1
    IN  /\ g \in Seq(Nodes) /\ Len(g) = Len(h) + 3 /\ Prefix(h, g)
        /\ g[k] = Node("field", <<c[1]>>, Null, Null, k + 2)
        /\ g[k + 1] = Node("value", <<c[3]>>, Null, Null, k + 2)
        /\ g[k + 2] = Node("operator", <<c[2]>>, k, k + 1, Null)

(* They are the nodes that Simple puts behind a heap.                         *)
LEMMA SimpleNodes ==
    ASSUME NEW h, NEW c, Heap(h), c \in Comparisons
    PROVE  /\ ComparisonOn(h, h \o Simple(c, Len(h) + 1), c)
           /\ c = <<c[1], c[2], c[3]>> /\ c[1] \in Names /\ c[2] \in Names /\ c[3] \in Names
<1>. DEFINE k == Len(h) + 1
            x == Node("field", <<c[1]>>, Null, Null, k + 2)
            y == Node("value", <<c[3]>>, Null, Null, k + 2)
            z == Node("operator", <<c[2]>>, k, k + 1, Null)
<1>1. c = <<c[1], c[2], c[3]>> /\ c[1] \in Names /\ c[2] \in Names /\ c[3] \in Names
  <2>1. PICK f \in Names, op \in Names, v \in Names : c = <<f, op, v>>
    BY ConditionsAssumption
  <2>. QED  BY <2>1
<1>2. h \in Seq(Nodes) /\ Len(h) \in Nat /\ k \in Nat
  BY LenProperties DEF Heap
<1>3. x \in Nodes /\ y \in Nodes /\ z \in Nodes
  <2>1. <<c[1]>> \in Tokens /\ <<c[2]>> \in Tokens /\ <<c[3]>> \in Tokens
    BY <1>1, TextsTogether
  <2>2. "field" \in Types /\ "value" \in Types /\ "operator" \in Types
    BY DEF Types
  <2>3. k + 1 \in Nat /\ k + 2 \in Nat /\ Null \in Nat
    BY <1>2 DEF Null
  <2>. HIDE DEF k
  <2>4. x \in Nodes
    BY <2>1, <2>2, <2>3, NodeMade
  <2>5. y \in Nodes
    BY <2>1, <2>2, <2>3, NodeMade
  <2>6. z \in Nodes
    BY <1>2, <2>1, <2>2, <2>3, NodeMade
  <2>. QED  BY <2>4, <2>5, <2>6
<1>4. /\ <<x, y, z>> \in Seq(Nodes) /\ Len(<<x, y, z>>) = 3
      /\ <<x, y, z>>[1] = x /\ <<x, y, z>>[2] = y /\ <<x, y, z>>[3] = z
  <2>. HIDE DEF x, y, z
  <2>. QED  BY <1>3
<1>. DEFINE t == <<x, y, z>>
            g == h \o t
<1>5. /\ g \in Seq(Nodes) /\ Len(g) = Len(h) + Len(t) /\ Prefix(h, g)
      /\ \A i \in 1 .. Len(t) : g[Len(h) + i] = t[i]
  <2>. HIDE DEF t
  <2>1. t \in Seq(Nodes)
    BY <1>4 DEF t
  <2>. QED  BY <1>2, <2>1, PutBehind
<1>6. /\ Len(g) = Len(h) + 3
      /\ g[Len(h) + 1] = x /\ g[Len(h) + 2] = y /\ g[Len(h) + 3] = z
  <2>1. 1 \in 1 .. Len(t) /\ 2 \in 1 .. Len(t) /\ 3 \in 1 .. Len(t)
    BY <1>4
  <2>. HIDE DEF g, x, y, z
  <2>. QED  BY <1>4, <1>5, <2>1
<1>7. Len(h) + 2 = k + 1 /\ Len(h) + 3 = k + 2
  BY <1>2
<1>8. ComparisonOn(h, g, c)
  <2>. HIDE DEF g
  <2>. QED  BY <1>5, <1>6, <1>7 DEF ComparisonOn
<1>. QED  BY <1>1, <1>8 DEF Simple

(* They are linked with each other, the operator above the others.             *)
LEMMA ComparisonHeap ==
    ASSUME NEW h, NEW g, NEW c, Heap(h), Linked(h), c \in Comparisons, ComparisonOn(h, g, c)
    PROVE  /\ Stays(h, g) /\ Linked(g)
           /\ g[Len(g)].parent = Null /\ g[Len(g)].type = "operator"
           /\ \A f : SubtreeOn(g, f) => Len(h) + 1 .. Len(g) \subseteq f[Len(g)]
           /\ \A f : TextOn(g, f) => FlatOf(g, f, Len(g)) = c
<1>. DEFINE k == Len(h) + 1
            x == Node("field", <<c[1]>>, Null, Null, k + 2)
            y == Node("value", <<c[3]>>, Null, Null, k + 2)
            z == Node("operator", <<c[2]>>, k, k + 1, Null)
<1>1. /\ g \in Seq(Nodes) /\ Len(g) = Len(h) + 3 /\ Prefix(h, g)
      /\ g[k] = x /\ g[k + 1] = y /\ g[k + 2] = z
  BY DEF ComparisonOn
<1>2. Len(h) \in Nat /\ k \in Nat /\ Len(g) = k + 2
  BY <1>1, LenProperties DEF Heap
<1>3. /\ x.left = 0 /\ x.right = 0 /\ x.parent = k + 2 /\ x.text = <<c[1]>>
      /\ y.left = 0 /\ y.right = 0 /\ y.parent = k + 2 /\ y.text = <<c[3]>>
      /\ z.left = k /\ z.right = k + 1 /\ z.parent = 0 /\ z.text = <<c[2]>>
      /\ x.type = "field" /\ y.type = "value" /\ z.type = "operator"
  BY DEF Node, Null
<1>. HIDE DEF x, y, z
<1>4. ASSUME NEW n \in Len(h) + 1 .. Len(g)
      PROVE  /\ g[n].left < n /\ g[n].right < n /\ g[n].parent <= Len(g)
             /\ \A d \in {g[n].left, g[n].right} : d # Null => g[d].parent # Null
  <2>1. CASE n = k
    BY <1>1, <1>2, <1>3, <2>1 DEF Null
  <2>2. CASE n = k + 1
    BY <1>1, <1>2, <1>3, <2>2 DEF Null
  <2>3. CASE n = k + 2
    BY <1>1, <1>2, <1>3, <2>3 DEF Null
  <2>. QED  BY <1>2, <2>1, <2>2, <2>3
<1>5. Stays(h, g) /\ Linked(g)
  BY <1>1, <1>4, PrefixStays
<1>6. g[Len(g)].parent = Null /\ g[Len(g)].type = "operator"
  BY <1>1, <1>2, <1>3 DEF Null
<1>7. k \in 1 .. Len(g) /\ k + 1 \in 1 .. Len(g) /\ k + 2 \in 1 .. Len(g)
  BY <1>2
<1>8. ASSUME NEW f, SubtreeOn(g, f)
      PROVE  Len(h) + 1 .. Len(g) \subseteq f[Len(g)]
  <2>1. /\ f[0] = {}
        /\ f[k] = {k} \cup f[0] \cup f[0]
        /\ f[k + 1] = {k + 1} \cup f[0] \cup f[0]
        /\ f[k + 2] = {k + 2} \cup f[k] \cup f[k + 1]
    BY <1>1, <1>3, <1>7, <1>8 DEF SubtreeOn
  <2>2. k \in f[k + 2] /\ k + 1 \in f[k + 2] /\ k + 2 \in f[k + 2]
    BY <2>1
  <2>3. \A n \in Len(h) + 1 .. Len(g) : n = k \/ n = k + 1 \/ n = k + 2
    BY <1>2
  <2>. QED  BY <1>2, <2>2, <2>3
<1>9. ASSUME NEW f, TextOn(g, f)
      PROVE  FlatOf(g, f, Len(g)) = c
  <2>1. \A s \in Tokens : (<<>> \o s) \o <<>> = s
    BY ConcatEmptySeq DEF Tokens
  <2>2. c = <<c[1], c[2], c[3]>> /\ c[1] \in Names /\ c[2] \in Names /\ c[3] \in Names
    BY SimpleNodes
  <2>3. <<c[1]>> \in Tokens /\ <<c[2]>> \in Tokens /\ <<c[3]>> \in Tokens
    BY <2>2, TextsTogether
  <2>4. ~BracedIn(g, k) /\ ~BracedIn(g, k + 1)
    BY <1>1, <1>3 DEF BracedIn
  <2>5. /\ f[0] = <<>>
        /\ f[k] = FlatOf(g, f, k)
        /\ f[k + 1] = FlatOf(g, f, k + 1)
    BY <1>7, <1>9, <2>4 DEF TextOn
  <2>6. f[k] = <<c[1]>> /\ f[k + 1] = <<c[3]>>
    <3>1. /\ FlatOf(g, f, k) = (<<>> \o <<c[1]>>) \o <<>>
          /\ FlatOf(g, f, k + 1) = (<<>> \o <<c[3]>>) \o <<>>
      BY <1>1, <1>3, <2>5 DEF FlatOf
    <3>. QED  BY <2>1, <2>3, <2>5, <3>1
  <2>7. FlatOf(g, f, k + 2) = (<<c[1]>> \o <<c[2]>>) \o <<c[3]>>
    BY <1>1, <1>3, <2>6 DEF FlatOf
  <2>8. (<<c[1]>> \o <<c[2]>>) \o <<c[3]>> = <<c[1], c[2], c[3]>>
    <3>1. FiveWords(Names, c[1], c[2], c[3], c[1], c[1])
      BY <2>2 DEF FiveWords
    <3>. QED  BY <3>1, WordsTogether
  <2>. QED  BY <1>2, <2>2, <2>7, <2>8
<1>. QED  BY <1>5, <1>6, <1>8, <1>9

(* The nodes of a range, the AND of the bounds to the right of the BETWEEN.    *)
RangeOn(h, g, c) ==
    LET k == Len(h) + 1
    IN  /\ g \in Seq(Nodes) /\ Len(g) = Len(h) + 5 /\ Prefix(h, g)
        /\ g[k] = Node("field", <<c[1]>>, Null, Null, k + 4)
        /\ g[k + 1] = Node("value", <<c[3]>>, Null, Null, k + 3)
        /\ g[k + 2] = Node("value", <<c[5]>>, Null, Null, k + 3)
        /\ g[k + 3] = Node("operator", <<c[4]>>, k + 1, k + 2, k + 4)
        /\ g[k + 4] = Node("operator", <<c[2]>>, k, k + 3, Null)

(* They are the nodes that Bounded puts behind a heap.                        *)
LEMMA BoundedNodes ==
    ASSUME NEW h, NEW c, Heap(h), c \in Ranges
    PROVE  /\ RangeOn(h, h \o Bounded(c, Len(h) + 1), c)
           /\ c = <<c[1], c[2], c[3], c[4], c[5]>>
           /\ c[2] = "BETWEEN" /\ c[4] = "AND"
           /\ c[1] \in Names /\ c[3] \in Names /\ c[5] \in Names
<1>. DEFINE k == Len(h) + 1
            x1 == Node("field", <<c[1]>>, Null, Null, k + 4)
            x2 == Node("value", <<c[3]>>, Null, Null, k + 3)
            x3 == Node("value", <<c[5]>>, Null, Null, k + 3)
            x4 == Node("operator", <<c[4]>>, k + 1, k + 2, k + 4)
            x5 == Node("operator", <<c[2]>>, k, k + 3, Null)
<1>1. /\ c = <<c[1], c[2], c[3], c[4], c[5]>>
      /\ c[2] = "BETWEEN" /\ c[4] = "AND"
      /\ c[1] \in Names /\ c[3] \in Names /\ c[5] \in Names
  <2>1. PICK f \in Names, min \in Names, max \in Names : c = <<f, "BETWEEN", min, "AND", max>>
    BY ConditionsAssumption
  <2>. QED  BY <2>1
<1>2. h \in Seq(Nodes) /\ Len(h) \in Nat /\ k \in Nat
  BY LenProperties DEF Heap
<1>3. x1 \in Nodes /\ x2 \in Nodes /\ x3 \in Nodes /\ x4 \in Nodes /\ x5 \in Nodes
  <2>1. \A i \in 1 .. 5 : <<c[i]>> \in Tokens
    <3>1. "BETWEEN" \in Names \cup Marks /\ "AND" \in Names \cup Marks
      BY DEF Marks
    <3>2. \A i \in 1 .. 5 : c[i] \in Names \cup Marks
      <4>1. \A i \in 1 .. 5 : i = 1 \/ i = 2 \/ i = 3 \/ i = 4 \/ i = 5
        OBVIOUS
      <4>. QED  BY <1>1, <3>1, <4>1
    <3>. QED  BY <3>2, TextsTogether
  <2>2. /\ <<c[1]>> \in Tokens /\ <<c[2]>> \in Tokens /\ <<c[3]>> \in Tokens
        /\ <<c[4]>> \in Tokens /\ <<c[5]>> \in Tokens
    BY <2>1
  <2>3. "field" \in Types /\ "value" \in Types /\ "operator" \in Types
    BY DEF Types
  <2>4. k + 1 \in Nat /\ k + 2 \in Nat /\ k + 3 \in Nat /\ k + 4 \in Nat /\ Null \in Nat
    BY <1>2 DEF Null
  <2>. HIDE DEF k
  <2>5. x1 \in Nodes
    <3>1. \A t \in Tokens, p \in Nat : Node("field", t, Null, Null, p) \in Nodes
      BY <2>3, <2>4, MadeNode
    <3>. QED  BY <2>2, <2>4, <3>1
  <2>6. x2 \in Nodes
    BY <2>2, <2>3, <2>4, NodeMade
  <2>7. x3 \in Nodes
    BY <2>2, <2>3, <2>4, NodeMade
  <2>8. x4 \in Nodes
    BY <2>2, <2>3, <2>4, NodeMade
  <2>9. x5 \in Nodes
    BY <1>2, <2>2, <2>3, <2>4, NodeMade
  <2>. QED  BY <2>5, <2>6, <2>7, <2>8, <2>9
<1>. DEFINE t == <<x1, x2, x3, x4, x5>>
            g == h \o t
<1>4. /\ t \in Seq(Nodes) /\ Len(t) = 5
      /\ t[1] = x1 /\ t[2] = x2 /\ t[3] = x3 /\ t[4] = x4 /\ t[5] = x5
  <2>. HIDE DEF x1, x2, x3, x4, x5
  <2>. QED  BY <1>3
<1>5. /\ g \in Seq(Nodes) /\ Len(g) = Len(h) + Len(t) /\ Prefix(h, g)
      /\ \A i \in 1 .. Len(t) : g[Len(h) + i] = t[i]
  <2>. HIDE DEF t
  <2>. QED  BY <1>2, <1>4, PutBehind
<1>6. /\ Len(g) = Len(h) + 5
      /\ g[Len(h) + 1] = x1 /\ g[Len(h) + 2] = x2 /\ g[Len(h) + 3] = x3
      /\ g[Len(h) + 4] = x4 /\ g[Len(h) + 5] = x5
  <2>. HIDE DEF t
  <2>1. /\ 1 \in 1 .. Len(t) /\ 2 \in 1 .. Len(t) /\ 3 \in 1 .. Len(t)
        /\ 4 \in 1 .. Len(t) /\ 5 \in 1 .. Len(t)
    BY <1>4
  <2>. HIDE DEF g, x1, x2, x3, x4, x5
  <2>. QED  BY <1>4, <1>5, <2>1
<1>7. Len(h) + 2 = k + 1 /\ Len(h) + 3 = k + 2 /\ Len(h) + 4 = k + 3 /\ Len(h) + 5 = k + 4
  BY <1>2
<1>8. RangeOn(h, g, c)
  <2>. HIDE DEF g
  <2>. QED  BY <1>5, <1>6, <1>7 DEF RangeOn
<1>. QED  BY <1>1, <1>8 DEF Bounded

(* They are linked with each other, the BETWEEN above the others, and its      *)
(* bounds go without parentheses.                                              *)
LEMMA RangeHeap ==
    ASSUME NEW h, NEW g, NEW c, Heap(h), Linked(h), c \in Ranges, RangeOn(h, g, c)
    PROVE  /\ Stays(h, g) /\ Linked(g)
           /\ g[Len(g)].parent = Null /\ g[Len(g)].type = "operator"
           /\ \A f : SubtreeOn(g, f) => Len(h) + 1 .. Len(g) \subseteq f[Len(g)]
           /\ \A f : TextOn(g, f) => FlatOf(g, f, Len(g)) = c
<1>. DEFINE k == Len(h) + 1
            x1 == Node("field", <<c[1]>>, Null, Null, k + 4)
            x2 == Node("value", <<c[3]>>, Null, Null, k + 3)
            x3 == Node("value", <<c[5]>>, Null, Null, k + 3)
            x4 == Node("operator", <<c[4]>>, k + 1, k + 2, k + 4)
            x5 == Node("operator", <<c[2]>>, k, k + 3, Null)
<1>1. /\ g \in Seq(Nodes) /\ Len(g) = Len(h) + 5 /\ Prefix(h, g)
      /\ g[k] = x1 /\ g[k + 1] = x2 /\ g[k + 2] = x3 /\ g[k + 3] = x4 /\ g[k + 4] = x5
  BY DEF RangeOn
<1>2. Len(h) \in Nat /\ k \in Nat /\ Len(g) = k + 4
  BY <1>1, LenProperties DEF Heap
<1>3. /\ x1.left = 0 /\ x1.right = 0 /\ x1.parent = k + 4 /\ x1.text = <<c[1]>>
      /\ x2.left = 0 /\ x2.right = 0 /\ x2.parent = k + 3 /\ x2.text = <<c[3]>>
      /\ x3.left = 0 /\ x3.right = 0 /\ x3.parent = k + 3 /\ x3.text = <<c[5]>>
      /\ x4.left = k + 1 /\ x4.right = k + 2 /\ x4.parent = k + 4 /\ x4.text = <<c[4]>>
      /\ x5.left = k /\ x5.right = k + 3 /\ x5.parent = 0 /\ x5.text = <<c[2]>>
      /\ x1.type = "field" /\ x2.type = "value" /\ x3.type = "value" /\ x5.type = "operator"
  BY DEF Node, Null
<1>. HIDE DEF x1, x2, x3, x4, x5
<1>4. ASSUME NEW n \in Len(h) + 1 .. Len(g)
      PROVE  /\ g[n].left < n /\ g[n].right < n /\ g[n].parent <= Len(g)
             /\ \A d \in {g[n].left, g[n].right} : d # Null => g[d].parent # Null
  <2>1. CASE n = k
    BY <1>1, <1>2, <1>3, <2>1 DEF Null
  <2>2. CASE n = k + 1
    BY <1>1, <1>2, <1>3, <2>2 DEF Null
  <2>3. CASE n = k + 2
    BY <1>1, <1>2, <1>3, <2>3 DEF Null
  <2>4. CASE n = k + 3
    BY <1>1, <1>2, <1>3, <2>4 DEF Null
  <2>5. CASE n = k + 4
    BY <1>1, <1>2, <1>3, <2>5 DEF Null
  <2>. QED  BY <1>2, <2>1, <2>2, <2>3, <2>4, <2>5
<1>5. Stays(h, g) /\ Linked(g)
  BY <1>1, <1>4, PrefixStays
<1>6. g[Len(g)].parent = Null /\ g[Len(g)].type = "operator"
  BY <1>1, <1>2, <1>3 DEF Null
<1>7. /\ k \in 1 .. Len(g) /\ k + 1 \in 1 .. Len(g) /\ k + 2 \in 1 .. Len(g)
      /\ k + 3 \in 1 .. Len(g) /\ k + 4 \in 1 .. Len(g)
  BY <1>2
<1>8. ASSUME NEW f, SubtreeOn(g, f)
      PROVE  Len(h) + 1 .. Len(g) \subseteq f[Len(g)]
  <2>1. /\ f[0] = {}
        /\ f[k] = {k} \cup f[0] \cup f[0]
        /\ f[k + 1] = {k + 1} \cup f[0] \cup f[0]
        /\ f[k + 2] = {k + 2} \cup f[0] \cup f[0]
        /\ f[k + 3] = {k + 3} \cup f[k + 1] \cup f[k + 2]
        /\ f[k + 4] = {k + 4} \cup f[k] \cup f[k + 3]
    BY <1>1, <1>3, <1>7, <1>8 DEF SubtreeOn
  <2>2. /\ k \in f[k + 4] /\ k + 1 \in f[k + 4] /\ k + 2 \in f[k + 4]
        /\ k + 3 \in f[k + 4] /\ k + 4 \in f[k + 4]
    BY <2>1
  <2>3. \A n \in Len(h) + 1 .. Len(g) :
            n = k \/ n = k + 1 \/ n = k + 2 \/ n = k + 3 \/ n = k + 4
    BY <1>2
  <2>. QED  BY <1>2, <2>2, <2>3
<1>9. ASSUME NEW f, TextOn(g, f)
      PROVE  FlatOf(g, f, Len(g)) = c
  <2>1. \A s \in Tokens : (<<>> \o s) \o <<>> = s
    BY ConcatEmptySeq DEF Tokens
  <2>2. /\ c = <<c[1], c[2], c[3], c[4], c[5]>>
        /\ c[2] = "BETWEEN" /\ c[4] = "AND"
        /\ c[1] \in Names /\ c[3] \in Names /\ c[5] \in Names
    BY BoundedNodes
  <2>3. <<c[1]>> \in Tokens /\ <<c[3]>> \in Tokens /\ <<c[5]>> \in Tokens
    BY <2>2, TextsTogether
  <2>4. ~BracedIn(g, k) /\ ~BracedIn(g, k + 1) /\ ~BracedIn(g, k + 2)
    BY <1>1, <1>3 DEF BracedIn
  <2>5. ~BracedIn(g, k + 3)
    BY <1>1, <1>3, <2>2 DEF BracedIn
  <2>6. /\ f[0] = <<>>
        /\ f[k] = FlatOf(g, f, k)
        /\ f[k + 1] = FlatOf(g, f, k + 1)
        /\ f[k + 2] = FlatOf(g, f, k + 2)
        /\ f[k + 3] = FlatOf(g, f, k + 3)
    BY <1>7, <1>9, <2>4, <2>5 DEF TextOn
  <2>7. f[k] = <<c[1]>> /\ f[k + 1] = <<c[3]>> /\ f[k + 2] = <<c[5]>>
    <3>1. /\ FlatOf(g, f, k) = (<<>> \o <<c[1]>>) \o <<>>
          /\ FlatOf(g, f, k + 1) = (<<>> \o <<c[3]>>) \o <<>>
          /\ FlatOf(g, f, k + 2) = (<<>> \o <<c[5]>>) \o <<>>
      BY <1>1, <1>3, <2>6 DEF FlatOf
    <3>. QED  BY <2>1, <2>3, <2>6, <3>1
  <2>8. FlatOf(g, f, k + 3) = (<<c[3]>> \o <<c[4]>>) \o <<c[5]>>
    BY <1>1, <1>3, <2>7 DEF FlatOf
  <2>9. FlatOf(g, f, k + 4) = (<<c[1]>> \o <<c[2]>>) \o ((<<c[3]>> \o <<c[4]>>) \o <<c[5]>>)
    BY <1>1, <1>3, <2>6, <2>7, <2>8 DEF FlatOf
  <2>10. (<<c[1]>> \o <<c[2]>>) \o ((<<c[3]>> \o <<c[4]>>) \o <<c[5]>>)
             = <<c[1], c[2], c[3], c[4], c[5]>>
    <3>1. "BETWEEN" \in Names \cup Marks /\ "AND" \in Names \cup Marks
      BY DEF Marks
    <3>2. FiveWords(Names \cup Marks, c[1], c[2], c[3], c[4], c[5])
      BY <2>2, <3>1 DEF FiveWords
    <3>. QED  BY <3>2, WordsTogether
  <2>. QED  BY <1>2, <2>2, <2>9, <2>10
<1>. QED  BY <1>5, <1>6, <1>8, <1>9

(* A node that gets another parent.                                            *)
IsReparented(x, p, y) == x \in Nodes /\ p \in Nat /\ y = [x EXCEPT !.parent = p]

(* Nothing but its parent has changed.                                        *)
LEMMA Reparented ==
    \A x, p, y : IsReparented(x, p, y) =>
        /\ y \in Nodes /\ y.parent = p
        /\ y.type = x.type /\ y.text = x.text /\ y.left = x.left /\ y.right = x.right
BY DEF Nodes, IsReparented

(* A node that may be joined: nothing above it, or an operator above it that   *)
(* wants parentheses.                                                          *)
Rooted(h, n) ==
    /\ n \in 0 .. Len(h)
    /\ (n # Null /\ h[n].parent # Null) => h[h[n].parent].text # <<"BETWEEN">>

(* Two nodes joined under a new one.                                           *)
JoinOn(h, g, op, l, r) ==
    LET new == Len(h) + 1
    IN  /\ Len(g) = new /\ g[new] = Node("operator", <<op>>, l, r, Null)
        /\ \A n \in 1 .. Len(h) :
               g[n] = IF n \in {l, r} THEN [h[n] EXCEPT !.parent = new] ELSE h[n]

(* Old nodes of joined trees.                                                  *)
LEMMA JoinedNodes ==
    ASSUME NEW h, NEW g, NEW op \in {"AND", "OR"}, NEW l \in 1 .. Len(h), NEW r \in 1 .. Len(h),
           Heap(h), JoinOn(h, g, op, l, r)
    PROVE  /\ SameNodes(h, g)
           /\ \A n \in 1 .. Len(h) :
                  /\ g[n] \in Nodes
                  /\ g[n].parent = IF n \in {l, r} THEN Len(h) + 1 ELSE h[n].parent
           /\ g[Len(h) + 1] \in Nodes /\ g[Len(h) + 1].type = "operator"
           /\ g[Len(h) + 1].text = <<op>> /\ g[Len(h) + 1].text # <<"BETWEEN">>
           /\ g[Len(h) + 1].left = l /\ g[Len(h) + 1].right = r
           /\ g[Len(h) + 1].parent = Null
           /\ Len(g) = Len(h) + 1
<1>1. Len(h) \in Nat /\ Len(h) + 1 \in Nat /\ \A n \in 1 .. Len(h) : h[n] \in Nodes
  BY NodeType
<1>2. Len(g) = Len(h) + 1
  BY DEF JoinOn
<1>3. ASSUME NEW n \in 1 .. Len(h)
      PROVE  /\ g[n] \in Nodes
             /\ g[n].parent = IF n \in {l, r} THEN Len(h) + 1 ELSE h[n].parent
             /\ g[n].type = h[n].type /\ g[n].text = h[n].text
             /\ g[n].left = h[n].left /\ g[n].right = h[n].right
  <2>1. CASE n \in {l, r}
    <3>1. g[n] = [h[n] EXCEPT !.parent = Len(h) + 1]
      BY <2>1 DEF JoinOn
    <3>2. IsReparented(h[n], Len(h) + 1, g[n])
      BY <1>1, <3>1 DEF IsReparented
    <3>. QED  BY <2>1, <3>2, Reparented
  <2>2. CASE n \notin {l, r}
    <3>1. g[n] = h[n]
      BY <2>2 DEF JoinOn
    <3>. QED  BY <1>1, <2>2, <3>1
  <2>. QED  BY <2>1, <2>2
<1>4. /\ g[Len(h) + 1] \in Nodes /\ g[Len(h) + 1].type = "operator"
      /\ g[Len(h) + 1].text = <<op>>
      /\ g[Len(h) + 1].left = l /\ g[Len(h) + 1].right = r /\ g[Len(h) + 1].parent = Null
  <2>1. <<op>> \in Tokens
    <3>1. op \in Names \cup Marks
      BY DEF Marks
    <3>. QED  BY <3>1, TextsTogether
  <2>2. "operator" \in Types /\ l \in Nat /\ r \in Nat /\ Null \in Nat
    BY DEF Types, Null
  <2>3. g[Len(h) + 1] = Node("operator", <<op>>, l, r, Null)
    BY DEF JoinOn
  <2>. QED  BY <2>1, <2>2, <2>3, MadeNode
<1>5. <<op>> # <<"BETWEEN">>
  OBVIOUS
<1>6. SameNodes(h, g)
  <2>1. Len(h) <= Len(g)
    BY <1>1, <1>2
  <2>. QED  BY <1>3, <2>1 DEF SameNodes
<1>. QED  BY <1>2, <1>3, <1>4, <1>5, <1>6

(* A join makes a heap of a heap, and nothing that was there looks different.  *)
LEMMA JoinHeap ==
    ASSUME NEW h, NEW g, NEW op \in {"AND", "OR"}, NEW l \in 1 .. Len(h), NEW r \in 1 .. Len(h),
           Heap(h), Linked(h), g \in Seq(Nodes), JoinOn(h, g, op, l, r),
           Rooted(h, l), Rooted(h, r)
    PROVE  /\ Stays(h, g) /\ Linked(g)
           /\ \A n : Rooted(h, n) => Rooted(g, n)
           /\ Rooted(g, Len(g))
<1>1. /\ SameNodes(h, g)
      /\ \A n \in 1 .. Len(h) :
             /\ g[n] \in Nodes
             /\ g[n].parent = IF n \in {l, r} THEN Len(h) + 1 ELSE h[n].parent
             /\ g[n].left = h[n].left /\ g[n].right = h[n].right
             /\ g[n].type = h[n].type /\ g[n].text = h[n].text
      /\ g[Len(h) + 1].text # <<"BETWEEN">>
      /\ g[Len(h) + 1].left = l /\ g[Len(h) + 1].right = r
      /\ g[Len(h) + 1].parent = 0 /\ Len(g) = Len(h) + 1
  BY JoinedNodes DEF SameNodes, Null
<1>2. /\ Len(h) \in Nat
      /\ \A n \in 1 .. Len(h) : /\ h[n].left \in 0 .. n - 1 /\ h[n].right \in 0 .. n - 1
                                /\ h[n].left \in 0 .. Len(h) /\ h[n].right \in 0 .. Len(h)
                                /\ h[n].parent \in 0 .. Len(h)
  BY NodeType
<1>3. \A n \in 1 .. Len(g) : n \notin 1 .. Len(h) => n = Len(h) + 1
  <2>1. Len(g) = Len(h) + 1 /\ Len(h) \in Nat
    BY <1>1, <1>2
  <2>. QED  BY <2>1
<1>4. Heap(g)
  <2>1. ASSUME NEW n \in 1 .. Len(g)
        PROVE  g[n].left < n /\ g[n].right < n /\ g[n].parent <= Len(g)
    <3>1. CASE n \in 1 .. Len(h)
      <4>1. g[n].left = h[n].left /\ g[n].right = h[n].right
        BY <1>1, <3>1
      <4>2. g[n].parent = Len(h) + 1 \/ g[n].parent = h[n].parent
        BY <1>1, <3>1
      <4>. QED  BY <1>1, <1>2, <3>1, <4>1, <4>2
    <3>2. CASE n \notin 1 .. Len(h)
      <4>1. n = Len(h) + 1
        BY <1>3, <3>2
      <4>. QED  BY <1>1, <1>2, <4>1
    <3>. QED  BY <3>1, <3>2
  <2>. QED  BY <2>1 DEF Heap
<1>5. Linked(g)
  <2>1. ASSUME NEW n \in 1 .. Len(g), NEW c \in {g[n].left, g[n].right}, c # 0
        PROVE  g[c].parent # 0
    <3>1. CASE n \in 1 .. Len(h)
      <4>1. c \in {h[n].left, h[n].right}
        BY <1>1, <3>1
      <4>2. h[c].parent # 0
        BY <2>1, <3>1, <4>1 DEF Linked, Null
      <4>3. c \in 1 .. Len(h)
        BY <1>2, <2>1, <3>1, <4>1
      <4>4. g[c].parent = Len(h) + 1 \/ g[c].parent = h[c].parent
        BY <1>1, <4>3
      <4>. QED  BY <1>2, <4>2, <4>4
    <3>2. CASE n \notin 1 .. Len(h)
      <4>1. n = Len(h) + 1
        BY <1>3, <3>2
      <4>2. c \in {l, r}
        BY <1>1, <4>1
      <4>3. c \in 1 .. Len(h) /\ g[c].parent = Len(h) + 1
        BY <1>1, <4>2
      <4>. QED  BY <1>2, <4>3
    <3>. QED  BY <3>1, <3>2
  <2>. QED  BY <2>1 DEF Linked, Null
<1>6. ASSUME NEW c \in 1 .. Len(h), c \in {l, r} => h[c].parent # Null
      PROVE  BracedIn(g, c) <=> BracedIn(h, c)
  <2>1. g[c].type = h[c].type
    BY <1>1
  <2>2. CASE c \in {l, r}
    <3>1. g[c].parent = Len(h) + 1 /\ Len(h) + 1 # 0
      BY <1>1, <1>2, <2>2
    <3>2. Rooted(h, c) /\ h[c].parent # 0
      BY <1>6, <2>2 DEF Null
    <3>3. h[h[c].parent].text # <<"BETWEEN">>
      BY <1>2, <3>2 DEF Rooted, Null
    <3>. QED  BY <1>1, <2>1, <3>1, <3>2, <3>3 DEF BracedIn, Null
  <2>3. CASE c \notin {l, r}
    <3>1. g[c].parent = h[c].parent /\ h[c].parent \in 0 .. Len(h)
      BY <1>1, <1>2, <2>3
    <3>2. h[c].parent # 0 => h[c].parent \in 1 .. Len(h)
      BY <1>2, <3>1
    <3>3. h[c].parent # 0 => g[h[c].parent].text = h[h[c].parent].text
      BY <1>1, <3>2
    <3>. QED  BY <2>1, <3>1, <3>3 DEF BracedIn, Null
  <2>. QED  BY <2>2, <2>3
<1>7. SameBraces(h, g)
  <2>1. ASSUME NEW n \in 1 .. Len(h), NEW c \in {h[n].left, h[n].right}, c # Null
        PROVE  BracedIn(g, c) <=> BracedIn(h, c)
    <3>1. c \in 1 .. Len(h)
      BY <1>2, <2>1 DEF Null
    <3>2. h[c].parent # Null
      BY <2>1 DEF Linked
    <3>. QED  BY <1>6, <3>1, <3>2
  <2>. QED  BY <2>1 DEF SameBraces
<1>8. ASSUME NEW n, Rooted(h, n)
      PROVE  Rooted(g, n)
  <2>1. n \in 0 .. Len(h) /\ n \in 0 .. Len(g)
    BY <1>1, <1>2, <1>8 DEF Rooted
  <2>. SUFFICES ASSUME n # 0, g[n].parent # 0
                PROVE  g[g[n].parent].text # <<"BETWEEN">>
    BY <2>1 DEF Rooted, Null
  <2>2. n \in 1 .. Len(h)
    BY <1>2, <2>1
  <2>3. CASE n \in {l, r}
    BY <1>1, <2>2, <2>3
  <2>4. CASE n \notin {l, r}
    <3>1. g[n].parent = h[n].parent /\ h[n].parent \in 1 .. Len(h)
      BY <1>1, <1>2, <2>2, <2>4
    <3>2. h[h[n].parent].text # <<"BETWEEN">>
      BY <1>8, <3>1, <2>2 DEF Rooted, Null
    <3>. QED  BY <1>1, <3>1, <3>2
  <2>. QED  BY <2>3, <2>4
<1>9. Rooted(g, Len(g))
  BY <1>1, <1>2 DEF Rooted, Null
<1>. QED  BY <1>1, <1>4, <1>5, <1>7, <1>8, <1>9 DEF Stays

(* What is read of a join: the texts of both sides, those of operators in      *)
(* parentheses, with the operator between.                                     *)
JoinedText(h, g, op, l, r) ==
    /\ \A f : SubtreeOn(g, f) => f[Len(g)] = {Len(g)} \cup f[l] \cup f[r]
    /\ \A f : TextOn(g, f) => FlatOf(g, f, Len(g)) = f[l] \o <<op>> \o f[r]
    /\ \A f, n : (TextOn(g, f) /\ n \in {l, r}) =>
           f[n] = IF h[n].type = "operator" THEN InBraces(FlatOf(g, f, n))
                  ELSE FlatOf(g, f, n)

(* The text of two joined nodes is read so.                                   *)
LEMMA JoinText ==
    ASSUME NEW h, NEW g, NEW op \in {"AND", "OR"}, NEW l \in 1 .. Len(h), NEW r \in 1 .. Len(h),
           Heap(h), JoinOn(h, g, op, l, r)
    PROVE  JoinedText(h, g, op, l, r)
<1>1. /\ \A n \in {l, r} : g[n].parent = Len(h) + 1 /\ g[n].type = h[n].type
      /\ g[Len(h) + 1].text # <<"BETWEEN">> /\ g[Len(h) + 1].text = <<op>>
      /\ g[Len(h) + 1].left = l /\ g[Len(h) + 1].right = r
      /\ Len(g) = Len(h) + 1
  BY JoinedNodes DEF SameNodes
<1>2. /\ Len(g) \in 1 .. Len(g) /\ l \in 1 .. Len(g) /\ r \in 1 .. Len(g) /\ Len(h) + 1 # 0
  BY <1>1, NodeType
<1>3. \A f : SubtreeOn(g, f) => f[Len(g)] = {Len(g)} \cup f[l] \cup f[r]
  BY <1>1, <1>2 DEF SubtreeOn
<1>4. \A f : TextOn(g, f) => FlatOf(g, f, Len(g)) = f[l] \o <<op>> \o f[r]
  BY <1>1 DEF FlatOf
<1>5. ASSUME NEW f, NEW n \in {l, r}, TextOn(g, f)
      PROVE  f[n] = IF h[n].type = "operator" THEN InBraces(FlatOf(g, f, n))
                    ELSE FlatOf(g, f, n)
  <2>1. BracedIn(g, n) <=> h[n].type = "operator"
    BY <1>1, <1>2 DEF BracedIn, Null
  <2>2. n \in 1 .. Len(g)
    BY <1>2
  <2>3. f[n] = IF BracedIn(g, n) THEN InBraces(FlatOf(g, f, n)) ELSE FlatOf(g, f, n)
    BY <1>5, <2>2 DEF TextOn
  <2>. QED  BY <2>1, <2>3
<1>. QED  BY <1>3, <1>4, <1>5 DEF JoinedText

-----------------------------------------------------------------------------
(* The steps of the program.                                                   *)

(* The heap is one, conditions in use are where they may be joined, and the    *)
(* last statement of an initialised tree is not met by every row.              *)
TypeInv ==
    /\ Heap(node) /\ Linked(node)
    /\ DOMAIN clause = Trees
    /\ caller \in Callers
    /\ \A k \in InUse : Rooted(node, k.root)
    /\ sent.tree = TRUE => {} \notin sent.rows

(* No condition comes into use but k.                                          *)
Uses(k) == InUse' \subseteq InUse \cup {k}

(* What a step may do to the heap and to what is in use.                       *)
Quiet == UNCHANGED node /\ Uses(Handle(Null, Nothing))
MadeComparison(c) == /\ ComparisonOn(node, node', c)
                     /\ Uses(Handle(Len(node'), {r \in Rows : c \in r}))
MadeRange(c) == /\ RangeOn(node, node', c)
                /\ Uses(Handle(Len(node'), {r \in Rows : c \in r}))
MadeRaw(s) == /\ node' = Append(node, Node("raw", s, Null, Null, Null))
              /\ Uses(Handle(Len(node'), Reading[s]))
MadeJoin(op, k, m) == /\ AddCondition(op, k.root, m.root)
                      /\ Uses(Handle(Joined(k.root, m.root), Combine(op, k.means, m.means)))

(* What is in use after the caller or a tree has got one more condition.       *)
LEMMA UsesOne ==
    /\ \A k : (UNCHANGED clause /\ held' \subseteq held \cup {k}) => Uses(k)
    /\ \A k, t : (/\ DOMAIN clause = Trees /\ t \in Trees /\ held' \subseteq held
                  /\ clause' = [clause EXCEPT ![t] = k]) =>
                     /\ Uses(k) /\ DOMAIN clause' = Trees
                     /\ k.root = NoRoot => Uses(Handle(Null, Nothing))
<1>1. ASSUME NEW k, UNCHANGED clause, held' \subseteq held \cup {k}
      PROVE  Uses(k)
  BY <1>1 DEF Uses, InUse, Initialised
<1>2. ASSUME NEW k, NEW t, DOMAIN clause = Trees, t \in Trees, held' \subseteq held,
             clause' = [clause EXCEPT ![t] = k]
      PROVE  /\ Uses(k) /\ DOMAIN clause' = Trees
             /\ k.root = NoRoot => Uses(Handle(Null, Nothing))
  <2>1. DOMAIN clause' = Trees /\ \A u \in Trees : clause'[u] = IF u = t THEN k ELSE clause[u]
    BY <1>2
  <2>2. ASSUME NEW u \in Trees, clause'[u].root # NoRoot
        PROVE  clause'[u] \in InUse \/ (clause'[u] = k /\ k.root # NoRoot)
    BY <2>1, <2>2 DEF InUse, Initialised
  <2>3. held' \subseteq InUse
    BY <1>2 DEF InUse
  <2>4. InUse' = held' \cup {clause'[u] : u \in {v \in Trees : clause'[v].root # NoRoot}}
    BY DEF InUse, Initialised
  <2>. QED  BY <2>1, <2>2, <2>3, <2>4 DEF Uses
<1>. QED  BY <1>1, <1>2

(* Every step is one of these.                                                 *)
Shape ==
    \/ Quiet
    \/ \E c \in Comparisons : MadeComparison(c)
    \/ \E c \in Ranges : MadeRange(c)
    \/ \E s \in RawTexts : MadeRaw(s)
    \/ \E op \in {"AND", "OR"}, k, m \in InUse : MadeJoin(op, k, m)

(* Conditions made of a field and values.                                      *)
LEMMA MakingShape ==
    TypeInv /\ (Compare \/ Between \/ RawData) => Shape /\ DOMAIN clause' = Trees
<1>. SUFFICES ASSUME TypeInv, Compare \/ Between \/ RawData
              PROVE  Shape /\ DOMAIN clause' = Trees
  OBVIOUS
<1>1. UNCHANGED clause /\ DOMAIN clause' = Trees
  BY DEF TypeInv, Compare, Between, RawData
<1>2. Heap(node)
  BY DEF TypeInv
<1>3. CASE Compare
  <2>1. PICK c \in Comparisons : NodeBind(c, Simple(c, Len(node) + 1))
    BY <1>3 DEF Compare
  <2>2. CASE c[1] \in KnownFields
    <3>1. /\ node' = node \o Simple(c, Len(node) + 1)
          /\ held' = held \cup {Handle(Len(node'), {r \in Rows : c \in r})}
      BY <2>1, <2>2 DEF NodeBind
    <3>2. ComparisonOn(node, node', c)
      BY <1>2, <3>1, SimpleNodes
    <3>3. Uses(Handle(Len(node'), {r \in Rows : c \in r}))
      BY <1>1, <3>1, UsesOne
    <3>4. MadeComparison(c)
      BY <3>2, <3>3 DEF MadeComparison
    <3>. QED  BY <1>1, <3>4 DEF Shape
  <2>3. CASE c[1] \notin KnownFields
    <3>1. UNCHANGED node /\ held' = held \cup {Handle(Null, Nothing)}
      BY <2>1, <2>3 DEF NodeBind
    <3>2. Uses(Handle(Null, Nothing))
      BY <1>1, <3>1, UsesOne
    <3>. QED  BY <1>1, <3>1, <3>2 DEF Shape, Quiet
  <2>. QED  BY <2>2, <2>3
<1>4. CASE Between
  <2>1. PICK c \in Ranges : NodeBind(c, Bounded(c, Len(node) + 1))
    BY <1>4 DEF Between
  <2>2. CASE c[1] \in KnownFields
    <3>1. /\ node' = node \o Bounded(c, Len(node) + 1)
          /\ held' = held \cup {Handle(Len(node'), {r \in Rows : c \in r})}
      BY <2>1, <2>2 DEF NodeBind
    <3>2. RangeOn(node, node', c)
      BY <1>2, <3>1, BoundedNodes
    <3>3. Uses(Handle(Len(node'), {r \in Rows : c \in r}))
      BY <1>1, <3>1, UsesOne
    <3>4. MadeRange(c)
      BY <3>2, <3>3 DEF MadeRange
    <3>. QED  BY <1>1, <3>4 DEF Shape
  <2>3. CASE c[1] \notin KnownFields
    <3>1. UNCHANGED node /\ held' = held \cup {Handle(Null, Nothing)}
      BY <2>1, <2>3 DEF NodeBind
    <3>2. Uses(Handle(Null, Nothing))
      BY <1>1, <3>1, UsesOne
    <3>. QED  BY <1>1, <3>1, <3>2 DEF Shape, Quiet
  <2>. QED  BY <2>2, <2>3
<1>5. CASE RawData
  <2>1. PICK s \in RawTexts : /\ node' = Append(node, Node("raw", s, Null, Null, Null))
                              /\ held' = held \cup {Handle(Len(node'), Reading[s])}
    BY <1>5 DEF RawData
  <2>2. Uses(Handle(Len(node'), Reading[s]))
    BY <1>1, <2>1, UsesOne
  <2>3. MadeRaw(s)
    BY <2>1, <2>2 DEF MadeRaw
  <2>. QED  BY <1>1, <2>3 DEF Shape
<1>. QED  BY <1>3, <1>4, <1>5

(* Conditions joined by the caller or in a clause.                             *)
LEMMA JoiningShape ==
    /\ \A op \in {"AND", "OR"} : (TypeInv /\ Join(op)) => Shape /\ DOMAIN clause' = Trees
    /\ \A op \in {"AND", "OR"}, t \in Trees, h \in InUse :
           (TypeInv /\ Initialised(t) /\ Grow(t, op, h) /\ held' \subseteq held) =>
               Shape /\ DOMAIN clause' = Trees
<1>1. ASSUME NEW op \in {"AND", "OR"}, TypeInv, Join(op)
      PROVE  Shape /\ DOMAIN clause' = Trees
  <2>1. PICK l \in held, r \in held : \E kept \in SUBSET {l, r} :
            /\ AddCondition(op, l.root, r.root)
            /\ held' = After({l, r}, kept) \cup {Handle(Joined(l.root, r.root),
                                                        Combine(op, l.means, r.means))}
    BY <1>1 DEF Join
  <2>2. UNCHANGED clause /\ DOMAIN clause' = Trees
    BY <1>1 DEF Join, TypeInv
  <2>3. Uses(Handle(Joined(l.root, r.root), Combine(op, l.means, r.means)))
    <3>1. \A kept : After({l, r}, kept) \subseteq held
      BY DEF After
    <3>. QED  BY <2>1, <2>2, <3>1, UsesOne
  <2>4. MadeJoin(op, l, r) /\ l \in InUse /\ r \in InUse
    BY <2>1, <2>3 DEF MadeJoin, InUse
  <2>. QED  BY <2>2, <2>4 DEF Shape
<1>2. ASSUME NEW op \in {"AND", "OR"}, NEW t \in Trees, NEW h \in InUse,
             TypeInv, Initialised(t), Grow(t, op, h), held' \subseteq held
      PROVE  Shape /\ DOMAIN clause' = Trees
  <2>1. /\ AddCondition(op, clause[t].root, h.root)
        /\ clause' = [clause EXCEPT ![t] = Handle(Joined(clause[t].root, h.root),
                                                  Combine(op, clause[t].means, h.means))]
    BY <1>2 DEF Grow
  <2>2. DOMAIN clause = Trees
    BY <1>2 DEF TypeInv
  <2>3. /\ Uses(Handle(Joined(clause[t].root, h.root), Combine(op, clause[t].means, h.means)))
        /\ DOMAIN clause' = Trees
    BY <1>2, <2>1, <2>2, UsesOne
  <2>4. MadeJoin(op, clause[t], h) /\ clause[t] \in InUse
    BY <1>2, <2>1, <2>3 DEF MadeJoin, InUse
  <2>. QED  BY <2>3, <2>4 DEF Shape
<1>. QED  BY <1>1, <1>2

(* A tree of the caller.                                                       *)
LEMMA CallersTrees ==
    TypeInv => caller.trees \subseteq Trees
BY CallersAssumption DEF TypeInv

(* What a step does to the heap and to what is in use.                         *)
LEMMA StepShape ==
    TypeInv /\ Next => Shape /\ DOMAIN clause' = Trees /\ caller' = caller
<1>. SUFFICES ASSUME TypeInv, Next
              PROVE  Shape /\ DOMAIN clause' = Trees
  BY DEF Next
<1>1. DOMAIN clause = Trees /\ caller.trees \subseteq Trees
  BY CallersTrees DEF TypeInv
<1>2. ASSUME UNCHANGED <<node, clause>>, held' \subseteq held
      PROVE  Shape /\ DOMAIN clause' = Trees
  <2>1. Uses(Handle(Null, Nothing))
    BY <1>2, UsesOne
  <2>. QED  BY <1>1, <1>2, <2>1 DEF Shape, Quiet
<1>3. CASE Compare \/ Between \/ RawData
  BY <1>3, MakingShape
<1>4. CASE And \/ Or
  BY <1>4, JoiningShape DEF And, Or
<1>5. CASE Drop
  <2>1. UNCHANGED <<node, clause>> /\ held' \subseteq held
    BY <1>5 DEF Drop
  <2>. QED  BY <1>2, <2>1
<1>6. CASE ExecuteAll
  <2>1. UNCHANGED <<node, clause>> /\ held' \subseteq held
    BY <1>6 DEF ExecuteAll
  <2>. QED  BY <1>2, <2>1
<1>7. ASSUME NEW t \in caller.trees, InitTree(t)
      PROVE  Shape /\ DOMAIN clause' = Trees
  <2>1. PICK h \in held : \E kept \in SUBSET {h} : /\ clause' = [clause EXCEPT ![t] = h]
                                                   /\ held' = After({h}, kept)
    BY <1>7 DEF InitTree
  <2>2. UNCHANGED node /\ held' \subseteq held /\ h \in InUse
    BY <1>7, <2>1 DEF InitTree, After, InUse
  <2>3. Uses(h) /\ DOMAIN clause' = Trees
    BY <1>1, <2>1, <2>2, UsesOne
  <2>4. Uses(Handle(Null, Nothing))
    BY <2>2, <2>3 DEF Uses
  <2>. QED  BY <2>2, <2>3, <2>4 DEF Shape, Quiet
<1>8. ASSUME NEW t \in caller.trees, NEW op \in {"AND", "OR"}, Add(t, op)
      PROVE  Shape /\ DOMAIN clause' = Trees
  <2>1. PICK h \in held : \E kept \in SUBSET {h} :
            /\ \/ Initialised(t) /\ Grow(t, op, h)
               \/ /\ clause' = [clause EXCEPT ![t] =
                                    Handle(NoRoot, Combine(op, clause[t].means, h.means))]
                  /\ UNCHANGED node
            /\ held' = After({h}, kept)
    BY <1>1, <1>8 DEF Add
  <2>2. held' \subseteq held /\ h \in InUse /\ t \in Trees
    BY <1>1, <2>1 DEF After, InUse
  <2>3. CASE Initialised(t) /\ Grow(t, op, h)
    BY <2>2, <2>3, JoiningShape
  <2>4. CASE /\ clause' = [clause EXCEPT ![t] =
                             Handle(NoRoot, Combine(op, clause[t].means, h.means))]
             /\ UNCHANGED node
    <3>. DEFINE k == Handle(NoRoot, Combine(op, clause[t].means, h.means))
    <3>1. k.root = NoRoot
      BY DEF Handle
    <3>2. clause' = [clause EXCEPT ![t] = k]
      BY <2>4
    <3>. HIDE DEF k
    <3>3. Uses(Handle(Null, Nothing)) /\ DOMAIN clause' = Trees
      BY <1>1, <2>2, <3>1, <3>2, UsesOne
    <3>. QED  BY <2>4, <3>3 DEF Shape, Quiet
  <2>. QED  BY <2>1, <2>3, <2>4
<1>9. ASSUME NEW t \in caller.trees, AddAnd(t) \/ AddOr(t)
      PROVE  Shape /\ DOMAIN clause' = Trees
  BY <1>8, <1>9 DEF AddAnd, AddOr
<1>10. ASSUME NEW t \in caller.trees, Execute(t)
       PROVE  Shape /\ DOMAIN clause' = Trees
  <2>1. UNCHANGED <<node, clause>> /\ held' \subseteq held
    BY <1>10 DEF Execute
  <2>. QED  BY <1>2, <2>1
<1>11. ASSUME NEW t \in caller.trees, NEW u \in caller.trees, NEW op \in {"AND", "OR"},
              MergeWhereClause(t, u, op)
       PROVE  Shape /\ DOMAIN clause' = Trees
  <2>1. /\ Initialised(t) /\ Initialised(u) /\ Grow(t, op, clause[u]) /\ held' \subseteq held
        /\ t \in Trees /\ u \in Trees
    BY <1>1, <1>11 DEF MergeWhereClause
  <2>2. clause[u] \in InUse
    BY <2>1 DEF InUse
  <2>. QED  BY <2>1, <2>2, JoiningShape
<1>. QED  BY <1>3, <1>4, <1>5, <1>6, <1>7, <1>9, <1>10, <1>11 DEF Next

(* What AddCondition does to the heap, and what it returns.                    *)
LEMMA AddStep ==
    ASSUME NEW op \in {"AND", "OR"}, NEW l \in 0 .. Len(node), NEW r \in 0 .. Len(node),
           Heap(node), AddCondition(op, l, r)
    PROVE  \/ /\ l \in 1 .. Len(node) /\ r \in 1 .. Len(node)
              /\ node' \in Seq(Nodes) /\ JoinOn(node, node', op, l, r)
              /\ Joined(l, r) = Len(node')
           \/ /\ l = Null /\ r = Null
              /\ node' = Append(node, Node("operator", <<>>, Null, Null, Null))
              /\ Joined(l, r) = Len(node) + 1
           \/ l = Null /\ r # Null /\ node' = node /\ Joined(l, r) = r
           \/ l # Null /\ r = Null /\ node' = node /\ Joined(l, r) = l
<1>1. /\ node \in Seq(Nodes) /\ Len(node) \in Nat /\ DOMAIN node = 1 .. Len(node)
      /\ \A n \in 1 .. Len(node) : node[n] \in Nodes
  BY NodeType DEF Heap
<1>2. CASE l # Null /\ r # Null
  <2>. DEFINE new == Len(node) + 1
              t == [n \in DOMAIN node |-> IF n \in {l, r}
                                          THEN [node[n] EXCEPT !.parent = new]
                                          ELSE node[n]]
              x == Node("operator", <<op>>, l, r, Null)
  <2>1. l \in 1 .. Len(node) /\ r \in 1 .. Len(node) /\ new \in Nat
    BY <1>1, <1>2 DEF Null
  <2>2. node' = Append(t, x)
    BY <1>2 DEF AddCondition
  <2>3. \A n \in 1 .. Len(node) :
            t[n] = IF n \in {l, r} THEN [node[n] EXCEPT !.parent = new] ELSE node[n]
    BY <1>1
  <2>4. ASSUME NEW n \in 1 .. Len(node)
        PROVE  t[n] \in Nodes
    <3>1. CASE n \in {l, r}
      <4>1. IsReparented(node[n], new, t[n])
        BY <1>1, <2>1, <2>3, <3>1 DEF IsReparented
      <4>. QED  BY <4>1, Reparented
    <3>2. CASE n \notin {l, r}
      BY <1>1, <2>3, <3>2
    <3>. QED  BY <3>1, <3>2
  <2>5. t \in Seq(Nodes) /\ Len(t) = Len(node)
    <3>1. t = [n \in 1 .. Len(node) |-> t[n]]
      BY <1>1
    <3>. HIDE DEF t
    <3>2. t \in [1 .. Len(node) -> Nodes]
      BY <2>4, <3>1
    <3>3. t \in Seq(Nodes)
      BY <1>1, <3>2, SeqDef
    <3>4. Len(t) = Len(node)
      BY <1>1, <3>2, <3>3, LenProperties
    <3>. QED  BY <3>3, <3>4
  <2>6. x \in Nodes
    <3>1. op \in Names \cup Marks
      BY DEF Marks
    <3>2. <<op>> \in Tokens
      BY <3>1, TextsTogether
    <3>3. "operator" \in Types /\ l \in Nat /\ r \in Nat /\ Null \in Nat
      BY <2>1 DEF Types, Null
    <3>. QED  BY <3>2, <3>3, MadeNode
  <2>7. /\ node' \in Seq(Nodes) /\ Len(node') = new /\ node'[new] = x
        /\ \A n \in 1 .. Len(node) : node'[n] = t[n]
    <3>. HIDE DEF t, x
    <3>. QED  BY <2>2, <2>5, <2>6, AppendProperties
  <2>8. JoinOn(node, node', op, l, r)
    <3>. HIDE DEF t
    <3>. QED  BY <2>3, <2>7 DEF JoinOn
  <2>9. Joined(l, r) = new
    BY <1>2 DEF Joined
  <2>. QED  BY <2>1, <2>7, <2>8, <2>9
<1>3. CASE l = Null /\ r = Null
  BY <1>3 DEF AddCondition, Joined
<1>4. CASE l = Null /\ r # Null
  BY <1>4 DEF AddCondition, Joined
<1>5. CASE l # Null /\ r = Null
  BY <1>5 DEF AddCondition, Joined
<1>. QED  BY <1>2, <1>3, <1>4, <1>5

(* A step keeps what the heap is, whichever shape it has.                      *)
LEMMA ShapeKeeps ==
    TypeInv /\ Shape => /\ Stays(node, node') /\ Linked(node')
                        /\ \A n : Rooted(node, n) => Rooted(node', n)
                        /\ \A k \in InUse' : Rooted(node', k.root)
<1>. SUFFICES ASSUME TypeInv, Shape
              PROVE  /\ Stays(node, node') /\ Linked(node')
                     /\ \A n : Rooted(node, n) => Rooted(node', n)
                     /\ \A k \in InUse' : Rooted(node', k.root)
  OBVIOUS
<1>. DEFINE Kept == /\ Stays(node, node') /\ Linked(node')
                    /\ \A n : Rooted(node, n) => Rooted(node', n)
<1>0. /\ Heap(node) /\ Linked(node) /\ Len(node) \in Nat
      /\ \A k \in InUse : Rooted(node, k.root)
  BY NodeType DEF TypeInv
<1>1. ASSUME Kept, NEW k, Uses(k), Rooted(node', k.root)
      PROVE  \A m \in InUse' : Rooted(node', m.root)
  BY <1>0, <1>1 DEF Uses
<1>2. \A root, means : Handle(root, means).root = root
  BY DEF Handle
<1>3. ASSUME Stays(node, node'), Linked(node'), Prefix(node, node')
      PROVE  Kept
  <2>1. ASSUME NEW n, Rooted(node, n)
        PROVE  Rooted(node', n)
    <3>1. n \in 0 .. Len(node) /\ Len(node') \in Nat /\ Len(node) <= Len(node')
      BY <1>3, <2>1, NodeType DEF Rooted, Prefix, Stays
    <3>2. n \in 0 .. Len(node')
      BY <1>0, <3>1
    <3>3. CASE n = 0
      BY <3>2, <3>3 DEF Rooted, Null
    <3>4. CASE n # 0
      <4>1. n \in 1 .. Len(node)
        BY <1>0, <3>1, <3>4
      <4>2. node'[n] = node[n] /\ node[n].parent \in 0 .. Len(node)
        BY <1>0, <1>3, <4>1, NodeType DEF Prefix
      <4>3. node[n].parent # 0 => node[n].parent \in 1 .. Len(node)
        BY <1>0, <4>2
      <4>4. node[n].parent # 0 => node'[node[n].parent] = node[node[n].parent]
        BY <1>3, <4>3 DEF Prefix
      <4>. QED  BY <2>1, <3>2, <4>2, <4>4 DEF Rooted, Null
    <3>. QED  BY <3>3, <3>4
  <2>. QED  BY <1>3, <2>1
<1>4. ASSUME node' = node
      PROVE  Kept
  <2>1. Stays(node, node) /\ Prefix(node, node)
    BY <1>0 DEF Stays, SameNodes, SameBraces, Prefix
  <2>. QED  BY <1>0, <1>3, <1>4, <2>1
<1>5. ASSUME NEW x \in Nodes, x.left = Null, x.right = Null, x.parent = Null,
             node' = Append(node, x)
      PROVE  Kept /\ Len(node') = Len(node) + 1 /\ Rooted(node', Len(node) + 1)
  <2>1. /\ Stays(node, node') /\ Linked(node') /\ Prefix(node, node')
        /\ Len(node') = Len(node) + 1 /\ node'[Len(node) + 1] = x
    BY <1>0, <1>5, LeafHeap
  <2>2. Rooted(node', Len(node) + 1)
    BY <1>0, <1>5, <2>1 DEF Rooted
  <2>. QED  BY <1>3, <2>1, <2>2
<1>6. CASE Quiet
  <2>1. Kept
    BY <1>4, <1>6 DEF Quiet
  <2>2. Rooted(node', Handle(Null, Nothing).root)
    BY <1>0, <1>2, <1>6 DEF Quiet, Rooted, Null
  <2>. HIDE DEF Kept
  <2>3. \A m \in InUse' : Rooted(node', m.root)
    BY <1>1, <1>6, <2>1, <2>2 DEF Quiet
  <2>. QED  BY <2>1, <2>3 DEF Kept
<1>7. ASSUME NEW means, Prefix(node, node'), Stays(node, node'), Linked(node'),
             node'[Len(node')].parent = Null, Uses(Handle(Len(node'), means))
      PROVE  Kept /\ \A m \in InUse' : Rooted(node', m.root)
  <2>1. Kept
    BY <1>3, <1>7
  <2>2. Rooted(node', Handle(Len(node'), means).root)
    <3>1. Len(node') \in 0 .. Len(node')
      BY <1>7, NodeType DEF Stays
    <3>. QED  BY <1>2, <1>7, <3>1 DEF Rooted
  <2>. HIDE DEF Kept
  <2>. QED  BY <1>1, <1>7, <2>1, <2>2
<1>8. ASSUME NEW c \in Comparisons, MadeComparison(c)
      PROVE  Kept /\ \A m \in InUse' : Rooted(node', m.root)
  <2>1. /\ Stays(node, node') /\ Linked(node') /\ node'[Len(node')].parent = Null
    BY <1>0, <1>8, ComparisonHeap DEF MadeComparison
  <2>2. Prefix(node, node')
    BY <1>8 DEF MadeComparison, ComparisonOn
  <2>. HIDE DEF Kept
  <2>. QED  BY <1>7, <1>8, <2>1, <2>2 DEF MadeComparison
<1>9. ASSUME NEW c \in Ranges, MadeRange(c)
      PROVE  Kept /\ \A m \in InUse' : Rooted(node', m.root)
  <2>1. /\ Stays(node, node') /\ Linked(node') /\ node'[Len(node')].parent = Null
    BY <1>0, <1>9, RangeHeap DEF MadeRange
  <2>2. Prefix(node, node')
    BY <1>9 DEF MadeRange, RangeOn
  <2>. HIDE DEF Kept
  <2>. QED  BY <1>7, <1>9, <2>1, <2>2 DEF MadeRange
<1>10. ASSUME NEW s \in RawTexts, MadeRaw(s)
       PROVE  Kept /\ \A m \in InUse' : Rooted(node', m.root)
  <2>. DEFINE x == Node("raw", s, Null, Null, Null)
  <2>1. x \in Nodes /\ x.left = Null /\ x.right = Null /\ x.parent = Null
    <3>1. "raw" \in Types /\ s \in Tokens /\ Null \in Nat
      BY ConditionsAssumption DEF Types, Null
    <3>. QED  BY <3>1, MadeNode
  <2>2. node' = Append(node, x) /\ Uses(Handle(Len(node'), Reading[s]))
    BY <1>10 DEF MadeRaw
  <2>. HIDE DEF x, Kept
  <2>3. Kept /\ Rooted(node', Len(node'))
    BY <1>5, <2>1, <2>2
  <2>. QED  BY <1>1, <1>2, <2>2, <2>3
<1>11. ASSUME NEW op \in {"AND", "OR"}, NEW k \in InUse, NEW m \in InUse, MadeJoin(op, k, m)
       PROVE  Kept /\ \A u \in InUse' : Rooted(node', u.root)
  <2>. DEFINE l == k.root
              r == m.root
              new == Joined(l, r)
  <2>1. /\ l \in 0 .. Len(node) /\ r \in 0 .. Len(node)
        /\ Rooted(node, l) /\ Rooted(node, r)
    BY <1>0 DEF Rooted
  <2>2. AddCondition(op, l, r) /\ Uses(Handle(new, Combine(op, k.means, m.means)))
    BY <1>11 DEF MadeJoin
  <2>. HIDE DEF l, r, new, Kept
  <2>3. CASE /\ l \in 1 .. Len(node) /\ r \in 1 .. Len(node)
             /\ node' \in Seq(Nodes) /\ JoinOn(node, node', op, l, r)
             /\ new = Len(node')
    <3>1. Kept /\ Rooted(node', new)
      BY <1>0, <2>1, <2>3, JoinHeap DEF Kept
    <3>. QED  BY <1>1, <1>2, <2>2, <3>1
  <2>4. CASE /\ node' = Append(node, Node("operator", <<>>, Null, Null, Null))
             /\ new = Len(node) + 1
    <3>. DEFINE x == Node("operator", <<>>, Null, Null, Null)
    <3>1. x \in Nodes /\ x.left = Null /\ x.right = Null /\ x.parent = Null
      <4>1. "operator" \in Types /\ <<>> \in Tokens /\ Null \in Nat
        BY TextsTogether DEF Types, Null
      <4>. QED  BY <4>1, MadeNode
    <3>. HIDE DEF x
    <3>2. Kept /\ Rooted(node', new)
      BY <1>5, <2>4, <3>1 DEF x
    <3>. QED  BY <1>1, <1>2, <2>2, <3>2
  <2>5. CASE node' = node /\ (new = l \/ new = r)
    <3>1. Kept /\ Rooted(node', new)
      BY <1>4, <2>1, <2>5
    <3>. QED  BY <1>1, <1>2, <2>2, <3>1
  <2>. QED  BY <1>0, <2>1, <2>2, <2>3, <2>4, <2>5, AddStep DEF new
<1>. QED  BY <1>6, <1>8, <1>9, <1>10, <1>11 DEF Shape

(* What lies below a node is as old as the node or older.                      *)
LEMMA SubtreeBelow ==
    ASSUME NEW h, NEW f, Heap(h), SubtreeOn(h, f)
    PROVE  \A n \in 0 .. Len(h) : f[n] \subseteq 1 .. n
<1>. DEFINE T == {n \in Nat : n <= Len(h) => f[n] \subseteq 1 .. n}
<1>1. /\ Len(h) \in Nat
      /\ \A n \in 1 .. Len(h) : h[n].left \in 0 .. n - 1 /\ h[n].right \in 0 .. n - 1
  BY NodeType
<1>2. ASSUME NEW n \in Nat, \A m \in Nat : m < n => m \in T
      PROVE  n \in T
  <2>. SUFFICES ASSUME n <= Len(h), n # 0
                PROVE  f[n] \subseteq 1 .. n
    BY DEF SubtreeOn
  <2>1. n \in 1 .. Len(h)
    BY <1>1
  <2>2. f[n] = {n} \cup f[h[n].left] \cup f[h[n].right]
    BY <2>1 DEF SubtreeOn
  <2>3. ASSUME NEW m \in 0 .. n - 1
        PROVE  f[m] \subseteq 1 .. n
    <3>1. m \in Nat /\ m < n /\ m <= Len(h)
      BY <1>1
    <3>2. f[m] \subseteq 1 .. m
      BY <1>2, <3>1
    <3>. QED  BY <3>1, <3>2
  <2>4. f[h[n].left] \subseteq 1 .. n /\ f[h[n].right] \subseteq 1 .. n
    BY <1>1, <2>1, <2>3
  <2>5. n \in 1 .. n
    BY <2>1
  <2>. QED  BY <2>2, <2>4, <2>5
<1>3. Nat \subseteq T
  <2>. HIDE DEF T
  <2>. QED  BY <1>2, StrongSetInduction
<1>. QED  BY <1>1, <1>3

(* The rows of a statement from an initialised tree are read from a text.      *)
LEMMA StatementRows ==
    TypeInv /\ [Next]_vars => (sent'.tree = TRUE => {} \notin sent'.rows)
<1>. SUFFICES ASSUME TypeInv, [Next]_vars
              PROVE  sent'.tree = TRUE => {} \notin sent'.rows
  OBVIOUS
<1>1. CASE sent' = NotSent
  BY <1>1 DEF NotSent
<1>2. CASE sent' = sent
  BY <1>2 DEF TypeInv
<1>3. CASE ExecuteAll
  BY <1>3 DEF ExecuteAll
<1>4. ASSUME NEW t \in caller.trees, Execute(t)
      PROVE  sent'.tree = TRUE => {} \notin sent'.rows
  <2>1. \/ \E b : /\ sent'.rows = RowsTaken(clause[t], b)
                 /\ sent'.tree = Initialised(t)
        \/ sent' = NotSent
    BY <1>4 DEF Execute
  <2>. SUFFICES ASSUME Initialised(t), NEW b
                PROVE  {} \notin RowsTaken(clause[t], b)
    BY <1>1, <2>1
  <2>2. clause[t].root # NoRoot /\ t \in Trees
    BY CallersTrees DEF Initialised
  <2>3. Rooted(node, clause[t].root)
    BY <2>2 DEF TypeInv, InUse, Initialised
  <2>4. clause[t].root \in 0 .. Len(node)
    BY <2>3 DEF Rooted
  <2>5. GetString(b)[clause[t].root] \in Tokens
    BY <2>4, GetStringIs DEF TypeInv, Spells
  <2>6. <<>> \in Tokens
    BY TextsTogether
  <2>. QED  BY <2>2, <2>5, <2>6, NoTextTakesAll DEF RowsTaken
<1>5. CASE UNCHANGED vars
  BY <1>2, <1>5 DEF vars
<1>6. CASE Compare \/ Between \/ RawData \/ And \/ Or \/ Drop
  BY <1>1, <1>6 DEF Compare, Between, RawData, And, Or, Join, Drop
<1>7. ASSUME NEW t \in caller.trees, InitTree(t) \/ AddAnd(t) \/ AddOr(t)
      PROVE  sent' = NotSent
  BY <1>7 DEF InitTree, AddAnd, AddOr, Add
<1>8. ASSUME NEW t, NEW u, NEW op, MergeWhereClause(t, u, op)
      PROVE  sent' = NotSent
  BY <1>8 DEF MergeWhereClause
<1>. QED  BY <1>1, <1>3, <1>4, <1>5, <1>6, <1>7, <1>8 DEF Next

(* The heap and what is in use stay as they should be.                         *)
LEMMA TypeInvHolds == Spec => []TypeInv
<1>1. Init => TypeInv
  <2>. SUFFICES ASSUME Init
                PROVE  TypeInv
    OBVIOUS
  <2>1. node = <<>> /\ Len(node) = 0 /\ node \in Seq(Nodes)
    BY EmptySeq DEF Init
  <2>2. Heap(node) /\ Linked(node)
    BY <2>1 DEF Heap, Linked
  <2>3. InUse = {}
    BY DEF Init, InUse, Initialised, NoClause
  <2>4. sent.tree = FALSE /\ DOMAIN clause = Trees /\ caller \in Callers
    BY DEF Init, NotSent
  <2>. QED  BY <2>2, <2>3, <2>4 DEF TypeInv
<1>2. TypeInv /\ [Next]_vars => TypeInv'
  <2>. SUFFICES ASSUME TypeInv, [Next]_vars
                PROVE  TypeInv'
    OBVIOUS
  <2>1. sent'.tree = TRUE => {} \notin sent'.rows
    BY StatementRows
  <2>2. CASE Next
    <3>1. Shape /\ DOMAIN clause' = Trees /\ caller' = caller
      BY <2>2, StepShape
    <3>2. /\ Heap(node') /\ Linked(node')
          /\ \A k \in InUse' : Rooted(node', k.root)
      BY <3>1, ShapeKeeps DEF Stays
    <3>3. caller' \in Callers
      BY <3>1 DEF TypeInv
    <3>. QED  BY <2>1, <3>1, <3>2, <3>3 DEF TypeInv
  <2>3. CASE UNCHANGED vars
    <3>1. node' = node /\ clause' = clause /\ sent' = sent /\ caller' = caller
      BY <2>3 DEF vars
    <3>2. InUse' = InUse
      BY <2>3 DEF vars, InUse, Initialised
    <3>. QED  BY <3>1, <3>2 DEF TypeInv
  <2>. QED  BY <2>2, <2>3
<1>. QED  BY <1>1, <1>2, PTL DEF Spec

-----------------------------------------------------------------------------
(* Type correctness and the rows of statements.                                *)

(* The heap of conditions is one: the links of a node lead to nodes, and no    *)
(* node has itself below it, whatever callers join, keep, share and release.   *)
THEOREM TypeCorrect == Spec => []TypeOK
<1>1. TypeInv => TypeOK
  <2>. SUFFICES ASSUME TypeInv
                PROVE  TypeOK
    OBVIOUS
  <2>1. Heap(node)
    BY DEF TypeInv
  <2>2. /\ Len(node) \in Nat /\ DOMAIN node = 1 .. Len(node)
        /\ \A n \in 1 .. Len(node) :
               /\ node[n].type \in Types
               /\ node[n].left \in 0 .. n - 1 /\ node[n].right \in 0 .. n - 1
               /\ node[n].left \in 0 .. Len(node) /\ node[n].right \in 0 .. Len(node)
               /\ node[n].parent \in 0 .. Len(node)
    BY <2>1, NodeType
  <2>3. \A n \in 0 .. Len(node) : Subtree[n] \subseteq 1 .. n
    BY <2>1, OnHeap, SubtreeBelow
  <2>4. ASSUME NEW n \in 1 .. Len(node)
        PROVE  n \notin Subtree[node[n].left] \cup Subtree[node[n].right]
    <3>1. \A m \in 0 .. n - 1 : n \notin 1 .. m
      OBVIOUS
    <3>. QED  BY <2>2, <2>3, <3>1
  <2>5. \A k \in InUse : k.root \in 0 .. Len(node)
    BY DEF TypeInv, Rooted
  <2>. QED  BY <2>2, <2>4, <2>5 DEF TypeOK, Types
<1>. QED  BY <1>1, TypeInvHolds, PTL

(* A statement from a tree that has been initialised never takes the whole     *)
(* table: no text, not even that of nothing, is met by every row.              *)
THEOREM NeverWhole == Spec => []InitialisedIsNeverWhole
<1>1. TypeInv => InitialisedIsNeverWhole
  <2>. SUFFICES ASSUME TypeInv, sent.tree, sent.rows = Rows
                PROVE  FALSE
    BY DEF InitialisedIsNeverWhole
  <2>1. {} \in Rows
    BY DEF Rows
  <2>2. sent.tree = TRUE => {} \notin sent.rows
    BY DEF TypeInv
  <2>3. sent.tree # TRUE
    BY <2>1, <2>2
  <2>. QED  BY <2>3
<1>. QED  BY <1>1, TypeInvHolds, PTL

-----------------------------------------------------------------------------
(* Parentheses.                                                                *)

(* How many of the first i words are w.                                        *)
Count(s, i, w) == Cardinality({j \in 1 .. i : s[j] = w})

(* By how much a word changes the depth.                                       *)
Turn(w) == IF w = "(" THEN 1 ELSE IF w = ")" THEN -1 ELSE 0

(* Counting goes on word by word.                                              *)
LEMMA CountStep ==
    \A s, w : \A i \in Nat :
        /\ Count(s, 0, w) = 0 /\ Count(s, i, w) \in Nat
        /\ Count(s, i + 1, w) = IF s[i + 1] = w THEN Count(s, i, w) + 1 ELSE Count(s, i, w)
<1>. SUFFICES ASSUME NEW s, NEW w, NEW i \in Nat
              PROVE  /\ Count(s, 0, w) = 0 /\ Count(s, i, w) \in Nat
                     /\ Count(s, i + 1, w) = IF s[i + 1] = w THEN Count(s, i, w) + 1
                                             ELSE Count(s, i, w)
  OBVIOUS
<1>. DEFINE C(n) == {j \in 1 .. n : s[j] = w}
<1>1. C(0) = {} /\ Cardinality({}) = 0
  BY FS_EmptySet
<1>2. IsFiniteSet(C(i)) /\ Cardinality(C(i)) \in Nat
  <2>1. IsFiniteSet(1 .. i)
    BY FS_Interval
  <2>2. C(i) \subseteq 1 .. i
    OBVIOUS
  <2>3. IsFiniteSet(C(i))
    BY <2>1, <2>2, FS_Subset
  <2>. QED  BY <2>3, FS_CardinalityType
<1>3. CASE s[i + 1] = w
  <2>1. C(i + 1) = C(i) \cup {i + 1} /\ i + 1 \notin C(i)
    BY <1>3
  <2>2. Cardinality(C(i) \cup {i + 1}) = Cardinality(C(i)) + 1
    <3>. HIDE DEF C
    <3>. QED  BY <1>2, <2>1, FS_AddElement
  <2>3. Cardinality(C(i + 1)) = Cardinality(C(i)) + 1
    <3>. HIDE DEF C
    <3>. QED  BY <2>1, <2>2
  <2>. QED  BY <1>1, <1>2, <1>3, <2>3 DEF Count
<1>4. CASE s[i + 1] # w
  <2>1. C(i + 1) = C(i)
    BY <1>4
  <2>. QED  BY <1>1, <1>2, <1>4, <2>1 DEF Count
<1>. QED  BY <1>3, <1>4

(* So does the depth.                                                          *)
LEMMA DepthStep ==
    \A s : \A i \in Nat :
        /\ Depth(s, 0) = 0 /\ Depth(s, i) \in Int
        /\ Depth(s, i + 1) = Depth(s, i) + Turn(s[i + 1])
<1>. SUFFICES ASSUME NEW s, NEW i \in Nat
              PROVE  /\ Depth(s, 0) = 0 /\ Depth(s, i) \in Int
                     /\ Depth(s, i + 1) = Depth(s, i) + Turn(s[i + 1])
  OBVIOUS
<1>. DEFINE opens(n) == Count(s, n, "(")
            closes(n) == Count(s, n, ")")
<1>1. \A n : Depth(s, n) = opens(n) - closes(n)
  BY DEF Depth, Count
<1>2. /\ opens(0) = 0 /\ closes(0) = 0 /\ opens(i) \in Nat /\ closes(i) \in Nat
      /\ opens(i + 1) = IF s[i + 1] = "(" THEN opens(i) + 1 ELSE opens(i)
      /\ closes(i + 1) = IF s[i + 1] = ")" THEN closes(i) + 1 ELSE closes(i)
  BY CountStep
<1>. HIDE DEF opens, closes
<1>3. CASE s[i + 1] = "("
  <2>1. /\ opens(i + 1) = opens(i) + 1 /\ closes(i + 1) = closes(i) /\ Turn(s[i + 1]) = 1
    BY <1>2, <1>3 DEF Turn
  <2>. QED  BY <1>1, <1>2, <2>1
<1>4. CASE s[i + 1] = ")"
  <2>1. /\ opens(i + 1) = opens(i) /\ closes(i + 1) = closes(i) + 1 /\ Turn(s[i + 1]) = -1
    BY <1>2, <1>4 DEF Turn
  <2>. QED  BY <1>1, <1>2, <2>1
<1>5. CASE s[i + 1] # "(" /\ s[i + 1] # ")"
  <2>1. /\ opens(i + 1) = opens(i) /\ closes(i + 1) = closes(i) /\ Turn(s[i + 1]) = 0
    BY <1>2, <1>5 DEF Turn
  <2>. QED  BY <1>1, <1>2, <2>1
<1>. QED  BY <1>3, <1>4, <1>5

(* The words of s stand in t behind the first a words.                         *)
StandsIn(s, t, a) == \A j \in 1 .. Len(s) : t[a + j] = s[j]

(* There the depth is that of s on top of that in front of s.                  *)
LEMMA DepthInside ==
    \A s \in Tokens : \A t : \A a \in Nat :
        StandsIn(s, t, a) => \A j \in 0 .. Len(s) : Depth(t, a + j) = Depth(t, a) + Depth(s, j)
<1>. SUFFICES ASSUME NEW s \in Tokens, NEW t, NEW a \in Nat, StandsIn(s, t, a)
              PROVE  \A j \in 0 .. Len(s) : Depth(t, a + j) = Depth(t, a) + Depth(s, j)
  OBVIOUS
<1>. DEFINE T == {j \in Nat : j <= Len(s) => Depth(t, a + j) = Depth(t, a) + Depth(s, j)}
<1>1. Len(s) \in Nat /\ \A i \in Nat : Depth(s, i) \in Int /\ Depth(t, i) \in Int
  BY LenProperties, DepthStep DEF Tokens
<1>2. 0 \in T
  BY <1>1, DepthStep
<1>3. ASSUME NEW j \in Nat, j \in T
      PROVE  j + 1 \in T
  <2>. SUFFICES ASSUME j + 1 <= Len(s)
                PROVE  Depth(t, a + (j + 1)) = Depth(t, a) + Depth(s, j + 1)
    OBVIOUS
  <2>1. Depth(t, a + j) = Depth(t, a) + Depth(s, j)
    BY <1>1, <1>3
  <2>2. a + j \in Nat /\ (a + j) + 1 = a + (j + 1) /\ j + 1 \in 1 .. Len(s)
    BY <1>1
  <2>3. t[a + (j + 1)] = s[j + 1]
    BY <2>2 DEF StandsIn
  <2>4. Depth(t, (a + j) + 1) = Depth(t, a + j) + Turn(t[(a + j) + 1])
    BY <2>2, DepthStep
  <2>5. Depth(s, j + 1) = Depth(s, j) + Turn(s[j + 1])
    BY DepthStep
  <2>6. Turn(s[j + 1]) \in Int
    BY DEF Turn
  <2>7. Depth(t, a) \in Int /\ Depth(s, j) \in Int
    BY <1>1
  <2>8. Depth(t, a + (j + 1)) = (Depth(t, a) + Depth(s, j)) + Turn(s[j + 1])
    BY <2>1, <2>2, <2>3, <2>4
  <2>. QED  BY <2>5, <2>6, <2>7, <2>8
<1>4. Nat \subseteq T
  <2>. HIDE DEF T
  <2>. QED  BY <1>2, <1>3, SetInduction
<1>. QED  BY <1>1, <1>4

(* No parenthesis is closed that is not open, and none stays open.             *)
Balanced(s) == /\ \A i \in 0 .. Len(s) : Depth(s, i) >= 0
               /\ Depth(s, Len(s)) = 0

(* The text of a condition, which may be put into parentheses.                 *)
Whole(s) == /\ s \in Tokens /\ s # <<>> /\ Balanced(s)
            /\ s[Len(s)] # "BETWEEN"

(* What may stand beside an operator: AND and OR are in parentheses only.      *)
Side(s) == /\ Whole(s)
           /\ s[1] = "(" \/ s \in Seq(Names)
           /\ \A i \in 1 .. Len(s) : i = Len(s) - 1 => s[i] # "BETWEEN"
           /\ \A i \in 1 .. Len(s) : s[i] \in {"AND", "OR"} => Depth(s, i) # 0

(* Names are no marks.                                                         *)
LEMMA NamesAreNoMarks ==
    \A w \in Names : /\ w \notin Marks /\ w # "(" /\ w # ")" /\ w # "BETWEEN"
                     /\ w \notin {"AND", "OR"} /\ Turn(w) = 0
<1>. SUFFICES ASSUME NEW w \in Names
              PROVE  /\ w \notin Marks /\ w # "(" /\ w # ")" /\ w # "BETWEEN"
                     /\ w \notin {"AND", "OR"} /\ Turn(w) = 0
  OBVIOUS
<1>1. w \notin Marks
  BY ConditionsAssumption
<1>2. w # "(" /\ w # ")" /\ w # "BETWEEN" /\ w # "AND" /\ w # "OR"
  BY <1>1 DEF Marks
<1>. QED  BY <1>1, <1>2 DEF Turn

(* The length and the words of a text.                                         *)
LEMMA TextWords ==
    \A s \in Tokens : /\ Len(s) \in Nat /\ (s # <<>> => Len(s) \in Nat \ {0})
                      /\ \A i \in 1 .. Len(s) : s[i] \in Names \cup Marks
<1>. DEFINE W == Names \cup Marks
<1>1. \A s \in Seq(W) : /\ Len(s) \in Nat /\ (s # <<>> => Len(s) # 0)
                        /\ \A i \in 1 .. Len(s) : s[i] \in W
  <2>. HIDE DEF W
  <2>. QED  BY LenProperties, EmptySeq, ElementOfSeq
<1>. QED  BY <1>1 DEF Tokens

(* Without parentheses the depth is 0 everywhere.                              *)
LEMMA NoBraces ==
    \A s \in Tokens : (\A i \in 1 .. Len(s) : Turn(s[i]) = 0) => Balanced(s)
<1>. SUFFICES ASSUME NEW s \in Tokens, \A i \in 1 .. Len(s) : Turn(s[i]) = 0
              PROVE  Balanced(s)
  OBVIOUS
<1>. DEFINE T == {i \in Nat : i <= Len(s) => Depth(s, i) = 0}
<1>1. Len(s) \in Nat
  BY TextWords
<1>2. 0 \in T
  BY DepthStep
<1>3. ASSUME NEW i \in Nat, i \in T
      PROVE  i + 1 \in T
  <2>. SUFFICES ASSUME i + 1 <= Len(s)
                PROVE  Depth(s, i + 1) = 0
    OBVIOUS
  <2>1. Depth(s, i) = 0 /\ i + 1 \in 1 .. Len(s)
    BY <1>1, <1>3
  <2>2. Depth(s, i + 1) = Depth(s, i) + Turn(s[i + 1])
    BY DepthStep
  <2>. QED  BY <2>1, <2>2
<1>4. Nat \subseteq T
  <2>. HIDE DEF T
  <2>. QED  BY <1>2, <1>3, SetInduction
<1>5. \A i \in 0 .. Len(s) : Depth(s, i) = 0
  BY <1>1, <1>4
<1>. QED  BY <1>1, <1>5 DEF Balanced

(* A text of names alone may stand beside an operator.                         *)
LEMMA NamesBeside ==
    \A s \in Seq(Names) : s # <<>> => Side(s)
<1>. SUFFICES ASSUME NEW s \in Seq(Names), s # <<>>
              PROVE  Side(s)
  OBVIOUS
<1>1. s \in Tokens
  <2>. DEFINE W == Names \cup Marks
  <2>1. Names \subseteq W
    OBVIOUS
  <2>2. Len(s) \in Nat /\ s \in [1 .. Len(s) -> Names]
    BY LenProperties
  <2>. HIDE DEF W
  <2>3. s \in [1 .. Len(s) -> W]
    BY <2>1, <2>2
  <2>4. s \in Seq(W)
    BY <2>2, <2>3, SeqDef
  <2>. QED  BY <2>4 DEF Tokens, W
<1>2. Len(s) \in Nat \ {0} /\ \A i \in 1 .. Len(s) : s[i] \in Names
  BY <1>1, TextWords, ElementOfSeq
<1>3. /\ \A i \in 1 .. Len(s) : s[i] # "BETWEEN" /\ s[i] \notin {"AND", "OR"}
      /\ \A i \in 1 .. Len(s) : Turn(s[i]) = 0
  BY <1>2, NamesAreNoMarks
<1>4. Balanced(s)
  BY <1>1, <1>3, NoBraces
<1>5. Len(s) \in 1 .. Len(s)
  BY <1>2
<1>6. Whole(s)
  BY <1>1, <1>3, <1>4, <1>5 DEF Whole
<1>. QED  BY <1>3, <1>6 DEF Side

(* The words of a text in parentheses.                                         *)
LEMMA WordsInBraces ==
    \A s \in Tokens :
        /\ InBraces(s) \in Tokens /\ Len(InBraces(s)) = Len(s) + 2
        /\ InBraces(s)[1] = "(" /\ InBraces(s)[Len(s) + 2] = ")"
        /\ StandsIn(s, InBraces(s), 1)
<1>. SUFFICES ASSUME NEW s \in Tokens
              PROVE  /\ InBraces(s) \in Tokens /\ Len(InBraces(s)) = Len(s) + 2
                     /\ InBraces(s)[1] = "(" /\ InBraces(s)[Len(s) + 2] = ")"
                     /\ StandsIn(s, InBraces(s), 1)
  OBVIOUS
<1>. DEFINE W == Names \cup Marks
            x == <<"(">>
            y == x \o s
            z == <<")">>
            t == y \o z
<1>1. "(" \in W /\ ")" \in W /\ s \in Seq(W)
  BY DEF Marks, Tokens
<1>2. x \in Seq(W) /\ Len(x) = 1 /\ x[1] = "(" /\ z \in Seq(W) /\ Len(z) = 1 /\ z[1] = ")"
  <2>. HIDE DEF W
  <2>. QED  BY <1>1, OneElement
<1>. DEFINE n == Len(s)
<1>3. n \in Nat
  BY LenProperties DEF Tokens
<1>. HIDE DEF W, x, z, n
<1>4. /\ y \in Seq(W) /\ Len(y) = Len(x) + n
      /\ \A i \in 1 .. Len(x) + n : y[i] = IF i <= Len(x) THEN x[i] ELSE s[i - Len(x)]
  BY <1>1, <1>2, ConcatProperties DEF n
<1>. HIDE DEF y
<1>5. /\ t \in Seq(W) /\ Len(t) = Len(y) + Len(z)
      /\ \A i \in 1 .. Len(y) + Len(z) : t[i] = IF i <= Len(y) THEN y[i] ELSE z[i - Len(y)]
  <2>1. y \in Seq(W) /\ z \in Seq(W)
    BY <1>2, <1>4
  <2>. QED  BY <2>1, ConcatProperties
<1>. HIDE DEF t
<1>6. Len(x) = 1 /\ Len(z) = 1 /\ Len(y) = n + 1 /\ Len(t) = n + 2
  BY <1>2, <1>3, <1>4, <1>5
<1>7. ASSUME NEW j \in 1 .. n
      PROVE  t[1 + j] = s[j]
  <2>1. /\ 1 + j \in 1 .. Len(y) + Len(z) /\ 1 + j <= Len(y)
        /\ 1 + j \in 1 .. Len(x) + n /\ ~(1 + j <= Len(x)) /\ (1 + j) - Len(x) = j
    BY <1>3, <1>6
  <2>2. t[1 + j] = y[1 + j]
    BY <1>5, <2>1
  <2>3. y[1 + j] = s[(1 + j) - Len(x)]
    BY <1>4, <2>1
  <2>. QED  BY <2>1, <2>2, <2>3
<1>8. t[1] = x[1]
  <2>1. /\ 1 \in 1 .. Len(y) + Len(z) /\ 1 <= Len(y)
        /\ 1 \in 1 .. Len(x) + n /\ 1 <= Len(x)
    BY <1>3, <1>6
  <2>. QED  BY <1>4, <1>5, <2>1
<1>9. t[n + 2] = z[1]
  <2>1. n + 2 \in 1 .. Len(y) + Len(z) /\ ~(n + 2 <= Len(y)) /\ (n + 2) - Len(y) = 1
    BY <1>3, <1>6
  <2>. QED  BY <1>5, <2>1
<1>10. StandsIn(s, t, 1)
  BY <1>7 DEF StandsIn, n
<1>11. t = InBraces(s)
  BY DEF t, y, x, z, InBraces
<1>12. t \in Tokens
  BY <1>5 DEF Tokens, W
<1>. QED  BY <1>2, <1>6, <1>8, <1>9, <1>10, <1>11, <1>12 DEF n

(* In its parentheses a condition is at depth one or more.                     *)
LEMMA DepthInBraces ==
    \A s : Whole(s) =>
        /\ \A i \in 1 .. Len(s) + 1 : Depth(InBraces(s), i) >= 1
        /\ Depth(InBraces(s), Len(s) + 2) = 0
<1>. SUFFICES ASSUME NEW s, Whole(s)
              PROVE  /\ \A i \in 1 .. Len(s) + 1 : Depth(InBraces(s), i) >= 1
                     /\ Depth(InBraces(s), Len(s) + 2) = 0
  OBVIOUS
<1>. DEFINE t == InBraces(s)
            n == Len(s)
<1>1. s \in Tokens /\ n \in Nat
  BY TextWords DEF Whole
<1>2. t[1] = "(" /\ t[n + 2] = ")" /\ StandsIn(s, t, 1)
  BY <1>1, WordsInBraces
<1>3. \A j \in 0 .. n : Depth(s, j) \in Int /\ Depth(s, j) >= 0 /\ Depth(s, n) = 0
  BY <1>1, DepthStep DEF Whole, Balanced
<1>. HIDE DEF t, n
<1>4. Depth(t, 1) = 1
  <2>1. Turn(t[1]) = 1
    BY <1>2 DEF Turn
  <2>2. Depth(t, 0) = 0 /\ Depth(t, 0 + 1) = Depth(t, 0) + Turn(t[0 + 1])
    BY DepthStep
  <2>3. 0 + 1 = 1
    OBVIOUS
  <2>4. Depth(t, 1) = 0 + 1
    BY <2>1, <2>2, <2>3
  <2>. QED  BY <2>3, <2>4
<1>5. \A j \in 0 .. n : Depth(t, 1 + j) = 1 + Depth(s, j)
  BY <1>1, <1>2, <1>4, DepthInside DEF n
<1>6. ASSUME NEW i \in 1 .. n + 1
      PROVE  Depth(t, i) >= 1
  <2>1. i - 1 \in 0 .. n /\ 1 + (i - 1) = i
    BY <1>1
  <2>2. Depth(t, i) = 1 + Depth(s, i - 1)
    BY <1>5, <2>1
  <2>. QED  BY <1>3, <2>1, <2>2
<1>7. Depth(t, n + 2) = 0
  <2>1. Turn(t[n + 2]) = -1
    BY <1>2 DEF Turn
  <2>2. n \in 0 .. n /\ 1 + n \in Nat /\ (1 + n) + 1 = n + 2
    BY <1>1
  <2>3. Depth(t, 1 + n) = 1 + 0
    BY <1>3, <1>5, <2>2
  <2>4. Depth(t, (1 + n) + 1) = Depth(t, 1 + n) + Turn(t[(1 + n) + 1])
    BY <2>2, DepthStep
  <2>. QED  BY <2>1, <2>2, <2>3, <2>4
<1>. QED  BY <1>6, <1>7 DEF t, n

(* In its parentheses it may stand beside an operator.                         *)
LEMMA BracedBeside ==
    \A s : Whole(s) => Side(InBraces(s))
<1>. SUFFICES ASSUME NEW s, Whole(s)
              PROVE  Side(InBraces(s))
  OBVIOUS
<1>. DEFINE t == InBraces(s)
            n == Len(s)
<1>1. s \in Tokens /\ n \in Nat \ {0} /\ s[n] # "BETWEEN"
  BY TextWords DEF Whole
<1>2. /\ t \in Tokens /\ Len(t) = n + 2 /\ t[1] = "(" /\ t[n + 2] = ")"
      /\ StandsIn(s, t, 1)
  BY <1>1, WordsInBraces
<1>3. /\ \A i \in 1 .. n + 1 : Depth(t, i) >= 1
      /\ Depth(t, n + 2) = 0 /\ Depth(t, 0) = 0 /\ \A i \in Nat : Depth(t, i) \in Int
  BY DepthInBraces, DepthStep
<1>. HIDE DEF t, n
<1>4. \A i \in 0 .. n + 2 : i = 0 \/ i = n + 2 \/ i \in 1 .. n + 1
  BY <1>1
<1>5. Balanced(t)
  <2>1. ASSUME NEW i \in 0 .. n + 2
        PROVE  Depth(t, i) >= 0
    <3>1. i \in Nat
      BY <1>1
    <3>. QED  BY <1>3, <1>4, <3>1
  <2>. QED  BY <1>2, <1>3, <2>1 DEF Balanced
<1>6. t # <<>>
  <2>1. Len(t) # 0
    BY <1>1, <1>2
  <2>. QED  BY <2>1
<1>7. t[Len(t)] # "BETWEEN"
  BY <1>2
<1>8. ASSUME NEW i \in 1 .. Len(t), i = Len(t) - 1
      PROVE  t[i] # "BETWEEN"
  <2>1. i = 1 + n /\ n \in 1 .. n
    BY <1>1, <1>2, <1>8
  <2>2. t[i] = s[n]
    BY <1>2, <2>1 DEF StandsIn, n
  <2>. QED  BY <1>1, <2>2
<1>9. ASSUME NEW i \in 1 .. Len(t), t[i] \in {"AND", "OR"}
      PROVE  Depth(t, i) # 0
  <2>1. t[n + 2] \notin {"AND", "OR"}
    BY <1>2
  <2>2. i # n + 2
    BY <1>9, <2>1
  <2>3. i \in 1 .. n + 1 /\ i \in Nat
    BY <1>1, <1>2, <2>2
  <2>4. Depth(t, i) >= 1 /\ Depth(t, i) \in Int
    BY <1>3, <2>3
  <2>. QED  BY <2>4
<1>10. Whole(t)
  BY <1>2, <1>5, <1>6, <1>7 DEF Whole
<1>11. Side(t)
  BY <1>2, <1>8, <1>9, <1>10 DEF Side
<1>. QED  BY <1>11 DEF t

-----------------------------------------------------------------------------
(* How joined texts are read, when a raw text is one condition.                *)

RawIsOneCondition == RawTexts \subseteq Seq(Names) \ {<<>>}

(* The words of an atomic condition.                                           *)
LEMMA AtomWords ==
    ASSUME RawIsOneCondition
    PROVE  /\ \A c \in Comparisons : c \in Seq(Names) /\ c # <<>>
           /\ \A c \in Atoms : c \in Seq(Names) \/ c \in Ranges
           /\ \A c \in Atoms : c[1] \in Names
<1>1. ASSUME NEW c \in Comparisons
      PROVE  c \in Seq(Names) /\ c # <<>> /\ c[1] \in Names
  <2>1. PICK f \in Names, op \in Names, v \in Names : c = <<f, op, v>>
    BY ConditionsAssumption
  <2>2. <<f, op, v>> \in Seq(Names) /\ Len(<<f, op, v>>) = 3 /\ <<f, op, v>>[1] = f
    OBVIOUS
  <2>. QED  BY <2>1, <2>2
<1>2. ASSUME NEW c \in Ranges
      PROVE  c[1] \in Names
  <2>1. PICK f \in Names, min \in Names, max \in Names : c = <<f, "BETWEEN", min, "AND", max>>
    BY ConditionsAssumption
  <2>. QED  BY <2>1
<1>3. ASSUME NEW c \in RawTexts
      PROVE  c \in Seq(Names) /\ c[1] \in Names
  <2>1. c \in Seq(Names) /\ c # <<>>
    BY DEF RawIsOneCondition
  <2>2. Len(c) \in Nat /\ Len(c) # 0 /\ \A i \in 1 .. Len(c) : c[i] \in Names
    BY <2>1, LenProperties, EmptySeq, ElementOfSeq
  <2>. QED  BY <2>1, <2>2
<1>. QED  BY <1>1, <1>2, <1>3 DEF Atoms

(* The text of a range is a condition.                                         *)
LEMMA RangeWhole ==
    \A c \in Ranges : Whole(c)
<1>. SUFFICES ASSUME NEW c \in Ranges
              PROVE  Whole(c)
  OBVIOUS
<1>1. PICK f \in Names, min \in Names, max \in Names : c = <<f, "BETWEEN", min, "AND", max>>
  BY ConditionsAssumption
<1>2. /\ Len(c) = 5 /\ c # <<>>
      /\ c[1] = f /\ c[2] = "BETWEEN" /\ c[3] = min /\ c[4] = "AND" /\ c[5] = max
  BY <1>1
<1>3. c \in Tokens
  <2>. DEFINE W == Names \cup Marks
  <2>1. f \in W /\ min \in W /\ max \in W /\ "BETWEEN" \in W /\ "AND" \in W
    BY DEF Marks
  <2>2. <<f, "BETWEEN", min, "AND", max>> \in Seq(W)
    <3>. HIDE DEF W
    <3>. QED  BY <2>1
  <2>. QED  BY <1>1, <2>2 DEF Tokens
<1>4. \A i \in 1 .. Len(c) : Turn(c[i]) = 0
  <2>1. Turn("BETWEEN") = 0 /\ Turn("AND") = 0
    BY DEF Turn
  <2>2. Turn(f) = 0 /\ Turn(min) = 0 /\ Turn(max) = 0
    BY NamesAreNoMarks
  <2>3. \A i \in 1 .. 5 : i = 1 \/ i = 2 \/ i = 3 \/ i = 4 \/ i = 5
    OBVIOUS
  <2>. QED  BY <1>2, <2>1, <2>2, <2>3
<1>5. Balanced(c)
  BY <1>3, <1>4, NoBraces
<1>6. c[Len(c)] # "BETWEEN"
  BY <1>2, NamesAreNoMarks
<1>. QED  BY <1>2, <1>3, <1>5, <1>6 DEF Whole

(* An atomic condition takes the rows that meet it.                            *)
LEMMA AtomReading ==
    ASSUME RawIsOneCondition
    PROVE  /\ \A c \in Comparisons \cup Ranges : Reading[c] = {r \in Rows : c \in r}
           /\ \A c \in Comparisons \cup Ranges : Whole(c)
<1>1. ASSUME NEW c \in Comparisons \cup Ranges
      PROVE  Whole(c)
  BY RangeWhole, AtomWords, NamesBeside DEF Side
<1>2. ASSUME NEW c \in Comparisons \cup Ranges
      PROVE  Reading[c] = {r \in Rows : c \in r}
  <2>1. c \in Tokens /\ c \in Atoms
    BY <1>1 DEF Whole, Atoms
  <2>2. Reading[c] = ReadBy(Reading, c)
    BY <2>1, ReadingDef
  <2>. QED  BY <2>1, <2>2 DEF ReadBy
<1>. QED  BY <1>1, <1>2

(* What is inside of the parentheses.                                          *)
LEMMA InsideBraces ==
    \A s \in Tokens : SubSeq(InBraces(s), 2, Len(InBraces(s)) - 1) = s
<1>. SUFFICES ASSUME NEW s \in Tokens
              PROVE  SubSeq(InBraces(s), 2, Len(InBraces(s)) - 1) = s
  OBVIOUS
<1>. DEFINE W == Names \cup Marks
            t == InBraces(s)
            n == Len(s)
            u == SubSeq(t, 2, n + 1)
<1>1. n \in Nat /\ t \in Seq(W) /\ s \in Seq(W) /\ Len(t) = n + 2 /\ StandsIn(s, t, 1)
  BY TextWords, WordsInBraces DEF Tokens
<1>. HIDE DEF t, W, n
<1>2. \A i \in 2 .. n + 1 : t[i] \in W
  <2>1. \A i \in 1 .. Len(t) : t[i] \in W
    BY <1>1, ElementOfSeq
  <2>2. \A i \in 2 .. n + 1 : i \in 1 .. Len(t)
    BY <1>1
  <2>. QED  BY <2>1, <2>2
<1>3. /\ u \in Seq(W)
      /\ Len(u) = IF 2 <= n + 1 THEN ((n + 1) - 2) + 1 ELSE 0
      /\ \A i \in 1 .. ((n + 1) - 2) + 1 : u[i] = t[(2 + i) - 1]
  BY <1>1, <1>2, SubSeqProperties
<1>. HIDE DEF u
<1>4. Len(u) = n
  BY <1>1, <1>3
<1>5. ASSUME NEW i \in 1 .. n
      PROVE  u[i] = s[i]
  <2>1. i \in 1 .. ((n + 1) - 2) + 1 /\ (2 + i) - 1 = 1 + i
    BY <1>1
  <2>2. u[i] = t[1 + i]
    BY <1>3, <2>1
  <2>. QED  BY <1>1, <2>2 DEF StandsIn, n
<1>6. u = s
  BY <1>1, <1>3, <1>4, <1>5, SeqEqual DEF n
<1>7. Len(t) - 1 = n + 1
  BY <1>1
<1>. QED  BY <1>6, <1>7 DEF u, t

(* Parentheses around a condition change nothing.                              *)
LEMMA BracedReading ==
    ASSUME RawIsOneCondition
    PROVE  \A s : Whole(s) => Reading[InBraces(s)] = Reading[s]
<1>. SUFFICES ASSUME NEW s, Whole(s)
              PROVE  Reading[InBraces(s)] = Reading[s]
  OBVIOUS
<1>. DEFINE t == InBraces(s)
<1>1. s \in Tokens /\ Len(s) \in Nat \ {0}
  BY TextWords DEF Whole
<1>2. t \in Tokens /\ Len(t) = Len(s) + 2 /\ t[1] = "(" /\ t[Len(s) + 2] = ")"
  BY <1>1, WordsInBraces
<1>3. t \notin Atoms
  BY <1>2, AtomWords, NamesAreNoMarks
<1>4. t # <<>> /\ Len(t) > 2
  <2>1. Len(t) > 2
    BY <1>1, <1>2
  <2>. QED  BY <2>1
<1>5. ASSUME NEW op
      PROVE  Splits(t, op) = {}
  <2>. SUFFICES ASSUME NEW i \in Splits(t, op)
                PROVE  FALSE
    OBVIOUS
  <2>1. i \in 2 .. Len(t) - 1 /\ Depth(t, i) = 0
    BY DEF Splits
  <2>2. i \in 1 .. Len(s) + 1
    BY <1>1, <1>2, <2>1
  <2>3. Depth(t, i) >= 1
    BY <2>2, DepthInBraces
  <2>. QED  BY <2>1, <2>3
<1>6. t[1] = "(" /\ t[Len(t)] = ")"
  BY <1>2
<1>7. SubSeq(t, 2, Len(t) - 1) = s
  BY <1>1, InsideBraces
<1>8. Reading[t] = ReadBy(Reading, t)
  BY <1>2, ReadingDef
<1>9. ReadBy(Reading, t) = Reading[s]
  <2>. HIDE DEF t
  <2>. QED  BY <1>3, <1>4, <1>5, <1>6, <1>7 DEF ReadBy
<1>. QED  BY <1>8, <1>9

(* The texts a and b with an operator between them.                            *)
IsJoint(a, b, op, z) ==
    /\ z \in Tokens /\ Len(z) = Len(a) + 1 + Len(b)
    /\ StandsIn(a, z, 0) /\ z[Len(a) + 1] = op /\ StandsIn(b, z, Len(a) + 1)

(* It is the concatenation of the three.                                      *)
LEMMA JointWords ==
    \A a, b \in Tokens, op \in {"AND", "OR"} : IsJoint(a, b, op, (a \o <<op>>) \o b)
<1>. SUFFICES ASSUME NEW a \in Tokens, NEW b \in Tokens, NEW op \in {"AND", "OR"}
              PROVE  IsJoint(a, b, op, (a \o <<op>>) \o b)
  OBVIOUS
<1>. DEFINE W == Names \cup Marks
            o == <<op>>
            y == a \o o
            z == y \o b
<1>1. op \in W /\ a \in Seq(W) /\ b \in Seq(W)
  BY DEF Marks, Tokens
<1>2. o \in Seq(W) /\ Len(o) = 1 /\ o[1] = op
  <2>. HIDE DEF W
  <2>. QED  BY <1>1, OneElement
<1>3. Len(a) \in Nat /\ Len(b) \in Nat
  BY TextWords
<1>. HIDE DEF W, o
<1>4. /\ y \in Seq(W) /\ Len(y) = Len(a) + Len(o)
      /\ \A i \in 1 .. Len(a) + Len(o) : y[i] = IF i <= Len(a) THEN a[i] ELSE o[i - Len(a)]
  BY <1>1, <1>2, ConcatProperties
<1>. HIDE DEF y
<1>5. /\ z \in Seq(W) /\ Len(z) = Len(y) + Len(b)
      /\ \A i \in 1 .. Len(y) + Len(b) : z[i] = IF i <= Len(y) THEN y[i] ELSE b[i - Len(y)]
  <2>1. y \in Seq(W) /\ b \in Seq(W)
    BY <1>1, <1>4
  <2>. QED  BY <2>1, ConcatProperties
<1>. HIDE DEF z
<1>6. Len(o) = 1 /\ Len(y) = Len(a) + 1 /\ Len(z) = (Len(a) + 1) + Len(b)
  BY <1>2, <1>4, <1>5
<1>7. ASSUME NEW j \in 1 .. Len(a)
      PROVE  z[0 + j] = a[j]
  <2>1. /\ j \in 1 .. Len(y) + Len(b) /\ j <= Len(y)
        /\ j \in 1 .. Len(a) + Len(o) /\ j <= Len(a) /\ 0 + j = j
    BY <1>3, <1>6
  <2>2. z[j] = y[j]
    BY <1>5, <2>1
  <2>3. y[j] = a[j]
    BY <1>4, <2>1
  <2>. QED  BY <2>1, <2>2, <2>3
<1>8. z[Len(a) + 1] = op
  <2>1. /\ Len(a) + 1 \in 1 .. Len(y) + Len(b) /\ Len(a) + 1 <= Len(y)
        /\ Len(a) + 1 \in 1 .. Len(a) + Len(o) /\ ~(Len(a) + 1 <= Len(a))
        /\ (Len(a) + 1) - Len(a) = 1
    BY <1>3, <1>6
  <2>2. z[Len(a) + 1] = y[Len(a) + 1]
    BY <1>5, <2>1
  <2>3. y[Len(a) + 1] = o[(Len(a) + 1) - Len(a)]
    BY <1>4, <2>1
  <2>. QED  BY <1>2, <2>1, <2>2, <2>3
<1>9. ASSUME NEW j \in 1 .. Len(b)
      PROVE  z[(Len(a) + 1) + j] = b[j]
  <2>1. /\ (Len(a) + 1) + j \in 1 .. Len(y) + Len(b) /\ ~((Len(a) + 1) + j <= Len(y))
        /\ ((Len(a) + 1) + j) - Len(y) = j
    BY <1>3, <1>6
  <2>2. z[(Len(a) + 1) + j] = b[((Len(a) + 1) + j) - Len(y)]
    BY <1>5, <2>1
  <2>. QED  BY <2>1, <2>2
<1>10. StandsIn(a, z, 0) /\ StandsIn(b, z, Len(a) + 1)
  BY <1>7, <1>9 DEF StandsIn
<1>11. z \in Tokens
  BY <1>5 DEF Tokens, W
<1>12. IsJoint(a, b, op, z)
  BY <1>6, <1>8, <1>10, <1>11 DEF IsJoint
<1>. QED  BY <1>12 DEF z, y, o

(* A joined text ends as its right side does, and the operator is at depth 0.  *)
LEMMA JointDepth ==
    ASSUME NEW a, NEW b, NEW op \in {"AND", "OR"}, NEW z,
           Side(a), Side(b), IsJoint(a, b, op, z)
    PROVE  /\ Len(a) \in Nat \ {0} /\ Len(b) \in Nat \ {0}
           /\ \A j \in 0 .. Len(a) : Depth(z, j) = Depth(a, j)
           /\ Depth(z, Len(a) + 1) = 0
           /\ \A j \in 0 .. Len(b) : Depth(z, (Len(a) + 1) + j) = Depth(b, j)
           /\ Whole(z)
<1>. DEFINE n == Len(a)
            m == Len(b)
<1>1. /\ a \in Tokens /\ b \in Tokens /\ n \in Nat \ {0} /\ m \in Nat \ {0}
      /\ Balanced(a) /\ Balanced(b) /\ b[m] # "BETWEEN"
  BY TextWords DEF Side, Whole
<1>2. /\ z \in Tokens /\ Len(z) = n + 1 + m
      /\ StandsIn(a, z, 0) /\ z[n + 1] = op /\ StandsIn(b, z, n + 1)
  BY DEF IsJoint
<1>3. /\ \A j \in 0 .. n : Depth(a, j) \in Int /\ Depth(a, j) >= 0
      /\ Depth(a, n) = 0 /\ Depth(z, 0) = 0
      /\ \A j \in 0 .. m : Depth(b, j) \in Int /\ Depth(b, j) >= 0
      /\ Depth(b, m) = 0
  <2>1. /\ \A j \in 0 .. n : j \in Nat
        /\ \A j \in 0 .. m : j \in Nat
    BY <1>1
  <2>2. /\ \A j \in 0 .. n : Depth(a, j) \in Int
        /\ \A j \in 0 .. m : Depth(b, j) \in Int
        /\ Depth(z, 0) = 0
    BY <2>1, DepthStep
  <2>3. /\ \A j \in 0 .. n : Depth(a, j) >= 0
        /\ \A j \in 0 .. m : Depth(b, j) >= 0
        /\ Depth(a, n) = 0 /\ Depth(b, m) = 0
    BY <1>1 DEF Balanced
  <2>. QED  BY <2>2, <2>3
<1>. HIDE DEF n, m
<1>4. ASSUME NEW j \in 0 .. n
      PROVE  Depth(z, j) = Depth(a, j)
  <2>1. Depth(z, 0 + j) = Depth(z, 0) + Depth(a, j)
    BY <1>1, <1>2, DepthInside DEF n
  <2>2. 0 + j = j
    BY <1>1
  <2>3. Depth(z, j) = 0 + Depth(a, j)
    BY <1>3, <2>1, <2>2
  <2>. QED  BY <1>3, <2>3
<1>5. Depth(z, n + 1) = 0
  <2>1. Turn(op) = 0
    BY DEF Turn
  <2>2. Depth(z, n + 1) = Depth(z, n) + Turn(z[n + 1])
    BY <1>1, DepthStep
  <2>3. n \in 0 .. n
    BY <1>1
  <2>4. Depth(z, n) = 0
    BY <1>3, <1>4, <2>3
  <2>5. Depth(z, n + 1) = 0 + 0
    BY <1>2, <2>1, <2>2, <2>4
  <2>. QED  BY <2>5
<1>6. ASSUME NEW j \in 0 .. m
      PROVE  Depth(z, (n + 1) + j) = Depth(b, j)
  <2>1. n + 1 \in Nat
    BY <1>1
  <2>2. Depth(z, (n + 1) + j) = Depth(z, n + 1) + Depth(b, j)
    BY <1>1, <1>2, <2>1, DepthInside DEF m
  <2>3. Depth(z, (n + 1) + j) = 0 + Depth(b, j)
    BY <1>5, <2>2
  <2>. QED  BY <1>3, <2>3
<1>7. ASSUME NEW i \in 0 .. Len(z)
      PROVE  Depth(z, i) >= 0
  <2>1. CASE i \in 0 .. n
    BY <1>3, <1>4, <2>1
  <2>2. CASE i \notin 0 .. n
    <3>1. i - (n + 1) \in 0 .. m /\ (n + 1) + (i - (n + 1)) = i
      BY <1>1, <1>2, <2>2
    <3>2. Depth(z, i) = Depth(b, i - (n + 1))
      BY <1>6, <3>1
    <3>. QED  BY <1>3, <3>1, <3>2
  <2>. QED  BY <2>1, <2>2
<1>8. Depth(z, Len(z)) = 0 /\ z[Len(z)] = b[m]
  <2>1. m \in 0 .. m /\ m \in 1 .. m /\ (n + 1) + m = Len(z)
    BY <1>1, <1>2
  <2>2. Depth(z, Len(z)) = Depth(b, m)
    BY <1>6, <2>1
  <2>3. z[(n + 1) + m] = b[m]
    BY <1>2, <2>1 DEF StandsIn, m
  <2>. QED  BY <1>3, <2>1, <2>2, <2>3
<1>9. z # <<>>
  <2>1. Len(z) # 0
    BY <1>1, <1>2
  <2>. QED  BY <2>1
<1>10. Balanced(z)
  BY <1>7, <1>8 DEF Balanced
<1>11. Whole(z)
  BY <1>1, <1>2, <1>8, <1>9, <1>10 DEF Whole
<1>. QED  BY <1>1, <1>4, <1>5, <1>6, <1>11 DEF n, m

(* It is split at that operator and nowhere else.                              *)
LEMMA JointSplits ==
    ASSUME NEW a, NEW b, NEW op \in {"AND", "OR"}, NEW z,
           Side(a), Side(b), IsJoint(a, b, op, z)
    PROVE  /\ Splits(z, op) = {Len(a) + 1}
           /\ \A o \in {"AND", "OR"} : o # op => Splits(z, o) = {}
<1>. DEFINE n == Len(a)
            m == Len(b)
<1>1. /\ n \in Nat \ {0} /\ m \in Nat \ {0}
      /\ \A j \in 0 .. n : Depth(z, j) = Depth(a, j)
      /\ Depth(z, n + 1) = 0
      /\ \A j \in 0 .. m : Depth(z, (n + 1) + j) = Depth(b, j)
  BY JointDepth
<1>2. /\ Len(z) = n + 1 + m
      /\ StandsIn(a, z, 0) /\ z[n + 1] = op /\ StandsIn(b, z, n + 1)
  BY DEF IsJoint
<1>3. /\ \A i \in 1 .. n : a[i] \in {"AND", "OR"} => Depth(a, i) # 0
      /\ \A i \in 1 .. m : b[i] \in {"AND", "OR"} => Depth(b, i) # 0
      /\ \A i \in 1 .. n : i = n - 1 => a[i] # "BETWEEN"
  BY DEF Side
<1>4. /\ \A i \in 1 .. n : z[i] = a[i]
      /\ \A i \in 1 .. m : z[(n + 1) + i] = b[i]
  <2>1. \A i \in 1 .. n : 0 + i = i
    BY <1>1
  <2>. QED  BY <1>2, <2>1 DEF StandsIn
<1>. HIDE DEF n, m
<1>5. ASSUME NEW i \in 1 .. Len(z), z[i] \in {"AND", "OR"}, Depth(z, i) = 0
      PROVE  i = n + 1
  <2>1. CASE i \in 1 .. n
    <3>1. a[i] \in {"AND", "OR"} /\ i \in 0 .. n
      BY <1>1, <1>4, <1>5, <2>1
    <3>. QED  BY <1>1, <1>3, <1>5, <2>1, <3>1
  <2>2. CASE i \notin 1 .. n /\ i # n + 1
    <3>. DEFINE j == i - (n + 1)
    <3>1. j \in 1 .. m /\ j \in 0 .. m /\ (n + 1) + j = i
      BY <1>1, <1>2, <2>2
    <3>. HIDE DEF j
    <3>2. b[j] \in {"AND", "OR"} /\ Depth(b, j) = 0
      BY <1>1, <1>4, <1>5, <3>1
    <3>. QED  BY <1>3, <3>1, <3>2
  <2>. QED  BY <2>1, <2>2
<1>6. ASSUME NEW o \in {"AND", "OR"}, NEW i \in Splits(z, o)
      PROVE  i = n + 1 /\ o = op
  <2>1. i \in 2 .. Len(z) - 1 /\ z[i] = o /\ Depth(z, i) = 0
    BY DEF Splits
  <2>2. i \in 1 .. Len(z)
    BY <1>1, <1>2, <2>1
  <2>3. i = n + 1
    BY <1>5, <2>1, <2>2
  <2>. QED  BY <1>2, <2>1, <2>3
<1>7. n + 1 \in Splits(z, op)
  <2>1. n + 1 \in 2 .. Len(z) - 1
    BY <1>1, <1>2
  <2>2. n + 1 > 2 => z[(n + 1) - 2] # "BETWEEN"
    <3>. SUFFICES ASSUME n + 1 > 2
                  PROVE  z[(n + 1) - 2] # "BETWEEN"
      OBVIOUS
    <3>. DEFINE j == (n + 1) - 2
    <3>1. j \in 1 .. n /\ j = n - 1
      BY <1>1
    <3>. HIDE DEF j
    <3>2. z[j] = a[j] /\ a[j] # "BETWEEN"
      BY <1>3, <1>4, <3>1
    <3>. QED  BY <3>2 DEF j
  <2>. QED  BY <1>1, <1>2, <2>1, <2>2 DEF Splits
<1>8. Splits(z, op) = {n + 1}
  BY <1>6, <1>7
<1>9. \A o \in {"AND", "OR"} : o # op => Splits(z, o) = {}
  BY <1>6
<1>. QED  BY <1>8, <1>9 DEF n

(* The server reads it as the operator on what both sides mean.                *)
LEMMA JointReading ==
    ASSUME RawIsOneCondition,
           NEW a, NEW b, NEW op \in {"AND", "OR"}, NEW z,
           Side(a), Side(b), IsJoint(a, b, op, z)
    PROVE  Reading[z] = Combine(op, Reading[a], Reading[b])
<1>. DEFINE n == Len(a)
            m == Len(b)
            W == Names \cup Marks
<1>1. /\ n \in Nat \ {0} /\ m \in Nat \ {0}
      /\ Splits(z, op) = {n + 1}
      /\ op = "AND" => Splits(z, "OR") = {}
  BY JointDepth, JointSplits
<1>2. /\ z \in Seq(W) /\ a \in Seq(W) /\ b \in Seq(W) /\ Len(z) = n + 1 + m
      /\ \A j \in 1 .. n : z[0 + j] = a[j]
      /\ z[n + 1] = op
      /\ \A j \in 1 .. m : z[(n + 1) + j] = b[j]
      /\ a[1] = "(" \/ a \in Seq(Names)
  BY DEF IsJoint, StandsIn, Side, Whole, Tokens
<1>3. \A i \in 1 .. Len(z) : z[i] \in W
  <2>. HIDE DEF W
  <2>. QED  BY <1>2, ElementOfSeq
<1>4. z \notin Atoms
  <2>1. op \notin Names
    BY NamesAreNoMarks DEF Marks
  <2>2. CASE z \in Seq(Names)
    <3>1. n + 1 \in 1 .. Len(z)
      BY <1>1, <1>2
    <3>2. z[n + 1] \in Names
      BY <2>2, <3>1, ElementOfSeq
    <3>. QED  BY <1>2, <2>1, <3>2
  <2>3. CASE z \in Ranges
    <3>1. PICK f \in Names, min \in Names, max \in Names :
              z = <<f, "BETWEEN", min, "AND", max>>
      BY <2>3, ConditionsAssumption
    <3>2. /\ Len(z) = 5 /\ z[1] = f /\ z[2] = "BETWEEN" /\ z[3] = min /\ z[4] = "AND"
          /\ z[5] = max
      BY <3>1
    <3>3. n + 1 \in 1 .. 5
      BY <1>1, <1>2, <3>2
    <3>4. op # "BETWEEN"
      OBVIOUS
    <3>5. n + 1 = 4
      <4>1. n + 1 # 1 /\ n + 1 # 2 /\ n + 1 # 3 /\ n + 1 # 5
        BY <1>2, <2>1, <3>1, <3>2, <3>4
      <4>. QED  BY <3>3, <4>1
    <3>6. 1 \in 1 .. n /\ 2 \in 1 .. n /\ 0 + 1 = 1 /\ 0 + 2 = 2
      BY <1>1, <3>5
    <3>7. a[1] = f /\ a[2] = "BETWEEN"
      BY <1>2, <3>2, <3>6
    <3>8. a[1] # "("
      BY <3>7, NamesAreNoMarks
    <3>9. a \in Seq(Names)
      BY <1>2, <3>8
    <3>10. a[2] \in Names
      BY <3>6, <3>9, ElementOfSeq
    <3>. QED  BY <3>7, <3>10, NamesAreNoMarks
  <2>. QED  BY <2>2, <2>3, AtomWords
<1>5. z \in Tokens
  BY DEF IsJoint
<1>6. (CHOOSE j \in Splits(z, op) : TRUE) = n + 1
  BY <1>1
<1>7. ReadBy(Reading, z) = HalvesBy(Reading, z, op)
  <2>1. (IF Splits(z, "OR") # {} THEN "OR" ELSE "AND") = op
    BY <1>1
  <2>2. Splits(z, op) # {}
    BY <1>1
  <2>. QED  BY <1>4, <2>1, <2>2 DEF ReadBy
<1>8. SubSeq(z, 1, (n + 1) - 1) = a
  <2>. DEFINE u == SubSeq(z, 1, n)
  <2>. HIDE DEF W, n
  <2>1. \A i \in 1 .. n : z[i] \in W
    <3>1. \A i \in 1 .. n : i \in 1 .. Len(z)
      BY <1>1, <1>2
    <3>. QED  BY <1>3, <3>1
  <2>2. /\ u \in Seq(W) /\ Len(u) = IF 1 <= n THEN (n - 1) + 1 ELSE 0
        /\ \A i \in 1 .. (n - 1) + 1 : u[i] = z[(1 + i) - 1]
    BY <1>1, <1>2, <2>1, SubSeqProperties
  <2>. HIDE DEF u
  <2>3. Len(u) = n
    BY <1>1, <2>2
  <2>4. \A i \in 1 .. n : u[i] = a[i]
    <3>1. \A i \in 1 .. n : i \in 1 .. (n - 1) + 1 /\ (1 + i) - 1 = i /\ 0 + i = i
      BY <1>1
    <3>. QED  BY <1>2, <2>2, <3>1
  <2>5. u = a
    BY <1>2, <2>2, <2>3, <2>4, SeqEqual DEF n
  <2>6. (n + 1) - 1 = n
    BY <1>1
  <2>. QED  BY <2>5, <2>6 DEF u
<1>9. SubSeq(z, (n + 1) + 1, Len(z)) = b
  <2>. DEFINE u == SubSeq(z, n + 2, Len(z))
  <2>. HIDE DEF W, m, n
  <2>1. n + 2 \in Nat /\ Len(z) \in Nat /\ n + 2 <= Len(z) /\ (Len(z) - (n + 2)) + 1 = m
    BY <1>1, <1>2
  <2>2. \A i \in n + 2 .. Len(z) : z[i] \in W
    <3>1. \A i \in n + 2 .. Len(z) : i \in 1 .. Len(z)
      BY <1>1, <2>1
    <3>. QED  BY <1>3, <3>1
  <2>3. /\ u \in Seq(W)
        /\ Len(u) = IF n + 2 <= Len(z) THEN (Len(z) - (n + 2)) + 1 ELSE 0
        /\ \A i \in 1 .. (Len(z) - (n + 2)) + 1 : u[i] = z[((n + 2) + i) - 1]
    BY <1>2, <2>1, <2>2, SubSeqProperties
  <2>. HIDE DEF u
  <2>4. Len(u) = m
    BY <2>1, <2>3
  <2>5. \A i \in 1 .. m : u[i] = b[i]
    <3>1. \A i \in 1 .. m : ((n + 2) + i) - 1 = (n + 1) + i
      BY <1>1
    <3>. QED  BY <1>2, <2>1, <2>3, <3>1
  <2>6. u = b
    BY <1>2, <2>3, <2>4, <2>5, SeqEqual DEF m
  <2>7. (n + 1) + 1 = n + 2
    BY <1>1
  <2>. QED  BY <2>6, <2>7 DEF u
<1>10. HalvesBy(Reading, z, op) = Combine(op, Reading[a], Reading[b])
  BY <1>6, <1>8, <1>9 DEF HalvesBy
<1>. QED  BY <1>5, <1>7, <1>10, ReadingDef

-----------------------------------------------------------------------------
(* The text of every condition means what the caller means.                    *)

(* Somewhere below r is an operator without operands.                          *)
EmptyBelow(h, e, r) == \E n \in e[r] : h[n].type = "operator" /\ h[n].text = <<>>

(* The text of r is read as the rows x; as long as it is no operator, it can   *)
(* do without parentheses.                                                     *)
Spoken(h, f, r, x) ==
    /\ Whole(FlatOf(h, f, r)) /\ Reading[FlatOf(h, f, r)] = x
    /\ h[r].type = "operator" \/ FlatOf(h, f, r) \in Seq(Names)

(* A condition with the root r that the caller means as x.                     *)
AsMeant(h, f, e, r, x) ==
    /\ r = Null => x = Nothing
    /\ (r # Null /\ ~EmptyBelow(h, e, r)) => Spoken(h, f, r, x)

MeaningInv == \A k \in InUse : AsMeant(node, Text, Subtree, k.root, k.means)

(* What a step does to the heap changes nothing of it.                         *)
LEMMA AsMeantStays ==
    ASSUME NEW h, NEW g, NEW f, NEW f2, NEW e, NEW e2, NEW r \in 0 .. Len(h), NEW x,
           Stays(h, g), TextOn(h, f), TextOn(g, f2), SubtreeOn(h, e), SubtreeOn(g, e2),
           AsMeant(h, f, e, r, x)
    PROVE  AsMeant(g, f2, e2, r, x)
<1>. SUFFICES ASSUME r # Null, ~EmptyBelow(g, e2, r)
              PROVE  Spoken(g, f2, r, x)
  BY DEF AsMeant
<1>1. Len(h) \in Nat /\ Heap(h) /\ Heap(g) /\ SameNodes(h, g)
  BY NodeType DEF Stays
<1>2. r \in 1 .. Len(h)
  BY <1>1 DEF Null
<1>3. e2[r] = e[r] /\ e[r] \subseteq 1 .. Len(h)
  <2>1. e2[r] = e[r]
    BY <1>1, SubtreeStays
  <2>2. e[r] \in SUBSET (1 .. Len(h))
    BY DEF SubtreeOn
  <2>. QED  BY <2>1, <2>2
<1>4. \A n \in 1 .. Len(h) : g[n].type = h[n].type /\ g[n].text = h[n].text
  BY <1>1 DEF SameNodes
<1>5. ~EmptyBelow(h, e, r)
  BY <1>3, <1>4 DEF EmptyBelow
<1>6. Spoken(h, f, r, x)
  BY <1>5 DEF AsMeant
<1>7. FlatOf(g, f2, r) = FlatOf(h, f, r)
  BY <1>2, FlatStays
<1>. QED  BY <1>2, <1>4, <1>6, <1>7 DEF Spoken

(* What stands beside an operator in the text of a join.                       *)
LEMMA SpokenBeside ==
    ASSUME RawIsOneCondition, NEW g, NEW f, NEW r, NEW x, NEW a, Spoken(g, f, r, x),
           a = IF g[r].type = "operator" THEN InBraces(FlatOf(g, f, r)) ELSE FlatOf(g, f, r)
    PROVE  Side(a) /\ Reading[a] = x
<1>. DEFINE s == FlatOf(g, f, r)
<1>1. Whole(s) /\ Reading[s] = x /\ (g[r].type = "operator" \/ s \in Seq(Names))
  BY DEF Spoken
<1>. HIDE DEF s
<1>2. CASE g[r].type = "operator"
  <2>1. a = InBraces(s)
    BY <1>2 DEF s
  <2>. QED  BY <1>1, <2>1, BracedBeside, BracedReading
<1>3. CASE g[r].type # "operator"
  <2>1. a = s /\ s \in Seq(Names) /\ s # <<>>
    BY <1>1, <1>3 DEF s, Whole
  <2>. QED  BY <1>1, <2>1, NamesBeside
<1>. QED  BY <1>2, <1>3

(* The text of a join means the operator on what both conditions mean.         *)
LEMMA JoinMeans ==
    ASSUME RawIsOneCondition,
           NEW h, NEW g, NEW op \in {"AND", "OR"}, NEW l \in 1 .. Len(h), NEW r \in 1 .. Len(h),
           NEW f, NEW e, NEW x, NEW y,
           Heap(h), JoinOn(h, g, op, l, r), TextOn(g, f), SubtreeOn(g, e),
           AsMeant(g, f, e, l, x), AsMeant(g, f, e, r, y)
    PROVE  AsMeant(g, f, e, Len(g), Combine(op, x, y))
<1>. DEFINE n == Len(g)
            z == FlatOf(g, f, n)
<1>1. /\ SameNodes(h, g) /\ g[n].type = "operator" /\ n = Len(h) + 1
  <2>1. /\ SameNodes(h, g) /\ g[Len(h) + 1].type = "operator" /\ Len(g) = Len(h) + 1
    BY JoinedNodes
  <2>. QED  BY <2>1
<1>2. l # Null /\ r # Null /\ n # Null
  BY <1>1, NodeType DEF Null
<1>. SUFFICES ASSUME ~EmptyBelow(g, e, n)
              PROVE  Spoken(g, f, n, Combine(op, x, y))
  BY <1>2 DEF AsMeant
<1>3. /\ e[n] = {n} \cup e[l] \cup e[r] /\ z = f[l] \o <<op>> \o f[r]
      /\ \A c \in {l, r} : f[c] = IF h[c].type = "operator" THEN InBraces(FlatOf(g, f, c))
                               ELSE FlatOf(g, f, c)
  <2>1. JoinedText(h, g, op, l, r)
    BY JoinText
  <2>. QED  BY <2>1 DEF JoinedText
<1>4. ~EmptyBelow(g, e, l) /\ ~EmptyBelow(g, e, r)
  BY <1>3 DEF EmptyBelow
<1>5. Spoken(g, f, l, x) /\ Spoken(g, f, r, y)
  BY <1>2, <1>4 DEF AsMeant
<1>6. ASSUME NEW c \in {l, r}
      PROVE  f[c] = IF g[c].type = "operator" THEN InBraces(FlatOf(g, f, c))
                    ELSE FlatOf(g, f, c)
  <2>1. g[c].type = h[c].type
    BY <1>1 DEF SameNodes
  <2>. QED  BY <1>3, <2>1
<1>7. Side(f[l]) /\ Reading[f[l]] = x
  BY <1>5, <1>6, SpokenBeside
<1>8. Side(f[r]) /\ Reading[f[r]] = y
  BY <1>5, <1>6, SpokenBeside
<1>. HIDE DEF n, z
<1>9. IsJoint(f[l], f[r], op, z)
  <2>1. f[l] \in Tokens /\ f[r] \in Tokens
    BY <1>7, <1>8 DEF Side, Whole
  <2>. QED  BY <1>3, <2>1, JointWords
<1>10. Whole(z) /\ Reading[z] = Combine(op, x, y)
  BY <1>7, <1>8, <1>9, JointDepth, JointReading
<1>. QED  BY <1>1, <1>10 DEF Spoken, z

(* Every step keeps what is meant.                                             *)
LEMMA ShapeMeans ==
    ASSUME RawIsOneCondition, TypeInv, MeaningInv, Shape
    PROVE  MeaningInv'
<1>1. /\ Heap(node) /\ Linked(node) /\ Len(node) \in Nat
      /\ \A k \in InUse : k.root \in 0 .. Len(node)
  BY NodeType DEF TypeInv, Rooted
<1>2. Stays(node, node') /\ Heap(node')
  BY ShapeKeeps DEF Stays
<1>3. /\ SubtreeOn(node, Subtree) /\ TextOn(node, Text)
      /\ SubtreeOn(node', Subtree') /\ TextOn(node', Text')
  BY <1>1, <1>2, OnHeap, OnHeapNext
<1>. DEFINE Good(r, x) == AsMeant(node', Text', Subtree', r, x)
<1>4. \A k \in InUse : Good(k.root, k.means)
  <2>. SUFFICES ASSUME NEW k \in InUse
                PROVE  Good(k.root, k.means)
    OBVIOUS
  <2>1. AsMeant(node, Text, Subtree, k.root, k.means) /\ k.root \in 0 .. Len(node)
    BY <1>1 DEF MeaningInv
  <2>. QED  BY <1>2, <1>3, <2>1, AsMeantStays
<1>5. ASSUME NEW r, NEW x, Uses(Handle(r, x)), Good(r, x)
      PROVE  MeaningInv'
  <2>. HIDE DEF Good
  <2>1. ASSUME NEW k \in InUse'
        PROVE  Good(k.root, k.means)
    <3>1. k \in InUse \/ k = Handle(r, x)
      BY <1>5 DEF Uses
    <3>2. Handle(r, x).root = r /\ Handle(r, x).means = x
      BY DEF Handle
    <3>. QED  BY <1>4, <1>5, <3>1, <3>2
  <2>2. MeaningInv' = \A k \in InUse' : Good(k.root, k.means)
    BY DEF MeaningInv, Good
  <2>. QED  BY <2>1, <2>2
<1>6. \A s \in Tokens : (<<>> \o s) \o <<>> = s
  BY ConcatEmptySeq DEF Tokens
<1>7. Len(node') \in Nat
  BY <1>2, NodeType
<1>8. CASE Quiet
  <2>1. Good(Null, Nothing)
    BY DEF AsMeant
  <2>. HIDE DEF Good
  <2>. QED  BY <1>5, <1>8, <2>1 DEF Quiet
<1>9. ASSUME NEW c \in Comparisons \cup Ranges, FlatOf(node', Text', Len(node')) = c,
             node'[Len(node')].type = "operator", Len(node') # 0
      PROVE  Good(Len(node'), {r \in Rows : c \in r})
  <2>1. Whole(c) /\ Reading[c] = {r \in Rows : c \in r}
    BY AtomReading
  <2>. HIDE DEF Whole
  <2>. QED  BY <1>9, <2>1 DEF AsMeant, Spoken, Null
<1>10. ASSUME NEW c \in Comparisons, MadeComparison(c)
       PROVE  MeaningInv'
  <2>1. ComparisonOn(node, node', c) /\ Uses(Handle(Len(node'), {r \in Rows : c \in r}))
    BY <1>10 DEF MadeComparison
  <2>2. /\ node'[Len(node')].type = "operator"
        /\ \A f : TextOn(node', f) => FlatOf(node', f, Len(node')) = c
    BY <1>1, <2>1, ComparisonHeap
  <2>3. Len(node') # 0
    BY <1>1, <2>1 DEF ComparisonOn
  <2>4. FlatOf(node', Text', Len(node')) = c
    BY <1>3, <2>2
  <2>. HIDE DEF Good
  <2>. QED  BY <1>5, <1>9, <2>1, <2>2, <2>3, <2>4
<1>11. ASSUME NEW c \in Ranges, MadeRange(c)
       PROVE  MeaningInv'
  <2>1. RangeOn(node, node', c) /\ Uses(Handle(Len(node'), {r \in Rows : c \in r}))
    BY <1>11 DEF MadeRange
  <2>2. /\ node'[Len(node')].type = "operator"
        /\ \A f : TextOn(node', f) => FlatOf(node', f, Len(node')) = c
    BY <1>1, <2>1, RangeHeap
  <2>3. Len(node') # 0
    BY <1>1, <2>1 DEF RangeOn
  <2>4. FlatOf(node', Text', Len(node')) = c
    BY <1>3, <2>2
  <2>. HIDE DEF Good
  <2>. QED  BY <1>5, <1>9, <2>1, <2>2, <2>3, <2>4
<1>12. ASSUME NEW s \in RawTexts, MadeRaw(s)
       PROVE  MeaningInv'
  <2>. DEFINE x == Node("raw", s, Null, Null, Null)
              n == Len(node')
  <2>1. s \in Tokens /\ s \in Seq(Names) /\ s # <<>>
    BY ConditionsAssumption DEF RawIsOneCondition
  <2>2. /\ x \in Nodes /\ x.left = Null /\ x.right = Null /\ x.parent = Null
        /\ x.text = s
    <3>1. "raw" \in Types /\ Null \in Nat
      BY DEF Types, Null
    <3>. QED  BY <2>1, <3>1, MadeNode
  <2>3. node' = Append(node, x) /\ Uses(Handle(n, Reading[s]))
    BY <1>12 DEF MadeRaw
  <2>4. node'[n] = x
    <3>. HIDE DEF x
    <3>1. Len(node') = Len(node) + 1 /\ node'[Len(node) + 1] = x
      BY <1>1, <2>2, <2>3, LeafHeap
    <3>. QED  BY <3>1
  <2>. HIDE DEF x
  <2>5. FlatOf(node', Text', n) = (Text'[0] \o s) \o Text'[0]
    BY <2>2, <2>4 DEF FlatOf, Null
  <2>6. FlatOf(node', Text', n) = s
    BY <1>3, <1>6, <2>1, <2>5 DEF TextOn
  <2>7. Whole(s)
    BY <2>1, NamesBeside DEF Side
  <2>8. Spoken(node', Text', n, Reading[s])
    BY <2>1, <2>6, <2>7 DEF Spoken
  <2>9. n # Null
    <3>1. Len(node') = Len(node) + 1
      BY <1>1, <2>2, <2>3, LeafHeap
    <3>. QED  BY <1>1, <3>1 DEF Null
  <2>10. Good(n, Reading[s])
    BY <2>8, <2>9 DEF AsMeant
  <2>. HIDE DEF Good, n
  <2>. QED  BY <1>5, <2>3, <2>10
<1>13. ASSUME NEW op \in {"AND", "OR"}, NEW k \in InUse, NEW m \in InUse, MadeJoin(op, k, m)
       PROVE  MeaningInv'
  <2>. DEFINE l == k.root
              r == m.root
              x == k.means
              y == m.means
              new == Joined(l, r)
  <2>1. /\ l \in 0 .. Len(node) /\ r \in 0 .. Len(node) /\ Good(l, x) /\ Good(r, y)
        /\ AsMeant(node, Text, Subtree, l, x) /\ AsMeant(node, Text, Subtree, r, y)
    BY <1>1, <1>4 DEF MeaningInv
  <2>2. AddCondition(op, l, r) /\ Uses(Handle(new, Combine(op, x, y)))
    BY <1>13 DEF MadeJoin
  <2>. HIDE DEF l, r, x, y, new
  <2>3. CASE /\ l \in 1 .. Len(node) /\ r \in 1 .. Len(node)
             /\ node' \in Seq(Nodes) /\ JoinOn(node, node', op, l, r)
             /\ new = Len(node')
    <3>1. Good(Len(node'), Combine(op, x, y))
      BY <1>1, <1>3, <2>1, <2>3, JoinMeans
    <3>. HIDE DEF Good
    <3>. QED  BY <1>5, <2>2, <2>3, <3>1
  <2>4. CASE /\ node' = Append(node, Node("operator", <<>>, Null, Null, Null))
             /\ new = Len(node) + 1
    <3>. DEFINE z == Node("operator", <<>>, Null, Null, Null)
    <3>1. /\ z \in Nodes /\ z.left = Null /\ z.right = Null /\ z.parent = Null
          /\ z.type = "operator" /\ z.text = <<>>
      <4>1. "operator" \in Types /\ <<>> \in Tokens /\ Null \in Nat
        BY TextsTogether DEF Types, Null
      <4>. QED  BY <4>1, MadeNode
    <3>2. node' = Append(node, z)
      BY <2>4
    <3>. HIDE DEF z
    <3>3. Len(node') = Len(node) + 1 /\ node'[Len(node) + 1] = z
      BY <1>1, <3>1, <3>2, LeafHeap
    <3>4. new \in 1 .. Len(node') /\ new # Null /\ node'[new] = z
      BY <1>1, <2>4, <3>3 DEF Null
    <3>5. new \in Subtree'[new]
      BY <1>3, <3>4 DEF SubtreeOn
    <3>6. EmptyBelow(node', Subtree', new)
      BY <3>1, <3>4, <3>5 DEF EmptyBelow
    <3>7. Good(new, Combine(op, x, y))
      BY <3>4, <3>6 DEF AsMeant
    <3>. HIDE DEF Good
    <3>. QED  BY <1>5, <2>2, <3>7
  <2>5. CASE l = Null /\ r # Null /\ node' = node /\ new = r
    <3>1. x = Nothing
      BY <2>1, <2>5 DEF AsMeant
    <3>2. Combine(op, x, y) = y
      BY <3>1 DEF Combine
    <3>. HIDE DEF Good
    <3>. QED  BY <1>5, <2>1, <2>2, <2>5, <3>2
  <2>6. CASE l # Null /\ r = Null /\ node' = node /\ new = l
    <3>1. y = Nothing
      BY <2>1, <2>6 DEF AsMeant
    <3>2. Combine(op, x, y) = x
      BY <3>1 DEF Combine
    <3>. HIDE DEF Good
    <3>. QED  BY <1>5, <2>1, <2>2, <2>6, <3>2
  <2>. QED  BY <1>1, <2>1, <2>2, <2>3, <2>4, <2>5, <2>6, AddStep DEF new
<1>. QED  BY <1>8, <1>10, <1>11, <1>12, <1>13 DEF Shape

(* What is meant is kept from the first state on.                              *)
LEMMA MeaningHolds ==
    ASSUME RawIsOneCondition
    PROVE  Spec => []MeaningInv
<1>1. Init => MeaningInv
  BY DEF Init, MeaningInv, InUse, Initialised, NoClause
<1>2. TypeInv /\ MeaningInv /\ [Next]_vars => MeaningInv'
  <2>. SUFFICES ASSUME TypeInv, MeaningInv, [Next]_vars
                PROVE  MeaningInv'
    OBVIOUS
  <2>1. CASE Next
    <3>1. Shape
      BY <2>1, StepShape
    <3>. QED  BY <3>1, ShapeMeans
  <2>2. CASE UNCHANGED vars
    <3>1. node' = node /\ InUse' = InUse
      BY <2>2 DEF vars, InUse, Initialised
    <3>2. Text' = Text /\ Subtree' = Subtree
      BY <3>1 DEF Text, GetString, Subtree, Braced
    <3>. QED  BY <3>1, <3>2 DEF MeaningInv
  <2>. QED  BY <2>1, <2>2
<1>. QED  BY <1>1, <1>2, TypeInvHolds, PTL DEF Spec

(* The server reads the text of a condition as the caller built it: however    *)
(* AND and OR are nested, and whether callers keep, share or release their     *)
(* conditions, the parentheses that GetString sets are those that are needed.  *)
(* A raw text is taken to be one condition, without marks.                     *)
THEOREM TextIsMeant ==
    ASSUME RawIsOneCondition
    PROVE  Spec => []TextMeansTree
<1>1. TypeInv /\ MeaningInv => TextMeansTree
  <2>. SUFFICES ASSUME TypeInv, MeaningInv, NEW k \in InUse, k.root # Null, ~HasEmpty(k)
                PROVE  Reading[Text[k.root]] = k.means
    BY DEF TextMeansTree
  <2>. DEFINE r == k.root
              s == FlatOf(node, Text, r)
  <2>1. Rooted(node, r) /\ Heap(node)
    BY DEF TypeInv
  <2>2. r \in 1 .. Len(node)
    BY <2>1, NodeType DEF Rooted, Null
  <2>3. ~EmptyBelow(node, Subtree, r)
    BY DEF HasEmpty, EmptyBelow, EmptyOperator
  <2>4. AsMeant(node, Text, Subtree, r, k.means)
    BY DEF MeaningInv
  <2>5. Whole(s) /\ Reading[s] = k.means
    BY <2>3, <2>4 DEF AsMeant, Spoken
  <2>6. Text[r] = IF BracedIn(node, r) THEN InBraces(s) ELSE s
    BY <2>1, <2>2, OnHeap DEF TextOn
  <2>. HIDE DEF s, r
  <2>7. Reading[Text[r]] = k.means
    BY <2>5, <2>6, BracedReading
  <2>. QED  BY <2>7 DEF r
<1>. QED  BY <1>1, TypeInvHolds, MeaningHolds, PTL

-----------------------------------------------------------------------------
(* Parents of living nodes.                                                    *)

(* A node below another is a child of one that is there as well.               *)
LEMMA BelowIsChild ==
    ASSUME NEW h, NEW f, Heap(h), SubtreeOn(h, f)
    PROVE  \A r \in 0 .. Len(h) : \A n \in f[r] :
               n = r \/ \E m \in f[r] : n \in {h[m].left, h[m].right}
<1>. DEFINE Child(n, r) == n = r \/ \E m \in f[r] : n \in {h[m].left, h[m].right}
            T == {r \in Nat : r <= Len(h) => \A n \in f[r] : Child(n, r)}
<1>1. /\ Len(h) \in Nat
      /\ \A n \in 1 .. Len(h) : h[n].left \in 0 .. n - 1 /\ h[n].right \in 0 .. n - 1
  BY NodeType
<1>2. ASSUME NEW r \in Nat, \A m \in Nat : m < r => m \in T
      PROVE  r \in T
  <2>. SUFFICES ASSUME r <= Len(h), NEW n \in f[r]
                PROVE  Child(n, r)
    OBVIOUS
  <2>1. r # 0
    BY DEF SubtreeOn
  <2>2. r \in 1 .. Len(h)
    BY <1>1, <2>1
  <2>3. f[r] = {r} \cup f[h[r].left] \cup f[h[r].right] /\ r \in f[r]
    BY <2>2 DEF SubtreeOn
  <2>4. ASSUME NEW c \in {h[r].left, h[r].right}, n \in f[c]
        PROVE  Child(n, r)
    <3>1. c \in Nat /\ c < r /\ c <= Len(h) /\ f[c] \subseteq f[r]
      BY <1>1, <2>2, <2>3
    <3>2. Child(n, c)
      BY <1>2, <2>4, <3>1
    <3>. QED  BY <2>3, <3>1, <3>2
  <2>. QED  BY <2>3, <2>4
<1>3. Nat \subseteq T
  <2>. HIDE DEF T
  <2>. QED  BY <1>2, StrongSetInduction
<1>. QED  BY <1>1, <1>3

(* What AddCondition returns is above what it was given and above what it made.*)
LEMMA AddKeeps ==
    ASSUME NEW op \in {"AND", "OR"}, NEW l \in 0 .. Len(node), NEW r \in 0 .. Len(node),
           Heap(node), Linked(node), SubtreeOn(node', Subtree'), AddCondition(op, l, r)
    PROVE  LET top == Subtree'[Joined(l, r)]
           IN  /\ Subtree'[l] \subseteq top /\ Subtree'[r] \subseteq top
               /\ Len(node) + 1 .. Len(node') \subseteq top
<1>. DEFINE new == Joined(l, r)
            f == Subtree'
<1>1. Len(node) \in Nat /\ f[0] = {}
  BY NodeType DEF SubtreeOn
<1>. SUFFICES /\ f[l] \subseteq f[new] /\ f[r] \subseteq f[new]
              /\ Len(node) + 1 .. Len(node') \subseteq f[new]
  OBVIOUS
<1>. HIDE DEF new
<1>2. CASE /\ l \in 1 .. Len(node) /\ r \in 1 .. Len(node)
           /\ node' \in Seq(Nodes) /\ JoinOn(node, node', op, l, r)
           /\ new = Len(node')
  <2>1. JoinedText(node, node', op, l, r)
    BY <1>2, JoinText
  <2>2. f[Len(node')] = {Len(node')} \cup f[l] \cup f[r]
    BY <2>1 DEF JoinedText
  <2>3. Len(node') = Len(node) + 1
    BY <1>2 DEF JoinOn
  <2>4. \A n \in Len(node) + 1 .. Len(node') : n = Len(node')
    BY <1>1, <2>3
  <2>. HIDE DEF f
  <2>. QED  BY <1>2, <2>2, <2>4
<1>3. CASE /\ l = Null /\ r = Null
           /\ node' = Append(node, Node("operator", <<>>, Null, Null, Null))
           /\ new = Len(node) + 1
  <2>1. Len(node') = Len(node) + 1
    BY <1>3, LenProperties, AppendProperties DEF Heap
  <2>2. new \in 1 .. Len(node') /\ \A n \in Len(node) + 1 .. Len(node') : n = new
    BY <1>1, <1>3, <2>1
  <2>3. new \in f[new]
    BY <2>2 DEF SubtreeOn
  <2>. HIDE DEF f
  <2>. QED  BY <1>1, <1>3, <2>2, <2>3 DEF Null
<1>4. CASE l = Null /\ r # Null /\ node' = node /\ new = r
  <2>1. Len(node) + 1 .. Len(node') = {}
    BY <1>1, <1>4
  <2>. HIDE DEF f
  <2>. QED  BY <1>1, <1>4, <2>1 DEF Null
<1>5. CASE l # Null /\ r = Null /\ node' = node /\ new = l
  <2>1. Len(node) + 1 .. Len(node') = {}
    BY <1>1, <1>5
  <2>. HIDE DEF f
  <2>. QED  BY <1>1, <1>5, <2>1 DEF Null
<1>. QED  BY <1>2, <1>3, <1>4, <1>5, AddStep DEF new

(* With a caller that keeps its conditions every node ever made lives.         *)
KeptInv == caller.keeps = "kept" => 1 .. Len(node) \subseteq Alive

(* Everything that was in use is in use or below what is, and so is all that   *)
(* is new.                                                                     *)
KeepsAll ==
    /\ \A k \in InUse : \E m \in InUse' : Subtree'[k.root] \subseteq Subtree'[m.root]
    /\ \A n \in Len(node) + 1 .. Len(node') : \E m \in InUse' : n \in Subtree'[m.root]

(* The living nodes are those below a condition in use.                        *)
LEMMA AliveIs ==
    /\ \A n : n \in Alive <=> \E k \in InUse : n \in Subtree[k.root]
    /\ \A n : n \in Alive' <=> \E k \in InUse' : n \in Subtree'[k.root]
<1>1. Roots = {k.root : k \in InUse}
  BY DEF Roots, InUse
<1>2. Roots' = {k.root : k \in InUse'}
  BY DEF Roots, InUse, Initialised
<1>. QED  BY <1>1, <1>2 DEF Alive

(* The step of a caller that keeps its conditions.                             *)
LEMMA KeptStep ==
    TypeInv /\ Next /\ caller.keeps = "kept" => KeepsAll
<1>. SUFFICES ASSUME TypeInv, Next, caller.keeps = "kept"
              PROVE  KeepsAll
  OBVIOUS
<1>1. /\ Heap(node) /\ Linked(node) /\ Len(node) \in Nat
      /\ \A k \in InUse : k.root \in 0 .. Len(node)
      /\ DOMAIN clause = Trees /\ caller.trees \subseteq Trees
  BY NodeType, CallersTrees DEF TypeInv, Rooted
<1>2. SubtreeOn(node', Subtree')
  BY StepShape, ShapeKeeps, OnHeapNext DEF Stays
<1>3. ASSUME node' = node, InUse \subseteq InUse'
      PROVE  KeepsAll
  <2>1. Len(node) + 1 .. Len(node') = {}
    BY <1>1, <1>3
  <2>. QED  BY <1>3, <2>1 DEF KeepsAll
<1>4. ASSUME InUse \subseteq InUse', NEW k \in InUse',
             Len(node) + 1 .. Len(node') \subseteq Subtree'[k.root]
      PROVE  KeepsAll
  BY <1>4 DEF KeepsAll
<1>5. (held \subseteq held' /\ UNCHANGED clause) => InUse \subseteq InUse'
  BY DEF InUse, Initialised
<1>6. held' \subseteq InUse'
  BY DEF InUse
<1>7. \A r, x : Handle(r, x).root = r
  BY DEF Handle
<1>8. ASSUME NEW c, c \in Comparisons \cup Ranges, UNCHANGED clause,
             \/ c \in Comparisons /\ NodeBind(c, Simple(c, Len(node) + 1))
             \/ c \in Ranges /\ NodeBind(c, Bounded(c, Len(node) + 1))
      PROVE  KeepsAll
  <2>1. CASE c[1] \notin KnownFields
    <3>1. node' = node /\ held \subseteq held'
      BY <1>8, <2>1 DEF NodeBind
    <3>. QED  BY <1>3, <1>5, <1>8, <3>1
  <2>2. CASE c[1] \in KnownFields
    <3>. DEFINE k == Handle(Len(node'), {r \in Rows : c \in r})
    <3>1. k \in held' /\ held \subseteq held'
      BY <1>8, <2>2 DEF NodeBind
    <3>2. \/ c \in Comparisons /\ node' = node \o Simple(c, Len(node) + 1)
          \/ c \in Ranges /\ node' = node \o Bounded(c, Len(node) + 1)
      BY <1>8, <2>2 DEF NodeBind
    <3>3. \/ c \in Comparisons /\ ComparisonOn(node, node', c)
          \/ c \in Ranges /\ RangeOn(node, node', c)
      BY <1>1, <3>2, SimpleNodes, BoundedNodes
    <3>4. Len(node) + 1 .. Len(node') \subseteq Subtree'[Len(node')]
      BY <1>1, <1>2, <3>3, ComparisonHeap, RangeHeap
    <3>5. k.root = Len(node')
      BY <1>7
    <3>. HIDE DEF k
    <3>. QED  BY <1>4, <1>5, <1>6, <1>8, <3>1, <3>4, <3>5
  <2>. QED  BY <2>1, <2>2
<1>9. CASE Compare \/ Between
  BY <1>8, <1>9 DEF Compare, Between
<1>10. CASE RawData
  <2>1. PICK s \in RawTexts : /\ node' = Append(node, Node("raw", s, Null, Null, Null))
                              /\ held' = held \cup {Handle(Len(node'), Reading[s])}
    BY <1>10 DEF RawData
  <2>. DEFINE k == Handle(Len(node'), Reading[s])
  <2>2. UNCHANGED clause /\ k \in held' /\ held \subseteq held' /\ k.root = Len(node')
    BY <1>7, <1>10, <2>1 DEF RawData
  <2>3. Len(node') = Len(node) + 1
    BY <1>1, <2>1, AppendProperties DEF Heap
  <2>4. Len(node') \in 1 .. Len(node') /\ \A n \in Len(node) + 1 .. Len(node') : n = Len(node')
    BY <1>1, <2>3
  <2>5. Len(node') \in Subtree'[Len(node')]
    BY <1>2, <2>4 DEF SubtreeOn
  <2>. HIDE DEF k
  <2>. QED  BY <1>4, <1>5, <1>6, <2>2, <2>4, <2>5
<1>11. ASSUME NEW op \in {"AND", "OR"}, Join(op)
       PROVE  KeepsAll
  <2>1. PICK l \in held, r \in held : \E kept \in SUBSET {l, r} :
            /\ Passed({l, r}, kept)
            /\ AddCondition(op, l.root, r.root)
            /\ held' = After({l, r}, kept) \cup {Handle(Joined(l.root, r.root),
                                                        Combine(op, l.means, r.means))}
    BY <1>11 DEF Join
  <2>. DEFINE k == Handle(Joined(l.root, r.root), Combine(op, l.means, r.means))
  <2>2. UNCHANGED clause /\ held \subseteq held' /\ k \in held'
    <3>1. held' = held \cup {k}
      BY <2>1 DEF Passed, After
    <3>. QED  BY <1>11, <3>1 DEF Join
  <2>3. k.root = Joined(l.root, r.root) /\ l.root \in 0 .. Len(node) /\ r.root \in 0 .. Len(node)
    BY <1>1, <1>7 DEF InUse
  <2>. HIDE DEF k
  <2>4. Len(node) + 1 .. Len(node') \subseteq Subtree'[k.root]
    BY <1>1, <1>2, <2>1, <2>3, AddKeeps
  <2>. QED  BY <1>4, <1>5, <1>6, <2>2, <2>4
<1>12. CASE And \/ Or
  BY <1>11, <1>12 DEF And, Or
<1>13. CASE Drop
  BY <1>13 DEF Drop
<1>14. ASSUME UNCHANGED <<node, held, clause>>
       PROVE  KeepsAll
  BY <1>3, <1>5, <1>14
<1>15. ASSUME NEW t \in caller.trees, InitTree(t)
       PROVE  KeepsAll
  <2>1. PICK h \in held : \E kept \in SUBSET {h} :
            /\ Passed({h}, kept) /\ ~Initialised(t)
            /\ clause' = [clause EXCEPT ![t] = h] /\ held' = After({h}, kept) /\ node' = node
    BY <1>15 DEF InitTree
  <2>2. held' = held
    BY <2>1 DEF Passed, After
  <2>3. ASSUME NEW u \in Trees, clause[u].root # NoRoot
        PROVE  clause'[u] = clause[u]
    BY <2>1, <2>3 DEF Initialised
  <2>4. InUse \subseteq InUse'
    BY <2>2, <2>3 DEF InUse, Initialised
  <2>. QED  BY <1>3, <2>1, <2>4
<1>16. ASSUME NEW t \in Trees, NEW op \in {"AND", "OR"}, NEW h \in InUse,
              Initialised(t), Grow(t, op, h), held' = held
       PROVE  KeepsAll
  <2>. DEFINE l == clause[t].root
              k == Handle(Joined(l, h.root), Combine(op, clause[t].means, h.means))
  <2>1. AddCondition(op, l, h.root) /\ clause' = [clause EXCEPT ![t] = k]
    BY <1>16 DEF Grow
  <2>2. l \in 0 .. Len(node) /\ h.root \in 0 .. Len(node) /\ k.root = Joined(l, h.root)
    BY <1>1, <1>7, <1>16 DEF InUse
  <2>. HIDE DEF k, l
  <2>3. /\ Subtree'[l] \subseteq Subtree'[k.root]
        /\ Len(node) + 1 .. Len(node') \subseteq Subtree'[k.root]
    BY <1>1, <1>2, <2>1, <2>2, AddKeeps
  <2>4. clause'[t] = k /\ \A u \in Trees \ {t} : clause'[u] = clause[u]
    BY <1>1, <2>1
  <2>5. k.root # NoRoot
    <3>1. k.root \in Nat
      BY <1>1, <2>2 DEF Joined, Null
    <3>. QED  BY <3>1 DEF NoRoot
  <2>6. k \in InUse'
    BY <2>4, <2>5 DEF InUse, Initialised
  <2>7. \A m \in InUse : m = clause[t] \/ m \in InUse'
    BY <1>16, <2>4 DEF InUse, Initialised
  <2>. QED  BY <2>3, <2>6, <2>7 DEF KeepsAll, l
<1>17. ASSUME NEW t \in caller.trees, NEW op \in {"AND", "OR"}, Add(t, op)
       PROVE  KeepsAll
  <2>1. PICK h \in held : \E kept \in SUBSET {h} :
            /\ Passed({h}, kept)
            /\ \/ Initialised(t) /\ Grow(t, op, h)
               \/ /\ ~Initialised(t) /\ node' = node
                  /\ \A u \in Trees \ {t} : clause'[u] = clause[u]
            /\ held' = After({h}, kept)
    BY <1>1, <1>17 DEF Add
  <2>2. held' = held /\ h \in InUse /\ t \in Trees
    BY <1>1, <2>1 DEF Passed, After, InUse
  <2>3. CASE ~Initialised(t) /\ node' = node /\ \A u \in Trees \ {t} : clause'[u] = clause[u]
    <3>1. InUse \subseteq InUse'
      BY <2>2, <2>3 DEF InUse, Initialised
    <3>. QED  BY <1>3, <2>3, <3>1
  <2>. QED  BY <1>16, <2>1, <2>2, <2>3
<1>18. ASSUME NEW t \in caller.trees, NEW u \in caller.trees, NEW op \in {"AND", "OR"},
              MergeWhereClause(t, u, op)
       PROVE  KeepsAll
  <2>1. /\ Initialised(t) /\ Initialised(u) /\ Grow(t, op, clause[u]) /\ held' = held
        /\ t \in Trees /\ u \in Trees
    BY <1>1, <1>18 DEF MergeWhereClause
  <2>2. clause[u] \in InUse
    BY <2>1 DEF InUse
  <2>. QED  BY <1>16, <2>1, <2>2
<1>19. ASSUME NEW t, ExecuteAll \/ Execute(t)
       PROVE  KeepsAll
  BY <1>14, <1>19 DEF ExecuteAll, Execute
<1>20. ASSUME NEW t \in caller.trees, AddAnd(t) \/ AddOr(t)
       PROVE  KeepsAll
  BY <1>17, <1>20 DEF AddAnd, AddOr
<1>. QED  BY <1>9, <1>10, <1>12, <1>13, <1>15, <1>18, <1>19, <1>20 DEF Next

(* So no node of it is ever released.                                          *)
LEMMA KeptPreserved ==
    TypeInv /\ KeptInv /\ [Next]_vars => KeptInv'
<1>. SUFFICES ASSUME TypeInv, KeptInv, [Next]_vars, caller'.keeps = "kept"
              PROVE  1 .. Len(node') \subseteq Alive'
  BY DEF KeptInv
<1>1. CASE Next
  <2>1. caller' = caller /\ Shape
    BY <1>1, StepShape
  <2>2. KeepsAll /\ 1 .. Len(node) \subseteq Alive
    BY <1>1, <2>1, KeptStep DEF KeptInv
  <2>3. /\ Stays(node, node') /\ Heap(node) /\ Heap(node') /\ SameNodes(node, node')
        /\ Len(node) \in Nat /\ Len(node') \in Nat
    BY <2>1, ShapeKeeps, NodeType DEF Stays
  <2>4. \A n \in 0 .. Len(node) : Subtree'[n] = Subtree[n]
    BY <2>3, OnHeap, OnHeapNext, SubtreeStays
  <2>5. ASSUME NEW n \in 1 .. Len(node')
        PROVE  n \in Alive'
    <3>1. CASE n \in 1 .. Len(node)
      <4>1. PICK k \in InUse : n \in Subtree[k.root]
        BY <2>2, <3>1, AliveIs
      <4>2. k.root \in 0 .. Len(node)
        BY DEF TypeInv, Rooted
      <4>3. PICK m \in InUse' : Subtree'[k.root] \subseteq Subtree'[m.root]
        BY <2>2 DEF KeepsAll
      <4>4. n \in Subtree'[m.root]
        BY <2>4, <4>1, <4>2, <4>3
      <4>. QED  BY <4>4, AliveIs
    <3>2. CASE n \notin 1 .. Len(node)
      <4>1. n \in Len(node) + 1 .. Len(node')
        BY <2>3, <3>2
      <4>. QED  BY <2>2, <4>1, AliveIs DEF KeepsAll
    <3>. QED  BY <3>1, <3>2
  <2>. QED  BY <2>5
<1>2. CASE UNCHANGED vars
  <2>1. node' = node /\ Alive' = Alive /\ caller' = caller
    BY <1>2 DEF vars, Alive, Roots, Subtree, Initialised
  <2>. QED  BY <2>1 DEF KeptInv
<1>. QED  BY <1>1, <1>2

(* The parent of every child is the node that has it, but for those of S.      *)
Owned(h, S) ==
    \A n \in 1 .. Len(h) : \A c \in {h[n].left, h[n].right} :
        (c # Null /\ c \notin S) => h[c].parent = n

(* A condition that was never lent belongs to one holder: a variable, a        *)
(* temporary or a clause.                                                      *)
Single(r) == r > 0 /\ r \notin lent
Apart ==
    /\ \A k, m \in held : (k.root = m.root /\ Single(k.root)) => k = m
    /\ \A t, u \in Trees : (clause[t].root = clause[u].root /\ Single(clause[t].root)) => t = u
    /\ \A k \in held, t \in Trees : k.root = clause[t].root => ~Single(k.root)

(* The root of a condition in use has no parent, but for those of S.           *)
Orphans(h, U, S) == \A k \in U : (k.root # Null /\ k.root \notin S) => h[k.root].parent = Null

(* There is one way to each node that was never lent, and its parent is on     *)
(* that way.                                                                   *)
OwnInv == Owned(node, lent) /\ Apart /\ Orphans(node, InUse, lent)

(* New nodes whose children are theirs.                                        *)
LEMMA OwnedPrefix ==
    ASSUME NEW h, NEW g, NEW S, Heap(h), Heap(g), Prefix(h, g), Owned(h, S),
           \A n \in Len(h) + 1 .. Len(g) : \A c \in {g[n].left, g[n].right} :
               c # Null => g[c].parent = n
    PROVE  Owned(g, S)
<1>. SUFFICES ASSUME NEW n \in 1 .. Len(g), NEW c \in {g[n].left, g[n].right}, c # Null,
                     c \notin S
              PROVE  g[c].parent = n
  BY DEF Owned
<1>1. Len(h) \in Nat /\ Len(g) \in Nat
  BY NodeType
<1>2. CASE n \in 1 .. Len(h)
  <2>1. g[n] = h[n]
    BY <1>2 DEF Prefix
  <2>2. c \in {h[n].left, h[n].right} /\ c \in 1 .. Len(h)
    BY <1>1, <1>2, <2>1, NodeType DEF Null
  <2>3. g[c] = h[c] /\ h[c].parent = n
    BY <1>2, <2>2 DEF Prefix, Owned
  <2>. QED  BY <2>3
<1>3. CASE n \notin 1 .. Len(h)
  <2>1. n \in Len(h) + 1 .. Len(g)
    BY <1>1, <1>3
  <2>. QED  BY <2>1
<1>. QED  BY <1>2, <1>3

(* Those of a comparison and of a range are.                                   *)
LEMMA OwnedNew ==
    ASSUME NEW h, NEW g, NEW c, NEW S, Heap(h), Heap(g), Owned(h, S),
           ComparisonOn(h, g, c) \/ RangeOn(h, g, c)
    PROVE  Owned(g, S)
<1>. DEFINE k == Len(h) + 1
<1>1. Len(h) \in Nat /\ k \in Nat /\ Prefix(h, g)
  BY NodeType DEF ComparisonOn, RangeOn
<1>2. \A ty, t, l, r, p : /\ Node(ty, t, l, r, p).left = l /\ Node(ty, t, l, r, p).right = r
                          /\ Node(ty, t, l, r, p).parent = p
  BY DEF Node
<1>3. ASSUME ComparisonOn(h, g, c), NEW n \in Len(h) + 1 .. Len(g),
             NEW d \in {g[n].left, g[n].right}, d # 0
      PROVE  g[d].parent = n
  <2>1. /\ Len(g) = Len(h) + 3
        /\ g[k].left = 0 /\ g[k].right = 0 /\ g[k].parent = k + 2
        /\ g[k + 1].left = 0 /\ g[k + 1].right = 0 /\ g[k + 1].parent = k + 2
        /\ g[k + 2].left = k /\ g[k + 2].right = k + 1
    BY <1>2, <1>3 DEF ComparisonOn, Null
  <2>2. n = k \/ n = k + 1 \/ n = k + 2
    BY <1>1, <2>1
  <2>. HIDE DEF k
  <2>. QED  BY <1>3, <2>1, <2>2
<1>4. ASSUME RangeOn(h, g, c), NEW n \in Len(h) + 1 .. Len(g),
             NEW d \in {g[n].left, g[n].right}, d # 0
      PROVE  g[d].parent = n
  <2>1. /\ Len(g) = Len(h) + 5
        /\ g[k].left = 0 /\ g[k].right = 0 /\ g[k].parent = k + 4
        /\ g[k + 1].left = 0 /\ g[k + 1].right = 0 /\ g[k + 1].parent = k + 3
        /\ g[k + 2].left = 0 /\ g[k + 2].right = 0 /\ g[k + 2].parent = k + 3
        /\ g[k + 3].left = k + 1 /\ g[k + 3].right = k + 2 /\ g[k + 3].parent = k + 4
        /\ g[k + 4].left = k /\ g[k + 4].right = k + 3
    BY <1>2, <1>4 DEF RangeOn, Null
  <2>2. n = k \/ n = k + 1 \/ n = k + 2 \/ n = k + 3 \/ n = k + 4
    BY <1>1, <2>1
  <2>. HIDE DEF k
  <2>. QED  BY <1>4, <2>1, <2>2
<1>. QED  BY <1>1, <1>3, <1>4, OwnedPrefix DEF Null

(* Those of a join are when both sides had no parent.                          *)
LEMMA OwnedJoin ==
    ASSUME NEW h, NEW g, NEW op \in {"AND", "OR"}, NEW l \in 1 .. Len(h), NEW r \in 1 .. Len(h),
           NEW S, Heap(h), JoinOn(h, g, op, l, r), Owned(h, S),
           l \in S \/ h[l].parent = Null, r \in S \/ h[r].parent = Null
    PROVE  Owned(g, S)
<1>1. /\ Len(h) \in Nat /\ Len(g) = Len(h) + 1
      /\ \A n \in 1 .. Len(h) : /\ h[n].left \in 0 .. Len(h) /\ h[n].right \in 0 .. Len(h)
                                /\ g[n].left = h[n].left /\ g[n].right = h[n].right
                                /\ g[n].parent = IF n \in {l, r} THEN Len(h) + 1
                                                 ELSE h[n].parent
      /\ g[Len(h) + 1].left = l /\ g[Len(h) + 1].right = r
  BY NodeType, JoinedNodes DEF SameNodes
<1>. SUFFICES ASSUME NEW n \in 1 .. Len(g), NEW c \in {g[n].left, g[n].right}, c # Null,
                     c \notin S
              PROVE  g[c].parent = n
  BY DEF Owned
<1>2. CASE n \in 1 .. Len(h)
  <2>1. c \in {h[n].left, h[n].right} /\ c \in 1 .. Len(h)
    BY <1>1, <1>2 DEF Null
  <2>2. h[c].parent = n /\ n # Null
    BY <1>1, <1>2, <2>1 DEF Owned, Null
  <2>. QED  BY <1>1, <2>1, <2>2
<1>3. CASE n \notin 1 .. Len(h)
  <2>1. n = Len(h) + 1
    <3>1. Len(h) \in Nat /\ Len(g) = Len(h) + 1
      BY <1>1
    <3>. QED  BY <1>3, <3>1
  <2>. QED  BY <1>1, <2>1
<1>. QED  BY <1>2, <1>3

(* The condition k comes into use, those in G and in the clauses of C go.      *)
Gone(G, C) == {m.root : m \in G} \cup {clause[t].root : t \in C}
TakesOver(k, G, C) ==
    /\ G \subseteq held /\ C \subseteq Trees
    /\ \/ C = {} /\ held' \subseteq (held \ G) \cup {k}
       \/ held' \subseteq held \ G /\ \E t \in Trees : C = {t} /\ clause'[t] = k
    /\ \A u \in Trees \ C : clause'[u] = clause[u]
    /\ lent \subseteq lent'
    /\ k.root \in Nat \/ (k.root = NoRoot /\ C # {})
    /\ k.root <= 0 \/ k.root > Len(node) \/ k.root \in Gone(G, C) \cup lent'
    /\ k.root > 0 => (k.root \in lent' \/ node'[k.root].parent = Null)
    /\ \A n \in 1 .. Len(node) :
           n \notin Gone(G, C) \cup lent' => node'[n].parent = node[n].parent

(* Then every condition still has one holder, and none of them has a parent.   *)
LEMMA TakenOver ==
    ASSUME TypeInv, Apart, Orphans(node, InUse, lent), NEW k, NEW G, NEW C, TakesOver(k, G, C)
    PROVE  Apart' /\ Orphans(node', InUse', lent')
<1>1. /\ Len(node) \in Nat
      /\ \A m \in held : m.root \in 0 .. Len(node)
      /\ \A t \in Trees : clause[t].root \in 0 .. Len(node) \/ clause[t].root = -1
  BY NodeType DEF TypeInv, Rooted, InUse, Initialised, NoRoot
<1>2. /\ G \subseteq held /\ C \subseteq Trees /\ lent \subseteq lent'
      /\ k.root \in Nat \/ (k.root = NoRoot /\ C # {})
      /\ k.root <= 0 \/ k.root > Len(node) \/ k.root \in Gone(G, C) \cup lent'
      /\ \A m \in held' : m \in held \ G \/ (m = k /\ C = {})
      /\ \A t \in Trees \ C : clause'[t] = clause[t]
      /\ \A t \in C : clause'[t] = k /\ held' \subseteq held \ G
      /\ \A t, u \in C : t = u
  BY DEF TakesOver
<1>3. ASSUME NEW m \in held \ G, m.root > 0, m.root \notin lent'
      PROVE  m.root \notin Gone(G, C) /\ m.root # k.root
  <2>1. m.root \notin Gone(G, C)
    BY <1>2, <1>3 DEF Apart, Single, Gone
  <2>2. m.root <= Len(node)
    BY <1>1
  <2>. QED  BY <1>1, <1>2, <1>3, <2>1, <2>2 DEF Null
<1>4. ASSUME NEW t \in Trees \ C, clause[t].root > 0, clause[t].root \notin lent'
      PROVE  clause[t].root \notin Gone(G, C) /\ clause[t].root # k.root
  <2>1. clause[t].root \notin Gone(G, C)
    BY <1>2, <1>4 DEF Apart, Single, Gone
  <2>2. clause[t].root <= Len(node)
    BY <1>1
  <2>. QED  BY <1>1, <1>2, <1>4, <2>1, <2>2 DEF Null
<1>5. ASSUME NEW x \in held', NEW y \in held', x.root = y.root, x.root > 0, x.root \notin lent'
      PROVE  x = y
  <2>1. CASE x \in held \ G /\ y \in held \ G
    BY <1>2, <1>5, <2>1 DEF Apart, Single
  <2>2. CASE x \in held \ G /\ y = k
    BY <1>3, <1>5, <2>2
  <2>3. CASE y \in held \ G /\ x = k
    BY <1>3, <1>5, <2>3
  <2>. QED  BY <1>2, <2>1, <2>2, <2>3
<1>6. ASSUME NEW t \in Trees, NEW u \in Trees,
             clause'[t].root = clause'[u].root, clause'[t].root > 0,
             clause'[t].root \notin lent'
      PROVE  t = u
  <2>1. CASE t \in C /\ u \in C
    BY <1>2, <2>1
  <2>2. CASE t \notin C /\ u \notin C
    BY <1>2, <1>6, <2>2 DEF Apart, Single
  <2>3. CASE t \in C /\ u \notin C
    BY <1>2, <1>4, <1>6, <2>3
  <2>4. CASE t \notin C /\ u \in C
    BY <1>2, <1>4, <1>6, <2>4
  <2>. QED  BY <2>1, <2>2, <2>3, <2>4
<1>7. ASSUME NEW x \in held', NEW t \in Trees, x.root = clause'[t].root, x.root > 0,
             x.root \notin lent'
      PROVE  FALSE
  <2>1. CASE t \in C
    <3>1. x \in held \ G /\ clause'[t] = k
      BY <1>2, <2>1
    <3>. QED  BY <1>3, <1>7, <3>1
  <2>2. CASE t \notin C /\ x \in held \ G
    BY <1>2, <1>7, <2>2 DEF Apart, Single
  <2>3. CASE t \notin C /\ x = k
    BY <1>2, <1>4, <1>7, <2>3
  <2>. QED  BY <1>2, <2>1, <2>2, <2>3
<1>8. Apart'
  BY <1>5, <1>6, <1>7 DEF Apart, Single
<1>9. ASSUME NEW m \in InUse', m.root # Null, m.root \notin lent'
      PROVE  node'[m.root].parent = Null
  <2>1. ASSUME m = k, m.root # NoRoot
        PROVE  node'[m.root].parent = Null
    <3>1. k.root \in Nat
      BY <1>2, <2>1
    <3>. QED  BY <1>9, <2>1, <3>1 DEF TakesOver, Null
  <2>2. ASSUME m \in InUse, m.root > 0 => m.root \notin Gone(G, C)
        PROVE  node'[m.root].parent = Null
    <3>1. m.root \in 0 .. Len(node)
      BY <2>2 DEF TypeInv, Rooted
    <3>2. m.root \in 1 .. Len(node) /\ m.root \notin Gone(G, C)
      BY <1>1, <1>9, <2>2, <3>1 DEF Null
    <3>. QED  BY <1>2, <1>9, <2>2, <3>2 DEF TakesOver, Orphans
  <2>3. CASE m \in held'
    <3>1. CASE m \in held \ G
      <4>1. m \in InUse /\ (m.root > 0 => m.root \notin Gone(G, C))
        BY <1>3, <1>9, <3>1 DEF InUse
      <4>. QED  BY <2>2, <4>1
    <3>2. CASE m = k /\ C = {}
      <4>1. m.root # NoRoot
        BY <1>2, <3>2 DEF NoRoot
      <4>. QED  BY <2>1, <3>2, <4>1
    <3>. QED  BY <1>2, <2>3, <3>1, <3>2
  <2>4. ASSUME NEW t \in Trees, m = clause'[t], m.root # NoRoot
        PROVE  node'[m.root].parent = Null
    <3>1. CASE t \in C
      BY <1>2, <2>1, <2>4, <3>1
    <3>2. CASE t \notin C
      <4>1. m = clause[t]
        BY <1>2, <2>4, <3>2
      <4>2. m \in InUse
        BY <2>4, <4>1 DEF InUse, Initialised
      <4>3. m.root > 0 => m.root \notin Gone(G, C)
        BY <1>4, <1>9, <2>4, <3>2, <4>1
      <4>. QED  BY <2>2, <4>2, <4>3
    <3>. QED  BY <3>1, <3>2
  <2>5. m \in held' \/ \E t \in Trees : m = clause'[t] /\ m.root # NoRoot
    BY DEF InUse, Initialised
  <2>. QED  BY <2>3, <2>4, <2>5
<1>. QED  BY <1>8, <1>9 DEF Orphans

(* Every child keeps the node that has it for its parent.                      *)
LEMMA OwnedStep ==
    ASSUME TypeInv, Shape, NEW S, Owned(node, S), Orphans(node, InUse, S)
    PROVE  Owned(node', S)
<1>1. /\ Heap(node) /\ Linked(node) /\ Heap(node') /\ Len(node) \in Nat
      /\ \A k \in InUse : k.root \in 0 .. Len(node)
  BY ShapeKeeps, NodeType DEF TypeInv, Stays, Rooted
<1>2. ASSUME NEW x \in Nodes, x.left = Null, x.right = Null, x.parent = Null,
             node' = Append(node, x)
      PROVE  Owned(node', S)
  <2>1. Prefix(node, node') /\ Len(node') = Len(node) + 1 /\ node'[Len(node) + 1] = x
    BY <1>1, <1>2, LeafHeap
  <2>2. ASSUME NEW n \in Len(node) + 1 .. Len(node')
        PROVE  node'[n].left = Null /\ node'[n].right = Null
    <3>1. n = Len(node) + 1
      BY <1>1, <2>1
    <3>. QED  BY <1>2, <2>1, <3>1
  <2>. QED  BY <1>1, <2>1, <2>2, OwnedPrefix
<1>3. CASE Quiet
  BY <1>3 DEF Quiet
<1>4. ASSUME NEW c, MadeComparison(c) \/ MadeRange(c)
      PROVE  Owned(node', S)
  BY <1>1, <1>4, OwnedNew DEF MadeComparison, MadeRange
<1>5. ASSUME NEW s \in RawTexts, MadeRaw(s)
      PROVE  Owned(node', S)
  <2>. DEFINE x == Node("raw", s, Null, Null, Null)
  <2>1. x \in Nodes /\ x.left = Null /\ x.right = Null /\ x.parent = Null
    <3>1. "raw" \in Types /\ s \in Tokens /\ Null \in Nat
      BY ConditionsAssumption DEF Types, Null
    <3>. QED  BY <3>1, MadeNode
  <2>2. node' = Append(node, x)
    BY <1>5 DEF MadeRaw
  <2>. HIDE DEF x
  <2>. QED  BY <1>2, <2>1, <2>2
<1>6. ASSUME NEW op \in {"AND", "OR"}, NEW k \in InUse, NEW m \in InUse, MadeJoin(op, k, m)
      PROVE  Owned(node', S)
  <2>. DEFINE l == k.root
              r == m.root
  <2>1. /\ l \in 0 .. Len(node) /\ r \in 0 .. Len(node) /\ AddCondition(op, l, r)
        /\ l # Null => (l \in S \/ node[l].parent = Null)
        /\ r # Null => (r \in S \/ node[r].parent = Null)
    BY <1>1, <1>6 DEF MadeJoin, Orphans
  <2>. HIDE DEF l, r
  <2>2. CASE l \in 1 .. Len(node) /\ r \in 1 .. Len(node) /\ JoinOn(node, node', op, l, r)
    <3>1. (l \in S \/ node[l].parent = Null) /\ (r \in S \/ node[r].parent = Null)
      BY <2>1, <2>2 DEF Null
    <3>. QED  BY <1>1, <2>2, <3>1, OwnedJoin
  <2>3. CASE node' = Append(node, Node("operator", <<>>, Null, Null, Null))
    <3>. DEFINE x == Node("operator", <<>>, Null, Null, Null)
    <3>1. x \in Nodes /\ x.left = Null /\ x.right = Null /\ x.parent = Null
      <4>1. "operator" \in Types /\ <<>> \in Tokens /\ Null \in Nat
        BY TextsTogether DEF Types, Null
      <4>. QED  BY <4>1, MadeNode
    <3>2. node' = Append(node, x)
      BY <2>3
    <3>. HIDE DEF x
    <3>. QED  BY <1>2, <3>1, <3>2
  <2>4. CASE node' = node
    BY <2>4
  <2>. QED  BY <1>1, <2>1, <2>2, <2>3, <2>4, AddStep
<1>. QED  BY <1>3, <1>4, <1>5, <1>6 DEF Shape

(* What AddCondition does to parents.                                          *)
LEMMA AddParents ==
    ASSUME NEW op \in {"AND", "OR"}, NEW l \in 0 .. Len(node), NEW r \in 0 .. Len(node),
           NEW S, Heap(node), Linked(node), AddCondition(op, l, r),
           \A n \in {l, r} : n # Null => (n \in S \/ node[n].parent = Null)
    PROVE  /\ Joined(l, r) \in Nat
           /\ Joined(l, r) > Len(node) \/ Joined(l, r) \in {l, r}
           /\ Joined(l, r) \in S \/ node'[Joined(l, r)].parent = Null
           /\ \A n \in 1 .. Len(node) : n \notin {l, r} => node'[n].parent = node[n].parent
<1>. DEFINE new == Joined(l, r)
<1>1. Len(node) \in Nat
  BY NodeType
<1>. HIDE DEF new
<1>2. CASE /\ l \in 1 .. Len(node) /\ r \in 1 .. Len(node)
           /\ node' \in Seq(Nodes) /\ JoinOn(node, node', op, l, r)
           /\ new = Len(node')
  <2>1. /\ \A n \in 1 .. Len(node) :
               node'[n].parent = IF n \in {l, r} THEN Len(node) + 1 ELSE node[n].parent
        /\ node'[Len(node) + 1].parent = Null /\ Len(node') = Len(node) + 1
    <3>1. /\ Len(node') = Len(node) + 1
          /\ node'[Len(node) + 1] = Node("operator", <<op>>, l, r, Null)
          /\ \A n \in 1 .. Len(node) :
                 node'[n] = IF n \in {l, r} THEN [node[n] EXCEPT !.parent = Len(node) + 1]
                            ELSE node[n]
      BY <1>2 DEF JoinOn
    <3>2. ASSUME NEW n \in 1 .. Len(node)
          PROVE  node'[n].parent = IF n \in {l, r} THEN Len(node) + 1 ELSE node[n].parent
      <4>1. node[n] \in Nodes
        BY NodeType
      <4>. QED  BY <3>1, <4>1 DEF Nodes
    <3>3. node'[Len(node) + 1].parent = Null
      BY <3>1 DEF Node
    <3>. QED  BY <3>1, <3>2, <3>3
  <2>2. new = Len(node) + 1
    BY <1>2, <2>1
  <2>3. new \in Nat /\ new > Len(node)
    BY <1>1, <2>2
  <2>. QED  BY <2>1, <2>2, <2>3 DEF new
<1>3. CASE /\ l = Null /\ r = Null
           /\ node' = Append(node, Node("operator", <<>>, Null, Null, Null))
           /\ new = Len(node) + 1
  <2>. DEFINE x == Node("operator", <<>>, Null, Null, Null)
  <2>1. x \in Nodes /\ x.left = Null /\ x.right = Null /\ x.parent = Null
    <3>1. "operator" \in Types /\ <<>> \in Tokens /\ Null \in Nat
      BY TextsTogether DEF Types, Null
    <3>. QED  BY <3>1, MadeNode
  <2>2. node' = Append(node, x)
    BY <1>3
  <2>. HIDE DEF x
  <2>3. Prefix(node, node') /\ node'[new] = x
    BY <1>3, <2>1, <2>2, LeafHeap
  <2>4. new \in Nat /\ new > Len(node)
    BY <1>1, <1>3
  <2>. QED  BY <2>1, <2>3, <2>4 DEF new, Prefix
<1>4. CASE node' = node /\ (new = l \/ new = r) /\ new # Null
  <2>1. new \in Nat /\ (new \in S \/ node[new].parent = Null)
    BY <1>4
  <2>. QED  BY <1>4, <2>1 DEF new
<1>. QED  BY <1>2, <1>3, <1>4, AddStep DEF new

(* Every step is of that kind.                                                 *)
LEMMA OwnStep ==
    ASSUME TypeInv, Next, Orphans(node, InUse, lent)
    PROVE  \E k, G, C : TakesOver(k, G, C)
<1>1. /\ Heap(node) /\ Linked(node) /\ Len(node) \in Nat
      /\ \A m \in InUse : m.root \in 0 .. Len(node)
      /\ DOMAIN clause = Trees /\ caller.trees \subseteq Trees
  BY NodeType, CallersTrees DEF TypeInv, Rooted
<1>2. Gone({}, {}) = {} /\ \A r, x : Handle(r, x).root = r
  BY DEF Gone, Handle
<1>3. \A G, K : Passed(G, K) => /\ K \subseteq G /\ After(G, K) = held \ (G \ K)
                                /\ lent \subseteq lent' /\ \A h \in K : h.root \in lent'
  BY DEF Passed, After
<1>4. ASSUME UNCHANGED <<node, clause>>, held' \subseteq held, lent \subseteq lent'
      PROVE  TakesOver(Handle(Null, Nothing), {}, {})
  BY <1>1, <1>2, <1>4 DEF TakesOver, Null
<1>5. ASSUME NEW x, UNCHANGED <<clause, lent>>, Prefix(node, node'), node'[Len(node')].parent = Null,
             Len(node') \in Nat, Len(node') > Len(node),
             held' = held \cup {Handle(Len(node'), x)}
      PROVE  TakesOver(Handle(Len(node'), x), {}, {})
  <2>1. \A n \in 1 .. Len(node) : node'[n].parent = node[n].parent
    BY <1>5 DEF Prefix
  <2>. QED  BY <1>2, <1>5, <2>1 DEF TakesOver
<1>6. ASSUME NEW c, c \in Comparisons \cup Ranges, UNCHANGED <<clause, lent>>,
             \/ c \in Comparisons /\ NodeBind(c, Simple(c, Len(node) + 1))
             \/ c \in Ranges /\ NodeBind(c, Bounded(c, Len(node) + 1))
      PROVE  \E k, G, C : TakesOver(k, G, C)
  <2>1. CASE c[1] \notin KnownFields
    <3>1. node' = node /\ held' = held \cup {Handle(Null, Nothing)}
      BY <1>6, <2>1 DEF NodeBind
    <3>2. TakesOver(Handle(Null, Nothing), {}, {})
      BY <1>1, <1>2, <1>6, <3>1 DEF TakesOver, Null
    <3>. QED  BY <3>2
  <2>2. CASE c[1] \in KnownFields
    <3>. DEFINE x == {r \in Rows : c \in r}
    <3>1. held' = held \cup {Handle(Len(node'), x)}
      BY <1>6, <2>2 DEF NodeBind
    <3>2. \/ c \in Comparisons /\ node' = node \o Simple(c, Len(node) + 1)
          \/ c \in Ranges /\ node' = node \o Bounded(c, Len(node) + 1)
      BY <1>6, <2>2 DEF NodeBind
    <3>3. \/ c \in Comparisons /\ ComparisonOn(node, node', c)
          \/ c \in Ranges /\ RangeOn(node, node', c)
      BY <1>1, <3>2, SimpleNodes, BoundedNodes
    <3>4. node'[Len(node')].parent = Null
      BY <1>1, <3>3, ComparisonHeap, RangeHeap
    <3>5. Prefix(node, node') /\ (Len(node') = Len(node) + 3 \/ Len(node') = Len(node) + 5)
      BY <3>3 DEF ComparisonOn, RangeOn
    <3>6. Len(node') \in Nat /\ Len(node') > Len(node)
      BY <1>1, <3>5
    <3>. HIDE DEF x
    <3>. QED  BY <1>5, <1>6, <3>1, <3>4, <3>5, <3>6
  <2>. QED  BY <2>1, <2>2
<1>7. CASE Compare \/ Between
  BY <1>6, <1>7 DEF Compare, Between
<1>8. CASE RawData
  <2>1. PICK s \in RawTexts : /\ node' = Append(node, Node("raw", s, Null, Null, Null))
                              /\ held' = held \cup {Handle(Len(node'), Reading[s])}
    BY <1>8 DEF RawData
  <2>. DEFINE x == Node("raw", s, Null, Null, Null)
  <2>2. x \in Nodes /\ x.left = Null /\ x.right = Null /\ x.parent = Null
    <3>1. "raw" \in Types /\ s \in Tokens /\ Null \in Nat
      BY ConditionsAssumption DEF Types, Null
    <3>. QED  BY <3>1, MadeNode
  <2>3. node' = Append(node, x)
    BY <2>1
  <2>. HIDE DEF x
  <2>4. Prefix(node, node') /\ Len(node') = Len(node) + 1 /\ node'[Len(node) + 1] = x
    BY <1>1, <2>2, <2>3, LeafHeap
  <2>5. /\ Len(node') \in Nat /\ Len(node') > Len(node)
        /\ node'[Len(node')].parent = Null
    BY <1>1, <2>2, <2>4
  <2>6. UNCHANGED <<clause, lent>>
    BY <1>8 DEF RawData
  <2>. QED  BY <1>5, <2>1, <2>4, <2>5, <2>6
<1>9. ASSUME NEW op \in {"AND", "OR"}, Join(op)
      PROVE  \E k, G, C : TakesOver(k, G, C)
  <2>1. PICK l \in held, r \in held : \E kept \in SUBSET {l, r} :
            /\ Passed({l, r}, kept)
            /\ AddCondition(op, l.root, r.root)
            /\ held' = After({l, r}, kept) \cup {Handle(Joined(l.root, r.root),
                                                        Combine(op, l.means, r.means))}
    BY <1>9 DEF Join
  <2>. DEFINE k == Handle(Joined(l.root, r.root), Combine(op, l.means, r.means))
  <2>2. PICK K \in SUBSET {l, r} : Passed({l, r}, K) /\ held' = After({l, r}, K) \cup {k}
    BY <2>1
  <2>. DEFINE G == {l, r} \ K
  <2>3. /\ held' = (held \ G) \cup {k} /\ UNCHANGED clause /\ G \subseteq held
        /\ lent \subseteq lent' /\ \A h \in K : h.root \in lent'
    BY <1>3, <1>9, <2>2 DEF Join
  <2>4. {l.root, r.root} \subseteq Gone(G, {}) \cup lent'
    BY <2>3 DEF Gone
  <2>5. /\ l.root \in 0 .. Len(node) /\ r.root \in 0 .. Len(node)
        /\ \A n \in {l.root, r.root} : n # Null => (n \in lent' \/ node[n].parent = Null)
    BY <1>1, <2>3 DEF InUse, Orphans
  <2>6. /\ Joined(l.root, r.root) \in Nat
        /\ \/ Joined(l.root, r.root) > Len(node)
           \/ Joined(l.root, r.root) \in {l.root, r.root}
        /\ Joined(l.root, r.root) \in lent' \/ node'[Joined(l.root, r.root)].parent = Null
        /\ \A n \in 1 .. Len(node) :
               n \notin {l.root, r.root} => node'[n].parent = node[n].parent
    BY <1>1, <2>1, <2>5, AddParents
  <2>7. k.root = Joined(l.root, r.root)
    BY <1>2
  <2>. HIDE DEF k, G
  <2>8. TakesOver(k, G, {})
    BY <2>3, <2>4, <2>6, <2>7 DEF TakesOver
  <2>. QED  BY <2>8
<1>10. CASE And \/ Or
  BY <1>9, <1>10 DEF And, Or
<1>11. CASE Drop
  BY <1>4, <1>11 DEF Drop
<1>12. ASSUME NEW t, ExecuteAll \/ Execute(t)
       PROVE  \E k, G, C : TakesOver(k, G, C)
  BY <1>4, <1>12 DEF ExecuteAll, Execute
<1>13. ASSUME NEW t \in caller.trees, InitTree(t)
       PROVE  \E k, G, C : TakesOver(k, G, C)
  <2>1. PICK h \in held : \E kept \in SUBSET {h} :
            /\ Passed({h}, kept) /\ clause' = [clause EXCEPT ![t] = h]
            /\ held' = After({h}, kept) /\ node' = node
    BY <1>13 DEF InitTree
  <2>2. PICK K \in SUBSET {h} : Passed({h}, K) /\ held' = After({h}, K)
    BY <2>1
  <2>. DEFINE G == {h} \ K
  <2>3. /\ held' = held \ G /\ t \in Trees /\ clause'[t] = h /\ G \subseteq held
        /\ \A u \in Trees \ {t} : clause'[u] = clause[u]
        /\ lent \subseteq lent' /\ \A m \in K : m.root \in lent'
    BY <1>1, <1>3, <2>1, <2>2
  <2>4. h.root \in Gone(G, {t}) \cup lent' /\ {t} \subseteq Trees
    BY <2>3 DEF Gone
  <2>5. h.root \in Nat /\ (h.root > 0 => (h.root \in lent' \/ node'[h.root].parent = Null))
    BY <1>1, <2>1, <2>3 DEF InUse, Orphans, Null
  <2>. HIDE DEF G
  <2>6. TakesOver(h, G, {t})
    BY <2>1, <2>3, <2>4, <2>5 DEF TakesOver
  <2>. QED  BY <2>6
<1>14. ASSUME NEW t \in Trees, NEW op \in {"AND", "OR"}, NEW h \in InUse, NEW G,
              G \subseteq held, held' = held \ G, lent \subseteq lent',
              h.root \in {m.root : m \in G} \cup lent',
              Initialised(t), Grow(t, op, h)
       PROVE  \E k, H, C : TakesOver(k, H, C)
  <2>. DEFINE l == clause[t].root
              r == h.root
              k == Handle(Joined(l, r), Combine(op, clause[t].means, h.means))
  <2>1. AddCondition(op, l, r) /\ clause' = [clause EXCEPT ![t] = k]
    BY <1>14 DEF Grow
  <2>2. /\ l \in 0 .. Len(node) /\ r \in 0 .. Len(node)
        /\ \A n \in {l, r} : n # Null => (n \in lent' \/ node[n].parent = Null)
    BY <1>1, <1>14 DEF InUse, Orphans
  <2>3. k.root = Joined(l, r) /\ {l, r} \subseteq Gone(G, {t}) \cup lent'
    BY <1>2, <1>14 DEF Gone
  <2>4. /\ clause'[t] = k /\ \A u \in Trees \ {t} : clause'[u] = clause[u]
        /\ {t} \subseteq Trees
    <3>. HIDE DEF k
    <3>. QED  BY <1>1, <2>1
  <2>. HIDE DEF k, l, r
  <2>5. /\ k.root \in Nat /\ (k.root > Len(node) \/ k.root \in {l, r})
        /\ k.root \in lent' \/ node'[k.root].parent = Null
        /\ \A n \in 1 .. Len(node) : n \notin {l, r} => node'[n].parent = node[n].parent
    BY <1>1, <2>1, <2>2, <2>3, AddParents
  <2>6. TakesOver(k, G, {t})
    BY <1>14, <2>3, <2>4, <2>5 DEF TakesOver
  <2>. QED  BY <2>6
<1>17. ASSUME NEW t \in caller.trees, NEW op \in {"AND", "OR"}, Add(t, op)
       PROVE  \E k, G, C : TakesOver(k, G, C)
  <2>1. PICK h \in held : \E kept \in SUBSET {h} :
            /\ Passed({h}, kept)
            /\ \/ Initialised(t) /\ Grow(t, op, h)
               \/ /\ clause' = [clause EXCEPT ![t] =
                                    Handle(NoRoot, Combine(op, clause[t].means, h.means))]
                  /\ UNCHANGED node
            /\ held' = After({h}, kept)
    BY <1>17 DEF Add
  <2>2. PICK K \in SUBSET {h} : Passed({h}, K) /\ held' = After({h}, K)
    BY <2>1
  <2>. DEFINE G == {h} \ K
  <2>3. /\ held' = held \ G /\ t \in Trees /\ G \subseteq held /\ h \in InUse
        /\ lent \subseteq lent' /\ \A m \in K : m.root \in lent'
    BY <1>1, <1>3, <2>1, <2>2 DEF InUse
  <2>4. h.root \in {m.root : m \in G} \cup lent'
    BY <2>3
  <2>5. CASE Initialised(t) /\ Grow(t, op, h)
    <3>. HIDE DEF G
    <3>. QED  BY <1>14, <2>3, <2>4, <2>5
  <2>6. CASE /\ clause' = [clause EXCEPT ![t] =
                             Handle(NoRoot, Combine(op, clause[t].means, h.means))]
             /\ UNCHANGED node
    <3>. DEFINE k == Handle(NoRoot, Combine(op, clause[t].means, h.means))
    <3>1. clause' = [clause EXCEPT ![t] = k] /\ k.root = NoRoot
      BY <1>2, <2>6
    <3>. HIDE DEF k, G
    <3>2. clause'[t] = k /\ \A u \in Trees \ {t} : clause'[u] = clause[u]
      BY <1>1, <2>3, <3>1
    <3>3. k.root <= 0 /\ ~(k.root > 0) /\ {t} \subseteq Trees /\ {t} # {}
      BY <2>3, <3>1 DEF NoRoot
    <3>4. TakesOver(k, G, {t})
      BY <2>3, <2>6, <3>1, <3>2, <3>3 DEF TakesOver
    <3>. QED  BY <3>4
  <2>. QED  BY <2>1, <2>5, <2>6
<1>15. ASSUME NEW t \in caller.trees, AddAnd(t) \/ AddOr(t)
       PROVE  \E k, G, C : TakesOver(k, G, C)
  BY <1>15, <1>17 DEF AddAnd, AddOr
<1>16. ASSUME NEW t \in caller.trees, NEW u \in caller.trees, NEW op \in {"AND", "OR"},
              MergeWhereClause(t, u, op)
       PROVE  \E k, G, C : TakesOver(k, G, C)
  <2>1. /\ Initialised(t) /\ Initialised(u) /\ Grow(t, op, clause[u])
        /\ t \in Trees /\ u \in Trees
        /\ {} \subseteq held /\ held' = held \ {} /\ lent \subseteq lent'
        /\ clause[u].root \in {m.root : m \in {}} \cup lent'
    BY <1>1, <1>16 DEF MergeWhereClause
  <2>2. clause[u] \in InUse
    BY <2>1 DEF InUse
  <2>. QED  BY <1>14, <2>1, <2>2
<1>. QED  BY <1>7, <1>8, <1>10, <1>11, <1>12, <1>13, <1>15, <1>16 DEF Next

(* One way to each node stays one.                                             *)
LEMMA OwnPreserved ==
    TypeInv /\ OwnInv /\ [Next]_vars => OwnInv'
<1>. SUFFICES ASSUME TypeInv, OwnInv, [Next]_vars
              PROVE  OwnInv'
  OBVIOUS
<1>1. CASE Next
  <2>1. Shape
    BY <1>1, StepShape
  <2>2. Owned(node, lent) /\ Apart /\ Orphans(node, InUse, lent)
    BY DEF OwnInv
  <2>3. PICK k, G, C : TakesOver(k, G, C)
    BY <1>1, <2>2, OwnStep
  <2>4. lent \subseteq lent'
    BY <2>3 DEF TakesOver
  <2>5. Owned(node, lent') /\ Orphans(node, InUse, lent')
    BY <2>2, <2>4 DEF Owned, Orphans
  <2>6. Owned(node', lent')
    BY <2>1, <2>5, OwnedStep
  <2>7. Apart' /\ Orphans(node', InUse', lent')
    BY <2>2, <2>3, TakenOver
  <2>. QED  BY <2>6, <2>7 DEF OwnInv
<1>2. CASE UNCHANGED vars
  <2>1. /\ node' = node /\ InUse' = InUse /\ lent' = lent /\ held' = held /\ clause' = clause
    BY <1>2 DEF vars, InUse, Initialised
  <2>. QED  BY <2>1 DEF OwnInv, Apart, Single
<1>. QED  BY <1>1, <1>2

(* GetString looks at the parent of every operator that it prints, through a   *)
(* pointer that owns nothing: whatever callers join, keep, share and release,  *)
(* that parent is gone only when a call took the operator while another kept   *)
(* it, and never with a caller that keeps all its conditions.                  *)
THEOREM ParentsLive == Spec => []NoDanglingParent
<1>1. Init => KeptInv /\ OwnInv
  <2>. SUFFICES ASSUME Init
                PROVE  KeptInv /\ OwnInv
    OBVIOUS
  <2>1. Len(node) = 0 /\ held = {} /\ \A t \in Trees : clause[t].root = NoRoot
    BY EmptySeq DEF Init, NoClause
  <2>2. InUse = {} /\ Owned(node, lent) /\ 1 .. Len(node) = {}
    BY <2>1 DEF InUse, Initialised, Owned
  <2>3. Apart
    BY <2>1 DEF Apart, Single, NoRoot
  <2>. QED  BY <2>2, <2>3 DEF KeptInv, OwnInv, Orphans
<1>2. TypeInv /\ KeptInv /\ OwnInv => NoDanglingParent
  <2>. SUFFICES ASSUME TypeInv, KeptInv, OwnInv, NEW n \in Alive,
                       n \in lent => caller.keeps = "kept"
                PROVE  node[n].parent \in Alive \cup {Null}
    BY DEF NoDanglingParent
  <2>1. /\ Heap(node) /\ SubtreeOn(node, Subtree) /\ Len(node) \in Nat
        /\ \A k \in InUse : k.root \in 0 .. Len(node)
    BY OnHeap, NodeType DEF TypeInv, Rooted
  <2>2. PICK k \in InUse : n \in Subtree[k.root]
    BY AliveIs
  <2>3. n \in 1 .. Len(node)
    BY <2>1, <2>2 DEF SubtreeOn
  <2>4. CASE caller.keeps = "kept"
    <3>1. node[n].parent \in 0 .. Len(node) /\ 1 .. Len(node) \subseteq Alive
      BY <2>1, <2>3, <2>4, NodeType DEF KeptInv
    <3>2. node[n].parent = 0 \/ node[n].parent \in 1 .. Len(node)
      BY <2>1, <3>1
    <3>. QED  BY <3>1, <3>2 DEF Null
  <2>5. CASE n \notin lent
    <3>1. Owned(node, lent) /\ Orphans(node, InUse, lent)
      BY DEF OwnInv
    <3>2. n # Null
      BY <2>1, <2>3 DEF Null
    <3>3. CASE n = k.root
      BY <2>5, <3>1, <3>2, <3>3 DEF Orphans
    <3>4. CASE n # k.root
      <4>1. PICK m \in Subtree[k.root] : n \in {node[m].left, node[m].right}
        BY <2>1, <2>2, <3>4, BelowIsChild
      <4>2. m \in 1 .. Len(node)
        BY <2>1 DEF SubtreeOn
      <4>3. node[n].parent = m
        BY <2>5, <3>1, <3>2, <4>1, <4>2 DEF Owned
      <4>. QED  BY <4>3, AliveIs
    <3>. QED  BY <3>3, <3>4
  <2>. QED  BY <2>4, <2>5
<1>. QED  BY <1>1, <1>2, KeptPreserved, OwnPreserved, TypeInvHolds, PTL DEF Spec
===============================================================================

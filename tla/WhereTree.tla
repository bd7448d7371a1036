------------------------------ MODULE WhereTree ------------------------------
(* The conditions of SELECT and DELETE: expression_node, where_nodes,          *)
(* DBWhereClause, WhereTreeConstructor and WhereTree, from the conditions that *)
(* a caller makes to the WHERE text of the statement.                          *)
(*                                                                             *)
(* Nodes live on a heap.  They own their children (shared_ptr) and point to    *)
(* their parent (a raw pointer).  A node lives while a handle of the caller or *)
(* a clause reaches it.  What GetString does with a parent that is gone is     *)
(* whatever the freed memory makes of it.                                      *)
EXTENDS Integers, Sequences, FiniteSets

CONSTANTS
    Trees,        \* objects WhereTree
    Names,        \* words of a text that are not marks: fields, operators, values
    Callers,      \* callers: the trees of each, what it asks, how it keeps that
    Comparisons,  \* <<field, operator, value>>
    Ranges,       \* <<field, "BETWEEN", minimum, "AND", maximum>>
    RawTexts,     \* texts handed to RawData, as sequences of tokens
    KnownFields,  \* fields of the table
    MaxJoins,     \* bound on the operators AND and OR ever made
    MaxHeld       \* bound on the conditions that the caller holds at a time

ASSUME CallersAssumption ==
    Callers \subseteq [trees : SUBSET Trees,
                       makes : SUBSET (Comparisons \cup Ranges \cup RawTexts),
                       keeps : {"temporary", "kept", "mixed"}]

(* The words that the grammar of a condition is about.                         *)
Marks == {"AND", "OR", "BETWEEN", "(", ")"}
Tokens == Seq(Names \cup Marks)

ASSUME ConditionsAssumption ==
    /\ Names \cap Marks = {}
    /\ Comparisons \subseteq {<<f, op, v>> : f, op, v \in Names}
    /\ Ranges \subseteq {<<f, "BETWEEN", min, "AND", max>> : f, min, max \in Names}
    /\ RawTexts \subseteq Tokens

VARIABLES
    node,    \* the heap; a node has a higher number than its children
    held,    \* the caller's node_ptrs, each with what the caller means by it
    lent,    \* nodes taken by a call while a variable or another clause keeps them
    clause,  \* clause_ of each tree, its root, and what the caller has asked of it
    sent,    \* the statement that the last step made, if it made one
    caller   \* whose program this is

vars == <<node, held, lent, clause, sent, caller>>

-----------------------------------------------------------------------------
(* Meanings.  A row of the table is known by the atomic conditions it meets; a *)
(* condition means the set of the rows it takes.  A raw text is a condition of *)
(* its own when nothing in it is joined.                                       *)

Plain(s) == \A i \in DOMAIN s : s[i] \notin {"AND", "OR", "(", ")"}
Atoms == Comparisons \cup Ranges \cup {s \in RawTexts : Plain(s)}
Rows == SUBSET Atoms
Nothing == {{<<"no condition">>}}
SyntaxError == {{<<"syntax error">>}}

(* What two conditions mean together; a null one is left out.                  *)
Combine(op, x, y) ==
    IF x = Nothing THEN y
    ELSE IF y = Nothing THEN x
    ELSE IF SyntaxError \in {x, y} THEN SyntaxError
    ELSE IF op = "AND" THEN x \cap y ELSE x \cup y

Depth(s, i) == Cardinality({j \in 1 .. i : s[j] = "("})
               - Cardinality({j \in 1 .. i : s[j] = ")"})

(* Where s is split first: outside of parentheses, at an OR, or at an AND that *)
(* does not belong to a BETWEEN when there is no OR.                           *)
Splits(s, op) == {i \in 2 .. Len(s) - 1 :
                      /\ s[i] = op
                      /\ Depth(s, i) = 0
                      /\ ~(op = "AND" /\ i > 2 /\ s[i - 2] = "BETWEEN")}

(* How the server reads a condition: OR binds weakest, then AND.               *)
Reading[s \in Tokens] ==
    LET op == IF Splits(s, "OR") # {} THEN "OR" ELSE "AND"
        i == CHOOSE j \in Splits(s, op) : TRUE
    IN  IF s \in Atoms THEN {r \in Rows : s \in r}
        ELSE IF Splits(s, op) # {}
        THEN Combine(op, Reading[SubSeq(s, 1, i - 1)], Reading[SubSeq(s, i + 1, Len(s))])
        ELSE IF Len(s) > 2 /\ s[1] = "(" /\ s[Len(s)] = ")"
        THEN Reading[SubSeq(s, 2, Len(s) - 1)]
        ELSE SyntaxError

-----------------------------------------------------------------------------
(* The heap.                                                                   *)

Node(type, text, left, right, parent) ==
    [type |-> type, text |-> text, left |-> left, right |-> right,
     parent |-> parent]

Null == 0
NoRoot == -1
NoClause == [root |-> NoRoot, means |-> Nothing]
NotSent == [rows |-> SyntaxError, tree |-> FALSE, act2all |-> FALSE]
EmptyOperator(n) == node[n].type = "operator" /\ node[n].text = <<>>

Subtree[n \in 0 .. Len(node)] ==
    IF n = Null THEN {}
                ELSE {n} \cup Subtree[node[n].left] \cup Subtree[node[n].right]

Initialised(t) == clause[t].root # NoRoot
Roots == {h.root : h \in held} \cup {clause[t].root : t \in {u \in Trees : Initialised(u)}}
Alive == UNION {Subtree[n] : n \in Roots}

(* Mutant: no parentheses at all.                                              *)
UnbracedMutant(n) == FALSE

(* An operator goes into parentheses unless it is a root or bounds a BETWEEN.  *)
Braced(n) ==
    /\ node[n].type = "operator"
    /\ node[n].parent # Null
    /\ node[node[n].parent].text # <<"BETWEEN">>

(* The text of every node, when those of bare look as if they needed no        *)
(* parentheses: nothing of it is defined once their parents are gone.          *)
GetString(bare) ==
    LET text[n \in 0 .. Len(node)] ==
            LET flat == text[node[n].left] \o node[n].text \o text[node[n].right]
            IN  IF n = Null THEN <<>>
                ELSE IF Braced(n) /\ n \notin bare THEN <<"(">> \o flat \o <<")">>
                ELSE flat
    IN  text

Text == GetString({})

(* Operators of a condition whose parent is gone.                              *)
Dangling(h) ==
    {n \in Subtree[h.root] :
        node[n].type = "operator" /\ node[n].parent \notin Alive \cup {Null}}

-----------------------------------------------------------------------------
(* Conditions.                                                                 *)

Handle(root, means) == [root |-> root, means |-> means]

(* How the caller passes conditions: those of kept stay in its variables, the  *)
(* others are temporaries and gone after the call.                             *)
Passed(args, kept) ==
    /\ kept \subseteq args
    /\ caller.keeps = "temporary" => kept = {}
    /\ caller.keeps = "kept" => kept = args
    /\ lent' = lent \cup {h.root : h \in kept}

After(args, kept) == held \ (args \ kept)

(* Mutant: the right child is linked to a node that is not there.              *)
MislinkedMutant(c, k) == << Node("field", <<c[1]>>, Null, Null, k + 2),
                            Node("value", <<c[3]>>, Null, Null, k + 2),
                            Node("operator", <<c[2]>>, k, k + 3, Null) >>

(* where_node_creator: the operator above the name of a field and a value.     *)
Simple(c, k) == << Node("field", <<c[1]>>, Null, Null, k + 2),
                   Node("value", <<c[3]>>, Null, Null, k + 2),
                   Node("operator", <<c[2]>>, k, k + 1, Null) >>

(* The same for BETWEEN, whose right side is an AND of the two bounds.         *)
Bounded(c, k) == << Node("field", <<c[1]>>, Null, Null, k + 4),
                    Node("value", <<c[3]>>, Null, Null, k + 3),
                    Node("value", <<c[5]>>, Null, Null, k + 3),
                    Node("operator", <<c[4]>>, k + 1, k + 2, k + 4),
                    Node("operator", <<c[2]>>, k, k + 3, Null) >>

(* Bound: every condition is made once, so that a new one is about a new atom, *)
(* and the caller has one null condition at a time.                            *)
FirstTime(c) == \A n \in DOMAIN node : Text[n] \notin {c, <<"(">> \o c \o <<")">>}
NoNullYet == \A h \in held : h.root # Null

(* Make the nodes of a condition on a field of the table; on another field the *)
(* exception is caught and the condition is null.                              *)
NodeBind(c, nodes) ==
    IF c[1] \in KnownFields
    THEN /\ FirstTime(c)
         /\ node' = node \o nodes
         /\ held' = held \cup {Handle(Len(node'), {r \in Rows : c \in r})}
    ELSE /\ NoNullYet
         /\ held' = held \cup {Handle(Null, Nothing)}
         /\ UNCHANGED node

Compare == \E c \in Comparisons \cap caller.makes :
    /\ NodeBind(c, Simple(c, Len(node) + 1))
    /\ sent' = NotSent /\ UNCHANGED <<clause, lent>>

Between == \E c \in Ranges \cap caller.makes :
    /\ NodeBind(c, Bounded(c, Len(node) + 1))
    /\ sent' = NotSent /\ UNCHANGED <<clause, lent>>

RawData == \E s \in RawTexts \cap caller.makes :
    /\ FirstTime(s)
    /\ node' = Append(node, Node("raw", s, Null, Null, Null))
    /\ held' = held \cup {Handle(Len(node'), Reading[s])}
    /\ sent' = NotSent /\ UNCHANGED <<clause, lent>>

(* The operators that AddCondition has made; the AND of a BETWEEN is not one.   *)
Joins == {n \in DOMAIN node : /\ node[n].text \in {<<"AND">>, <<"OR">>}
                              /\ node[node[n].left].type # "value"}

(* Bound: one operator without operands.                                       *)
NoEmptyYet == \A n \in DOMAIN node : ~EmptyOperator(n)

(* Join two nodes under op.  Both get the new parent whatever parent they had. *)
AddCondition(op, left, right) ==
    LET new == Len(node) + 1
    IN  \/ /\ left # Null /\ right # Null
           /\ Cardinality(Joins) < MaxJoins
           /\ node' = Append([n \in DOMAIN node |->
                                 IF n \in {left, right}
                                 THEN [node[n] EXCEPT !.parent = new]
                                 ELSE node[n]],
                             Node("operator", <<op>>, left, right, Null))
        \/ /\ left = Null /\ right = Null
           /\ NoEmptyYet
           /\ node' = Append(node, Node("operator", <<>>, Null, Null, Null))
        \/ /\ (left = Null) # (right = Null)
           /\ UNCHANGED node

(* What AddCondition returns.                                                  *)
Joined(left, right) ==
    CASE left = Null /\ right # Null -> right
      [] left # Null /\ right = Null -> left
      [] OTHER -> Len(node) + 1

Join(op) == \E l, r \in held : \E kept \in SUBSET {l, r} :
    /\ Passed({l, r}, kept)
    /\ l = r => l.root = Null  \* bound: nothing is joined with itself
    /\ AddCondition(op, l.root, r.root)
    /\ held' = After({l, r}, kept)
                 \cup {Handle(Joined(l.root, r.root), Combine(op, l.means, r.means))}
    /\ sent' = NotSent /\ UNCHANGED clause

And == Join("AND")
Or == Join("OR")

(* A variable of the caller ends, and with it the nodes only it reached.       *)
Drop == \E h \in held :
    /\ caller.keeps # "kept"
    /\ held' = held \ {h}
    /\ sent' = NotSent /\ UNCHANGED <<node, clause, lent>>

-----------------------------------------------------------------------------
(* Trees.                                                                      *)

(* WhereTree::Init; a clause that was there is released.                       *)
InitTree(t) == \E h \in held : \E kept \in SUBSET {h} :
    /\ Passed({h}, kept)
    /\ caller.keeps = "kept" => ~Initialised(t)
    /\ clause' = [clause EXCEPT ![t] = h]
    /\ held' = After({h}, kept)
    /\ sent' = NotSent /\ UNCHANGED node

(* Mutant: the root of the clause stays what it was.                           *)
StaleRootMutant(t, op, h) ==
    /\ AddCondition(op, clause[t].root, h.root)
    /\ clause' = [clause EXCEPT ![t].means = Combine(op, @, h.means)]

(* DBWhereClause::AddCondition.                                                *)
Grow(t, op, h) ==
    /\ AddCondition(op, clause[t].root, h.root)
    /\ clause' = [clause EXCEPT ![t] = Handle(Joined(clause[t].root, h.root),
                                             Combine(op, clause[t].means, h.means))]

(* WhereTree::AddAnd and AddOr: nothing happens without a clause, whatever the *)
(* caller means by it.                                                         *)
Add(t, op) == \E h \in held : \E kept \in SUBSET {h} :
    /\ Passed({h}, kept)
    /\ \/ Initialised(t) /\ Grow(t, op, h)
       \/ /\ ~Initialised(t)
          /\ clause' = [clause EXCEPT ![t] = Handle(NoRoot, Combine(op, @.means, h.means))]
          /\ UNCHANGED node
    /\ held' = After({h}, kept)
    /\ sent' = NotSent

AddAnd(t) == Add(t, "AND")
AddOr(t) == Add(t, "OR")

(* DBWhereClause::MergeWhereClause: the root of u gets a second owner.         *)
MergeWhereClause(t, u, op) ==
    /\ t # u /\ Initialised(t) /\ Initialised(u)
    /\ caller.keeps # "temporary"
    /\ Grow(t, op, clause[u])
    /\ lent' = lent \cup {clause[u].root}
    /\ sent' = NotSent /\ UNCHANGED held

-----------------------------------------------------------------------------
(* Statements.                                                                 *)

(* Mutant: no WHERE for an empty text either.                                  *)
EmptyTextMutant(c, bare) ==
    IF c.root \in {NoRoot, Null} \/ GetString(bare)[c.root] = <<>> THEN Rows
    ELSE Reading[GetString(bare)[c.root]]

(* GetWhereString and setupSelectString, setupDeleteString: no WHERE without a *)
(* clause, whatever act2all says.                                              *)
RowsTaken(c, bare) == IF c.root = NoRoot THEN Rows
                      ELSE Reading[IF c.root = Null THEN <<>> ELSE GetString(bare)[c.root]]

(* SelectRows, DeleteRows.  A parent that is gone may look like a BETWEEN, or  *)
(* like no operator at all: then GetString throws and nothing is sent.         *)
Execute(t) ==
    /\ LET gone == IF Initialised(t) THEN Dangling(clause[t]) ELSE {}
       IN  \/ \E bare \in SUBSET gone :
                 sent' = [rows |-> RowsTaken(clause[t], bare), tree |-> Initialised(t),
                          act2all |-> FALSE]
           \/ gone # {} /\ sent' = NotSent
    /\ UNCHANGED <<node, held, clause, lent>>

(* SelectAllRows, DeleteAllRows.                                               *)
ExecuteAll ==
    /\ sent' = [rows |-> RowsTaken(NoClause, {}), tree |-> FALSE, act2all |-> TRUE]
    /\ UNCHANGED <<node, held, clause, lent>>

-----------------------------------------------------------------------------
Init ==
    /\ node = <<>>
    /\ held = {}
    /\ lent = {}
    /\ clause = [t \in Trees |-> NoClause]
    /\ sent = NotSent
    /\ caller \in Callers

Next ==
    /\ \/ Compare \/ Between \/ RawData \/ And \/ Or \/ Drop \/ ExecuteAll
       \/ \E t \in caller.trees : InitTree(t) \/ AddAnd(t) \/ AddOr(t) \/ Execute(t)
       \/ \E t, u \in caller.trees, op \in {"AND", "OR"} : MergeWhereClause(t, u, op)
    /\ UNCHANGED caller
    /\ Cardinality(held') <= MaxHeld

Spec == Init /\ [][Next]_vars

-----------------------------------------------------------------------------
(* Properties.                                                                 *)

(* Every condition in use.                                                     *)
InUse == held \cup {clause[t] : t \in {u \in Trees : Initialised(u)}}

(* An operator without operands, which AddCondition makes of two nulls.        *)
HasEmpty(h) == \E n \in Subtree[h.root] : EmptyOperator(n)

(* The heap is one: links lead to nodes, children of a living node live, and   *)
(* no node has itself below it.                                                *)
TypeOK ==
    /\ \A n \in DOMAIN node :
           /\ node[n].type \in {"field", "value", "raw", "operator"}
           /\ {node[n].left, node[n].right, node[n].parent} \subseteq 0 .. Len(node)
           /\ n \notin Subtree[node[n].left] \cup Subtree[node[n].right]
    /\ \A h \in InUse : h.root \in 0 .. Len(node)

(* The server reads the text of a condition as the caller built it: whatever   *)
(* is joined, the parentheses that GetString sets (and leaves out at the root  *)
(* and around the bounds of BETWEEN) keep AND and OR apart.  A tree with an    *)
(* operator without operands has no reading at all, and one with a parent that *)
(* is gone has no text that could be relied on.                                *)
TextMeansTree ==
    \A h \in InUse : (h.root # Null /\ ~HasEmpty(h) /\ Dangling(h) = {}) =>
        Reading[Text[h.root]] = h.means

(* GetString looks at the parent of every operator it prints, through a        *)
(* pointer that owns nothing.  That parent is gone for no operator but those   *)
(* that a call has taken while someone else kept them, and for these not as    *)
(* long as the caller keeps every condition in a variable.                     *)
NoDanglingParent ==
    \A n \in Alive :
        /\ node[n].type = "operator"
        /\ n \in lent => caller.keeps = "kept"
        => node[n].parent \in Alive \cup {Null}

(* A statement from a tree that has been initialised never takes the whole     *)
(* table, even when every condition was on an unknown field: it is refused by  *)
(* the server instead.                                                         *)
InitialisedIsNeverWhole == (sent.tree /\ ~sent.act2all) => sent.rows # Rows

(* AddAnd and AddOr "grow the tree by another subtree" (db_where.h:369,        *)
(* db_where.h:386): a statement from the tree takes only rows that meet what   *)
(* the caller has asked of it.                                                 *)
AddedConditionsHold ==
    [][\A t \in Trees :
          (Execute(t) /\ clause[t].means # Nothing /\ sent'.rows # SyntaxError) =>
              sent'.rows \subseteq clause[t].means]_vars
=============================================================================

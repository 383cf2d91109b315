----------------------------- MODULE SqlQueries -----------------------------
(***************************************************************************)
(* Queries as the difference detectors read them: a SELECT with its         *)
(* clauses, at most one subquery in its WHERE, at most one WITH definition  *)
(* and at most one set operator.  Names, literals and expressions are       *)
(* opaque; a text is the set of the nodes it renders, and one text contains *)
(* another when it has all of its nodes.                                    *)
(***************************************************************************)
EXTENDS Naturals, FiniteSets, Sequences, SequencesExt

\* A predicate: fn aggregates its column ("" when it does not), val is a
\* literal, "NULL", a column of the outer query or "(select)"; list is the
\* list of an IN; neg puts NOT in front.
Atom(fn, col, op, val, list, neg) == [fn |-> fn, col |-> col, op |-> op, val |-> val, list |-> list, neg |-> neg]
Cmp(col, op, val) == Atom("", col, op, val, {}, FALSE)
OuterColumns == {"o.id", "o.ref"}
Subquery == "(select)"
IsSub(a) == a.val = Subquery
Bare(a) == [a EXCEPT !.neg = FALSE]
Negated(a) == [a EXCEPT !.neg = ~a.neg]

\* A condition: its predicates from left to right and the connectives between.
Cond(ops, atoms) == [ops |-> ops, atoms |-> atoms]
Only(a) == Cond(<<>>, <<a>>)
NoCond == Cond(<<>>, <<>>)

NoBlock == [none |-> TRUE]

\* The predicates of a SELECT where the detectors find them, each with the
\* clause it stands in.
CaseAtoms(items) ==
  FlattenSeq([i \in 1..Len(items) |-> IF items[i].kind = "case" THEN items[i].whens ELSE <<>>])
Tagged(atoms, part) == [i \in 1..Len(atoms) |-> [atom |-> atoms[i], part |-> part]]
BlockAtoms(b) ==
  IF b = NoBlock THEN <<>>
  ELSE Tagged(CaseAtoms(b.items), "case") \o Tagged(b.where.atoms, "where") \o Tagged(b.having.atoms, "having")

\* The blocks a walk from a block reaches without entering a subquery: the
\* root also reaches the body of its WITH definition.
Walked(q, scope) == IF scope = "sub" THEN <<q.sub>> ELSE <<q.root, q.cte>>
AtomsOf(q, scope) == FlattenSeq([i \in 1..Len(Walked(q, scope)) |-> BlockAtoms(Walked(q, scope)[i])])
ItemsOf(q, scope) ==
  FlattenSeq([i \in 1..Len(Walked(q, scope)) |->
    IF Walked(q, scope)[i] = NoBlock THEN <<>> ELSE Walked(q, scope)[i].items])
OfKind(items, kind) == SelectSeq(items, LAMBDA it : it.kind = kind)

\* The nodes of a text.
AtomNodes(a) == {Bare(a), a}
CondNodes(c) == UNION {AtomNodes(a) : a \in ToSet(c.atoms)}
ItemNodes(it) == {it} \cup (IF it.kind = "case" THEN UNION {AtomNodes(a) : a \in ToSet(it.whens)} ELSE {})
BlockNodes(b) ==
  IF b = NoBlock THEN {}
  ELSE CondNodes(b.where) \cup CondNodes(b.having) \cup UNION {ItemNodes(it) : it \in ToSet(b.items)}
       \cup {[from |-> b.from]} \cup ToSet(b.joins) \cup ToSet(b.order)
Nodes(q, a) == AtomNodes(a) \cup (IF IsSub(a) THEN BlockNodes(q.sub) ELSE {})

FnOf(n) == IF "fn" \in DOMAIN n THEN n.fn ELSE ""
ValueOf(n) == IF "val" \in DOMAIN n THEN n.val ELSE ""

\* The text of a predicate and of a clause, the subquery it holds included.
Text(q, a) == <<Bare(a), IF IsSub(a) THEN q.sub ELSE NoBlock>>
HoldsSub(c) == \E a \in ToSet(c.atoms) : IsSub(a)
CondText(q, c) == <<c, IF HoldsSub(c) THEN q.sub ELSE NoBlock>>

\* _subquery_is_correlated: the subquery names a column of the outer query.
Links(q) ==
  IF q.sub = NoBlock THEN {} ELSE {a \in ToSet(q.sub.where.atoms) : a.val \in OuterColumns}
Correlated(q) == Links(q) # {}

\* What the two queries of a pair can differ in: the presence of a block, the
\* parts of the blocks both have, and what belongs to the query as a whole.
Parts == {"distinct", "items", "from", "joins", "where", "group", "having", "order", "limit", "offset"}
Aspects == ({"root", "sub", "cte"} \X (Parts \cup {"block"})) \cup {<<"query", "set">>, <<"query", "recursive">>}
BlockAt(q, scope) == CASE scope = "root" -> q.root [] scope = "sub" -> q.sub [] OTHER -> q.cte
Same(p, q, aspect) ==
  CASE aspect = <<"query", "set">> -> p.set = q.set
    [] aspect = <<"query", "recursive">> -> p.recursive = q.recursive
    [] OTHER ->
       LET b == BlockAt(p, aspect[1])
           c == BlockAt(q, aspect[1])
       IN IF aspect[2] = "block" \/ b = NoBlock \/ c = NoBlock THEN aspect[2] = "block" => (b = NoBlock) = (c = NoBlock)
          ELSE b[aspect[2]] = c[aspect[2]]
Differing(p, q) == {aspect \in Aspects : ~Same(p, q, aspect)}
=============================================================================

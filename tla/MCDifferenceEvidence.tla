------------------------ MODULE MCDifferenceEvidence ------------------------
\* Nine standards, each with the students that differ from it in one or two
\* places.
EXTENDS DifferenceEvidence

Column(c) == [kind |-> "column", col |-> c, alias |-> ""]
Agg(fn, c, dist) == [kind |-> "agg", fn |-> fn, col |-> c, dist |-> dist, alias |-> ""]
Case(whens, other) == [kind |-> "case", whens |-> whens, other |-> other, alias |-> ""]
Win(fn, over) == [kind |-> "win", fn |-> fn, over |-> over, alias |-> ""]
Call(fn, arg) == [kind |-> "call", fn |-> fn, arg |-> arg, alias |-> ""]
Star == [kind |-> "star", alias |-> ""]
IsTrue(c, istrue) == [kind |-> "test", col |-> c, op |-> "GT", val |-> "0", istrue |-> istrue, alias |-> ""]
As(it, alias) == [it EXCEPT !.alias = alias]
Key(k, desc) == [key |-> k, desc |-> desc, nulls |-> ""]
From(t) == [table |-> t, alias |-> ""]
Join(t, side, on) == [table |-> t, side |-> side, on |-> on]
And(a, b) == Cond(<<"AND">>, <<a, b>>)
Or(a, b) == Cond(<<"OR">>, <<a, b>>)
InSub(c) == Atom("", c, "IN", Subquery, {}, FALSE)
ExistsSub == Atom("", "", "EXISTS", Subquery, {}, FALSE)
Link(c, o) == Cmp(c, "EQ", o)

Block(items, from) ==
  [distinct |-> FALSE, items |-> items, from |-> From(from), joins |-> <<>>, where |-> NoCond, group |-> {},
   having |-> NoCond, order |-> <<>>, limit |-> "", offset |-> ""]
Query(root, sub, cte) ==
  [root |-> root, sub |-> sub, cte |-> cte, recursive |-> FALSE, set |-> [op |-> "", mod |-> ""]]

Price == Cmp("price", "GT", "5")
State == Cmp("state", "EQ", "a")
Qty == Cmp("qty", "GT", "1")
Conds(c) ==
  {Only(c.atoms[1]), Only(c.atoms[2]), Cond(<<"OR">>, c.atoms), [c EXCEPT !.atoms[1].op = "GTE"], [c EXCEPT !.atoms[1].val = "4"],
   [c EXCEPT !.atoms[1].col = "cost"], [c EXCEPT !.atoms = <<@[2], @[1]>>], Cond(<<"AND", "AND">>, c.atoms \o <<Cmp("rank", "LT", "9")>>)}

Plain == Query([Block(<<As(Column("name"), "n")>>, "emp") EXCEPT !.where = And(Price, State),
                  !.order = <<Key("name", FALSE), Key("id", FALSE)>>, !.limit = "3"], NoBlock, NoBlock)
PlainEdits ==
  {[Plain EXCEPT !.root.where = c] : c \in Conds(Plain.root.where)}
  \cup {[Plain EXCEPT !.root.items = i] : i \in {<<Column("name")>>, <<Column("id")>>, <<Star>>, <<Column("name"), Column("id")>>}}
  \cup {[Plain EXCEPT !.root.order = o] : o \in {<<>>, <<Key("name", FALSE)>>, <<Key("name", TRUE), Key("id", FALSE)>>,
                                                 <<Key("name", FALSE), Key("id", FALSE), Key("price", FALSE)>>,
                                                 <<Key("price", FALSE), Key("id", FALSE)>>}}
  \cup {[Plain EXCEPT !.root.distinct = TRUE], [Plain EXCEPT !.root.limit = "4"], [Plain EXCEPT !.root.limit = ""],
        [Plain EXCEPT !.root.offset = "1"], [Plain EXCEPT !.root.from = From("staff")]}

Grouped == Query([Block(<<Column("dept"), Agg("COUNT", "id", FALSE)>>, "emp") EXCEPT !.group = {"dept"},
                    !.having = Only(Atom("COUNT", "id", "GT", "2", {}, FALSE))], NoBlock, NoBlock)
GroupedEdits ==
  {[Grouped EXCEPT !.root.items[2] = i] : i \in {Agg("SUM", "id", FALSE), Agg("COUNT", "pay", FALSE), Agg("COUNT", "id", TRUE)}}
  \cup {[Grouped EXCEPT !.root.group = g] : g \in {{}, {"dept", "id"}, {"town"}}}
  \cup {[Grouped EXCEPT !.root.having = h] :
          h \in {NoCond, Only(Atom("COUNT", "id", "GTE", "2", {}, FALSE)), Only(Atom("SUM", "id", "GT", "2", {}, FALSE)),
                 Only(Atom("COUNT", "id", "GT", "3", {}, FALSE))}}
  \cup {[Grouped EXCEPT !.root.having = NoCond, !.root.where = Grouped.root.having]}

SubBlock == [Block(<<Column("ref")>>, "ord") EXCEPT !.where = And(Qty, Link("ref", "o.id"))]
SubEdits(q) ==
  {[q EXCEPT !.sub.where = c] : c \in {Only(q.sub.where.atoms[1]), [q.sub.where EXCEPT !.atoms[1].op = "LT"],
                                       [q.sub.where EXCEPT !.atoms[1].val = "2"]}}
  \cup {[q EXCEPT !.sub.items = <<Column("id")>>], [q EXCEPT !.sub.distinct = TRUE]}
WithExists == Query([Block(<<Column("name")>>, "emp") EXCEPT !.where = And(Price, ExistsSub)], SubBlock, NoBlock)
ExistsEdits ==
  SubEdits(WithExists)
  \cup {[WithExists EXCEPT !.sub.where.atoms[2] = l] : l \in {Link("ref", "o.ref"), Link("dep", "o.id")}}
  \cup {[WithExists EXCEPT !.root.where = c] :
          c \in {Only(ExistsSub), And(Price, Negated(ExistsSub)), And(Cmp("price", "GT", "6"), ExistsSub),
                 Cond(<<"AND", "AND">>, <<Price, ExistsSub, State>>)}}
  \cup {[WithExists EXCEPT !.root.where = Only(Price), !.sub = NoBlock], [WithExists EXCEPT !.root.items = <<Column("id")>>]}

WithIn == Query([Block(<<Column("name")>>, "emp") EXCEPT !.where = Only(InSub("id"))],
                [Block(<<Column("ref")>>, "ord") EXCEPT !.where = And(Qty, State)], NoBlock)
InEdits ==
  SubEdits(WithIn)
  \cup {[WithIn EXCEPT !.root.where = c] : c \in {Only(InSub("dept")), Only(Negated(InSub("id"))), And(InSub("id"), Price)}}
  \cup {[WithIn EXCEPT !.root.distinct = TRUE], [WithIn EXCEPT !.root.where = NoCond, !.sub = NoBlock]}

OnKey == Link("b.k", "a.k")
Flag == Cmp("b.f", "EQ", "1")
Joined == Query([Block(<<Column("a.x"), Column("b.y")>>, "a") EXCEPT !.joins = <<Join("b", "LEFT", {OnKey, Flag})>>,
                   !.where = Only(Cmp("a.z", "EQ", "2"))], NoBlock, NoBlock)
JoinEdits ==
  {[Joined EXCEPT !.root.joins = j] :
     j \in {<<>>, <<Join("b", "INNER", {OnKey, Flag})>>, <<Join("b", "LEFT", {Link("b.k", "a.j"), Flag})>>,
            <<Join("b", "LEFT", {OnKey})>>, <<Join("b", "CROSS", {})>>, <<Join("d", "LEFT", {OnKey, Flag})>>,
            Joined.root.joins \o <<Join("c", "INNER", {Link("c.k", "a.k")})>>}}
  \cup {[Joined EXCEPT !.root.joins = <<Join("b", "LEFT", {OnKey})>>, !.root.where = And(Cmp("a.z", "EQ", "2"), Flag)],
        [Joined EXCEPT !.root.where = NoCond], [Joined EXCEPT !.root.where.atoms[1].val = "3"],
        [Joined EXCEPT !.root.items[2].col = "b.w"], [Joined EXCEPT !.root.from = From("e")]}

Cte == [Block(<<Column("dept")>>, "emp") EXCEPT !.where = And(Price, State)]
WithCte == Query([Block(<<Column("dept")>>, "w") EXCEPT !.where = Only(Qty)], NoBlock, Cte)
CteEdits ==
  {[WithCte EXCEPT !.cte.where = c] : c \in Conds(Cte.where)}
  \cup {[WithCte EXCEPT !.cte.items = <<Column("town")>>], [WithCte EXCEPT !.cte.distinct = TRUE],
        [WithCte EXCEPT !.root.where.atoms[1].op = "LT"], [WithCte EXCEPT !.cte = NoBlock, !.root.from = From("emp")],
        [WithCte EXCEPT !.cte.order = <<Key("dept", FALSE)>>]}
Recursive == [WithCte EXCEPT !.recursive = TRUE, !.set = [op |-> "", mod |-> ""]]
RecursiveEdits ==
  {[Recursive EXCEPT !.cte.where = c] : c \in Conds(Cte.where)} \cup {[Recursive EXCEPT !.recursive = FALSE], [Recursive EXCEPT !.root.where = NoCond]}

United == [Plain EXCEPT !.set = [op |-> "UNION", mod |-> "ALL"], !.root.order = <<>>, !.root.limit = ""]
UnionEdits ==
  {[United EXCEPT !.set = s] : s \in {[op |-> "", mod |-> ""], [op |-> "UNION", mod |-> ""], [op |-> "INTERSECT", mod |-> ""]}}
  \cup {[United EXCEPT !.root.where.atoms[1].val = "4"], [United EXCEPT !.root.items = <<Column("id")>>]}

Computed == Query([Block(<<As(Case(<<Price>>, "lo"), "c"), As(Win("RANK", "dept"), "r"), As(Call("ROUND", "pay"), "p"), IsTrue("x", FALSE)>>, "emp")
                     EXCEPT !.where = And(Cmp("note", "LIKE", "a%"), Cmp("gone", "IS", "NULL"))], NoBlock, NoBlock)
ComputedEdits ==
  {[Computed EXCEPT !.root.items[1] = As(c, "c")] : c \in {Case(<<Price>>, ""), Case(<<Price, State>>, "lo"), Case(<<Cmp("price", "GT", "6")>>, "lo")}}
  \cup {[Computed EXCEPT !.root.items[2] = As(w, "r")] : w \in {Win("RANK", "town"), Win("LAG", "dept")}}
  \cup {[Computed EXCEPT !.root.items[3] = As(Call("ROUND", "age"), "p")], [Computed EXCEPT !.root.items[4] = IsTrue("x", TRUE)]}
  \cup {[Computed EXCEPT !.root.where.atoms[1] = a] : a \in {Cmp("note", "LIKE", "b%"), Cmp("note", "GLOB", "a*")}}
  \cup {[Computed EXCEPT !.root.where.atoms[2] = a] : a \in {Cmp("gone", "EQ", "NULL"), Negated(Cmp("gone", "IS", "NULL"))}}

Bases == {<<Plain, PlainEdits>>, <<Grouped, GroupedEdits>>, <<WithExists, ExistsEdits>>, <<WithIn, InEdits>>,
          <<Joined, JoinEdits>>, <<WithCte, CteEdits>>, <<Recursive, RecursiveEdits>>, <<United, UnionEdits>>, <<Computed, ComputedEdits>>}

\* Both edits at once, where they concern different parts.
Merged(p, x, y) ==
  LET take(scope) ==
        LET b == BlockAt(p, scope) IN
        IF b = NoBlock THEN b
        ELSE IF BlockAt(x, scope) = NoBlock \/ BlockAt(y, scope) = NoBlock THEN NoBlock
        ELSE [part \in DOMAIN b |-> IF BlockAt(y, scope)[part] # b[part] THEN BlockAt(y, scope)[part] ELSE BlockAt(x, scope)[part]]
  IN [root |-> take("root"), sub |-> take("sub"), cte |-> take("cte"),
      recursive |-> IF y.recursive # p.recursive THEN y.recursive ELSE x.recursive,
      set |-> IF y.set # p.set THEN y.set ELSE x.set]
Students(base) ==
  LET p == base[1]
      one == {p} \cup base[2]
      apart(x, y) ==
        /\ Differing(p, x) \cap Differing(p, y) = {}
        /\ x.sub = NoBlock \/ y.sub = NoBlock => p.sub = NoBlock \/ x = p \/ y = p
  IN {Merged(p, xy[1], xy[2]) : xy \in {xy \in one \X one : apart(xy[1], xy[2])}}

SomePairs == UNION {{<<base[1], q>> : q \in Students(base)} : base \in Bases}
=============================================================================

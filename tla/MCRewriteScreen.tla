--------------------------- MODULE MCRewriteScreen ---------------------------
\* Queries over two columns with values NULL, 0, 1, 2, and tables of up to two
\* rows.
EXTENDS RewriteResults

x == Col("x")
y == Col("y")
One == Lit(1)
Values == {Null, 0, 1, 2}

Tests == {x, <<"EQ", x, One>>, <<"EQ", One, x>>, <<"GT", x, One>>, <<"LT", One, x>>, <<"GTE", x, One>>,
          <<"in", x, One>>, <<"in", x, One, Lit(2)>>, <<"in", x, Lit(2), One>>, <<"in", x, One, Lit(Null)>>,
          <<"or", <<"EQ", x, One>>, <<"EQ", x, Lit(2)>>>>, <<"is", x, One>>, <<"is", x, Lit(Null)>>,
          <<"isnt", x, Lit(Null)>>, <<"isnt", x, One>>, <<"istrue", x>>, <<"istrue", <<"EQ", x, One>>>>,
          <<"between", x, One, Lit(2)>>, <<"and", <<"GTE", x, One>>, <<"LTE", x, Lit(2)>>>>,
          <<"between", x, Lit(Null), One>>, <<"and", <<"GTE", x, Lit(Null)>>, <<"LTE", x, One>>>>}

Not(e) == <<"not", e>>
Conditions ==
  Tests \cup {Not(t) : t \in Tests} \cup {Not(Not(t)) : t \in Tests} \cup {Not(IsNull(x))}
  \cup {<<"and", t, y>> : t \in Tests} \cup {<<"or", y, t>> : t \in Tests}
  \cup {<<"or", y, <<"and", t, y>>>> : t \in Tests}
  \cup {NoWhere, <<"EQ", One, One>>, <<"EQ", Lit(Null), Lit(Null)>>}

Projections ==
  {x, Not(Not(x)), Not(Not(<<"EQ", x, One>>)), <<"istrue", <<"EQ", x, One>>>>, <<"EQ", x, One>>, <<"is", x, One>>,
   <<"nullif", x, One>>, <<"case", None, <<"EQ", x, One>>, Lit(Null), x>>,
   <<"case", None, <<"EQ", One, x>>, Lit(Null), x>>, <<"case", None, <<"EQ", x, One>>, Lit(Null), One>>,
   <<"nullif", One, x>>, <<"coalesce", x, Lit(2)>>, <<"case", None, IsNull(x), Lit(2), x>>,
   <<"case", x, One, Lit(2), y>>, <<"case", None, <<"EQ", x, One>>, Lit(2), y>>,
   <<"case", x, Lit(Null), Lit(2), y>>, <<"case", None, <<"EQ", x, Lit(Null)>>, Lit(2), y>>}

Queries == {[select |-> x, where |-> c] : c \in Conditions}
           \cup {[select |-> p, where |-> NoWhere] : p \in Projections}

AllRows == [{"x", "y"} -> Values]

UpToTwo(rows) == {<<>>} \cup {<<a>> : a \in rows} \cup {<<a, b>> : a \in rows, b \in rows}
TablePairs == UpToTwo([k : {Null, 1, 2}, v : {1, 2}]) \X UpToTwo([k : {Null, 1}, v : {Null, 1}])

\* What Covered leaves out is an error of the code: for every kind of difference
\* that an accepted form can hide there is a form that hides only this one, and
\* shows it on some tables.
Accepted == {p \in Forms : FormAccepted(p)}
ASSUME GapsAreReal ==
  \A p \in Accepted : \A gap \in Unseen(p) :
    \E q \in Accepted :
      /\ q.rule = p.rule /\ Unseen(q) = {gap}
      /\ \E t \in TablePairs : Admissible(q, t[1], t[2]) /\ FormRows(q, t[1], t[2])[1] # FormRows(q, t[1], t[2])[2]
=============================================================================

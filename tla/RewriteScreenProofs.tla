------------------------ MODULE RewriteScreenProofs ------------------------
(***************************************************************************)
(* Proofs about RewriteScreen for tables of any length, whose columns hold  *)
(* any integers and NULLs: the two queries of a form that its recogniser    *)
(* accepts show the same.  And about NodeRewrites for expressions of any    *)
(* size: what a rule puts in place of a node has its value.                 *)
(***************************************************************************)
EXTENDS RewriteScreen, NodeRewrites, ConstraintLedgerProofs, FiniteSetTheorems

----------------------------------------------------------------------------
(* Bags of rows *)

\* h takes the rows of f one to one onto the rows of g, each to an equal row.
Renames(h, f, g) ==
  /\ h \in [DOMAIN f -> DOMAIN g]
  /\ \A i, j \in DOMAIN f : h[i] = h[j] => i = j
  /\ \A t \in DOMAIN g : \E i \in DOMAIN f : h[i] = t
  /\ \A i \in DOMAIN f : g[h[i]] = f[i]

LEMMA SameRowsSameBag ==
  ASSUME NEW f, NEW g, NEW h, IsFiniteSet(DOMAIN f), Renames(h, f, g)
  PROVE  Bag(f) = Bag(g) /\ Range(f) = Range(g)
<1> DEFINE S == DOMAIN f
           T == DOMAIN g
<1> USE DEF Renames
<1>1. Range(f) = Range(g)
  BY DEF Range
<1>2. \A x : Cardinality({i \in S : f[i] = x}) = Cardinality({j \in T : g[j] = x})
  <2> SUFFICES ASSUME NEW x
               PROVE  Cardinality({i \in S : f[i] = x}) = Cardinality({j \in T : g[j] = x})
    OBVIOUS
  <2> DEFINE P == {i \in S : f[i] = x}
             Q == {j \in T : g[j] = x}
             b == [i \in P |-> h[i]]
  <2>1. b \in [P -> Q]
    OBVIOUS
  <2>2. b \in Bijection(P, Q)
    BY <2>1 DEF Bijection, Injection, Surjection, IsInjective
  <2>3. IsFiniteSet(P)
    BY FS_Subset
  <2>4. QED BY <2>2, <2>3, FS_Bijection DEF ExistsBijection
<1>3. Bag(f) = Bag(g)
  <2> DEFINE F(x) == Cardinality({i \in S : f[i] = x})
             G(x) == Cardinality({j \in T : g[j] = x})
  <2>2. Bag(f) = [x \in Range(f) |-> F(x)] /\ Bag(g) = [x \in Range(g) |-> G(x)]
    BY DEF Bag
  <2>3. \A x : F(x) = G(x)
    BY <1>2
  <2> HIDE DEF F, G
  <2>4. QED BY <1>1, <2>2, <2>3
<1>4. QED BY <1>1, <1>3

----------------------------------------------------------------------------
(* Values and tables *)

\* An equality of SQL holds between equal values that are not NULL.
LEMMA SameMeaning ==
  ASSUME NEW x \in Value, NEW y \in Value
  PROVE  Same(x, y) <=> x = y /\ x # Null
BY NullAssumption DEF Same, Compared, Holds, Bool, Value

\* A membership of SQL holds of a value in the list that is not NULL.
LEMMA MemberMeaning ==
  ASSUME NEW x \in Value, NEW keys
  PROVE  SqlIn(x, keys) = 1 <=> x # Null /\ x \in keys
BY NullAssumption DEF SqlIn, Value

LEMMA PairParts ==
  ASSUME NEW x, NEW a, NEW b, x = <<a, b>>
  PROVE  x[1] = a /\ x[2] = b
OBVIOUS

LEMMA PairOf ==
  ASSUME NEW A, NEW B, NEW m \in A \X B
  PROVE  m[1] \in A /\ m[2] \in B /\ m = <<m[1], m[2]>>
OBVIOUS

LEMMA TableRows ==
  ASSUME NEW r \in Seq(TableRow)
  PROVE  /\ DOMAIN r = 1 .. Len(r) /\ Len(r) \in Nat /\ IsFiniteSet(DOMAIN r)
         /\ \A i \in DOMAIN r : r[i].k \in Value /\ r[i].v \in Value
<1>1. DOMAIN r = 1 .. Len(r) /\ Len(r) \in Nat
  OBVIOUS
<1>2. \A i \in DOMAIN r : r[i] \in TableRow
  OBVIOUS
<1>3. IsFiniteSet(1 .. Len(r))
  BY <1>1, FS_Interval
<1>4. \A i \in DOMAIN r : r[i].k \in Value /\ r[i].v \in Value
  BY <1>2 DEF TableRow
<1>5. QED BY <1>1, <1>3, <1>4

Agree(rows) == rows[1] = rows[2]

LEMMA PlacesAreNumbers ==
  ASSUME NEW s \in Seq(TableRow), NEW j \in DOMAIN s
  PROVE  j \in Nat /\ j # 0
<1>1. DOMAIN s = 1 .. Len(s) /\ Len(s) \in Nat
  BY TableRows
<1>2. \A n \in Nat : \A i \in 1 .. n : i \in Nat /\ i # 0
  OBVIOUS
<1>3. QED BY <1>1, <1>2

----------------------------------------------------------------------------
(* Joins *)

\* The pairs of an inner join on equal keys; those whose row of s passes the
\* filter are the pairs with the rows of s that do.
LEMMA InnerPairs ==
  ASSUME NEW r, NEW s \in Seq(TableRow)
  PROVE  Shows(Passing(Joined(r, s, "keys", "INNER"), "s"), "r.v")
           = [m \in Matches(r, Filtered(s, "v", TRUE), "keys") |-> r[m[1]].v]
<1> DEFINE list == Filtered(s, "v", TRUE)
           pairs == Joined(r, s, "keys", "INNER")
           passing == {m \in DOMAIN pairs : Passes(pairs[m], "s")}
<1>1. \A t : Matches(r, t, "keys") = {m \in (DOMAIN r) \X (DOMAIN t) : Same(r[m[1]].k, t[m[2]].k)}
  BY DEF Matches, On
<1>2. /\ DOMAIN list = {j \in DOMAIN s : Same(s[j].v, 1)}
      /\ \A j \in DOMAIN list : list[j] = s[j]
  BY DEF Filtered, Restrict
<1>3. DOMAIN pairs = Matches(r, s, "keys")
  BY DEF Joined
<1>4. \A m \in DOMAIN pairs : pairs[m] = <<r[m[1]], s[m[2]]>>
  <2>1. \A m \in DOMAIN pairs : pairs[m] = <<r[m[1]], IF m[2] = NoMatch THEN Absent ELSE s[m[2]]>>
    BY DEF Joined
  <2>2. \A m \in DOMAIN pairs : m[2] # NoMatch
    BY <1>1, <1>3, PlacesAreNumbers DEF NoMatch
  <2> HIDE DEF pairs
  <2>3. QED BY <2>1, <2>2
<1> HIDE DEF list, pairs
<1>5. \A m \in DOMAIN pairs : pairs[m][1] = r[m[1]] /\ pairs[m][2] = s[m[2]]
  BY <1>4, PairParts
<1>6. passing = {m \in DOMAIN pairs : Same(s[m[2]].v, 1)}
  BY <1>5 DEF Passes
<1>7. passing = Matches(r, list, "keys")
  <2>1. Matches(r, s, "keys") = {m \in (DOMAIN r) \X (DOMAIN s) : Same(r[m[1]].k, s[m[2]].k)}
    BY <1>1
  <2>2. Matches(r, list, "keys") = {m \in (DOMAIN r) \X (DOMAIN list) : Same(r[m[1]].k, list[m[2]].k)}
    BY <1>1
  <2>3. ASSUME NEW m \in Matches(r, list, "keys") PROVE m \in passing
    <3>1. m \in (DOMAIN r) \X (DOMAIN list) /\ Same(r[m[1]].k, list[m[2]].k)
      BY <2>2
    <3>2. m[1] \in DOMAIN r /\ m[2] \in DOMAIN list /\ m = <<m[1], m[2]>>
      BY <3>1, PairOf
    <3>3. m[2] \in DOMAIN s /\ list[m[2]] = s[m[2]] /\ Same(s[m[2]].v, 1)
      BY <1>2, <3>2
    <3>4. QED BY <1>3, <1>6, <2>1, <3>1, <3>2, <3>3
  <2>4. ASSUME NEW m \in passing PROVE m \in Matches(r, list, "keys")
    <3>1. m \in (DOMAIN r) \X (DOMAIN s) /\ Same(r[m[1]].k, s[m[2]].k) /\ Same(s[m[2]].v, 1)
      BY <1>3, <1>6, <2>1
    <3>2. m[1] \in DOMAIN r /\ m[2] \in DOMAIN s /\ m = <<m[1], m[2]>>
      BY <3>1, PairOf
    <3>3. m[2] \in DOMAIN list /\ list[m[2]] = s[m[2]]
      BY <1>2, <3>1, <3>2
    <3>4. QED BY <2>2, <3>1, <3>2, <3>3
  <2>5. QED BY <2>3, <2>4
<1>8. Passing(pairs, "s") = [m \in passing |-> pairs[m]]
  BY DEF Passing, Restrict
<1> HIDE DEF passing
<1>9. passing \subseteq DOMAIN pairs
  BY DEF passing
<1>10. Shows(Passing(pairs, "s"), "r.v") = [m \in passing |-> pairs[m][1].v]
  BY <1>8 DEF Shows, Item
<1>11. [m \in passing |-> pairs[m][1].v] = [m \in passing |-> r[m[1]].v]
  BY <1>5, <1>9
<1>12. QED BY <1>7, <1>10, <1>11 DEF list, pairs

\* USING or NATURAL joins the rows that the same ON joins.
LEMMA UsingAgree ==
  ASSUME NEW p \in UsingForms, UsingAccepted(p), UsingUnseen(p) = {},
         NEW r \in Seq(TableRow), NEW s \in Seq(TableRow)
  PROVE  Agree(UsingRows(p, r, s))
<1> DEFINE meant == IF p.names = "USING" THEN "keys" ELSE "all"
<1>1. p.item \in {"r.v", "r.k", "1"} /\ p.filtered = "r" /\ p.side = "INNER" /\ p.clause = "none"
  <2>1. p.item # "s.v" /\ p.filtered # "s" /\ p.clause = "none"
    BY DEF UsingUnseen, ClauseUnseen, When
  <2>2. p.side = "INNER" /\ p.item # "f(s.v)"
    BY DEF UsingAccepted, UsingShape
  <2>3. p.item \in Items \cup SameItems /\ p.filtered \in {"r", "s"}
    BY DEF UsingForms
  <2>4. QED BY <2>1, <2>2, <2>3 DEF Items, SameItems
<1>5. meant = p.on
  <2>1. ~(p.names = "NATURAL" /\ p.on = "keys")
    BY DEF UsingUnseen, When
  <2>2. EqualNames(p.on) # {} /\ EqualNames(p.on) = Expected(p)
    BY DEF UsingAccepted
  <2>3. p.names \in {"USING", "NATURAL", "catalogued NATURAL"} /\ p.on \in {"keys", "all", "crossed"}
    BY DEF UsingForms
  <2>4. CASE p.names = "USING"
    BY <2>2, <2>3, <2>4 DEF EqualNames, Expected
  <2>5. CASE p.names = "NATURAL"
    BY <2>1, <2>2, <2>3, <2>5 DEF EqualNames
  <2>6. CASE p.names = "catalogued NATURAL"
    <3>1. EqualNames(p.on) = {"k", "v"}
      BY <2>2, <2>6 DEF Expected
    <3>2. "v" \in EqualNames(p.on)
      BY <3>1
    <3>3. p.on = "all"
      BY <2>3, <3>2 DEF EqualNames
    <3>4. QED BY <2>6, <3>3
  <2>7. QED BY <2>3, <2>4, <2>5, <2>6
<1>2. FirstItem(p.item) = p.item
  BY <1>1 DEF FirstItem, SameItems
<1> DEFINE shown == Shows(Passing(Joined(r, s, p.on, "INNER"), "r"), p.item)
<1>3. UsingRows(p, r, s) = <<Around("none", shown, FALSE, s), Shown(shown, FALSE)>>
  <2>1. UsingRows(p, r, s) =
          <<Around(p.clause, Shows(Passing(Joined(r, s, meant, p.side), "r"), FirstItem(p.item)), FALSE, s),
            Shown(Shows(Passing(Joined(r, s, p.on, "INNER"), p.filtered), p.item), FALSE)>>
    BY DEF UsingRows
  <2> HIDE DEF meant
  <2>2. QED BY <1>1, <1>2, <1>5, <2>1, Zenon
<1> HIDE DEF shown
<1>4. QED BY <1>3, PairParts DEF Around, Agree

\* A row whose key is in a list is joined to a row of the list: to one of them
\* when the keys of the list are unique, and shown once in any case under
\* DISTINCT.
LEMMA InJoinAgree ==
  ASSUME NEW p \in InJoinForms, InJoinAccepted(p), InJoinUnseen(p) = {},
         NEW r \in Seq(TableRow), NEW s \in Seq(TableRow), Admissible(p, r, s)
  PROVE  Agree(InJoinRows(p, r, s))
<1> DEFINE list == Filtered(s, "v", TRUE)
           members == Range(Column(list, "k"))
           kept == {i \in DOMAIN r : SqlIn(r[i].k, members) = 1}
           pairs == Matches(r, list, "keys")
           f == [m \in pairs |-> r[m[1]].v]
           g == Restrict(Column(r, "v"), kept)
<1>1. /\ p.side = "INNER" /\ p.on = "keys" /\ p.item = "r.v" /\ p.filtered = "s" /\ p.clause = "none"
      /\ p.distinct \in BOOLEAN /\ p.uniqueKey \in BOOLEAN /\ (p.uniqueKey \/ p.distinct)
  BY DEF InJoinForms, InJoinAccepted, InJoinUnseen, ClauseUnseen, When, Items
<1>2. InJoinRows(p, r, s) = <<Shown(g, p.distinct), Shown(f, p.distinct)>>
  <2>1. Shows(Passing(Joined(r, s, p.on, p.side), p.filtered), p.item) = f
    <3>1. Shows(Passing(Joined(r, s, "keys", "INNER"), "s"), "r.v") = f
      BY InnerPairs, Zenon
    <3> HIDE DEF f
    <3>2. QED BY <1>1, <3>1, Zenon
  <2> HIDE DEF f
  <2>2. InJoinRows(p, r, s) = <<Around("none", g, p.distinct, s), Shown(f, p.distinct)>>
    BY <1>1, <2>1 DEF InJoinRows
  <2> HIDE DEF g
  <2>3. QED BY <2>2 DEF Around
<1>3. /\ DOMAIN list \subseteq DOMAIN s
      /\ \A j \in DOMAIN list : list[j] = s[j] /\ list[j].k \in Value
  BY TableRows DEF Filtered, Restrict
<1>4. members = {list[j].k : j \in DOMAIN list}
  BY DEF Range, Column
<1> HIDE DEF members
<1>5. kept = {i \in DOMAIN r : \E j \in DOMAIN list : Same(r[i].k, list[j].k)}
  <2> SUFFICES ASSUME NEW i \in DOMAIN r
               PROVE  SqlIn(r[i].k, members) = 1 <=> \E j \in DOMAIN list : Same(r[i].k, list[j].k)
    OBVIOUS
  <2> HIDE DEF list
  <2>1. r[i].k \in Value
    BY TableRows
  <2>2. \A j \in DOMAIN list : Same(r[i].k, list[j].k) <=> r[i].k = list[j].k /\ r[i].k # Null
    BY <1>3, <2>1, SameMeaning
  <2>3. SqlIn(r[i].k, members) = 1 <=> r[i].k # Null /\ r[i].k \in members
    BY <2>1, MemberMeaning
  <2>4. QED BY <1>4, <2>2, <2>3
<1>6. g = [i \in kept |-> r[i].v]
  BY DEF Restrict, Column
<1>7. pairs = {m \in (DOMAIN r) \X (DOMAIN list) : Same(r[m[1]].k, list[m[2]].k)}
  BY DEF Matches, On
<1> HIDE DEF list, kept, pairs, f, g
<1>8. /\ \A m \in pairs : m[1] \in kept
      /\ \A i \in kept : \E m \in pairs : m[1] = i
  <2>1. \A m \in pairs : m[1] \in kept
    BY <1>5, <1>7
  <2>2. ASSUME NEW i \in kept PROVE \E m \in pairs : m[1] = i
    <3>1. PICK j \in DOMAIN list : i \in DOMAIN r /\ Same(r[i].k, list[j].k)
      BY <1>5
    <3>2. <<i, j>> \in pairs
      BY <1>7, <3>1
    <3>3. QED BY <3>2
  <2>3. QED BY <2>1, <2>2
<1>9. CASE p.distinct
  <2>1. Range(f) = {r[m[1]].v : m \in pairs} /\ Range(g) = {r[i].v : i \in kept}
    BY <1>6 DEF Range, f
  <2>2. Range(f) = Range(g)
    BY <1>8, <2>1
  <2>3. QED BY <1>2, <1>9, <2>2 DEF Shown, Agree
<1>10. CASE p.uniqueKey
  <2> DEFINE h == [m \in pairs |-> m[1]]
  <2>1. \A i, j \in DOMAIN s : i # j => ~Same(s[i].k, s[j].k)
    BY <1>10 DEF Admissible, InJoinForms
  <2>2. \A m \in pairs : /\ m \in (DOMAIN r) \X (DOMAIN list) /\ m[2] \in DOMAIN s
                        /\ s[m[2]].k = r[m[1]].k /\ s[m[2]].k \in Value \ {Null}
    BY <1>3, <1>7, SameMeaning, TableRows
  <2>3. \A m, n \in pairs : h[m] = h[n] => m = n
    <3> SUFFICES ASSUME NEW m \in pairs, NEW n \in pairs, m[1] = n[1] PROVE m = n
      OBVIOUS
    <3>1. Same(s[m[2]].k, s[n[2]].k)
      BY <2>2, SameMeaning
    <3>2. m[2] = n[2]
      BY <2>1, <2>2, <3>1
    <3>3. QED BY <2>2, <3>2
  <2>4. h \in [pairs -> kept] /\ \A i \in kept : \E m \in pairs : h[m] = i
    BY <1>8
  <2>5. DOMAIN f = pairs /\ DOMAIN g = kept /\ \A m \in pairs : g[h[m]] = f[m]
    BY <1>6, <2>4 DEF f
  <2>6. IsFiniteSet(pairs)
    BY <1>3, <1>7, TableRows, FS_Subset, FS_Product
  <2> HIDE DEF h
  <2>7. Bag(f) = Bag(g) /\ Range(f) = Range(g)
    BY <2>3, <2>4, <2>5, <2>6, SameRowsSameBag DEF Renames
  <2>8. QED BY <1>2, <2>7 DEF Shown, Agree
<1>11. QED BY <1>1, <1>9, <1>10

\* The rows of a LEFT JOIN whose key of s is NULL are the rows without a match:
\* a key that matches is not NULL.
LEMMA AntiAgree ==
  ASSUME NEW p \in AntiForms, AntiAccepted(p), AntiUnseen(p) = {},
         NEW r \in Seq(TableRow), NEW s \in Seq(TableRow)
  PROVE  Agree(AntiRows(p, r, s))
<1> DEFINE list == Filtered(s, "v", p.extra = "both")
           kept == Unmatched(r, list, "keys")
           pairs == Joined(r, list, "keys", "LEFT")
           passing == {m \in DOMAIN pairs : pairs[m][2].k = Null}
           f == Restrict(Shows(pairs, "r.v"), passing)
           g == Restrict(Column(r, "v"), kept)
           h == [m \in passing |-> m[1]]
<1>1. /\ p.side = "LEFT" /\ p.tests = "s.k IS NULL" /\ p.from = "r" /\ p.on = "keys" /\ p.item = "r.v"
      /\ p.clause = "none" /\ p.extra \in {"none", "both"}
  BY DEF AntiForms, AntiAccepted, AntiUnseen, ClauseUnseen, When, Items
<1>2. (p.extra \in {"EXISTS", "both"}) = (p.extra = "both") /\ (p.extra \in {"ON", "both"}) = (p.extra = "both")
  <2>1. CASE p.extra = "none"
    BY <2>1
  <2>2. CASE p.extra = "both"
    BY <2>2
  <2>3. QED BY <1>1, <2>1, <2>2
<1>3. AntiRows(p, r, s) = <<Bag(g), Bag(f)>>
  <2>1. passing = {m \in DOMAIN pairs : PassesNull("s.k IS NULL", pairs[m])}
    BY DEF PassesNull
  <2> DEFINE first == Restrict(Column(r, "v"), Unmatched(r, Filtered(s, "v", p.extra \in {"EXISTS", "both"}), "keys"))
             joined == Joined(IF p.from = "r" THEN r ELSE s, Filtered(s, "v", p.extra \in {"ON", "both"}), p.on, p.side)
             second == Restrict(Shows(joined, p.item), {m \in DOMAIN joined : PassesNull(p.tests, joined[m])})
  <2>2. AntiRows(p, r, s) = <<Around(p.clause, first, FALSE, s), Shown(second, FALSE)>>
    BY DEF AntiRows
  <2>3. first = g
    BY <1>2, Zenon
  <2>4. joined = pairs
    BY <1>1, <1>2, Zenon
  <2> HIDE DEF pairs, passing, joined
  <2>5. second = f
    BY <1>1, <2>1, <2>4, Zenon
  <2> HIDE DEF first, second, f, g
  <2>6. QED BY <1>1, <2>2, <2>3, <2>5 DEF Around, Shown
<1>4. DOMAIN pairs = Matches(r, list, "keys") \cup kept \X {NoMatch}
  BY DEF Joined
<1>4a. /\ DOMAIN list \subseteq DOMAIN s
       /\ \A j \in DOMAIN list : list[j] = s[j]
  BY DEF Filtered, Restrict
<1> HIDE DEF list
<1>5. /\ \A m \in Matches(r, list, "keys") : pairs[m][2].k # Null
      /\ \A m \in kept \X {NoMatch} : pairs[m][2].k = Null
      /\ \A m \in DOMAIN pairs : pairs[m][1] = r[m[1]]
  <2>1. \A m \in DOMAIN pairs : pairs[m] = <<r[m[1]], IF m[2] = NoMatch THEN Absent ELSE list[m[2]]>>
    BY DEF Joined
  <2> HIDE DEF pairs, kept
  <2>2. ASSUME NEW m \in Matches(r, list, "keys") PROVE pairs[m][2].k # Null
    <3>1. m[1] \in DOMAIN r /\ m[2] \in DOMAIN s /\ list[m[2]] = s[m[2]] /\ Same(r[m[1]].k, s[m[2]].k)
      BY <1>4a DEF Matches, On
    <3>2. m[2] # NoMatch
      BY <3>1, PlacesAreNumbers DEF NoMatch
    <3>3. r[m[1]].k \in Value /\ s[m[2]].k \in Value
      BY <3>1, TableRows
    <3>4. s[m[2]].k # Null
      BY <3>1, <3>3, SameMeaning
    <3>5. m \in DOMAIN pairs
      BY <1>4
    <3>6. pairs[m] = <<r[m[1]], s[m[2]]>>
      BY <2>1, <3>1, <3>2, <3>5
    <3>7. pairs[m][2] = s[m[2]]
      BY <3>6, PairParts
    <3>8. QED BY <3>4, <3>7
  <2>3. ASSUME NEW m \in kept \X {NoMatch} PROVE pairs[m][2].k = Null
    <3>1. m \in DOMAIN pairs /\ m[2] = NoMatch
      BY <1>4
    <3>2. pairs[m] = <<r[m[1]], Absent>>
      BY <2>1, <3>1
    <3>3. pairs[m][2] = Absent
      BY <3>2, PairParts
    <3>4. Absent.k = Null
      BY DEF Absent
    <3>5. QED BY <3>3, <3>4
  <2>4. ASSUME NEW m \in DOMAIN pairs PROVE pairs[m][1] = r[m[1]]
    <3>1. PICK y : pairs[m] = <<r[m[1]], y>>
      BY <2>1
    <3>2. QED BY <3>1, PairParts
  <2>5. QED BY <2>2, <2>3, <2>4
<1> HIDE DEF pairs
<1>6. passing = kept \X {NoMatch}
  BY <1>4, <1>5
<1>7. DOMAIN f = passing /\ \A m \in passing : f[m] = r[m[1]].v
  BY <1>5 DEF Restrict, Shows, Item
<1>8. DOMAIN g = kept /\ \A i \in kept : g[i] = r[i].v
  BY DEF Restrict, Column, Unmatched
<1>9. IsFiniteSet(DOMAIN f)
  <2>1. kept \subseteq DOMAIN r
    BY DEF Unmatched
  <2>2. IsFiniteSet(kept) /\ IsFiniteSet({NoMatch})
    BY <2>1, TableRows, FS_Subset, FS_Singleton
  <2>3. IsFiniteSet(kept \X {NoMatch})
    BY <2>2, FS_Product
  <2>4. QED BY <1>6, <1>7, <2>3
<1> HIDE DEF f, g, kept, passing
<1>10. ASSUME NEW m \in passing PROVE m[1] \in kept /\ m = <<m[1], NoMatch>>
  <2>1. m \in kept \X {NoMatch}
    BY <1>6
  <2>2. m[1] \in kept /\ m[2] \in {NoMatch} /\ m = <<m[1], m[2]>>
    BY <2>1, PairOf
  <2>3. QED BY <2>2
<1>11. \A m \in passing : h[m] = m[1]
  OBVIOUS
<1>12. \A i \in kept : <<i, NoMatch>> \in passing
  BY <1>6
<1>13. \A i \in kept : h[<<i, NoMatch>>] = i
  BY <1>11, <1>12
<1>14. h \in [passing -> kept]
  BY <1>10
<1> HIDE DEF h
<1>15. \A m, n \in passing : h[m] = h[n] => m = n
  BY <1>10, <1>11
<1>16. \A m \in passing : g[h[m]] = f[m]
  BY <1>7, <1>8, <1>10, <1>11
<1>17. Renames(h, f, g)
  BY <1>7, <1>8, <1>12, <1>13, <1>14, <1>15, <1>16 DEF Renames
<1>18. Bag(f) = Bag(g)
  BY <1>9, <1>17, SameRowsSameBag
<1>19. QED BY <1>3, <1>18, PairParts DEF Agree

----------------------------------------------------------------------------
(* Memberships *)

\* IN and EXISTS hold of the same values.  They have the same value when the list is
\* empty, or when neither the value nor a key of the list is NULL.
LEMMA InMeansExists ==
  ASSUME NEW x \in Value, NEW keys \in SUBSET Value
  PROVE  /\ IsTrue(In(x, keys)) <=> IsTrue(Exists(x, keys))
         /\ keys = {} \/ (x # Null /\ Null \notin keys) => In(x, keys) = Exists(x, keys)
<1>1. (\E y \in keys : Same(x, y)) <=> x \in keys /\ x # Null
  BY SameMeaning
<1>2. Exists(x, keys) = IF x \in keys /\ x # Null THEN 1 ELSE 0
  BY <1>1 DEF Exists, Bool
<1>3. IsTrue(Exists(x, keys)) <=> x \in keys /\ x # Null
  BY <1>2, NullAssumption DEF IsTrue
<1>4. CASE keys = {}
  <2>1. In(x, keys) = 0
    BY <1>4 DEF In
  <2>2. QED BY <1>2, <1>4, <2>1
<1>5. CASE keys # {}
  <2>1. In(x, keys) = IF x = Null THEN Null ELSE IF x \in keys THEN 1 ELSE IF Null \in keys THEN Null ELSE 0
    BY <1>5 DEF In, SqlIn
  <2>2. QED BY <1>2, <1>3, <1>5, <2>1, NullAssumption DEF IsTrue
<1>6. QED BY <1>4, <1>5

\* The keys of the list, when they are free of NULL.
LEMMA InnerKeysFree ==
  ASSUME NEW p \in InExistsForms, NEW s \in Seq(TableRow),
         p.innerSchema => Null \notin Range(Column(s, "k"))
  PROVE  /\ InnerKeys(p, s, TRUE) \in SUBSET Value
         /\ p.inner \in {"query", "not ("} \/ p.innerSchema => Null \notin InnerKeys(p, s, TRUE)
         /\ p.inner = "null" /\ p.innerSchema => InnerKeys(p, s, TRUE) = {}
<1> DEFINE list == DOMAIN Filtered(s, "v", TRUE)
<1>1. list \subseteq DOMAIN s
  BY DEF Filtered, Restrict
<1>2. InnerKeys(p, s, TRUE) = {s[j].k : j \in {j \in list : PassesTest(p.inner, s[j].k, s[j].v)}}
  BY DEF InnerKeys
<1>3. Range(Column(s, "k")) = {s[j].k : j \in DOMAIN s}
  BY DEF Range, Column
<1> HIDE DEF list
<1>4. \A j \in list : s[j].k \in Value
  BY <1>1, TableRows
<1>5. p.innerSchema => \A j \in list : s[j].k # Null
  BY <1>1, <1>3
<1>6. p.inner \in {"query", "not ("} => \A j \in list : PassesTest(p.inner, s[j].k, s[j].v) => s[j].k # Null
  BY DEF PassesTest
<1>7. p.inner = "null" => \A j \in list : PassesTest(p.inner, s[j].k, s[j].v) => s[j].k = Null
  BY DEF PassesTest
<1>8. QED BY <1>2, <1>4, <1>5, <1>6, <1>7

\* [NOT] IN against [NOT] EXISTS: below AND it matters only whether they hold, and
\* elsewhere the NULLs are excluded that tell them apart.
LEMMA InExistsAgree ==
  ASSUME NEW p \in InExistsForms, InExistsAccepted(p), InExistsUnseen(p) = {},
         NEW r \in Seq(TableRow), NEW s \in Seq(TableRow), Admissible(p, r, s)
  PROVE  Agree(InExistsRows(p, r, s))
<1> DEFINE keys == InnerKeys(p, s, TRUE)
           outer == {i \in DOMAIN r : PassesTest(p.outer, r[i].k, r[i].v)}
           member == {i \in outer : Below(p.below, In(r[i].k, keys))}
           exists == {i \in outer : Below(p.below, Exists(r[i].k, ExistsKeys(p, r[i], s)))}
<1>1. /\ p.outer = "schema" => Null \notin Range(Column(r, "k"))
      /\ p.innerSchema => Null \notin Range(Column(s, "k"))
  BY DEF Admissible, InExistsForms
<1>2. /\ p.filter = "same" /\ p.item = "r.v"
      /\ p.below = "AND" \/ NullsExcluded(p)
  BY DEF InExistsAccepted, InExistsForms, InExistsUnseen, When
<1>3. \A i \in outer : ExistsKeys(p, r[i], s) = keys
  BY <1>2 DEF ExistsKeys
<1>4. /\ keys \in SUBSET Value
      /\ NullsExcluded(p) => keys = {} \/ (Null \notin keys /\ p.outer \in {"schema", "query"})
  BY <1>1, <1>2, InnerKeysFree DEF NullsExcluded
<1> HIDE DEF keys
<1>5. \A i \in outer : r[i].k \in Value
  BY TableRows
<1>6. p.outer \in {"schema", "query"} => \A i \in outer : r[i].k # Null
  <2>1. CASE p.outer = "schema"
    <3>1. Range(Column(r, "k")) = {r[i].k : i \in DOMAIN r}
      BY DEF Range, Column
    <3>2. QED BY <1>1, <2>1, <3>1
  <2>2. CASE p.outer = "query"
    BY <2>2 DEF PassesTest
  <2>3. QED BY <2>1, <2>2
<1>7. member = exists
  <2> SUFFICES ASSUME NEW i \in outer
               PROVE  Below(p.below, In(r[i].k, keys)) <=> Below(p.below, Exists(r[i].k, keys))
    BY <1>3
  <2>1. CASE p.below = "AND"
    BY <1>4, <1>5, <2>1, InMeansExists DEF Below
  <2>2. CASE NullsExcluded(p)
    <3>1. In(r[i].k, keys) = Exists(r[i].k, keys)
      BY <1>4, <1>5, <1>6, <2>2, InMeansExists
    <3>2. QED BY <3>1
  <2>3. QED BY <1>2, <2>1, <2>2
<1>8. InExistsRows(p, r, s) = <<Bag(Restrict(Column(r, "v"), member)), Bag(Restrict(Column(r, "v"), exists))>>
  BY <1>2 DEF InExistsRows, keys
<1> HIDE DEF member, exists
<1>9. QED BY <1>7, <1>8, PairParts DEF Agree

----------------------------------------------------------------------------
(* Bounds and recursion *)

\* Some value of a finite column bounds all the others.
LEMMA BoundExists ==
  ASSUME NEW n \in Nat, NEW xs \in [1 .. n -> Value], NEW agg, Range(xs) \ {Null} # {}
  PROVE  \E m \in Range(xs) \ {Null} : \A x \in Range(xs) \ {Null} : Bounds(agg, m, x)
<1> DEFINE upTo(k) == {xs[i] : i \in 1 .. k} \ {Null}
           bounded(k) == \E m \in upTo(k) : \A x \in upTo(k) : Bounds(agg, m, x)
           B == {k \in Nat : k <= n => upTo(k) = {} \/ bounded(k)}
<1>1. 0 \in B
  OBVIOUS
<1>2. ASSUME NEW k \in Nat, k < n, k \in B PROVE k + 1 \in B
  <2>1. upTo(k + 1) = upTo(k) \cup ({xs[k + 1]} \ {Null})
    <3>1. 1 .. k + 1 = (1 .. k) \cup {k + 1}
      OBVIOUS
    <3>2. QED BY <3>1
  <2>2. upTo(k) \subseteq Int /\ {xs[k + 1]} \ {Null} \subseteq Int
    BY <1>2 DEF Value
  <2>3. upTo(k) = {} \/ bounded(k)
    BY <1>2
  <2> DEFINE U == upTo(k)
             y == xs[k + 1]
  <2> HIDE DEF upTo, y
  <2>4. CASE y = Null
    BY <1>2, <2>1, <2>3, <2>4 DEF y
  <2>5. CASE y # Null /\ upTo(k) = {}
    <3>1. upTo(k + 1) = {y} /\ y \in Int
      BY <2>1, <2>2, <2>5 DEF y
    <3>2. Bounds(agg, y, y)
      BY <3>1 DEF Bounds
    <3>3. QED BY <1>2, <3>1, <3>2
  <2>6. CASE y # Null /\ bounded(k)
    <3>1. PICK m \in upTo(k) : \A x \in upTo(k) : Bounds(agg, m, x)
      BY <2>6
    <3>2. upTo(k + 1) = upTo(k) \cup {y} /\ y \in Int /\ m \in Int
      BY <2>1, <2>2, <2>6 DEF y
    <3>3. CASE Bounds(agg, m, y)
      <4>1. \A x \in upTo(k + 1) : Bounds(agg, m, x)
        BY <3>1, <3>2, <3>3
      <4>2. QED BY <1>2, <3>2, <4>1
    <3>4. CASE ~Bounds(agg, m, y)
      <4>1. \A x \in upTo(k + 1) : Bounds(agg, y, x)
        BY <2>2, <3>1, <3>2, <3>4 DEF Bounds
      <4>2. QED BY <1>2, <3>2, <4>1
    <3>5. QED BY <3>3, <3>4
  <2>7. QED BY <2>3, <2>4, <2>5, <2>6
<1>3. 0 .. n \subseteq B
  BY <1>1, <1>2, SetInductionTo
<1>4. upTo(n) = Range(xs) \ {Null}
  BY DEF Range
<1>5. upTo(n) = {} \/ bounded(n)
  <2>1. n \in 0 .. n
    OBVIOUS
  <2> HIDE DEF B
  <2>2. n \in B
    BY <1>3, <2>1
  <2> HIDE DEF bounded, upTo
  <2>3. QED BY <2>2 DEF B
<1> HIDE DEF upTo
<1>6. QED BY <1>4, <1>5

\* What is at least the greatest value is the greatest value; the same for the
\* least.
LEMMA ExtremeAgree ==
  ASSUME NEW p \in ExtremeForms, ExtremeAccepted(p), NEW r \in Seq(TableRow), NEW s \in Seq(TableRow)
  PROVE  Agree(ExtremeRows(p, r, s))
<1> DEFINE xs == Column(r, "k")
           bound == Extreme(p.agg, Column(Filtered(r, "v", p.filtered), "k"))
           kept(op) == {i \in DOMAIN r : Compared(op, r[i].k, bound) = 1}
<1>1. /\ p.filtered = FALSE /\ p.agg \in {"MAX", "MIN"}
      /\ p.op \in {"EQ", IF p.agg = "MAX" THEN "GTE" ELSE "LTE"}
  BY DEF ExtremeForms, ExtremeAccepted
<1>2. ExtremeRows(p, r, s) = <<Bag(Restrict(xs, kept(p.op))), Bag(Restrict(xs, kept("EQ")))>>
  BY DEF ExtremeRows
<1>3. bound = Extreme(p.agg, xs)
  <2> DEFINE list == Filtered(r, "v", p.filtered)
  <2>1. DOMAIN list = DOMAIN r /\ \A i \in DOMAIN r : list[i] = r[i]
    BY <1>1 DEF Filtered, Restrict
  <2> HIDE DEF list
  <2>2. Column(list, "k") = xs
    BY <2>1 DEF Column
  <2>3. QED BY <2>2 DEF list
<1>4. /\ DOMAIN r = 1 .. Len(r) /\ Len(r) \in Nat
      /\ xs \in [1 .. Len(r) -> Value] /\ \A i \in DOMAIN r : xs[i] = r[i].k
  BY TableRows DEF Column
<1> HIDE DEF bound, xs
<1>5. \A i \in DOMAIN r : r[i].k \in Value /\ r[i].k \in Range(xs)
  BY <1>4 DEF Range
<1>6. CASE Range(xs) \ {Null} = {}
  <2>1. bound = Null
    BY <1>3, <1>6 DEF Extreme
  <2>2. kept(p.op) = {} /\ kept("EQ") = {}
    BY <2>1, NullAssumption DEF Compared
  <2>3. QED BY <1>2, <2>2, PairParts DEF Agree
<1>7. CASE Range(xs) \ {Null} # {}
  <2>1. /\ bound \in Range(xs) \ {Null}
        /\ \A x \in Range(xs) \ {Null} : Bounds(p.agg, bound, x)
    BY <1>3, <1>4, <1>7, BoundExists DEF Extreme
  <2>2. bound \in Int
    BY <1>4, <2>1 DEF Range, Value
  <2>3. ASSUME NEW i \in DOMAIN r
        PROVE  Compared(p.op, r[i].k, bound) = 1 <=> Compared("EQ", r[i].k, bound) = 1
    <3>1. CASE r[i].k = Null
      BY <3>1, NullAssumption DEF Compared
    <3>2. CASE r[i].k # Null
      <4>1. r[i].k \in Int /\ Bounds(p.agg, bound, r[i].k)
        BY <1>5, <2>1, <3>2 DEF Value
      <4>2. \A op \in Comparisons : Compared(op, r[i].k, bound) = 1 <=> Holds(op, r[i].k, bound)
        BY <2>2, <3>2, <4>1, NullAssumption DEF Compared, Bool
      <4>3. p.op \in Comparisons /\ "EQ" \in Comparisons
        BY <1>1 DEF Comparisons
      <4>4. Holds(p.op, r[i].k, bound) <=> r[i].k = bound
        <5>1. CASE p.op = "EQ"
          BY <5>1 DEF Holds
        <5>2. CASE p.op = "GTE" /\ p.agg = "MAX"
          BY <2>2, <4>1, <5>2 DEF Holds, Bounds
        <5>3. CASE p.op = "LTE" /\ p.agg # "MAX"
          BY <2>2, <4>1, <5>3 DEF Holds, Bounds
        <5>4. QED BY <1>1, <5>1, <5>2, <5>3
      <4>5. QED BY <4>2, <4>3, <4>4 DEF Holds
    <3>3. QED BY <3>1, <3>2
  <2>4. kept(p.op) = kept("EQ")
    BY <2>3
  <2>5. QED BY <1>2, <2>4, PairParts DEF Agree
<1>8. QED BY <1>6, <1>7

\* A recursion that only counts upwards, or only downwards, gives no row twice.
LEMMA RecursiveAgree ==
  ASSUME NEW p \in RecursiveForms, RecursiveAccepted(p), NEW r \in Seq(TableRow), NEW s \in Seq(TableRow)
  PROVE  Agree(RecursiveRows(p, r, s))
<1> DEFINE rows == Recursion(p)
           D == DOMAIN rows
<1>1. p.step \in {-1, 1}
  BY DEF RecursiveForms, RecursiveAccepted
<1>2. D \subseteq 0 .. Fuel /\ \A n \in D : rows[n] = Step(p, n)
  BY DEF Recursion
<1>3. D \subseteq Int
  BY <1>2
<1> HIDE DEF rows, D
<1>4. \A m, n \in Int : Step(p, m) = Step(p, n) => m = n
  BY <1>1 DEF Step
<1>5. ASSUME NEW x \in Range(rows) PROVE Cardinality({n \in D : rows[n] = x}) = 1
  <2>1. PICK m \in D : x = rows[m]
    BY DEF Range, D
  <2>2. {n \in D : rows[n] = x} = {m}
    BY <1>2, <1>3, <1>4, <2>1
  <2>3. QED BY <2>2, FS_Singleton
<1>6. Bag(rows) = SetToBag(Range(rows))
  BY <1>5 DEF Bag, SetToBag, D
<1>7. RecursiveRows(p, r, s) = <<Bag(rows), SetToBag(Range(rows))>>
  BY DEF RecursiveRows, Shown, rows
<1>8. QED BY <1>6, <1>7, PairParts DEF Agree

----------------------------------------------------------------------------
(* Set branches *)

\* The bag of a column.
LEMMA ColumnBag ==
  ASSUME NEW rows, IsFiniteSet(DOMAIN rows), NEW c
  PROVE  Bag(Column(rows, c)) \in [Range(Column(rows, c)) -> Nat]
<1> DEFINE f == Column(rows, c)
<1>1. DOMAIN f = DOMAIN rows
  BY DEF Column
<1> HIDE DEF f
<1>2. \A x : Cardinality({i \in DOMAIN f : f[i] = x}) \in Nat
  BY <1>1, FS_Subset, FS_CardinalityType
<1>3. Bag(f) \in [Range(f) -> Nat]
  BY <1>2 DEF Bag
<1>4. QED BY <1>3 DEF f

\* The order of the branches does not matter to UNION [ALL] and INTERSECT.
LEMMA SetAgree ==
  ASSUME NEW p \in SetForms, SetAccepted(p), NEW r \in Seq(TableRow), NEW s \in Seq(TableRow)
  PROVE  Agree(SetRows(p, r, s))
<1> DEFINE a == Bag(Column(r, "k"))
           b == Bag(Column(s, "k"))
           c == Bag(Column(r, "v"))
<1>1. p.op2 = p.op /\ p.op \in {"UNION", "UNION ALL", "INTERSECT"}
  BY DEF SetForms, SetAccepted
<1>2. /\ a \in [DOMAIN a -> Nat] /\ b \in [DOMAIN b -> Nat] /\ c \in [DOMAIN c -> Nat]
  BY ColumnBag, TableRows
<1>3. SetRows(p, r, s) = <<Combined(p.op, Combined(p.op, a, b), c), Combined(p.op, Combined(p.op, c, a), b)>>
  BY <1>1 DEF SetRows
<1> HIDE DEF a, b, c
<1>4. Combined(p.op, Combined(p.op, a, b), c) = Combined(p.op, Combined(p.op, c, a), b)
  <2>1. CASE p.op = "UNION ALL"
    <3>1. (a (+) b) (+) c = (c (+) a) (+) b
      BY <1>2 DEF (+)
    <3>2. QED BY <2>1, <3>1 DEF Combined
  <2>2. CASE p.op = "UNION"
    BY <2>2 DEF Combined, SetToBag, BagToSet
  <2>3. CASE p.op = "INTERSECT"
    BY <2>3 DEF Combined, SetToBag, BagToSet
  <2>4. QED BY <1>1, <2>1, <2>2, <2>3
<1>5. QED BY <1>3, <1>4, PairParts DEF Agree

----------------------------------------------------------------------------
(* Inlined tables, scalars, order, columns *)

\* A common table expression of whole columns, or of one count, is what it
\* stands for.
LEMMA InlineAgree ==
  ASSUME NEW p \in InlineForms, InlineAccepted(p), InlineUnseen(p) = {},
         NEW r \in Seq(TableRow), NEW s \in Seq(TableRow)
  PROVE  Agree(InlineRows(p, r, s))
<1> DEFINE body == Filtered(r, "k", TRUE)
           inner == Tabled(body, p.item, 1)
           flat == IF p.inline = "v" THEN Column(body, "v") ELSE Column(Tabled(body, p.item, -1), "n")
<1>1. /\ p.filter = "same" /\ p.clause = "none" /\ p.inline = p.outer
      /\ \/ p.outer = "v" /\ p.item # "COUNT"
         \/ p.outer = "n" /\ p.item # "computed"
  BY DEF InlineForms, InlineAccepted, InlineUnseen, ClauseUnseen, When
<1>2. /\ InlineBody(r, s, IF p.filter = "other" THEN "same" ELSE p.filter, "keys") = body
      /\ InlineBody(r, s, p.filter, "one side") = body
  BY <1>1 DEF InlineBody
<1> HIDE DEF body
<1>3. InlineRows(p, r, s) = <<Around(p.clause, Column(inner, p.outer), p.distinct, s), Shown(flat, p.distinct)>>
  BY <1>2 DEF InlineRows
<1>4. Column(inner, p.outer) = flat
  <2>1. CASE p.outer = "v" /\ p.item # "COUNT"
    <3>1. inner = [i \in DOMAIN body |-> [v |-> body[i].v,
                     n |-> IF p.item = "column" THEN body[i].k ELSE Added(body[i].v, body[i].k, 1)]]
      BY <2>1 DEF Tabled
    <3> HIDE DEF inner
    <3>2. Column(inner, "v") = [i \in DOMAIN body |-> body[i].v]
      BY <3>1 DEF Column
    <3>3. flat = [i \in DOMAIN body |-> body[i].v]
      BY <1>1, <2>1 DEF Column
    <3>4. QED BY <2>1, <3>2, <3>3
  <2>2. CASE p.outer = "n" /\ p.item # "computed"
    <3>1. flat = Column(Tabled(body, p.item, -1), "n")
      BY <1>1, <2>2
    <3>2. Tabled(body, p.item, -1) = inner
      <4>1. p.item \in {"column", "COUNT"}
        BY <2>2 DEF InlineForms
      <4>2. CASE p.item = "COUNT"
        BY <4>2 DEF Tabled
      <4>3. CASE p.item = "column"
        BY <4>3 DEF Tabled
      <4>4. QED BY <4>1, <4>2, <4>3
    <3> HIDE DEF inner, flat
    <3>3. QED BY <2>2, <3>1, <3>2
  <2>3. QED BY <1>1, <2>1, <2>2
<1> HIDE DEF inner, flat
<1>5. InlineRows(p, r, s) = <<Shown(flat, p.distinct), Shown(flat, p.distinct)>>
  BY <1>1, <1>3, <1>4 DEF Around
<1>6. QED BY <1>5, PairParts DEF Agree

\* One aggregate row joined to every row is the aggregate as a scalar.
LEMMA ScalarAgree ==
  ASSUME NEW p \in ScalarForms, ScalarAccepted(p), NEW r \in Seq(TableRow), NEW s \in Seq(TableRow)
  PROVE  Agree(ScalarRows(p, r, s))
<1> DEFINE value == Aggregate(p.agg, Column(s, "v"))
           joined == {i \in DOMAIN r : p.join = "CROSS" \/ Same(value, r[i].v)}
<1>1. ScalarRows(p, r, s) = <<Bag([i \in joined |-> <<r[i].k, value>>]), Bag([i \in DOMAIN r |-> <<r[i].k, value>>])>>
  BY DEF ScalarRows
<1>2. joined = DOMAIN r
  BY DEF ScalarAccepted
<1> HIDE DEF joined, value
<1>3. QED BY <1>1, <1>2, PairParts DEF Agree

\* A scalar over no rows is NULL, unless it counts them.
LEMMA EmptyAgree ==
  ASSUME NEW p \in EmptyForms, EmptyAccepted(p), EmptyUnseen(p) = {}, NEW r \in Seq(TableRow), NEW s \in Seq(TableRow)
  PROVE  Agree(EmptyRows(p, r, s))
<1>1. p.literals # "equal" /\ p.item # "COUNT"
  BY DEF EmptyAccepted, EmptyUnseen, When
<1>2. EmptyRows(p, r, s) = <<IF p.item = "v" THEN Null ELSE Aggregate(p.item, <<>>), Null>>
  BY <1>1 DEF EmptyRows
<1>3. Aggregate(p.item, <<>>) = Null
  BY <1>1 DEF Aggregate, Extreme, Range
<1>4. QED BY <1>2, <1>3, PairParts DEF Agree

\* The name or the position that orders stands for the same column.
LEMMA OrderAgree ==
  ASSUME NEW p \in OrderForms, OrderAccepted(p), OrderUnseen(p) = {},
         NEW r \in Seq(TableRow), NEW s \in Seq(TableRow)
  PROVE  Agree(OrderRows(p, r, s))
<1> DEFINE first == Resolved(p.alias, p.by)
           second == Resolved(IF p.rule = "alias" THEN "none" ELSE p.alias, p.to)
<1>1. OrderRows(p, r, s) = <<OrderBy(r, first), OrderBy(r, second)>>
  BY DEF OrderRows
<1>2. /\ p.rule \in {"order_reference", "alias"} /\ p.alias \in {"none", "k", "z"} /\ p.catalogue \in BOOLEAN
      /\ p.by \in {"1", "2", "k", "v", "z"} /\ p.to \in {"1", "2", "k", "v", "z"}
  BY DEF OrderForms
<1>3. first = second
  <2>1. CASE p.rule = "alias"
    BY <1>2, <2>1 DEF OrderAccepted, Resolved
  <2>2. CASE p.rule = "order_reference"
    <3>1. p.alias # "k" \/ p.catalogue = FALSE \/ "k" \notin {p.by, p.to}
      BY <1>2, <2>2 DEF OrderUnseen, When
    <3>2. \A by \in {p.by, p.to} : Substituted(p, by) = Resolved(p.alias, by)
      BY <1>2, <3>1 DEF Substituted, Resolved
    <3>3. Substituted(p, p.by) = Substituted(p, p.to)
      BY <2>2 DEF OrderAccepted
    <3>4. second = Resolved(p.alias, p.to)
      BY <2>2
    <3>5. QED BY <3>2, <3>3, <3>4
  <2>3. QED BY <1>2, <2>1, <2>2
<1> HIDE DEF first, second
<1>4. QED BY <1>1, <1>3, PairParts DEF Agree

\* The star is all columns in their order.
LEMMA StarAgree ==
  ASSUME NEW p \in StarForms, StarAccepted(p), StarUnseen(p) = {}, NEW r \in Seq(TableRow), NEW s \in Seq(TableRow)
  PROVE  Agree(StarRows(p, r, s))
<1>1. p.columns = <<"k", "v">> /\ p.filter = "same"
  BY DEF StarForms, StarAccepted, StarUnseen, When
<1>2. \A i \in DOMAIN r : [c \in DOMAIN p.columns |-> r[i][p.columns[c]]] = <<r[i].k, r[i].v>>
  BY <1>1
<1>3. [i \in DOMAIN r |-> [c \in DOMAIN p.columns |-> r[i][p.columns[c]]]] = [i \in DOMAIN r |-> <<r[i].k, r[i].v>>]
  BY <1>2
<1>4. StarRows(p, r, s) =
        <<Bag([i \in DOMAIN r |-> <<r[i].k, r[i].v>>]),
          Bag([i \in DOMAIN r |-> [c \in DOMAIN p.columns |-> r[i][p.columns[c]]]])>>
  BY <1>1 DEF StarRows
<1>5. QED BY <1>3, <1>4, PairParts DEF Agree

----------------------------------------------------------------------------
(* The screen *)

\* What a recogniser accepts, and what differs in nothing else than it looks at,
\* shows the same on all tables that the schema of the form admits.
LEMMA FormAgree ==
  ASSUME NEW p \in Forms, FormAccepted(p), Unseen(p) = {},
         NEW r \in Seq(TableRow), NEW s \in Seq(TableRow), Admissible(p, r, s)
  PROVE  Agree(FormRows(p, r, s))
<1>1. CASE p \in UsingForms
  <2>1. p.rule = "using_on"
    BY <1>1 DEF UsingForms
  <2>2. UsingAccepted(p) /\ FormRows(p, r, s) = UsingRows(p, r, s) /\ UsingUnseen(p) = {}
    BY <2>1 DEF FormAccepted, FormRows, Unseen
  <2>3. QED BY <1>1, <2>2, UsingAgree
<1>2. CASE p \in ExtremeForms
  <2>1. p.rule = "extreme"
    BY <1>2 DEF ExtremeForms
  <2>2. ExtremeAccepted(p) /\ FormRows(p, r, s) = ExtremeRows(p, r, s)
    BY <2>1 DEF FormAccepted, FormRows
  <2>3. QED BY <1>2, <2>2, ExtremeAgree
<1>3. CASE p \in RecursiveForms
  <2>1. p.rule = "monotone"
    BY <1>3 DEF RecursiveForms
  <2>2. RecursiveAccepted(p) /\ FormRows(p, r, s) = RecursiveRows(p, r, s)
    BY <2>1 DEF FormAccepted, FormRows
  <2>3. QED BY <1>3, <2>2, RecursiveAgree
<1>4. CASE p \in SetForms
  <2>1. p.rule = "branches"
    BY <1>4 DEF SetForms
  <2>2. SetAccepted(p) /\ FormRows(p, r, s) = SetRows(p, r, s)
    BY <2>1 DEF FormAccepted, FormRows
  <2>3. QED BY <1>4, <2>2, SetAgree
<1>5. CASE p \in InlineForms
  <2>1. p.rule = "inline"
    BY <1>5 DEF InlineForms
  <2>2. InlineAccepted(p) /\ FormRows(p, r, s) = InlineRows(p, r, s) /\ InlineUnseen(p) = {}
    BY <2>1 DEF FormAccepted, FormRows, Unseen
  <2>3. QED BY <1>5, <2>2, InlineAgree
<1>6. CASE p \in ScalarForms
  <2>1. p.rule = "scalar_cte"
    BY <1>6 DEF ScalarForms
  <2>2. ScalarAccepted(p) /\ FormRows(p, r, s) = ScalarRows(p, r, s)
    BY <2>1 DEF FormAccepted, FormRows
  <2>3. QED BY <1>6, <2>2, ScalarAgree
<1>7. CASE p \in EmptyForms
  <2>1. p.rule = "empty_scalar"
    BY <1>7 DEF EmptyForms
  <2>2. EmptyAccepted(p) /\ FormRows(p, r, s) = EmptyRows(p, r, s) /\ EmptyUnseen(p) = {}
    BY <2>1 DEF FormAccepted, FormRows, Unseen
  <2>3. QED BY <1>7, <2>2, EmptyAgree
<1>8. CASE p \in InJoinForms
  <2>1. p.rule = "in_join"
    BY <1>8 DEF InJoinForms
  <2>2. InJoinAccepted(p) /\ FormRows(p, r, s) = InJoinRows(p, r, s) /\ InJoinUnseen(p) = {}
    BY <2>1 DEF FormAccepted, FormRows, Unseen
  <2>3. QED BY <1>8, <2>2, InJoinAgree
<1>9. CASE p \in AntiForms
  <2>1. p.rule = "antijoin"
    BY <1>9 DEF AntiForms
  <2>2. AntiAccepted(p) /\ FormRows(p, r, s) = AntiRows(p, r, s) /\ AntiUnseen(p) = {}
    BY <2>1 DEF FormAccepted, FormRows, Unseen
  <2>3. QED BY <1>9, <2>2, AntiAgree
<1>10. CASE p \in InExistsForms
  <2>1. p.rule = "in_exists"
    BY <1>10 DEF InExistsForms
  <2>2. InExistsAccepted(p) /\ FormRows(p, r, s) = InExistsRows(p, r, s) /\ InExistsUnseen(p) = {}
    BY <2>1 DEF FormAccepted, FormRows, Unseen
  <2>3. QED BY <1>10, <2>2, InExistsAgree
<1>11. CASE p \in StarForms
  <2>1. p.rule = "star"
    BY <1>11 DEF StarForms
  <2>2. StarAccepted(p) /\ FormRows(p, r, s) = StarRows(p, r, s) /\ StarUnseen(p) = {}
    BY <2>1 DEF FormAccepted, FormRows, Unseen
  <2>3. QED BY <1>11, <2>2, StarAgree
<1>12. CASE p \in OrderForms
  <2>1. p.rule \in {"order_reference", "alias"}
    BY <1>12 DEF OrderForms
  <2>2. OrderAccepted(p) /\ FormRows(p, r, s) = OrderRows(p, r, s) /\ OrderUnseen(p) = {}
    BY <2>1 DEF FormAccepted, FormRows, Unseen
  <2>3. QED BY <1>12, <2>2, OrderAgree
<1>13. QED BY <1>1, <1>2, <1>3, <1>4, <1>5, <1>6, <1>7, <1>8, <1>9, <1>10, <1>11, <1>12 DEF Forms

\* A form on the screen was given to it, and a recogniser that called it
\* equivalent accepts it.
ScreenInv ==
  form # NoForm =>
    /\ form \in SomeForms
    /\ standard = NoQuery
    /\ rewrites # {} => FormAccepted(form)

\* A pair of queries that the screen lets pass for its form shows the same on all
\* tables of any length: extract_ast_diffs may drop all differences between them.
THEOREM FormsAgree == Spec => []FormRewritesAgree
<1>1. Init => ScreenInv
  BY DEF Init, ScreenInv
<1>2. ScreenInv /\ [Next]_vars => ScreenInv'
  <2> SUFFICES ASSUME ScreenInv, [Next]_vars PROVE ScreenInv'
    OBVIOUS
  <2>1. CASE ScreenRows
    BY <2>1 DEF ScreenRows, ScreenInv
  <2>2. CASE ScreenForm
    BY <2>2 DEF ScreenForm, ScreenInv
  <2>3. CASE UNCHANGED vars
    BY <2>3 DEF vars, ScreenInv
  <2>4. QED BY <2>1, <2>2, <2>3 DEF Next
<1>3. ScreenInv => FormRewritesAgree
  <2> SUFFICES ASSUME ScreenInv, rewrites # {}, form # NoForm, Unseen(form) = {},
                      NEW t \in Tables, Admissible(form, t[1], t[2])
               PROVE  AgreeOnTables(t)
    BY DEF FormRewritesAgree, Screened, Covered
  <2>1. form \in Forms /\ FormAccepted(form)
    BY TablesAssumption DEF ScreenInv
  <2>2. t \in Seq(TableRow) \X Seq(TableRow)
    BY TablesAssumption
  <2>3. t[1] \in Seq(TableRow) /\ t[2] \in Seq(TableRow)
    BY <2>2, PairOf
  <2>4. Agree(FormRows(form, t[1], t[2]))
    BY <2>1, <2>3, FormAgree
  <2>5. QED BY <2>4 DEF Agree, AgreeOnTables
<1>4. QED BY <1>1, <1>2, <1>3, PTL DEF Spec

----------------------------------------------------------------------------
\* The rewrites of expressions, node by node.

\* E is a set of expressions that holds the operands of its own.
Expressions(E) ==
  \A e \in E :
    \/ e[1] = "lit" /\ e = Lit(e[2]) /\ e[2] \in Value
    \/ e[1] = "col" /\ e = Col(e[2])
    \/ e[1] \in {"not", "istrue"} /\ e = <<e[1], e[2]>> /\ e[2] \in E
    \/ /\ e[1] \in Comparisons \cup {"and", "or", "is", "isnt", "nullif", "coalesce"}
       /\ e = <<e[1], e[2], e[3]>> /\ {e[2], e[3]} \subseteq E
    \/ e[1] = "between" /\ e = <<e[1], e[2], e[3], e[4]>> /\ {e[2], e[3], e[4]} \subseteq E
    \/ e[1] = "in" /\ Len(e) \in Nat /\ Len(e) >= 3 /\ \A i \in 2 .. Len(e) : e[i] \in E
    \/ /\ e[1] = "case" /\ e = <<e[1], e[2], e[3], e[4], e[5]>>
       /\ e[2] # None => e[2] \in E
       /\ {e[3], e[4], e[5]} \subseteq E

\* V gives every expression of E the value that SQLite computes on the row.
Valuation(E, V, row) ==
  /\ Expressions(E)
  /\ V \in [E -> Value]
  /\ \A e \in E :
       V[e] = IF e[1] = "lit" THEN e[2]
              ELSE IF e[1] = "col" THEN row[e[2]]
              ELSE NodeValue(e, V)

LEMMA LeafValues ==
  ASSUME NEW E, NEW V, NEW row, Valuation(E, V, row), NEW e \in E
  PROVE  /\ V[e] \in Value
         /\ e[1] = "lit" => e = Lit(e[2]) /\ V[e] = e[2]
         /\ e[1] = "col" => V[e] = row[e[2]]
         /\ e[1] # "none"
BY DEF Valuation, Expressions, Comparisons

LEMMA UnaryValues ==
  ASSUME NEW E, NEW V, NEW row, Valuation(E, V, row), NEW e \in E, e[1] \in {"not", "istrue"}
  PROVE  /\ e[2] \in E
         /\ e[1] = "not" => V[e] = SqlNot(V[e[2]])
         /\ e[1] = "istrue" => V[e] = Bool(IsTrue(V[e[2]]))
<1>1. e[2] \in E
  BY DEF Valuation, Expressions, Comparisons
<1>2. V[e] = NodeValue(e, V)
  BY DEF Valuation
<1>3. QED BY <1>1, <1>2 DEF NodeValue, IsComparison, Comparisons

LEMMA BinaryValues ==
  ASSUME NEW E, NEW V, NEW row, Valuation(E, V, row), NEW e \in E,
         e[1] \in Comparisons \cup {"and", "or", "is", "isnt", "nullif", "coalesce"}
  PROVE  /\ e[2] \in E /\ e[3] \in E
         /\ e[1] \in Comparisons => V[e] = Compared(e[1], V[e[2]], V[e[3]])
         /\ e[1] = "and" => V[e] = SqlAnd(V[e[2]], V[e[3]])
         /\ e[1] = "or" => V[e] = SqlOr(V[e[2]], V[e[3]])
         /\ e[1] = "is" => V[e] = Bool(V[e[2]] = V[e[3]])
         /\ e[1] = "isnt" => V[e] = Bool(V[e[2]] # V[e[3]])
         /\ e[1] = "nullif" => V[e] = IF Compared("EQ", V[e[2]], V[e[3]]) = 1 THEN Null ELSE V[e[2]]
         /\ e[1] = "coalesce" => V[e] = IF V[e[2]] = Null THEN V[e[3]] ELSE V[e[2]]
<1>1. e[2] \in E /\ e[3] \in E
  BY DEF Valuation, Expressions, Comparisons
<1>2. V[e] = NodeValue(e, V)
  BY DEF Valuation, Comparisons
<1>3. QED BY <1>1, <1>2 DEF NodeValue, IsComparison, Comparisons

LEMMA RangeValue ==
  ASSUME NEW E, NEW V, NEW row, Valuation(E, V, row), NEW e \in E, e[1] = "between"
  PROVE  /\ e[2] \in E /\ e[3] \in E /\ e[4] \in E
         /\ V[e] = SqlAnd(Compared("GTE", V[e[2]], V[e[3]]), Compared("LTE", V[e[2]], V[e[4]]))
<1>1. e[2] \in E /\ e[3] \in E /\ e[4] \in E
  BY DEF Valuation, Expressions, Comparisons
<1>2. V[e] = NodeValue(e, V)
  BY DEF Valuation
<1>3. QED BY <1>1, <1>2 DEF NodeValue, IsComparison, Comparisons

\* The values of the items of a list.
ItemValues(e, V) == {V[e[i]] : i \in 3 .. Len(e)}

LEMMA ListValue ==
  ASSUME NEW E, NEW V, NEW row, Valuation(E, V, row), NEW e \in E, e[1] = "in"
  PROVE  /\ Len(e) \in Nat /\ Len(e) >= 3 /\ \A i \in 2 .. Len(e) : e[i] \in E
         /\ V[e] = SqlIn(V[e[2]], ItemValues(e, V))
<1>1. Len(e) \in Nat /\ Len(e) >= 3 /\ \A i \in 2 .. Len(e) : e[i] \in E
  BY DEF Valuation, Expressions, Comparisons
<1>2. V[e] = NodeValue(e, V)
  BY DEF Valuation
<1>3. V[e] = SqlIn(V[e[2]], ItemValues(e, V))
  BY <1>2 DEF NodeValue, IsComparison, Comparisons, ItemValues
<1>4. QED BY <1>1, <1>3

LEMMA CaseValue ==
  ASSUME NEW E, NEW V, NEW row, Valuation(E, V, row), NEW e \in E, e[1] = "case"
  PROVE  /\ e[2] # None => e[2] \in E
         /\ e[3] \in E /\ e[4] \in E /\ e[5] \in E
         /\ e[2] = None => V[e] = IF IsTrue(V[e[3]]) THEN V[e[4]] ELSE V[e[5]]
         /\ e[2] # None =>
              V[e] = IF Compared("EQ", V[e[2]], V[e[3]]) = 1 THEN V[e[4]] ELSE V[e[5]]
<1>1. (e[2] # None => e[2] \in E) /\ e[3] \in E /\ e[4] \in E /\ e[5] \in E
  BY DEF Valuation, Expressions, Comparisons
<1>2. V[e] = NodeValue(e, V)
  BY DEF Valuation
<1>3. QED BY <1>1, <1>2 DEF NodeValue, IsComparison, Comparisons

LEMMA AndOrTruth ==
  ASSUME NEW l, NEW r
  PROVE  /\ IsTrue(SqlAnd(l, r)) <=> IsTrue(l) /\ IsTrue(r)
         /\ IsTrue(SqlOr(l, r)) <=> IsTrue(l) \/ IsTrue(r)
BY NullAssumption DEF SqlAnd, SqlOr, IsTrue

LEMMA ComparedMirrored ==
  ASSUME NEW op \in Comparisons, NEW l \in Value, NEW r \in Value
  PROVE  Mirrored(op) \in Comparisons /\ Compared(Mirrored(op), r, l) = Compared(op, l, r)
<1>1. Mirrored(op) \in Comparisons
  BY DEF Comparisons, Mirrored
<1>2. CASE Null \in {l, r}
  BY <1>1, <1>2 DEF Compared
<1>3. CASE l \in Int /\ r \in Int
  BY <1>3, NullAssumption DEF Comparisons, Mirrored, Compared, Holds, Bool
<1>4. QED BY <1>1, <1>2, <1>3 DEF Value

\* A comparison is TRUE only of two values.
LEMMA EqualTruth ==
  ASSUME NEW l \in Value, NEW r \in Value
  PROVE  /\ Compared("EQ", l, r) = Compared("EQ", r, l)
         /\ Compared("EQ", l, r) = 1 <=> l = r /\ l # Null
         /\ IsTrue(Compared("EQ", l, r)) <=> Compared("EQ", l, r) = 1
BY NullAssumption DEF Compared, Holds, Bool, IsTrue, Value

LEMMA CaseReplaced ==
  ASSUME NEW E, NEW V, NEW row, Valuation(E, V, row), NEW e \in E, e[1] = "case",
         CaseReplacement(e) \in E
  PROVE  V[CaseReplacement(e)] = V[e]
<1> DEFINE when == e[3]
           then == e[4]
           default == e[5]
<1>1. CASE CaseReplacement(e) = e
  BY <1>1
<1>2. ASSUME CaseReplacement(e) # e
      PROVE  /\ e[2] = None
             /\ \/ /\ when[1] = "EQ" /\ then = Lit(Null)
                   /\ \/ when[2] = default /\ CaseReplacement(e) = <<"nullif", default, when[3]>>
                      \/ when[3] = default /\ CaseReplacement(e) = <<"nullif", default, when[2]>>
                \/ /\ when[1] = "is" /\ when[3] = Lit(Null) /\ when[2] = default
                   /\ CaseReplacement(e) = <<"coalesce", default, then>>
  BY <1>2 DEF CaseReplacement
<1>3. /\ when \in E /\ then \in E /\ default \in E
      /\ e[2] = None => V[e] = IF IsTrue(V[when]) THEN V[then] ELSE V[default]
  BY CaseValue
<1>4. V[when] \in Value /\ V[then] \in Value /\ V[default] \in Value
  BY <1>3, LeafValues
<1> HIDE DEF when, then, default
\* CASE WHEN a = b THEN NULL ELSE a END
<1>5. ASSUME NEW other, e[2] = None, when[1] = "EQ", then = Lit(Null),
             CaseReplacement(e) = <<"nullif", default, other>>,
             other \in E, V[when] = Compared("EQ", V[default], V[other])
      PROVE  V[CaseReplacement(e)] = V[e]
  <2>1. V[then] = Null
    <3>1. then[1] = "lit" /\ then[2] = Null
      BY <1>5 DEF Lit
    <3>2. QED BY <1>3, <3>1, LeafValues
  <2>2. V[other] \in Value
    BY <1>5, LeafValues
  <2>3. V[CaseReplacement(e)] = IF Compared("EQ", V[default], V[other]) = 1 THEN Null ELSE V[default]
    <3>1. <<"nullif", default, other>> \in E
      BY <1>5
    <3>2. QED BY <1>5, <3>1, BinaryValues
  <2>4. QED BY <1>3, <1>4, <1>5, <2>1, <2>2, <2>3, EqualTruth
<1>6. ASSUME when[1] = "EQ"
      PROVE  when[2] \in E /\ when[3] \in E /\ V[when] = Compared("EQ", V[when[2]], V[when[3]])
  BY <1>3, <1>6, BinaryValues DEF Comparisons
<1>7. ASSUME e[2] = None, when[1] = "EQ", then = Lit(Null), when[2] = default,
             CaseReplacement(e) = <<"nullif", default, when[3]>>
      PROVE  V[CaseReplacement(e)] = V[e]
  BY <1>5, <1>6, <1>7
<1>8. ASSUME e[2] = None, when[1] = "EQ", then = Lit(Null), when[3] = default,
             CaseReplacement(e) = <<"nullif", default, when[2]>>
      PROVE  V[CaseReplacement(e)] = V[e]
  <2>1. V[when] = Compared("EQ", V[default], V[when[2]])
    BY <1>4, <1>6, <1>8, EqualTruth, LeafValues
  <2>2. QED BY <1>5, <1>6, <1>8, <2>1
\* CASE WHEN a IS NULL THEN b ELSE a END
<1>9. ASSUME e[2] = None, when[1] = "is", when[3] = Lit(Null), when[2] = default,
             CaseReplacement(e) = <<"coalesce", default, then>>
      PROVE  V[CaseReplacement(e)] = V[e]
  <2>1. when[3] \in E /\ V[when] = Bool(V[default] = V[when[3]])
    BY <1>3, <1>9, BinaryValues
  <2>2. V[when[3]] = Null
    <3>1. when[3][1] = "lit" /\ when[3][2] = Null
      BY <1>9 DEF Lit
    <3>2. QED BY <2>1, <3>1, LeafValues
  <2>3. IsTrue(V[when]) <=> V[default] = Null
    BY <2>1, <2>2, NullAssumption DEF Bool, IsTrue
  <2>4. V[CaseReplacement(e)] = IF V[default] = Null THEN V[then] ELSE V[default]
    <3>1. <<"coalesce", default, then>> \in E
      BY <1>9
    <3>2. QED BY <1>9, <3>1, BinaryValues
  <2>5. QED BY <1>3, <1>9, <2>3, <2>4
<1>10. QED BY <1>1, <1>2, <1>7, <1>8, <1>9

LEMMA SearchedReplaced ==
  ASSUME NEW E, NEW V, NEW row, Valuation(E, V, row), NEW e \in E, e[1] = "case",
         SearchedCase(e) \in E
  PROVE  V[SearchedCase(e)] = V[e]
<1>1. CASE SearchedCase(e) = e
  BY <1>1
<1>2. CASE SearchedCase(e) # e
  <2> DEFINE test == <<"EQ", e[2], e[3]>>
             new == <<"case", None, test, e[4], e[5]>>
  <2>1. SearchedCase(e) = new /\ e[2][1] = "col"
    BY <1>2 DEF SearchedCase
  <2>2. e[2] # None
    BY <2>1 DEF None
  <2>3. /\ e[2] \in E /\ e[3] \in E
        /\ V[e] = IF Compared("EQ", V[e[2]], V[e[3]]) = 1 THEN V[e[4]] ELSE V[e[5]]
    BY <2>2, CaseValue
  <2>4. new \in E /\ new[1] = "case" /\ new[2] = None /\ new[3] = test /\ new[4] = e[4] /\ new[5] = e[5]
    BY <2>1
  <2>5. test[1] = "EQ" /\ test[2] = e[2] /\ test[3] = e[3]
    OBVIOUS
  <2> HIDE DEF new, test
  <2>6. test \in E /\ V[new] = IF IsTrue(V[test]) THEN V[e[4]] ELSE V[e[5]]
    BY <2>4, CaseValue
  <2>7. V[test] = Compared("EQ", V[e[2]], V[e[3]])
    BY <2>5, <2>6, BinaryValues DEF Comparisons
  <2>8. QED BY <2>1, <2>3, <2>6, <2>7, EqualTruth, LeafValues
<1>3. QED BY <1>1, <1>2

LEMMA SingletonReplaced ==
  ASSUME NEW E, NEW V, NEW row, Valuation(E, V, row), NEW e \in E, e[1] = "in", Len(e) = 3,
         <<"EQ", e[2], e[3]>> \in E
  PROVE  V[<<"EQ", e[2], e[3]>>] = V[e]
<1>1. /\ e[2] \in E /\ e[3] \in E
      /\ V[e] = SqlIn(V[e[2]], ItemValues(e, V))
  <2>1. /\ \A i \in 2 .. 3 : e[i] \in E
        /\ V[e] = SqlIn(V[e[2]], ItemValues(e, V))
    BY ListValue
  <2>2. QED BY <2>1
<1>2. ItemValues(e, V) = {V[e[3]]}
  BY DEF ItemValues
<1>3. V[<<"EQ", e[2], e[3]>>] = Compared("EQ", V[e[2]], V[e[3]])
  BY BinaryValues DEF Comparisons
<1>4. V[e[2]] \in Value /\ V[e[3]] \in Value
  BY <1>1, LeafValues
<1>5. QED BY <1>1, <1>2, <1>3, <1>4 DEF SqlIn, Compared, Holds, Bool

LEMMA IsTrueReplaced ==
  ASSUME NEW E, NEW V, NEW row, Valuation(E, V, row), NEW e \in E, e[1] = "istrue"
  PROVE  e[2] \in E /\ (IsTrue(V[e[2]]) <=> IsTrue(V[e]))
BY UnaryValues, NullAssumption DEF Bool, IsTrue

LEMMA MirrorReplaced ==
  ASSUME NEW E, NEW V, NEW row, Valuation(E, V, row), NEW e \in E, e[1] \in Comparisons,
         <<Mirrored(e[1]), e[3], e[2]>> \in E
  PROVE  V[<<Mirrored(e[1]), e[3], e[2]>>] = V[e]
<1>1. e[2] \in E /\ e[3] \in E /\ V[e] = Compared(e[1], V[e[2]], V[e[3]])
  BY BinaryValues
<1>2. V[e[2]] \in Value /\ V[e[3]] \in Value
  BY <1>1, LeafValues
<1>3. Mirrored(e[1]) \in Comparisons
  BY ComparedMirrored, <1>2
<1>4. V[<<Mirrored(e[1]), e[3], e[2]>>] = Compared(Mirrored(e[1]), V[e[3]], V[e[2]])
  <2> DEFINE new == <<Mirrored(e[1]), e[3], e[2]>>
  <2>1. new \in E /\ new[1] = Mirrored(e[1]) /\ new[2] = e[3] /\ new[3] = e[2]
    OBVIOUS
  <2> HIDE DEF new
  <2>2. V[new] = Compared(new[1], V[new[2]], V[new[3]])
    BY <1>3, <2>1, BinaryValues
  <2>3. QED BY <2>1, <2>2 DEF new
<1>5. QED BY <1>1, <1>2, <1>4, ComparedMirrored

LEMMA RangeReplaced ==
  ASSUME NEW E, NEW V, NEW row, Valuation(E, V, row), NEW e \in E, e[1] = "between",
         ClosedRange(e) \in E
  PROVE  V[ClosedRange(e)] = V[e]
<1> DEFINE above == <<"GTE", e[2], e[3]>>
           below == <<"LTE", e[2], e[4]>>
           new == <<"and", above, below>>
<1>1. new \in E /\ new[1] = "and" /\ new[2] = above /\ new[3] = below
  BY DEF ClosedRange
<1>2. /\ above[1] = "GTE" /\ above[2] = e[2] /\ above[3] = e[3]
      /\ below[1] = "LTE" /\ below[2] = e[2] /\ below[3] = e[4]
  OBVIOUS
<1>3. ClosedRange(e) = new
  BY DEF ClosedRange
<1> HIDE DEF above, below, new
<1>4. above \in E /\ below \in E /\ V[new] = SqlAnd(V[above], V[below])
  BY <1>1, BinaryValues
<1>5. /\ V[above] = Compared("GTE", V[e[2]], V[e[3]])
      /\ V[below] = Compared("LTE", V[e[2]], V[e[4]])
  BY <1>2, <1>4, BinaryValues DEF Comparisons
<1>6. QED BY <1>3, <1>4, <1>5, RangeValue

LEMMA NullTestReplaced ==
  ASSUME NEW E, NEW V, NEW row, Valuation(E, V, row), NEW e \in E, e[1] \in {"is", "isnt"},
         NEW filtering \in BOOLEAN, NullSafe(e, filtering) \in E
  PROVE  /\ Lit(Null) \in {e[2], e[3]} => V[NullSafe(e, filtering)] = V[e]
         /\ IsTrue(V[NullSafe(e, filtering)]) <=> IsTrue(V[e])
<1> DEFINE new == NullSafe(e, filtering)
<1>1. /\ e[2] \in E /\ e[3] \in E /\ V[e[2]] \in Value /\ V[e[3]] \in Value
      /\ e[1] = "is" => V[e] = Bool(V[e[2]] = V[e[3]])
      /\ e[1] = "isnt" => V[e] = Bool(V[e[2]] # V[e[3]])
  BY BinaryValues, LeafValues
\* A test for NULL.
<1>2. ASSUME NEW x \in E, NEW y \in E, y = Lit(Null),
             e[1] = "is" => V[e] = Bool(V[x] = V[y]) /\ new = IsNull(x),
             e[1] = "isnt" => V[e] = Bool(V[x] # V[y]) /\ new = <<"not", IsNull(x)>>
      PROVE  V[new] = V[e]
  <2> DEFINE test == <<"is", x, Lit(Null)>>
  <2>1. IsNull(x) = test /\ test[1] = "is" /\ test[2] = x /\ test[3] = y
    BY <1>2 DEF IsNull
  <2>2. y[1] = "lit" /\ y[2] = Null
    BY <1>2 DEF Lit
  <2>3. V[y] = Null
    BY <2>2, LeafValues
  <2> HIDE DEF test
  <2>4. test \in E => V[test] = Bool(V[x] = Null)
    BY <2>1, <2>3, BinaryValues
  <2>5. CASE e[1] = "is"
    BY <1>2, <2>1, <2>3, <2>4, <2>5
  <2>6. CASE e[1] = "isnt"
    <3>1. new \in E /\ new[1] = "not" /\ new[2] = test
      BY <1>2, <2>1, <2>6
    <3> HIDE DEF new
    <3>2. test \in E /\ V[new] = SqlNot(V[test])
      BY <3>1, UnaryValues
    <3>3. V[e] = Bool(V[x] # Null)
      BY <1>2, <2>3, <2>6
    <3>4. QED BY <2>4, <3>2, <3>3, NullAssumption DEF SqlNot, Bool
  <2>7. QED BY <2>5, <2>6
<1>3. CASE e[2] = Lit(Null)
  <2>1. /\ e[1] = "is" => new = IsNull(e[3])
        /\ e[1] = "isnt" => new = <<"not", IsNull(e[3])>>
    BY <1>3 DEF NullSafe
  <2>2. Bool(V[e[2]] = V[e[3]]) = Bool(V[e[3]] = V[e[2]]) /\ Bool(V[e[2]] # V[e[3]]) = Bool(V[e[3]] # V[e[2]])
    BY DEF Bool
  <2> HIDE DEF new
  <2>3. V[new] = V[e]
    BY <1>1, <1>2, <1>3, <2>1, <2>2
  <2>4. QED BY <2>3 DEF new
<1>4. CASE e[2] # Lit(Null) /\ e[3] = Lit(Null)
  <2>1. /\ e[1] = "is" => new = IsNull(e[2])
        /\ e[1] = "isnt" => new = <<"not", IsNull(e[2])>>
    BY <1>4 DEF NullSafe
  <2> HIDE DEF new
  <2>3. V[new] = V[e]
    BY <1>1, <1>2, <1>4, <2>1
  <2>4. QED BY <2>3 DEF new
\* A comparison with a literal that is not NULL.
<1>5. CASE Lit(Null) \notin {e[2], e[3]}
  <2>1. CASE new = e
    BY <1>5, <2>1
  <2>2. CASE new # e
    <3>1. e[1] = "is" /\ new = <<"EQ", e[2], e[3]>> /\ "lit" \in {e[2][1], e[3][1]}
      BY <1>5, <2>2 DEF NullSafe
    <3>2. new \in E /\ new[1] = "EQ" /\ new[2] = e[2] /\ new[3] = e[3]
      BY <3>1
    <3> HIDE DEF new
    <3>3. V[new] = Compared("EQ", V[e[2]], V[e[3]])
      BY <3>2, BinaryValues DEF Comparisons
    <3>4. ASSUME NEW x \in E, x[1] = "lit", x # Lit(Null) PROVE V[x] # Null
      BY <3>4, LeafValues
    <3>5. V[e[2]] # Null \/ V[e[3]] # Null
      BY <1>1, <1>5, <3>1, <3>4
    <3>6. IsTrue(V[e]) <=> V[e[2]] = V[e[3]]
      BY <1>1, <3>1, NullAssumption DEF Bool, IsTrue
    <3>7. IsTrue(V[new]) <=> V[e[2]] = V[e[3]] /\ V[e[2]] # Null
      BY <1>1, <3>3, EqualTruth
    <3>8. QED BY <1>5, <3>5, <3>6, <3>7 DEF new
  <2>3. QED BY <2>1, <2>2
<1>6. QED BY <1>3, <1>4, <1>5

LEMMA BooleanValues ==
  ASSUME NEW E, NEW V, NEW row, Valuation(E, V, row), NEW e \in E, BooleanValued(e)
  PROVE  V[e] \in {0, 1, Null}
<1>1. e[1] \in {"not", "istrue", "and", "or", "is", "isnt", "between", "in"} \cup Comparisons
  BY DEF Valuation, Expressions, BooleanValued, Leaf
<1>2. CASE e[1] \in {"not", "istrue"}
  BY <1>2, UnaryValues DEF SqlNot, Bool
<1>3. CASE e[1] \in {"and", "or", "is", "isnt"} \cup Comparisons
  BY <1>3, BinaryValues DEF SqlAnd, SqlOr, Bool, Compared
<1>4. CASE e[1] = "between"
  BY <1>4, RangeValue DEF SqlAnd
<1>5. CASE e[1] = "in"
  BY <1>5, ListValue DEF SqlIn
<1>6. QED BY <1>1, <1>2, <1>3, <1>4, <1>5

LEMMA NegationReplaced ==
  ASSUME NEW E, NEW V, NEW row, Valuation(E, V, row), NEW e \in E, e[1] = "not", e[2][1] = "not"
  PROVE  /\ e[2][2] \in E
         /\ BooleanValued(e[2][2]) => V[e[2][2]] = V[e]
         /\ IsTrue(V[e[2][2]]) <=> IsTrue(V[e])
<1>1. e[2] \in E /\ V[e] = SqlNot(V[e[2]])
  BY UnaryValues
<1>2. e[2][2] \in E /\ V[e[2]] = SqlNot(V[e[2][2]])
  BY <1>1, UnaryValues
<1>3. BooleanValued(e[2][2]) => V[e[2][2]] \in {0, 1, Null}
  BY <1>2, BooleanValues
<1>4. V[e[2][2]] \in Value
  BY <1>2, LeafValues
<1>5. QED BY <1>1, <1>2, <1>3, <1>4, NullAssumption DEF SqlNot, Bool, IsTrue, Value

\* The replacement has the value of the node, or at least is TRUE where it is.
NodeKept(V, rule, e, filtering) ==
  LET new == Replacement(rule, e, filtering)
  IN /\ rule \notin TruthOnly \/ ValueKept(rule, e, filtering) => V[new] = V[e]
     /\ IsTrue(V[new]) <=> IsTrue(V[e])

\* A recogniser's rule that puts another expression in place of a node keeps the
\* value of the node on every row, NULLs included; the rules of TruthOnly keep
\* it where ValueKept says so, and elsewhere whether it is TRUE.
THEOREM ReplacementsKeepNodes ==
  ASSUME NEW E, NEW V, NEW row, Valuation(E, V, row),
         NEW rule, NEW filtering \in BOOLEAN, NEW e \in E, Replacement(rule, e, filtering) \in E
  PROVE  NodeKept(V, rule, e, filtering)
<1> DEFINE new == Replacement(rule, e, filtering)
<1>1. CASE new = e
  BY <1>1 DEF NodeKept
<1>2. ASSUME new # e PROVE NodeKept(V, rule, e, filtering)
  <2>1. \/ rule = "nullif_coalesce" /\ e[1] = "case" /\ new = CaseReplacement(e)
        \/ rule = "searched_case" /\ e[1] = "case" /\ new = SearchedCase(e)
        \/ rule = "singleton_in" /\ e[1] = "in" /\ Len(e) = 3 /\ new = <<"EQ", e[2], e[3]>>
        \/ rule = "is_true" /\ e[1] = "istrue" /\ new = e[2]
        \/ rule = "null_safe" /\ e[1] \in {"is", "isnt"} /\ new = NullSafe(e, filtering)
        \/ rule = "mirror" /\ e[1] \in Comparisons /\ new = MirroredOperands(e)
        \/ rule = "double_negation" /\ e[1] = "not" /\ e[2][1] = "not" /\ new = e[2][2]
        \/ rule = "between" /\ e[1] = "between" /\ new = ClosedRange(e)
    BY <1>2 DEF Replacement, IsComparison
  <2>2. new \in E /\ ~Leaf(e)
    BY <2>1 DEF Leaf, Comparisons
  <2>3. ValueKept(rule, e, filtering) <=>
          \/ rule = "null_safe" /\ Lit(Null) \in {e[2], e[3]}
          \/ rule = "double_negation" /\ BooleanValued(e[2][2])
    BY <1>2, <2>2 DEF ValueKept
  <2>4. NodeKept(V, rule, e, filtering) <=>
          /\ rule \notin TruthOnly \/ ValueKept(rule, e, filtering) => V[new] = V[e]
          /\ IsTrue(V[new]) <=> IsTrue(V[e])
    BY DEF NodeKept
  <2> HIDE DEF new
  <2>5. CASE rule = "nullif_coalesce" /\ e[1] = "case" /\ new = CaseReplacement(e)
    BY <2>2, <2>4, <2>5, CaseReplaced
  <2>6. CASE rule = "searched_case" /\ e[1] = "case" /\ new = SearchedCase(e)
    BY <2>2, <2>4, <2>6, SearchedReplaced
  <2>7. CASE rule = "singleton_in" /\ e[1] = "in" /\ Len(e) = 3 /\ new = <<"EQ", e[2], e[3]>>
    BY <2>2, <2>4, <2>7, SingletonReplaced
  <2>8. CASE rule = "is_true" /\ e[1] = "istrue" /\ new = e[2]
    BY <2>3, <2>4, <2>8, IsTrueReplaced DEF TruthOnly
  <2>9. CASE rule = "null_safe" /\ e[1] \in {"is", "isnt"} /\ new = NullSafe(e, filtering)
    BY <2>2, <2>3, <2>4, <2>9, NullTestReplaced DEF TruthOnly
  <2>10. CASE rule = "mirror" /\ e[1] \in Comparisons /\ new = MirroredOperands(e)
    <3>1. new = <<Mirrored(e[1]), e[3], e[2]>>
      BY <1>2, <2>10 DEF MirroredOperands, new
    <3>2. QED BY <2>2, <2>4, <2>10, <3>1, MirrorReplaced
  <2>11. CASE rule = "double_negation" /\ e[1] = "not" /\ e[2][1] = "not" /\ new = e[2][2]
    BY <2>3, <2>4, <2>11, NegationReplaced DEF TruthOnly
  <2>12. CASE rule = "between" /\ e[1] = "between" /\ new = ClosedRange(e)
    BY <2>2, <2>4, <2>12, RangeReplaced
  <2>13. QED BY <2>1, <2>5, <2>6, <2>7, <2>8, <2>9, <2>10, <2>11, <2>12
<1>3. QED BY <1>1, <1>2

\* A rewriting below a node that keeps the values of its operands keeps the value
\* of the node, and below AND and OR, which a filter reads through, it is enough
\* to keep whether they are TRUE.
THEOREM OperandsDecideNodes ==
  ASSUME NEW E, NEW V, NEW row, Valuation(E, V, row), NEW e \in E, NEW f \in E,
         ~Leaf(e), f[1] = e[1], Len(f) = Len(e)
  PROVE  /\ (\A i \in 2 .. Len(e) : f[i] = e[i] \/ ({e[i], f[i]} \subseteq E /\ V[f[i]] = V[e[i]]))
              => V[f] = V[e]
         /\ e[1] \in {"and", "or"} /\ (\A i \in 2 .. 3 : IsTrue(V[f[i]]) <=> IsTrue(V[e[i]]))
              => (IsTrue(V[f]) <=> IsTrue(V[e]))
<1>1. ASSUME \A i \in 2 .. Len(e) : f[i] = e[i] \/ ({e[i], f[i]} \subseteq E /\ V[f[i]] = V[e[i]])
      PROVE  V[f] = V[e]
  <2>1. /\ e[1] \in {"not", "istrue"} => Len(e) = 2
        /\ e[1] \in Comparisons \cup {"and", "or", "is", "isnt", "nullif", "coalesce"} => Len(e) = 3
        /\ e[1] = "between" => Len(e) = 4
        /\ e[1] = "case" => Len(e) = 5
        /\ e[1] \in {"not", "istrue", "between", "in", "case"}
                    \cup Comparisons \cup {"and", "or", "is", "isnt", "nullif", "coalesce"}
    <3>1. /\ e[1] \in {"not", "istrue"} => e = <<e[1], e[2]>>
          /\ e[1] \in Comparisons \cup {"and", "or", "is", "isnt", "nullif", "coalesce"} => e = <<e[1], e[2], e[3]>>
          /\ e[1] = "between" => e = <<e[1], e[2], e[3], e[4]>>
          /\ e[1] = "case" => e = <<e[1], e[2], e[3], e[4], e[5]>>
      BY DEF Valuation, Expressions, Comparisons
    <3>2. e[1] \in {"not", "istrue", "between", "in", "case"}
                    \cup Comparisons \cup {"and", "or", "is", "isnt", "nullif", "coalesce"}
      BY DEF Valuation, Expressions, Leaf
    <3>3. \A o, p, q, r, s : /\ Len(<<o, p>>) = 2 /\ Len(<<o, p, q>>) = 3
                             /\ Len(<<o, p, q, r>>) = 4 /\ Len(<<o, p, q, r, s>>) = 5
      OBVIOUS
    <3>4. QED BY <3>1, <3>2, <3>3
  <2>2. \A i \in 2 .. Len(e) : f[i] = e[i] \/ V[f[i]] = V[e[i]]
    BY <1>1
  <2>3. CASE e[1] \in {"not", "istrue"}
    <3>1. V[f[2]] = V[e[2]]
      BY <2>1, <2>2, <2>3
    <3>2. QED BY <2>3, <3>1, UnaryValues
  <2>4. CASE e[1] \in Comparisons \cup {"and", "or", "is", "isnt", "nullif", "coalesce"}
    <3>1. V[f[2]] = V[e[2]] /\ V[f[3]] = V[e[3]]
      BY <2>1, <2>2, <2>4
    <3>2. CASE e[1] \in Comparisons
      BY <3>1, <3>2, BinaryValues
    <3>3. CASE e[1] \in {"and", "or"}
      BY <3>1, <3>3, BinaryValues
    <3>4. CASE e[1] \in {"is", "isnt"}
      BY <3>1, <3>4, BinaryValues
    <3>5. CASE e[1] \in {"nullif", "coalesce"}
      BY <3>1, <3>5, BinaryValues
    <3>6. QED BY <2>4, <3>2, <3>3, <3>4, <3>5
  <2>5. CASE e[1] = "between"
    <3>1. V[f[2]] = V[e[2]] /\ V[f[3]] = V[e[3]] /\ V[f[4]] = V[e[4]]
      BY <2>1, <2>2, <2>5
    <3>2. QED BY <2>5, <3>1, RangeValue
  <2>6. CASE e[1] = "in"
    <3>1. Len(e) \in Nat /\ Len(e) >= 3
      BY <2>6, ListValue
    <3>2. V[f[2]] = V[e[2]] /\ \A i \in 3 .. Len(e) : V[f[i]] = V[e[i]]
      BY <2>2, <3>1
    <3>3. ItemValues(f, V) = ItemValues(e, V)
      BY <3>2 DEF ItemValues
    <3>4. QED BY <2>6, <3>2, <3>3, ListValue
  <2>7. CASE e[1] = "case"
    <3>1. V[f[3]] = V[e[3]] /\ V[f[4]] = V[e[4]] /\ V[f[5]] = V[e[5]] /\ V[f[2]] = V[e[2]]
      BY <2>1, <2>2, <2>7
    <3>2. e[2] = None <=> f[2] = None
      <4>1. f[2] = e[2] \/ (e[2] \in E /\ f[2] \in E)
        BY <1>1, <2>1, <2>7
      <4>2. ASSUME NEW x \in E PROVE x # None
        BY LeafValues DEF None
      <4>3. QED BY <4>1, <4>2
    <3>3. QED BY <2>7, <3>1, <3>2, CaseValue
  <2>8. QED BY <2>1, <2>3, <2>4, <2>5, <2>6, <2>7
<1>2. ASSUME e[1] \in {"and", "or"}, \A i \in 2 .. 3 : IsTrue(V[f[i]]) <=> IsTrue(V[e[i]])
      PROVE  IsTrue(V[f]) <=> IsTrue(V[e])
  <2>1. /\ IsTrue(V[f[2]]) <=> IsTrue(V[e[2]])
        /\ IsTrue(V[f[3]]) <=> IsTrue(V[e[3]])
    BY <1>2
  <2>2. CASE e[1] = "and"
    <3>1. V[e] = SqlAnd(V[e[2]], V[e[3]]) /\ V[f] = SqlAnd(V[f[2]], V[f[3]])
      BY <2>2, BinaryValues
    <3>2. QED BY <2>1, <3>1, AndOrTruth
  <2>3. CASE e[1] = "or"
    <3>1. V[e] = SqlOr(V[e[2]], V[e[3]]) /\ V[f] = SqlOr(V[f[2]], V[f[3]])
      BY <2>3, BinaryValues
    <3>2. QED BY <2>1, <3>1, AndOrTruth
  <2>4. QED BY <1>2, <2>2, <2>3
<1>3. QED BY <1>1, <1>2

----------------------------------------------------------------------------
\* The rewrites of conditions as sets of disjuncts.

\* Some disjunct has no condition that is not TRUE.
Decide(terms, V) == \E term \in terms : \A c \in term : IsTrue(V[c])

LEMMA TermsDecide ==
  ASSUME NEW E, NEW V, NEW row, Valuation(E, V, row), NEW e \in E
  PROVE  /\ IsTrue(V[e]) <=> Decide({{e}}, V)
         /\ \A l, r : e[1] \in {"and", "or"} /\ (IsTrue(V[e[2]]) <=> Decide(l, V))
                                           /\ (IsTrue(V[e[3]]) <=> Decide(r, V)) =>
              /\ e[1] = "or" => (IsTrue(V[e]) <=> Decide(EitherTerms(l, r), V))
              /\ e[1] = "and" => (IsTrue(V[e]) <=> Decide(BothTerms(l, r), V))
<1>1. IsTrue(V[e]) <=> Decide({{e}}, V)
  BY DEF Decide
<1>2. ASSUME NEW l, NEW r, e[1] \in {"and", "or"},
             IsTrue(V[e[2]]) <=> Decide(l, V), IsTrue(V[e[3]]) <=> Decide(r, V)
      PROVE  /\ e[1] = "or" => (IsTrue(V[e]) <=> Decide(EitherTerms(l, r), V))
             /\ e[1] = "and" => (IsTrue(V[e]) <=> Decide(BothTerms(l, r), V))
  <2>1. /\ e[1] = "and" => V[e] = SqlAnd(V[e[2]], V[e[3]])
        /\ e[1] = "or" => V[e] = SqlOr(V[e[2]], V[e[3]])
    BY <1>2, BinaryValues
  <2>2. /\ e[1] = "and" => (IsTrue(V[e]) <=> IsTrue(V[e[2]]) /\ IsTrue(V[e[3]]))
        /\ e[1] = "or" => (IsTrue(V[e]) <=> IsTrue(V[e[2]]) \/ IsTrue(V[e[3]]))
    BY <2>1, AndOrTruth
  <2>3. Decide(EitherTerms(l, r), V) <=> Decide(l, V) \/ Decide(r, V)
    BY DEF Decide, EitherTerms
  <2>4. Decide(BothTerms(l, r), V) <=> Decide(l, V) /\ Decide(r, V)
    <3>1. ASSUME Decide(BothTerms(l, r), V) PROVE Decide(l, V) /\ Decide(r, V)
      <4>1. PICK s \in l, t \in r : \A c \in s \cup t : IsTrue(V[c])
        BY <3>1 DEF Decide, BothTerms
      <4>2. QED BY <4>1 DEF Decide
    <3>2. ASSUME Decide(l, V), Decide(r, V) PROVE Decide(BothTerms(l, r), V)
      <4>1. PICK s \in l : \A c \in s : IsTrue(V[c])
        BY <3>2 DEF Decide
      <4>2. PICK t \in r : \A c \in t : IsTrue(V[c])
        BY <3>2 DEF Decide
      <4>3. s \cup t \in BothTerms(l, r)
        BY DEF BothTerms
      <4>4. QED BY <4>1, <4>2, <4>3 DEF Decide
    <3>3. QED BY <3>1, <3>2
  <2>5. QED BY <1>2, <2>2, <2>3, <2>4
<1>3. QED BY <1>1, <1>2

\* _boolean_dnf_signature may leave out the disjuncts that another one implies:
\* what is left decides the condition as before.  Of the disjuncts inside a given
\* one, a smallest stays.
THEOREM AbsorptionKeepsTruth ==
  ASSUME NEW terms, NEW V, \A term \in terms : IsFiniteSet(term)
  PROVE  Decide(Unabsorbed(terms), V) <=> Decide(terms, V)
<1>1. Unabsorbed(terms) \subseteq terms
  BY DEF Unabsorbed
<1>2. Decide(Unabsorbed(terms), V) => Decide(terms, V)
  BY <1>1 DEF Decide
<1>3. ASSUME NEW term \in terms, \A c \in term : IsTrue(V[c])
      PROVE  Decide(Unabsorbed(terms), V)
  <2> DEFINE within == {t \in terms : t \subseteq term}
             sizes == {Cardinality(t) : t \in within}
  <2>1. sizes \in SUBSET Nat /\ sizes # {}
    BY FS_CardinalityType
  <2>2. PICK n \in sizes : \A k \in sizes : n <= k
    <3> HIDE DEF sizes
    <3>1. QED BY <2>1, LeastNumber
  <2>3. PICK s \in within : Cardinality(s) = n
    BY <2>2
  <2>4. ASSUME NEW other \in terms, other # s, other \subseteq s PROVE FALSE
    <3>1. other \in within /\ IsFiniteSet(s)
      BY <2>3, <2>4
    <3>2. Cardinality(s) <= Cardinality(other)
      BY <2>2, <2>3, <3>1
    <3>3. /\ Cardinality(other) <= Cardinality(s)
          /\ Cardinality(s) = Cardinality(other) => s = other
      BY <2>4, <3>1, FS_Subset
    <3>4. Cardinality(s) \in Nat /\ Cardinality(other) \in Nat
      BY <3>1, <2>4, FS_CardinalityType
    <3>5. QED BY <2>4, <3>2, <3>3, <3>4
  <2>5. s \in Unabsorbed(terms)
    BY <2>3, <2>4 DEF Unabsorbed
  <2>6. QED BY <1>3, <2>3, <2>5 DEF Decide
<1>4. QED BY <1>2, <1>3 DEF Decide

LEMMA ConstantIsTrue ==
  ASSUME NEW E, NEW V, NEW row, Valuation(E, V, row), NEW e \in E, ConstantTrue(e)
  PROVE  IsTrue(V[e])
<1>1. e[2] \in E /\ e[3] = e[2] /\ V[e] = Compared("EQ", V[e[2]], V[e[2]])
  BY BinaryValues DEF ConstantTrue, Comparisons
<1>2. V[e[2]] = e[2][2] /\ e[2] = Lit(e[2][2]) /\ e[2] # Lit(Null)
  BY <1>1, LeafValues DEF ConstantTrue
<1>3. V[e[2]] # Null
  BY <1>2
<1>4. QED BY <1>1, <1>3, NullAssumption DEF Compared, Holds, Bool, IsTrue
=============================================================================

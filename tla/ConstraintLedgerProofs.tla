----------------------- MODULE ConstraintLedgerProofs -----------------------
(***************************************************************************)
(* Proofs about ConstraintLedger for declarations of any length, and the    *)
(* induction on the natural numbers that they and the proofs of other       *)
(* components use for walks along a list.  The property that an induction   *)
(* is about is a set: it needs no operator for a parameter, and follows     *)
(* from the well-foundedness of < on Nat.                                   *)
(***************************************************************************)
EXTENDS ConstraintLedger, FiniteSets, WellFoundedInduction, TLAPS

----------------------------------------------------------------------------
(* Induction *)

\* Every non-empty set of natural numbers has a least element.
LEMMA LeastNumber ==
  ASSUME NEW T \in SUBSET Nat, T # {}
  PROVE  \E x \in T : \A y \in T : x <= y
<1> DEFINE R == OpToRel(<, Nat)
<1>1. IsWellFoundedOn(R, Nat)
  BY NatLessThanWellFounded
<1>2. \A x, y \in Nat : <<y, x>> \in R <=> y < x
  BY DEF OpToRel
<1> HIDE DEF R
<1>3. PICK x \in T : \A y \in T : ~(<<y, x>> \in R)
  BY <1>1, WFMin
<1>4. \A y \in T : x <= y
  <2> SUFFICES ASSUME NEW y \in T PROVE x <= y
    OBVIOUS
  <2>1. ~(y < x) /\ x \in Nat /\ y \in Nat
    BY <1>2, <1>3
  <2>2. QED BY <2>1
<1>5. QED BY <1>4

\* A set that has 0 and the successor of each of its numbers has them all.
LEMMA SetInduction ==
  ASSUME NEW S, 0 \in S, \A n \in Nat : n \in S => n + 1 \in S
  PROVE  Nat \subseteq S
<1> SUFFICES ASSUME Nat \ S # {} PROVE FALSE
  OBVIOUS
<1>1. PICK x \in Nat \ S : \A y \in Nat \ S : x <= y
  BY LeastNumber
<1>2. x # 0 /\ x - 1 \in Nat /\ (x - 1) + 1 = x
  BY <1>1
<1>3. x - 1 \in S
  BY <1>1, <1>2
<1>4. QED BY <1>1, <1>2, <1>3

\* The same up to a bound.
LEMMA SetInductionTo ==
  ASSUME NEW N \in Nat, NEW S, 0 \in S,
         \A n \in Nat : n < N /\ n \in S => n + 1 \in S
  PROVE  0 .. N \subseteq S
<1> DEFINE U == S \cup {n \in Nat : n > N}
<1>1. 0 \in U
  OBVIOUS
<1>2. \A n \in Nat : n \in U => n + 1 \in U
  OBVIOUS
<1>3. Nat \subseteq U
  BY <1>1, <1>2, SetInduction
<1>4. QED BY <1>3

----------------------------------------------------------------------------
(* The ledger *)

\* The cells are owned by some of the constraints asked for, by one of the
\* highest priority.
OwnsFor(owned, asked) ==
  \A cell \in DOMAIN owned :
    /\ owned[cell] \in asked /\ owned[cell].cell = cell
    /\ \A c \in asked : c.cell = cell => c.priority <= owned[cell].priority

\* Each constraint asked for is kept by the owner of its cell.
KeepsFor(owned, asked) ==
  \A c \in asked :
    /\ c.cell \in DOMAIN owned
    /\ owned[c.cell].relation = c.relation
    /\ owned[c.cell].value = c.value

Serves(ldg, asked) == OwnsFor(ldg.owned, asked) /\ KeepsFor(ldg.owned, asked)

\* The first n constraints of a declaration.
Prefix(d, n) == {d[k] : k \in 1 .. n}

Clash(e, c) ==
  e.cell = c.cell /\ (e.relation # c.relation \/ e.value # c.value)

\* A ledger that has seen constraints of C only.
IsLedger(ldg, C) ==
  /\ \A c \in C : IsConstraint(c)
  /\ ldg \in [owned : {ldg.owned}, conflicts : Seq([existing : C, incoming : C])]

----------------------------------------------------------------------------
(* One constraint *)

\* A constraint for a free cell, or one its owner is compatible with, is served.
LEMMA AddTakes ==
  ASSUME NEW ldg, NEW C, NEW asked \in SUBSET C, NEW c \in C,
         IsLedger(ldg, C), Serves(ldg, asked),
         c.cell \in DOMAIN ldg.owned => Compatible(ldg.owned[c.cell], c)
  PROVE  /\ IsLedger(Add(ldg, c), C) /\ Serves(Add(ldg, c), asked \cup {c})
         /\ Add(ldg, c).conflicts = ldg.conflicts
<1> DEFINE existing == ldg.owned[c.cell]
<1>1. \A b \in C : b.priority \in Nat
  BY DEF IsLedger, IsConstraint
<1>2. CASE c.cell \in DOMAIN ldg.owned /\ ~(c.priority > existing.priority)
  <2>1. Add(ldg, c) = ldg
    BY <1>2 DEF Add
  <2>2. existing \in asked /\ existing.cell = c.cell
    BY <1>2 DEF Serves, OwnsFor
  <2>3. existing.relation = c.relation /\ existing.value = c.value
    BY <1>2, <2>2 DEF Compatible, IsLedger, IsConstraint
  <2>4. c.priority <= existing.priority
    BY <1>1, <1>2, <2>2
  <2>5. OwnsFor(ldg.owned, asked \cup {c})
    BY <2>4 DEF Serves, OwnsFor
  <2>6. KeepsFor(ldg.owned, asked \cup {c})
    BY <1>2, <2>3 DEF Serves, KeepsFor
  <2>7. QED BY <2>1, <2>5, <2>6 DEF Serves
<1>3. CASE c.cell \notin DOMAIN ldg.owned \/ c.priority > existing.priority
  <2> DEFINE owned == Own(ldg.owned, c)
  <2>1. Add(ldg, c) = [ldg EXCEPT !.owned = owned]
    BY <1>3 DEF Add
  <2>2. /\ Add(ldg, c).owned = owned /\ Add(ldg, c).conflicts = ldg.conflicts
        /\ IsLedger(Add(ldg, c), C)
    <3> HIDE DEF owned
    <3>1. QED BY <2>1 DEF IsLedger
  <2>3. /\ DOMAIN owned = DOMAIN ldg.owned \cup {c.cell} /\ owned[c.cell] = c
        /\ \A cell \in DOMAIN ldg.owned : cell # c.cell => owned[cell] = ldg.owned[cell]
    BY DEF Own
  <2> HIDE DEF owned
  <2>4. ASSUME NEW b \in asked, b.cell = c.cell
        PROVE  b.priority <= c.priority /\ b.relation = c.relation /\ b.value = c.value
    <3>1. c.cell \in DOMAIN ldg.owned /\ b.priority <= existing.priority
      BY <2>4 DEF Serves, OwnsFor, KeepsFor
    <3>2. existing \in asked /\ existing.relation = b.relation /\ existing.value = b.value
      BY <2>4, <3>1 DEF Serves, OwnsFor, KeepsFor
    <3>3. c.priority > existing.priority
      BY <1>3, <3>1
    <3>4. existing.relation = c.relation /\ existing.value = c.value
      BY <3>1, <3>2 DEF Compatible, IsLedger, IsConstraint
    <3>5. QED BY <1>1, <3>1, <3>2, <3>3, <3>4
  <2>5. OwnsFor(owned, asked \cup {c})
    <3> SUFFICES ASSUME NEW cell \in DOMAIN owned
                 PROVE  /\ owned[cell] \in asked \cup {c} /\ owned[cell].cell = cell
                        /\ \A b \in asked \cup {c} : b.cell = cell => b.priority <= owned[cell].priority
      BY DEF OwnsFor
    <3>1. CASE cell = c.cell
      BY <1>1, <2>3, <2>4, <3>1
    <3>2. CASE cell # c.cell
      BY <2>3, <3>2 DEF Serves, OwnsFor
    <3>3. QED BY <3>1, <3>2
  <2>6. KeepsFor(owned, asked \cup {c})
    <3> SUFFICES ASSUME NEW b \in asked \cup {c}
                 PROVE  /\ b.cell \in DOMAIN owned
                        /\ owned[b.cell].relation = b.relation /\ owned[b.cell].value = b.value
      BY DEF KeepsFor
    <3>1. CASE b.cell = c.cell
      BY <2>3, <2>4, <3>1
    <3>2. CASE b.cell # c.cell
      BY <2>3, <3>2 DEF Serves, KeepsFor
    <3>3. QED BY <3>1, <3>2
  <2>7. QED BY <2>2, <2>5, <2>6 DEF Serves
<1>4. QED BY <1>2, <1>3

\* Any other is recorded as a conflict with the owner, and nothing else changes.
LEMMA AddRefuses ==
  ASSUME NEW ldg, NEW C, NEW asked \in SUBSET C, NEW c \in C,
         IsLedger(ldg, C), Serves(ldg, asked),
         c.cell \in DOMAIN ldg.owned, ~Compatible(ldg.owned[c.cell], c)
  PROVE  /\ IsLedger(Add(ldg, c), C)
         /\ \E e \in asked :
              /\ Add(ldg, c).conflicts = Append(ldg.conflicts, [existing |-> e, incoming |-> c])
              /\ Clash(e, c)
<1> DEFINE existing == ldg.owned[c.cell]
           conflict == [existing |-> existing, incoming |-> c]
<1>1. existing \in asked /\ existing.cell = c.cell
  BY DEF Serves, OwnsFor
<1>2. Clash(existing, c)
  BY <1>1 DEF Clash, Compatible
<1>3. Add(ldg, c) = [ldg EXCEPT !.conflicts = Append(@, conflict)]
  BY DEF Add
<1>4. conflict \in [existing : C, incoming : C]
  BY <1>1
<1> HIDE DEF conflict, existing
<1>5. Add(ldg, c).conflicts = Append(ldg.conflicts, conflict) /\ IsLedger(Add(ldg, c), C)
  <2> DEFINE more == Append(ldg.conflicts, conflict)
  <2>1. more \in Seq([existing : C, incoming : C])
    BY <1>4 DEF IsLedger
  <2>2. Add(ldg, c) = [ldg EXCEPT !.conflicts = more]
    BY <1>3
  <2> HIDE DEF more
  <2>3. Add(ldg, c).conflicts = more /\ Add(ldg, c) \in [owned : {Add(ldg, c).owned}, conflicts : {more}]
    BY <2>2 DEF IsLedger
  <2>4. IsLedger(Add(ldg, c), C)
    BY <2>1, <2>3 DEF IsLedger
  <2>5. QED BY <2>3, <2>4 DEF more
<1>6. QED BY <1>1, <1>2, <1>5 DEF conflict

----------------------------------------------------------------------------
(* A declaration *)

\* The recursion of AddUntilConflict over a declaration.
Tries(g, ldg, d, N) ==
  g = [n \in 0 .. N |->
         IF n = 0 THEN ldg
         ELSE IF Len(g[n - 1].conflicts) > Len(ldg.conflicts) THEN g[n - 1]
         ELSE Add(g[n - 1], d[n])]

LEMMA TriesExist ==
  ASSUME NEW ldg, NEW d, NEW N \in Nat
  PROVE  \E g : Tries(g, ldg, d, N)
<1> DEFINE S == {m \in Nat : \E g : Tries(g, ldg, d, m)}
<1>1. 0 \in S
  <2> DEFINE g == [n \in 0 .. 0 |-> ldg]
  <2>1. Tries(g, ldg, d, 0)
    BY DEF Tries
  <2>2. QED BY <2>1
<1>2. ASSUME NEW m \in Nat, m \in S PROVE m + 1 \in S
  <2>1. PICK g : Tries(g, ldg, d, m)
    BY <1>2
  <2> DEFINE last == IF Len(g[m].conflicts) > Len(ldg.conflicts) THEN g[m] ELSE Add(g[m], d[m + 1])
             h == [n \in 0 .. (m + 1) |-> IF n = m + 1 THEN last ELSE g[n]]
  <2>2. \A n \in 0 .. m : h[n] = g[n]
    OBVIOUS
  <2>3. h[m + 1] = last
    OBVIOUS
  <2>4. ASSUME NEW n \in 0 .. (m + 1)
        PROVE  h[n] = IF n = 0 THEN ldg
                      ELSE IF Len(h[n - 1].conflicts) > Len(ldg.conflicts) THEN h[n - 1]
                      ELSE Add(h[n - 1], d[n])
    <3>1. CASE n = m + 1
      <4>1. n - 1 = m /\ h[n - 1] = g[m] /\ n # 0
        BY <2>2, <3>1
      <4> HIDE DEF h
      <4>2. QED BY <2>3, <3>1, <4>1
    <3>2. CASE n # m + 1
      <4>1. n \in 0 .. m
        BY <3>2
      <4>2. n # 0 => n - 1 \in 0 .. m
        BY <4>1
      <4>3. h[n] = g[n] /\ (n # 0 => h[n - 1] = g[n - 1])
        BY <2>2, <4>1, <4>2
      <4> HIDE DEF h
      <4>4. QED BY <2>1, <4>1, <4>3 DEF Tries
    <3>3. QED BY <3>1, <3>2
  <2>5. Tries(h, ldg, d, m + 1)
    <3>1. h = [n \in 0 .. (m + 1) |-> h[n]]
      OBVIOUS
    <3> HIDE DEF h
    <3>2. QED BY <2>4, <3>1 DEF Tries
  <2>6. QED BY <2>5
<1> HIDE DEF S
<1>3. N \in S
  BY <1>1, <1>2, SetInduction
<1>4. QED BY <1>3 DEF S

LEMMA TriedRecursion ==
  ASSUME NEW ldg, NEW d, Len(d) \in Nat
  PROVE  \E g : Tries(g, ldg, d, Len(d)) /\ AddUntilConflict(ldg, d) = g[Len(d)]
<1> DEFINE f == CHOOSE g : Tries(g, ldg, d, Len(d))
<1>1. Tries(f, ldg, d, Len(d))
  BY TriesExist
<1>2. AddUntilConflict(ldg, d) = f[Len(d)]
  BY DEF AddUntilConflict, Tries
<1>3. QED BY <1>1, <1>2

\* What has become of the ledger after n constraints of a declaration: all of
\* them are served, or one of them clashed with a constraint before it.
Outcome(tried, ldg, C, asked, d, n) ==
  /\ IsLedger(tried, C)
  /\ \/ /\ tried.conflicts = ldg.conflicts
        /\ Serves(tried, asked \cup Prefix(d, n))
     \/ \E m \in 1 .. n : \E e \in asked \cup Prefix(d, m - 1) :
          /\ tried.conflicts = Append(ldg.conflicts, [existing |-> e, incoming |-> d[m]])
          /\ Clash(e, d[m])

LEMMA OutcomeOfTries ==
  ASSUME NEW C, NEW ldg, NEW asked \in SUBSET C, NEW d, Len(d) \in Nat,
         IsLedger(ldg, C), Serves(ldg, asked), \A n \in 1 .. Len(d) : d[n] \in C
  PROVE  Outcome(AddUntilConflict(ldg, d), ldg, C, asked, d, Len(d))
<1>1. PICK g : Tries(g, ldg, d, Len(d)) /\ AddUntilConflict(ldg, d) = g[Len(d)]
  BY TriedRecursion
<1> DEFINE S == {n \in Nat : Outcome(g[n], ldg, C, asked, d, n)}
<1>2. 0 \in S
  <2>1. g[0] = ldg
    BY <1>1 DEF Tries
  <2>2. Prefix(d, 0) = {}
    BY DEF Prefix
  <2>3. QED BY <2>1, <2>2 DEF Outcome
<1>3. ASSUME NEW n \in Nat, n < Len(d), n \in S PROVE n + 1 \in S
  <2> SUFFICES Outcome(g[n + 1], ldg, C, asked, d, n + 1)
    OBVIOUS
  <2> DEFINE c == d[n + 1]
             served == asked \cup Prefix(d, n)
  <2>1. /\ n + 1 # 0 /\ (n + 1) - 1 = n
        /\ g[n + 1] = IF Len(g[n].conflicts) > Len(ldg.conflicts) THEN g[n] ELSE Add(g[n], c)
    BY <1>1, <1>3 DEF Tries
  <2>2. c \in C /\ served \in SUBSET C /\ served \cup {c} = asked \cup Prefix(d, n + 1)
    <3>1. 1 .. (n + 1) = (1 .. n) \cup {n + 1}
      OBVIOUS
    <3>2. Prefix(d, n + 1) = Prefix(d, n) \cup {c}
      BY <3>1 DEF Prefix
    <3>3. \A k \in 1 .. n : k \in 1 .. Len(d)
      BY <1>3
    <3>4. QED BY <1>3, <3>2, <3>3 DEF Prefix
  <2>3. IsLedger(g[n], C)
    BY <1>3 DEF Outcome
  <2>4. ldg.conflicts \in Seq([existing : C, incoming : C]) /\ Len(ldg.conflicts) \in Nat
    BY DEF IsLedger
  <2> HIDE DEF c, served
  <2>5. CASE g[n].conflicts = ldg.conflicts /\ Serves(g[n], served)
    <3>1. g[n + 1] = Add(g[n], c)
      BY <2>1, <2>4, <2>5
    <3>2. CASE c.cell \in DOMAIN g[n].owned => Compatible(g[n].owned[c.cell], c)
      <4>1. /\ IsLedger(Add(g[n], c), C) /\ Serves(Add(g[n], c), served \cup {c})
            /\ Add(g[n], c).conflicts = g[n].conflicts
        BY <2>2, <2>3, <2>5, <3>2, AddTakes
      <4>2. QED BY <2>2, <2>5, <3>1, <4>1 DEF Outcome
    <3>3. CASE c.cell \in DOMAIN g[n].owned /\ ~Compatible(g[n].owned[c.cell], c)
      <4>1. /\ IsLedger(Add(g[n], c), C)
            /\ \E e \in served :
                 /\ Add(g[n], c).conflicts = Append(g[n].conflicts, [existing |-> e, incoming |-> c])
                 /\ Clash(e, c)
        BY <2>2, <2>3, <2>5, <3>3, AddRefuses
      <4>2. n + 1 \in 1 .. (n + 1)
        OBVIOUS
      <4>3. \E m \in 1 .. (n + 1) : \E e \in asked \cup Prefix(d, m - 1) :
              /\ g[n + 1].conflicts = Append(ldg.conflicts, [existing |-> e, incoming |-> d[m]])
              /\ Clash(e, d[m])
        BY <2>1, <2>5, <3>1, <4>1, <4>2 DEF c, served
      <4>4. QED BY <3>1, <4>1, <4>3 DEF Outcome
    <3>4. QED BY <3>2, <3>3
  <2>6. CASE \E m \in 1 .. n : \E e \in asked \cup Prefix(d, m - 1) :
               /\ g[n].conflicts = Append(ldg.conflicts, [existing |-> e, incoming |-> d[m]])
               /\ Clash(e, d[m])
    <3>1. Len(g[n].conflicts) = Len(ldg.conflicts) + 1
      BY <2>4, <2>6
    <3>2. g[n + 1] = g[n]
      BY <2>1, <2>4, <3>1
    <3>3. \A m \in 1 .. n : m \in 1 .. (n + 1)
      OBVIOUS
    <3>4. QED BY <2>3, <2>6, <3>2, <3>3 DEF Outcome
  <2>7. QED BY <1>3, <2>5, <2>6 DEF Outcome, served
<1> HIDE DEF S
<1>4. 0 .. Len(d) \subseteq S
  BY <1>2, <1>3, SetInductionTo
<1>5. QED BY <1>1, <1>4 DEF S

\* The ledger after a declaration, which it took whole or refused for a clash.
TakesOrRefuses(after, ldg, C, asked, d) ==
  /\ IsLedger(after, C)
  /\ \/ /\ after.conflicts = ldg.conflicts
        /\ Serves(after, asked \cup Prefix(d, Len(d)))
     \/ /\ after.owned = ldg.owned
        /\ \E m \in 1 .. Len(d) : \E e \in asked \cup Prefix(d, m - 1) :
             /\ after.conflicts = Append(ldg.conflicts, [existing |-> e, incoming |-> d[m]])
             /\ Clash(e, d[m])

\* add_many takes a declaration whole or leaves the owned cells alone, and then
\* records the one clash that made it do so.
LEMMA AddManyOutcome ==
  ASSUME NEW C, NEW ldg, NEW asked \in SUBSET C, NEW d, Len(d) \in Nat,
         IsLedger(ldg, C), Serves(ldg, asked), \A n \in 1 .. Len(d) : d[n] \in C
  PROVE  TakesOrRefuses(AddMany(ldg, d), ldg, C, asked, d)
<1> DEFINE tried == AddUntilConflict(ldg, d)
<1>1. Outcome(tried, ldg, C, asked, d, Len(d))
  BY OutcomeOfTries
<1>2. ldg.conflicts \in Seq([existing : C, incoming : C]) /\ Len(ldg.conflicts) \in Nat
  BY DEF IsLedger
<1>3. AddMany(ldg, d) = IF Len(tried.conflicts) > Len(ldg.conflicts)
                        THEN [tried EXCEPT !.owned = ldg.owned] ELSE tried
  BY DEF AddMany
<1> HIDE DEF tried
<1>4. CASE tried.conflicts = ldg.conflicts /\ Serves(tried, asked \cup Prefix(d, Len(d)))
  <2>1. AddMany(ldg, d) = tried
    BY <1>2, <1>3, <1>4
  <2>2. QED BY <1>1, <1>4, <2>1 DEF Outcome, TakesOrRefuses
<1>5. CASE \E m \in 1 .. Len(d) : \E e \in asked \cup Prefix(d, m - 1) :
             /\ tried.conflicts = Append(ldg.conflicts, [existing |-> e, incoming |-> d[m]])
             /\ Clash(e, d[m])
  <2>1. Len(tried.conflicts) = Len(ldg.conflicts) + 1
    BY <1>2, <1>5
  <2>2. AddMany(ldg, d) = [tried EXCEPT !.owned = ldg.owned]
    BY <1>2, <1>3, <2>1
  <2>3. /\ AddMany(ldg, d).owned = ldg.owned /\ AddMany(ldg, d).conflicts = tried.conflicts
        /\ IsLedger(AddMany(ldg, d), C)
    BY <1>1, <2>2 DEF Outcome, IsLedger
  <2>4. QED BY <1>5, <2>3 DEF TakesOrRefuses
<1>6. QED BY <1>1, <1>4, <1>5 DEF Outcome
============================================================================

----------------------------- MODULE ReplayProofs -----------------------------
(***************************************************************************)
(* Theorems about the scorers (Metrics), for all texts, and about the      *)
(* replay of a language (Replay), for any golden set.                      *)
(*                                                                         *)
(* What is defined by recursion is reasoned about by taking the least      *)
(* place at which a statement would not hold.                              *)
(***************************************************************************)
EXTENDS Replay, FiniteSetTheorems, FunctionTheorems, WellFoundedInduction, TLAPS

-----------------------------------------------------------------------------
(* Recursion. *)

\* Numbers that are not all excluded have a least one.
LEMMA Least ==
  ASSUME NEW T, T \subseteq Nat, T # {}
  PROVE  \E m \in T : \A k \in T : m <= k
  <1> DEFINE R == {p \in Nat \X Nat : p[1] < p[2]}
  <1>1. IsWellFoundedOn(R, Nat)
    BY NatLessThanWellFounded DEF OpToRel
  <1>2. \A x, y \in T : ~(<<y, x>> \in R) => x <= y
    OBVIOUS
  <1> HIDE DEF R
  <1>3. \E x \in T : \A y \in T : ~(<<y, x>> \in R)
    BY <1>1, WFMin, Zenon
  <1> QED BY <1>2, <1>3

\* What does not hold everywhere has a least place, by any measure, where it does not.
LEMMA LeastPlace ==
  ASSUME NEW D, NEW mu \in [D -> Nat], NEW bad, bad \subseteq D, bad # {}
  PROVE  \E p \in bad : \A q \in D : mu[q] < mu[p] => q \notin bad
  <1> DEFINE T == {mu[p] : p \in bad}
  <1>0. T \subseteq Nat /\ T # {}
    OBVIOUS
  <1>1. PICK m \in T : \A k \in T : m <= k
    <2> HIDE DEF T
    <2> QED BY <1>0, Least
  <1>2. PICK p \in bad : m = mu[p]
    BY <1>1
  <1>3. \A q \in D : mu[q] < mu[p] => q \notin bad
    BY <1>1, <1>2
  <1> QED BY <1>3

\* What a step makes of a place looks only at the places below it.
LooksBelow(D, V, mu, step) ==
  /\ V # {}
  /\ mu \in [D -> Nat]
  /\ step \in [D \X [D -> V] -> V]
  /\ \A p \in D : \A g, h \in [D -> V] :
       (\A q \in D : mu[q] < mu[p] => g[q] = h[q]) => step[<<p, g>>] = step[<<p, h>>]

\* f is everywhere what the step makes of it.
Solves(f, D, V, step) == f \in [D -> V] /\ \A p \in D : f[p] = step[<<p, f>>]

\* Such a step defines a function.
LEMMA Recursion ==
  ASSUME NEW D, NEW V, NEW mu, NEW step, LooksBelow(D, V, mu, step)
  PROVE  \E f : Solves(f, D, V, step)
  <1> USE DEF LooksBelow
  <1> DEFINE Upto(n, f) == \A p \in D : mu[p] < n => f[p] = step[<<p, f>>]
             Gaps == {n \in Nat : ~\E f \in [D -> V] : Upto(n, f)}
  <1>1. \A n \in Nat : \E f \in [D -> V] : Upto(n, f)
    <2> SUFFICES ASSUME Gaps # {} PROVE FALSE
      OBVIOUS
    <2>1. PICK n \in Gaps : \A k \in Gaps : n <= k
      <3>1. Gaps \subseteq Nat
        OBVIOUS
      <3> HIDE DEF Gaps
      <3> QED BY <3>1, Least
    <2>2. n # 0
      <3>0. PICK v \in V : TRUE
        OBVIOUS
      <3>1. [p \in D |-> v] \in [D -> V] /\ Upto(0, [p \in D |-> v])
        OBVIOUS
      <3> QED BY <3>1, <2>1
    <2>3. PICK f \in [D -> V] : Upto(n - 1, f)
      <3>1. n - 1 \in Nat /\ ~(n <= n - 1)
        BY <2>1, <2>2
      <3>2. n - 1 \notin Gaps
        BY <2>1, <3>1
      <3> QED BY <3>1, <3>2
    <2> DEFINE g == [p \in D |-> step[<<p, f>>]]
    <2>4. g \in [D -> V]
      OBVIOUS
    <2>5. ASSUME NEW p \in D, mu[p] < n PROVE g[p] = step[<<p, g>>]
      <3>1. \A q \in D : mu[q] < mu[p] => g[q] = f[q]
        BY <2>1, <2>3, <2>5
      <3> HIDE DEF g
      <3>2. step[<<p, g>>] = step[<<p, f>>]
        BY <2>4, <3>1
      <3> QED BY <3>2 DEF g
    <2> QED BY <2>1, <2>4, <2>5
  <1>2. ASSUME NEW m \in Nat, NEW n \in Nat, NEW f \in [D -> V], NEW g \in [D -> V],
               Upto(m, f), Upto(n, g)
        PROVE  \A p \in D : mu[p] < m /\ mu[p] < n => f[p] = g[p]
    <2> DEFINE bad == {p \in D : mu[p] < m /\ mu[p] < n /\ f[p] # g[p]}
    <2>0. SUFFICES ASSUME bad # {} PROVE FALSE
      OBVIOUS
    <2>1. PICK p \in bad : \A q \in D : mu[q] < mu[p] => q \notin bad
      <3>1. bad \subseteq D
        OBVIOUS
      <3>2. mu \in [D -> Nat]
        OBVIOUS
      <3> HIDE DEF bad
      <3> QED BY ONLY <2>0, <3>1, <3>2, LeastPlace
    <2>2. \A q \in D : mu[q] < mu[p] => f[q] = g[q]
      BY <2>1
    <2>3. step[<<p, f>>] = step[<<p, g>>]
      BY <2>2
    <2> QED BY <1>2, <2>1, <2>3
  <1> DEFINE at == [n \in Nat |-> CHOOSE f \in [D -> V] : Upto(n, f)]
             limit == [p \in D |-> at[mu[p] + 1][p]]
  <1>3. \A n \in Nat : at[n] \in [D -> V] /\ Upto(n, at[n])
    BY <1>1
  <1>4. limit \in [D -> V]
    <2>1. \A p \in D : mu[p] + 1 \in Nat
      OBVIOUS
    <2> HIDE DEF at
    <2> QED BY <1>3, <2>1
  <1>5. ASSUME NEW p \in D PROVE limit[p] = step[<<p, limit>>]
    <2> DEFINE n == mu[p] + 1
    <2> HIDE DEF at
    <2>0. n \in Nat /\ mu[p] < n
      OBVIOUS
    <2>1. limit[p] = step[<<p, at[n]>>]
      BY <1>3, <2>0
    <2>2. ASSUME NEW q \in D, mu[q] < mu[p] PROVE limit[q] = at[n][q]
      <3>1. mu[q] + 1 \in Nat /\ mu[q] < mu[q] + 1 /\ mu[q] < n
        BY <2>2
      <3>2. at[mu[q] + 1][q] = at[n][q]
        <4> HIDE DEF Upto, n
        <4> QED BY SMTT(30), <1>2, <1>3, <3>1, <2>0
      <3> QED BY <3>2
    <2> HIDE DEF limit, n
    <2>3. step[<<p, at[n]>>] = step[<<p, limit>>]
      BY <1>3, <1>4, <2>0, <2>2
    <2> QED BY <2>1, <2>3
  <1> HIDE DEF limit
  <1> QED BY <1>4, <1>5 DEF Solves

-----------------------------------------------------------------------------
(* The error rate. *)

LEMMA MinOfThree ==
  ASSUME NEW a \in Int, NEW b \in Int, NEW c \in Int
  PROVE  /\ Min({a, b, c}) = a \/ Min({a, b, c}) = b \/ Min({a, b, c}) = c
         /\ Min({a, b, c}) <= a /\ Min({a, b, c}) <= b /\ Min({a, b, c}) <= c
  <1>1. \E x \in {a, b, c} : \A y \in {a, b, c} : x <= y
    <2>1. CASE a <= b /\ a <= c
      BY <2>1
    <2>2. CASE b <= a /\ b <= c
      BY <2>2
    <2>3. CASE c <= a /\ c <= b
      BY <2>3
    <2> QED BY <2>1, <2>2, <2>3
  <1> DEFINE S == {a, b, c}
  <1>2. Min(S) \in S /\ \A y \in S : Min(S) <= y
    <2>1. \E x \in S : \A y \in S : x <= y
      BY <1>1
    <2> HIDE DEF S
    <2> QED BY <2>1 DEF Min
  <1> QED BY <1>2

\* The matrix of costs exists, and what is in its first row, its first column and
\* everywhere else.
LEMMA CostOf ==
  ASSUME NEW ref \in Text, NEW hyp \in Text,
         NEW i \in 0..Len(ref), NEW j \in 0..Len(hyp)
  PROVE  LET cost == Cost(ref, hyp)
         IN /\ cost[<<i, j>>] \in Nat
            /\ i = 0 \/ j = 0 => cost[<<i, j>>] = i + j
            /\ i > 0 /\ j > 0 =>
                 cost[<<i, j>>] = Min({cost[<<i-1, j-1>>] + Differ(ref[i], hyp[j]), cost[<<i-1, j>>] + 1, cost[<<i, j-1>>] + 1})
  <1> DEFINE D == Cells(ref, hyp)
             mu == [p \in D |-> p[1] + p[2]]
             Body(p, g) == IF p[1] = 0 \/ p[2] = 0 THEN p[1] + p[2]
                           ELSE Min({g[<<p[1]-1, p[2]-1>>] + Differ(ref[p[1]], hyp[p[2]]),
                                     g[<<p[1]-1, p[2]>>] + 1, g[<<p[1], p[2]-1>>] + 1})
             step == [q \in D \X [D -> Nat] |-> Body(q[1], q[2])]
  <1>1. Len(ref) \in Nat /\ Len(hyp) \in Nat
    BY DEF Text
  <1>2. mu \in [D -> Nat]
    BY <1>1 DEF Cells
  <1>3. \A x, y : Differ(x, y) \in {0, 1}
    BY DEF Differ
  <1>4. ASSUME NEW p \in D, p[1] # 0, p[2] # 0
        PROVE  /\ <<p[1]-1, p[2]-1>> \in D /\ mu[<<p[1]-1, p[2]-1>>] < mu[p]
               /\ <<p[1]-1, p[2]>> \in D   /\ mu[<<p[1]-1, p[2]>>] < mu[p]
               /\ <<p[1], p[2]-1>> \in D   /\ mu[<<p[1], p[2]-1>>] < mu[p]
    BY SMTT(30), <1>1, <1>4 DEF Cells
  <1>5. ASSUME NEW p \in D, NEW g,
               \A q \in D : mu[q] < mu[p] => g[q] \in Nat
        PROVE  Body(p, g) \in Nat
    <2>1. CASE p[1] = 0 \/ p[2] = 0
      BY <2>1, <1>1 DEF Cells
    <2>2. CASE p[1] # 0 /\ p[2] # 0
      <3>1. /\ g[<<p[1]-1, p[2]-1>>] \in Nat
            /\ g[<<p[1]-1, p[2]>>] \in Nat
            /\ g[<<p[1], p[2]-1>>] \in Nat
        BY <2>2, <1>4, <1>5
      <3>2. /\ g[<<p[1]-1, p[2]-1>>] + Differ(ref[p[1]], hyp[p[2]]) \in Nat
            /\ g[<<p[1]-1, p[2]>>] + 1 \in Nat
            /\ g[<<p[1], p[2]-1>>] + 1 \in Nat
        BY SMTT(30), <3>1, <1>3
      <3>3. \A a, b, c \in Nat : Min({a, b, c}) \in Nat
        BY MinOfThree
      <3> QED BY <2>2, <3>2, <3>3
    <2> QED BY <2>1, <2>2
  <1>6. ASSUME NEW p \in D, NEW g, NEW h,
               \A q \in D : mu[q] < mu[p] => g[q] = h[q]
        PROVE  Body(p, g) = Body(p, h)
    <2>1. CASE p[1] = 0 \/ p[2] = 0
      BY <2>1
    <2>2. CASE p[1] # 0 /\ p[2] # 0
      <3>1. /\ g[<<p[1]-1, p[2]-1>>] = h[<<p[1]-1, p[2]-1>>]
            /\ g[<<p[1]-1, p[2]>>] = h[<<p[1]-1, p[2]>>]
            /\ g[<<p[1], p[2]-1>>] = h[<<p[1], p[2]-1>>]
        BY <2>2, <1>4, <1>6
      <3> QED BY <2>2, <3>1
    <2> QED BY <2>1, <2>2
  <1> HIDE DEF Body
  <1>7. \E f : f = [p \in D |-> Body(p, f)]
    <2>0. Nat # {}
      OBVIOUS
    <2>1. step \in [D \X [D -> Nat] -> Nat]
      BY <1>5
    <2>2. \A p \in D, g \in [D -> Nat] : step[<<p, g>>] = Body(p, g)
      OBVIOUS
    <2>3. LooksBelow(D, Nat, mu, step)
      BY <1>2, <2>0, <2>1, <2>2, <1>6 DEF LooksBelow
    <2> HIDE DEF D, mu, step
    <2>4. PICK f : Solves(f, D, Nat, step)
      BY <2>3, Recursion
    <2>5. f = [p \in D |-> Body(p, f)]
      BY <2>2, <2>4 DEF Solves
    <2> QED BY <2>5
  <1> DEFINE cost == Cost(ref, hyp)
  <1>8. cost = [p \in D |-> Body(p, cost)]
    <2>1. cost = CHOOSE f : f = [p \in D |-> Body(p, f)]
      BY DEF Cost, Body
    <2> HIDE DEF cost, D
    <2> QED BY <1>7, <2>1
  <1> HIDE DEF cost
  <1>9. \A p \in D : cost[p] \in Nat
    <2> DEFINE bad == {p \in D : cost[p] \notin Nat}
    <2>0. SUFFICES ASSUME bad # {} PROVE FALSE
      OBVIOUS
    <2>1. PICK p \in bad : \A q \in D : mu[q] < mu[p] => q \notin bad
      <3>1. bad \subseteq D
        OBVIOUS
      <3> HIDE DEF bad, D, mu
      <3> QED BY ONLY <2>0, <3>1, <1>2, LeastPlace
    <2>2. Body(p, cost) \in Nat
      BY <1>5, <2>1
    <2> HIDE DEF D
    <2> QED BY <1>8, <2>1, <2>2
  <1>10. <<i, j>> \in D /\ <<i, j>>[1] = i /\ <<i, j>>[2] = j
    BY DEF Cells
  <1>11. cost[<<i, j>>] = Body(<<i, j>>, cost)
    <2> HIDE DEF D
    <2> QED BY <1>8, <1>10
  <1> QED BY <1>9, <1>10, <1>11, <1>1 DEF Body, cost

LEMMA CostOnTheEdge ==
  ASSUME NEW ref \in Text, NEW hyp \in Text,
         NEW i \in 0..Len(ref), NEW j \in 0..Len(hyp)
  PROVE  /\ Cost(ref, hyp)[<<i, j>>] \in Nat
         /\ i = 0 \/ j = 0 => Cost(ref, hyp)[<<i, j>>] = i + j
  BY CostOf

\* The walk back finds a way from every place, and it is a way that costs what the
\* matrix says.
LEMMA WayBack ==
  ASSUME NEW ref \in Text, NEW hyp \in Text,
         NEW i \in 0..Len(ref), NEW j \in 0..Len(hyp), i # 0 \/ j # 0
  PROVE  LET cost == Cost(ref, hyp)
             Diagonal == i > 0 /\ j > 0 /\ cost[<<i, j>>] = cost[<<i-1, j-1>>] + Differ(ref[i], hyp[j])
             Up == i > 0 /\ cost[<<i, j>>] = cost[<<i-1, j>>] + 1
         IN ~Diagonal /\ ~Up => j > 0 /\ cost[<<i, j>>] = cost[<<i, j-1>>] + 1
  <1> DEFINE cost == Cost(ref, hyp)
  <1>0. \A k \in 0..Len(ref), l \in 0..Len(hyp) :
          cost[<<k, l>>] \in Nat /\ (k = 0 \/ l = 0 => cost[<<k, l>>] = k + l)
    BY CostOnTheEdge
  <1>5. i > 0 /\ j > 0 =>
          cost[<<i, j>>] = Min({cost[<<i-1, j-1>>] + Differ(ref[i], hyp[j]),
                                cost[<<i-1, j>>] + 1, cost[<<i, j-1>>] + 1})
    BY CostOf
  <1> HIDE DEF cost
  <1>1. Len(ref) \in Nat /\ Len(hyp) \in Nat
    BY DEF Text
  <1>2. CASE j = 0
    <2>1. i - 1 \in 0..Len(ref) /\ i > 0
      BY <1>1, <1>2
    <2>2. cost[<<i, j>>] = i /\ cost[<<i-1, j>>] = i - 1
      BY <1>0, <1>1, <1>2, <2>1
    <2>3. i > 0 /\ cost[<<i, j>>] = cost[<<i-1, j>>] + 1
      BY <1>2, <2>1, <2>2
    <2> QED BY <2>3 DEF cost
  <1>3. CASE i = 0 /\ j > 0
    <2>1. j - 1 \in 0..Len(hyp)
      BY <1>1, <1>3
    <2>2. cost[<<i, j>>] = j /\ cost[<<i, j-1>>] = j - 1
      BY <1>0, <1>1, <1>3, <2>1
    <2> QED BY <1>3, <2>2 DEF cost
  <1>4. CASE i > 0 /\ j > 0
    <2>1. i - 1 \in 0..Len(ref) /\ j - 1 \in 0..Len(hyp)
      BY <1>1, <1>4
    <2> DEFINE x == cost[<<i-1, j-1>>]
               y == cost[<<i-1, j>>]
               z == cost[<<i, j-1>>]
               d == Differ(ref[i], hyp[j])
    <2>2. x \in Nat /\ y \in Nat /\ z \in Nat /\ d \in Nat
      BY <1>0, <2>1 DEF Differ
    <2>3. cost[<<i, j>>] = Min({x + d, y + 1, z + 1})
      BY <1>5, <1>4
    <2>4. cost[<<i, j>>] = x + d \/ cost[<<i, j>>] = y + 1 \/ cost[<<i, j>>] = z + 1
      <3> HIDE DEF x, y, z, d
      <3>1. x + d \in Nat /\ y + 1 \in Nat /\ z + 1 \in Nat
        BY <2>2
      <3>2. \A a, b, c \in Nat : Min({a, b, c}) = a \/ Min({a, b, c}) = b \/ Min({a, b, c}) = c
        BY MinOfThree
      <3> QED BY <2>3, <3>1, <3>2
    <2> QED BY <1>4, <2>4 DEF cost
  <1> QED BY <1>1, <1>2, <1>3, <1>4

\* An edit more.
LEMMA EditMore ==
  ASSUME NEW e \in Edits, NEW d \in {0, 1}
  PROVE  /\ LET s == AddSubstitutions(e, d)
            IN /\ s \in Edits /\ s.reference = e.reference /\ Errors(s) = Errors(e) + d
               /\ s.deletions = e.deletions /\ s.insertions = e.insertions
         /\ LET s == AddDeletion(e)
            IN /\ s \in Edits /\ s.reference = e.reference /\ Errors(s) = Errors(e) + 1
               /\ s.deletions = e.deletions + 1 /\ s.insertions = e.insertions
         /\ LET s == AddInsertion(e)
            IN /\ s \in Edits /\ s.reference = e.reference /\ Errors(s) = Errors(e) + 1
               /\ s.deletions = e.deletions /\ s.insertions = e.insertions + 1
  BY DEF Edits, Errors, AddSubstitutions, AddDeletion, AddInsertion

\* What the walk back attributes: as many errors as the matrix says, which account for
\* the lengths of the two texts.
LEMMA WalkOf ==
  ASSUME NEW ref \in Text, NEW hyp \in Text
  PROVE  LET e == ErrorRate(ref, hyp)
         IN /\ e \in Edits
            /\ e.reference = Len(ref)
            /\ Errors(e) = Cost(ref, hyp)[<<Len(ref), Len(hyp)>>]
            /\ Len(ref) - e.deletions = Len(hyp) - e.insertions
  <1> DEFINE D == Cells(ref, hyp)
             mu == [p \in D |-> p[1] + p[2]]
             cost == Cost(ref, hyp)
             Diagonal(i, j) ==
               /\ i > 0 /\ j > 0
               /\ cost[<<i, j>>] = cost[<<i-1, j-1>>] + Differ(ref[i], hyp[j])
             Up(i, j) == i > 0 /\ cost[<<i, j>>] = cost[<<i-1, j>>] + 1
             Start == NoEdits(Len(ref))
             Body(p, g) ==
               IF p[1] = 0 /\ p[2] = 0 THEN Start
               ELSE IF Diagonal(p[1], p[2])
               THEN AddSubstitutions(g[<<p[1]-1, p[2]-1>>], Differ(ref[p[1]], hyp[p[2]]))
               ELSE IF Up(p[1], p[2]) THEN AddDeletion(g[<<p[1]-1, p[2]>>])
               ELSE AddInsertion(g[<<p[1], p[2]-1>>])
             step == [q \in D \X [D -> Edits] |-> Body(q[1], q[2])]
             Right(p, e) == /\ e \in Edits
                            /\ e.reference = Len(ref)
                            /\ Errors(e) = cost[p]
                            /\ p[1] - e.deletions = p[2] - e.insertions
  <1>1. Len(ref) \in Nat /\ Len(hyp) \in Nat
    BY DEF Text
  <1>2. mu \in [D -> Nat]
    BY <1>1 DEF Cells
  <1>3. \A x, y : Differ(x, y) \in {0, 1}
    BY DEF Differ
  <1>4. ASSUME NEW p \in D
        PROVE  /\ p[1] \in 0..Len(ref) /\ p[2] \in 0..Len(hyp) /\ p = <<p[1], p[2]>>
               /\ p[1] > 0 /\ p[2] > 0 => /\ <<p[1]-1, p[2]-1>> \in D
                                          /\ mu[<<p[1]-1, p[2]-1>>] < mu[p]
               /\ p[1] > 0 => <<p[1]-1, p[2]>> \in D /\ mu[<<p[1]-1, p[2]>>] < mu[p]
               /\ p[2] > 0 => <<p[1], p[2]-1>> \in D /\ mu[<<p[1], p[2]-1>>] < mu[p]
    <2>1. p[1] \in 0..Len(ref) /\ p[2] \in 0..Len(hyp) /\ p = <<p[1], p[2]>>
      BY DEF Cells
    <2>2. ASSUME NEW q \in D, q[1] + q[2] < p[1] + p[2] PROVE mu[q] < mu[p]
      BY <2>2
    <2>3. /\ p[1] > 0 /\ p[2] > 0 => <<p[1]-1, p[2]-1>> \in D
          /\ p[1] > 0 => <<p[1]-1, p[2]>> \in D
          /\ p[2] > 0 => <<p[1], p[2]-1>> \in D
      BY <1>1, <2>1 DEF Cells
    <2> HIDE DEF D, mu
    <2> QED BY <1>1, <2>1, <2>2, <2>3
  <1>5. \A p \in D : cost[p] \in Nat
    <2> SUFFICES ASSUME NEW p \in D PROVE cost[p] \in Nat
      OBVIOUS
    <2>1. p[1] \in 0..Len(ref) /\ p[2] \in 0..Len(hyp) /\ p = <<p[1], p[2]>>
      BY <1>4
    <2> HIDE DEF D, mu
    <2> QED BY <2>1, CostOnTheEdge
  <1>0. \A p \in D : p[1] = 0 /\ p[2] = 0 => cost[p] = 0
    <2> SUFFICES ASSUME NEW p \in D, p[1] = 0, p[2] = 0 PROVE cost[p] = 0
      OBVIOUS
    <2>1. p[1] \in 0..Len(ref) /\ p[2] \in 0..Len(hyp) /\ p = <<p[1], p[2]>>
      BY <1>4
    <2>2. cost[<<p[1], p[2]>>] = p[1] + p[2]
      BY <2>1, CostOnTheEdge
    <2> QED BY <2>1, <2>2
  <1>6. ASSUME NEW p \in D
        PROVE  \/ p[1] = 0 /\ p[2] = 0 /\ cost[p] = 0
               \/ Diagonal(p[1], p[2])
               \/ ~Diagonal(p[1], p[2]) /\ Up(p[1], p[2])
               \/ /\ ~Diagonal(p[1], p[2]) /\ ~Up(p[1], p[2])
                  /\ p[2] > 0 /\ cost[p] = cost[<<p[1], p[2]-1>>] + 1
    <2>1. CASE p[1] = 0 /\ p[2] = 0
      <3> HIDE DEF D
      <3> QED BY <2>1, <1>0
    <2>2. CASE p[1] # 0 \/ p[2] # 0
      <3>1. \A i \in 0..Len(ref), j \in 0..Len(hyp) : i # 0 \/ j # 0 =>
              (~Diagonal(i, j) /\ ~Up(i, j) => j > 0 /\ cost[<<i, j>>] = cost[<<i, j-1>>] + 1)
        BY WayBack
      <3> HIDE DEF Diagonal, Up, cost
      <3> QED BY ZenonT(40), <1>4, <2>2, <3>1
    <2> QED BY <2>1, <2>2
  <1> HIDE DEF cost
  <1>7. Start \in Edits
    BY <1>1 DEF Edits, NoEdits
  <1>8. ASSUME NEW p \in D, NEW g,
               \A q \in D : mu[q] < mu[p] => g[q] \in Edits
        PROVE  Body(p, g) \in Edits
    <2>1. CASE p[1] = 0 /\ p[2] = 0
      BY <2>1, <1>7
    <2>2. CASE Diagonal(p[1], p[2])
      <3>1. g[<<p[1]-1, p[2]-1>>] \in Edits
        BY <2>2, <1>4, <1>8
      <3>2. Body(p, g) = AddSubstitutions(g[<<p[1]-1, p[2]-1>>], Differ(ref[p[1]], hyp[p[2]]))
        BY <2>2, <1>4
      <3>3. Differ(ref[p[1]], hyp[p[2]]) \in {0, 1}
        BY <1>3
      <3> HIDE DEF Body, D, mu
      <3> QED BY <3>1, <3>2, <3>3, EditMore
    <2>3. CASE ~Diagonal(p[1], p[2]) /\ Up(p[1], p[2])
      <3>1. g[<<p[1]-1, p[2]>>] \in Edits
        BY <2>3, <1>4, <1>8
      <3>2. Body(p, g) = AddDeletion(g[<<p[1]-1, p[2]>>])
        BY <2>3, <1>4
      <3> HIDE DEF Body
      <3> QED BY <3>1, <3>2, EditMore
    <2>4. CASE ~Diagonal(p[1], p[2]) /\ ~Up(p[1], p[2]) /\ p[2] > 0
      <3>1. g[<<p[1], p[2]-1>>] \in Edits
        BY <2>4, <1>4, <1>8
      <3>2. Body(p, g) = AddInsertion(g[<<p[1], p[2]-1>>])
        BY <2>4, <1>4
      <3> HIDE DEF Body
      <3> QED BY <3>1, <3>2, EditMore
    <2> QED BY <2>1, <2>2, <2>3, <2>4, <1>6
  <1>9. ASSUME NEW p \in D, NEW g, NEW h,
               \A q \in D : mu[q] < mu[p] => g[q] = h[q]
        PROVE  Body(p, g) = Body(p, h)
    <2>1. CASE p[1] = 0 /\ p[2] = 0
      BY <2>1
    <2>2. CASE Diagonal(p[1], p[2])
      BY <2>2, <1>4, <1>9
    <2>3. CASE ~Diagonal(p[1], p[2]) /\ Up(p[1], p[2])
      BY <2>3, <1>4, <1>9
    <2>4. CASE ~Diagonal(p[1], p[2]) /\ ~Up(p[1], p[2]) /\ p[2] > 0
      BY <2>4, <1>4, <1>9
    <2> QED BY <2>1, <2>2, <2>3, <2>4, <1>6
  <1>10. ASSUME NEW p \in D, NEW g,
                \A q \in D : mu[q] < mu[p] => Right(q, g[q])
         PROVE  Right(p, Body(p, g))
    <2>0. p[1] \in Nat /\ p[2] \in Nat /\ p = <<p[1], p[2]>>
      <3> HIDE DEF D, mu, Right
      <3>1. p[1] \in 0..Len(ref) /\ p[2] \in 0..Len(hyp) /\ p = <<p[1], p[2]>>
        BY <1>4
      <3> QED BY <1>1, <3>1
    <2>1. CASE p[1] = 0 /\ p[2] = 0
      <3>1. cost[p] = 0
        <4> HIDE DEF D, mu, Right
        <4> QED BY <2>1, <1>0
      <3>2. Body(p, g) = Start
        BY <2>1
      <3> QED BY <2>1, <3>1, <3>2, <1>7 DEF Errors, Edits, NoEdits
    <2>2. CASE Diagonal(p[1], p[2])
      <3> DEFINE q == <<p[1]-1, p[2]-1>>
      <3>1. q \in D /\ Right(q, g[q]) /\ q[1] = p[1] - 1 /\ q[2] = p[2] - 1
        BY <2>2, <1>4, <1>10
      <3>2. Body(p, g) = AddSubstitutions(g[q], Differ(ref[p[1]], hyp[p[2]]))
        BY <2>2, <1>4
      <3>3. cost[p] = cost[q] + Differ(ref[p[1]], hyp[p[2]])
        BY <2>2, <2>0
      <3> HIDE DEF q, D, Body
      <3>4. g[q] \in Edits /\ g[q].deletions \in Nat /\ g[q].insertions \in Nat
        BY <3>1 DEF Edits
      <3> DEFINE d == Differ(ref[p[1]], hyp[p[2]])
      <3>5. d \in {0, 1}
        BY <1>3
      <3> DEFINE s == AddSubstitutions(g[q], d)
      <3>6. /\ s \in Edits /\ s.reference = g[q].reference /\ Errors(s) = Errors(g[q]) + d
            /\ s.deletions = g[q].deletions /\ s.insertions = g[q].insertions
        <4> HIDE DEF d
        <4> QED BY <3>4, <3>5, EditMore
      <3> HIDE DEF s, d
      <3>7. Body(p, g) = s /\ cost[p] = cost[q] + d
        BY <3>2, <3>3 DEF s, d
      <3>8. Right(p, s)
        BY SMTT(30), <3>1, <3>4, <3>6, <3>7, <2>0
      <3> QED BY <3>7, <3>8
    <2>3. CASE ~Diagonal(p[1], p[2]) /\ Up(p[1], p[2])
      <3> DEFINE q == <<p[1]-1, p[2]>>
      <3>1. q \in D /\ Right(q, g[q]) /\ q[1] = p[1] - 1 /\ q[2] = p[2]
        BY <2>3, <1>4, <1>10
      <3>2. Body(p, g) = AddDeletion(g[q])
        BY <2>3, <1>4
      <3>3. cost[p] = cost[q] + 1
        BY <2>3, <2>0
      <3> HIDE DEF q, D, Body
      <3>4. g[q] \in Edits /\ g[q].deletions \in Nat /\ g[q].insertions \in Nat
        BY <3>1 DEF Edits
      <3> DEFINE s == AddDeletion(g[q])
      <3>5. /\ s \in Edits /\ s.reference = g[q].reference /\ Errors(s) = Errors(g[q]) + 1
            /\ s.deletions = g[q].deletions + 1 /\ s.insertions = g[q].insertions
        BY <3>4, EditMore
      <3> HIDE DEF s
      <3>6. Body(p, g) = s
        BY <3>2 DEF s
      <3>7. Right(p, s)
        BY SMTT(30), <3>1, <3>3, <3>4, <3>5, <2>0
      <3> QED BY <3>6, <3>7
    <2>4. CASE ~Diagonal(p[1], p[2]) /\ ~Up(p[1], p[2]) /\ p[2] > 0
      <3> DEFINE q == <<p[1], p[2]-1>>
      <3>1. q \in D /\ Right(q, g[q]) /\ q[1] = p[1] /\ q[2] = p[2] - 1
        BY <2>4, <1>4, <1>10
      <3>2. Body(p, g) = AddInsertion(g[q])
        BY <2>4, <1>4
      <3>3. cost[p] = cost[q] + 1
        BY <2>4, <1>6
      <3> HIDE DEF q, D, Body
      <3>4. g[q] \in Edits /\ g[q].deletions \in Nat /\ g[q].insertions \in Nat
        BY <3>1 DEF Edits
      <3> DEFINE s == AddInsertion(g[q])
      <3>5. /\ s \in Edits /\ s.reference = g[q].reference /\ Errors(s) = Errors(g[q]) + 1
            /\ s.deletions = g[q].deletions /\ s.insertions = g[q].insertions + 1
        BY <3>4, EditMore
      <3> HIDE DEF s
      <3>6. Body(p, g) = s
        BY <3>2 DEF s
      <3>7. Right(p, s)
        BY SMTT(30), <3>1, <3>3, <3>4, <3>5, <2>0
      <3> QED BY <3>6, <3>7
    <2> QED BY <2>1, <2>2, <2>3, <2>4, <1>6
  <1> HIDE DEF Body
  <1>11. \E f : f = [p \in D |-> Body(p, f)]
    <2>1. step \in [D \X [D -> Edits] -> Edits]
      BY <1>8
    <2>2. \A p \in D, g \in [D -> Edits] : step[<<p, g>>] = Body(p, g)
      OBVIOUS
    <2>3. Edits # {}
      BY <1>7
    <2>4. LooksBelow(D, Edits, mu, step)
      BY <1>2, <2>1, <2>2, <2>3, <1>9 DEF LooksBelow
    <2> HIDE DEF D, mu, step
    <2>5. PICK f : Solves(f, D, Edits, step)
      BY <2>4, Recursion
    <2>6. f = [p \in D |-> Body(p, f)]
      BY <2>2, <2>5 DEF Solves
    <2> QED BY <2>6
  <1> DEFINE walk == CHOOSE f : f = [p \in D |-> Body(p, f)]
  <1>12. walk = [p \in D |-> Body(p, walk)]
    <2> HIDE DEF D
    <2> QED BY <1>11
  <1>13. ErrorRate(ref, hyp) = walk[<<Len(ref), Len(hyp)>>]
    BY DEF ErrorRate, Body, cost
  <1> HIDE DEF walk
  <1>14. \A p \in D : Right(p, walk[p])
    <2> DEFINE bad == {p \in D : ~Right(p, walk[p])}
    <2>0. SUFFICES ASSUME bad # {} PROVE FALSE
      OBVIOUS
    <2>1. PICK p \in bad : \A q \in D : mu[q] < mu[p] => q \notin bad
      <3>1. bad \subseteq D
        OBVIOUS
      <3> HIDE DEF bad, D, mu
      <3> QED BY ONLY <2>0, <3>1, <1>2, LeastPlace
    <2> HIDE DEF Right
    <2>2. Right(p, Body(p, walk))
      BY <1>10, <2>1
    <2> HIDE DEF D
    <2> QED BY <1>12, <2>1, <2>2
  <1>15. <<Len(ref), Len(hyp)>> \in D
    BY <1>1 DEF Cells
  <1> HIDE DEF D
  <1> QED BY <1>13, <1>14, <1>15 DEF cost

-----------------------------------------------------------------------------
(* No alignment of two texts explains the one from the other with fewer    *)
(* edits: the cost of a cell is the least over the alignments of the two   *)
(* prefixes.                                                               *)

\* The alignments of the first i words of a text with the first j of another.
Aligned(i, j) ==
  {A \in SUBSET ((1..i) \X (1..j)) : \A p, q \in A : (p[1] < q[1]) <=> (p[2] < q[2])}

\* The edits that an alignment leaves.
Mismatched(A, ref, hyp) == {p \in A : ref[p[1]] # hyp[p[2]]}

Weight(A, ref, hyp, i, j) ==
  Cardinality(Mismatched(A, ref, hyp)) + (i - Cardinality(A)) + (j - Cardinality(A))

LEMMA AlignedFinite ==
  ASSUME NEW i \in Nat, NEW j \in Nat, NEW A \in Aligned(i, j), NEW ref, NEW hyp
  PROVE  /\ IsFiniteSet(A) /\ Cardinality(A) \in Nat
         /\ IsFiniteSet(Mismatched(A, ref, hyp)) /\ Cardinality(Mismatched(A, ref, hyp)) \in Nat
         /\ Weight(A, ref, hyp, i, j) \in Int
  <1>1. IsFiniteSet(1..i) /\ IsFiniteSet(1..j)
    BY FS_Interval
  <1>2. IsFiniteSet((1..i) \X (1..j))
    BY <1>1, FS_Product
  <1>3. A \in SUBSET ((1..i) \X (1..j))
    BY DEF Aligned
  <1>4. IsFiniteSet(A)
    BY <1>2, <1>3, FS_Subset
  <1>5. Mismatched(A, ref, hyp) \in SUBSET A
    BY DEF Mismatched
  <1>6. IsFiniteSet(Mismatched(A, ref, hyp))
    BY <1>4, <1>5, FS_Subset
  <1>7. Cardinality(A) \in Nat /\ Cardinality(Mismatched(A, ref, hyp)) \in Nat
    BY <1>4, <1>6, FS_CardinalityType
  <1> QED BY <1>4, <1>6, <1>7 DEF Weight

\* A word more at the end of either text.
LEMMA WordMore ==
  ASSUME NEW ref, NEW hyp, NEW i \in Nat, NEW j \in Nat, NEW A \in Aligned(i, j)
  PROVE  /\ A \in Aligned(i + 1, j)
         /\ Weight(A, ref, hyp, i + 1, j) = Weight(A, ref, hyp, i, j) + 1
         /\ A \in Aligned(i, j + 1)
         /\ Weight(A, ref, hyp, i, j + 1) = Weight(A, ref, hyp, i, j) + 1
  <1>1. Cardinality(A) \in Nat /\ Cardinality(Mismatched(A, ref, hyp)) \in Nat
    BY AlignedFinite
  <1>2. 1..i \subseteq 1..(i + 1) /\ 1..j \subseteq 1..(j + 1)
    OBVIOUS
  <1>3. A \in Aligned(i + 1, j) /\ A \in Aligned(i, j + 1)
    BY <1>2 DEF Aligned
  <1> QED BY <1>1, <1>3 DEF Weight

\* A pair more at the end of both.
LEMMA PairMore ==
  ASSUME NEW ref, NEW hyp, NEW i \in Nat, NEW j \in Nat, NEW A \in Aligned(i, j)
  PROVE  LET B == A \cup {<<i + 1, j + 1>>}
         IN /\ B \in Aligned(i + 1, j + 1)
            /\ Weight(B, ref, hyp, i + 1, j + 1)
                 = Weight(A, ref, hyp, i, j) + Differ(ref[i + 1], hyp[j + 1])
  <1> DEFINE x == <<i + 1, j + 1>>
             B == A \cup {x}
  <1>1. \A p \in A : p[1] \in 1..i /\ p[2] \in 1..j
    BY DEF Aligned
  <1>2. x \notin A /\ x[1] = i + 1 /\ x[2] = j + 1
    BY <1>1
  <1>3. B \in Aligned(i + 1, j + 1)
    <2>1. B \subseteq (1..(i + 1)) \X (1..(j + 1))
      BY DEF Aligned
    <2>2. ASSUME NEW p \in B, NEW q \in B PROVE (p[1] < q[1]) <=> (p[2] < q[2])
      <3>1. CASE p \in A /\ q \in A
        BY <3>1 DEF Aligned
      <3>2. CASE p \in A /\ q = x
        BY <3>2, <1>1, <1>2
      <3>3. CASE p = x /\ q \in A
        BY <3>3, <1>1, <1>2
      <3>4. CASE p = x /\ q = x
        BY <3>4, <1>2
      <3> QED BY <3>1, <3>2, <3>3, <3>4
    <2> HIDE DEF B
    <2> QED BY <2>1, <2>2 DEF Aligned
  <1>4. /\ IsFiniteSet(A) /\ Cardinality(A) \in Nat
        /\ IsFiniteSet(Mismatched(A, ref, hyp)) /\ Cardinality(Mismatched(A, ref, hyp)) \in Nat
    BY AlignedFinite
  <1>5. Cardinality(B) = Cardinality(A) + 1
    <2> HIDE DEF x
    <2> QED BY <1>2, <1>4, FS_AddElement
  <1>6. Cardinality(Mismatched(B, ref, hyp))
          = Cardinality(Mismatched(A, ref, hyp)) + Differ(ref[i + 1], hyp[j + 1])
    <2>1. CASE ref[i + 1] = hyp[j + 1]
      <3>1. Mismatched(B, ref, hyp) = Mismatched(A, ref, hyp)
        BY <2>1, <1>2 DEF Mismatched
      <3>2. Differ(ref[i + 1], hyp[j + 1]) = 0
        BY <2>1 DEF Differ
      <3> QED BY <3>1, <3>2, <1>4
    <2>2. CASE ref[i + 1] # hyp[j + 1]
      <3>1. Mismatched(B, ref, hyp) = Mismatched(A, ref, hyp) \cup {x}
        BY <2>2, <1>2 DEF Mismatched
      <3>2. x \notin Mismatched(A, ref, hyp)
        BY <1>2 DEF Mismatched
      <3>3. Differ(ref[i + 1], hyp[j + 1]) = 1
        BY <2>2 DEF Differ
      <3> HIDE DEF x, B
      <3> QED BY <3>1, <3>2, <3>3, <1>4, FS_AddElement
    <2> QED BY <2>1, <2>2
  <1>7. Differ(ref[i + 1], hyp[j + 1]) \in Nat
    BY DEF Differ
  <1> HIDE DEF B, x
  <1>8. Weight(B, ref, hyp, i + 1, j + 1) = Weight(A, ref, hyp, i, j) + Differ(ref[i + 1], hyp[j + 1])
    BY <1>4, <1>5, <1>6, <1>7 DEF Weight
  <1> QED BY <1>3, <1>8 DEF B, x

\* What an alignment does with the last words: it leaves one of them alone, or pairs them.
LEMMA LastWords ==
  ASSUME NEW i \in Nat, NEW j \in Nat, NEW B \in Aligned(i + 1, j + 1)
  PROVE  \/ B \in Aligned(i, j + 1)
         \/ B \in Aligned(i + 1, j)
         \/ \E A \in Aligned(i, j) : B = A \cup {<<i + 1, j + 1>>}
  <1> DEFINE x == <<i + 1, j + 1>>
  <1>1. \A p \in B : p[1] \in 1..(i + 1) /\ p[2] \in 1..(j + 1) /\ p = <<p[1], p[2]>>
    BY DEF Aligned
  <1>2. \A p, q \in B : (p[1] < q[1]) <=> (p[2] < q[2])
    BY DEF Aligned
  <1>3. CASE \A p \in B : p[1] # i + 1
    <2>1. \A p \in B : p[1] \in 1..i
      BY <1>1, <1>3
    <2>2. B \in SUBSET ((1..i) \X (1..(j + 1)))
      BY <1>1, <2>1
    <2> QED BY <1>2, <2>2 DEF Aligned
  <1>4. CASE \A p \in B : p[2] # j + 1
    <2>1. \A p \in B : p[2] \in 1..j
      BY <1>1, <1>4
    <2>2. B \in SUBSET ((1..(i + 1)) \X (1..j))
      BY <1>1, <2>1
    <2> QED BY <1>2, <2>2 DEF Aligned
  <1>5. CASE (\E p \in B : p[1] = i + 1) /\ (\E p \in B : p[2] = j + 1)
    <2>1. PICK p \in B : p[1] = i + 1
      BY <1>5
    <2>2. PICK q \in B : q[2] = j + 1
      BY <1>5
    <2>3. p[2] = j + 1
      BY <1>1, <1>2, <2>1, <2>2
    <2>4. x \in B
      BY <1>1, <2>1, <2>3
    <2>5. ASSUME NEW r \in B, r # x PROVE r[1] \in 1..i /\ r[2] \in 1..j
      <3>1. r[1] # i + 1 \/ r[2] # j + 1
        BY <1>1, <2>5
      <3> QED BY <1>1, <1>2, <2>4, <3>1
    <2> DEFINE A == B \ {x}
    <2>6. A \in SUBSET ((1..i) \X (1..j))
      BY <1>1, <2>5
    <2>7. A \in Aligned(i, j)
      BY <1>2, <2>6 DEF Aligned
    <2>8. B = A \cup {x}
      BY <2>4
    <2> QED BY <2>7, <2>8
  <1> QED BY <1>3, <1>4, <1>5

\* The cost of a cell is the weight of an alignment, and of none less.
LEMMA CostIsLeast ==
  ASSUME NEW ref \in Text, NEW hyp \in Text,
         NEW i \in 0..Len(ref), NEW j \in 0..Len(hyp)
  PROVE  LET cost == Cost(ref, hyp)
         IN /\ \E A \in Aligned(i, j) : Weight(A, ref, hyp, i, j) = cost[<<i, j>>]
            /\ \A A \in Aligned(i, j) : cost[<<i, j>>] <= Weight(A, ref, hyp, i, j)
  <1> DEFINE D == Cells(ref, hyp)
             mu == [p \in D |-> p[1] + p[2]]
             cost == Cost(ref, hyp)
             W(A, k, l) == Weight(A, ref, hyp, k, l)
             Right(k, l) == /\ \E A \in Aligned(k, l) : W(A, k, l) = cost[<<k, l>>]
                            /\ \A A \in Aligned(k, l) : cost[<<k, l>>] <= W(A, k, l)
             bad == {p \in D : ~Right(p[1], p[2])}
  <1>1. Len(ref) \in Nat /\ Len(hyp) \in Nat
    BY DEF Text
  <1>2. mu \in [D -> Nat]
    BY <1>1 DEF Cells
  <1>3. ASSUME bad # {} PROVE FALSE
    <2>1. PICK p \in bad : \A q \in D : mu[q] < mu[p] => q \notin bad
      <3>1. bad \subseteq D
        OBVIOUS
      <3> HIDE DEF bad, D, mu
      <3> QED BY ONLY <1>3, <3>1, <1>2, LeastPlace
    <2>2. PICK k \in 0..Len(ref), l \in 0..Len(hyp) : p = <<k, l>>
      BY <2>1 DEF Cells
    <2>3. k \in Nat /\ l \in Nat /\ <<k, l>> \in D /\ mu[<<k, l>>] = k + l /\ ~Right(k, l)
      <3> HIDE DEF Right
      <3> QED BY <1>1, <2>1, <2>2 DEF Cells
    <2>4. ASSUME NEW m \in 0..Len(ref), NEW n \in 0..Len(hyp), m + n < k + l
          PROVE  Right(m, n)
      <3>1. <<m, n>> \in D /\ mu[<<m, n>>] = m + n /\ <<m, n>>[1] = m /\ <<m, n>>[2] = n
        BY <1>1 DEF Cells
      <3> HIDE DEF Right, D, mu
      <3> QED BY <2>1, <2>2, <2>3, <2>4, <3>1
    <2>5. CASE k = 0 \/ l = 0
      <3>1. cost[<<k, l>>] = k + l
        BY <2>5, CostOnTheEdge
      <3>2. (1..k) \X (1..l) = {}
        BY <2>5, <2>3
      <3>3. Aligned(k, l) = {{}}
        BY <3>2 DEF Aligned
      <3>4. W({}, k, l) = k + l
        <4>1. Mismatched({}, ref, hyp) = {}
          BY DEF Mismatched
        <4>2. Cardinality({}) = 0
          BY FS_EmptySet
        <4>3. W({}, k, l) = 0 + (k - 0) + (l - 0)
          BY <4>1, <4>2 DEF Weight
        <4> HIDE DEF W
        <4> QED BY <4>3, <2>3
      <3> HIDE DEF cost, W
      <3>5. Right(k, l)
        BY <3>1, <3>3, <3>4, <2>3
      <3> QED BY <2>3, <3>5
    <2>6. CASE k > 0 /\ l > 0
      <3> DEFINE m == k - 1
                 n == l - 1
                 d == Differ(ref[k], hyp[l])
      <3>1. /\ m \in Nat /\ n \in Nat /\ k = m + 1 /\ l = n + 1
            /\ m \in 0..Len(ref) /\ n \in 0..Len(hyp)
        BY <2>6, <2>3, <1>1
      <3>2. d \in Nat
        BY DEF Differ
      <3>3. Right(m, n) /\ Right(m, l) /\ Right(k, n)
        <4>1. m + n < k + l /\ m + l < k + l /\ k + n < k + l
          BY <2>3, <3>1
        <4> HIDE DEF Right, m, n
        <4> QED BY <2>4, <3>1, <4>1
      <3>4. /\ cost[<<m, n>>] \in Nat /\ cost[<<m, l>>] \in Nat
            /\ cost[<<k, n>>] \in Nat /\ cost[<<k, l>>] \in Nat
        <4> HIDE DEF m, n
        <4> QED BY <3>1, CostOnTheEdge
      <3>5. /\ cost[<<k, l>>] = cost[<<m, n>>] + d
               \/ cost[<<k, l>>] = cost[<<m, l>>] + 1
               \/ cost[<<k, l>>] = cost[<<k, n>>] + 1
            /\ cost[<<k, l>>] <= cost[<<m, n>>] + d
            /\ cost[<<k, l>>] <= cost[<<m, l>>] + 1
            /\ cost[<<k, l>>] <= cost[<<k, n>>] + 1
        <4>1. cost[<<k, l>>] = Min({cost[<<m, n>>] + d, cost[<<m, l>>] + 1, cost[<<k, n>>] + 1})
          BY SMTT(30), <2>6, CostOf
        <4> DEFINE x == cost[<<m, n>>]
                   y == cost[<<m, l>>]
                   z == cost[<<k, n>>]
        <4>2. x \in Nat /\ y \in Nat /\ z \in Nat
          BY <3>4
        <4>3. cost[<<k, l>>] = Min({x + d, y + 1, z + 1})
          BY <4>1
        <4> HIDE DEF x, y, z, d, cost, m, n
        <4>4. x + d \in Int /\ y + 1 \in Int /\ z + 1 \in Int
          BY <3>2, <4>2
        <4> DEFINE a == x + d
                   b == y + 1
                   c == z + 1
        <4>6. cost[<<k, l>>] = Min({a, b, c})
          BY <4>3
        <4>5. /\ cost[<<k, l>>] = a \/ cost[<<k, l>>] = b \/ cost[<<k, l>>] = c
              /\ cost[<<k, l>>] <= a /\ cost[<<k, l>>] <= b /\ cost[<<k, l>>] <= c
          <5>1. a \in Int /\ b \in Int /\ c \in Int
            BY <4>4
          <5> HIDE DEF a, b, c
          <5>2. /\ Min({a, b, c}) = a \/ Min({a, b, c}) = b \/ Min({a, b, c}) = c
                /\ Min({a, b, c}) <= a /\ Min({a, b, c}) <= b /\ Min({a, b, c}) <= c
            BY ONLY <5>1, MinOfThree
          <5> QED BY ONLY <4>6, <5>2
        <4> QED BY <4>5 DEF x, y, z
      <3>6. /\ \A A \in Aligned(m, l) : A \in Aligned(k, l) /\ W(A, k, l) = W(A, m, l) + 1
            /\ \A A \in Aligned(k, n) : A \in Aligned(k, l) /\ W(A, k, l) = W(A, k, n) + 1
        <4>1. \A A \in Aligned(m, l) : A \in Aligned(m + 1, l) /\ W(A, m + 1, l) = W(A, m, l) + 1
          <5> HIDE DEF m
          <5> QED BY <3>1, <2>3, WordMore
        <4>2. \A A \in Aligned(k, n) : A \in Aligned(k, n + 1) /\ W(A, k, n + 1) = W(A, k, n) + 1
          <5> HIDE DEF n
          <5> QED BY <3>1, <2>3, WordMore
        <4> HIDE DEF m, n, W
        <4> QED BY <3>1, <4>1, <4>2
      <3>7. \A A \in Aligned(m, n) :
              /\ A \cup {<<k, l>>} \in Aligned(k, l)
              /\ W(A \cup {<<k, l>>}, k, l) = W(A, m, n) + d
        <4>1. ASSUME NEW A \in Aligned(m, n)
              PROVE  /\ A \cup {<<m + 1, n + 1>>} \in Aligned(m + 1, n + 1)
                     /\ Weight(A \cup {<<m + 1, n + 1>>}, ref, hyp, m + 1, n + 1)
                          = Weight(A, ref, hyp, m, n) + Differ(ref[m + 1], hyp[n + 1])
          <5>1. m \in Nat /\ n \in Nat
            BY <3>1
          <5> HIDE DEF m, n
          <5> QED BY ONLY <5>1, <4>1, PairMore
        <4>2. k = m + 1 /\ l = n + 1
          BY <3>1
        <4> HIDE DEF m, n
        <4> QED BY ONLY <4>1, <4>2 DEF W, d
      <3>8. \A B \in Aligned(k, l) : \/ B \in Aligned(m, l)
                                     \/ B \in Aligned(k, n)
                                     \/ \E A \in Aligned(m, n) : B = A \cup {<<k, l>>}
        <4> HIDE DEF m, n
        <4> QED BY <3>1, LastWords
      <3>9. /\ \A A \in Aligned(m, n) : W(A, m, n) \in Int
            /\ \A A \in Aligned(m, l) : W(A, m, l) \in Int
            /\ \A A \in Aligned(k, n) : W(A, k, n) \in Int
        <4> HIDE DEF m, n
        <4> QED BY <3>1, <2>3, AlignedFinite
      <3> HIDE DEF cost, W, d, m, n
      <3>10. \E A \in Aligned(k, l) : W(A, k, l) = cost[<<k, l>>]
        <4>1. CASE cost[<<k, l>>] = cost[<<m, n>>] + d
          BY <4>1, <3>3, <3>7
        <4>2. CASE cost[<<k, l>>] = cost[<<m, l>>] + 1
          BY <4>2, <3>3, <3>6
        <4>3. CASE cost[<<k, l>>] = cost[<<k, n>>] + 1
          BY <4>3, <3>3, <3>6
        <4> QED BY <4>1, <4>2, <4>3, <3>5
      <3>11. ASSUME NEW B \in Aligned(k, l) PROVE cost[<<k, l>>] <= W(B, k, l)
        <4>1. CASE B \in Aligned(m, l)
          <5>1. cost[<<m, l>>] <= W(B, m, l) /\ W(B, m, l) \in Int /\ W(B, k, l) = W(B, m, l) + 1
            BY <4>1, <3>3, <3>6, <3>9
          <5> QED BY SMTT(30), <5>1, <3>4, <3>5
        <4>2. CASE B \in Aligned(k, n)
          <5>1. cost[<<k, n>>] <= W(B, k, n) /\ W(B, k, n) \in Int /\ W(B, k, l) = W(B, k, n) + 1
            BY <4>2, <3>3, <3>6, <3>9
          <5> QED BY SMTT(30), <5>1, <3>4, <3>5
        <4>3. ASSUME NEW A \in Aligned(m, n), B = A \cup {<<k, l>>}
              PROVE  cost[<<k, l>>] <= W(B, k, l)
          <5>1. cost[<<m, n>>] <= W(A, m, n) /\ W(A, m, n) \in Int /\ W(B, k, l) = W(A, m, n) + d
            BY <4>3, <3>3, <3>7, <3>9
          <5> QED BY SMTT(30), <5>1, <3>2, <3>4, <3>5
        <4> QED BY <4>1, <4>2, <4>3, <3>8
      <3> QED BY <2>3, <3>10, <3>11
    <2> QED BY <2>5, <2>6, <2>3
  <1>4. <<i, j>> \in D /\ <<i, j>>[1] = i /\ <<i, j>>[2] = j
    BY DEF Cells
  <1>5. Right(i, j)
    <2> HIDE DEF Right, D
    <2> QED BY <1>3, <1>4
  <1> QED BY <1>5

\* The word error rate of any two texts counts as few edits as explain the one by the
\* other, and its deletions and insertions account for their lengths (wer.ts).
THEOREM ErrorRateIsMinimal ==
  \A ref, hyp \in Text : MinimalEdits(ref, hyp)
  <1> SUFFICES ASSUME NEW ref \in Text, NEW hyp \in Text PROVE MinimalEdits(ref, hyp)
    OBVIOUS
  <1> DEFINE e == ErrorRate(ref, hyp)
             m == Len(ref)
             n == Len(hyp)
             least == Cost(ref, hyp)[<<m, n>>]
             weights == {Weight(A, ref, hyp, m, n) : A \in Aligned(m, n)}
  <1>1. m \in Nat /\ n \in Nat /\ DOMAIN ref = 1..m /\ DOMAIN hyp = 1..n
    BY DEF Text
  <1>2. e \in Edits /\ Errors(e) = least /\ m - e.deletions = n - e.insertions
    BY WalkOf
  <1>3. least \in Nat
    BY <1>1, CostOnTheEdge
  <1>4. /\ \E A \in Aligned(m, n) : Weight(A, ref, hyp, m, n) = least
        /\ \A A \in Aligned(m, n) : least <= Weight(A, ref, hyp, m, n)
    BY <1>1, CostIsLeast
  <1>5. \A A \in Aligned(m, n) : Weight(A, ref, hyp, m, n) \in Int
    BY <1>1, AlignedFinite
  <1>6. Distance(ref, hyp) = Min(weights)
    BY <1>1 DEF Distance, Alignments, Aligned, Weight, Mismatched
  <1> HIDE DEF e, m, n, least
  <1>7. least \in weights /\ \A w \in weights : least <= w /\ w \in Int
    BY <1>4, <1>5
  <1> HIDE DEF weights
  <1>8. Min(weights) = least
    <2>1. Min(weights) \in weights /\ \A w \in weights : Min(weights) <= w
      BY <1>7 DEF Min
    <2>2. Min(weights) \in Int /\ least <= Min(weights) /\ Min(weights) <= least
      BY <1>7, <2>1
    <2> HIDE DEF weights
    <2> QED BY <1>3, <2>2
  <1> QED BY <1>2, <1>6, <1>8 DEF MinimalEdits, e, m, n

LEMMA TextsAreTexts == Texts \subseteq Text
  <1> SUFFICES ASSUME NEW t \in Texts PROVE t \in Seq(Word)
    BY DEF Text
  <1>1. PICK m \in 0..MaxWords : t \in [1..m -> Word]
    BY DEF Texts, BoundedSeq, SeqOf
  <1>2. m \in Nat
    BY MetricsConstants
  <1> QED BY <1>1, <1>2

\* So the bounded check holds whatever the bound.
COROLLARY EditsMinimal == EditsAreMinimal
  BY TextsAreTexts, ErrorRateIsMinimal DEF EditsAreMinimal

-----------------------------------------------------------------------------
(* Sums.  A sum takes its terms in some order: in any. *)

First(s) == CHOOSE x \in s : TRUE

\* What the definition of a sum goes through.
Partial(f, S) ==
  CHOOSE g : g = [s \in SUBSET S |-> IF s = {} THEN 0 ELSE f[First(s)] + g[s \ {First(s)}]]

LEMMA SumIsPartial ==
  ASSUME NEW f, NEW S
  PROVE  SumFunctionOnSet(f, S) = Partial(f, S)[S]
  BY DEF SumFunctionOnSet, FoldFunctionOnSet, MapThenFoldSet, Partial, First

LEMMA FirstIsIn ==
  ASSUME NEW s, s # {}
  PROVE  First(s) \in s
  BY DEF First

\* g has the sum of every part of S.
AddsUp(g, f, S) ==
  \A s \in SUBSET S :
    /\ g[s] \in Int
    /\ g[s] = IF s = {} THEN 0 ELSE f[First(s)] + g[s \ {First(s)}]

LEMMA PartialSums ==
  ASSUME NEW f, NEW S, IsFiniteSet(S), \A x \in S : f[x] \in Int
  PROVE  AddsUp(Partial(f, S), f, S)
  <1> DEFINE D == SUBSET S
             mu == [s \in D |-> Cardinality(s)]
             Body(s, g) == IF s = {} THEN 0 ELSE f[First(s)] + g[s \ {First(s)}]
             step == [q \in D \X [D -> Int] |-> Body(q[1], q[2])]
  <1>1. \A s \in D : IsFiniteSet(s) /\ Cardinality(s) \in Nat
    BY FS_Subset, FS_CardinalityType
  <1>2. mu \in [D -> Nat]
    BY <1>1
  <1>3. ASSUME NEW s \in D, s # {}
        PROVE  First(s) \in S /\ s \ {First(s)} \in D /\ mu[s \ {First(s)}] < mu[s]
    <2>1. First(s) \in s
      BY <1>3, FirstIsIn
    <2>2. Cardinality(s \ {First(s)}) = Cardinality(s) - 1
      BY <1>1, <2>1, FS_RemoveElement
    <2> QED BY <1>1, <2>1, <2>2
  <1> HIDE DEF mu
  <1>4. ASSUME NEW s \in D, NEW g, \A t \in D : mu[t] < mu[s] => g[t] \in Int
        PROVE  Body(s, g) \in Int
    <2>1. CASE s = {}
      BY <2>1
    <2>2. CASE s # {}
      <3>1. f[First(s)] \in Int /\ g[s \ {First(s)}] \in Int
        BY <2>2, <1>3, <1>4
      <3> QED BY <2>2, <3>1
    <2> QED BY <2>1, <2>2
  <1>5. ASSUME NEW s \in D, NEW g, NEW h, \A t \in D : mu[t] < mu[s] => g[t] = h[t]
        PROVE  Body(s, g) = Body(s, h)
    BY <1>3, <1>5
  <1> HIDE DEF Body
  <1>6. \E f1 : f1 = [s \in D |-> Body(s, f1)]
    <2>1. step \in [D \X [D -> Int] -> Int]
      BY <1>4
    <2>2. \A s \in D, g \in [D -> Int] : step[<<s, g>>] = Body(s, g)
      OBVIOUS
    <2>0. Int # {}
      OBVIOUS
    <2> HIDE DEF D, step
    <2>3. LooksBelow(D, Int, mu, step)
      <3>1. ASSUME NEW s \in D, NEW g \in [D -> Int], NEW h \in [D -> Int],
                   \A t \in D : mu[t] < mu[s] => g[t] = h[t]
            PROVE  step[<<s, g>>] = step[<<s, h>>]
        <4>1. Body(s, g) = Body(s, h)
          BY <1>5, <3>1
        <4> QED BY <2>2, <4>1
      <3> QED BY <1>2, <2>0, <2>1, <3>1 DEF LooksBelow
    <2>4. PICK f1 : Solves(f1, D, Int, step)
      BY <2>3, Recursion
    <2>5. f1 = [s \in D |-> Body(s, f1)]
      BY <2>2, <2>4 DEF Solves
    <2> QED BY <2>5
  <1> DEFINE sum == Partial(f, S)
  <1>7. sum = [s \in D |-> Body(s, sum)]
    <2>1. sum = CHOOSE g : g = [s \in D |-> Body(s, g)]
      BY DEF Partial, Body
    <2> HIDE DEF sum, D
    <2> QED BY <1>6, <2>1
  <1> HIDE DEF sum
  <1>8. \A s \in D : sum[s] \in Int
    <2> DEFINE bad == {s \in D : sum[s] \notin Int}
    <2>0. SUFFICES ASSUME bad # {} PROVE FALSE
      OBVIOUS
    <2>1. PICK s \in bad : \A t \in D : mu[t] < mu[s] => t \notin bad
      <3>1. bad \subseteq D
        OBVIOUS
      <3> HIDE DEF bad, D
      <3> QED BY ONLY <2>0, <3>1, <1>2, LeastPlace
    <2>2. Body(s, sum) \in Int
      BY <1>4, <2>1
    <2> HIDE DEF D
    <2> QED BY <1>7, <2>1, <2>2
  <1>9. \A s \in D : sum[s] = Body(s, sum)
    <2> HIDE DEF D
    <2> QED BY <1>7
  <1> QED BY <1>8, <1>9 DEF Body, sum, AddsUp

\* A part of a sum is the sum of that part.
LEMMA PartialAgrees ==
  ASSUME NEW f, NEW S, IsFiniteSet(S), \A x \in S : f[x] \in Int, NEW T \in SUBSET S
  PROVE  Partial(f, S)[T] = SumFunctionOnSet(f, T)
  <1> DEFINE D == SUBSET T
             mu == [s \in D |-> Cardinality(s)]
             g == Partial(f, S)
             h == Partial(f, T)
             bad == {s \in D : g[s] # h[s]}
  <1>0. IsFiniteSet(T) /\ \A x \in T : f[x] \in Int
    BY FS_Subset
  <1>5. AddsUp(g, f, S)
    BY PartialSums
  <1>6. AddsUp(h, f, T)
    BY <1>0, PartialSums
  <1>1. \A s \in D : IsFiniteSet(s) /\ Cardinality(s) \in Nat
    BY <1>0, FS_Subset, FS_CardinalityType
  <1>2. mu \in [D -> Nat]
    BY <1>1
  <1>3. ASSUME bad # {} PROVE FALSE
    <2>1. PICK s \in bad : \A t \in D : mu[t] < mu[s] => t \notin bad
      <3>1. bad \subseteq D
        OBVIOUS
      <3> HIDE DEF bad, D, mu
      <3> QED BY ONLY <1>3, <3>1, <1>2, LeastPlace
    <2>2. /\ g[s] = IF s = {} THEN 0 ELSE f[First(s)] + g[s \ {First(s)}]
          /\ h[s] = IF s = {} THEN 0 ELSE f[First(s)] + h[s \ {First(s)}]
      <3>1. s \in SUBSET S /\ s \in SUBSET T
        OBVIOUS
      <3>2. g[s] = IF s = {} THEN 0 ELSE f[First(s)] + g[s \ {First(s)}]
        BY <1>5, <3>1 DEF AddsUp
      <3>3. h[s] = IF s = {} THEN 0 ELSE f[First(s)] + h[s \ {First(s)}]
        BY <1>6, <3>1 DEF AddsUp
      <3> QED BY <3>2, <3>3
    <2>3. s # {}
      BY <2>1, <2>2
    <2>4. s \ {First(s)} \in D /\ mu[s \ {First(s)}] < mu[s]
      <3>1. First(s) \in s
        BY <2>3, FirstIsIn
      <3>2. Cardinality(s \ {First(s)}) = Cardinality(s) - 1
        BY <1>1, <2>1, <3>1, FS_RemoveElement
      <3> QED BY <1>1, <2>1, <3>2
    <2>5. g[s \ {First(s)}] = h[s \ {First(s)}]
      BY <2>1, <2>4
    <2> QED BY <2>1, <2>2, <2>5
  <1>4. g[T] = h[T]
    <2> HIDE DEF g, h
    <2> QED BY <1>3
  <1> QED BY <1>4, SumIsPartial

LEMMA SumType ==
  ASSUME NEW f, NEW S, IsFiniteSet(S), \A x \in S : f[x] \in Int
  PROVE  SumFunctionOnSet(f, S) \in Int
  <1>1. S \in SUBSET S
    OBVIOUS
  <1>2. Partial(f, S)[S] \in Int
    BY <1>1, PartialSums DEF AddsUp
  <1> QED BY <1>2, SumIsPartial

LEMMA SumNone ==
  ASSUME NEW f
  PROVE  SumFunctionOnSet(f, {}) = 0
  <1>0. IsFiniteSet({}) /\ \A x \in {} : f[x] \in Int
    BY FS_EmptySet
  <1>1. Partial(f, {})[{}] = 0
    BY <1>0, {} \in SUBSET {}, PartialSums DEF AddsUp
  <1> QED BY <1>1, SumIsPartial

LEMMA SumFirst ==
  ASSUME NEW f, NEW S, IsFiniteSet(S), \A x \in S : f[x] \in Int, S # {}
  PROVE  SumFunctionOnSet(f, S) = f[First(S)] + SumFunctionOnSet(f, S \ {First(S)})
  <1> DEFINE T == S \ {First(S)}
  <1>1. Partial(f, S)[S] = f[First(S)] + Partial(f, S)[T]
    BY S \in SUBSET S, PartialSums DEF AddsUp
  <1>2. Partial(f, S)[T] = SumFunctionOnSet(f, T)
    <2>1. T \in SUBSET S
      OBVIOUS
    <2> HIDE DEF T
    <2> QED BY <2>1, PartialAgrees
  <1> QED BY <1>1, <1>2, SumIsPartial

\* Any term may be taken first.
LEMMA SumTakes ==
  ASSUME NEW f, NEW S, IsFiniteSet(S), \A x \in S : f[x] \in Int, NEW x \in S
  PROVE  SumFunctionOnSet(f, S) = f[x] + SumFunctionOnSet(f, S \ {x})
  <1> DEFINE D == SUBSET S
             mu == [s \in D |-> Cardinality(s)]
             Sum(s) == SumFunctionOnSet(f, s)
             bad == {s \in D : \E y \in s : Sum(s) # f[y] + Sum(s \ {y})}
  <1>1. \A s \in D : IsFiniteSet(s) /\ Cardinality(s) \in Nat /\ \A y \in s : f[y] \in Int
    BY FS_Subset, FS_CardinalityType
  <1>2. mu \in [D -> Nat]
    BY <1>1
  <1>3. \A s \in D : Sum(s) \in Int
    BY <1>1, SumType
  <1>4. ASSUME bad # {} PROVE FALSE
    <2>1. PICK s \in bad : \A t \in D : mu[t] < mu[s] => t \notin bad
      <3>1. bad \subseteq D
        OBVIOUS
      <3> HIDE DEF bad, D, mu
      <3> QED BY ONLY <1>4, <3>1, <1>2, LeastPlace
    <2>2. PICK y \in s : Sum(s) # f[y] + Sum(s \ {y})
      BY <2>1
    <2> DEFINE c == First(s)
    <2>3. c \in s /\ Sum(s) = f[c] + Sum(s \ {c})
      BY <1>1, <2>1, <2>2, SumFirst, FirstIsIn
    <2> HIDE DEF c, Sum
    <2>4. c # y
      BY <2>2, <2>3
    <2>5. \A z \in s : s \ {z} \in D /\ mu[s \ {z}] < mu[s]
      <3> SUFFICES ASSUME NEW z \in s PROVE s \ {z} \in D /\ mu[s \ {z}] < mu[s]
        OBVIOUS
      <3>1. Cardinality(s \ {z}) = Cardinality(s) - 1
        BY <1>1, <2>1, FS_RemoveElement
      <3> QED BY <1>1, <2>1, <3>1
    <2>6. \A z \in s : \A u \in s \ {z} : Sum(s \ {z}) = f[u] + Sum((s \ {z}) \ {u})
      BY <2>1, <2>5
    <2>7. Sum(s \ {c}) = f[y] + Sum((s \ {c}) \ {y})
      BY <2>3, <2>4, <2>6
    <2>8. Sum(s \ {y}) = f[c] + Sum((s \ {y}) \ {c})
      BY <2>3, <2>4, <2>6
    <2>9. (s \ {c}) \ {y} = (s \ {y}) \ {c}
      OBVIOUS
    <2>10. f[c] \in Int /\ f[y] \in Int /\ Sum((s \ {c}) \ {y}) \in Int
      <3>1. (s \ {c}) \ {y} \in D
        BY <2>1
      <3> HIDE DEF D
      <3> QED BY <1>1, <1>3, <2>1, <2>3, <3>1
    <2> DEFINE rest == Sum((s \ {c}) \ {y})
    <2>11. Sum(s \ {c}) = f[y] + rest /\ Sum(s \ {y}) = f[c] + rest
      BY <2>7, <2>8, <2>9
    <2> HIDE DEF rest
    <2>12. rest \in Int
      BY <2>10 DEF rest
    <2> QED BY <2>2, <2>3, <2>10, <2>11, <2>12
  <1>5. S \in D /\ S \notin bad
    BY <1>4
  <1> QED BY <1>5

\* The terms may be renamed.
LEMMA SumRenamed ==
  ASSUME NEW f, NEW g, NEW S, NEW T, NEW m \in [S -> T], IsFiniteSet(S),
         \A x, y \in S : m[x] = m[y] => x = y,
         \A y \in T : \E x \in S : m[x] = y,
         \A x \in S : f[x] \in Int /\ f[x] = g[m[x]]
  PROVE  IsFiniteSet(T) /\ SumFunctionOnSet(f, S) = SumFunctionOnSet(g, T)
  <1> DEFINE D == SUBSET S
             mu == [s \in D |-> Cardinality(s)]
             Image(s) == {m[x] : x \in s}
             SumF(s) == SumFunctionOnSet(f, s)
             SumG(s) == SumFunctionOnSet(g, Image(s))
             bad == {s \in D : SumF(s) # SumG(s)}
  <1>1. \A s \in D : IsFiniteSet(s) /\ Cardinality(s) \in Nat /\ \A x \in s : f[x] \in Int
    BY FS_Subset, FS_CardinalityType
  <1>2. mu \in [D -> Nat]
    BY <1>1
  <1>3. IsFiniteSet(T)
    <2>1. m \in Surjection(S, T)
      BY Fun_IsSurj
    <2> QED BY <2>1, FS_Surjection
  <1>4. \A s \in D : Image(s) \in SUBSET T /\ IsFiniteSet(Image(s)) /\ \A y \in Image(s) : g[y] \in Int
    BY <1>3, FS_Subset
  <1>5. ASSUME bad # {} PROVE FALSE
    <2>1. PICK s \in bad : \A t \in D : mu[t] < mu[s] => t \notin bad
      <3>1. bad \subseteq D
        OBVIOUS
      <3> HIDE DEF bad, D, mu
      <3> QED BY ONLY <1>5, <3>1, <1>2, LeastPlace
    <2>2. s # {}
      <3>1. SUFFICES ASSUME s = {} PROVE FALSE
        OBVIOUS
      <3>2. Image(s) = {}
        BY <3>1
      <3>3. SumF(s) = 0 /\ SumG(s) = 0
        BY <3>1, <3>2, SumNone
      <3> QED BY <2>1, <3>3
    <2>3. PICK x \in s : TRUE
      BY <2>2
    <2> DEFINE rest == s \ {x}
    <2>4. rest \in D /\ mu[rest] < mu[s]
      <3>1. Cardinality(rest) = Cardinality(s) - 1
        BY <1>1, <2>1, FS_RemoveElement
      <3> QED BY <1>1, <2>1, <3>1
    <2>5. SumF(s) = f[x] + SumF(rest)
      BY <1>1, <2>1, SumTakes
    <2>6. Image(rest) = Image(s) \ {m[x]} /\ m[x] \in Image(s)
      BY <2>1
    <2>7. SumG(s) = g[m[x]] + SumG(rest)
      <3>1. SumFunctionOnSet(g, Image(s)) = g[m[x]] + SumFunctionOnSet(g, Image(s) \ {m[x]})
        <4> HIDE DEF Image, bad
        <4>1. IsFiniteSet(Image(s)) /\ \A y \in Image(s) : g[y] \in Int
          BY <1>4, <2>1 DEF bad
        <4> QED BY <2>6, <4>1, SumTakes
      <3> QED BY <2>6, <3>1
    <2>8. SumF(rest) = SumG(rest)
      BY <2>1, <2>4
    <2>9. f[x] = g[m[x]]
      BY <2>1
    <2> HIDE DEF SumF, SumG, rest
    <2>10. SumF(s) # SumG(s)
      BY <2>1
    <2> QED BY <2>5, <2>7, <2>8, <2>9, <2>10
  <1>6. S \in D /\ S \notin bad
    BY <1>5
  <1>7. Image(S) = T
    OBVIOUS
  <1> QED BY <1>3, <1>6, <1>7

\* Only the terms count.
LEMMA SumAgrees ==
  ASSUME NEW f, NEW g, NEW S, IsFiniteSet(S), \A x \in S : f[x] \in Int /\ f[x] = g[x]
  PROVE  SumFunctionOnSet(f, S) = SumFunctionOnSet(g, S)
  <1> DEFINE m == [x \in S |-> x]
  <1>1. /\ m \in [S -> S]
        /\ \A x, y \in S : m[x] = m[y] => x = y
        /\ \A y \in S : \E x \in S : m[x] = y
        /\ \A x \in S : f[x] \in Int /\ f[x] = g[m[x]]
    OBVIOUS
  <1> HIDE DEF m
  <1> QED BY <1>1, SumRenamed

\* A term that grows makes the sum grow.
LEMMA SumGrows ==
  ASSUME NEW f, NEW g, NEW S, IsFiniteSet(S), NEW x \in S, NEW d \in Int,
         \A y \in S : f[y] \in Int /\ g[y] = IF y = x THEN f[y] + d ELSE f[y]
  PROVE  SumFunctionOnSet(g, S) = SumFunctionOnSet(f, S) + d
  <1> DEFINE T == S \ {x}
             rest == SumFunctionOnSet(f, T)
  <1>1. IsFiniteSet(T)
    BY FS_Subset
  <1>2. \A y \in S : f[y] \in Int /\ g[y] \in Int
    OBVIOUS
  <1>3. SumFunctionOnSet(f, S) = f[x] + rest
    BY <1>2, SumTakes
  <1>4. SumFunctionOnSet(g, S) = g[x] + SumFunctionOnSet(g, T)
    BY <1>2, SumTakes
  <1>5. SumFunctionOnSet(g, T) = rest
    <2>1. \A y \in T : f[y] \in Int /\ f[y] = g[y]
      OBVIOUS
    <2> HIDE DEF T
    <2> QED BY <1>1, <2>1, SumAgrees
  <1>6. rest \in Int
    <2>1. \A y \in T : f[y] \in Int
      OBVIOUS
    <2> HIDE DEF T
    <2> QED BY <1>1, <2>1, SumType
  <1> HIDE DEF rest
  <1> QED BY <1>2, <1>3, <1>4, <1>5, <1>6

-----------------------------------------------------------------------------
(* The run of a language: what is in place at each of its steps. *)

AtAHop == pc \in {"stt", "translation", "reply", "roundTrip", "intent", "judge", "samples"}

Hops == [stt : HopResult, translation : HopResult, reply : HopResult, roundTrip : SUBSET HopResult]

RunTypes ==
  /\ pc \in {"load", "stt", "translation", "reply", "roundTrip", "intent", "judge",
             "samples", "scored", "skipped", "died"}
  /\ judging \in BOOLEAN
  /\ records \in Seq(GoldenRecord)
  /\ cur \in Hops
  /\ results \in Seq(ReplayResult)

\* A record has an id of its own.
IdsDiffer == \A i, j \in DOMAIN records : records[i].id = records[j].id => i = j

\* The results are those of the records so far, and there is a record at work.
InStep ==
  /\ Len(results) <= Len(records)
  /\ \A k \in DOMAIN results : results[k].record = records[k]
  /\ AtAHop => Len(results) < Len(records)
  /\ pc = "load" => results = << >>
  /\ pc = "scored" => Len(results) = Len(records)

RunInv == RunTypes /\ IdsDiffer /\ InStep

\* How many of Usable stand no later than k.
Rank(k) == Cardinality({j \in Usable : j <= k})

LEMMA UsableFinite == Usable \subseteq DOMAIN Golden /\ IsFiniteSet(Usable) /\ Cardinality(Usable) \in Nat
  <1>1. Len(Golden) \in Nat /\ DOMAIN Golden = 1..Len(Golden)
    BY ReplayConstants
  <1>2. IsFiniteSet(1..Len(Golden))
    BY <1>1, FS_Interval
  <1>3. Usable \in SUBSET (1..Len(Golden))
    BY <1>1 DEF Usable
  <1> QED BY <1>1, <1>2, <1>3, FS_Subset, FS_CardinalityType

\* Every rank is taken.
LEMMA PlaceOf ==
  ASSUME NEW n \in 1..Cardinality(Usable)
  PROVE  Place(n) \in Usable /\ Rank(Place(n)) = n
  <1> DEFINE N == Cardinality(Usable)
             rank == [k \in Usable |-> Rank(k)]
  <1>0. IsFiniteSet(Usable) /\ N \in Nat /\ Usable \subseteq Int
    BY UsableFinite, ReplayConstants
  <1>1. \A k \in Usable : {j \in Usable : j <= k} \in SUBSET Usable
    OBVIOUS
  <1>2. \A k \in Usable : Rank(k) \in Nat /\ Rank(k) <= N /\ IsFiniteSet({j \in Usable : j <= k})
    BY <1>0, <1>1, FS_Subset, FS_CardinalityType DEF Rank
  <1>3. \A k \in Usable : Rank(k) # 0
    <2> SUFFICES ASSUME NEW k \in Usable, Rank(k) = 0 PROVE FALSE
      OBVIOUS
    <2>1. {j \in Usable : j <= k} = {}
      BY <1>2, FS_EmptySet DEF Rank
    <2>2. k \in {j \in Usable : j <= k}
      BY <1>0
    <2> QED BY <2>1, <2>2
  <1>4. rank \in [Usable -> 1..N]
    <2> HIDE DEF N
    <2>1. ASSUME NEW k \in Usable PROVE Rank(k) \in 1..N
      <3>1. Rank(k) \in Nat /\ Rank(k) <= N /\ Rank(k) # 0 /\ N \in Nat
        BY <1>0, <1>2, <1>3
      <3> QED BY ONLY <3>1
    <2> QED BY <2>1
  <1>5. \A i, k \in Usable : i < k => Rank(i) < Rank(k)
    <2> SUFFICES ASSUME NEW i \in Usable, NEW k \in Usable, i < k PROVE Rank(i) < Rank(k)
      OBVIOUS
    <2> DEFINE below == {j \in Usable : j <= i}
               upto  == {j \in Usable : j <= k}
    <2>0. i \in Int /\ k \in Int /\ \A j \in Usable : j \in Int
      BY <1>0
    <2>1. below \in SUBSET upto /\ k \in upto /\ k \notin below
      <3>1. \A j \in Usable : j <= i => j <= k
        BY <2>0
      <3>2. k <= k /\ ~(k <= i)
        BY <2>0
      <3> QED BY <3>1, <3>2
    <2>2. Cardinality(below) <= Cardinality(upto) /\ (Cardinality(upto) = Cardinality(below) => upto = below)
      <3>1. IsFiniteSet(upto)
        BY <1>2
      <3> HIDE DEF upto, below
      <3> QED BY <2>1, <3>1, FS_Subset
    <2> QED BY <1>2, <2>1, <2>2 DEF Rank
  <1>6. rank \in Injection(Usable, 1..N)
    <2>1. \A i, k \in Usable : rank[i] = rank[k] => i = k
      <3> SUFFICES ASSUME NEW i \in Usable, NEW k \in Usable, Rank(i) = Rank(k) PROVE i = k
        OBVIOUS
      <3>1. i \in Int /\ k \in Int /\ Rank(i) \in Nat /\ Rank(k) \in Nat
        BY <1>0, <1>2
      <3>2. ~(i < k) /\ ~(k < i)
        BY <1>5, <3>1
      <3> QED BY <3>1, <3>2
    <2> HIDE DEF rank
    <2> QED BY <1>4, <2>1, Fun_IsInj
  <1>7. IsFiniteSet(1..N) /\ Cardinality(1..N) = N
    BY <1>0, FS_Interval
  <1>8. rank \in Surjection(Usable, 1..N)
    <2> HIDE DEF rank
    <2> QED BY <1>6, <1>7, FS_Injection
  <1>9. \A m \in 1..N : \E k \in Usable : rank[k] = m
    <2> HIDE DEF rank
    <2> QED BY <1>8, Fun_SurjectionProperties
  <1>10. \E k \in Usable : Rank(k) = n
    BY <1>9
  <1> QED BY <1>10 DEF Place, Rank

LEMMA EmptyIsText == << >> \in Text
  BY DEF Text

\* What comes of a hop is a result, and one that failed has made nothing.
LEMMA TimedIsAResult ==
  ASSUME NEW values \in SUBSET Text, record \in GoldenRecord, NEW r \in Timed(values)
  PROVE  r \in HopResult /\ (r.failed => r.value = << >>) /\ r.value \in values \cup {<< >>}
  BY EmptyIsText DEF Timed, HopResult, GoldenRecord, Null

LEMMA NothingIsTyped == NothingYet \in Hops /\ NothingYet.roundTrip = {}
  BY EmptyIsText DEF NothingYet, Hops, NoResult, HopResult, Null

LEMMA RecordAtWork ==
  ASSUME RunInv, AtAHop
  PROVE  record \in GoldenRecord /\ record = records[Len(results) + 1] /\ Len(results) + 1 \in DOMAIN records
  BY DEF RunInv, RunTypes, InStep, record

\* What each hop makes of what it was given.
LEMMA HopTypes ==
  ASSUME RunInv, AtAHop
  PROVE  /\ \A r \in Transcripts(record.expected_transcript) : r \in HopResult
         /\ \A r \in Transcripts(record.reference_translation) : r \in HopResult
         /\ \A heard : \A r \in Replies(heard) :
              r \in HopResult /\ (heard = << >> => r.failed /\ r.value = << >>)
         /\ cur.reply.value # << >> =>
              \A r \in Timed({cur.reply.value, << >>}) : r \in HopResult
  <1>1. record \in GoldenRecord
    BY RecordAtWork
  <1>2. \A said \in Text : \A r \in Transcripts(said) : r \in HopResult
    <2> SUFFICES ASSUME NEW said \in Text, NEW r \in Transcripts(said) PROVE r \in HopResult
      OBVIOUS
    <2>1. {said, said \o said, << >>} \in SUBSET Text
      BY DEF Text
    <2> QED BY <1>1, <2>1, TimedIsAResult DEF Transcripts
  <1>3. record.expected_transcript \in Text /\ record.reference_translation \in Text
    BY <1>1 DEF GoldenRecord
  <1>4. ASSUME NEW heard, NEW r \in Replies(heard)
        PROVE  r \in HopResult /\ (heard = << >> => r.failed /\ r.value = << >>)
    <2>1. CASE heard = << >>
      BY <2>1, EmptyIsText DEF Replies, NoResult, HopResult, Null
    <2>2. CASE heard # << >>
      <3>1. Answers \cup {<< >>} \in SUBSET Text
        BY EmptyIsText, ReplayConstants
      <3>2. r \in Timed(Answers \cup {<< >>})
        BY <2>2 DEF Replies
      <3> QED BY <1>1, <2>2, <3>1, <3>2, TimedIsAResult
    <2> QED BY <2>1, <2>2
  <1>5. \A r \in Timed({cur.reply.value, << >>}) : r \in HopResult
    <2>1. {cur.reply.value, << >>} \in SUBSET Text
      BY EmptyIsText DEF RunInv, RunTypes, Hops, HopResult
    <2> QED BY <1>1, <2>1, TimedIsAResult
  <1> QED BY <1>2, <1>3, <1>4, <1>5

\* What loadGolden returns: records of the file, each under its own id.
LEMMA LoadedGolden ==
  ASSUME LoadGolden
  PROVE  /\ records' \in Seq(GoldenRecord)
         /\ \A i, j \in DOMAIN records' : records'[i].id = records'[j].id => i = j
         /\ (pc' = "skipped" /\ records' = << >>) \/ (pc' = "stt" /\ Len(records') > 0)
  <1> DEFINE N == Cardinality(Usable)
  <1>1. N \in Nat /\ Usable \subseteq DOMAIN Golden
    BY UsableFinite
  <1>2. \A k \in DOMAIN Golden : Golden[k] \in GoldenRecord
    BY ReplayConstants
  <1>3. \A n \in 1..N : Place(n) \in DOMAIN Golden /\ Rank(Place(n)) = n
    BY <1>1, PlaceOf
  <1>4. records' = [n \in 1..N |-> Golden[Place(n)]]
    BY DEF LoadGolden
  <1> HIDE DEF N
  <1>5. records' \in Seq(GoldenRecord) /\ DOMAIN records' = 1..N /\ Len(records') = N
    BY <1>1, <1>2, <1>3, <1>4
  <1>6. \A i, j \in 1..N : records'[i].id = records'[j].id => i = j
    <2> SUFFICES ASSUME NEW i \in 1..N, NEW j \in 1..N, records'[i].id = records'[j].id PROVE i = j
      OBVIOUS
    <2>1. Golden[Place(i)].id = Golden[Place(j)].id
      BY <1>4
    <2>2. Place(i) = Place(j)
      BY <1>3, <2>1, ReplayConstants
    <2> QED BY <1>3, <2>2
  <1>7. records' # << >> => N > 0
    BY <1>1, <1>5
  <1> QED BY <1>5, <1>6, <1>7 DEF LoadGolden

LEMMA RunInit == Init => RunInv
  BY NothingIsTyped DEF Init, RunInv, RunTypes, IdsDiffer, InStep, AtAHop

\* A hop changes what is in the making, and nothing else that RunInv is about.
LEMMA RunHops ==
  ASSUME RunInv, Transcribe \/ Translate \/ Respond \/ RoundTrip
  PROVE  RunInv' /\ AtAHop /\ AtAHop'
  <1>1. AtAHop /\ AtAHop'
    BY DEF AtAHop, Transcribe, Translate, Respond, RoundTrip
  <1>2. cur' \in Hops
    <2>1. cur \in Hops
      BY DEF RunInv, RunTypes
    <2>2. CASE Transcribe
      <3>1. PICK r \in Transcripts(record.expected_transcript) : cur' = [cur EXCEPT !.stt = r]
        BY <2>2 DEF Transcribe
      <3>2. r \in HopResult
        BY <1>1, HopTypes
      <3> QED BY <2>1, <3>1, <3>2 DEF Hops
    <2>3. CASE Translate
      <3>1. PICK r \in Transcripts(record.reference_translation) :
              cur' = [cur EXCEPT !.translation = r]
        BY <2>3 DEF Translate
      <3>2. r \in HopResult
        BY <1>1, HopTypes
      <3> QED BY <2>1, <3>1, <3>2 DEF Hops
    <2>4. CASE Respond
      <3>1. PICK r \in Replies(cur.stt.value) : cur' = [cur EXCEPT !.reply = r]
        BY <2>4 DEF Respond
      <3>2. r \in HopResult
        BY <1>1, HopTypes
      <3> QED BY <2>1, <3>1, <3>2 DEF Hops
    <2>5. CASE RoundTrip
      <3>1. CASE UNCHANGED cur
        BY <2>1, <3>1
      <3>2. CASE cur.reply.value # << >> /\ \E r \in Timed({cur.reply.value, << >>}) :
                                              cur' = [cur EXCEPT !.roundTrip = {r}]
        <4>1. PICK r \in Timed({cur.reply.value, << >>}) : cur' = [cur EXCEPT !.roundTrip = {r}]
          BY <3>2
        <4>2. r \in HopResult
          BY <1>1, <3>2, HopTypes
        <4> QED BY <2>1, <4>1, <4>2 DEF Hops
      <3> QED BY <2>5, <3>1, <3>2 DEF RoundTrip
    <2> QED BY <2>2, <2>3, <2>4, <2>5
  <1>3. UNCHANGED runEvalVars
    BY DEF Transcribe, Translate, Respond, RoundTrip
  <1>4. pc' \in {"translation", "reply", "roundTrip", "intent"}
    BY DEF Transcribe, Translate, Respond, RoundTrip
  <1> QED BY <1>1, <1>2, <1>3, <1>4 DEF RunInv, RunTypes, IdsDiffer, InStep, runEvalVars

\* The result that Record makes of what the hops came to.
Made == [record |-> record, stt |-> cur.stt, translation |-> cur.translation,
         reply |-> cur.reply, roundTrip |-> cur.roundTrip]

LEMMA RecordedResult ==
  ASSUME RunInv, Record
  PROVE  /\ AtAHop
         /\ Made \in ReplayResult
         /\ results' = Append(results, Made)
         /\ Len(results') = Len(results) + 1
         /\ results'[Len(results) + 1] = Made
         /\ DOMAIN results = 1..Len(results) /\ DOMAIN results' = 1..(Len(results) + 1)
         /\ \A k \in DOMAIN results : results'[k] = results[k]
         /\ samples' = samples \cup SampleRows(Made)
  <1>1. AtAHop
    BY DEF Record, AtAHop
  <1>2. Made \in ReplayResult
    BY <1>1, RecordAtWork DEF Made, ReplayResult, RunInv, RunTypes, Hops
  <1>3. results' = Append(results, Made) /\ samples' = samples \cup SampleRows(Made)
    BY DEF Record, Made
  <1>4. results \in Seq(ReplayResult)
    BY DEF RunInv, RunTypes
  <1> QED BY <1>1, <1>2, <1>3, <1>4

LEMMA RunNext ==
  ASSUME RunInv, [Next]_vars
  PROVE  RunInv'
  <1>1. CASE LoadGolden
    <2>1. results = << >> /\ UNCHANGED <<judging, cur, results>>
      BY <1>1 DEF LoadGolden, RunInv, InStep
    <2> QED BY <1>1, <2>1, LoadedGolden DEF RunInv, RunTypes, IdsDiffer, InStep, AtAHop
  <1>2. CASE Transcribe \/ Translate \/ Respond \/ RoundTrip
    BY <1>2, RunHops
  <1>3. CASE ClassifyIntent
    BY <1>3 DEF ClassifyIntent, RunInv, RunTypes, IdsDiffer, InStep, AtAHop
  <1>4. CASE JudgeTranslation
    BY <1>4 DEF JudgeTranslation, RunInv, RunTypes, IdsDiffer, InStep, AtAHop
  <1>5. CASE Throws
    BY <1>5 DEF Throws, runEvalVars, RunInv, RunTypes, IdsDiffer, InStep, AtAHop
  <1>6. CASE Record
    <2>1. /\ results' \in Seq(ReplayResult) /\ Len(results') = Len(results) + 1
          /\ cur' \in Hops
          /\ UNCHANGED <<judging, records>>
          /\ Len(results) < Len(records) /\ Len(results) \in Nat /\ Len(records) \in Nat
      BY <1>6, RecordedResult, NothingIsTyped DEF Record, RunInv, RunTypes, InStep
    <2>2. \A k \in DOMAIN results' : results'[k].record = records'[k]
      <3> SUFFICES ASSUME NEW k \in DOMAIN results' PROVE results'[k].record = records[k]
        BY <2>1
      <3>1. CASE k \in DOMAIN results
        BY <1>6, <3>1, RecordedResult DEF RunInv, InStep
      <3>2. CASE k = Len(results) + 1
        BY <1>6, <3>2, RecordedResult, RecordAtWork DEF Made
      <3> QED BY <1>6, <2>1, <3>1, <3>2, RecordedResult
    <2>3. \/ pc' = "stt" /\ Len(results') < Len(records)
          \/ pc' = "scored" /\ ~(Len(results') < Len(records))
      BY <1>6 DEF Record
    <2>4. Len(results') <= Len(records') /\ (AtAHop' => Len(results') < Len(records'))
          /\ (pc' = "scored" => Len(results') = Len(records'))
      BY <2>1, <2>3 DEF AtAHop
    <2> QED BY <2>1, <2>2, <2>3, <2>4 DEF RunInv, RunTypes, IdsDiffer, InStep
  <1>7. CASE UNCHANGED vars
    BY <1>7 DEF vars, RunInv, RunTypes, IdsDiffer, InStep, AtAHop
  <1> QED BY <1>1, <1>2, <1>3, <1>4, <1>5, <1>6, <1>7 DEF Next

\* The results stand beside the records that they are of.
LEMMA ResultsInStep == Spec => []RunInv
  BY RunInit, RunNext, PTL DEF Spec

-----------------------------------------------------------------------------
(* The confusion matrix. *)

LEMMA SumOfZeros ==
  ASSUME NEW f, NEW S, IsFiniteSet(S), \A x \in S : f[x] = 0
  PROVE  SumFunctionOnSet(f, S) = 0
  <1> DEFINE D == SUBSET S
             mu == [s \in D |-> Cardinality(s)]
             Sum(s) == SumFunctionOnSet(f, s)
             bad == {s \in D : Sum(s) # 0}
  <1>1. \A s \in D : IsFiniteSet(s) /\ Cardinality(s) \in Nat /\ \A x \in s : f[x] \in Int
    BY FS_Subset, FS_CardinalityType
  <1>2. mu \in [D -> Nat]
    BY <1>1
  <1>3. ASSUME bad # {} PROVE FALSE
    <2>1. PICK s \in bad : \A t \in D : mu[t] < mu[s] => t \notin bad
      <3>1. bad \subseteq D
        OBVIOUS
      <3> HIDE DEF bad, D, mu
      <3> QED BY ONLY <1>3, <3>1, <1>2, LeastPlace
    <2>2. s # {}
      BY <2>1, SumNone
    <2>3. PICK x \in s : TRUE
      BY <2>2
    <2>4. s \ {x} \in D /\ mu[s \ {x}] < mu[s]
      <3>1. Cardinality(s \ {x}) = Cardinality(s) - 1
        BY <1>1, <2>1, FS_RemoveElement
      <3> QED BY <1>1, <2>1, <3>1
    <2>5. Sum(s) = f[x] + Sum(s \ {x})
      BY <1>1, <2>1, SumTakes
    <2>6. Sum(s \ {x}) = 0 /\ f[x] = 0
      BY <2>1, <2>4
    <2>7. Sum(s) # 0
      BY <2>1
    <2> HIDE DEF Sum
    <2> QED BY <2>5, <2>6, <2>7
  <1>4. S \in D /\ S \notin bad
    BY <1>3
  <1> QED BY <1>4

Predicted == Intent \cup {Nobody}

LEMMA PredictedFinite == IsFiniteSet(Intent) /\ IsFiniteSet(Predicted) /\ Intent \subseteq Predicted
  BY ReplayConstants, FS_AddElement DEF Predicted

ConfusionMatrix == [matrix : [Intent -> [Predicted -> Nat]], correct : Nat, total : Nat]

RowSum(c, e) == SumFunctionOnSet(c.matrix[e], Predicted)
Diagonal(c)  == [e \in Intent |-> c.matrix[e][e]]

\* The records that have been classified, and those among them that expect e.
Classified == Len(results) + (IF pc \in {"judge", "samples"} THEN 1 ELSE 0)
Expecting(e, n) == {k \in 1..n : records[k].expected_intent = e}

CountsAreRight(n) ==
  /\ confusion.total = n
  /\ \A e \in Intent : RowSum(confusion, e) = Cardinality(Expecting(e, n))
  /\ confusion.correct = SumFunctionOnSet(Diagonal(confusion), Intent)

\* The matrix has each record that has been classified once, in the row of its intent.
ClassInv ==
  /\ confusion \in ConfusionMatrix
  /\ pc # "died" => CountsAreRight(Classified)

\* What addToConfusion does to the sums.
LEMMA ConfusionGrows ==
  ASSUME NEW c \in ConfusionMatrix, NEW expected \in Intent, NEW p \in Predicted
  PROVE  LET new == AddToConfusion(c, expected, p)
         IN /\ new \in ConfusionMatrix
            /\ new.total = c.total + 1
            /\ new.correct = c.correct + (IF p = expected THEN 1 ELSE 0)
            /\ \A e \in Intent : RowSum(new, e) = RowSum(c, e) + (IF e = expected THEN 1 ELSE 0)
            /\ SumFunctionOnSet(Diagonal(new), Intent)
                 = SumFunctionOnSet(Diagonal(c), Intent) + (IF p = expected THEN 1 ELSE 0)
  <1> DEFINE new == AddToConfusion(c, expected, p)
             d == IF p = expected THEN 1 ELSE 0
  <1>1. /\ new \in ConfusionMatrix
        /\ new.total = c.total + 1
        /\ new.correct = c.correct + d
    <2> DEFINE row == [c.matrix[expected] EXCEPT ![p] = @ + 1]
               matrix == [c.matrix EXCEPT ![expected] = row]
    <2>1. c.matrix \in [Intent -> [Predicted -> Nat]] /\ c.correct \in Nat /\ c.total \in Nat
      BY DEF ConfusionMatrix
    <2>2. row \in [Predicted -> Nat]
      BY <2>1
    <2>3. matrix \in [Intent -> [Predicted -> Nat]]
      <3> HIDE DEF row
      <3> QED BY <2>1, <2>2
    <2>4. new = [matrix |-> matrix, correct |-> c.correct + d, total |-> c.total + 1]
      <3>1. new = [c EXCEPT !.matrix = matrix, !.total = @ + 1, !.correct = @ + d]
        BY DEF AddToConfusion
      <3> HIDE DEF matrix, new, d
      <3> QED BY <3>1 DEF ConfusionMatrix
    <2>5. d \in Nat
      OBVIOUS
    <2> HIDE DEF matrix, new, d
    <2> QED BY <2>1, <2>3, <2>4, <2>5 DEF ConfusionMatrix
  <1>2. /\ \A e \in Intent : c.matrix[e] \in [Predicted -> Nat]
        /\ \A e \in Intent : e # expected => new.matrix[e] = c.matrix[e]
        /\ \A q \in Predicted : new.matrix[expected][q] = IF q = p THEN c.matrix[expected][q] + 1
                                                         ELSE c.matrix[expected][q]
    BY DEF AddToConfusion, ConfusionMatrix
  <1>3. \A e \in Intent : c.matrix[e][e] \in Int
    BY <1>2, PredictedFinite
  <1> HIDE DEF new
  <1>4. ASSUME NEW e \in Intent
        PROVE  RowSum(new, e) = RowSum(c, e) + (IF e = expected THEN 1 ELSE 0)
    <2>1. CASE e = expected
      <3>1. SumFunctionOnSet(new.matrix[expected], Predicted)
              = SumFunctionOnSet(c.matrix[expected], Predicted) + 1
        <4> DEFINE old == c.matrix[expected]
                   grown == new.matrix[expected]
        <4>1. \A q \in Predicted : old[q] \in Int /\ grown[q] = IF q = p THEN old[q] + 1 ELSE old[q]
          BY <1>2
        <4> HIDE DEF old, grown
        <4>2. SumFunctionOnSet(grown, Predicted) = SumFunctionOnSet(old, Predicted) + 1
          BY <4>1, PredictedFinite, SumGrows
        <4> QED BY <4>2 DEF old, grown
      <3> QED BY <2>1, <3>1 DEF RowSum
    <2>2. CASE e # expected
      <3>1. RowSum(new, e) = RowSum(c, e)
        BY <1>2, <2>2 DEF RowSum
      <3>2. \A q \in Predicted : c.matrix[e][q] \in Int
        BY <1>2
      <3>3. RowSum(c, e) \in Int
        BY <3>2, PredictedFinite, SumType DEF RowSum
      <3> QED BY <2>2, <3>1, <3>3
    <2> QED BY <2>1, <2>2
  <1>5. SumFunctionOnSet(Diagonal(new), Intent) = SumFunctionOnSet(Diagonal(c), Intent) + d
    <2>1. \A e \in Intent : /\ Diagonal(c)[e] \in Int
                            /\ Diagonal(new)[e] = IF e = expected THEN Diagonal(c)[e] + d
                                                  ELSE Diagonal(c)[e]
      BY <1>2, <1>3, PredictedFinite DEF Diagonal
    <2>2. d \in Int
      OBVIOUS
    <2> HIDE DEF d
    <2> QED BY <2>1, <2>2, PredictedFinite, SumGrows
  <1> QED BY <1>1, <1>4, <1>5 DEF new

LEMMA ClassInit == Init => ClassInv
  <1> SUFFICES ASSUME Init PROVE ClassInv
    OBVIOUS
  <1>1. confusion = EmptyConfusion /\ Classified = 0
    BY DEF Init, Classified
  <1>2. confusion \in ConfusionMatrix
    BY <1>1, PredictedFinite DEF EmptyConfusion, ConfusionMatrix, Predicted
  <1>3. \A e \in Intent : RowSum(confusion, e) = 0
    <2> SUFFICES ASSUME NEW e \in Intent PROVE RowSum(confusion, e) = 0
      OBVIOUS
    <2>1. \A p \in Predicted : confusion.matrix[e][p] = 0
      BY <1>1 DEF EmptyConfusion, Predicted
    <2> QED BY <2>1, PredictedFinite, SumOfZeros DEF RowSum
  <1>4. SumFunctionOnSet(Diagonal(confusion), Intent) = 0
    <2>1. \A e \in Intent : Diagonal(confusion)[e] = 0
      BY <1>1 DEF EmptyConfusion, Diagonal
    <2> QED BY <2>1, PredictedFinite, SumOfZeros
  <1>5. \A e \in Intent : Cardinality(Expecting(e, 0)) = 0
    <2>1. \A e \in Intent : Expecting(e, 0) = {}
      BY DEF Expecting
    <2> QED BY <2>1, FS_EmptySet
  <1>6. confusion.total = 0 /\ confusion.correct = 0
    BY <1>1 DEF EmptyConfusion
  <1> QED BY <1>1, <1>2, <1>3, <1>4, <1>5, <1>6 DEF ClassInv, CountsAreRight

\* One more record: it expects what it expects.
LEMMA ExpectingMore ==
  ASSUME NEW n \in Nat, NEW e
  PROVE  /\ IsFiniteSet(Expecting(e, n))
         /\ Cardinality(Expecting(e, n)) \in Nat
         /\ Cardinality(Expecting(e, n + 1))
              = Cardinality(Expecting(e, n)) + (IF e = records[n + 1].expected_intent THEN 1 ELSE 0)
  <1>1. IsFiniteSet(1..n)
    BY FS_Interval
  <1>2. Expecting(e, n) \in SUBSET (1..n)
    BY DEF Expecting
  <1>3. IsFiniteSet(Expecting(e, n)) /\ Cardinality(Expecting(e, n)) \in Nat
    BY <1>1, <1>2, FS_Subset, FS_CardinalityType
  <1>4. CASE e = records[n + 1].expected_intent
    <2>1. Expecting(e, n + 1) = Expecting(e, n) \cup {n + 1} /\ n + 1 \notin Expecting(e, n)
      BY <1>4 DEF Expecting
    <2> QED BY <1>3, <1>4, <2>1, FS_AddElement
  <1>5. CASE e # records[n + 1].expected_intent
    <2>1. Expecting(e, n + 1) = Expecting(e, n)
      BY <1>5 DEF Expecting
    <2> QED BY <1>3, <1>5, <2>1
  <1> QED BY <1>3, <1>4, <1>5

LEMMA ClassNext ==
  ASSUME RunInv, ClassInv, [Next]_vars
  PROVE  ClassInv'
  <1>1. CASE ClassifyIntent
    <2>1. /\ AtAHop /\ pc = "intent" /\ pc' \in {"judge", "samples"}
          /\ UNCHANGED <<records, results>>
      BY <1>1 DEF ClassifyIntent, AtAHop
    <2> DEFINE e0 == record.expected_intent
    <2>2. PICK n \in Nat : Len(results) = n /\ Classified = n /\ Classified' = n + 1
      BY <2>1 DEF Classified, RunInv, RunTypes
    <2>3. e0 \in Intent /\ e0 = records[n + 1].expected_intent
      BY <2>1, <2>2, RecordAtWork DEF GoldenRecord
    <2>4. PICK p \in Predicted : confusion' = AddToConfusion(confusion, e0, p)
      BY <1>1, <2>1 DEF ClassifyIntent, Predictions, Predicted
    <2>5. confusion \in ConfusionMatrix /\ CountsAreRight(n)
      BY <2>1, <2>2 DEF ClassInv
    <2> HIDE DEF e0
    <2> DEFINE d == IF p = e0 THEN 1 ELSE 0
    <2>6. /\ confusion' \in ConfusionMatrix
          /\ confusion'.total = confusion.total + 1
          /\ confusion'.correct = confusion.correct + d
          /\ \A e \in Intent : RowSum(confusion', e) = RowSum(confusion, e) + (IF e = e0 THEN 1 ELSE 0)
          /\ SumFunctionOnSet(Diagonal(confusion'), Intent)
               = SumFunctionOnSet(Diagonal(confusion), Intent) + d
      BY <2>3, <2>4, <2>5, ConfusionGrows
    <2>7. \A e \in Intent : RowSum(confusion', e) = Cardinality(Expecting(e, n + 1))
      BY SMTT(30), <2>2, <2>3, <2>5, <2>6, ExpectingMore DEF CountsAreRight
    <2>8. confusion'.total = n + 1 /\ confusion'.correct = SumFunctionOnSet(Diagonal(confusion'), Intent)
      BY <2>5, <2>6 DEF CountsAreRight
    <2>9. \A e : Expecting(e, n + 1)' = Expecting(e, n + 1)
      BY <2>1 DEF Expecting
    <2>10. CountsAreRight(n + 1)'
      BY <2>7, <2>8, <2>9 DEF CountsAreRight, RowSum, Diagonal
    <2>11. CountsAreRight(Classified)' <=> CountsAreRight(n + 1)'
      BY <2>2 DEF CountsAreRight, Expecting
    <2> QED BY <2>6, <2>10, <2>11 DEF ClassInv
  <1>2. CASE LoadGolden
    <2>1. results = << >> /\ UNCHANGED <<confusion, results>> /\ pc = "load" /\ pc' \in {"skipped", "stt"}
      BY <1>2 DEF LoadGolden, RunInv, InStep
    <2>2. Classified = 0 /\ Classified' = 0
      BY <2>1 DEF Classified
    <2>3. \A e : Expecting(e, 0) = {} /\ Expecting(e, 0)' = {}
      BY DEF Expecting
    <2> QED BY <2>1, <2>2, <2>3 DEF ClassInv, CountsAreRight, RowSum, Diagonal
  <1>3. CASE Transcribe \/ Translate \/ Respond \/ RoundTrip \/ JudgeTranslation \/ Record
    <2>1. confusion' = confusion /\ records' = records /\ pc # "died" /\ pc' # "died"
      BY <1>3 DEF Transcribe, Translate, Respond, RoundTrip, JudgeTranslation, Record, runEvalVars
    <2>2. Classified' = Classified
      <3>1. CASE Record
        <4>1. Len(results') = Len(results) + 1 /\ Len(results) \in Nat
          BY <3>1, RecordedResult DEF RunInv, RunTypes
        <4> QED BY <3>1, <4>1 DEF Record, Classified
      <3>2. CASE Transcribe \/ Translate \/ Respond \/ RoundTrip \/ JudgeTranslation
        BY <3>2 DEF Transcribe, Translate, Respond, RoundTrip, JudgeTranslation, runEvalVars, Classified
      <3> QED BY <1>3, <3>1, <3>2
    <2> QED BY <2>1, <2>2 DEF ClassInv, CountsAreRight, RowSum, Diagonal, Expecting
  <1>4. CASE Throws
    BY <1>4 DEF Throws, runEvalVars, ClassInv
  <1>5. CASE UNCHANGED vars
    BY <1>5 DEF vars, ClassInv, CountsAreRight, Classified, RowSum, Diagonal, Expecting
  <1> QED BY <1>1, <1>2, <1>3, <1>4, <1>5 DEF Next

\* Every record of the language is in the confusion matrix once, in the row of its own
\* intent, and right only on the diagonal (addToConfusion, intent.ts; runEval): of any
\* golden set, whatever its hops came to.
THEOREM EveryRecordCounts == Spec => []EveryRecordIsClassified
  <1>1. RunInv /\ ClassInv => EveryRecordIsClassified
    <2> SUFFICES ASSUME RunInv, ClassInv, pc = "scored"
                 PROVE  /\ confusion.total = Len(records)
                        /\ \A e \in Intent :
                             SumFunction(confusion.matrix[e])
                               = Cardinality({k \in DOMAIN records : records[k].expected_intent = e})
                        /\ confusion.correct = SumFunction([e \in Intent |-> confusion.matrix[e][e]])
      BY DEF EveryRecordIsClassified
    <2>1. Classified = Len(records) /\ DOMAIN records = 1..Len(records)
      BY DEF Classified, RunInv, RunTypes, InStep
    <2>2. CountsAreRight(Len(records))
      BY <2>1 DEF ClassInv
    <2>3. \A e \in Intent : DOMAIN confusion.matrix[e] = Predicted
      BY DEF ClassInv, ConfusionMatrix
    <2>4. \A e \in Intent : SumFunction(confusion.matrix[e]) = RowSum(confusion, e)
      BY <2>3 DEF SumFunction, RowSum
    <2>5. SumFunction(Diagonal(confusion)) = SumFunctionOnSet(Diagonal(confusion), Intent)
      BY DEF SumFunction, Diagonal
    <2> QED BY <2>1, <2>2, <2>4, <2>5 DEF CountsAreRight, Diagonal, Expecting
  <1> QED BY RunInit, RunNext, ClassInit, ClassNext, <1>1, PTL DEF Spec

-----------------------------------------------------------------------------
(* The rows that scoreLanguage writes, and what is in them. *)

LEMMA SttRows ==
  ASSUME NEW rs, NEW s \in SttScores(rs)
  PROVE  LET subset == {k \in DOMAIN rs : InSlice(rs[k].record, s.slice)}
         IN \/ s.metric = "wer" /\ s.n = Cardinality(subset)
            \/ /\ s.metric = "empty_transcript_rate"
               /\ s.value = <<Cardinality({k \in subset : rs[k].stt.value = << >>}), Cardinality(subset)>>
  <1> DEFINE Kept(slice) == {k \in DOMAIN rs : InSlice(rs[k].record, slice)}
             subset(slice) == [k \in Kept(slice) |-> rs[k]]
             wers(slice) == [k \in DOMAIN subset(slice) |->
                               ErrorRate(subset(slice)[k].record.expected_transcript,
                                         subset(slice)[k].stt.value)]
             n(slice) == Cardinality(DOMAIN subset(slice))
             empty(slice) == {k \in DOMAIN subset(slice) : subset(slice)[k].stt.value = << >>}
             share(slice) == <<Cardinality(DOMAIN [k \in empty(slice) |-> subset(slice)[k]]), n(slice)>>
  <1>1. PICK slice \in Slices :
          s \in { Score("stt", "wer", slice, AggregateErrorRate(wers(slice)), n(slice)),
                  Score("stt", "empty_transcript_rate", slice, share(slice), n(slice)) }
    BY Zenon DEF SttScores, RestrictValues, Restrict, Each, ShareOf, Size
  <1>2. DOMAIN subset(slice) = Kept(slice)
    OBVIOUS
  <1>3. empty(slice) = {k \in Kept(slice) : rs[k].stt.value = << >>}
    OBVIOUS
  <1>4. DOMAIN [k \in empty(slice) |-> subset(slice)[k]] = empty(slice)
    OBVIOUS
  <1>5. share(slice) = <<Cardinality({k \in Kept(slice) : rs[k].stt.value = << >>}),
                         Cardinality(Kept(slice))>>
    BY <1>2, <1>3, <1>4
  <1>6. n(slice) = Cardinality(Kept(slice))
    BY <1>2
  <1> HIDE DEF wers, n, share
  <1>7. s.slice = slice
    BY <1>1 DEF Score
  <1> QED BY <1>1, <1>5, <1>6, <1>7 DEF Score

\* The results that the judge has answered for.
Answered(rs) == {k \in DOMAIN rs : IsJudged(rs[k])}

\* The replies that were spoken, and heard back.
Returned(rs) == {k \in DOMAIN rs : CameRound(rs[k])}

LEMMA TranslationRows ==
  ASSUME NEW rs, NEW s \in TranslationScores(rs)
  PROVE  LET n == Cardinality(Answered(rs))
             size == Cardinality(DOMAIN verdicts)
         IN \/ s.metric = "chrf" /\ s.n = Cardinality(DOMAIN rs)
            \/ s.metric \in {"judge_adequacy", "judge_fluency"} /\ s.n = n
            \/ s.metric = "judge_unparseable_rate" /\ n # 0 /\ s.value = <<size - n, size>>
            \/ s.metric \in {"chrf_judge_spearman", "chrf_judge_pearson"} /\ s.n = n
  <1> DEFINE judged == [k \in Answered(rs) |-> rs[k]]
             n == Cardinality(DOMAIN judged)
             size == Cardinality(DOMAIN verdicts)
             chrf == Mean([k \in DOMAIN rs |-> ChrfOf(rs[k])])
             adequacy == Mean([k \in DOMAIN judged |-> <<verdicts[judged[k].record.id].adequacy, 1>>])
             fluency == Mean([k \in DOMAIN judged |-> <<verdicts[judged[k].record.id].fluency, 1>>])
  <1>1. \/ s = Score("llm", "chrf", "all", chrf, Cardinality(DOMAIN rs))
        \/ /\ n # 0
           /\ s \in { Score("llm", "judge_adequacy", "all", adequacy, n),
                      Score("llm", "judge_fluency", "all", fluency, n),
                      Score("llm", "judge_unparseable_rate", "all", <<size - n, size>>, size) }
        \/ s \in {Score("llm", metric, "all", NoValue, n) :
                    metric \in {"chrf_judge_spearman", "chrf_judge_pearson"}}
    BY Zenon DEF TranslationScores, RestrictValues, Restrict, Each, Size, Answered
  <1>2. DOMAIN judged = Answered(rs)
    OBVIOUS
  <1> HIDE DEF judged, chrf, adequacy, fluency, size
  <1> QED BY <1>1, <1>2 DEF Score, size

LEMMA RoundTripRows ==
  ASSUME NEW rs
  PROVE  LET trips == [k \in Returned(rs) |-> rs[k]]
         IN /\ Cardinality(Returned(rs)) = 0 => RoundTripScores(rs) = {}
            /\ Cardinality(Returned(rs)) # 0 =>
                 RoundTripScores(rs)
                   = { Score("tts", "round_trip_wer", "all",
                             AggregateErrorRate([k \in Returned(rs) |-> RoundTripEdits(rs[k])]),
                             Cardinality(Returned(rs))) }
  <1> DEFINE trips == [k \in Returned(rs) |-> rs[k]]
             n == Cardinality(DOMAIN trips)
             edits == [k \in DOMAIN trips |-> RoundTripEdits(trips[k])]
  <1>1. RoundTripScores(rs)
          = IF n = 0 THEN {} ELSE {Score("tts", "round_trip_wer", "all", AggregateErrorRate(edits), n)}
    BY Zenon DEF RoundTripScores, RestrictValues, Restrict, Each, Size, Returned
  <1>2. DOMAIN trips = Returned(rs) /\ edits = [k \in Returned(rs) |-> RoundTripEdits(rs[k])]
    OBVIOUS
  <1> HIDE DEF trips, edits
  <1> QED BY <1>1, <1>2

LEMMA LatencyRows ==
  ASSUME NEW rs, NEW hop, NEW s \in LatencyScores(hop, rs)
  PROVE  s.metric \in {"ttfb_p50", "ttfb_p95", "ttfb_p99"}
  <1> DEFINE ttfb == Percentiles([k \in DOMAIN rs |-> HopOf(hop, rs[k]).ttfb])
  <1>1. s \in { Score(hop, "ttfb_p50", "all", <<ttfb.p50, 100>>, ttfb.n),
                Score(hop, "ttfb_p95", "all", <<ttfb.p95, 100>>, ttfb.n),
                Score(hop, "ttfb_p99", "all", <<ttfb.p99, 100>>, ttfb.n) }
    BY Zenon DEF LatencyScores, Each
  <1> HIDE DEF ttfb
  <1> QED BY <1>1 DEF Score

LEMMA FailureRow ==
  ASSUME NEW rs, NEW hop
  PROVE  FailureScore(hop, rs)
           = Score(hop, "error_rate", "all",
                   <<Cardinality({k \in DOMAIN rs : HopOf(hop, rs[k]).failed}), Cardinality(DOMAIN rs)>>,
                   Cardinality(DOMAIN rs))
  <1> DEFINE failed == {k \in DOMAIN rs : HopOf(hop, rs[k]).failed}
             share == <<Cardinality(DOMAIN [k \in failed |-> rs[k]]), Cardinality(DOMAIN rs)>>
  <1>1. FailureScore(hop, rs) = Score(hop, "error_rate", "all", share, Cardinality(DOMAIN rs))
    BY Zenon DEF FailureScore, ShareOf, RestrictValues, Restrict, Size
  <1>2. DOMAIN [k \in failed |-> rs[k]] = failed
    OBVIOUS
  <1> QED BY <1>1, <1>2

\* What the rows of a set of results say of them, so far as the properties read it.
SumsUp(s, rs) ==
  LET size == Cardinality(DOMAIN rs)
      n == Cardinality(Answered(rs))
  IN /\ s.metric = "wer" /\ s.slice = "all" => s.n = size
     /\ s.metric = "chrf" => s.n = size
     /\ s.metric = "empty_transcript_rate" /\ s.slice = "all" =>
          s.value = <<Cardinality({k \in DOMAIN rs : rs[k].stt.value = << >>}), size>>
     /\ s.metric = "error_rate" /\ s.hop = "llm" =>
          s.value = <<Cardinality({k \in DOMAIN rs : rs[k].reply.failed}), size>>
     /\ s.metric = "intent_accuracy" => s.value = <<confusion.correct, confusion.total>>
     /\ s.metric = "round_trip_wer" =>
          /\ s.n = Cardinality(Returned(rs))
          /\ s.value = AggregateErrorRate([k \in Returned(rs) |-> RoundTripEdits(rs[k])])
     /\ s.metric \in {"judge_adequacy", "chrf_judge_spearman"} => s.n = n
     /\ s.metric = "judge_unparseable_rate" =>
          n # 0 /\ s.value = <<Cardinality(DOMAIN verdicts) - n, Cardinality(DOMAIN verdicts)>>

LEMMA RowsSumUp ==
  ASSUME NEW rs
  PROVE  /\ \A s \in ScoreLanguage(rs) : SumsUp(s, rs)
         /\ Cardinality(Returned(rs)) # 0 => \E s \in ScoreLanguage(rs) :
                                               s.metric = "round_trip_wer" /\ s.slice = "all"
  <1>1. ASSUME NEW s \in SttScores(rs) PROVE SumsUp(s, rs)
    <2>1. {k \in DOMAIN rs : InSlice(rs[k].record, "all")} = DOMAIN rs
      BY DEF InSlice
    <2> DEFINE subset == {k \in DOMAIN rs : InSlice(rs[k].record, s.slice)}
               empty == <<Cardinality({k \in subset : rs[k].stt.value = << >>}), Cardinality(subset)>>
    <2>2. \/ s.metric = "wer" /\ s.n = Cardinality(subset)
          \/ s.metric = "empty_transcript_rate" /\ s.value = empty
      BY SttRows
    <2>3. s.slice = "all" => subset = DOMAIN rs
      BY <2>1
    <2>4. s.slice = "all" =>
            empty = <<Cardinality({k \in DOMAIN rs : rs[k].stt.value = << >>}), Cardinality(DOMAIN rs)>>
      BY <2>3
    <2> HIDE DEF subset, empty
    <2> QED BY <2>2, <2>3, <2>4 DEF SumsUp
  <1>2. ASSUME NEW s \in TranslationScores(rs) PROVE SumsUp(s, rs)
    BY TranslationRows DEF SumsUp
  <1>3. ASSUME NEW s \in IntentScores PROVE SumsUp(s, rs)
    BY DEF IntentScores, Score, SumsUp
  <1>4. ASSUME NEW s \in RoundTripScores(rs) PROVE SumsUp(s, rs)
    BY RoundTripRows DEF Score, SumsUp
  <1>5. ASSUME NEW hop \in {"stt", "llm", "tts"}, NEW s \in LatencyScores(hop, rs)
        PROVE  SumsUp(s, rs)
    BY LatencyRows DEF SumsUp
  <1>6. ASSUME NEW hop \in {"stt", "llm", "tts"} PROVE SumsUp(FailureScore(hop, rs), rs)
    <2> DEFINE s == FailureScore(hop, rs)
    <2>1. s.metric = "error_rate" /\ s.hop = hop
      BY FailureRow DEF Score
    <2>2. hop = "llm" =>
            s.value = <<Cardinality({k \in DOMAIN rs : rs[k].reply.failed}), Cardinality(DOMAIN rs)>>
      BY FailureRow DEF Score, HopOf
    <2> HIDE DEF s
    <2> QED BY <2>1, <2>2 DEF SumsUp, s
  <1>7. \A s \in ScoreLanguage(rs) :
          \/ s \in SttScores(rs) \/ s \in TranslationScores(rs) \/ s \in IntentScores
          \/ s \in RoundTripScores(rs)
          \/ \E hop \in {"stt", "llm", "tts"} :
               s \in LatencyScores(hop, rs) \/ s = FailureScore(hop, rs)
    BY Zenon DEF ScoreLanguage
  <1>8. \A s \in ScoreLanguage(rs) : SumsUp(s, rs)
    BY <1>1, <1>2, <1>3, <1>4, <1>5, <1>6, <1>7
  <1>9. ASSUME Cardinality(Returned(rs)) # 0
        PROVE  \E s \in ScoreLanguage(rs) : s.metric = "round_trip_wer" /\ s.slice = "all"
    <2> DEFINE s == Score("tts", "round_trip_wer", "all",
                          AggregateErrorRate([k \in Returned(rs) |-> RoundTripEdits(rs[k])]),
                          Cardinality(Returned(rs)))
    <2>1. s \in RoundTripScores(rs)
      BY <1>9, RoundTripRows
    <2>2. s \in ScoreLanguage(rs)
      BY <2>1, Zenon DEF ScoreLanguage
    <2>3. s.metric = "round_trip_wer" /\ s.slice = "all"
      BY DEF Score
    <2> HIDE DEF s
    <2> QED BY <2>2, <2>3
  <1> QED BY <1>8, <1>9

\* There are no rows until the last record is done, and then they sum up the results.
ScoreInv ==
  /\ pc # "scored" => scores = {}
  /\ pc = "scored" =>
       /\ \A s \in scores : SumsUp(s, results)
       /\ Cardinality(Returned(results)) # 0 =>
            \E s \in scores : s.metric = "round_trip_wer" /\ s.slice = "all"

LEMMA ScoreInit == Init => ScoreInv
  BY DEF Init, ScoreInv

LEMMA ScoreNext ==
  ASSUME RunInv, ScoreInv, [Next]_vars
  PROVE  ScoreInv'
  <1>1. CASE Record
    <2>1. UNCHANGED <<verdicts, confusion>>
      BY <1>1 DEF Record
    <2>2. CASE pc' = "scored"
      <3>1. scores' = ScoreLanguage(results')
        BY <1>1, <2>2 DEF Record
      <3>2. PICK rs : rs = results'
        OBVIOUS
      <3>3. /\ \A s \in scores' : SumsUp(s, rs)
            /\ Cardinality(Returned(rs)) # 0 =>
                 \E s \in scores' : s.metric = "round_trip_wer" /\ s.slice = "all"
        BY <3>1, <3>2, RowsSumUp
      <3>4. /\ Returned(rs) = Returned(results)'
            /\ Answered(rs) = Answered(results)'
        BY <2>1, <3>2 DEF Returned, Answered, IsJudged
      <3>5. \A s : SumsUp(s, rs) <=> SumsUp(s, results)'
        BY <2>1, <3>2, <3>4 DEF SumsUp
      <3> QED BY <2>2, <3>3, <3>4, <3>5 DEF ScoreInv
    <2>3. CASE pc' # "scored"
      BY <1>1, <2>3 DEF Record, ScoreInv
    <2> QED BY <2>2, <2>3
  <1>2. CASE Transcribe \/ Translate \/ Respond \/ RoundTrip \/ ClassifyIntent
               \/ JudgeTranslation \/ LoadGolden \/ Throws
    BY <1>2 DEF Transcribe, Translate, Respond, RoundTrip, ClassifyIntent, JudgeTranslation,
                LoadGolden, Throws, runEvalVars, ScoreInv
  <1>3. CASE UNCHANGED vars
    BY ZenonT(40), <1>3 DEF vars, ScoreInv, SumsUp, Returned, Answered, IsJudged
  <1> QED BY <1>1, <1>2, <1>3 DEF Next

-----------------------------------------------------------------------------
(* An outage of the ears. *)

Hearing == {k \in DOMAIN results : results[k].stt.value # << >>}

\* Behind an empty transcript every hop fails or is left out, and no intent is right.
DeafInv ==
  /\ pc \in {"load", "stt", "translation", "reply", "roundTrip"} => cur.roundTrip = {}
  /\ pc \in {"roundTrip", "intent", "judge", "samples"} /\ cur.stt.value = << >> =>
       cur.reply.failed /\ cur.reply.value = << >>
  /\ pc \in {"intent", "judge", "samples"} /\ cur.stt.value = << >> => cur.roundTrip = {}
  /\ \A k \in DOMAIN results :
       results[k].stt.value = << >> => results[k].reply.failed /\ results[k].roundTrip = {}
  /\ pc # "died" =>
       confusion.correct
         <= Cardinality(Hearing) + (IF pc \in {"judge", "samples"} /\ cur.stt.value # << >> THEN 1 ELSE 0)

LEMMA HearingFinite ==
  ASSUME RunInv
  PROVE  IsFiniteSet(Hearing) /\ Cardinality(Hearing) \in Nat
  <1>1. IsFiniteSet(1..Len(results)) /\ Hearing \in SUBSET (1..Len(results))
    BY FS_Interval DEF RunInv, RunTypes, Hearing
  <1> QED BY <1>1, FS_Subset, FS_CardinalityType

LEMMA DeafInit == Init => DeafInv
  <1> SUFFICES ASSUME Init PROVE DeafInv
    OBVIOUS
  <1>1. Hearing = {} /\ Cardinality({}) = 0
    BY FS_EmptySet DEF Init, Hearing
  <1> QED BY <1>1, NothingIsTyped DEF Init, DeafInv, EmptyConfusion

LEMMA DeafNext ==
  ASSUME RunInv, DeafInv, ClassInv, [Next]_vars
  PROVE  DeafInv'
  <1>1. Cardinality(Hearing) \in Nat /\ confusion.correct \in Nat
    BY HearingFinite DEF ClassInv, ConfusionMatrix
  <1>2. CASE LoadGolden
    BY <1>2 DEF LoadGolden, DeafInv, Hearing
  <1>3. CASE Transcribe
    <2>1. PICK r : cur' = [cur EXCEPT !.stt = r]
      BY <1>3 DEF Transcribe
    <2> QED BY <1>3, <2>1 DEF Transcribe, runEvalVars, DeafInv, Hearing, RunInv, RunTypes, Hops
  <1>4. CASE Translate
    <2>1. PICK r : cur' = [cur EXCEPT !.translation = r]
      BY <1>4 DEF Translate
    <2> QED BY <1>4, <2>1 DEF Translate, runEvalVars, DeafInv, Hearing, RunInv, RunTypes, Hops
  <1>5. CASE Respond
    <2>1. PICK r \in Replies(cur.stt.value) : cur' = [cur EXCEPT !.reply = r]
      BY <1>5 DEF Respond
    <2>2. AtAHop
      BY <1>5 DEF Respond, AtAHop
    <2>3. cur.stt.value = << >> => r.failed /\ r.value = << >>
      BY <2>2, HopTypes
    <2> QED BY <1>5, <2>1, <2>3 DEF Respond, runEvalVars, DeafInv, Hearing, RunInv, RunTypes, Hops
  <1>6. CASE RoundTrip
    <2>1. \/ cur' = cur
          \/ cur.reply.value # << >> /\ \E r : cur' = [cur EXCEPT !.roundTrip = {r}]
      BY <1>6 DEF RoundTrip
    <2>2. /\ cur'.stt = cur.stt /\ cur'.reply = cur.reply
          /\ cur.reply.value = << >> => cur'.roundTrip = cur.roundTrip
      BY <2>1 DEF RunInv, RunTypes, Hops
    <2> QED BY <1>6, <2>2 DEF RoundTrip, runEvalVars, DeafInv, Hearing
  <1>7. CASE ClassifyIntent
    <2>1. AtAHop /\ pc = "intent" /\ pc' \in {"judge", "samples"} /\ UNCHANGED <<cur, results>>
      BY <1>7 DEF ClassifyIntent, AtAHop
    <2> DEFINE e0 == record.expected_intent
    <2>2. PICK p \in Predictions(cur.stt.value) : confusion' = AddToConfusion(confusion, e0, p)
      BY <1>7 DEF ClassifyIntent
    <2>3. e0 \in Intent
      BY <2>1, RecordAtWork DEF GoldenRecord
    <2>4. p \in Predicted
      BY DEF Predictions, Predicted
    <2> HIDE DEF e0
    <2>5. confusion'.correct = confusion.correct + (IF p = e0 THEN 1 ELSE 0)
      BY <2>2, <2>3, <2>4, ConfusionGrows DEF ClassInv
    <2>6. cur.stt.value = << >> => p # e0
      BY <2>3, ReplayConstants DEF Predictions
    <2> QED BY <1>1, <2>1, <2>5, <2>6 DEF DeafInv, Hearing
  <1>8. CASE JudgeTranslation
    BY <1>8 DEF JudgeTranslation, DeafInv, Hearing
  <1>9. CASE Throws
    BY <1>9 DEF Throws, runEvalVars, DeafInv
  <1>10. CASE Record
    <2> DEFINE n == Len(results)
               heard == Cardinality(Hearing)
    <2>1. /\ cur'.roundTrip = {}
          /\ pc = "samples" /\ pc' \in {"stt", "scored"}
          /\ confusion' = confusion
      BY <1>10, NothingIsTyped DEF Record
    <2>2. \A k \in DOMAIN results' :
            results'[k].stt.value = << >> => results'[k].reply.failed /\ results'[k].roundTrip = {}
      <3> SUFFICES ASSUME NEW k \in DOMAIN results', results'[k].stt.value = << >>
                   PROVE  results'[k].reply.failed /\ results'[k].roundTrip = {}
        OBVIOUS
      <3>1. CASE k \in DOMAIN results
        BY <1>10, <3>1, RecordedResult DEF DeafInv
      <3>2. CASE k = Len(results) + 1
        BY <1>10, <2>1, <3>2, RecordedResult DEF DeafInv, Made
      <3> QED BY <1>10, <3>1, <3>2, RecordedResult DEF RunInv, RunTypes
    <2>3. n \in Nat /\ n + 1 \notin Hearing
      BY <1>10, RecordedResult DEF Hearing, RunInv, RunTypes
    <2>4. Hearing' = IF cur.stt.value # << >> THEN Hearing \cup {n + 1} ELSE Hearing
      <3>1. \A k \in DOMAIN results' : k \in DOMAIN results \/ k = n + 1
        BY <1>10, RecordedResult DEF RunInv, RunTypes
      <3>2. /\ DOMAIN results \subseteq DOMAIN results' /\ n + 1 \in DOMAIN results'
            /\ results'[n + 1].stt = cur.stt
            /\ \A k \in DOMAIN results : results'[k] = results[k]
        BY <1>10, <2>3, RecordedResult DEF Made
      <3> HIDE DEF n
      <3> QED BY <3>1, <3>2 DEF Hearing
    <2>5. Cardinality(Hearing') = heard + (IF cur.stt.value # << >> THEN 1 ELSE 0)
      <3> HIDE DEF n
      <3>1. CASE cur.stt.value # << >>
        <4>1. Cardinality(Hearing \cup {n + 1}) = heard + 1
          BY <2>3, HearingFinite, FS_AddElement
        <4> QED BY <2>4, <3>1, <4>1
      <3>2. CASE cur.stt.value = << >>
        BY <1>1, <2>4, <3>2
      <3> QED BY <3>1, <3>2
    <2>6. confusion'.correct <= Cardinality(Hearing')
      BY <2>1, <2>5 DEF DeafInv
    <2>7. Cardinality(Hearing') = Cardinality(Hearing)' /\ Cardinality(Hearing') \in Nat
      BY <1>1, <2>5
    <2> QED BY <1>1, <2>1, <2>2, <2>6, <2>7 DEF DeafInv
  <1>11. CASE UNCHANGED vars
    BY <1>11 DEF vars, DeafInv, Hearing
  <1> QED BY <1>2, <1>3, <1>4, <1>5, <1>6, <1>7, <1>8, <1>9, <1>10, <1>11 DEF Next

LEMMA TimesIsMonotone ==
  ASSUME NEW a \in Int, NEW b \in Int, NEW n \in Nat, a <= b
  PROVE  a * n <= b * n
  OBVIOUS

\* An outage of the ears shows in every score behind them, of any golden set and however
\* the model and the voice do (runRecord, pipeline.ts; scoreLanguage, run.ts).
THEOREM DeafnessShows == Spec => []DeafnessShowsDownstream
  <1>1. RunInv /\ ClassInv /\ ScoreInv /\ DeafInv => DeafnessShowsDownstream
    <2> SUFFICES ASSUME RunInv, ClassInv, ScoreInv, DeafInv,
                        NEW deaf \in ScoredAs("empty_transcript_rate")
                 PROVE  LET hears == <<deaf.value[2] - deaf.value[1], deaf.value[2]>>
                        IN /\ \A s \in ScoredAs("error_rate") : s.hop = "llm" => AtMost(deaf.value, s.value)
                           /\ \A s \in ScoredAs("intent_accuracy") : AtMost(s.value, hears)
                           /\ \A s \in ScoredAs("round_trip_wer") : AtMost(<<s.n, Len(records)>>, hears)
      BY DEF DeafnessShowsDownstream
    <2>1. deaf \in scores /\ pc = "scored" /\ \A s \in scores : SumsUp(s, results)
      BY DEF ScoredAs, ScoreInv
    <2> DEFINE N == Len(results)
               silent == {k \in DOMAIN results : results[k].stt.value = << >>}
               failing == {k \in DOMAIN results : results[k].reply.failed}
               d == Cardinality(silent)
               f == Cardinality(failing)
               h == Cardinality(Hearing)
               n == Cardinality(Returned(results))
    <2>2. /\ DOMAIN results = 1..N /\ N \in Nat /\ Len(records) = N
          /\ IsFiniteSet(DOMAIN results) /\ Cardinality(DOMAIN results) = N
      <3>1. DOMAIN results = 1..N /\ N \in Nat /\ Len(records) = N
        BY <2>1 DEF RunInv, RunTypes, InStep
      <3>2. IsFiniteSet(1..N) /\ Cardinality(1..N) = N
        <4> HIDE DEF N
        <4> QED BY <3>1, FS_Interval
      <3> QED BY <3>1, <3>2
    <2>3. d = N - h
      <3>1. silent = DOMAIN results \ Hearing /\ (DOMAIN results) \cap Hearing = Hearing
        BY DEF Hearing
      <3>2. Cardinality(DOMAIN results \ Hearing)
              = Cardinality(DOMAIN results) - Cardinality((DOMAIN results) \cap Hearing)
        BY <2>2, FS_Difference
      <3> HIDE DEF silent
      <3> QED BY <2>2, <3>1, <3>2
    <2>4. IsFiniteSet(Hearing) /\ h \in Nat
      BY HearingFinite
    <2>5. d <= f /\ f \in Nat
      <3>1. silent \in SUBSET failing /\ failing \in SUBSET (DOMAIN results)
        BY DEF DeafInv
      <3>2. IsFiniteSet(failing)
        BY <2>2, <3>1, FS_Subset
      <3> QED BY <3>1, <3>2, FS_Subset, FS_CardinalityType
    <2>6. n <= h /\ n \in Nat
      <3>1. Returned(results) \in SUBSET Hearing
        BY DEF Returned, CameRound, Hearing, DeafInv
      <3> QED BY <2>4, <3>1, FS_Subset, FS_CardinalityType
    <2>7. confusion.correct <= h /\ confusion.correct \in Nat /\ confusion.total = N
      <3>1. Classified = N
        BY <2>1, <2>2 DEF Classified
      <3> QED BY <2>1, <2>4, <3>1 DEF DeafInv, ClassInv, CountsAreRight, ConfusionMatrix
    <2>8. deaf.value = <<d, N>>
      BY <2>1, <2>2 DEF ScoredAs, SumsUp
    <2>9. ASSUME NEW s \in ScoredAs("error_rate"), s.hop = "llm" PROVE AtMost(deaf.value, s.value)
      <3>1. s.value = <<f, N>>
        BY <2>1, <2>2, <2>9 DEF ScoredAs, SumsUp
      <3> HIDE DEF d, f, h, N
      <3>2. d * N <= f * N
        BY <2>2, <2>3, <2>4, <2>5, TimesIsMonotone
      <3> QED BY <2>8, <3>1, <3>2 DEF AtMost
    <2>10. ASSUME NEW s \in ScoredAs("intent_accuracy")
           PROVE  AtMost(s.value, <<deaf.value[2] - deaf.value[1], deaf.value[2]>>)
      <3>1. s.value = <<confusion.correct, N>>
        BY <2>1, <2>7 DEF ScoredAs, SumsUp
      <3> HIDE DEF d, h, N
      <3>2. confusion.correct * N <= h * N /\ N - d = h
        BY <2>2, <2>3, <2>4, <2>7, TimesIsMonotone
      <3> QED BY <2>8, <3>1, <3>2 DEF AtMost
    <2>11. ASSUME NEW s \in ScoredAs("round_trip_wer")
           PROVE  AtMost(<<s.n, Len(records)>>, <<deaf.value[2] - deaf.value[1], deaf.value[2]>>)
      <3>1. s.n = n
        BY <2>1 DEF ScoredAs, SumsUp
      <3> HIDE DEF d, h, N, n
      <3>2. n * N <= h * N /\ N - d = h
        BY <2>2, <2>3, <2>4, <2>6, TimesIsMonotone
      <3> QED BY <2>2, <2>8, <3>1, <3>2 DEF AtMost
    <2> QED BY <2>9, <2>10, <2>11
  <1> QED BY RunInit, RunNext, ClassInit, ClassNext, ScoreInit, ScoreNext, DeafInit, DeafNext,
             <1>1, PTL DEF Spec

-----------------------------------------------------------------------------
(* The samples. *)

\* The judge has been asked about the records so far, if it is asked at all.
Judged == Len(results) + (IF pc = "samples" THEN 1 ELSE 0)

VerdictInv ==
  /\ pc = "judge" => judging
  /\ pc # "died" => DOMAIN verdicts = IF judging THEN {records[k].id : k \in 1..Judged} ELSE {}

\* A reply is spoken once.
TripInv ==
  /\ cur.roundTrip = {} \/ \E t : cur.roundTrip = {t}
  /\ \A k \in DOMAIN results : results[k].roundTrip = {} \/ \E t : results[k].roundTrip = {t}

\* A result's sample rows say what its verdict says to the end.
SampleInv == pc # "died" => samples = UNION {SampleRows(results[k]) : k \in DOMAIN results}

LEMMA SampleInit == Init => VerdictInv /\ TripInv /\ SampleInv
  <1> SUFFICES ASSUME Init PROVE VerdictInv /\ TripInv /\ SampleInv
    OBVIOUS
  <1>1. Judged = 0 /\ DOMAIN verdicts = {} /\ DOMAIN results = {} /\ samples = {}
    BY DEF Init, Judged
  <1>2. {records[k].id : k \in 1..0} = {}
    OBVIOUS
  <1>3. UNION {SampleRows(results[k]) : k \in DOMAIN results} = {}
    BY <1>1
  <1> QED BY <1>1, <1>2, <1>3, NothingIsTyped DEF Init, VerdictInv, TripInv, SampleInv

LEMMA VerdictsGrow ==
  ASSUME NEW f, NEW x, NEW v
  PROVE  /\ DOMAIN Put(f, x, v) = DOMAIN f \cup {x}
         /\ \A y \in DOMAIN f : y # x => Put(f, x, v)[y] = f[y]
  BY DEF Put

LEMMA VerdictNext ==
  ASSUME RunInv, VerdictInv, [Next]_vars
  PROVE  VerdictInv'
  <1>1. CASE JudgeTranslation
    <2>1. AtAHop /\ pc = "judge" /\ pc' = "samples" /\ UNCHANGED <<judging, records, results>> /\ judging
      BY <1>1 DEF JudgeTranslation, AtAHop, VerdictInv
    <2>2. PICK v : verdicts' = Put(verdicts, record.id, v)
      BY <1>1 DEF JudgeTranslation
    <2>3. PICK n \in Nat : Len(results) = n /\ Judged = n /\ Judged' = n + 1
      BY <2>1 DEF Judged, RunInv, RunTypes
    <2>4. DOMAIN verdicts' = {records[k].id : k \in 1..n} \cup {record.id}
      <3>1. DOMAIN verdicts = {records[k].id : k \in 1..n}
        BY <2>1, <2>3 DEF VerdictInv
      <3>2. DOMAIN verdicts' = DOMAIN verdicts \cup {record.id}
        BY <2>2 DEF Put
      <3> QED BY <3>1, <3>2
    <2>5. record.id = records[n + 1].id
      BY <2>1, <2>3, RecordAtWork
    <2>6. DOMAIN verdicts' = {records[k].id : k \in 1..(n + 1)}
      BY <2>4, <2>5
    <2> QED BY <2>1, <2>3, <2>6 DEF VerdictInv
  <1>2. CASE LoadGolden
    <2>1. results = << >> /\ UNCHANGED <<verdicts, judging, results>> /\ pc = "load"
          /\ pc' \in {"skipped", "stt"}
      BY <1>2 DEF LoadGolden, RunInv, InStep
    <2>2. Judged = 0 /\ Judged' = 0
      BY <2>1 DEF Judged
    <2>3. {records[k].id : k \in 1..0} = {} /\ {records'[k].id : k \in 1..0} = {}
      OBVIOUS
    <2> QED BY <2>1, <2>2, <2>3 DEF VerdictInv
  <1>3. CASE Record
    <2>1. Len(results') = Len(results) + 1 /\ Len(results) \in Nat
      BY <1>3, RecordedResult DEF RunInv, RunTypes
    <2>2. Judged' = Judged /\ UNCHANGED <<verdicts, judging, records>> /\ pc # "died" /\ pc' # "judge"
      BY <1>3, <2>1 DEF Record, Judged
    <2> QED BY <2>2 DEF VerdictInv
  <1>4. CASE ClassifyIntent
    <2>1. /\ pc = "intent" /\ pc' = IF judging THEN "judge" ELSE "samples"
          /\ UNCHANGED <<judging, records, results, verdicts>>
      BY <1>4 DEF ClassifyIntent
    <2>2. judging => Judged' = Judged
      BY <2>1 DEF Judged
    <2> QED BY <2>1, <2>2 DEF VerdictInv
  <1>5. CASE Transcribe \/ Translate \/ Respond \/ RoundTrip
    <2>1. /\ UNCHANGED <<judging, records, results, verdicts>>
          /\ pc # "died" /\ pc # "samples" /\ pc' # "samples" /\ pc' # "judge"
      BY <1>5 DEF Transcribe, Translate, Respond, RoundTrip, runEvalVars
    <2> QED BY <2>1 DEF VerdictInv, Judged
  <1>6. CASE Throws
    BY <1>6 DEF Throws, runEvalVars, VerdictInv
  <1>7. CASE UNCHANGED vars
    BY <1>7 DEF vars, VerdictInv, Judged
  <1> QED BY <1>1, <1>2, <1>3, <1>4, <1>5, <1>6, <1>7 DEF Next

LEMMA TripNext ==
  ASSUME RunInv, TripInv, [Next]_vars
  PROVE  TripInv'
  <1>1. CASE Transcribe \/ Translate \/ Respond
    <2>1. cur' = [cur EXCEPT !.stt = cur'.stt, !.translation = cur'.translation, !.reply = cur'.reply]
      BY <1>1 DEF Transcribe, Translate, Respond, RunInv, RunTypes, Hops
    <2>2. cur'.roundTrip = cur.roundTrip /\ results' = results
      BY <1>1, <2>1 DEF Transcribe, Translate, Respond, runEvalVars, RunInv, RunTypes, Hops
    <2> QED BY <2>2 DEF TripInv
  <1>2. CASE RoundTrip
    <2>1. cur' = cur \/ \E r : cur' = [cur EXCEPT !.roundTrip = {r}]
      BY <1>2 DEF RoundTrip
    <2>2. cur'.roundTrip = cur.roundTrip \/ \E r : cur'.roundTrip = {r}
      BY <2>1 DEF RunInv, RunTypes, Hops
    <2> QED BY <1>2, <2>2 DEF RoundTrip, runEvalVars, TripInv
  <1>3. CASE Record
    <2>1. \A k \in DOMAIN results' : results'[k].roundTrip = {} \/ \E t : results'[k].roundTrip = {t}
      <3> SUFFICES ASSUME NEW k \in DOMAIN results'
                   PROVE  results'[k].roundTrip = {} \/ \E t : results'[k].roundTrip = {t}
        OBVIOUS
      <3>1. CASE k \in DOMAIN results
        BY <1>3, <3>1, RecordedResult DEF TripInv
      <3>2. CASE k = Len(results) + 1
        <4>1. results'[k].roundTrip = cur.roundTrip
          BY <1>3, <3>2, RecordedResult DEF Made
        <4> QED BY <4>1 DEF TripInv
      <3>3. k \in DOMAIN results \/ k = Len(results) + 1
        BY <1>3, RecordedResult DEF RunInv, RunTypes
      <3> QED BY <3>1, <3>2, <3>3
    <2> QED BY <1>3, <2>1, NothingIsTyped DEF Record, TripInv
  <1>4. CASE LoadGolden \/ ClassifyIntent \/ JudgeTranslation \/ Throws
    BY <1>4 DEF LoadGolden, ClassifyIntent, JudgeTranslation, Throws, runEvalVars, TripInv
  <1>5. CASE UNCHANGED vars
    BY <1>5 DEF vars, TripInv
  <1> QED BY <1>1, <1>2, <1>3, <1>4, <1>5 DEF Next

LEMMA SampleNext ==
  ASSUME RunInv, SampleInv, [Next]_vars
  PROVE  SampleInv'
  <1>0. ASSUME UNCHANGED verdicts, NEW r PROVE SampleRows(r)' = SampleRows(r)
    BY <1>0, Zenon DEF SampleRows, JudgeSample, IsJudged
  <1>1. CASE Record
    <2>1. UNCHANGED verdicts /\ pc # "died"
      BY <1>1 DEF Record
    <2>2. PICK rs : rs = results'
      OBVIOUS
    <2>3. \A k \in DOMAIN rs : SampleRows(rs[k])' = SampleRows(rs[k])
      BY <1>0, <2>1
    <2>4. UNION {SampleRows(rs[k])' : k \in DOMAIN rs}
            = (UNION {SampleRows(results[k]) : k \in DOMAIN results}) \cup SampleRows(Made)
      <3>1. /\ DOMAIN rs = DOMAIN results \cup {Len(results) + 1}
            /\ Len(results) + 1 \notin DOMAIN results
            /\ rs[Len(results) + 1] = Made
            /\ \A k \in DOMAIN results : rs[k] = results[k]
        <4>1. /\ DOMAIN rs = 1..(Len(results) + 1) /\ DOMAIN results = 1..Len(results)
              /\ rs[Len(results) + 1] = Made
              /\ \A k \in DOMAIN results : rs[k] = results[k]
          BY <1>1, <2>2, RecordedResult
        <4>2. Len(results) \in Nat
          BY DEF RunInv, RunTypes
        <4>3. 1..(Len(results) + 1) = 1..Len(results) \cup {Len(results) + 1}
          BY <4>2
        <4> QED BY <4>1, <4>2, <4>3
      <3>2. UNION {SampleRows(rs[k])' : k \in DOMAIN rs} = UNION {SampleRows(rs[k]) : k \in DOMAIN rs}
        BY <2>3
      <3> DEFINE Rows(k) == SampleRows(rs[k])
                 n == Len(results) + 1
      <3>3. Rows(n) = SampleRows(Made) /\ \A k \in DOMAIN results : Rows(k) = SampleRows(results[k])
        BY <3>1
      <3> HIDE DEF Rows, n
      <3>4. UNION {Rows(k) : k \in DOMAIN rs} = (UNION {Rows(k) : k \in DOMAIN results}) \cup Rows(n)
        BY <3>1 DEF n
      <3> QED BY <3>2, <3>3, <3>4 DEF Rows
    <2>5. samples' = UNION {SampleRows(rs[k])' : k \in DOMAIN rs}
      BY <1>1, <2>1, <2>4, RecordedResult DEF SampleInv
    <2>6. UNION {SampleRows(rs[k])' : k \in DOMAIN rs} = (UNION {SampleRows(results[k]) : k \in DOMAIN results})'
      BY <2>2 DEF SampleRows, JudgeSample, IsJudged
    <2> QED BY <2>5, <2>6 DEF SampleInv
  <1>2. CASE JudgeTranslation
    <2>1. AtAHop /\ UNCHANGED <<results, samples>> /\ pc # "died"
      BY <1>2 DEF JudgeTranslation, AtAHop
    <2>2. PICK v : verdicts' = Put(verdicts, record.id, v)
      BY <1>2 DEF JudgeTranslation
    <2>3. \A k \in DOMAIN results : results[k].record.id # record.id
      <3>1. \A k \in DOMAIN results : k \in DOMAIN records /\ k # Len(results) + 1
        BY DEF RunInv, RunTypes, InStep
      <3> QED BY <2>1, <3>1, RecordAtWork DEF RunInv, IdsDiffer, InStep
    <2>4. ASSUME NEW k \in DOMAIN results PROVE SampleRows(results[k])' = SampleRows(results[k])
      <3> DEFINE id == results[k].record.id
      <3>1. (id \in DOMAIN verdicts' <=> id \in DOMAIN verdicts) /\ (id \in DOMAIN verdicts => verdicts'[id] = verdicts[id])
        BY <2>2, <2>3 DEF Put
      <3>2. IsJudged(results[k])' <=> IsJudged(results[k])
        BY <2>1, <3>1 DEF IsJudged
      <3>3. JudgeSample(results[k])' = JudgeSample(results[k])
        BY <2>1, <3>1, <3>2 DEF JudgeSample, IsJudged
      <3> QED BY <2>1, <3>3 DEF SampleRows
    <2>5. (UNION {SampleRows(results[k]) : k \in DOMAIN results})'
            = UNION {SampleRows(results[k]) : k \in DOMAIN results}
      BY <2>1, <2>4
    <2> QED BY <2>1, <2>5 DEF SampleInv
  <1>3. CASE \/ UNCHANGED vars
             \/ LoadGolden \/ Transcribe \/ Translate \/ Respond \/ RoundTrip \/ ClassifyIntent
             \/ Throws
    <2>1. UNCHANGED <<verdicts, results, samples>>
      BY <1>3 DEF LoadGolden, Transcribe, Translate, Respond, RoundTrip, ClassifyIntent, Throws,
                  runEvalVars, vars
    <2>2. pc' = "died" \/ pc # "died"
      BY <1>3 DEF LoadGolden, Transcribe, Translate, Respond, RoundTrip, ClassifyIntent, Throws, vars
    <2>3. (UNION {SampleRows(results[k]) : k \in DOMAIN results})'
            = UNION {SampleRows(results[k]) : k \in DOMAIN results}
      <3>1. ASSUME NEW k \in DOMAIN results PROVE SampleRows(results[k])' = SampleRows(results[k])
        <4>1. JudgeSample(results[k])' = JudgeSample(results[k])
          BY <2>1 DEF JudgeSample, IsJudged
        <4> QED BY <2>1, <4>1 DEF SampleRows
      <3> QED BY <2>1, <3>1
    <2> QED BY <2>1, <2>2, <2>3 DEF SampleInv
  <1> QED BY <1>1, <1>2, <1>3 DEF Next

WerSample(r) ==
  [id |-> r.record.id, metric |-> "wer",
   expected |-> r.record.expected_transcript, actual |-> r.stt.value,
   value |-> Rate(r.record.expected_transcript, r.stt.value), failed |-> r.stt.failed]

ChrfSample(r) ==
  [id |-> r.record.id, metric |-> "chrf",
   expected |-> r.record.reference_translation, actual |-> r.translation.value,
   value |-> ChrfOf(r), failed |-> r.translation.failed]

TripSample(r, trip) ==
  [id |-> r.record.id, metric |-> "round_trip_wer",
   expected |-> r.reply.value, actual |-> trip.value,
   value |-> Rate(r.reply.value, trip.value), failed |-> trip.failed]

VerdictSample(r) ==
  [id |-> r.record.id, metric |-> "judge",
   expected |-> r.record.reference_translation, actual |-> r.translation.value,
   value |-> IF IsJudged(r) THEN <<verdicts[r.record.id].adequacy
                                     + verdicts[r.record.id].fluency, 2>> ELSE NoValue,
   failed |-> ~IsJudged(r)]

\* The rows of a result, by their metric.
LEMMA RowsOfAResult ==
  ASSUME NEW r, NEW s
  PROVE  /\ s \in SampleRows(r) /\ s.metric = "wer" <=> s = WerSample(r)
         /\ s \in SampleRows(r) /\ s.metric = "chrf" <=> s = ChrfSample(r)
         /\ s \in SampleRows(r) /\ s.metric = "judge" <=>
              r.record.id \in DOMAIN verdicts /\ s = VerdictSample(r)
         /\ s \in SampleRows(r) /\ s.metric = "round_trip_wer" <=>
              \E trip \in r.roundTrip : s = TripSample(r, trip)
  <1> DEFINE judged == r.record.id \in DOMAIN verdicts
             wer == WerSample(r)
             chrf == ChrfSample(r)
             opinion == VerdictSample(r)
             Trip(trip) == TripSample(r, trip)
  <1>1. JudgeSample(r) = IF judged THEN {opinion} ELSE {}
    BY DEF JudgeSample, VerdictSample
  <1>2. SampleRows(r) = {wer, chrf} \cup JudgeSample(r) \cup {Trip(trip) : trip \in r.roundTrip}
    BY DEF SampleRows, WerSample, ChrfSample, TripSample
  <1>3. /\ wer.metric = "wer" /\ chrf.metric = "chrf" /\ opinion.metric = "judge"
        /\ \A trip : Trip(trip).metric = "round_trip_wer"
    BY DEF WerSample, ChrfSample, VerdictSample, TripSample
  <1> HIDE DEF judged, wer, chrf, opinion, Trip
  <1>4. /\ s \in SampleRows(r) /\ s.metric = "wer" <=> s = wer
        /\ s \in SampleRows(r) /\ s.metric = "chrf" <=> s = chrf
        /\ s \in SampleRows(r) /\ s.metric = "judge" <=> judged /\ s = opinion
        /\ s \in SampleRows(r) /\ s.metric = "round_trip_wer" <=> \E trip \in r.roundTrip : s = Trip(trip)
    BY <1>1, <1>2, <1>3
  <1> QED BY <1>4 DEF judged, wer, chrf, opinion, Trip

\* What the run holds when it is over.
AtTheEnd == pc = "scored" /\ RunInv /\ VerdictInv /\ TripInv /\ SampleInv /\ ScoreInv

LEMMA ResultsAtTheEnd ==
  ASSUME AtTheEnd
  PROVE  /\ DOMAIN results = 1..Len(records) /\ Len(records) \in Nat
         /\ IsFiniteSet(DOMAIN results) /\ Cardinality(DOMAIN results) = Len(records)
         /\ \A k \in DOMAIN results : results[k] \in ReplayResult /\ results[k].record = records[k]
         /\ \A i, j \in DOMAIN results : results[i].record.id = results[j].record.id => i = j
         /\ samples = UNION {SampleRows(results[k]) : k \in DOMAIN results}
  <1>1. /\ DOMAIN results = 1..Len(records) /\ Len(records) \in Nat
        /\ DOMAIN records = DOMAIN results
        /\ \A k \in DOMAIN results : results[k] \in ReplayResult /\ results[k].record = records[k]
    BY DEF AtTheEnd, RunInv, RunTypes, InStep
  <1>2. IsFiniteSet(DOMAIN results) /\ Cardinality(DOMAIN results) = Len(records)
    <2> DEFINE N == Len(records)
    <2>1. N \in Nat /\ DOMAIN results = 1..N
      BY <1>1
    <2> HIDE DEF N
    <2>2. IsFiniteSet(1..N) /\ Cardinality(1..N) = N
      BY <2>1, FS_Interval
    <2> QED BY <2>1, <2>2 DEF N
  <1>3. \A i, j \in DOMAIN results : results[i].record.id = results[j].record.id => i = j
    BY <1>1 DEF AtTheEnd, RunInv, IdsDiffer
  <1> QED BY <1>1, <1>2, <1>3 DEF AtTheEnd, SampleInv

\* Samples of different results are different.
LEMMA SampledOnce ==
  ASSUME AtTheEnd, NEW S \in SUBSET DOMAIN results, NEW m, m = [k \in S |-> m[k]],
         \A k \in S : m[k].id = results[k].record.id,
         NEW T, \A s : s \in T <=> \E k \in S : s = m[k]
  PROVE  /\ m \in [S -> T]
         /\ \A i, j \in S : m[i] = m[j] => i = j
         /\ \A s \in T : \E k \in S : m[k] = s
         /\ IsFiniteSet(S) /\ Cardinality(S) \in Nat
         /\ IsFiniteSet(T) /\ Cardinality(T) = Cardinality(S)
  <1>1. IsFiniteSet(S) /\ Cardinality(S) \in Nat
    BY ResultsAtTheEnd, FS_Subset, FS_CardinalityType
  <1>2. m \in [S -> T]
    OBVIOUS
  <1>3. \A i, j \in S : m[i] = m[j] => i = j
    BY ResultsAtTheEnd
  <1>4. \A s \in T : \E k \in S : m[k] = s
    OBVIOUS
  <1>5. m \in Injection(S, T) /\ m \in Surjection(S, T)
    BY <1>2, <1>3, <1>4, Fun_IsInj, Fun_IsSurj
  <1>6. IsFiniteSet(T) /\ Cardinality(T) = Cardinality(S)
    BY <1>1, <1>5, FS_Surjection
  <1> QED BY <1>1, <1>2, <1>3, <1>4, <1>6

SoundOf(metric) == {s \in SamplesOf(metric) : ~s.failed}

\* The members of samples of a metric, counted by the results that they are of.
LEMMA SamplesAtTheEnd ==
  ASSUME AtTheEnd
  PROVE  /\ \A s : s \in SamplesOf("wer") <=> \E k \in DOMAIN results : s = WerSample(results[k])
         /\ \A s : s \in SamplesOf("chrf") <=> \E k \in DOMAIN results : s = ChrfSample(results[k])
         /\ \A s : s \in SamplesOf("judge") <=>
                    \E k \in DOMAIN results :
                      results[k].record.id \in DOMAIN verdicts /\ s = VerdictSample(results[k])
         /\ \A s : s \in SamplesOf("round_trip_wer") <=>
                    \E k \in DOMAIN results :
                      \E trip \in results[k].roundTrip : s = TripSample(results[k], trip)
  <1>1. \A s : s \in samples <=> \E k \in DOMAIN results : s \in SampleRows(results[k])
    BY ResultsAtTheEnd
  <1>2. \A metric : \A s : s \in SamplesOf(metric) <=>
          \E k \in DOMAIN results : s \in SampleRows(results[k]) /\ s.metric = metric
    BY <1>1 DEF SamplesOf
  <1>3. \A s : s \in SamplesOf("wer") <=> \E k \in DOMAIN results : s = WerSample(results[k])
    BY <1>2, RowsOfAResult
  <1>4. \A s : s \in SamplesOf("chrf") <=> \E k \in DOMAIN results : s = ChrfSample(results[k])
    BY <1>2, RowsOfAResult
  <1>5. \A s : s \in SamplesOf("judge") <=>
          \E k \in DOMAIN results :
            results[k].record.id \in DOMAIN verdicts /\ s = VerdictSample(results[k])
    BY <1>2, RowsOfAResult
  <1>6. \A s : s \in SamplesOf("round_trip_wer") <=>
          \E k \in DOMAIN results :
            \E trip \in results[k].roundTrip : s = TripSample(results[k], trip)
    BY <1>2, RowsOfAResult
  <1> QED BY <1>3, <1>4, <1>5, <1>6

LEMMA CountedAtTheEnd ==
  ASSUME AtTheEnd
  PROVE  /\ Cardinality(SamplesOf("wer")) = Len(records)
         /\ Cardinality(SamplesOf("chrf")) = Len(records)
         /\ Cardinality(SoundOf("judge")) = Cardinality(Answered(results))
         /\ Cardinality(Answered(results)) # 0 =>
              /\ Cardinality(DOMAIN verdicts) = Len(records)
              /\ Cardinality(SamplesOf("judge") \ SoundOf("judge"))
                   = Len(records) - Cardinality(Answered(results))
  <1>0. \A r : /\ WerSample(r).id = r.record.id
              /\ ChrfSample(r).id = r.record.id
              /\ VerdictSample(r).id = r.record.id /\ (VerdictSample(r).failed <=> ~IsJudged(r))
    BY DEF WerSample, ChrfSample, VerdictSample
  <1>1. Cardinality(SamplesOf("wer")) = Len(records)
    <2> DEFINE m == [k \in DOMAIN results |-> WerSample(results[k])]
    <2>1. /\ m = [k \in DOMAIN results |-> m[k]]
          /\ \A k \in DOMAIN results : m[k].id = results[k].record.id
          /\ \A s : s \in SamplesOf("wer") <=> \E k \in DOMAIN results : s = m[k]
      BY <1>0, SamplesAtTheEnd
    <2> HIDE DEF m
    <2>2. Cardinality(SamplesOf("wer")) = Cardinality(DOMAIN results)
      BY <2>1, SampledOnce
    <2> QED BY <2>2, ResultsAtTheEnd
  <1>2. Cardinality(SamplesOf("chrf")) = Len(records)
    <2> DEFINE m == [k \in DOMAIN results |-> ChrfSample(results[k])]
    <2>1. /\ m = [k \in DOMAIN results |-> m[k]]
          /\ \A k \in DOMAIN results : m[k].id = results[k].record.id
          /\ \A s : s \in SamplesOf("chrf") <=> \E k \in DOMAIN results : s = m[k]
      BY <1>0, SamplesAtTheEnd
    <2> HIDE DEF m
    <2>2. Cardinality(SamplesOf("chrf")) = Cardinality(DOMAIN results)
      BY <2>1, SampledOnce
    <2> QED BY <2>2, ResultsAtTheEnd
  <1>3. Cardinality(SoundOf("judge")) = Cardinality(Answered(results))
    <2> DEFINE S == Answered(results)
               m == [k \in S |-> VerdictSample(results[k])]
    <2>0. S \in SUBSET DOMAIN results
      BY DEF Answered
    <2>1. /\ m = [k \in S |-> m[k]]
          /\ \A k \in S : m[k].id = results[k].record.id
      BY <1>0, <2>0
    <2>3. \A s : s \in SoundOf("judge") <=> \E k \in S : s = m[k]
      <3>1. \A s : s \in SoundOf("judge") <=>
              \E k \in DOMAIN results :
                results[k].record.id \in DOMAIN verdicts /\ s = VerdictSample(results[k]) /\ ~s.failed
        BY SamplesAtTheEnd DEF SoundOf
      <3>2. \A k \in DOMAIN results : k \in S <=> IsJudged(results[k])
        BY DEF Answered
      <3>3. \A r : IsJudged(r) => r.record.id \in DOMAIN verdicts
        BY DEF IsJudged
      <3> HIDE DEF S
      <3> QED BY <1>0, <2>0, <3>1, <3>2, <3>3
    <2> HIDE DEF m, S
    <2>2. Cardinality(SoundOf("judge")) = Cardinality(S)
      BY <2>0, <2>1, <2>3, SampledOnce
    <2> QED BY <2>2 DEF S
  <1>4. ASSUME Cardinality(Answered(results)) # 0
        PROVE  /\ Cardinality(DOMAIN verdicts) = Len(records)
               /\ Cardinality(SamplesOf("judge") \ SoundOf("judge"))
                    = Len(records) - Cardinality(Answered(results))
    <2>1. PICK k \in DOMAIN results : IsJudged(results[k])
      <3>1. Answered(results) # {}
        BY <1>4, FS_EmptySet
      <3> QED BY <3>1 DEF Answered
    <2>2. Judged = Len(records)
      BY DEF AtTheEnd, Judged, RunInv, RunTypes, InStep
    <2>3. DOMAIN verdicts = {records[i].id : i \in DOMAIN results}
      BY <2>1, <2>2, ResultsAtTheEnd DEF IsJudged, AtTheEnd, VerdictInv
    <2>4. Cardinality(DOMAIN verdicts) = Len(records)
      <3> DEFINE m == [i \in DOMAIN results |-> results[i].record.id]
      <3>1. \A i \in DOMAIN results : m[i] = records[i].id
        BY ResultsAtTheEnd
      <3>2. /\ m \in [DOMAIN results -> DOMAIN verdicts]
            /\ \A i, j \in DOMAIN results : m[i] = m[j] => i = j
            /\ \A id \in DOMAIN verdicts : \E i \in DOMAIN results : m[i] = id
        BY <2>3, <3>1, ResultsAtTheEnd
      <3> HIDE DEF m
      <3>3. m \in Injection(DOMAIN results, DOMAIN verdicts) /\ m \in Surjection(DOMAIN results, DOMAIN verdicts)
        BY <3>2, Fun_IsInj, Fun_IsSurj
      <3> QED BY <3>3, ResultsAtTheEnd, FS_Surjection
    <2>5. Cardinality(SamplesOf("judge")) = Len(records) /\ IsFiniteSet(SamplesOf("judge"))
      <3> DEFINE m == [i \in DOMAIN results |-> VerdictSample(results[i])]
      <3>1. \A i \in DOMAIN results : results[i].record.id \in DOMAIN verdicts
        BY <2>3, ResultsAtTheEnd
      <3>2. /\ m = [i \in DOMAIN results |-> m[i]]
            /\ \A i \in DOMAIN results : m[i].id = results[i].record.id
            /\ \A s : s \in SamplesOf("judge") <=> \E i \in DOMAIN results : s = m[i]
        BY <1>0, <3>1, SamplesAtTheEnd
      <3> HIDE DEF m
      <3>3. Cardinality(SamplesOf("judge")) = Cardinality(DOMAIN results) /\ IsFiniteSet(SamplesOf("judge"))
        <4>1. PICK S \in SUBSET DOMAIN results : S = DOMAIN results
          OBVIOUS
        <4>2. /\ m = [i \in S |-> m[i]]
              /\ \A i \in S : m[i].id = results[i].record.id
              /\ \A s : s \in SamplesOf("judge") <=> \E i \in S : s = m[i]
          BY <3>2, <4>1
        <4>3. Cardinality(SamplesOf("judge")) = Cardinality(S) /\ IsFiniteSet(SamplesOf("judge"))
          BY <4>2, SampledOnce
        <4> QED BY <4>1, <4>3
      <3> QED BY <3>3, ResultsAtTheEnd
    <2>6. SamplesOf("judge") \cap SoundOf("judge") = SoundOf("judge")
      BY DEF SoundOf
    <2>7. Cardinality(SamplesOf("judge") \ SoundOf("judge"))
            = Cardinality(SamplesOf("judge")) - Cardinality(SamplesOf("judge") \cap SoundOf("judge"))
      BY <2>5, FS_Difference
    <2> QED BY <1>3, <2>4, <2>5, <2>6, <2>7
  <1> QED BY <1>1, <1>2, <1>3, <1>4

LEMMA AggregateOf ==
  ASSUME NEW rates
  PROVE  LET references == [k \in DOMAIN rates |-> rates[k].reference]
             errors == [k \in DOMAIN rates |-> Errors(rates[k])]
             total == SumFunctionOnSet(references, DOMAIN rates)
         IN AggregateErrorRate(rates)
              = IF total = 0 THEN Zero ELSE <<SumFunctionOnSet(errors, DOMAIN rates), total>>
  <1> DEFINE references == [k \in DOMAIN rates |-> rates[k].reference]
             errors == [k \in DOMAIN rates |-> Errors(rates[k])]
  <1>1. AggregateErrorRate(rates)
          = IF SumFunctionOnSet(references, DOMAIN references) = 0 THEN Zero
            ELSE <<SumFunctionOnSet(errors, DOMAIN errors), SumFunctionOnSet(references, DOMAIN references)>>
    BY Zenon DEF AggregateErrorRate, Each, SumFunction
  <1>2. DOMAIN references = DOMAIN rates /\ DOMAIN errors = DOMAIN rates
    OBVIOUS
  <1> HIDE DEF references, errors
  <1> QED BY <1>1, <1>2 DEF references, errors

\* It does not matter under which names the rates are aggregated.
LEMMA AggregateRenamed ==
  ASSUME NEW S, NEW T, NEW m \in [S -> T], IsFiniteSet(S),
         \A x, y \in S : m[x] = m[y] => x = y,
         \A y \in T : \E x \in S : m[x] = y,
         NEW a \in [S -> Edits], NEW b, b = [y \in T |-> b[y]],
         \A x \in S : a[x] = b[m[x]]
  PROVE  AggregateErrorRate(a) = AggregateErrorRate(b)
  <1> DEFINE aReferences == [k \in S |-> a[k].reference]
             aErrors == [k \in S |-> Errors(a[k])]
             bReferences == [k \in T |-> b[k].reference]
             bErrors == [k \in T |-> Errors(b[k])]
  <1>1. /\ \A x \in S : aReferences[x] \in Int /\ aReferences[x] = bReferences[m[x]]
        /\ \A x \in S : aErrors[x] \in Int /\ aErrors[x] = bErrors[m[x]]
    <2>1. \A x \in S : a[x] \in Edits /\ m[x] \in T /\ b[m[x]] = a[x]
      OBVIOUS
    <2>2. \A e \in Edits : e.reference \in Int /\ Errors(e) \in Int
      BY DEF Edits, Errors
    <2>3. /\ \A x \in S : aReferences[x] = a[x].reference /\ aErrors[x] = Errors(a[x])
          /\ \A y \in T : bReferences[y] = b[y].reference /\ bErrors[y] = Errors(b[y])
      OBVIOUS
    <2> HIDE DEF aReferences, aErrors, bReferences, bErrors
    <2> QED BY ONLY <2>1, <2>2, <2>3
  <1>2. DOMAIN a = S /\ DOMAIN b = T
    OBVIOUS
  <1>3. AggregateErrorRate(a)
          = IF SumFunctionOnSet(aReferences, S) = 0 THEN Zero
            ELSE <<SumFunctionOnSet(aErrors, S), SumFunctionOnSet(aReferences, S)>>
    <2>1. S = DOMAIN a
      BY <1>2
    <2> QED BY ONLY <2>1, AggregateOf DEF aReferences, aErrors
  <1>6. AggregateErrorRate(b)
          = IF SumFunctionOnSet(bReferences, T) = 0 THEN Zero
            ELSE <<SumFunctionOnSet(bErrors, T), SumFunctionOnSet(bReferences, T)>>
    <2>1. T = DOMAIN b
      BY <1>2
    <2> QED BY ONLY <2>1, AggregateOf DEF bReferences, bErrors
  <1> HIDE DEF aReferences, aErrors, bReferences, bErrors
  <1>4. SumFunctionOnSet(aReferences, S) = SumFunctionOnSet(bReferences, T)
    BY <1>1, SumRenamed
  <1>5. SumFunctionOnSet(aErrors, S) = SumFunctionOnSet(bErrors, T)
    BY <1>1, SumRenamed
  <1> QED BY <1>3, <1>4, <1>5, <1>6

LEMMA TripsAtTheEnd ==
  ASSUME AtTheEnd
  PROVE  /\ Cardinality(SoundOf("round_trip_wer")) = Cardinality(Returned(results))
         /\ IsFiniteSet(SoundOf("round_trip_wer"))
         /\ AggregateErrorRate([k \in Returned(results) |-> RoundTripEdits(results[k])])
              = AggregateErrorRate([s \in SoundOf("round_trip_wer") |-> ErrorRate(s.expected, s.actual)])
  <1> DEFINE S == Returned(results)
             T == SoundOf("round_trip_wer")
             Trip(r) == CHOOSE trip \in r.roundTrip : TRUE
             m == [k \in S |-> TripSample(results[k], Trip(results[k]))]
             a == [k \in S |-> RoundTripEdits(results[k])]
             b == [s \in T |-> ErrorRate(s.expected, s.actual)]
  <1>1. S \in SUBSET DOMAIN results
    BY DEF Returned
  <1>2. ASSUME NEW k \in DOMAIN results, results[k].roundTrip # {}
        PROVE  results[k].roundTrip = {Trip(results[k])}
    <2>1. PICK t : results[k].roundTrip = {t}
      BY <1>2 DEF AtTheEnd, TripInv
    <2> QED BY <2>1
  <1>3. \A r, trip : /\ TripSample(r, trip).id = r.record.id
                     /\ TripSample(r, trip).failed = trip.failed
                     /\ TripSample(r, trip).expected = r.reply.value
                     /\ TripSample(r, trip).actual = trip.value
    BY DEF TripSample
  <1>4. m = [k \in S |-> m[k]] /\ \A k \in S : m[k].id = results[k].record.id
    BY <1>3
  <1>5. \A s : s \in T <=> \E k \in S : s = m[k]
    <2>1. \A s : s \in T <=>
            \E k \in DOMAIN results :
              \E trip \in results[k].roundTrip : s = TripSample(results[k], trip) /\ ~s.failed
      BY SamplesAtTheEnd DEF SoundOf
    <2>2. \A k \in DOMAIN results :
            k \in S <=> results[k].roundTrip # {} /\ ~Trip(results[k]).failed
      BY <1>2 DEF Returned, CameRound
    <2> HIDE DEF S, T, Trip
    <2> QED BY <1>1, <1>2, <1>3, <2>1, <2>2
  <1>6. a \in [S -> Edits]
    <2> SUFFICES ASSUME NEW k \in S PROVE RoundTripEdits(results[k]) \in Edits
      OBVIOUS
    <2>1. results[k] \in ReplayResult /\ results[k].roundTrip = {Trip(results[k])}
      BY <1>1, <1>2, ResultsAtTheEnd DEF Returned, CameRound
    <2> HIDE DEF Trip
    <2>2. results[k].reply.value \in Text /\ Trip(results[k]).value \in Text
      BY <2>1 DEF ReplayResult, HopResult
    <2>3. RoundTripEdits(results[k]) = ErrorRate(results[k].reply.value, Trip(results[k]).value)
      BY DEF RoundTripEdits, Trip
    <2> QED BY <2>2, <2>3, WalkOf
  <1>7. b = [s \in T |-> b[s]] /\ \A k \in S : a[k] = b[m[k]]
    <2>1. \A k \in S : m[k] \in T
      BY <1>5
    <2>2. \A k \in S : a[k] = ErrorRate(m[k].expected, m[k].actual)
      BY <1>3 DEF RoundTripEdits
    <2> HIDE DEF T, m, a, S
    <2> QED BY <2>1, <2>2
  <1> HIDE DEF S, T, Trip, m, a, b
  <1>8. /\ m \in [S -> T]
        /\ \A i, j \in S : m[i] = m[j] => i = j
        /\ \A s \in T : \E k \in S : m[k] = s
        /\ IsFiniteSet(S)
        /\ IsFiniteSet(T) /\ Cardinality(T) = Cardinality(S)
    <2>1. PICK R \in SUBSET DOMAIN results : R = S
      BY <1>1
    <2>2. /\ m = [k \in R |-> m[k]] /\ \A k \in R : m[k].id = results[k].record.id
          /\ \A s : s \in T <=> \E k \in R : s = m[k]
      BY <1>4, <1>5, <2>1
    <2>3. m \in [R -> T]
      BY <2>2, SampledOnce
    <2>4. \A i, j \in R : m[i] = m[j] => i = j
      BY <2>2, ResultsAtTheEnd
    <2>5. \A s \in T : \E k \in R : m[k] = s
      BY <2>2
    <2>6. IsFiniteSet(R)
      BY ResultsAtTheEnd, FS_Subset
    <2>7. m \in Injection(R, T) /\ m \in Surjection(R, T)
      BY <2>3, <2>4, <2>5, Fun_IsInj, Fun_IsSurj
    <2>8. IsFiniteSet(T) /\ Cardinality(T) = Cardinality(R)
      BY <2>6, <2>7, FS_Surjection
    <2> QED BY <2>1, <2>3, <2>4, <2>5, <2>6, <2>8
  <1>9. AggregateErrorRate(a) = AggregateErrorRate(b)
    BY <1>6, <1>7, <1>8, AggregateRenamed
  <1> QED BY <1>8, <1>9 DEF a, b, S, T

\* The samples account for the scores beside them, of any golden set, whatever its hops
\* and its judge did (sampleRows and scoreLanguage, run.ts).
THEOREM SamplesAccountForScores == Spec => []SamplesExplainScores
  <1>1. RunInv /\ VerdictInv /\ TripInv /\ SampleInv /\ ScoreInv => SamplesExplainScores
    <2> DEFINE Sound(metric) == {s \in SamplesOf(metric) : ~s.failed}
               Rebuilt(metric) == AggregateErrorRate([s \in Sound(metric) |-> ErrorRate(s.expected, s.actual)])
               N == Len(records)
               judged == Cardinality(Answered(results))
    <2> SUFFICES ASSUME AtTheEnd
                 PROVE  /\ \A s \in ScoredAs("wer") \cup ScoredAs("chrf") :
                             s.n = Cardinality(SamplesOf(s.metric))
                        /\ \A s \in ScoredAs("round_trip_wer") :
                             /\ s.n = Cardinality(Sound("round_trip_wer"))
                             /\ SameAs(s.value, Rebuilt("round_trip_wer"))
                        /\ ScoredAs("round_trip_wer") = {} => Sound("round_trip_wer") = {}
                        /\ \A s \in ScoredAs("judge_adequacy") \cup ScoredAs("chrf_judge_spearman") :
                             s.n = Cardinality(Sound("judge"))
                        /\ \A s \in ScoredAs("judge_unparseable_rate") :
                             SameAs(s.value,
                                    <<Cardinality(SamplesOf("judge") \ Sound("judge")), Len(records)>>)
      BY DEF SamplesExplainScores, AtTheEnd
    <2>1. \A metric : Sound(metric) = SoundOf(metric)
      BY DEF SoundOf
    <2>2. /\ \A s \in scores : SumsUp(s, results)
          /\ Cardinality(Returned(results)) # 0 =>
               \E s \in scores : s.metric = "round_trip_wer" /\ s.slice = "all"
      BY DEF AtTheEnd, ScoreInv
    <2>3. \A metric : \A s \in ScoredAs(metric) :
            s \in scores /\ s.metric = metric /\ s.slice = "all" /\ SumsUp(s, results)
      BY <2>2 DEF ScoredAs
    <2>4. Cardinality(DOMAIN results) = N
      BY ResultsAtTheEnd
    <2> HIDE DEF Sound, N, judged
    <2>5. \A s \in ScoredAs("wer") \cup ScoredAs("chrf") : s.n = Cardinality(SamplesOf(s.metric))
      <3>1. Cardinality(SamplesOf("wer")) = N /\ Cardinality(SamplesOf("chrf")) = N
        BY CountedAtTheEnd DEF N
      <3> QED BY ZenonT(40), <2>3, <2>4, <3>1 DEF SumsUp
    <2>6. ASSUME NEW s \in ScoredAs("round_trip_wer")
          PROVE  /\ s.n = Cardinality(Sound("round_trip_wer"))
                 /\ SameAs(s.value, Rebuilt("round_trip_wer"))
      <3>1. /\ s.n = Cardinality(Returned(results))
            /\ s.value = AggregateErrorRate([k \in Returned(results) |-> RoundTripEdits(results[k])])
        BY <2>3 DEF SumsUp
      <3>2. s.n = Cardinality(SoundOf("round_trip_wer"))
        BY <3>1, TripsAtTheEnd
      <3>3. s.value = Rebuilt("round_trip_wer")
        BY <2>1, <3>1, TripsAtTheEnd
      <3> HIDE DEF Rebuilt
      <3> QED BY <2>1, <3>2, <3>3 DEF SameAs
    <2>7. ASSUME ScoredAs("round_trip_wer") = {} PROVE Sound("round_trip_wer") = {}
      <3>1. Cardinality(Returned(results)) = 0
        BY <2>2, <2>7 DEF ScoredAs
      <3> QED BY <2>1, <3>1, TripsAtTheEnd, FS_EmptySet
    <2>8. \A s \in ScoredAs("judge_adequacy") \cup ScoredAs("chrf_judge_spearman") :
            s.n = Cardinality(Sound("judge"))
      BY ZenonT(40), <2>1, <2>3, CountedAtTheEnd DEF SumsUp
    <2>9. ASSUME NEW s \in ScoredAs("judge_unparseable_rate")
          PROVE  SameAs(s.value, <<Cardinality(SamplesOf("judge") \ Sound("judge")), Len(records)>>)
      <3>1. /\ judged # 0
            /\ s.value = <<Cardinality(DOMAIN verdicts) - judged, Cardinality(DOMAIN verdicts)>>
        BY <2>3 DEF SumsUp, judged
      <3>2. /\ Cardinality(DOMAIN verdicts) = N
            /\ Cardinality(SamplesOf("judge") \ Sound("judge")) = N - judged
        BY <2>1, <3>1, CountedAtTheEnd DEF N, judged
      <3> QED BY <3>1, <3>2 DEF SameAs, N
    <2> QED BY <2>5, <2>6, <2>7, <2>8, <2>9
  <1> QED BY RunInit, RunNext, ScoreInit, ScoreNext, SampleInit, VerdictNext, TripNext, SampleNext,
             <1>1, PTL DEF Spec

-----------------------------------------------------------------------------
(* Percentiles. *)

\* Of finitely many numbers one is the greatest.
LEMMA Greatest ==
  ASSUME NEW D, IsFiniteSet(D), D # {}, NEW f, \A k \in D : f[k] \in Nat
  PROVE  \E k \in D : \A j \in D : f[j] <= f[k]
  <1> DEFINE P == SUBSET D
             mu == [s \in P |-> Cardinality(s)]
             bad == {s \in P : s # {} /\ ~ \E k \in s : \A j \in s : f[j] <= f[k]}
  <1>1. \A s \in P : IsFiniteSet(s) /\ Cardinality(s) \in Nat
    BY FS_Subset, FS_CardinalityType
  <1>2. mu \in [P -> Nat]
    BY <1>1
  <1>3. ASSUME bad # {} PROVE FALSE
    <2>1. PICK s \in bad : \A t \in P : mu[t] < mu[s] => t \notin bad
      <3>1. bad \subseteq P
        OBVIOUS
      <3> HIDE DEF bad, P, mu
      <3> QED BY ONLY <1>3, <3>1, <1>2, LeastPlace
    <2>2. PICK x \in s : TRUE
      BY <2>1
    <2> DEFINE rest == s \ {x}
    <2>3. rest \in P /\ mu[rest] < mu[s]
      <3>1. Cardinality(rest) = Cardinality(s) - 1
        BY <1>1, <2>1, FS_RemoveElement
      <3> QED BY <1>1, <2>1, <3>1
    <2>4. CASE rest = {}
      <3>1. \A j \in s : j = x
        BY <2>4
      <3>2. f[x] \in Nat
        BY <2>1
      <3> QED BY <2>1, <3>1, <3>2
    <2>5. CASE rest # {}
      <3>1. PICK k \in rest : \A j \in rest : f[j] <= f[k]
        BY <2>1, <2>3, <2>5
      <3>2. \A j \in s : f[j] \in Nat /\ (j = x \/ j \in rest)
        BY <2>1
      <3>3. k \in s
        OBVIOUS
      <3>4. CASE f[k] <= f[x]
        BY <2>1, <3>1, <3>2, <3>3, <3>4
      <3>5. CASE f[x] <= f[k]
        BY <2>1, <3>1, <3>2, <3>3, <3>5
      <3> QED BY <3>2, <3>3, <3>4, <3>5
    <2> QED BY <2>4, <2>5
  <1>4. D \in P /\ D \notin bad
    BY <1>3
  <1> QED BY <1>4

AtOrBelow(f, v) == {k \in DOMAIN f : f[k] <= v}
Below(f, v)     == {k \in DOMAIN f : f[k] < v}
AtOrAbove(f, v) == {k \in DOMAIN f : f[k] >= v}

\* A family of measurements.
IsMeasured(f) == f = [k \in DOMAIN f |-> f[k]] /\ IsFiniteSet(DOMAIN f) /\ \A k \in DOMAIN f : f[k] \in Nat

LEMMA CutsAreFinite ==
  ASSUME NEW f, IsMeasured(f), NEW v
  PROVE  /\ Size(f) \in Nat
         /\ IsFiniteSet(AtOrBelow(f, v)) /\ Cardinality(AtOrBelow(f, v)) \in Nat
         /\ IsFiniteSet(Below(f, v)) /\ Cardinality(Below(f, v)) \in Nat
         /\ IsFiniteSet(AtOrAbove(f, v)) /\ Cardinality(AtOrAbove(f, v)) \in Nat
  <1>1. \A s \in SUBSET DOMAIN f : IsFiniteSet(s) /\ Cardinality(s) \in Nat
    BY FS_Subset, FS_CardinalityType DEF IsMeasured
  <1> QED BY <1>1 DEF AtOrBelow, Below, AtOrAbove, Size

\* At its rank stands the least of the values that so many do not exceed.
LEMMA SortedAt ==
  ASSUME NEW f, IsMeasured(f), NEW rank \in 1..Size(f)
  PROVE  /\ Sorted(f)[rank] \in Nat
         /\ \E k \in DOMAIN f : Sorted(f)[rank] = f[k]
         /\ Cardinality(AtOrBelow(f, Sorted(f)[rank])) >= rank
         /\ \A k \in DOMAIN f : Cardinality(AtOrBelow(f, f[k])) >= rank => Sorted(f)[rank] <= f[k]
  <1> DEFINE T == {v \in Range(f) : Cardinality(AtOrBelow(f, v)) >= rank}
  <1>1. Size(f) \in Nat /\ rank \in Nat /\ rank <= Size(f) /\ rank >= 1
    BY CutsAreFinite
  <1>2. \A v : v \in Range(f) <=> \E k \in DOMAIN f : v = f[k]
    BY DEF Range
  <1>3. T \subseteq Nat
    BY <1>2 DEF IsMeasured
  <1>4. T # {}
    <2>1. DOMAIN f # {}
      BY <1>1, FS_EmptySet DEF Size
    <2>2. PICK k \in DOMAIN f : \A j \in DOMAIN f : f[j] <= f[k]
      BY <2>1, Greatest DEF IsMeasured
    <2>3. AtOrBelow(f, f[k]) = DOMAIN f
      BY <2>2 DEF AtOrBelow
    <2>4. f[k] \in T
      BY <1>1, <1>2, <2>3 DEF Size
    <2> QED BY <2>4
  <1>5. Sorted(f)[rank] = Min(T)
    BY DEF Sorted, AtOrBelow
  <1> HIDE DEF T
  <1>6. PICK m \in T : \A v \in T : m <= v
    BY <1>3, <1>4, Least
  <1>7. Min(T) \in T /\ \A v \in T : Min(T) <= v
    BY <1>6 DEF Min
  <1> QED BY <1>2, <1>3, <1>5, <1>7 DEF T

\* So fewer than the rank are below it, and the others are not.
LEMMA SortedFrom ==
  ASSUME NEW f, IsMeasured(f), NEW rank \in 1..Size(f)
  PROVE  Cardinality(AtOrAbove(f, Sorted(f)[rank])) > Size(f) - rank
  <1> DEFINE v == Sorted(f)[rank]
  <1>0. v \in Nat /\ \A k \in DOMAIN f : f[k] \in Nat
    BY SortedAt DEF IsMeasured
  <1>1. Cardinality(Below(f, v)) < rank
    <2>1. CASE Below(f, v) = {}
      BY <2>1, FS_EmptySet
    <2>2. CASE Below(f, v) # {}
      <3>1. PICK m \in Below(f, v) : \A j \in Below(f, v) : f[j] <= f[m]
        <4> DEFINE S == Below(f, v)
        <4>1. IsFiniteSet(S) /\ S # {} /\ \A k \in S : f[k] \in Nat
          BY <1>0, <2>2, CutsAreFinite DEF Below
        <4> HIDE DEF S
        <4>2. \E m \in S : \A j \in S : f[j] <= f[m]
          BY <4>1, Greatest
        <4> QED BY <4>2 DEF S
      <3>2. AtOrBelow(f, f[m]) = Below(f, v)
        BY <1>0, <3>1 DEF AtOrBelow, Below
      <3>3. m \in DOMAIN f /\ ~(v <= f[m])
        BY <1>0, <3>1 DEF Below
      <3>4. ~(Cardinality(Below(f, v)) >= rank)
        BY <3>2, <3>3, SortedAt
      <3>5. Cardinality(Below(f, v)) \in Nat
        BY CutsAreFinite
      <3> QED BY <3>4, <3>5
    <2> QED BY <2>1, <2>2
  <1>2. Cardinality(AtOrAbove(f, v)) = Size(f) - Cardinality(Below(f, v))
    <2>1. AtOrAbove(f, v) = DOMAIN f \ Below(f, v) /\ DOMAIN f \cap Below(f, v) = Below(f, v)
      BY <1>0 DEF AtOrAbove, Below
    <2>2. Cardinality(DOMAIN f \ Below(f, v)) = Cardinality(DOMAIN f) - Cardinality(DOMAIN f \cap Below(f, v))
      BY FS_Difference DEF IsMeasured
    <2> QED BY <2>1, <2>2 DEF Size
  <1> HIDE DEF v
  <1>3. Cardinality(AtOrAbove(f, v)) > Size(f) - rank
    BY <1>1, <1>2, CutsAreFinite
  <1> QED BY <1>3 DEF v

LEMMA SortedAscends ==
  ASSUME NEW f, IsMeasured(f), NEW i \in 1..Size(f), NEW j \in 1..Size(f), i <= j
  PROVE  Sorted(f)[i] <= Sorted(f)[j]
  <1>1. PICK k \in DOMAIN f : Sorted(f)[j] = f[k]
    BY SortedAt
  <1>2. Cardinality(AtOrBelow(f, f[k])) >= j
    BY <1>1, SortedAt
  <1>3. Cardinality(AtOrBelow(f, f[k])) >= i
    BY <1>2, CutsAreFinite
  <1> QED BY <1>1, <1>3, SortedAt

\* A position lies on a rank of n, counted from 0, or between two.
Straddles(position, n) ==
  LET low == position \div 100
      high == -((-position) \div 100)
      weight == position % 100
  IN /\ position \in Nat /\ low \in Nat /\ weight \in 0..99
     /\ position = 100 * low + weight
     /\ high = IF weight = 0 THEN low ELSE low + 1
     /\ low + 1 \in 1..n /\ high + 1 \in 1..n

LEMMA PercentagesStraddle ==
  ASSUME NEW n \in Nat, n >= 1, NEW percent \in 0..100
  PROVE  Straddles(percent * (n - 1), n)
  <1> DEFINE position == percent * (n - 1)
             low == position \div 100
             high == -((-position) \div 100)
             weight == position % 100
  <1>1. position \in Nat /\ position <= 100 * (n - 1)
    BY 0 * (n - 1) = 0, TimesIsMonotone
  <1> HIDE DEF position
  <1>2. low \in Nat /\ weight \in 0..99 /\ position = 100 * low + weight
    BY <1>1
  <1>3. high = IF weight = 0 THEN low ELSE low + 1
    BY <1>1
  <1> HIDE DEF low, high, weight
  <1>4. low + 1 \in 1..n /\ high + 1 \in 1..n
    BY <1>1, <1>2, <1>3
  <1> QED BY <1>1, <1>2, <1>3, <1>4 DEF Straddles, position, low, high, weight

\* The two values that a percentage lies between.
Position(f, percent) == percent * (Size(f) - 1)
Lower(f, percent)  == Sorted(f)[Position(f, percent) \div 100 + 1]
Higher(f, percent) == Sorted(f)[-((-Position(f, percent)) \div 100) + 1]

LEMMA PositionOf ==
  ASSUME NEW f, IsMeasured(f), Size(f) >= 1, NEW percent \in 0..100
  PROVE  Straddles(Position(f, percent), Size(f))
  BY CutsAreFinite, PercentagesStraddle DEF Position

LEMMA QuantileLies ==
  ASSUME NEW f, IsMeasured(f), Size(f) >= 1, NEW percent \in 0..100
  PROVE  LET at == Quantile(Sorted(f), percent)
             low == Lower(f, percent)
             high == Higher(f, percent)
             weight == Position(f, percent) % 100
         IN /\ Len(Sorted(f)) = Size(f)
            /\ low \in Nat /\ high \in Nat /\ low <= high
            /\ at = 100 * low + (high - low) * weight
            /\ at \in Int /\ 100 * low <= at /\ at <= 100 * high
  <1> DEFINE w == Position(f, percent) % 100
             low == Lower(f, percent)
             high == Higher(f, percent)
             at == Quantile(Sorted(f), percent)
  <1>1. Len(Sorted(f)) = Size(f)
    BY CutsAreFinite DEF Sorted
  <1>2. at = 100 * low + (high - low) * w
    BY <1>1 DEF Quantile, Lower, Higher, Position
  <1>3. Straddles(Position(f, percent), Size(f))
    BY PositionOf
  <1>9. w \in 0..99
    BY <1>3 DEF Straddles
  <1>4. low \in Nat /\ high \in Nat /\ low <= high
    <2>1. PICK i \in 1..Size(f), j \in 1..Size(f) : i <= j /\ low = Sorted(f)[i] /\ high = Sorted(f)[j]
      <3> DEFINE i == Position(f, percent) \div 100 + 1
                 j == -((-Position(f, percent)) \div 100) + 1
      <3>1. i \in 1..Size(f) /\ j \in 1..Size(f) /\ i <= j
        BY <1>3 DEF Straddles
      <3>2. low = Sorted(f)[i] /\ high = Sorted(f)[j]
        BY DEF low, high, Lower, Higher
      <3> HIDE DEF i, j
      <3> QED BY <3>1, <3>2
    <2> QED BY <2>1, SortedAt, SortedAscends
  <1> HIDE DEF w, low, high, at
  <1>5. PICK gap \in Nat : high - low = gap
    BY <1>4
  <1>6. gap * w \in Nat /\ gap * w <= gap * 100
    <2>1. w * gap <= 100 * gap /\ 0 * gap <= w * gap
      BY <1>9, TimesIsMonotone
    <2> QED BY <1>9, <2>1
  <1>7. at = 100 * low + gap * w
    BY <1>2, <1>5
  <1>8. at \in Int /\ 100 * low <= at /\ at <= 100 * high
    BY <1>4, <1>5, <1>6, <1>7
  <1> QED BY <1>1, <1>2, <1>4, <1>8 DEF w, low, high, at

\* Enough is at or below it, and enough at or above.
LEMMA QuantileStands ==
  ASSUME NEW f, IsMeasured(f), Size(f) >= 1, NEW percent \in 0..100
  PROVE  Stands(f, percent, Quantile(Sorted(f), percent))
  <1> DEFINE n == Size(f)
             p == Position(f, percent)
             i == p \div 100
             j == -((-p) \div 100)
             w == p % 100
             low == Lower(f, percent)
             high == Higher(f, percent)
             at == Quantile(Sorted(f), percent)
             under == {k \in DOMAIN f : 100 * f[k] <= at}
             over  == {k \in DOMAIN f : 100 * f[k] >= at}
  <1>0. n \in Nat /\ IsFiniteSet(DOMAIN f) /\ \A k \in DOMAIN f : f[k] \in Nat
    BY CutsAreFinite DEF IsMeasured
  <1>9. Straddles(p, n)
    BY PositionOf
  <1>1. /\ p \in Nat /\ i \in Nat /\ w \in 0..99
        /\ p = 100 * i + w /\ j = IF w = 0 THEN i ELSE i + 1
        /\ i + 1 \in 1..n /\ j + 1 \in 1..n
    <2> HIDE DEF p, n
    <2> QED BY <1>9 DEF Straddles
  <1>2. low = Sorted(f)[i + 1] /\ high = Sorted(f)[j + 1]
    BY DEF Lower, Higher
  <1>3. low \in Nat /\ high \in Nat /\ at \in Int /\ 100 * low <= at /\ at <= 100 * high
    BY QuantileLies
  <1>4. IsFiniteSet(under) /\ IsFiniteSet(over) /\ Cardinality(under) \in Nat /\ Cardinality(over) \in Nat
    <2>1. under \in SUBSET DOMAIN f /\ over \in SUBSET DOMAIN f
      OBVIOUS
    <2> HIDE DEF under, over
    <2> QED BY <1>0, <2>1, FS_Subset, FS_CardinalityType
  <1> HIDE DEF p, i, j, w, low, high, at
  <1>5. Cardinality(under) >= i + 1
    <2>1. i + 1 \in 1..n
      BY <1>0, <1>1
    <2>2. Cardinality(AtOrBelow(f, low)) >= i + 1
      BY <1>2, <2>1, SortedAt
    <2>3. AtOrBelow(f, low) \in SUBSET under
      BY <1>0, <1>3 DEF AtOrBelow
    <2>4. Cardinality(AtOrBelow(f, low)) <= Cardinality(under)
      <3> HIDE DEF under
      <3> QED BY <1>4, <2>3, FS_Subset
    <2> QED BY <1>1, <1>3, <1>4, <2>2, <2>4, CutsAreFinite
  <1>6. Cardinality(over) > n - (j + 1)
    <2>1. j + 1 \in 1..n
      BY <1>0, <1>1
    <2>2. Cardinality(AtOrAbove(f, high)) > n - (j + 1)
      BY <1>2, <2>1, SortedFrom
    <2>3. AtOrAbove(f, high) \in SUBSET over
      BY <1>0, <1>3 DEF AtOrAbove
    <2>4. Cardinality(AtOrAbove(f, high)) <= Cardinality(over)
      <3> HIDE DEF over
      <3> QED BY <1>4, <2>3, FS_Subset
    <2> QED BY <1>0, <1>1, <1>3, <1>4, <2>2, <2>4, CutsAreFinite
  <1> HIDE DEF under, over, n
  <1>7. 100 * Cardinality(under) > p /\ 100 * Cardinality(over) > 100 * (n - 1) - p
    BY <1>0, <1>1, <1>4, <1>5, <1>6
  <1> QED BY <1>7 DEF Stands, under, over, n, p, at, Position

\* A greater percentage stands no lower.
LEMMA QuantileGrows ==
  ASSUME NEW f, IsMeasured(f), Size(f) >= 1,
         NEW p \in 0..100, NEW q \in 0..100, p <= q
  PROVE  Quantile(Sorted(f), p) <= Quantile(Sorted(f), q)
  <1> DEFINE pp == Position(f, p)
             qq == Position(f, q)
             lower == Quantile(Sorted(f), p)
             upper == Quantile(Sorted(f), q)
             i == pp \div 100
             k == qq \div 100
             v == pp % 100
             w == qq % 100
             j == -((-pp) \div 100)
             l == -((-qq) \div 100)
  <1>0. Size(f) \in Nat
    BY CutsAreFinite
  <1>1. pp <= qq
    <2>1. Size(f) - 1 \in Nat
      BY <1>0
    <2> QED BY <1>0, <2>1, TimesIsMonotone DEF Position
  <1>2. /\ pp \in Nat /\ i \in Nat /\ v \in 0..99
        /\ pp = 100 * i + v /\ j = IF v = 0 THEN i ELSE i + 1
        /\ i + 1 \in 1..Size(f) /\ j + 1 \in 1..Size(f)
    <2>1. Straddles(pp, Size(f))
      BY PositionOf
    <2> HIDE DEF pp
    <2> QED BY <2>1 DEF Straddles
  <1>3. /\ qq \in Nat /\ k \in Nat /\ w \in 0..99
        /\ qq = 100 * k + w /\ l = IF w = 0 THEN k ELSE k + 1
        /\ k + 1 \in 1..Size(f) /\ l + 1 \in 1..Size(f)
    <2>1. Straddles(qq, Size(f))
      BY PositionOf
    <2> HIDE DEF qq
    <2> QED BY <2>1 DEF Straddles
  <1>9. /\ Lower(f, p) = Sorted(f)[i + 1] /\ Higher(f, p) = Sorted(f)[j + 1]
        /\ Lower(f, q) = Sorted(f)[k + 1] /\ Higher(f, q) = Sorted(f)[l + 1]
    BY DEF Lower, Higher
  <1>4. /\ lower = 100 * Lower(f, p) + (Higher(f, p) - Lower(f, p)) * v
        /\ upper = 100 * Lower(f, q) + (Higher(f, q) - Lower(f, q)) * w
    BY QuantileLies
  <1>5. /\ Lower(f, p) \in Nat /\ Higher(f, p) \in Nat /\ Lower(f, p) <= Higher(f, p)
        /\ lower \in Int /\ lower <= 100 * Higher(f, p)
    BY QuantileLies
  <1>6. Lower(f, q) \in Nat /\ upper \in Int /\ 100 * Lower(f, q) <= upper
    BY QuantileLies
  <1> HIDE DEF pp, qq, lower, upper, i, j, k, l, v, w
  <1>7. CASE i = k /\ v # 0
    <2>1. v <= w /\ j = l
      BY <1>1, <1>2, <1>3, <1>7
    <2>2. Lower(f, q) = Lower(f, p) /\ Higher(f, q) = Higher(f, p)
      BY <1>7, <1>9, <2>1
    <2>3. PICK gap \in Nat : Higher(f, p) - Lower(f, p) = gap
      BY <1>5
    <2>4. v * gap <= w * gap
      BY <1>2, <1>3, <2>1, TimesIsMonotone
    <2>5. lower = 100 * Lower(f, p) + v * gap /\ upper = 100 * Lower(f, p) + w * gap
      BY <1>2, <1>3, <1>4, <2>2, <2>3
    <2>6. PICK a \in Int, b \in Int : a = v * gap /\ b = w * gap
      BY <1>2, <1>3
    <2>7. a <= b /\ lower = 100 * Lower(f, p) + a /\ upper = 100 * Lower(f, p) + b
      BY <2>4, <2>5, <2>6
    <2> QED BY <1>5, <2>7 DEF lower, upper
  <1>8. CASE i # k \/ v = 0
    <2>1. j + 1 <= k + 1
      BY <1>1, <1>2, <1>3, <1>8
    <2>2. Higher(f, p) <= Lower(f, q)
      BY <1>2, <1>3, <1>9, <2>1, SortedAscends
    <2>3. lower <= upper
      BY ONLY <1>5, <1>6, <2>2
    <2> QED BY <2>3 DEF lower, upper
  <1> QED BY <1>7, <1>8

LEMMA MeasuredIsMeasured ==
  ASSUME NEW values, IsFiniteSet(DOMAIN values), \A k \in DOMAIN values : values[k] \in Nat \cup {Null}
  PROVE  IsMeasured(Measured(values)) /\ Size(Measured(values)) \in Nat
  <1> DEFINE S == {k \in DOMAIN values : values[k] # Null}
             m == [k \in S |-> values[k]]
  <1>1. Measured(values) = m
    BY Zenon DEF Measured, RestrictValues, Restrict
  <1>2. IsFiniteSet(S)
    <2>1. S \in SUBSET DOMAIN values
      OBVIOUS
    <2> HIDE DEF S
    <2> QED BY <2>1, FS_Subset
  <1>3. IsMeasured(m)
    BY <1>2 DEF IsMeasured
  <1> HIDE DEF m
  <1> QED BY <1>1, <1>3, CutsAreFinite

LEMMA PercentilesOf ==
  ASSUME NEW values, IsFiniteSet(DOMAIN values), \A k \in DOMAIN values : values[k] \in Nat \cup {Null}
  PROVE  LET m == Measured(values)
             At(percent) == IF Size(m) = 0 THEN Null ELSE Quantile(Sorted(m), percent)
         IN Percentiles(values) = [n |-> Size(m), p50 |-> At(50), p95 |-> At(95), p99 |-> At(99)]
  <1> DEFINE m == Measured(values)
             sorted == Sorted(m)
  <1>1. Size(m) \in Nat
    BY MeasuredIsMeasured
  <1>2. Len(sorted) = Size(m) /\ (sorted = << >> <=> Size(m) = 0)
    <2> DEFINE n == Size(m)
    <2>1. DOMAIN sorted = 1..n
      BY DEF Sorted
    <2>2. sorted \in Seq({sorted[r] : r \in 1..n})
      BY <1>1 DEF Sorted
    <2> HIDE DEF n, sorted
    <2>3. Len(sorted) = n
      BY <1>1, <2>1, <2>2 DEF n
    <2>4. sorted = << >> <=> Len(sorted) = 0
      BY ONLY <2>2
    <2> QED BY <2>3, <2>4 DEF n
  <1> HIDE DEF m, sorted
  <1> QED BY <1>2 DEF Percentiles, m, sorted

LEMMA WellPlacedAlways ==
  ASSUME NEW values, IsFiniteSet(DOMAIN values), \A k \in DOMAIN values : values[k] \in Nat \cup {Null}
  PROVE  WellPlaced(values)
  <1> DEFINE m == Measured(values)
             At(percent) == IF Size(m) = 0 THEN Null ELSE Quantile(Sorted(m), percent)
             p == Percentiles(values)
  <1>1. IsMeasured(m) /\ Size(m) \in Nat
    BY MeasuredIsMeasured
  <1>2. p.n = Size(m) /\ p.p50 = At(50) /\ p.p95 = At(95) /\ p.p99 = At(99)
    BY PercentilesOf
  <1> HIDE DEF m, p
  <1>3. CASE Size(m) = 0
    BY <1>2, <1>3 DEF WellPlaced, m, p
  <1>4. CASE Size(m) # 0
    <2>1. Size(m) >= 1
      BY <1>1, <1>4
    <2>2. /\ Stands(m, 50, Quantile(Sorted(m), 50))
          /\ Stands(m, 95, Quantile(Sorted(m), 95))
          /\ Stands(m, 99, Quantile(Sorted(m), 99))
      BY <1>1, <2>1, QuantileStands
    <2>3. /\ Quantile(Sorted(m), 50) <= Quantile(Sorted(m), 95)
          /\ Quantile(Sorted(m), 95) <= Quantile(Sorted(m), 99)
      BY SMTT(30), <1>1, <2>1, QuantileGrows
    <2> QED BY <1>2, <1>4, <2>2, <2>3 DEF WellPlaced, m, p
  <1> QED BY <1>3, <1>4

\* A percentile stands at the rank that it says, of any measurements, and what is missing
\* is nobody's rank (percentiles and quantile, latency.ts).
THEOREM PercentilesStandAtTheirRank == \A values \in Seq(Nat \cup {Null}) : WellPlaced(values)
  <1> SUFFICES ASSUME NEW values \in Seq(Nat \cup {Null}) PROVE WellPlaced(values)
    OBVIOUS
  <1>1. Len(values) \in Nat /\ DOMAIN values = 1..Len(values)
        /\ \A k \in DOMAIN values : values[k] \in Nat \cup {Null}
    OBVIOUS
  <1>2. IsFiniteSet(DOMAIN values)
    BY <1>1, FS_Interval
  <1> QED BY <1>1, <1>2, WellPlacedAlways

-----------------------------------------------------------------------------
(* Means.  The fractions of a family are added in some order. *)

Fraction == Int \X Int

\* What the definition of the sum of a mean goes through.
Added(f, S) ==
  CHOOSE g : g = [s \in SUBSET S |-> IF s = {} THEN Zero ELSE Plus(f[First(s)], g[s \ {First(s)}])]

LEMMA MeanIsAdded ==
  ASSUME NEW f
  PROVE  LET sum == Added(f, DOMAIN f)[DOMAIN f] IN Mean(f) = <<sum[1], sum[2] * Size(f)>>
  BY DEF Mean, FoldFunction, FoldFunctionOnSet, MapThenFoldSet, Added, First

LEMMA FractionsAdd ==
  ASSUME NEW p \in Fraction, NEW q \in Fraction
  PROVE  Plus(p, q) \in Fraction
  BY DEF Fraction, Plus

LEMMA AddedUp ==
  ASSUME NEW f, NEW S, IsFiniteSet(S), \A x \in S : f[x] \in Fraction, NEW part \in SUBSET S
  PROVE  /\ Added(f, S)[part] \in Fraction
         /\ Added(f, S)[part] = IF part = {} THEN Zero
                                ELSE Plus(f[First(part)], Added(f, S)[part \ {First(part)}])
  <1> DEFINE D == SUBSET S
             mu == [s \in D |-> Cardinality(s)]
             Body(s, g) == IF s = {} THEN Zero ELSE Plus(f[First(s)], g[s \ {First(s)}])
             step == [q \in D \X [D -> Fraction] |-> Body(q[1], q[2])]
  <1>0. Zero \in Fraction
    BY DEF Zero, Fraction
  <1>1. \A s \in D : IsFiniteSet(s) /\ Cardinality(s) \in Nat
    BY FS_Subset, FS_CardinalityType
  <1>2. mu \in [D -> Nat]
    BY <1>1
  <1>3. ASSUME NEW s \in D, s # {}
        PROVE  First(s) \in S /\ s \ {First(s)} \in D /\ mu[s \ {First(s)}] < mu[s]
    <2>1. First(s) \in s
      BY <1>3, FirstIsIn
    <2>2. Cardinality(s \ {First(s)}) = Cardinality(s) - 1
      BY <1>1, <2>1, FS_RemoveElement
    <2> QED BY <1>1, <2>1, <2>2
  <1> HIDE DEF mu
  <1>4. ASSUME NEW s \in D, NEW g, \A t \in D : mu[t] < mu[s] => g[t] \in Fraction
        PROVE  Body(s, g) \in Fraction
    <2>1. CASE s = {}
      BY <1>0, <2>1
    <2>2. CASE s # {}
      <3>1. f[First(s)] \in Fraction /\ g[s \ {First(s)}] \in Fraction
        BY <2>2, <1>3, <1>4
      <3> QED BY <2>2, <3>1, FractionsAdd
    <2> QED BY <2>1, <2>2
  <1>5. ASSUME NEW s \in D, NEW g, NEW h, \A t \in D : mu[t] < mu[s] => g[t] = h[t]
        PROVE  Body(s, g) = Body(s, h)
    BY <1>3, <1>5
  <1> HIDE DEF Body
  <1>6. \E f1 : f1 = [s \in D |-> Body(s, f1)]
    <2>1. step \in [D \X [D -> Fraction] -> Fraction]
      BY <1>4
    <2>2. \A s \in D, g \in [D -> Fraction] : step[<<s, g>>] = Body(s, g)
      OBVIOUS
    <2>0. Fraction # {}
      BY <1>0
    <2> HIDE DEF D, step
    <2>3. LooksBelow(D, Fraction, mu, step)
      BY <1>2, <2>0, <2>1, <2>2, <1>5 DEF LooksBelow
    <2>4. PICK f1 : Solves(f1, D, Fraction, step)
      BY <2>3, Recursion
    <2>5. f1 = [s \in D |-> Body(s, f1)]
      BY <2>2, <2>4 DEF Solves
    <2> QED BY <2>5
  <1> DEFINE sum == Added(f, S)
  <1>7. sum = [s \in D |-> Body(s, sum)]
    <2>1. sum = CHOOSE g : g = [s \in D |-> Body(s, g)]
      BY DEF Added, Body
    <2> HIDE DEF sum, D
    <2> QED BY <1>6, <2>1
  <1> HIDE DEF sum
  <1>8. \A s \in D : sum[s] \in Fraction
    <2> DEFINE bad == {s \in D : sum[s] \notin Fraction}
    <2>0. SUFFICES ASSUME bad # {} PROVE FALSE
      OBVIOUS
    <2>1. PICK s \in bad : \A t \in D : mu[t] < mu[s] => t \notin bad
      <3>1. bad \subseteq D
        OBVIOUS
      <3> HIDE DEF bad, D
      <3> QED BY ONLY <2>0, <3>1, <1>2, LeastPlace
    <2>2. Body(s, sum) \in Fraction
      BY <1>4, <2>1
    <2> HIDE DEF D
    <2> QED BY <1>7, <2>1, <2>2
  <1>9. sum[part] = Body(part, sum)
    <2>1. part \in D
      OBVIOUS
    <2> HIDE DEF D
    <2> QED BY <1>7, <2>1
  <1> QED BY <1>8, <1>9 DEF Body, sum

\* A mean of fractions is one.
LEMMA MeanType ==
  ASSUME NEW f, IsFiniteSet(DOMAIN f), \A x \in DOMAIN f : f[x] \in Fraction
  PROVE  Mean(f) \in Fraction
  <1>1. Added(f, DOMAIN f)[DOMAIN f] \in Fraction
    BY DOMAIN f \in SUBSET DOMAIN f, AddedUp
  <1>2. Size(f) \in Nat
    BY FS_CardinalityType DEF Size
  <1> QED BY <1>1, <1>2, MeanIsAdded DEF Fraction

\* p is no more than n wholes, and a positive whole divides it.
AtMostWholes(p, n) == p \in Nat \X (Nat \ {0}) /\ p[1] <= n * p[2]

LEMMA TimesIsPositive ==
  ASSUME NEW a \in Nat \ {0}, NEW b \in Nat \ {0}
  PROVE  a * b \in Nat \ {0}
  OBVIOUS

LEMMA WholesAdd ==
  ASSUME NEW n \in Nat, NEW p, NEW q, AtMostWholes(p, 1), AtMostWholes(q, n)
  PROVE  /\ AtMostWholes(Plus(p, q), n + 1)
         /\ p[1] = p[2] /\ q[1] = n * q[2] => Plus(p, q)[1] = (n + 1) * Plus(p, q)[2]
  <1> PICK a \in Nat, b \in Nat \ {0}, c \in Nat, d \in Nat \ {0} :
        p = <<a, b>> /\ q = <<c, d>> /\ a <= b /\ c <= n * d
    BY DEF AtMostWholes
  <1>1. Plus(p, q) = <<a * d + c * b, b * d>>
    BY DEF Plus
  <1>2. a * d <= b * d
    BY TimesIsMonotone
  <1>3. c * b <= (n * d) * b
    <2>1. n * d \in Int
      OBVIOUS
    <2> HIDE DEF AtMostWholes
    <2> QED BY <2>1, TimesIsMonotone
  <1>4. (n * d) * b = n * (b * d) /\ (n + 1) * (b * d) = n * (b * d) + b * d
    OBVIOUS
  <1>5. b * d \in Nat \ {0} /\ a * d \in Nat /\ c * b \in Nat /\ n * (b * d) \in Nat
    <2>1. b * d \in Nat \ {0}
      BY TimesIsPositive
    <2>2. a * d \in Nat /\ c * b \in Nat
      OBVIOUS
    <2>3. n * (b * d) \in Nat
      BY <2>1
    <2> QED BY <2>1, <2>2, <2>3
  <1>6. a * d + c * b <= (n + 1) * (b * d)
    BY <1>2, <1>3, <1>4, <1>5
  <1>7. a = b /\ c = n * d => a * d + c * b = (n + 1) * (b * d)
    BY <1>4
  <1> QED BY <1>1, <1>5, <1>6, <1>7 DEF AtMostWholes

\* The mean of shares is a share, and the whole when each of them is.
LEMMA MeanOfShares ==
  ASSUME NEW f, IsFiniteSet(DOMAIN f), DOMAIN f # {}, \A x \in DOMAIN f : AtMostWholes(f[x], 1)
  PROVE  /\ AtMostWholes(Mean(f), 1)
         /\ (\A x \in DOMAIN f : f[x][1] = f[x][2]) => Mean(f)[1] = Mean(f)[2]
  <1> DEFINE S == DOMAIN f
             D == SUBSET S
             mu == [s \in D |-> Cardinality(s)]
             sum == Added(f, S)
             whole == \A x \in S : f[x][1] = f[x][2]
             Lies(s) == /\ AtMostWholes(sum[s], Cardinality(s))
                        /\ whole => sum[s][1] = Cardinality(s) * sum[s][2]
             bad == {s \in D : ~Lies(s)}
  <1>1. \A s \in D : IsFiniteSet(s) /\ Cardinality(s) \in Nat
    BY FS_Subset, FS_CardinalityType
  <1>2. mu \in [D -> Nat]
    BY <1>1
  <1>3. \A s \in D : sum[s] = IF s = {} THEN Zero ELSE Plus(f[First(s)], sum[s \ {First(s)}])
    <2>1. \A x \in S : f[x] \in Fraction
      BY DEF AtMostWholes, Fraction
    <2> HIDE DEF S
    <2> QED BY <2>1, AddedUp DEF S
  <1>4. ASSUME bad # {} PROVE FALSE
    <2>1. PICK s \in bad : \A t \in D : mu[t] < mu[s] => t \notin bad
      <3>1. bad \subseteq D
        OBVIOUS
      <3> HIDE DEF bad, D, mu
      <3> QED BY ONLY <1>4, <3>1, <1>2, LeastPlace
    <2>2. CASE s = {}
      <3>1. sum[s] = <<0, 1>> /\ Cardinality(s) = 0
        BY <1>3, <2>1, <2>2, FS_EmptySet DEF Zero
      <3> HIDE DEF sum
      <3>2. Lies(s)
        BY <3>1 DEF AtMostWholes
      <3> QED BY <2>1, <3>2
    <2>3. CASE s # {}
      <3> DEFINE x == First(s)
                 rest == s \ {x}
      <3>1. x \in s /\ x \in S
        BY <2>1, <2>3, FirstIsIn
      <3>2. Cardinality(rest) = Cardinality(s) - 1
        BY <1>1, <2>1, <3>1, FS_RemoveElement
      <3>3. rest \in D /\ mu[rest] < mu[s]
        BY <1>1, <2>1, <3>1, <3>2
      <3>4. Lies(rest)
        BY <2>1, <3>3
      <3>5. sum[s] = Plus(f[x], sum[rest])
        BY <1>3, <2>1, <2>3
      <3>6. PICK n \in Nat : n = Cardinality(rest) /\ n + 1 = Cardinality(s)
        BY <1>1, <2>1, <3>2, <3>3
      <3>7. AtMostWholes(f[x], 1) /\ (whole => f[x][1] = f[x][2])
        BY <3>1
      <3> HIDE DEF sum, x, rest, whole
      <3>8. AtMostWholes(sum[rest], n) /\ (whole => sum[rest][1] = n * sum[rest][2])
        BY <3>4, <3>6
      <3>9. Lies(s)
        BY <3>5, <3>6, <3>7, <3>8, WholesAdd
      <3> QED BY <2>1, <3>9
    <2> QED BY <2>2, <2>3
  <1>5. Lies(S)
    BY <1>4
  <1>6. Size(f) \in Nat \ {0}
    BY FS_CardinalityType, FS_EmptySet DEF Size
  <1> DEFINE all == sum[S]
  <1>7. Mean(f) = <<all[1], all[2] * Size(f)>>
    BY MeanIsAdded
  <1>8. AtMostWholes(all, Size(f)) /\ (whole => all[1] = Size(f) * all[2])
    BY <1>5 DEF Size
  <1> HIDE DEF all, whole
  <1>9. PICK a \in Nat, b \in Nat \ {0}, n \in Nat \ {0} : all = <<a, b>> /\ n = Size(f) /\ a <= n * b
    BY <1>6, <1>8 DEF AtMostWholes
  <1>10. b * n \in Nat \ {0} /\ b * n = n * b
    BY TimesIsPositive
  <1>11. Mean(f) = <<a, b * n>> /\ (whole => a = b * n)
    BY <1>7, <1>8, <1>9, <1>10
  <1>12. AtMostWholes(Mean(f), 1)
    BY <1>9, <1>10, <1>11 DEF AtMostWholes
  <1>13. whole => Mean(f)[1] = Mean(f)[2]
    BY <1>11
  <1> QED BY <1>12, <1>13 DEF whole

-----------------------------------------------------------------------------
(* chrF. *)

\* A sum is no more than another whose terms are no less.
LEMMA SumAtMost ==
  ASSUME NEW f, NEW g, NEW S, IsFiniteSet(S),
         \A x \in S : f[x] \in Int /\ g[x] \in Int /\ f[x] <= g[x]
  PROVE  SumFunctionOnSet(f, S) <= SumFunctionOnSet(g, S)
  <1> DEFINE D == SUBSET S
             mu == [s \in D |-> Cardinality(s)]
             SumF(s) == SumFunctionOnSet(f, s)
             SumG(s) == SumFunctionOnSet(g, s)
             bad == {s \in D : ~(SumF(s) <= SumG(s))}
  <1>1. \A s \in D : /\ IsFiniteSet(s) /\ Cardinality(s) \in Nat
                     /\ \A x \in s : f[x] \in Int /\ g[x] \in Int /\ f[x] <= g[x]
    BY FS_Subset, FS_CardinalityType
  <1>2. mu \in [D -> Nat]
    BY <1>1
  <1>3. \A s \in D : SumF(s) \in Int /\ SumG(s) \in Int
    BY <1>1, SumType
  <1>4. ASSUME bad # {} PROVE FALSE
    <2>1. PICK s \in bad : \A t \in D : mu[t] < mu[s] => t \notin bad
      <3>1. bad \subseteq D
        OBVIOUS
      <3> HIDE DEF bad, D, mu
      <3> QED BY ONLY <1>4, <3>1, <1>2, LeastPlace
    <2>2. s # {}
      <3>1. SumF({}) = 0 /\ SumG({}) = 0
        BY SumNone
      <3> HIDE DEF SumF, SumG
      <3> QED BY <2>1, <3>1
    <2>3. PICK x \in s : TRUE
      BY <2>2
    <2> DEFINE rest == s \ {x}
    <2>4. rest \in D /\ mu[rest] < mu[s]
      <3>1. Cardinality(rest) = Cardinality(s) - 1
        BY <1>1, <2>1, FS_RemoveElement
      <3> QED BY <1>1, <2>1, <3>1
    <2>5. SumF(s) = f[x] + SumF(rest) /\ SumG(s) = g[x] + SumG(rest)
      BY <1>1, <2>1, SumTakes
    <2>6. SumF(rest) <= SumG(rest)
      BY <2>1, <2>4
    <2>7. f[x] \in Int /\ g[x] \in Int /\ f[x] <= g[x]
      BY <2>1
    <2>8. SumF(rest) \in Int /\ SumG(rest) \in Int
      BY <1>3, <2>4
    <2> HIDE DEF SumF, SumG, rest
    <2>9. ~(SumF(s) <= SumG(s))
      BY <2>1
    <2> QED BY <2>5, <2>6, <2>7, <2>8, <2>9
  <1>5. S \in D /\ S \notin bad
    BY <1>4
  <1> QED BY <1>5

OfKind(K, kind, G) == {k \in K : kind[k] \in G}

\* Each of the things is of one kind: the kinds have as many as are of any of them.
LEMMA CountByKind ==
  ASSUME NEW K, IsFiniteSet(K), NEW kind, NEW G, IsFiniteSet(G), NEW f,
         \A g \in G : f[g] = Cardinality(OfKind(K, kind, {g}))
  PROVE  SumFunctionOnSet(f, G) = Cardinality(OfKind(K, kind, G))
  <1> DEFINE D == SUBSET G
             mu == [s \in D |-> Cardinality(s)]
             Of(s) == OfKind(K, kind, s)
             Sum(s) == SumFunctionOnSet(f, s)
             bad == {s \in D : Sum(s) # Cardinality(Of(s))}
  <1>0. \A s : IsFiniteSet(Of(s)) /\ Cardinality(Of(s)) \in Nat
    <2> TAKE s
    <2>1. Of(s) \in SUBSET K
      BY DEF OfKind
    <2> HIDE DEF Of
    <2> QED BY <2>1, FS_Subset, FS_CardinalityType
  <1>1. \A g \in G : f[g] = Cardinality(Of({g})) /\ f[g] \in Int
    <2> TAKE g \in G
    <2>1. f[g] = Cardinality(Of({g}))
      OBVIOUS
    <2> HIDE DEF Of
    <2> QED BY <2>1, <1>0
  <1>2. \A s \in D : IsFiniteSet(s) /\ Cardinality(s) \in Nat /\ \A x \in s : f[x] \in Int
    <2> HIDE DEF Of
    <2> QED BY <1>1, FS_Subset, FS_CardinalityType
  <1>3. mu \in [D -> Nat]
    BY <1>2
  <1>4. ASSUME bad # {} PROVE FALSE
    <2>1. PICK s \in bad : \A t \in D : mu[t] < mu[s] => t \notin bad
      <3>1. bad \subseteq D
        OBVIOUS
      <3> HIDE DEF bad, D, mu
      <3> QED BY ONLY <1>4, <3>1, <1>3, LeastPlace
    <2>2. s # {}
      <3>1. Of({}) = {} /\ Sum({}) = 0
        BY SumNone DEF OfKind
      <3>2. Cardinality({}) = 0
        BY FS_EmptySet
      <3> HIDE DEF Of, Sum
      <3> QED BY <2>1, <3>1, <3>2
    <2>3. PICK x \in s : TRUE
      BY <2>2
    <2> DEFINE rest == s \ {x}
    <2>4. rest \in D /\ mu[rest] < mu[s]
      <3>1. Cardinality(rest) = Cardinality(s) - 1
        BY <1>2, <2>1, FS_RemoveElement
      <3> QED BY <1>2, <2>1, <3>1
    <2>5. Sum(s) = f[x] + Sum(rest)
      <3> HIDE DEF Of
      <3> QED BY <1>2, <2>1, SumTakes
    <2>6. Sum(rest) = Cardinality(Of(rest))
      BY <2>1, <2>4
    <2>7. Of(s) = Of({x}) \cup Of(rest) /\ Of({x}) \cap Of(rest) = {}
      BY <2>3 DEF OfKind
    <2>8. Cardinality(Of(s)) = Cardinality(Of({x})) + Cardinality(Of(rest))
      <3>1. Cardinality({}) = 0
        BY FS_EmptySet
      <3> DEFINE A == Of({x})
                 B == Of(rest)
      <3>2. IsFiniteSet(A) /\ IsFiniteSet(B) /\ Cardinality(A) \in Nat /\ Cardinality(B) \in Nat
        <4> HIDE DEF Of
        <4> QED BY <1>0
      <3>3. A \cap B = {}
        BY <2>7
      <3> HIDE DEF A, B
      <3>4. Cardinality(A \cup B) = Cardinality(A) + Cardinality(B) - Cardinality(A \cap B)
        BY <3>2, FS_Union
      <3>5. Cardinality(A \cup B) = Cardinality(A) + Cardinality(B)
        BY <3>1, <3>2, <3>3, <3>4
      <3> QED BY <2>7, <3>5 DEF A, B
    <2>9. f[x] = Cardinality(Of({x}))
      BY <1>1, <2>1
    <2> HIDE DEF Of, Sum, rest
    <2>10. Sum(s) # Cardinality(Of(s))
      BY <2>1
    <2> QED BY <2>5, <2>6, <2>8, <2>9, <2>10
  <1>5. G \in D /\ G \notin bad
    BY <1>4
  <1> QED BY <1>5

\* The places at which a gram of n begins.
Places(text, n) == 1..(Len(text) - n + 1)

LEMMA GramsOf ==
  ASSUME NEW text \in Text, NEW n \in 1..Len(text)
  PROVE  /\ IsFiniteSet(Grams(text, n))
         /\ \A gram \in Grams(text, n) : Len(gram) = n
         /\ IsFiniteSet(Places(text, n)) /\ Cardinality(Places(text, n)) = Len(text) - n + 1
         /\ Len(text) \in Nat /\ Len(text) - n + 1 \in Nat \ {0}
  <1>1. Len(text) \in Nat /\ n \in Nat /\ Len(text) - n + 1 \in Nat \ {0}
    BY DEF Text
  <1>2. IsFiniteSet(Places(text, n)) /\ Cardinality(Places(text, n)) = Len(text) - n + 1
    BY <1>1, FS_Interval DEF Places
  <1>3. Grams(text, n) = {SubSeq(text, k, k + n - 1) : k \in Places(text, n)}
    BY DEF Grams, Places
  <1>4. IsFiniteSet(Grams(text, n))
    <2> DEFINE K == Places(text, n)
               G == {SubSeq(text, k, k + n - 1) : k \in K}
               m == [k \in K |-> SubSeq(text, k, k + n - 1)]
    <2>1. m \in Surjection(K, G)
      BY Fun_IsSurj
    <2> HIDE DEF m, K, G
    <2>2. IsFiniteSet(G)
      BY <1>2, <2>1, FS_Surjection DEF K
    <2> QED BY <1>3, <2>2 DEF G, K
  <1>5. \A k \in Places(text, n) : Len(SubSeq(text, k, k + n - 1)) = n
    BY <1>1 DEF Places, Text
  <1> QED BY <1>1, <1>2, <1>3, <1>4, <1>5

LEMMA OccursAt ==
  ASSUME NEW text \in Text, NEW gram, NEW n \in Nat, Len(gram) = n
  PROVE  Occurs(gram, text) = Cardinality({k \in Places(text, n) : SubSeq(text, k, k + n - 1) = gram})
  BY DEF Occurs, Places

LEMMA MatchesLie ==
  ASSUME NEW a \in Nat, NEW b \in Nat
  PROVE  LET m == Min({a, b})
         IN m \in Nat /\ m <= a /\ m <= b /\ (a = b => m = a)
  <1>1. \E x \in {a, b} : \A y \in {a, b} : x <= y
    <2>1. CASE a <= b
      BY <2>1
    <2>2. CASE b <= a
      BY <2>2
    <2> QED BY <2>1, <2>2
  <1>2. Min({a, b}) \in {a, b} /\ \A y \in {a, b} : Min({a, b}) <= y
    BY <1>1 DEF Min
  <1> QED BY <1>2

\* The grams of n that match are no more than either text has, and all of them are those
\* of the text itself.
LEMMA OverlapLies ==
  ASSUME NEW ref \in Text, NEW hyp \in Text, NEW n, n \in 1..Len(ref), n \in 1..Len(hyp)
  PROVE  /\ Overlap(ref, hyp, n) \in Nat
         /\ Overlap(ref, hyp, n) <= Len(hyp) - n + 1
         /\ Overlap(ref, hyp, n) <= Len(ref) - n + 1
         /\ ref = hyp => Overlap(ref, hyp, n) = Len(hyp) - n + 1
  <1> DEFINE G == Grams(hyp, n)
             f == [g \in G |-> Matches(ref, hyp, g)]
             inHyp == [g \in G |-> Occurs(g, hyp)]
             inRef == [g \in G |-> Occurs(g, ref)]
             none == [g \in G |-> 0]
             H == Places(hyp, n)
             R == Places(ref, n)
             gramOfHyp == [k \in H |-> SubSeq(hyp, k, k + n - 1)]
             gramOfRef == [k \in R |-> SubSeq(ref, k, k + n - 1)]
  <1>1. /\ IsFiniteSet(G) /\ \A g \in G : Len(g) = n
        /\ IsFiniteSet(H) /\ Cardinality(H) = Len(hyp) - n + 1
        /\ Len(hyp) - n + 1 \in Nat
    BY GramsOf
  <1>2. IsFiniteSet(R) /\ Cardinality(R) = Len(ref) - n + 1 /\ Len(ref) - n + 1 \in Nat
    BY GramsOf
  <1>3. n \in Nat
    BY DEF Text
  <1>4. Overlap(ref, hyp, n) = SumFunctionOnSet(f, G)
    <2>1. Overlap(ref, hyp, n) = SumFunction(f)
      BY DEF Overlap
    <2>2. DOMAIN f = G
      OBVIOUS
    <2> HIDE DEF f, G
    <2> QED BY <2>1, <2>2 DEF SumFunction
  <1> DEFINE ofHyp(s) == OfKind(H, gramOfHyp, s)
             ofRef(s) == OfKind(R, gramOfRef, s)
  <1>5. \A g \in G : inHyp[g] = Cardinality(ofHyp({g})) /\ inRef[g] = Cardinality(ofRef({g}))
    <2> TAKE g \in G
    <2>1. ofHyp({g}) = {k \in H : SubSeq(hyp, k, k + n - 1) = g}
      BY DEF OfKind
    <2>2. ofRef({g}) = {k \in R : SubSeq(ref, k, k + n - 1) = g}
      BY DEF OfKind
    <2>3. Occurs(g, hyp) = Cardinality({k \in H : SubSeq(hyp, k, k + n - 1) = g})
      BY <1>1, <1>3, OccursAt
    <2>4. Occurs(g, ref) = Cardinality({k \in R : SubSeq(ref, k, k + n - 1) = g})
      BY <1>1, <1>3, OccursAt
    <2> QED BY <2>1, <2>2, <2>3, <2>4
  <1>6. \A g \in G : f[g] = Min({inHyp[g], inRef[g]})
    BY DEF Matches
  <1>7. \A k \in H : gramOfHyp[k] \in G
    BY DEF Grams, Places
  <1>8. ofHyp(G) = H /\ ofRef(G) \in SUBSET R
        /\ \A s : ofHyp(s) \in SUBSET H /\ ofRef(s) \in SUBSET R
    BY <1>7 DEF OfKind
  <1>9. Cardinality(ofRef(G)) <= Cardinality(R) /\ Cardinality(ofRef(G)) \in Nat
    <2> HIDE DEF ofRef, R
    <2> QED BY <1>2, <1>8, FS_Subset, FS_CardinalityType
  <1>10. \A g \in G : inHyp[g] \in Nat /\ inRef[g] \in Nat
    <2> TAKE g \in G
    <2>1. inHyp[g] = Cardinality(ofHyp({g})) /\ inRef[g] = Cardinality(ofRef({g}))
      BY <1>5
    <2> HIDE DEF inHyp, inRef, ofHyp, ofRef, H, R
    <2>2. IsFiniteSet(ofHyp({g})) /\ IsFiniteSet(ofRef({g}))
      BY <1>1, <1>2, <1>8, FS_Subset
    <2> QED BY <2>1, <2>2, FS_CardinalityType
  <1>11. \A g \in G : f[g] \in Nat /\ f[g] <= inHyp[g] /\ f[g] <= inRef[g]
                     /\ (inHyp[g] = inRef[g] => f[g] = inHyp[g])
    <2> HIDE DEF f, inHyp, inRef, G
    <2> TAKE g \in G
    <2>1. PICK a \in Nat, b \in Nat : a = inHyp[g] /\ b = inRef[g]
      BY <1>10
    <2>2. f[g] = Min({a, b})
      BY <1>6, <2>1
    <2> QED BY <2>1, <2>2, MatchesLie
  <1>12. ref = hyp => inRef = inHyp
    OBVIOUS
  <1>13. \A g \in G : none[g] = 0
    OBVIOUS
  <1> HIDE DEF G, f, inHyp, inRef, none, H, R, gramOfHyp, gramOfRef
  <1>14. SumFunctionOnSet(inHyp, G) = Cardinality(H)
    <2>1. SumFunctionOnSet(inHyp, G) = Cardinality(ofHyp(G))
      <3>1. IsFiniteSet(H) /\ IsFiniteSet(G)
        BY <1>1
      <3>2. \A g \in G : inHyp[g] = Cardinality(OfKind(H, gramOfHyp, {g}))
        BY <1>5
      <3> QED BY ONLY <3>1, <3>2, CountByKind
    <2> QED BY <1>8, <2>1
  <1>15. SumFunctionOnSet(inRef, G) = Cardinality(ofRef(G))
    <2>1. IsFiniteSet(R) /\ IsFiniteSet(G)
      BY <1>1, <1>2
    <2>2. \A g \in G : inRef[g] = Cardinality(OfKind(R, gramOfRef, {g}))
      BY <1>5
    <2> QED BY ONLY <2>1, <2>2, CountByKind
  <1>16. SumFunctionOnSet(f, G) <= SumFunctionOnSet(inHyp, G)
    BY <1>1, <1>10, <1>11, SumAtMost
  <1>17. SumFunctionOnSet(f, G) <= SumFunctionOnSet(inRef, G)
    BY <1>1, <1>10, <1>11, SumAtMost
  <1>18. 0 <= SumFunctionOnSet(f, G)
    <2>1. SumFunctionOnSet(none, G) <= SumFunctionOnSet(f, G)
      BY <1>1, <1>11, <1>13, SumAtMost
    <2>2. SumFunctionOnSet(none, G) = 0
      BY <1>1, <1>13, SumOfZeros
    <2> QED BY <2>1, <2>2
  <1>19. ref = hyp => SumFunctionOnSet(f, G) = SumFunctionOnSet(inHyp, G)
    <2> SUFFICES ASSUME ref = hyp PROVE SumFunctionOnSet(f, G) = SumFunctionOnSet(inHyp, G)
      OBVIOUS
    <2>1. \A g \in G : f[g] \in Int /\ f[g] = inHyp[g]
      BY <1>11, <1>12
    <2> QED BY <1>1, <2>1, SumAgrees
  <1>20. SumFunctionOnSet(f, G) \in Int
    BY <1>1, <1>11, SumType
  <1> QED BY <1>1, <1>2, <1>4, <1>9, <1>14, <1>15, <1>16, <1>17, <1>18, <1>19, <1>20

\* The orders that both texts are long enough for, and the share of a text that matches
\* at each.
Orders(ref, hyp) == 1..Min({MaxN, Len(ref), Len(hyp)})
SharesOf(ref, hyp, text) == [n \in Orders(ref, hyp) |-> <<Overlap(ref, hyp, n), Len(text) - n + 1>>]

LEMMA OrdersOf ==
  ASSUME NEW ref \in Text, NEW hyp \in Text, ref # << >>, hyp # << >>
  PROVE  /\ IsFiniteSet(Orders(ref, hyp)) /\ Orders(ref, hyp) # {}
         /\ \A n \in Orders(ref, hyp) : n \in 1..Len(ref) /\ n \in 1..Len(hyp)
  <1>1. Len(ref) \in Nat \ {0} /\ Len(hyp) \in Nat \ {0}
    BY DEF Text
  <1>2. MaxN \in Nat \ {0}
    BY MetricsConstants
  <1> DEFINE m == Min({MaxN, Len(ref), Len(hyp)})
  <1>3. m \in Nat \ {0} /\ m <= Len(ref) /\ m <= Len(hyp)
    <2>1. PICK x \in Nat \ {0}, y \in Nat \ {0}, z \in Nat \ {0} :
            x = MaxN /\ y = Len(ref) /\ z = Len(hyp)
      BY <1>1, <1>2
    <2>2. m = Min({x, y, z})
      BY <2>1
    <2> HIDE DEF m
    <2>3. (m = x \/ m = y \/ m = z) /\ m <= x /\ m <= y /\ m <= z
      <3>1. x \in Int /\ y \in Int /\ z \in Int
        OBVIOUS
      <3>2. /\ Min({x, y, z}) = x \/ Min({x, y, z}) = y \/ Min({x, y, z}) = z
            /\ Min({x, y, z}) <= x /\ Min({x, y, z}) <= y /\ Min({x, y, z}) <= z
        BY ONLY <3>1, MinOfThree
      <3> QED BY <2>2, <3>2
    <2> QED BY <2>1, <2>3
  <1>4. Orders(ref, hyp) = 1..m
    BY DEF Orders
  <1> HIDE DEF m
  <1>5. IsFiniteSet(1..m) /\ 1 \in 1..m
    BY <1>3, FS_Interval
  <1> QED BY <1>1, <1>3, <1>4, <1>5

LEMMA SharesLie ==
  ASSUME NEW ref \in Text, NEW hyp \in Text, ref # << >>, hyp # << >>, NEW text \in {ref, hyp}
  PROVE  LET mean == Mean(SharesOf(ref, hyp, text))
         IN AtMostWholes(mean, 1) /\ (ref = hyp => mean[1] = mean[2])
  <1> DEFINE f == SharesOf(ref, hyp, text)
             O == Orders(ref, hyp)
  <1>1. DOMAIN f = O /\ \A n \in O : f[n] = <<Overlap(ref, hyp, n), Len(text) - n + 1>>
    BY DEF SharesOf
  <1>2. IsFiniteSet(O) /\ O # {} /\ \A n \in O : n \in 1..Len(ref) /\ n \in 1..Len(hyp)
    BY OrdersOf
  <1> HIDE DEF f, O
  <1>3. ASSUME NEW n \in O
        PROVE  AtMostWholes(f[n], 1) /\ (ref = hyp => f[n][1] = f[n][2])
    <2>1. n \in 1..Len(ref) /\ n \in 1..Len(hyp)
      BY <1>2
    <2>2. /\ Overlap(ref, hyp, n) \in Nat
          /\ Overlap(ref, hyp, n) <= Len(hyp) - n + 1
          /\ Overlap(ref, hyp, n) <= Len(ref) - n + 1
          /\ ref = hyp => Overlap(ref, hyp, n) = Len(hyp) - n + 1
      BY <2>1, OverlapLies
    <2>3. Len(text) - n + 1 \in Nat \ {0}
      BY <2>1 DEF Text
    <2>4. Overlap(ref, hyp, n) <= Len(text) - n + 1
      BY <2>2
    <2>5. ref = hyp => Overlap(ref, hyp, n) = Len(text) - n + 1
      BY <2>2
    <2>6. PICK a \in Nat, b \in Nat \ {0} : f[n] = <<a, b>> /\ a <= b /\ (ref = hyp => a = b)
      BY <1>1, <2>2, <2>3, <2>4, <2>5
    <2> QED BY <2>6 DEF AtMostWholes
  <1>4. /\ AtMostWholes(Mean(f), 1)
        /\ (\A n \in O : f[n][1] = f[n][2]) => Mean(f)[1] = Mean(f)[2]
    BY <1>1, <1>2, <1>3, MeanOfShares
  <1>5. ref = hyp => \A n \in O : f[n][1] = f[n][2]
    BY <1>3
  <1> QED BY <1>4, <1>5 DEF f

LEMMA ChrfIs ==
  ASSUME NEW ref \in Text, NEW hyp \in Text, ref # << >>, hyp # << >>
  PROVE  LET precision == Mean(SharesOf(ref, hyp, hyp))
             recall    == Mean(SharesOf(ref, hyp, ref))
             weighted  == Plus(<<4 * precision[1], precision[2]>>, recall)
         IN Chrf(ref, hyp) = IF precision[1] = 0 THEN Zero
                             ELSE <<5 * precision[1] * recall[1] * weighted[2],
                                    precision[2] * recall[2] * weighted[1]>>
  <1> DEFINE orders == [n \in Orders(ref, hyp) |-> n]
             Share(text) == Mean([k \in DOMAIN orders |->
                                    <<Overlap(ref, hyp, orders[k]), Len(text) - orders[k] + 1>>])
             Score1(precision, recall) ==
               LET weighted == Plus(<<4 * precision[1], precision[2]>>, recall)
               IN IF precision[1] = 0 THEN Zero
                  ELSE <<5 * precision[1] * recall[1] * weighted[2],
                         precision[2] * recall[2] * weighted[1]>>
  <1>1. Chrf(ref, hyp) = CASE ref = << >> /\ hyp = << >> -> One
                           [] (ref = << >>) # (hyp = << >>) -> Zero
                           [] OTHER -> Score1(Share(hyp), Share(ref))
    BY Zenon DEF Chrf, Each, Orders
  <1>2. \A text : SharesOf(ref, hyp, text)
                    = [k \in DOMAIN orders |->
                         <<Overlap(ref, hyp, orders[k]), Len(text) - orders[k] + 1>>]
    <2> TAKE text
    <2>1. \A n \in Orders(ref, hyp) : orders[n] = n
      OBVIOUS
    <2>2. DOMAIN orders = Orders(ref, hyp)
      OBVIOUS
    <2> HIDE DEF orders
    <2> QED BY <2>1, <2>2 DEF SharesOf
  <1>3. \A text : Share(text) = Mean(SharesOf(ref, hyp, text))
    BY <1>2
  <1> HIDE DEF Share, Score1, orders
  <1>4. Chrf(ref, hyp) = Score1(Share(hyp), Share(ref))
    BY <1>1
  <1> QED BY <1>3, <1>4 DEF Score1

\* The weighted harmonic mean of two shares is one.
LEMMA HarmonicMean ==
  ASSUME NEW a \in Nat \ {0}, NEW b \in Nat \ {0}, NEW c \in Nat, NEW d \in Nat \ {0}, a <= b, c <= d
  PROVE  LET top    == 5 * a * c * (b * d)
             bottom == b * d * (4 * a * d + c * b)
         IN /\ top \in Nat /\ bottom \in Nat \ {0} /\ top <= bottom
            /\ a = b /\ c = d => top = bottom
  <1>1. PICK ac \in Nat, ad \in Nat \ {0}, bc \in Nat, bd \in Nat \ {0} :
          ac = a * c /\ ad = a * d /\ bc = c * b /\ bd = b * d
    <2>1. a * c \in Nat /\ c * b \in Nat
      OBVIOUS
    <2>2. a * d \in Nat \ {0} /\ b * d \in Nat \ {0}
      BY TimesIsPositive
    <2> QED BY <2>1, <2>2
  <1>2. ac <= bc
    <2>1. a * c <= b * c
      BY TimesIsMonotone
    <2> QED BY <1>1, <2>1
  <1>3. ac <= ad
    <2>1. c * a <= d * a
      BY TimesIsMonotone
    <2> QED BY <1>1, <2>1
  <1>4. PICK x \in Nat, y \in Nat \ {0} : x = 5 * ac /\ y = 4 * ad + bc
    OBVIOUS
  <1>5. x <= y
    BY <1>2, <1>3, <1>4
  <1>6. x * bd <= y * bd
    BY <1>5, TimesIsMonotone
  <1>7. y * bd \in Nat \ {0} /\ x * bd \in Nat
    <2>1. y * bd \in Nat \ {0}
      BY TimesIsPositive
    <2> QED BY <2>1
  <1>8. 5 * a * c * (b * d) = x * bd
    <2>1. 5 * a * c = 5 * (a * c)
      OBVIOUS
    <2> QED BY <1>1, <1>4, <2>1
  <1>9. b * d * (4 * a * d + c * b) = y * bd
    <2>1. 4 * a * d = 4 * (a * d)
      OBVIOUS
    <2>2. bd * y = y * bd
      OBVIOUS
    <2> QED BY <1>1, <1>4, <2>1, <2>2
  <1>10. a = b /\ c = d => x = y
    BY <1>1, <1>4
  <1> QED BY <1>6, <1>7, <1>8, <1>9, <1>10

\* chrF is no less than nothing and no more than the whole, and the whole for the reference
\* itself.
LEMMA ChrfLies ==
  ASSUME NEW ref \in Text, NEW hyp \in Text
  PROVE  /\ Chrf(ref, hyp) \in Nat \X (Nat \ {0})
         /\ IsAShare(ref, hyp)
  <1>1. CASE ref = << >> \/ hyp = << >>
    <2>1. CASE ref = << >> /\ hyp = << >>
      <3>1. Chrf(ref, hyp) = <<1, 1>>
        BY <2>1, Zenon DEF Chrf, One
      <3> QED BY <3>1 DEF IsAShare, AtMost, SameAs, Zero, One
    <2>2. CASE (ref = << >>) # (hyp = << >>)
      <3>1. Chrf(ref, hyp) = <<0, 1>> /\ ref # hyp
        BY <2>2, Zenon DEF Chrf, Zero
      <3> QED BY <3>1 DEF IsAShare, AtMost, SameAs, Zero, One
    <2> QED BY <1>1, <2>1, <2>2
  <1>2. CASE ref # << >> /\ hyp # << >>
    <2> DEFINE precision == Mean(SharesOf(ref, hyp, hyp))
               recall == Mean(SharesOf(ref, hyp, ref))
               weighted == Plus(<<4 * precision[1], precision[2]>>, recall)
    <2>1. Chrf(ref, hyp) = IF precision[1] = 0 THEN Zero
                           ELSE <<5 * precision[1] * recall[1] * weighted[2],
                                  precision[2] * recall[2] * weighted[1]>>
      BY <1>2, ChrfIs
    <2>2. /\ AtMostWholes(precision, 1) /\ (ref = hyp => precision[1] = precision[2])
          /\ AtMostWholes(recall, 1) /\ (ref = hyp => recall[1] = recall[2])
      BY <1>2, SharesLie
    <2> HIDE DEF precision, recall
    <2>3. PICK a \in Nat, b \in Nat \ {0} : precision = <<a, b>> /\ a <= b /\ (ref = hyp => a = b)
      BY <2>2 DEF AtMostWholes
    <2>4. PICK c \in Nat, d \in Nat \ {0} : recall = <<c, d>> /\ c <= d /\ (ref = hyp => c = d)
      BY <2>2 DEF AtMostWholes
    <2>5. CASE a = 0
      <3>1. Chrf(ref, hyp) = <<0, 1>> /\ ref # hyp
        BY <2>1, <2>3, <2>5 DEF Zero
      <3> QED BY <3>1 DEF IsAShare, AtMost, SameAs, Zero, One
    <2>6. CASE a # 0
      <3> DEFINE top == 5 * a * c * (b * d)
                 bottom == b * d * (4 * a * d + c * b)
      <3>1. weighted = <<4 * a * d + c * b, b * d>>
        BY <2>3, <2>4 DEF Plus
      <3>2. Chrf(ref, hyp) = <<top, bottom>>
        BY <2>1, <2>3, <2>4, <2>6, <3>1
      <3>3. /\ top \in Nat /\ bottom \in Nat \ {0} /\ top <= bottom
            /\ a = b /\ c = d => top = bottom
        BY <2>3, <2>4, <2>6, HarmonicMean
      <3> HIDE DEF top, bottom
      <3>4. ref = hyp => top = bottom
        BY <2>3, <2>4, <3>3
      <3> QED BY <3>2, <3>3, <3>4 DEF IsAShare, AtMost, SameAs, Zero, One
    <2> QED BY <2>5, <2>6
  <1> QED BY <1>1, <1>2

\* Whatever is repeated, and whatever the texts, chrF is a share (chrf, chrf.ts).
THEOREM ChrfIsAShareOfTheReference == \A ref, hyp \in Text : IsAShare(ref, hyp)
  BY ChrfLies

\* What the runs check of the scorers before they start holds for every bound.
THEOREM ScorersAgree == Spec => []ScorersAgreeWithTheirDefinitions
  <1>1. ChrfIsAShare
    <2>1. Texts \subseteq Text
      BY TextsAreTexts
    <2> QED BY <2>1, ChrfLies DEF ChrfIsAShare
  <1>2. PercentilesAreWellPlaced
    <2> SUFFICES ASSUME NEW values \in BoundedSeq({Null} \cup 0..MaxTime, MaxTime + 2)
                 PROVE  WellPlaced(values)
      BY DEF PercentilesAreWellPlaced
    <2>1. PICK m \in 0..(MaxTime + 2) : values \in [1..m -> {Null} \cup 0..MaxTime]
      BY DEF BoundedSeq, SeqOf
    <2>2. MaxTime \in Nat /\ m \in Nat
      BY MetricsConstants
    <2>3. values \in Seq(Nat \cup {Null})
      BY <2>1, <2>2
    <2> QED BY <2>3, PercentilesStandAtTheirRank
  <1>3. ScorersAgreeWithTheirDefinitions
    BY <1>1, <1>2, EditsMinimal DEF ScorersAgreeWithTheirDefinitions
  <1>4. ScorersAgreeWithTheirDefinitions'
    BY <1>1, <1>2, EditsMinimal DEF ScorersAgreeWithTheirDefinitions
  <1> QED BY <1>3, <1>4, PTL DEF Spec

-----------------------------------------------------------------------------
(* Types: the verdicts, the samples and the rows. *)

RowTypes ==
  /\ DOMAIN verdicts \subseteq {records[k].id : k \in DOMAIN records}
  /\ \A id \in DOMAIN verdicts : verdicts[id] \in JudgeVerdict
  /\ samples \subseteq Sample
  /\ scores \subseteq Row

\* Whatever number a judge gives is brought to the scale.
LEMMA ClampType ==
  ASSUME NEW halves \in Int
  PROVE  Clamp(halves) \in 1..5
  <1> DEFINE n == Rounded(halves)
  <1>0. n \in Int
    BY DEF Rounded
  <1> HIDE DEF n
  <1>1. \E x \in {5, n} : \A y \in {5, n} : x <= y
    <2>1. CASE n <= 5
      BY <1>0, <2>1
    <2>2. CASE 5 <= n
      BY <1>0, <2>2
    <2> QED BY <1>0, <2>1, <2>2
  <1>2. Min({5, n}) \in {5, n} /\ \A y \in {5, n} : Min({5, n}) <= y
    BY <1>1 DEF Min
  <1>3. PICK m \in Int : m = Min({5, n}) /\ m <= 5
    BY <1>0, <1>2
  <1>4. \E x \in {1, m} : \A y \in {1, m} : x >= y
    <2>1. CASE m <= 1
      BY <2>1
    <2>2. CASE 1 <= m
      BY <2>2
    <2> QED BY <2>1, <2>2
  <1>5. Max({1, m}) \in {1, m} /\ \A y \in {1, m} : Max({1, m}) >= y
    BY <1>4 DEF Max
  <1>6. Max({1, m}) \in 1..5
    BY <1>3, <1>5
  <1> QED BY <1>3, <1>6 DEF Clamp, n

LEMMA VerdictType ==
  ASSUME NEW candidate, NEW v \in Verdicts(candidate)
  PROVE  v \in JudgeVerdict
  <1>1. CASE candidate = << >>
    BY <1>1 DEF Verdicts, JudgeVerdict
  <1>2. CASE candidate # << >>
    <2>1. PICK a \in Opinions \cup {NotANumber}, f \in Opinions \cup {NotANumber} : v = Parsed(a, f)
      BY <1>2 DEF Verdicts
    <2>2. CASE NotANumber \in {a, f}
      BY <2>1, <2>2 DEF Parsed, JudgeVerdict
    <2>3. CASE NotANumber \notin {a, f}
      <3>1. a \in Int /\ f \in Int
        BY <2>3, ReplayConstants
      <3>2. Clamp(a) \in 1..5 /\ Clamp(f) \in 1..5
        BY <3>1, ClampType
      <3> QED BY <2>1, <2>3, <3>2 DEF Parsed, JudgeVerdict
    <2> QED BY <2>2, <2>3
  <1> QED BY <1>1, <1>2

LEMMA AggregateType ==
  ASSUME NEW rates, IsFiniteSet(DOMAIN rates), \A k \in DOMAIN rates : rates[k] \in Edits
  PROVE  AggregateErrorRate(rates) \in Fraction
  <1> DEFINE references == [k \in DOMAIN rates |-> rates[k].reference]
             errors == [k \in DOMAIN rates |-> Errors(rates[k])]
  <1>1. \A k \in DOMAIN rates : references[k] \in Int /\ errors[k] \in Int
    BY DEF Edits, Errors
  <1>2. SumFunctionOnSet(references, DOMAIN rates) \in Int /\ SumFunctionOnSet(errors, DOMAIN rates) \in Int
    <2> HIDE DEF references, errors
    <2> QED BY <1>1, SumType
  <1>3. AggregateErrorRate(rates)
          = IF SumFunctionOnSet(references, DOMAIN rates) = 0 THEN Zero
            ELSE <<SumFunctionOnSet(errors, DOMAIN rates), SumFunctionOnSet(references, DOMAIN rates)>>
    BY AggregateOf
  <1> HIDE DEF references, errors
  <1> QED BY <1>2, <1>3 DEF Fraction, Zero

LEMMA RateType ==
  ASSUME NEW ref \in Text, NEW hyp \in Text
  PROVE  Rate(ref, hyp) \in Fraction
  <1> DEFINE rates == <<ErrorRate(ref, hyp)>>
  <1>1. DOMAIN rates = {1} /\ rates[1] \in Edits
    <2>1. ErrorRate(ref, hyp) \in Edits
      BY WalkOf
    <2>2. DOMAIN rates = 1..1 /\ rates[1] = ErrorRate(ref, hyp)
      OBVIOUS
    <2> QED BY <2>1, <2>2
  <1>2. IsFiniteSet({1})
    BY FS_Singleton
  <1> HIDE DEF rates
  <1>3. AggregateErrorRate(rates) \in Fraction
    BY <1>1, <1>2, AggregateType
  <1> QED BY <1>3 DEF Rate, rates

LEMMA ChrfType ==
  ASSUME NEW ref \in Text, NEW hyp \in Text
  PROVE  Chrf(ref, hyp) \in Fraction
  BY ChrfLies DEF Fraction

LEMMA PercentilesType ==
  ASSUME NEW values, IsFiniteSet(DOMAIN values), \A k \in DOMAIN values : values[k] \in Nat \cup {Null}
  PROVE  LET p == Percentiles(values)
         IN p.n \in Nat /\ p.p50 \in Int /\ p.p95 \in Int /\ p.p99 \in Int
  <1> DEFINE m == Measured(values)
             At(percent) == IF Size(m) = 0 THEN Null ELSE Quantile(Sorted(m), percent)
  <1>1. IsMeasured(m) /\ Size(m) \in Nat
    BY MeasuredIsMeasured
  <1>2. Percentiles(values) = [n |-> Size(m), p50 |-> At(50), p95 |-> At(95), p99 |-> At(99)]
    BY PercentilesOf
  <1> HIDE DEF m
  <1>3. \A percent \in 0..100 : At(percent) \in Int
    <2> TAKE percent \in 0..100
    <2>1. CASE Size(m) = 0
      BY <2>1 DEF Null
    <2>2. CASE Size(m) # 0
      <3>1. Size(m) >= 1
        BY <1>1, <2>2
      <3>2. Quantile(Sorted(m), percent) \in Int
        BY <1>1, <3>1, QuantileLies
      <3> QED BY <2>2, <3>2
    <2> QED BY <2>1, <2>2
  <1> HIDE DEF At
  <1> QED BY <1>1, <1>2, <1>3

\* The parts of a result.
LEMMA ResultParts ==
  ASSUME NEW r \in ReplayResult
  PROVE  /\ r.record \in GoldenRecord
         /\ \A hop \in {"stt", "llm", "tts"} : HopOf(hop, r) \in HopResult
         /\ r.translation \in HopResult /\ r.reply \in HopResult
         /\ \A trip \in r.roundTrip : trip \in HopResult
         /\ CameRound(r) => RoundTripEdits(r) \in Edits
  <1>1. /\ r.record \in GoldenRecord
        /\ r.stt \in HopResult /\ r.translation \in HopResult /\ r.reply \in HopResult
        /\ \A trip \in r.roundTrip : trip \in HopResult
    BY DEF ReplayResult
  <1>2. r.roundTrip # {} => (CHOOSE trip \in r.roundTrip : TRUE) \in r.roundTrip
    OBVIOUS
  <1>3. \A hop \in {"stt", "llm", "tts"} : HopOf(hop, r) \in HopResult
    BY <1>1, <1>2, EmptyIsText DEF HopOf, NoResult, HopResult
  <1>4. ASSUME CameRound(r) PROVE RoundTripEdits(r) \in Edits
    <2>1. (CHOOSE trip \in r.roundTrip : TRUE) \in HopResult
      BY <1>1, <1>2, <1>4 DEF CameRound
    <2>2. r.reply.value \in Text /\ (CHOOSE trip \in r.roundTrip : TRUE).value \in Text
      BY <1>1, <2>1 DEF HopResult
    <2> QED BY <2>2, WalkOf DEF RoundTripEdits
  <1> QED BY <1>1, <1>3, <1>4

LEMMA SampleTypes ==
  ASSUME RowTypes, NEW r \in ReplayResult
  PROVE  SampleRows(r) \subseteq Sample
  <1>1. /\ r.record.id \in Nat
        /\ r.record.expected_transcript \in Text /\ r.record.reference_translation \in Text
        /\ r.stt.value \in Text /\ r.stt.failed \in BOOLEAN
        /\ r.translation.value \in Text /\ r.translation.failed \in BOOLEAN
        /\ r.reply.value \in Text
        /\ \A trip \in r.roundTrip : trip.value \in Text /\ trip.failed \in BOOLEAN
    BY DEF ReplayResult, GoldenRecord, HopResult
  <1>2. WerSample(r) \in Sample
    <2>1. Rate(r.record.expected_transcript, r.stt.value) \in Fraction
      BY <1>1, RateType
    <2> QED BY <1>1, <2>1 DEF WerSample, Sample, Fraction
  <1>3. ChrfSample(r) \in Sample
    <2>1. ChrfOf(r) \in Fraction
      BY <1>1, ChrfType DEF ChrfOf
    <2> QED BY <1>1, <2>1 DEF ChrfSample, Sample, Fraction
  <1>4. ASSUME NEW trip \in r.roundTrip PROVE TripSample(r, trip) \in Sample
    <2>1. Rate(r.reply.value, trip.value) \in Fraction
      BY <1>1, RateType
    <2> QED BY <1>1, <2>1 DEF TripSample, Sample, Fraction
  <1>5. VerdictSample(r) \in Sample
    <2> DEFINE value == IF IsJudged(r) THEN <<verdicts[r.record.id].adequacy
                                               + verdicts[r.record.id].fluency, 2>> ELSE NoValue
    <2>1. value \in Int \X Int
      <3>1. CASE IsJudged(r)
        <4>1. verdicts[r.record.id] \in [adequacy : 1..5, fluency : 1..5]
          BY <3>1 DEF RowTypes, IsJudged, JudgeVerdict
        <4> QED BY <3>1, <4>1
      <3>2. CASE ~IsJudged(r)
        BY <3>2 DEF NoValue, Null
      <3> QED BY <3>1, <3>2
    <2>2. \E failed \in BOOLEAN : failed = ~IsJudged(r)
      BY DEF IsJudged
    <2> HIDE DEF value
    <2>3. VerdictSample(r)
            = [id |-> r.record.id, metric |-> "judge",
               expected |-> r.record.reference_translation, actual |-> r.translation.value,
               value |-> value, failed |-> ~IsJudged(r)]
      BY DEF VerdictSample, value
    <2>4. PICK failed \in BOOLEAN : failed = ~IsJudged(r)
      BY <2>2
    <2>5. VerdictSample(r)
            = [id |-> r.record.id, metric |-> "judge",
               expected |-> r.record.reference_translation, actual |-> r.translation.value,
               value |-> value, failed |-> failed]
      BY <2>3, <2>4
    <2> QED BY <1>1, <2>1, <2>5 DEF Sample
  <1>6. \A s \in SampleRows(r) : \/ s = WerSample(r) \/ s = ChrfSample(r) \/ s = VerdictSample(r)
                                 \/ \E trip \in r.roundTrip : s = TripSample(r, trip)
    BY Zenon DEF SampleRows, JudgeSample, WerSample, ChrfSample, VerdictSample, TripSample
  <1> QED BY <1>2, <1>3, <1>4, <1>5, <1>6

LEMMA RowType ==
  ASSUME NEW hop \in {"stt", "llm", "tts"}, NEW metric \in Metric, NEW slice \in Tag \cup {"all"},
         NEW value \in Fraction, NEW n \in Nat
  PROVE  Score(hop, metric, slice, value, n) \in Row
  BY DEF Score, Row, Fraction

LEMMA SlicesAreTags ==
  ASSUME RunInv
  PROVE  Slices \subseteq Tag \cup {"all"}
  <1>1. \A k \in DOMAIN records : records[k].tags \subseteq Tag
    <2>1. \A k \in DOMAIN records : records[k] \in GoldenRecord
      BY DEF RunInv, RunTypes
    <2>2. \A r \in GoldenRecord : r.tags \in SUBSET Tag
      BY DEF GoldenRecord
    <2> QED BY <2>1, <2>2
  <1> QED BY <1>1 DEF Slices

\* The members of a family of results are finitely many, and each is a result.
LEMMA ResultsAreFinite ==
  ASSUME NEW rs \in Seq(ReplayResult)
  PROVE  /\ \A k \in DOMAIN rs : rs[k] \in ReplayResult
         /\ \A K \in SUBSET DOMAIN rs : IsFiniteSet(K) /\ Cardinality(K) \in Nat
  <1>1. DOMAIN rs = 1..Len(rs) /\ Len(rs) \in Nat /\ \A k \in DOMAIN rs : rs[k] \in ReplayResult
    OBVIOUS
  <1>2. IsFiniteSet(DOMAIN rs)
    BY <1>1, FS_Interval
  <1> QED BY <1>1, <1>2, FS_Subset, FS_CardinalityType

LEMMA SttTypes ==
  ASSUME RunInv, NEW rs \in Seq(ReplayResult)
  PROVE  SttScores(rs) \subseteq Row
  <1> SUFFICES ASSUME NEW s \in SttScores(rs) PROVE s \in Row
    OBVIOUS
  <1> DEFINE Kept(slice) == {k \in DOMAIN rs : InSlice(rs[k].record, slice)}
             subset(slice) == [k \in Kept(slice) |-> rs[k]]
             wers(slice) == [k \in DOMAIN subset(slice) |->
                               ErrorRate(subset(slice)[k].record.expected_transcript,
                                         subset(slice)[k].stt.value)]
             n(slice) == Cardinality(DOMAIN subset(slice))
             empty(slice) == {k \in DOMAIN subset(slice) : subset(slice)[k].stt.value = << >>}
             share(slice) == <<Cardinality(DOMAIN [k \in empty(slice) |-> subset(slice)[k]]), n(slice)>>
  <1>1. PICK slice \in Slices :
          s \in { Score("stt", "wer", slice, AggregateErrorRate(wers(slice)), n(slice)),
                  Score("stt", "empty_transcript_rate", slice, share(slice), n(slice)) }
    BY Zenon DEF SttScores, RestrictValues, Restrict, Each, ShareOf, Size
  <1>2. DOMAIN subset(slice) = Kept(slice) /\ Kept(slice) \in SUBSET DOMAIN rs
    OBVIOUS
  <1>3. DOMAIN [k \in empty(slice) |-> subset(slice)[k]] = empty(slice)
        /\ empty(slice) \in SUBSET DOMAIN rs
    BY <1>2
  <1>4. /\ DOMAIN wers(slice) = Kept(slice)
        /\ \A k \in Kept(slice) :
             wers(slice)[k] = ErrorRate(rs[k].record.expected_transcript, rs[k].stt.value)
    BY <1>2
  <1>5. \A k \in Kept(slice) : wers(slice)[k] \in Edits
    <2> TAKE k \in Kept(slice)
    <2>1. rs[k] \in ReplayResult
      BY <1>2, ResultsAreFinite
    <2>2. rs[k].record.expected_transcript \in Text /\ rs[k].stt.value \in Text
      BY <2>1 DEF ReplayResult, GoldenRecord, HopResult
    <2> HIDE DEF wers, Kept
    <2> QED BY <1>4, <2>2, WalkOf
  <1> HIDE DEF wers, n, share, empty, Kept
  <1>6. AggregateErrorRate(wers(slice)) \in Fraction
    <2>1. IsFiniteSet(Kept(slice))
      BY <1>2, ResultsAreFinite
    <2> QED BY <1>4, <1>5, <2>1, AggregateType
  <1>7. n(slice) \in Nat
    <2>1. Cardinality(Kept(slice)) \in Nat
      BY <1>2, ResultsAreFinite
    <2>2. n(slice) = Cardinality(Kept(slice))
      BY <1>2, Zenon DEF n
    <2> QED BY <2>1, <2>2
  <1>8. share(slice) \in Fraction
    <2>1. Cardinality(empty(slice)) \in Nat
      BY <1>3, ResultsAreFinite
    <2>2. share(slice) = <<Cardinality(empty(slice)), n(slice)>>
      BY <1>3, Zenon DEF share
    <2> QED BY <1>7, <2>1, <2>2 DEF Fraction
  <1>9. slice \in Tag \cup {"all"}
    BY SlicesAreTags
  <1>10. Score("stt", "wer", slice, AggregateErrorRate(wers(slice)), n(slice)) \in Row
    BY <1>6, <1>7, <1>9, RowType DEF Metric
  <1>11. Score("stt", "empty_transcript_rate", slice, share(slice), n(slice)) \in Row
    BY <1>7, <1>8, <1>9, RowType DEF Metric
  <1> QED BY <1>1, <1>10, <1>11

LEMMA VerdictsFinite ==
  ASSUME RunInv, RowTypes
  PROVE  Cardinality(DOMAIN verdicts) \in Nat
  <1> DEFINE K == DOMAIN records
             ids == {records[k].id : k \in K}
             m == [k \in K |-> records[k].id]
  <1>1. IsFiniteSet(K)
    <2>1. K = 1..Len(records) /\ Len(records) \in Nat
      BY DEF RunInv, RunTypes
    <2> QED BY <2>1, FS_Interval
  <1>2. m \in Surjection(K, ids)
    BY Fun_IsSurj
  <1>3. DOMAIN verdicts \subseteq ids
    BY DEF RowTypes
  <1> HIDE DEF m, ids, K
  <1>4. IsFiniteSet(ids)
    BY <1>1, <1>2, FS_Surjection
  <1> QED BY <1>3, <1>4, FS_Subset, FS_CardinalityType

LEMMA TranslationTypes ==
  ASSUME RunInv, RowTypes, NEW rs \in Seq(ReplayResult)
  PROVE  TranslationScores(rs) \subseteq Row
  <1> SUFFICES ASSUME NEW s \in TranslationScores(rs) PROVE s \in Row
    OBVIOUS
  <1> DEFINE judged == [k \in Answered(rs) |-> rs[k]]
             n == Cardinality(DOMAIN judged)
             size == Cardinality(DOMAIN verdicts)
             chrfs == [k \in DOMAIN rs |-> ChrfOf(rs[k])]
             adequacies == [k \in DOMAIN judged |-> <<verdicts[judged[k].record.id].adequacy, 1>>]
             fluencies == [k \in DOMAIN judged |-> <<verdicts[judged[k].record.id].fluency, 1>>]
  <1>1. \/ s = Score("llm", "chrf", "all", Mean(chrfs), Cardinality(DOMAIN rs))
        \/ s \in { Score("llm", "judge_adequacy", "all", Mean(adequacies), n),
                   Score("llm", "judge_fluency", "all", Mean(fluencies), n),
                   Score("llm", "judge_unparseable_rate", "all", <<size - n, size>>, size) }
        \/ s \in {Score("llm", metric, "all", NoValue, n) :
                    metric \in {"chrf_judge_spearman", "chrf_judge_pearson"}}
    BY Zenon DEF TranslationScores, RestrictValues, Restrict, Each, Size, Answered
  <1>2. DOMAIN judged = Answered(rs) /\ Answered(rs) \in SUBSET DOMAIN rs
        /\ DOMAIN rs \in SUBSET DOMAIN rs
    BY DEF Answered
  <1>3. IsFiniteSet(Answered(rs)) /\ IsFiniteSet(DOMAIN rs) /\ n \in Nat /\ Cardinality(DOMAIN rs) \in Nat
    <2>1. n = Cardinality(Answered(rs))
      BY <1>2
    <2> HIDE DEF n
    <2> QED BY <1>2, <2>1, ResultsAreFinite
  <1>4. size \in Nat
    BY VerdictsFinite
  <1>5. Mean(chrfs) \in Fraction
    <2>1. \A k \in DOMAIN rs : chrfs[k] \in Fraction
      <3> TAKE k \in DOMAIN rs
      <3>1. rs[k] \in ReplayResult
        BY ResultsAreFinite
      <3>2. rs[k].record.reference_translation \in Text /\ rs[k].translation.value \in Text
        BY <3>1 DEF ReplayResult, GoldenRecord, HopResult
      <3>3. ChrfOf(rs[k]) \in Fraction
        BY <3>2, ChrfType DEF ChrfOf
      <3> QED BY <3>3
    <2>2. DOMAIN chrfs = DOMAIN rs
      OBVIOUS
    <2> HIDE DEF chrfs
    <2> QED BY <1>3, <2>1, <2>2, MeanType
  <1>6. \A k \in Answered(rs) : verdicts[rs[k].record.id] \in [adequacy : 1..5, fluency : 1..5]
    BY DEF Answered, IsJudged, RowTypes, JudgeVerdict
  <1>7. Mean(adequacies) \in Fraction
    <2>1. \A k \in Answered(rs) : adequacies[k] \in Fraction
      BY <1>2, <1>6 DEF Fraction
    <2>2. DOMAIN adequacies = Answered(rs)
      BY <1>2
    <2> HIDE DEF adequacies
    <2> QED BY <1>3, <2>1, <2>2, MeanType
  <1>8. Mean(fluencies) \in Fraction
    <2>1. \A k \in Answered(rs) : fluencies[k] \in Fraction
      BY <1>2, <1>6 DEF Fraction
    <2>2. DOMAIN fluencies = Answered(rs)
      BY <1>2
    <2> HIDE DEF fluencies
    <2> QED BY <1>3, <2>1, <2>2, MeanType
  <1> HIDE DEF judged, chrfs, adequacies, fluencies, size, n
  <1>9. <<size - n, size>> \in Fraction /\ NoValue \in Fraction
    BY <1>3, <1>4 DEF Fraction, NoValue, Null
  <1>10. Score("llm", "chrf", "all", Mean(chrfs), Cardinality(DOMAIN rs)) \in Row
    BY <1>3, <1>5, RowType DEF Metric
  <1>11. /\ Score("llm", "judge_adequacy", "all", Mean(adequacies), n) \in Row
         /\ Score("llm", "judge_fluency", "all", Mean(fluencies), n) \in Row
    BY <1>3, <1>7, <1>8, RowType DEF Metric
  <1>12. Score("llm", "judge_unparseable_rate", "all", <<size - n, size>>, size) \in Row
    BY <1>4, <1>9, RowType DEF Metric
  <1>13. \A metric \in {"chrf_judge_spearman", "chrf_judge_pearson"} :
           Score("llm", metric, "all", NoValue, n) \in Row
    BY <1>3, <1>9, RowType DEF Metric
  <1> QED BY <1>1, <1>10, <1>11, <1>12, <1>13

LEMMA RoundTripTypes ==
  ASSUME NEW rs \in Seq(ReplayResult)
  PROVE  RoundTripScores(rs) \subseteq Row
  <1> DEFINE edits == [k \in Returned(rs) |-> RoundTripEdits(rs[k])]
             n == Cardinality(Returned(rs))
  <1>1. Returned(rs) \in SUBSET DOMAIN rs /\ \A k \in Returned(rs) : CameRound(rs[k])
    BY DEF Returned
  <1>2. IsFiniteSet(Returned(rs)) /\ n \in Nat
    BY <1>1, ResultsAreFinite
  <1>3. DOMAIN edits = Returned(rs) /\ \A k \in Returned(rs) : edits[k] \in Edits
    BY <1>1, ResultsAreFinite, ResultParts
  <1>4. RoundTripScores(rs) = {}
        \/ RoundTripScores(rs) = {Score("tts", "round_trip_wer", "all", AggregateErrorRate(edits), n)}
    BY RoundTripRows
  <1> HIDE DEF edits, n
  <1>5. AggregateErrorRate(edits) \in Fraction
    BY <1>2, <1>3, AggregateType
  <1> QED BY <1>2, <1>4, <1>5, RowType DEF Metric

LEMMA LatencyTypes ==
  ASSUME NEW rs \in Seq(ReplayResult), NEW hop \in {"stt", "llm", "tts"}
  PROVE  LatencyScores(hop, rs) \subseteq Row
  <1> DEFINE times == [k \in DOMAIN rs |-> HopOf(hop, rs[k]).ttfb]
             ttfb == Percentiles(times)
  <1>1. LatencyScores(hop, rs)
          \subseteq { Score(hop, "ttfb_p50", "all", <<ttfb.p50, 100>>, ttfb.n),
                      Score(hop, "ttfb_p95", "all", <<ttfb.p95, 100>>, ttfb.n),
                      Score(hop, "ttfb_p99", "all", <<ttfb.p99, 100>>, ttfb.n) }
    BY Zenon DEF LatencyScores, Each
  <1>2. DOMAIN times = DOMAIN rs /\ \A k \in DOMAIN rs : times[k] \in Nat \cup {Null}
    <2>1. \A k \in DOMAIN rs : HopOf(hop, rs[k]) \in HopResult
      BY ResultsAreFinite, ResultParts
    <2> QED BY <2>1 DEF HopResult
  <1>3. IsFiniteSet(DOMAIN rs)
    BY DOMAIN rs \in SUBSET DOMAIN rs, ResultsAreFinite
  <1> HIDE DEF times
  <1>4. ttfb.n \in Nat /\ ttfb.p50 \in Int /\ ttfb.p95 \in Int /\ ttfb.p99 \in Int
    BY <1>2, <1>3, PercentilesType
  <1> HIDE DEF ttfb
  <1>5. <<ttfb.p50, 100>> \in Fraction /\ <<ttfb.p95, 100>> \in Fraction /\ <<ttfb.p99, 100>> \in Fraction
    BY <1>4 DEF Fraction
  <1>6. /\ Score(hop, "ttfb_p50", "all", <<ttfb.p50, 100>>, ttfb.n) \in Row
        /\ Score(hop, "ttfb_p95", "all", <<ttfb.p95, 100>>, ttfb.n) \in Row
        /\ Score(hop, "ttfb_p99", "all", <<ttfb.p99, 100>>, ttfb.n) \in Row
    <2> "all" \in Tag \cup {"all"} /\ {"ttfb_p50", "ttfb_p95", "ttfb_p99"} \subseteq Metric
      BY DEF Metric
    <2> QED BY ZenonT(40), <1>4, <1>5, RowType
  <1> QED BY <1>1, <1>6

LEMMA FailureType ==
  ASSUME NEW rs \in Seq(ReplayResult), NEW hop \in {"stt", "llm", "tts"}
  PROVE  FailureScore(hop, rs) \in Row
  <1> DEFINE failed == {k \in DOMAIN rs : HopOf(hop, rs[k]).failed}
  <1>1. failed \in SUBSET DOMAIN rs /\ DOMAIN rs \in SUBSET DOMAIN rs
    OBVIOUS
  <1>2. FailureScore(hop, rs)
          = Score(hop, "error_rate", "all", <<Cardinality(failed), Cardinality(DOMAIN rs)>>,
                  Cardinality(DOMAIN rs))
    BY FailureRow
  <1> HIDE DEF failed
  <1>3. Cardinality(failed) \in Nat /\ Cardinality(DOMAIN rs) \in Nat
    BY <1>1, ResultsAreFinite
  <1>4. <<Cardinality(failed), Cardinality(DOMAIN rs)>> \in Fraction
    BY <1>3 DEF Fraction
  <1> QED BY <1>2, <1>3, <1>4, RowType DEF Metric

LEMMA ScoreTypes ==
  ASSUME RunInv, RowTypes, ClassInv, NEW rs \in Seq(ReplayResult)
  PROVE  ScoreLanguage(rs) \subseteq Row
  <1>1. IntentScores \subseteq Row
    <2>1. <<confusion.correct, confusion.total>> \in Fraction /\ confusion.total \in Nat
      BY DEF ClassInv, ConfusionMatrix, Fraction
    <2> QED BY <2>1, RowType DEF IntentScores, Metric
  <1>2. \A s \in ScoreLanguage(rs) :
          \/ s \in SttScores(rs) \/ s \in TranslationScores(rs) \/ s \in IntentScores
          \/ s \in RoundTripScores(rs)
          \/ \E hop \in {"stt", "llm", "tts"} :
               s \in LatencyScores(hop, rs) \/ s = FailureScore(hop, rs)
    BY Zenon DEF ScoreLanguage
  <1> QED BY <1>1, <1>2, SttTypes, TranslationTypes, RoundTripTypes, LatencyTypes, FailureType

LEMMA RowTypesInit == Init => RowTypes
  BY DEF Init, RowTypes

LEMMA RowTypesNext ==
  ASSUME RunInv, RunInv', RowTypes, ClassInv, VerdictInv, [Next]_vars
  PROVE  RowTypes'
  <1>1. CASE LoadGolden
    <2>1. UNCHANGED <<verdicts, samples, scores, judging, results>> /\ pc = "load" /\ results = << >>
      BY <1>1 DEF LoadGolden, RunInv, InStep
    <2>2. DOMAIN verdicts = {}
      <3>1. Judged = 0
        BY <2>1 DEF Judged
      <3>2. {records[k].id : k \in 1..0} = {}
        OBVIOUS
      <3> QED BY <2>1, <3>1, <3>2 DEF VerdictInv
    <2> QED BY <2>1, <2>2 DEF RowTypes
  <1>2. CASE JudgeTranslation
    <2>1. AtAHop /\ UNCHANGED <<records, samples, scores>>
      BY <1>2 DEF JudgeTranslation, AtAHop
    <2>2. PICK v \in Verdicts(cur.translation.value) : verdicts' = Put(verdicts, record.id, v)
      BY <1>2 DEF JudgeTranslation
    <2>3. v \in JudgeVerdict
      BY VerdictType
    <2>4. /\ DOMAIN verdicts' = DOMAIN verdicts \cup {record.id}
          /\ \A id \in DOMAIN verdicts' : verdicts'[id] \in JudgeVerdict
      BY <2>2, <2>3 DEF Put, RowTypes
    <2>5. record.id \in {records[k].id : k \in DOMAIN records}
      BY <2>1, RecordAtWork
    <2> QED BY <2>1, <2>4, <2>5 DEF RowTypes
  <1>3. CASE Record
    <2>1. UNCHANGED <<records, verdicts>>
      BY <1>3 DEF Record
    <2>2. samples' = samples \cup SampleRows(Made) /\ Made \in ReplayResult
      BY <1>3, RecordedResult
    <2>3. PICK rs \in Seq(ReplayResult) : rs = results'
      BY DEF RunInv, RunTypes
    <2>4. scores' = scores \/ scores' = ScoreLanguage(rs)
      BY <1>3, <2>3 DEF Record
    <2>5. ScoreLanguage(rs) \subseteq Row
      BY ScoreTypes
    <2>6. SampleRows(Made) \subseteq Sample
      BY <2>2, SampleTypes
    <2> QED BY <2>1, <2>2, <2>4, <2>5, <2>6 DEF RowTypes
  <1>4. CASE Transcribe \/ Translate \/ Respond \/ RoundTrip \/ ClassifyIntent \/ Throws
    BY <1>4 DEF Transcribe, Translate, Respond, RoundTrip, ClassifyIntent, Throws, runEvalVars, RowTypes
  <1>5. CASE UNCHANGED vars
    BY <1>5 DEF vars, RowTypes
  <1> QED BY <1>1, <1>2, <1>3, <1>4, <1>5 DEF Next

\* Of any golden set, with any answers and any opinions: what is saved is what the tables
\* take (runEval, run.ts).
THEOREM TypeSafety == Spec => []TypeOK
  <1>1. RunInv /\ RowTypes /\ ClassInv => TypeOK
    <2> SUFFICES ASSUME RunInv, RowTypes, ClassInv PROVE TypeOK
      OBVIOUS
    <2>1. /\ \A hop \in {"stt", "translation", "reply"} : cur[hop] \in HopResult
          /\ cur.roundTrip \subseteq HopResult
      BY DEF RunInv, RunTypes, Hops
    <2>2. \A k \in DOMAIN results : results[k] \in ReplayResult
      BY DEF RunInv, RunTypes
    <2>3. confusion.matrix \in [Intent -> [Intent \cup {Nobody} -> Nat]]
      BY DEF ClassInv, ConfusionMatrix, Predicted
    <2> QED BY <2>1, <2>2, <2>3 DEF TypeOK, RunInv, RunTypes, RowTypes
  <1> QED BY RunInit, RunNext, ClassInit, ClassNext, SampleInit, VerdictNext, RowTypesInit, RowTypesNext,
             <1>1, PTL DEF Spec
=============================================================================

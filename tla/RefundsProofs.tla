---------------------------- MODULE RefundsProofs ---------------------------
(***************************************************************************)
(* Refunds for every number of requests, refunds and handlers: the amounts *)
(* fit, each refund has one entry, payment and ride end with the refunds'  *)
(* totals, and a booked return is final.  First what refundClawback        *)
(* guarantees of the driver's line (the size of a partial share needs no   *)
(* proof: it is only ever used capped by what remains); then sums over     *)
(* finite sets; then the inductive invariant, what a handler knows between *)
(* two of its steps, and one lemma for each action of module Refunds.      *)
(***************************************************************************)
EXTENDS Refunds, FiniteSetTheorems, TLAPS

\* A line, and the sums of what was reversed on it so far.
IsEarning(line) ==
  line \in [gross : Nat, commission : Nat] /\ line.commission <= line.gross
IsPrevious(previous, line) ==
  /\ previous \in [refunds : Nat, gross : Nat, commission : Nat]
  /\ previous.gross <= line.gross /\ previous.commission <= line.commission

\* Half-up rounding of a share of an amount is a natural number.
LEMMA ShareIsNatural ==
  ASSUME NEW whole \in Nat, NEW part \in Nat, NEW total \in Nat \ {0}
  PROVE  Share(whole, part, total) \in Nat
<1> DEFINE a == 2 * whole * part + total
           b == 2 * total
<1>1. whole * part \in Nat
  OBVIOUS
<1>2. a \in Nat /\ b \in Nat /\ b > 0
  <2>1. 2 * whole * part = 2 * (whole * part)
    OBVIOUS
  <2> QED BY <1>1, <2>1
<1> HIDE DEF a, b
<1>3. a \div b \in Nat
  BY <1>2
<1> QED BY <1>3 DEF Share, a, b

\* One reversal takes no more than remains.
LEMMA ReversalFits ==
  ASSUME NEW recorded \in Nat, NEW reversed \in Nat, reversed <= recorded,
         NEW paid \in Nat \ {0}, NEW part \in Nat, NEW full \in BOOLEAN
  PROVE  /\ Reversal(recorded, reversed, paid, part, full) \in Nat
         /\ reversed + Reversal(recorded, reversed, paid, part, full) <= recorded
         /\ full => reversed + Reversal(recorded, reversed, paid, part, full) = recorded
<1>1. Share(recorded, part, paid) \in Nat
  BY ShareIsNatural
<1> QED BY <1>1 DEF Reversal, Remaining, Lesser, AtLeastZero

\* "Never reverses more than the line recorded" (clawback.ts): applied one after
\* the other, reversals leave the sums within the line.
THEOREM ClawbackStaysWithinTheLine ==
  ASSUME NEW line, IsEarning(line), NEW previous, IsPrevious(previous, line),
         NEW paid \in Nat \ {0}, NEW part \in Nat
  PROVE  LET c == RefundClawback(line, paid, part, previous) IN
         IsPrevious([refunds    |-> previous.refunds + part,
                     gross      |-> previous.gross + c.gross,
                     commission |-> previous.commission + c.commission], line)
<1> DEFINE full == FullyRefunded(paid, part, previous)
           g == Reversal(line.gross, previous.gross, paid, part, full)
           k == Reversal(line.commission, previous.commission, paid, part, full)
<1>1. full \in BOOLEAN
  BY DEF FullyRefunded
<1>2. g \in Nat /\ previous.gross + g <= line.gross
  BY <1>1, ReversalFits DEF IsEarning, IsPrevious
<1>3. k \in Nat /\ previous.commission + k <= line.commission
  BY <1>1, ReversalFits DEF IsEarning, IsPrevious
<1>4. /\ RefundClawback(line, paid, part, previous).gross = g
      /\ RefundClawback(line, paid, part, previous).commission = k
  BY DEF RefundClawback
<1> HIDE DEF g, k, full
<1> QED BY <1>2, <1>3, <1>4 DEF IsPrevious, IsEarning

\* "partial refunds summing to a full one leave no rounding residue" (clawback.ts):
\* the refund that completes the amount paid reverses the line to the last paisa.
THEOREM FullRefundLeavesNothing ==
  ASSUME NEW line, IsEarning(line), NEW previous, IsPrevious(previous, line),
         NEW paid \in Nat \ {0}, NEW part \in Nat, previous.refunds + part >= paid
  PROVE  LET c == RefundClawback(line, paid, part, previous) IN
         /\ previous.gross + c.gross = line.gross
         /\ previous.commission + c.commission = line.commission
<1> DEFINE full == FullyRefunded(paid, part, previous)
           g == Reversal(line.gross, previous.gross, paid, part, full)
           k == Reversal(line.commission, previous.commission, paid, part, full)
<1>1. full = TRUE
  BY DEF FullyRefunded
<1>2. previous.gross + g = line.gross
  BY <1>1, ReversalFits DEF IsEarning, IsPrevious
<1>3. previous.commission + k = line.commission
  BY <1>1, ReversalFits DEF IsEarning, IsPrevious
<1>4. /\ RefundClawback(line, paid, part, previous).gross = g
      /\ RefundClawback(line, paid, part, previous).commission = k
  BY DEF RefundClawback
<1> QED BY <1>2, <1>3, <1>4

(***************************************************************************)
(* Sums over finite sets.  Each proof by induction takes the least set     *)
(* that the lemma does not hold of.                                        *)
(***************************************************************************)
\* The least set of a family of finite sets: what the inductions below rest on.
LEMMA LeastSet ==
  ASSUME NEW S, IsFiniteSet(S), NEW Fam, Fam \subseteq SUBSET S, Fam # {}
  PROVE  \E T \in Fam : \A U \in Fam : ~(U \subseteq T /\ U # T)
<1>1. FiniteSubsetsOf(S) = SUBSET S
  BY FS_FiniteSubsetsOfFinite
<1>2. IsWellFoundedOn(StrictSubsetOrdering(S), SUBSET S)
  BY <1>1, FS_StrictSubsetOrderingWellFounded
<1>3. PICK T \in Fam : \A U \in Fam : ~(<<U, T>> \in StrictSubsetOrdering(S))
  BY <1>2, WFMin
<1>4. ASSUME NEW U \in Fam, U \subseteq T, U # T
      PROVE  <<U, T>> \in StrictSubsetOrdering(S)
  BY <1>4 DEF StrictSubsetOrdering
<1>5. ASSUME NEW U \in Fam, U \subseteq T, U # T
      PROVE  FALSE
  BY Zenon, <1>3, <1>4, <1>5
<1> QED BY <1>5

First(s) == CHOOSE x \in s : TRUE
Rest(s) == s \ {First(s)}
\* h adds up f over the subsets of S, one chosen element after the other.
AddsUp(h, f, S) ==
  h = [s \in SUBSET S |-> IF s = {} THEN 0 ELSE f[First(s)] + h[Rest(s)]]

LEMMA RestIsSmaller ==
  ASSUME NEW s, s # {}
  PROVE  First(s) \in s /\ Rest(s) \subseteq s /\ Rest(s) # s
  BY DEF First, Rest

LEMMA AddsUpOnce ==
  ASSUME NEW f, NEW S, IsFiniteSet(S), NEW A \in SUBSET S, NEW B \in SUBSET S,
         NEW g, NEW h, AddsUp(g, f, A), AddsUp(h, f, B)
  PROVE  \A s \in SUBSET (A \cap B) : g[s] = h[s]
<1> DEFINE Fam == {s \in SUBSET (A \cap B) : g[s] # h[s]}
<1>1. ASSUME Fam # {} PROVE FALSE
  <2>1. PICK s \in Fam : \A u \in Fam : ~(u \subseteq s /\ u # s)
    <3>1. Fam \subseteq SUBSET S
      OBVIOUS
    <3> HIDE DEF Fam
    <3> QED BY <1>1, <3>1, LeastSet
  <2>2. CASE s = {}
    <3>1. g[s] = 0 /\ h[s] = 0
      BY <2>2 DEF AddsUp
    <3> QED BY <3>1
  <2>3. CASE s # {}
    <3>1. g[Rest(s)] = h[Rest(s)]
      BY <2>1, <2>3, RestIsSmaller
    <3>2. g[s] = f[First(s)] + g[Rest(s)] /\ h[s] = f[First(s)] + h[Rest(s)]
      BY <2>3 DEF AddsUp
    <3> QED BY <3>1, <3>2
  <2> QED BY <2>2, <2>3
<1> QED BY <1>1

\* The value of the sum of a subset.
Value(f, s) == (CHOOSE h : AddsUp(h, f, s))[s]

LEMMA SumExists ==
  ASSUME NEW f, NEW S, IsFiniteSet(S)
  PROVE  \A T \in SUBSET S : \E h : AddsUp(h, f, T)
<1> DEFINE Fam == {T \in SUBSET S : ~\E h : AddsUp(h, f, T)}
<1>1. ASSUME Fam # {} PROVE FALSE
  <2>1. PICK T \in Fam : \A u \in Fam : ~(u \subseteq T /\ u # T)
    <3>1. Fam \subseteq SUBSET S
      OBVIOUS
    <3> HIDE DEF Fam
    <3> QED BY <1>1, <3>1, LeastSet
  <2>2. \A u \in SUBSET T : u # T => \E h : AddsUp(h, f, u)
    BY <2>1
  <2> DEFINE v(u) == CHOOSE h : AddsUp(h, f, u)
             g == [s \in SUBSET T |-> IF s = {} THEN 0 ELSE f[First(s)] + v(Rest(s))[Rest(s)]]
  <2>3. \A u \in SUBSET T : u # T => AddsUp(v(u), f, u)
    BY <2>2
  <2> HIDE DEF v
  <2>4. ASSUME NEW u \in SUBSET T, u # T
        PROVE  g[u] = v(u)[u]
    <3>1. CASE u = {}
      BY <2>3, <2>4, <3>1 DEF AddsUp
    <3>2. CASE u # {}
      <4>1. v(u)[u] = f[First(u)] + v(u)[Rest(u)]
        BY <2>3, <2>4, <3>2 DEF AddsUp
      <4>2. Rest(u) \in SUBSET u /\ Rest(u) # T
        BY <2>4, <3>2, RestIsSmaller
      <4>3. AddsUp(v(u), f, u) /\ AddsUp(v(Rest(u)), f, Rest(u))
        BY <2>3, <2>4, <4>2
      <4>4. v(u)[Rest(u)] = v(Rest(u))[Rest(u)]
        BY <4>2, <4>3, AddsUpOnce
      <4>5. g[u] = f[First(u)] + v(Rest(u))[Rest(u)]
        BY <3>2
      <4> QED BY <4>1, <4>4, <4>5
    <3> QED BY <3>1, <3>2
  <2>5. AddsUp(g, f, T)
    <3>1. ASSUME NEW s \in SUBSET T, s # {}
          PROVE  v(Rest(s))[Rest(s)] = g[Rest(s)]
      <4>1. Rest(s) \in SUBSET T /\ Rest(s) # T
        BY <3>1, RestIsSmaller
      <4> HIDE DEF g
      <4> QED BY <2>4, <4>1
    <3>2. \A s \in SUBSET T : g[s] = IF s = {} THEN 0 ELSE f[First(s)] + g[Rest(s)]
      BY <3>1
    <3>3. g = [s \in SUBSET T |-> g[s]]
      OBVIOUS
    <3> HIDE DEF g
    <3> QED BY <3>2, <3>3 DEF AddsUp
  <2> QED BY <2>1, <2>5
<1> QED BY <1>1

LEMMA SumIsAddsUp ==
  ASSUME NEW f, NEW S
  PROVE  SumFunctionOnSet(f, S) = Value(f, S)
<1>1. SumFunctionOnSet(f, S) =
        (CHOOSE iter : iter = [s \in SUBSET S |-> IF s = {} THEN 0
            ELSE f[CHOOSE x \in s : TRUE] + iter[s \ {CHOOSE x \in s : TRUE}]])[S]
  BY Zenon DEF SumFunctionOnSet, FoldFunctionOnSet, MapThenFoldSet
<1> QED BY Zenon, <1>1 DEF Value, AddsUp, First, Rest

LEMMA SumUnfolds ==
  ASSUME NEW f, NEW S, IsFiniteSet(S)
  PROVE  SumFunctionOnSet(f, S) =
           IF S = {} THEN 0 ELSE f[First(S)] + SumFunctionOnSet(f, Rest(S))
<1> DEFINE h == CHOOSE a : AddsUp(a, f, S)
           k == CHOOSE a : AddsUp(a, f, Rest(S))
<1>1. Rest(S) \subseteq S
  BY DEF Rest
<1>2. AddsUp(h, f, S) /\ AddsUp(k, f, Rest(S))
  BY <1>1, SumExists
<1>3. SumFunctionOnSet(f, S) = h[S] /\ SumFunctionOnSet(f, Rest(S)) = k[Rest(S)]
  BY SumIsAddsUp DEF Value
<1> HIDE DEF h, k
<1>4. h[Rest(S)] = k[Rest(S)]
  BY <1>1, <1>2, AddsUpOnce
<1>5. h[S] = IF S = {} THEN 0 ELSE f[First(S)] + h[Rest(S)]
  BY <1>2 DEF AddsUp
<1> QED BY <1>3, <1>4, <1>5

NatOn(f, S) == \A x \in S : f[x] \in Nat

\* A sum of natural numbers is one.
LEMMA SumIsNatural ==
  ASSUME NEW f, NEW S, IsFiniteSet(S), NatOn(f, S)
  PROVE  SumFunctionOnSet(f, S) \in Nat
<1> DEFINE Fam == {s \in SUBSET S : SumFunctionOnSet(f, s) \notin Nat}
<1>1. ASSUME Fam # {} PROVE FALSE
  <2>1. PICK s \in Fam : \A u \in Fam : ~(u \subseteq s /\ u # s)
    <3>1. Fam \subseteq SUBSET S
      OBVIOUS
    <3> HIDE DEF Fam
    <3> QED BY <1>1, <3>1, LeastSet
  <2>2. IsFiniteSet(s)
    BY <2>1, FS_Subset
  <2>3. CASE s = {}
    <3>1. SumFunctionOnSet(f, s) = 0
      BY <2>2, <2>3, SumUnfolds
    <3> QED BY <2>1, <3>1
  <2>4. CASE s # {}
    <3>1. First(s) \in s /\ Rest(s) \subseteq s /\ Rest(s) # s
      BY <2>4, RestIsSmaller
    <3>2. SumFunctionOnSet(f, Rest(s)) \in Nat
      BY <2>1, <3>1
    <3>3. SumFunctionOnSet(f, s) = f[First(s)] + SumFunctionOnSet(f, Rest(s))
      BY <2>2, <2>4, SumUnfolds
    <3> QED BY <2>1, <3>1, <3>2, <3>3 DEF NatOn
  <2> QED BY <2>3, <2>4
<1> QED BY <1>1

\* Any element can be taken out of a sum.
LEMMA SumWithout ==
  ASSUME NEW f, NEW S, IsFiniteSet(S), NatOn(f, S), NEW x \in S
  PROVE  SumFunctionOnSet(f, S) = f[x] + SumFunctionOnSet(f, S \ {x})
<1> DEFINE Sum(s) == SumFunctionOnSet(f, s)
           Fam == {s \in SUBSET S : \E y \in s : Sum(s) # f[y] + Sum(s \ {y})}
<1>1. ASSUME Fam # {} PROVE FALSE
  <2>1. PICK s \in Fam : \A u \in Fam : ~(u \subseteq s /\ u # s)
    <3>1. Fam \subseteq SUBSET S
      OBVIOUS
    <3> HIDE DEF Fam
    <3> QED BY <1>1, <3>1, LeastSet
  <2>2. PICK y \in s : Sum(s) # f[y] + Sum(s \ {y})
    BY <2>1
  <2> DEFINE z == First(s)
  <2>3. z \in s /\ Rest(s) = s \ {z}
    BY <2>2, RestIsSmaller DEF Rest
  <2>4. IsFiniteSet(s) /\ IsFiniteSet(s \ {y})
    BY <2>1, FS_Subset
  <2>5. Sum(s) = f[z] + Sum(s \ {z})
    BY <2>2, <2>3, <2>4, SumUnfolds
  <2>6. y # z
    BY <2>2, <2>5
  <2> HIDE DEF z
  <2>7. Sum(s \ {z}) = f[y] + Sum((s \ {z}) \ {y})
    <3>1. s \ {z} \subseteq s /\ s \ {z} # s /\ y \in s \ {z} /\ s \ {z} \in SUBSET S
      BY <2>1, <2>2, <2>3, <2>6
    <3>2. s \ {z} \notin Fam
      BY <2>1, <3>1
    <3> HIDE DEF Sum
    <3> QED BY <3>1, <3>2
  <2>8. Sum(s \ {y}) = f[z] + Sum((s \ {y}) \ {z})
    <3>1. s \ {y} \subseteq s /\ s \ {y} # s /\ z \in s \ {y} /\ s \ {y} \in SUBSET S
      BY <2>1, <2>2, <2>3, <2>6
    <3>2. s \ {y} \notin Fam
      BY <2>1, <3>1
    <3> HIDE DEF Sum
    <3> QED BY <3>1, <3>2
  <2>9. (s \ {y}) \ {z} = (s \ {z}) \ {y}
    OBVIOUS
  <2>10. f[y] \in Nat /\ f[z] \in Nat /\ Sum((s \ {z}) \ {y}) \in Nat
    <3>1. IsFiniteSet((s \ {z}) \ {y}) /\ NatOn(f, (s \ {z}) \ {y})
      BY <2>1, <2>4, FS_Subset DEF NatOn
    <3>2. f[y] \in Nat /\ f[z] \in Nat
      BY <2>1, <2>2, <2>3 DEF NatOn
    <3> QED BY <3>1, <3>2, SumIsNatural
  <2> HIDE DEF Sum
  <2> QED BY <2>2, <2>5, <2>7, <2>8, <2>9, <2>10
<1>2. S \notin Fam
  BY <1>1
<1> QED BY <1>2

\* A sum is no larger than another whose items include, one for one, items at least as large.
LEMMA SumFits ==
  ASSUME NEW f, NEW S, IsFiniteSet(S), NatOn(f, S),
         NEW g, NEW T, IsFiniteSet(T), NatOn(g, T),
         NEW h, \A x \in S : h[x] \in T /\ f[x] <= g[h[x]],
         \A x, y \in S : h[x] = h[y] => x = y
  PROVE  SumFunctionOnSet(f, S) <= SumFunctionOnSet(g, T)
<1> DEFINE Into(s, t) == \A x \in s : h[x] \in t
           Fam == {s \in SUBSET S : \E t \in SUBSET T :
                     Into(s, t) /\ ~(SumFunctionOnSet(f, s) <= SumFunctionOnSet(g, t))}
<1>1. ASSUME Fam # {} PROVE FALSE
  <2>1. PICK s \in Fam : \A u \in Fam : ~(u \subseteq s /\ u # s)
    <3>1. Fam \subseteq SUBSET S
      OBVIOUS
    <3> HIDE DEF Fam
    <3> QED BY <1>1, <3>1, LeastSet
  <2>2. PICK t \in SUBSET T : Into(s, t) /\ ~(SumFunctionOnSet(f, s) <= SumFunctionOnSet(g, t))
    BY <2>1
  <2>3. IsFiniteSet(s) /\ IsFiniteSet(t) /\ NatOn(f, s) /\ NatOn(g, t)
    BY <2>1, <2>2, FS_Subset DEF NatOn
  <2>4. CASE s = {}
    <3>1. SumFunctionOnSet(f, s) = 0
      BY <2>3, <2>4, SumUnfolds
    <3>2. SumFunctionOnSet(g, t) \in Nat
      BY <2>3, SumIsNatural
    <3> QED BY <2>2, <3>1, <3>2
  <2>5. CASE s # {}
    <3>1. PICK x : x \in s
      BY <2>5
    <3>2. h[x] \in t /\ f[x] <= g[h[x]] /\ f[x] \in Nat /\ g[h[x]] \in Nat
      BY <2>1, <2>2, <2>3, <3>1 DEF NatOn
    <3> DEFINE a == SumFunctionOnSet(f, s \ {x})
               b == SumFunctionOnSet(g, t \ {h[x]})
    <3>3. SumFunctionOnSet(f, s) = f[x] + a
      BY <2>3, <3>1, SumWithout
    <3>4. SumFunctionOnSet(g, t) = g[h[x]] + b
      BY <2>3, <3>2, SumWithout
    <3>5. a \in Nat /\ b \in Nat
      <4>1. /\ IsFiniteSet(s \ {x}) /\ NatOn(f, s \ {x})
            /\ IsFiniteSet(t \ {h[x]}) /\ NatOn(g, t \ {h[x]})
        BY <2>3, FS_Subset DEF NatOn
      <4> QED BY <4>1, SumIsNatural
    <3>6. a <= b
      <4>1. s \ {x} \in SUBSET S /\ s \ {x} \subseteq s /\ s \ {x} # s
        BY <2>1, <3>1
      <4>2. s \ {x} \notin Fam
        BY <2>1, <4>1
      <4>3. Into(s \ {x}, t \ {h[x]}) /\ t \ {h[x]} \in SUBSET T
        BY <2>1, <2>2, <3>1
      <4> QED BY <4>1, <4>2, <4>3
    <3> HIDE DEF a, b
    <3> QED BY <2>2, <3>2, <3>3, <3>4, <3>5, <3>6
  <2> QED BY <2>4, <2>5
<1>2. S \notin Fam
  BY <1>1
<1>3. Into(S, T)
  OBVIOUS
<1> QED BY <1>2, <1>3

\* Equal items have equal sums.
LEMMA SameSum ==
  ASSUME NEW f, NEW g, NEW S, IsFiniteSet(S), NatOn(f, S), \A x \in S : g[x] = f[x]
  PROVE  SumFunctionOnSet(g, S) = SumFunctionOnSet(f, S)
<1> DEFINE h == [x \in S |-> x]
           a == SumFunctionOnSet(f, S)
           b == SumFunctionOnSet(g, S)
<1>1. NatOn(g, S)
  BY DEF NatOn
<1>2. /\ \A x \in S : h[x] \in S /\ f[x] <= g[h[x]]
      /\ \A x \in S : h[x] \in S /\ g[x] <= f[h[x]]
      /\ \A x, y \in S : h[x] = h[y] => x = y
  BY <1>1 DEF NatOn
<1>3. a \in Nat /\ b \in Nat
  BY <1>1, SumIsNatural
<1> HIDE DEF h
<1>4. a <= b
  BY <1>1, <1>2, SumFits
<1>5. b <= a
  BY <1>1, <1>2, SumFits
<1> HIDE DEF a, b
<1>6. b = a
  BY <1>3, <1>4, <1>5
<1> QED BY <1>6 DEF a, b

\* A larger set of larger items has a larger sum.
LEMMA SumGrows ==
  ASSUME NEW f, NEW S, NatOn(f, S), NEW g, NEW T, IsFiniteSet(T), NatOn(g, T),
         S \subseteq T, \A x \in S : f[x] <= g[x]
  PROVE  SumFunctionOnSet(f, S) <= SumFunctionOnSet(g, T)
<1> DEFINE h == [x \in S |-> x]
<1>1. /\ \A x \in S : h[x] \in T /\ f[x] <= g[h[x]]
      /\ \A x, y \in S : h[x] = h[y] => x = y
      /\ IsFiniteSet(S)
  BY FS_Subset
<1> HIDE DEF h
<1> QED BY <1>1, SumFits

\* One item x comes in, goes out or changes.
LEMMA SumMoves ==
  ASSUME NEW f, NEW S, IsFiniteSet(S), NatOn(f, S), NEW g, NEW T, IsFiniteSet(T), NatOn(g, T),
         NEW x, S \ {x} = T \ {x}, \A y \in S \ {x} : g[y] = f[y]
  PROVE  SumFunctionOnSet(g, T) + (IF x \in S THEN f[x] ELSE 0)
           = SumFunctionOnSet(f, S) + (IF x \in T THEN g[x] ELSE 0)
<1> DEFINE a == SumFunctionOnSet(f, S \ {x})
           b == SumFunctionOnSet(g, T \ {x})
           s == SumFunctionOnSet(f, S)
           t == SumFunctionOnSet(g, T)
<1>1. b = a /\ a \in Nat
  <2>1. IsFiniteSet(S \ {x}) /\ NatOn(f, S \ {x})
    BY FS_Subset DEF NatOn
  <2> QED BY <2>1, SameSum, SumIsNatural
<1>2. s = (IF x \in S THEN f[x] ELSE 0) + a
  <2>1. CASE x \in S
    BY <2>1, SumWithout
  <2>2. CASE x \notin S
    <3>1. S \ {x} = S
      BY <2>2
    <3>2. s = a
      BY Zenon, <3>1
    <3> HIDE DEF a, b, s, t
    <3> QED BY <1>1, <2>2, <3>2
  <2> QED BY <2>1, <2>2
<1>3. t = (IF x \in T THEN g[x] ELSE 0) + b
  <2>1. CASE x \in T
    BY <2>1, SumWithout
  <2>2. CASE x \notin T
    <3>1. T \ {x} = T
      BY <2>2
    <3>2. t = b
      BY Zenon, <3>1
    <3> HIDE DEF a, b, s, t
    <3> QED BY <1>1, <2>2, <3>2
  <2> QED BY <2>1, <2>2
<1>4. (x \in S => f[x] \in Nat) /\ (x \in T => g[x] \in Nat)
  BY DEF NatOn
<1> HIDE DEF a, b, s, t
<1>5. t + (IF x \in S THEN f[x] ELSE 0) = s + (IF x \in T THEN g[x] ELSE 0)
  BY <1>1, <1>2, <1>3, <1>4
<1> QED BY <1>5 DEF s, t

(***************************************************************************)
(* The inductive invariant.                                                *)
(***************************************************************************)
Pc == {"idle", "lock", "reserve", "insert", "unlock", "submit", "external", "facts",
       "move", "totals", "write", "ride", "mark", "clawFind", "clawSum", "clawInsert",
       "record", "next", "abandon", "credit", "earn"}
Saids == {"pending", "processed", "failed"}
Targets == {"PENDING", "PROCESSED", "FAILED"}

CallType == [pc : Pc, ref : Refs \cup {NoRefund}, gw : GwRefunds \cup {NoGw},
             to : Targets \cup {"REQUESTED"}, fresh : BOOLEAN, processed : Nat, pending : Nat,
             after : {"done", "unlock", "ride"}, due : {"nothing", "mark", "clawback"},
             reversal : [gross : Nat, commission : Nat, amount : Nat], reserved : Nat,
             todo : SUBSET ((GwRefunds \X Saids) \cup Keys), syncs : {"no", "next", "abandon"}]

\* A request between its insert and Razorpay's answer.
Pipeline(c) == \/ c.pc = "submit"
               \/ c.pc \in {"totals", "write"} /\ c.after = "unlock"
               \/ c.pc = "unlock" /\ c.ref # NoRefund

HoldsIt(c) == \/ c.pc \in {"reserve", "insert", "unlock"}
              \/ c.pc \in {"totals", "write"} /\ c.after = "unlock"

Exists(doc) == doc.status # "NONE"
Borne(doc) == doc.status = "PROCESSED" /\ doc.impact = "PROPORTIONAL" /\ ~doc.review
Asked == SumFunctionOnSet(Amounts, {r \in Keys : refund[r].status \in ACTIVE_REFUND_STATUSES})

\* Razorpay does not have this refund any more, and nobody asks for it.
Dead(r) ==
  /\ Exists(refund[r])
  /\ \A g \in GwRefunds : gateway[g].for = r => gateway[g].status = "failed"
  /\ \A p \in Calls : Pipeline(call[p]) => call[p].ref # r

\* Documents and Razorpay's refunds know of each other.
Returned(r, docs, razorpay) ==
  docs[r].gw # NoGw /\ razorpay[docs[r].gw].status = "processed"
DocsFit ==
  \A r \in Refs :
    /\ ~Exists(refund[r]) => refund[r].gw = NoGw /\ ~refund[r].review
    /\ Exists(refund[r]) => refund[r].amount > 0 /\ (r \in Externals => refund[r].gw # NoGw)
    /\ refund[r].status = "PROCESSED" => Returned(r, refund, gateway)
    /\ refund[r].gw # NoGw =>
         /\ gateway[refund[r].gw].status # "none"
         /\ gateway[refund[r].gw].amount = refund[r].amount
         /\ gateway[refund[r].gw].for = IF r \in Keys THEN r ELSE NoRefund
GatewayFits ==
  /\ AtGateway({"pending", "processed"}) <= Paid
  /\ \A g \in GwRefunds :
       /\ gateway[g].status # "none" => gateway[g].amount > 0
       /\ gateway[g].for # NoRefund =>
            /\ gateway[g].status # "none" /\ Exists(refund[gateway[g].for])
            /\ gateway[g].amount = refund[gateway[g].for].amount
Documents == DocsFit /\ GatewayFits /\ SentOnce /\ OneEntryEach /\ RequestsFit

\* What a handler knows of the rest, between two steps.
View == [docs |-> refund, razorpay |-> gateway, dead |-> {r \in Refs : Dead(r)}, old |-> aged,
         sum |-> Total({"PROCESSED"}), asked |-> Asked]

Matches(r, g, v) == IF r \in Keys THEN v.razorpay[g].for = r ELSE v.docs[r].gw = g
KnowsGateway(c, v) ==
  /\ c.pc \in {"facts", "external"} =>
       /\ c.gw \in GwRefunds /\ v.razorpay[c.gw].status # "none" /\ c.to \in Targets
       /\ c.to = "PROCESSED" => v.razorpay[c.gw].status = "processed"
       /\ c.to = "FAILED" => v.razorpay[c.gw].status = "failed"
  /\ c.pc = "external" => v.razorpay[c.gw].for = NoRefund
  /\ c.pc = "facts" => c.ref \in Refs /\ Matches(c.ref, c.gw, v)
  /\ c.pc = "move" =>
       /\ c.ref \in Refs /\ Exists(v.docs[c.ref]) /\ c.to \in Targets
       /\ c.to = "PROCESSED" => Returned(c.ref, v.docs, v.razorpay)
       /\ c.to = "FAILED" /\ c.ref \in Keys => c.ref \in v.dead
KnowsRefund(c, v) ==
  /\ c.pc \in {"lock", "reserve", "insert"} => c.ref \in Keys
  /\ Pipeline(c) => /\ c.ref \in Keys /\ Exists(v.docs[c.ref])
                    /\ \A g \in GwRefunds : v.razorpay[g].for # c.ref
  /\ c.pc \in {"external", "facts", "move", "next", "abandon"} => c.due = "nothing"
  /\ c.pc \in {"ride", "mark", "record"} => c.ref \in Refs
  /\ c.pc \in {"totals", "write"} /\ c.after = "ride" => c.ref \in Refs
  /\ c.due = "clawback" \/ c.pc \in {"clawFind", "clawSum", "clawInsert"} =>
       c.ref \in Refs /\ Borne(v.docs[c.ref])
KnowsSums(c, v) ==
  /\ c.processed <= v.sum
  /\ c.pc = "ride" => c.processed > 0
  /\ c.pc = "insert" => v.asked <= c.reserved
\* A sync handles all that Razorpay made of the requests that were old when it began.
Heard(g, said, v) ==
  v.razorpay[g].status \in {said} \cup (IF said = "pending" THEN {"processed", "failed"} ELSE {})
KnowsList(c, v) ==
  /\ c.pc = "next" => c.syncs = "next"
  /\ c.pc = "abandon" => c.syncs = "abandon"
  /\ c.syncs = "next" =>
       /\ \A item \in c.todo : item \in GwRefunds \X Saids /\ Heard(item[1], item[2], v)
       /\ \A g \in GwRefunds : v.razorpay[g].for \in v.old =>
            \/ v.docs[v.razorpay[g].for].gw = g
            \/ \E said \in Saids : <<g, said>> \in c.todo
            \/ c.pc = "facts" /\ c.gw = g
  /\ c.syncs = "abandon" => c.todo \subseteq Keys \cap v.dead
Sound(c, v) ==
  c \in CallType /\ KnowsGateway(c, v) /\ KnowsRefund(c, v) /\ KnowsSums(c, v) /\ KnowsList(c, v)

CallsSound ==
  /\ call = [p \in Calls |-> call[p]]
  /\ \A p \in Calls : Sound(call[p], View)
OneSender ==
  \A p, q \in Calls : Pipeline(call[p]) /\ Pipeline(call[q]) /\ call[p].ref = call[q].ref => p = q
RefusedIsDead == \A k \in Keys : refund[k].status = "FAILED" => Dead(k)
AgedIsIdle ==
  \A r \in aged : Exists(refund[r]) /\ \A p \in Calls : Pipeline(call[p]) => call[p].ref # r
Handlers == CallsSound /\ OneSender /\ RefusedIsDead /\ AgedIsIdle

LockOK ==
  \A p \in Calls : HoldsIt(call[p]) => locked /\ \A q \in Calls : HoldsIt(call[q]) => q = p

\* Whoever changed a refund, or is about to, comes to the totals and then to the ride.
Heading(c, docs) == \/ c.pc \in {"move", "totals", "write"}
                    \/ c.pc = "facts" /\ docs[c.ref].gw = c.gw
HeadingForRide(c) == c.pc \in {"totals", "write"} /\ c.after = "ride"
MovesRide(c, sum) == c.pc = "ride" /\ StatusFor(c.processed) = StatusFor(sum)
Writes(c) == c.pc = "write" /\ c.fresh

TotalsRight ==
  bill = [status |-> StatusFor(Total({"PROCESSED"})), refunded |-> Total({"PROCESSED"}),
          pending |-> Total(UNSETTLED)]
BillFollows ==
  failures = 0 =>
    /\ TotalsRight \/ \E p \in Calls : Heading(call[p], refund)
    /\ \A p \in Calls : Writes(call[p]) =>
         \/ call[p].processed = Total({"PROCESSED"}) /\ call[p].pending = Total(UNSETTLED)
         \/ \E q \in Calls \ {p} : Heading(call[q], refund)

RideFor(sum) == IF sum = 0 THEN "SUCCESS" ELSE StatusFor(sum)
RideFollows ==
  failures = 0 =>
    /\ earning /\ ride.status # "PENDING"
    /\ \/ ride.status = RideFor(Total({"PROCESSED"}))
       \/ \E p \in Calls : HeadingForRide(call[p]) \/ MovesRide(call[p], Total({"PROCESSED"}))
    /\ \A p \in Calls : Writes(call[p]) =>
         \/ call[p].processed = Total({"PROCESSED"})
         \/ \E q \in Calls \ {p} : HeadingForRide(call[q])
RideBehind ==
  /\ ride.status = "PARTIALLY_REFUNDED" => Total({"PROCESSED"}) > 0
  /\ ride.status = "REFUNDED" => Total({"PROCESSED"}) >= Paid

IInv ==
  TypeOK /\ Documents /\ Handlers /\ LockOK /\ RideBehind /\ BillFollows /\ RideFollows

-----------------------------------------------------------------------------
(* Sums of amounts.                                                        *)

SumOf(docs, keys, statuses) ==
  SumFunctionOnSet([r \in Refs |-> docs[r].amount], {r \in keys : docs[r].status \in statuses})
GwSum(razorpay, statuses) ==
  SumFunctionOnSet([g \in GwRefunds |-> razorpay[g].amount],
                   {g \in GwRefunds : razorpay[g].status \in statuses})
Docs == [Refs -> RefundDoc]
Razorpay == [GwRefunds -> RazorpayRefund]

LEMMA Sums ==
  ASSUME NEW X
  PROVE  /\ Total(X) = SumOf(refund, Refs, X) /\ Total(X)' = SumOf(refund', Refs, X)
         /\ Asked = SumOf(refund, Keys, ACTIVE_REFUND_STATUSES)
         /\ Asked' = SumOf(refund', Keys, ACTIVE_REFUND_STATUSES)
         /\ AtGateway(X) = GwSum(gateway, X) /\ AtGateway(X)' = GwSum(gateway', X)
  BY DEF Total, Asked, AtGateway, SumOf, GwSum, Amounts, GwAmounts

\* The amounts of some documents can be added up.
LEMMA SumOfIsNatural ==
  ASSUME NEW docs \in Docs, NEW keys \in SUBSET Refs, NEW X
  PROVE  /\ IsFiniteSet({r \in keys : docs[r].status \in X})
         /\ NatOn([r \in Refs |-> docs[r].amount], {r \in keys : docs[r].status \in X})
         /\ SumOf(docs, keys, X) \in Nat
<1>1. IsFiniteSet({r \in keys : docs[r].status \in X})
  <2>1. {r \in keys : docs[r].status \in X} \subseteq Refs
    OBVIOUS
  <2> QED BY <2>1, FinitelyMany, FS_Subset
<1>2. NatOn([r \in Refs |-> docs[r].amount], {r \in keys : docs[r].status \in X})
  BY AmountsAreNatural DEF NatOn, Docs, RefundDoc
<1> QED BY <1>1, <1>2, SumIsNatural DEF SumOf

LEMMA GwSumIsNatural ==
  ASSUME NEW razorpay \in Razorpay, NEW X
  PROVE  /\ IsFiniteSet({g \in GwRefunds : razorpay[g].status \in X})
         /\ NatOn([g \in GwRefunds |-> razorpay[g].amount],
                  {g \in GwRefunds : razorpay[g].status \in X})
         /\ GwSum(razorpay, X) \in Nat
<1>1. IsFiniteSet({g \in GwRefunds : razorpay[g].status \in X})
  <2>1. {g \in GwRefunds : razorpay[g].status \in X} \subseteq GwRefunds
    OBVIOUS
  <2> QED BY <2>1, FinitelyMany, FS_Subset
<1>2. NatOn([g \in GwRefunds |-> razorpay[g].amount], {g \in GwRefunds : razorpay[g].status \in X})
  BY AmountsAreNatural DEF NatOn, Razorpay, RazorpayRefund
<1> QED BY <1>1, <1>2, SumIsNatural DEF GwSum

LEMMA SumOfGrows ==
  ASSUME NEW docs \in Docs, NEW docs2 \in Docs, NEW X, NEW Y,
         NEW keys \in SUBSET Refs, NEW keys2 \in SUBSET Refs,
         \A r \in keys : docs[r].status \in X =>
           r \in keys2 /\ docs2[r].status \in Y /\ docs[r].amount <= docs2[r].amount
  PROVE  SumOf(docs, keys, X) <= SumOf(docs2, keys2, Y)
<1> DEFINE f == [r \in Refs |-> docs[r].amount]
           g == [r \in Refs |-> docs2[r].amount]
           S == {r \in keys : docs[r].status \in X}
           T == {r \in keys2 : docs2[r].status \in Y}
<1>1. NatOn(f, S) /\ IsFiniteSet(T) /\ NatOn(g, T)
  BY SumOfIsNatural
<1>2. S \subseteq T /\ \A r \in S : f[r] <= g[r]
  OBVIOUS
<1> HIDE DEF f, g, S, T
<1>3. SumFunctionOnSet(f, S) <= SumFunctionOnSet(g, T)
  BY <1>1, <1>2, SumGrows
<1> QED BY <1>3 DEF SumOf, f, g, S, T

\* One document changes.
LEMMA SumOfMoves ==
  ASSUME NEW docs \in Docs, NEW docs2 \in Docs, NEW X, NEW keys \in SUBSET Refs, NEW x \in Refs,
         \A r \in Refs \ {x} : docs2[r] = docs[r]
  PROVE  SumOf(docs2, keys, X) + (IF x \in keys /\ docs[x].status \in X THEN docs[x].amount ELSE 0)
           = SumOf(docs, keys, X) + (IF x \in keys /\ docs2[x].status \in X THEN docs2[x].amount ELSE 0)
<1> DEFINE f == [r \in Refs |-> docs[r].amount]
           g == [r \in Refs |-> docs2[r].amount]
           S == {r \in keys : docs[r].status \in X}
           T == {r \in keys : docs2[r].status \in X}
<1>1. NatOn(f, S) /\ IsFiniteSet(S) /\ IsFiniteSet(T) /\ NatOn(g, T)
  BY SumOfIsNatural
<1>2. /\ S \ {x} = T \ {x} /\ \A r \in S \ {x} : g[r] = f[r]
      /\ f[x] = docs[x].amount /\ g[x] = docs2[x].amount
      /\ (x \in S <=> x \in keys /\ docs[x].status \in X)
      /\ (x \in T <=> x \in keys /\ docs2[x].status \in X)
  OBVIOUS
<1> HIDE DEF f, g, S, T
<1>3. SumFunctionOnSet(g, T) + (IF x \in S THEN f[x] ELSE 0)
        = SumFunctionOnSet(f, S) + (IF x \in T THEN g[x] ELSE 0)
  BY <1>1, <1>2, SumMoves
<1>4. SumOf(docs, keys, X) = SumFunctionOnSet(f, S) /\ SumOf(docs2, keys, X) = SumFunctionOnSet(g, T)
  BY DEF SumOf, f, g, S, T
<1> QED BY <1>2, <1>3, <1>4

LEMMA GwSumMoves ==
  ASSUME NEW razorpay \in Razorpay, NEW razorpay2 \in Razorpay, NEW X, NEW x \in GwRefunds,
         \A g \in GwRefunds \ {x} : razorpay2[g] = razorpay[g]
  PROVE  GwSum(razorpay2, X) + (IF razorpay[x].status \in X THEN razorpay[x].amount ELSE 0)
           = GwSum(razorpay, X) + (IF razorpay2[x].status \in X THEN razorpay2[x].amount ELSE 0)
<1> DEFINE f == [g \in GwRefunds |-> razorpay[g].amount]
           h == [g \in GwRefunds |-> razorpay2[g].amount]
           S == {g \in GwRefunds : razorpay[g].status \in X}
           T == {g \in GwRefunds : razorpay2[g].status \in X}
<1>1. NatOn(f, S) /\ IsFiniteSet(S) /\ IsFiniteSet(T) /\ NatOn(h, T)
  BY GwSumIsNatural
<1>2. /\ S \ {x} = T \ {x} /\ \A g \in S \ {x} : h[g] = f[g]
      /\ f[x] = razorpay[x].amount /\ h[x] = razorpay2[x].amount
      /\ (x \in S <=> razorpay[x].status \in X)
      /\ (x \in T <=> razorpay2[x].status \in X)
  OBVIOUS
<1> HIDE DEF f, h, S, T
<1>3. SumFunctionOnSet(h, T) + (IF x \in S THEN f[x] ELSE 0)
        = SumFunctionOnSet(f, S) + (IF x \in T THEN h[x] ELSE 0)
  BY <1>1, <1>2, SumMoves
<1>4. GwSum(razorpay, X) = SumFunctionOnSet(f, S) /\ GwSum(razorpay2, X) = SumFunctionOnSet(h, T)
  BY DEF GwSum, f, h, S, T
<1> QED BY <1>2, <1>3, <1>4

\* What was returned of the payment fits it: each booked return is one of Razorpay's.
LEMMA ReturnedFits ==
  ASSUME TypeOK, DocsFit, GatewayFits, BookedOnce
  PROVE  Total({"PROCESSED"}) <= Paid
<1> DEFINE f == [r \in Refs |-> refund[r].amount]
           S == {r \in Refs : refund[r].status \in {"PROCESSED"}}
           h == [r \in Refs |-> refund[r].gw]
           k == [g \in GwRefunds |-> gateway[g].amount]
           T == {g \in GwRefunds : gateway[g].status \in {"pending", "processed"}}
<1>1. refund \in Docs /\ gateway \in Razorpay
  BY DEF TypeOK, Docs, Razorpay
<1>2. NatOn(f, S) /\ IsFiniteSet(S) /\ NatOn(k, T) /\ IsFiniteSet(T)
  BY <1>1, SumOfIsNatural, GwSumIsNatural
<1>3. ASSUME NEW r \in S
      PROVE  h[r] \in T /\ f[r] <= k[h[r]]
  <2>1. h[r] \in GwRefunds /\ gateway[h[r]].status = "processed"
        /\ gateway[h[r]].amount = refund[r].amount
    BY <1>1 DEF DocsFit, Returned, Docs, RefundDoc
  <2>2. refund[r].amount \in Nat
    BY <1>1, AmountsAreNatural DEF Docs, RefundDoc
  <2> QED BY <2>1, <2>2
<1>4. \A r, s \in S : h[r] = h[s] => r = s
  BY DEF BookedOnce, DocsFit, Returned
<1>5. Total({"PROCESSED"}) = SumFunctionOnSet(f, S)
  BY Sums DEF SumOf
<1>6. AtGateway({"pending", "processed"}) = SumFunctionOnSet(k, T)
  BY Sums DEF GwSum
<1>7. SumFunctionOnSet(f, S) \in Nat /\ SumFunctionOnSet(k, T) \in Nat
  BY <1>2, SumIsNatural
<1> HIDE DEF f, S, h, k, T
<1>8. SumFunctionOnSet(f, S) <= SumFunctionOnSet(k, T)
  BY <1>2, <1>3, <1>4, SumFits
<1> QED BY <1>5, <1>6, <1>7, <1>8, AmountsAreNatural DEF GatewayFits

-----------------------------------------------------------------------------
(* What a handler knows stays true.                                        *)

LEMMA ViewIs ==
  /\ View.docs = refund /\ View.razorpay = gateway /\ View.dead = {r \in Refs : Dead(r)}
  /\ View.old = aged /\ View.sum = Total({"PROCESSED"}) /\ View.asked = Asked
  /\ View'.docs = refund' /\ View'.razorpay = gateway' /\ View'.dead = {r \in Refs : Dead(r)'}
  /\ View'.old = aged' /\ View'.sum = Total({"PROCESSED"})' /\ View'.asked = Asked'
  BY DEF View

Views(v) == /\ v.docs \in Docs /\ v.razorpay \in Razorpay /\ v.old \subseteq Refs
            /\ v.dead \subseteq Refs /\ v.sum \in Nat /\ v.asked \in Nat

LEMMA ViewIsOne ==
  /\ TypeOK => Views(View)
  /\ TypeOK' => Views(View')
<1>1. Keys \in SUBSET Refs
  BY DEF Refs
<1>2. ASSUME TypeOK
      PROVE  Views(View)
  <2>1. refund \in Docs /\ gateway \in Razorpay /\ aged \subseteq Refs
    BY <1>2 DEF TypeOK, Docs, Razorpay
  <2>2. Total({"PROCESSED"}) \in Nat /\ Asked \in Nat
    BY <1>1, <2>1, Sums, SumOfIsNatural
  <2> QED BY <2>1, <2>2, ViewIs DEF Views
<1>3. ASSUME TypeOK'
      PROVE  Views(View')
  <2>1. refund' \in Docs /\ gateway' \in Razorpay /\ aged' \subseteq Refs
    BY <1>3 DEF TypeOK, Docs, Razorpay
  <2>2. Total({"PROCESSED"})' \in Nat /\ Asked' \in Nat
    BY <1>1, <2>1, Sums, SumOfIsNatural
  <2> QED BY <2>1, <2>2, ViewIs DEF Views
<1> QED BY <1>2, <1>3

\* Documents and Razorpay's refunds only move on, from docs and gw to docs2 and gw2.
Onward(docs, docs2, gw, gw2) ==
  /\ \A r \in Refs : /\ Exists(docs[r]) => Exists(docs2[r])
                     /\ docs[r].gw # NoGw => docs2[r].gw = docs[r].gw
                     /\ Borne(docs[r]) => Borne(docs2[r])
  /\ \A g \in GwRefunds :
       /\ gw[g].status # "none" => gw2[g].status # "none" /\ gw2[g].for = gw[g].for
       /\ gw[g].status \in {"processed", "failed"} => gw2[g].status = gw[g].status
Forward(v, w) ==
  /\ Views(v) /\ Views(w) /\ Onward(v.docs, w.docs, v.razorpay, w.razorpay)
  /\ v.dead \subseteq w.dead /\ v.sum <= w.sum

\* What call c counts on beyond that.
Undisturbed(c, v, w) ==
  /\ c.pc = "insert" => w.asked <= v.asked
  /\ c.syncs = "next" =>
       \A g \in GwRefunds : w.razorpay[g].for \in w.old =>
         w.razorpay[g].for \in v.old /\ v.razorpay[g].for = w.razorpay[g].for
  /\ Pipeline(c) => \A g \in GwRefunds : w.razorpay[g].for # c.ref

LEMMA SoundForward ==
  ASSUME NEW c, NEW v, NEW w, Sound(c, v), Forward(v, w), Undisturbed(c, v, w)
  PROVE  Sound(c, w)
<1> USE DEF Sound
<1>1. KnowsGateway(c, w)
  <2>1. CASE c.pc \in {"facts", "external"}
    <3>1. /\ c.gw \in GwRefunds /\ c.to \in Targets
          /\ w.razorpay[c.gw].status # "none" /\ w.razorpay[c.gw].for = v.razorpay[c.gw].for
          /\ c.to = "PROCESSED" => w.razorpay[c.gw].status = "processed"
          /\ c.to = "FAILED" => w.razorpay[c.gw].status = "failed"
      BY <2>1 DEF KnowsGateway, Forward, Onward
    <3>2. c.pc = "facts" => c.ref \in Refs /\ Matches(c.ref, c.gw, w)
      BY <3>1, RefundIdsDistinct DEF KnowsGateway, Matches, Forward, Onward
    <3> QED BY <2>1, <3>1, <3>2 DEF KnowsGateway
  <2>2. CASE c.pc = "move"
    <3>1. c.ref \in Refs /\ Exists(w.docs[c.ref]) /\ c.to \in Targets
      BY <2>2 DEF KnowsGateway, Forward, Onward
    <3>2. c.to = "PROCESSED" => Returned(c.ref, w.docs, w.razorpay)
      <4> SUFFICES ASSUME c.to = "PROCESSED" PROVE Returned(c.ref, w.docs, w.razorpay)
        OBVIOUS
      <4>1. Returned(c.ref, v.docs, v.razorpay)
        BY <2>2 DEF KnowsGateway
      <4>2. v.docs[c.ref].gw \in GwRefunds
        BY <3>1, <4>1 DEF Returned, Forward, Views, Docs, RefundDoc
      <4> QED BY <3>1, <4>1, <4>2 DEF Returned, Forward, Onward
    <3> QED BY <2>2, <3>1, <3>2 DEF KnowsGateway, Forward
  <2>3. CASE c.pc \notin {"facts", "external", "move"}
    BY <2>3 DEF KnowsGateway
  <2> QED BY <2>1, <2>2, <2>3
<1>2. KnowsRefund(c, w)
  <2>1. Refs = Keys \cup Externals
    BY DEF Refs
  <2> QED BY <2>1 DEF KnowsRefund, Forward, Onward, Undisturbed
<1>3. KnowsSums(c, w)
  BY DEF KnowsSums, Forward, Views, Undisturbed, CallType
<1>4. KnowsList(c, w)
  <2>1. CASE c.syncs = "next"
    <3>1. ASSUME NEW item \in c.todo
          PROVE  item \in GwRefunds \X Saids /\ Heard(item[1], item[2], w)
      <4>1. item \in GwRefunds \X Saids /\ Heard(item[1], item[2], v)
        BY <2>1 DEF KnowsList
      <4> DEFINE g == item[1]
                 said == item[2]
      <4>2. g \in GwRefunds /\ said \in Saids /\ Heard(g, said, v)
        BY <4>1
      <4> HIDE DEF g, said
      <4>3. w.razorpay[g].status \in {"none", "pending", "processed", "failed"}
        BY <4>2 DEF Forward, Views, Razorpay, RazorpayRefund
      <4>4. Heard(g, said, w)
        BY <4>2, <4>3 DEF Heard, Saids, Forward, Onward
      <4> QED BY <4>1, <4>4 DEF g, said
    <3>2. ASSUME NEW g \in GwRefunds, w.razorpay[g].for \in w.old
          PROVE  \/ w.docs[w.razorpay[g].for].gw = g
                 \/ \E said \in Saids : <<g, said>> \in c.todo
                 \/ c.pc = "facts" /\ c.gw = g
      <4> DEFINE k == w.razorpay[g].for
      <4>1. k \in v.old /\ v.razorpay[g].for = k
        BY <2>1, <3>2 DEF Undisturbed
      <4>2. k \in Refs
        BY <4>1 DEF Forward, Views
      <4>3. \/ v.docs[k].gw = g
            \/ \E said \in Saids : <<g, said>> \in c.todo
            \/ c.pc = "facts" /\ c.gw = g
        BY <2>1, <4>1 DEF KnowsList
      <4>4. v.docs[k].gw = g => w.docs[k].gw = g
        BY <4>2, RefundIdsDistinct DEF Forward, Onward
      <4> HIDE DEF k
      <4>5. \/ w.docs[k].gw = g
            \/ \E said \in Saids : <<g, said>> \in c.todo
            \/ c.pc = "facts" /\ c.gw = g
        BY <4>3, <4>4
      <4> QED BY <4>5 DEF k
    <3> QED BY <2>1, <3>1, <3>2 DEF KnowsList
  <2>2. CASE c.syncs # "next"
    BY <2>2 DEF KnowsList, Forward
  <2> QED BY <2>1, <2>2
<1> QED BY <1>1, <1>2, <1>3, <1>4

\* A call whose numbers were overtaken knows what it knew.
Stale(c) == [c EXCEPT !.fresh = FALSE]
LEMMA StaleIsSound ==
  ASSUME NEW c \in CallType
  PROVE  /\ Stale(c) \in CallType
         /\ Stale(c).pc = c.pc /\ Stale(c).ref = c.ref /\ Stale(c).gw = c.gw /\ Stale(c).to = c.to
         /\ Stale(c).processed = c.processed /\ Stale(c).after = c.after /\ Stale(c).due = c.due
         /\ Stale(c).reserved = c.reserved /\ Stale(c).todo = c.todo /\ Stale(c).syncs = c.syncs
         /\ Stale(c).fresh = FALSE
         /\ \A v : Sound(c, v) => Sound(Stale(c), v)
<1>1. /\ Stale(c) \in CallType
      /\ Stale(c).pc = c.pc /\ Stale(c).ref = c.ref /\ Stale(c).gw = c.gw /\ Stale(c).to = c.to
      /\ Stale(c).processed = c.processed /\ Stale(c).after = c.after /\ Stale(c).due = c.due
      /\ Stale(c).reserved = c.reserved /\ Stale(c).todo = c.todo /\ Stale(c).syncs = c.syncs
      /\ Stale(c).fresh = FALSE
  BY DEF Stale, CallType
<1>2. ASSUME NEW v, Sound(c, v)
      PROVE  Sound(Stale(c), v)
  <2>1. KnowsGateway(Stale(c), v)
    BY <1>1, <1>2 DEF Sound, KnowsGateway
  <2>2. KnowsRefund(Stale(c), v)
    BY <1>1, <1>2 DEF Sound, KnowsRefund, Pipeline
  <2>3. KnowsSums(Stale(c), v)
    BY <1>1, <1>2 DEF Sound, KnowsSums
  <2>4. KnowsList(Stale(c), v)
    BY <1>1, <1>2 DEF Sound, KnowsList
  <2> QED BY <1>1, <2>1, <2>2, <2>3, <2>4 DEF Sound
<1> QED BY <1>1, <1>2

-----------------------------------------------------------------------------
(* The handlers after a step.                                              *)

\* All calls but p go on where they are; p may only become the sender of a new refund.
Others(p) == \A q \in Calls \ {p} : call'[q] = call[q] \/ call'[q] = Stale(call[q])
Starts(p) == Pipeline(call'[p]) => \/ Pipeline(call[p]) /\ call'[p].ref = call[p].ref
                                   \/ ~Exists(refund[call'[p].ref])
\* A request Razorpay has accepted was sent by a handler.
Sent == \A g \in GwRefunds : gateway'[g].for \in {gateway[g].for, NoRefund} \/
          \E p \in Calls : Pipeline(call[p]) /\ gateway'[g].for = call[p].ref

LEMMA CallFacts ==
  ASSUME IInv, NEW p \in Calls
  PROVE  call[p] \in CallType /\ Sound(call[p], View)
  BY DEF IInv, Handlers, CallsSound, Sound

LEMMA OthersKeep ==
  ASSUME IInv, NEW p \in Calls, Others(p), NEW q \in Calls \ {p}
  PROVE  /\ call'[q].pc = call[q].pc /\ call'[q].after = call[q].after
         /\ call'[q].ref = call[q].ref /\ call'[q].syncs = call[q].syncs
         /\ Pipeline(call'[q]) <=> Pipeline(call[q])
         /\ HoldsIt(call'[q]) <=> HoldsIt(call[q])
<1>1. call[q] \in CallType /\ (call'[q] = call[q] \/ call'[q] = Stale(call[q]))
  BY CallFacts DEF Others
<1>2. /\ Stale(call[q]).pc = call[q].pc /\ Stale(call[q]).after = call[q].after
      /\ Stale(call[q]).ref = call[q].ref /\ Stale(call[q]).syncs = call[q].syncs
  BY <1>1, StaleIsSound
<1>3. /\ call'[q].pc = call[q].pc /\ call'[q].after = call[q].after
      /\ call'[q].ref = call[q].ref /\ call'[q].syncs = call[q].syncs
  BY <1>1, <1>2
<1> QED BY <1>3 DEF Pipeline, HoldsIt

\* Senders are those there were, but for a new one.
LEMMA Senders ==
  ASSUME IInv, NEW p \in Calls, Others(p), Starts(p), NEW q \in Calls, Pipeline(call'[q])
  PROVE  \/ Pipeline(call[q]) /\ call'[q].ref = call[q].ref
         \/ q = p /\ ~Exists(refund[call'[q].ref])
<1>1. CASE q = p
  BY <1>1 DEF Starts
<1>2. CASE q # p
  BY <1>2, OthersKeep
<1> QED BY <1>1, <1>2

LEMMA DeadStays ==
  ASSUME IInv, Onward(refund, refund', gateway, gateway'), Sent,
         \A q \in Calls : Pipeline(call'[q]) =>
           \/ Pipeline(call[q]) /\ call'[q].ref = call[q].ref
           \/ ~Exists(refund[call'[q].ref]),
         NEW r \in Refs, Dead(r)
  PROVE  Dead(r)'
<1>1. Exists(refund'[r])
  BY DEF Dead, Onward
<1>2. ASSUME NEW g \in GwRefunds, gateway'[g].for = r
      PROVE  gateway'[g].status = "failed"
  <2>1. r # NoRefund
    BY RefundIdsDistinct
  <2>2. gateway[g].for = r
    BY <1>2, <2>1 DEF Sent, Dead
  <2> QED BY <2>2 DEF Dead, Onward
<1>3. \A p \in Calls : Pipeline(call'[p]) => call'[p].ref # r
  BY DEF Dead
<1> QED BY <1>1, <1>2, <1>3 DEF Dead, Pipeline

LEMMA ForwardHolds ==
  ASSUME IInv, TypeOK', Onward(refund, refund', gateway, gateway'), Sent,
         \A q \in Calls : Pipeline(call'[q]) =>
           \/ Pipeline(call[q]) /\ call'[q].ref = call[q].ref
           \/ ~Exists(refund[call'[q].ref]),
         Total({"PROCESSED"}) <= Total({"PROCESSED"})'
  PROVE  Forward(View, View')
<1>1. Views(View) /\ Views(View')
  BY ViewIsOne DEF IInv
<1>2. View.dead \subseteq View'.dead
  BY DeadStays, ViewIs
<1> QED BY <1>1, <1>2, ViewIs DEF Forward

LEMMA HandlersKept ==
  ASSUME IInv, NEW p \in Calls, call' = [q \in Calls |-> call'[q]], Others(p), Starts(p),
         Forward(View, View'), Sound(call'[p], View'), aged' = aged,
         \A q \in Calls \ {p} : Undisturbed(call[q], View, View'),
         \A k \in Keys : refund'[k].status = "FAILED" /\ refund[k].status # "FAILED" =>
                           k \in View'.dead
  PROVE  Handlers'
<1>1. \A q \in Calls : Sound(call'[q], View')
  <2> SUFFICES ASSUME NEW q \in Calls, q # p
               PROVE  Sound(call'[q], View')
    OBVIOUS
  <2>1. call[q] \in CallType /\ Sound(call[q], View)
    BY CallFacts
  <2>2. Sound(call[q], View')
    BY <2>1, SoundForward
  <2>3. Sound(Stale(call[q]), View')
    BY <2>1, <2>2, StaleIsSound
  <2> QED BY <2>2, <2>3 DEF Others
<1>2. CallsSound'
  BY <1>1 DEF CallsSound
<1>3. \A q \in Calls : Pipeline(call'[q]) =>
        \/ Pipeline(call[q]) /\ call'[q].ref = call[q].ref /\ call[q].ref \in Refs /\
           Exists(refund[call[q].ref])
        \/ q = p /\ ~Exists(refund[call'[q].ref])
  <2> SUFFICES ASSUME NEW q \in Calls, Pipeline(call'[q]), Pipeline(call[q])
               PROVE  call[q].ref \in Refs /\ Exists(refund[call[q].ref])
    BY Senders
  <2> QED BY CallFacts, ViewIs DEF Sound, KnowsRefund, Refs
<1>4. OneSender'
  <2> SUFFICES ASSUME NEW q \in Calls, NEW s \in Calls, Pipeline(call'[q]), Pipeline(call'[s]),
                      call'[q].ref = call'[s].ref
               PROVE  q = s
    BY DEF OneSender, Pipeline
  <2> QED BY <1>3 DEF IInv, Handlers, OneSender
<1>5. RefusedIsDead'
  <2> SUFFICES ASSUME NEW k \in Keys, refund'[k].status = "FAILED"
               PROVE  Dead(k)'
    BY DEF RefusedIsDead, Dead
  <2>1. refund[k].status = "FAILED" => k \in View.dead
    BY ViewIs DEF IInv, Handlers, RefusedIsDead, Refs
  <2>2. k \in View'.dead
    BY <2>1 DEF Forward
  <2> QED BY <2>2, ViewIs
<1>6. AgedIsIdle'
  <2> SUFFICES ASSUME NEW r \in aged
               PROVE  /\ Exists(refund'[r])
                      /\ \A q \in Calls : Pipeline(call'[q]) => call'[q].ref # r
    BY DEF AgedIsIdle, Exists, Pipeline
  <2>1. r \in Refs /\ Exists(refund[r])
    BY DEF IInv, TypeOK, Handlers, AgedIsIdle
  <2>2. Exists(refund'[r])
    BY <2>1, ViewIs DEF Forward, Onward
  <2>3. \A q \in Calls : Pipeline(call'[q]) => call'[q].ref # r
    BY <1>3, <2>1 DEF IInv, Handlers, AgedIsIdle
  <2> QED BY <2>2, <2>3
<1> QED BY <1>2, <1>4, <1>5, <1>6 DEF Handlers

-----------------------------------------------------------------------------
(* The books after a step.                                                 *)

LEMMA HeadingStays ==
  ASSUME IInv, Onward(refund, refund', gateway, gateway'), NEW q \in Calls,
         call'[q] = call[q] \/ call'[q] = Stale(call[q])
  PROVE  /\ Heading(call[q], refund) => Heading(call'[q], refund')
         /\ HeadingForRide(call[q]) => HeadingForRide(call'[q])
         /\ \A n : MovesRide(call[q], n) => MovesRide(call'[q], n)
         /\ Writes(call'[q]) => call'[q] = call[q] /\ Writes(call[q])
<1>1. call[q] \in CallType /\ Sound(call[q], View)
  BY CallFacts
<1>2. /\ call'[q].pc = call[q].pc /\ call'[q].after = call[q].after /\ call'[q].ref = call[q].ref
      /\ call'[q].gw = call[q].gw /\ call'[q].processed = call[q].processed
      /\ call'[q].fresh => call'[q] = call[q]
  <2> DEFINE c == call[q]
             s == Stale(c)
  <2>1. /\ s.pc = c.pc /\ s.after = c.after /\ s.ref = c.ref /\ s.gw = c.gw
        /\ s.processed = c.processed /\ s.fresh = FALSE
    BY <1>1, StaleIsSound
  <2>2. CASE call'[q] = c
    BY <2>2
  <2>3. CASE call'[q] = s
    <3> HIDE DEF c, s
    <3> QED BY <2>1, <2>3 DEF c
  <2> QED BY <2>2, <2>3
<1>3. call[q].pc = "facts" => call[q].ref \in Refs /\ call[q].gw # NoGw
  BY <1>1, RefundIdsDistinct DEF Sound, KnowsGateway
<1>4. Heading(call[q], refund) => Heading(call'[q], refund')
  BY <1>2, <1>3 DEF Heading, Onward
<1>5. /\ HeadingForRide(call[q]) => HeadingForRide(call'[q])
      /\ \A n : MovesRide(call[q], n) => MovesRide(call'[q], n)
      /\ Writes(call'[q]) => call'[q] = call[q] /\ Writes(call[q])
  BY <1>2 DEF HeadingForRide, MovesRide, Writes
<1> QED BY <1>4, <1>5

\* The totals of the refunds do not move.
SameSums == /\ Total({"PROCESSED"})' = Total({"PROCESSED"})
            /\ Total(UNSETTLED)' = Total(UNSETTLED)

LEMMA BillKept ==
  ASSUME IInv, Onward(refund, refund', gateway, gateway'), NEW p \in Calls, Others(p),
         failures' = failures, ~Writes(call'[p]),
         \/ Heading(call'[p], refund')
         \/ bill' = bill /\ SameSums /\ ~Heading(call[p], refund)
  PROVE  BillFollows'
<1> SUFFICES ASSUME failures = 0
             PROVE  /\ TotalsRight' \/ \E q \in Calls : Heading(call'[q], refund')
                    /\ \A q \in Calls : Writes(call'[q]) =>
                         \/ /\ call'[q].processed = Total({"PROCESSED"})'
                            /\ call'[q].pending = Total(UNSETTLED)'
                         \/ \E s \in Calls \ {q} : Heading(call'[s], refund')
  BY DEF BillFollows, Writes, Heading
<1>1. BillFollows
  BY DEF IInv
<1>2. \A q \in Calls \ {p} : /\ Heading(call[q], refund) => Heading(call'[q], refund')
                             /\ Writes(call'[q]) => call'[q] = call[q] /\ Writes(call[q])
  BY HeadingStays DEF Others
<1>3. CASE Heading(call'[p], refund')
  BY <1>3
<1>4. CASE bill' = bill /\ SameSums /\ ~Heading(call[p], refund)
  <2>1. TotalsRight => TotalsRight'
    BY <1>4 DEF TotalsRight, SameSums
  <2>2. TotalsRight' \/ \E q \in Calls : Heading(call'[q], refund')
    BY <1>1, <1>2, <1>4, <2>1 DEF BillFollows
  <2>3. ASSUME NEW q \in Calls, Writes(call'[q])
        PROVE  \/ /\ call'[q].processed = Total({"PROCESSED"})'
                  /\ call'[q].pending = Total(UNSETTLED)'
               \/ \E s \in Calls \ {q} : Heading(call'[s], refund')
    <3>1. q # p /\ call'[q] = call[q] /\ Writes(call[q])
      BY <1>2, <2>3
    <3>2. \/ call[q].processed = Total({"PROCESSED"}) /\ call[q].pending = Total(UNSETTLED)
          \/ \E s \in Calls \ {q} : Heading(call[s], refund)
      BY <1>1, <3>1 DEF BillFollows
    <3>3. CASE call[q].processed = Total({"PROCESSED"}) /\ call[q].pending = Total(UNSETTLED)
      BY <1>4, <3>1, <3>3 DEF SameSums
    <3>4. CASE \E s \in Calls \ {q} : Heading(call[s], refund)
      BY <1>2, <1>4, <3>4
    <3> QED BY <3>2, <3>3, <3>4
  <2> QED BY <2>2, <2>3
<1> QED BY <1>3, <1>4

LEMMA RideKept ==
  ASSUME IInv, Onward(refund, refund', gateway, gateway'), NEW p \in Calls, Others(p),
         failures' = failures, ~Writes(call'[p]), earning => earning',
         ride'.status = ride.status \/ ride.status = "PENDING",
         \/ HeadingForRide(call'[p])
         \/ /\ Total({"PROCESSED"})' = Total({"PROCESSED"})
            /\ ~HeadingForRide(call[p]) /\ call[p].pc # "ride"
  PROVE  RideFollows'
<1> DEFINE n == Total({"PROCESSED"})
<1> SUFFICES ASSUME failures = 0
             PROVE  /\ earning' /\ ride'.status # "PENDING"
                    /\ \/ ride'.status = RideFor(n')
                       \/ \E q \in Calls : HeadingForRide(call'[q]) \/ MovesRide(call'[q], n')
                    /\ \A q \in Calls : Writes(call'[q]) =>
                         \/ call'[q].processed = n'
                         \/ \E s \in Calls \ {q} : HeadingForRide(call'[s])
  BY DEF RideFollows, Writes, HeadingForRide, MovesRide, RideFor, StatusFor
<1>1. RideFollows
  BY DEF IInv
<1>2. \A q \in Calls \ {p} : /\ HeadingForRide(call[q]) => HeadingForRide(call'[q])
                             /\ \A m : MovesRide(call[q], m) => MovesRide(call'[q], m)
                             /\ Writes(call'[q]) => call'[q] = call[q] /\ Writes(call[q])
  BY HeadingStays DEF Others
<1>3. earning' /\ ride'.status # "PENDING" /\ ride'.status = ride.status
  BY <1>1 DEF RideFollows
<1>4. CASE HeadingForRide(call'[p])
  BY <1>3, <1>4
<1>5. CASE n' = n /\ ~HeadingForRide(call[p]) /\ call[p].pc # "ride"
  <2>1. ~MovesRide(call[p], n)
    BY <1>5 DEF MovesRide
  <2>2. \/ ride.status = RideFor(n)
        \/ \E q \in Calls : HeadingForRide(call[q]) \/ MovesRide(call[q], n)
    BY <1>1 DEF RideFollows
  <2>3. ASSUME NEW q \in Calls, Writes(call'[q])
        PROVE  call'[q].processed = n' \/ \E s \in Calls \ {q} : HeadingForRide(call'[s])
    <3>1. q # p /\ call'[q] = call[q] /\ Writes(call[q])
      BY <1>2, <2>3
    <3>2. call[q].processed = n \/ \E s \in Calls \ {q} : HeadingForRide(call[s])
      BY <1>1, <3>1 DEF RideFollows
    <3> HIDE DEF n
    <3> QED BY <1>2, <1>5, <3>1, <3>2
  <2> HIDE DEF n
  <2> QED BY <1>2, <1>3, <1>5, <2>1, <2>2, <2>3
<1> QED BY <1>4, <1>5

-----------------------------------------------------------------------------
(* Steps that only move a call.                                            *)

\* A call that becomes d.
LEMMA Becoming ==
  ASSUME IInv, NEW p \in Calls, NEW d, Become(p, d)
  PROVE  call'[p] = d /\ Others(p) /\ call' = [q \in Calls |-> call'[q]]
  BY DEF IInv, Handlers, CallsSound, Become, Others

LEMMA LockKept ==
  ASSUME IInv, NEW p \in Calls, Others(p), HoldsIt(call'[p]) => HoldsIt(call[p]), locked' = locked
  PROVE  LockOK'
<1>1. \A q \in Calls : HoldsIt(call'[q]) => HoldsIt(call[q])
  BY OthersKeep
<1> QED BY <1>1 DEF IInv, LockOK, HoldsIt

LEMMA StandsStill ==
  ASSUME IInv, UNCHANGED <<refund, gateway>>
  PROVE  /\ Onward(refund, refund', gateway, gateway') /\ Sent /\ SameSums
         /\ Total({"PROCESSED"}) <= Total({"PROCESSED"})' /\ Asked' = Asked
<1>1. SameSums /\ Asked' = Asked
  BY Sums DEF SameSums
<1>2. Total({"PROCESSED"}) \in Nat
  <2>1. refund \in Docs /\ Refs \in SUBSET Refs
    BY DEF IInv, TypeOK, Docs
  <2>2. SumOf(refund, Refs, {"PROCESSED"}) \in Nat
    BY <2>1, SumOfIsNatural
  <2> QED BY <2>2, Sums
<1>3. Onward(refund, refund', gateway, gateway') /\ Sent
  BY DEF Onward, Sent
<1> QED BY <1>1, <1>2, <1>3 DEF SameSums

LEMMA QuietHandlers ==
  ASSUME IInv, TypeOK', NEW p \in Calls, call' = [q \in Calls |-> call'[q]], Others(p),
         Pipeline(call'[p]) => Pipeline(call[p]) /\ call'[p].ref = call[p].ref,
         Sound(call'[p], View) \/ Sound(call'[p], View'), UNCHANGED <<refund, gateway, aged>>
  PROVE  Handlers'
<1>1. Starts(p) /\ Onward(refund, refund', gateway, gateway') /\ Sent
      /\ Total({"PROCESSED"}) <= Total({"PROCESSED"})'
  BY StandsStill DEF Starts
<1>2. Forward(View, View')
  BY <1>1, Senders, ForwardHolds
<1>3. ASSUME NEW c, Sound(c, View)
      PROVE  Undisturbed(c, View, View')
  <2>1. View'.asked = View.asked /\ View'.old = View.old /\ View'.razorpay = View.razorpay
        /\ View.asked \in Nat
    BY ViewIs, StandsStill, ViewIsOne DEF Views, IInv
  <2> QED BY <1>3, <2>1 DEF Undisturbed, Sound, KnowsRefund
<1>4. Sound(call'[p], View')
  BY <1>2, <1>3, SoundForward
<1>5. \A q \in Calls : Undisturbed(call[q], View, View')
  BY <1>3, CallFacts
<1> QED BY <1>1, <1>2, <1>4, <1>5, HandlersKept

LEMMA DocumentsKept ==
  ASSUME IInv, UNCHANGED <<refund, gateway, adjustments>>
  PROVE  Documents'
<1>1. Documents
  BY DEF IInv
<1>2. DocsFit'
  BY <1>1 DEF Documents, DocsFit, Returned, Exists
<1>3. GatewayFits'
  BY <1>1, Sums DEF Documents, GatewayFits, Exists
<1>4. SentOnce' /\ OneEntryEach' /\ RequestsFit'
  BY <1>1 DEF Documents, SentOnce, OneEntryEach, BookedOnce, ClawedBackOnce, RequestsFit, Amounts
<1> QED BY <1>2, <1>3, <1>4 DEF Documents

\* The handler goes on with its part of the books, or it is none of its business.
GoesOn(c, d) == /\ ~Writes(d)
                /\ Heading(d, refund) \/ ~Heading(c, refund)
                /\ HeadingForRide(d) \/ (~HeadingForRide(c) /\ c.pc # "ride")

\* The lock is what the step makes of it, the call is another one.
LEMMA CallMoves ==
  ASSUME IInv, NEW p \in Calls, NEW d, Become(p, d), Sound(d, View) \/ Sound(d, View'),
         Pipeline(d) => Pipeline(call[p]) /\ d.ref = call[p].ref,
         UNCHANGED <<bill, refund, adjustments, aged, gateway>>,
         locked' \in BOOLEAN, LockOK', earning' \in BOOLEAN, earning => earning',
         ride' = ride \/ (ride.status = "PENDING" /\ ride' = [ride EXCEPT !.status = "SUCCESS"]),
         \/ failures' = failures /\ GoesOn(call[p], d)
         \/ failures < MaxFailures /\ failures' = failures + 1
  PROVE  IInv'
<1>1. call'[p] = d /\ Others(p) /\ call' = [q \in Calls |-> call'[q]]
  BY Becoming
<1>0. ride' \in RidePaymentSummary /\ (ride'.status = ride.status \/ ride.status = "PENDING")
      /\ ride'.status \in {ride.status, "SUCCESS"}
  BY DEF IInv, TypeOK, RidePaymentSummary
<1>2. TypeOK'
  BY <1>0, AmountsAreNatural DEF IInv, TypeOK
<1>3. Handlers'
  BY <1>1, <1>2, QuietHandlers
<1>4. Documents'
  BY DocumentsKept
<1>5. SameSums /\ Onward(refund, refund', gateway, gateway')
  BY StandsStill
<1>6. RideBehind'
  BY <1>0, <1>5 DEF IInv, RideBehind, SameSums
<1>7. BillFollows' /\ RideFollows'
  <2>1. CASE failures' = failures /\ GoesOn(call[p], d)
    <3>1. BillFollows'
      BY <1>1, <1>5, <2>1, BillKept DEF GoesOn
    <3>2. RideFollows'
      BY <1>0, <1>1, <1>5, <2>1, RideKept DEF GoesOn, SameSums
    <3> QED BY <3>1, <3>2
  <2>2. CASE failures' = failures + 1
    <3>1. failures' # 0
      BY <2>2 DEF IInv, TypeOK
    <3> QED BY <3>1 DEF BillFollows, RideFollows
  <2> QED BY <2>1, <2>2
<1> QED BY <1>2, <1>3, <1>4, <1>6, <1>7 DEF IInv

LEMMA OnlyCall ==
  ASSUME IInv, NEW p \in Calls, NEW d, Become(p, d), Sound(d, View) \/ Sound(d, View'),
         Pipeline(d) => Pipeline(call[p]) /\ d.ref = call[p].ref,
         HoldsIt(d) => HoldsIt(call[p]),
         UNCHANGED <<money, aged, gateway>>,
         \/ failures' = failures /\ GoesOn(call[p], d)
         \/ failures < MaxFailures /\ failures' = failures + 1
  PROVE  IInv'
<1>1. call'[p] = d /\ Others(p)
  BY Becoming
<1>2. UNCHANGED <<bill, ride, earning, refund, adjustments, aged, gateway>> /\ locked' = locked
  BY DEF money
<1>3. LockOK'
  BY <1>1, <1>2, LockKept
<1>4. locked' \in BOOLEAN /\ earning' \in BOOLEAN
  BY <1>2 DEF IInv, TypeOK
<1> QED BY <1>2, <1>3, <1>4, CallMoves

-----------------------------------------------------------------------------
(* How a call goes on.                                                     *)

LEMMA IdleIs ==
  /\ Idle \in CallType /\ Idle.pc = "idle" /\ Idle.ref = NoRefund /\ Idle.fresh = FALSE
  /\ Idle.processed = 0 /\ Idle.after = "done" /\ Idle.due = "nothing" /\ Idle.syncs = "no"
  /\ ~Pipeline(Idle) /\ ~HoldsIt(Idle) /\ ~Writes(Idle)
  /\ \A v : Views(v) => Sound(Idle, v)
<1>1. /\ Idle \in CallType /\ Idle.pc = "idle" /\ Idle.ref = NoRefund /\ Idle.fresh = FALSE
      /\ Idle.processed = 0 /\ Idle.after = "done" /\ Idle.due = "nothing" /\ Idle.syncs = "no"
  BY DEF Idle, CallType, Pc, Unadjusted
<1>2. ASSUME NEW v, Views(v)
      PROVE  Sound(Idle, v)
  BY <1>1, <1>2 DEF Sound, KnowsGateway, KnowsRefund, KnowsSums, KnowsList, Pipeline, Views
<1> QED BY <1>1, <1>2 DEF Pipeline, HoldsIt, Writes

\* The labels of a call that has left the refund and its totals.
Leaving == {"idle", "next", "abandon", "mark", "clawFind"}

LEMMA DoneIsSound ==
  ASSUME NEW c \in CallType, NEW v, Views(v), KnowsList(c, v), c.pc # "facts"
  PROVE  /\ Sound(Done(c), v) /\ Done(c).pc \in {"idle", "next", "abandon"}
         /\ Done(c).pc # "idle" => Done(c).syncs = Done(c).pc
<1>1. CASE c.syncs = "no"
  <2>1. Done(c) = Idle
    BY <1>1 DEF Done
  <2> QED BY <2>1, IdleIs
<1>2. CASE c.syncs # "no"
  <2> DEFINE e == [Idle EXCEPT !.pc = c.syncs, !.syncs = c.syncs, !.todo = c.todo]
  <2>1. Done(c) = e
    BY <1>2 DEF Done
  <2>2. /\ c.syncs \in {"next", "abandon"} /\ c.syncs \in Pc
        /\ c.todo \in SUBSET ((GwRefunds \X Saids) \cup Keys)
    BY <1>2 DEF CallType, Pc
  <2>3. /\ e \in CallType /\ e.pc = c.syncs /\ e.syncs = c.syncs /\ e.todo = c.todo
        /\ e.processed = 0 /\ e.after = "done" /\ e.due = "nothing"
    BY <2>2, IdleIs DEF CallType
  <2> HIDE DEF e
  <2>4. Sound(e, v)
    BY <2>2, <2>3 DEF Sound, KnowsGateway, KnowsRefund, KnowsSums, KnowsList, Pipeline, Views
  <2> QED BY <2>1, <2>2, <2>3, <2>4
<1> QED BY <1>1, <1>2

LEMMA LedgerStepIsSound ==
  ASSUME NEW c \in CallType, NEW v, Views(v), KnowsList(c, v), c.pc # "facts", c.ref \in Refs,
         c.due = "clawback" => Borne(v.docs[c.ref]), c.processed <= v.sum
  PROVE  Sound(LedgerStep(c), v) /\ LedgerStep(c).pc \in Leaving
<1>1. ASSUME NEW label \in {"mark", "clawFind"}, label = "clawFind" => c.due = "clawback"
      PROVE  LET e == [c EXCEPT !.pc = label] IN Sound(e, v) /\ e.pc \in Leaving
  <2> DEFINE e == [c EXCEPT !.pc = label]
  <2>1. /\ e \in CallType /\ e.pc = label /\ e.ref = c.ref /\ e.due = c.due /\ e.syncs = c.syncs
        /\ e.todo = c.todo /\ e.processed = c.processed /\ e.after = c.after
    BY DEF CallType, Pc
  <2> HIDE DEF e
  <2>2. Sound(e, v)
    BY <1>1, <2>1 DEF Sound, KnowsGateway, KnowsRefund, KnowsSums, KnowsList, Pipeline
  <2> QED BY <1>1, <2>1, <2>2 DEF e, Leaving
<1>2. CASE c.due = "mark"
  <2>1. LedgerStep(c) = [c EXCEPT !.pc = "mark"]
    BY <1>2 DEF LedgerStep
  <2> QED BY <1>1, <2>1
<1>3. CASE c.due = "clawback"
  <2>1. LedgerStep(c) = [c EXCEPT !.pc = "clawFind"]
    BY <1>3 DEF LedgerStep
  <2> QED BY <1>1, <1>3, <2>1
<1>4. CASE c.due = "nothing"
  <2>1. LedgerStep(c) = Done(c)
    BY <1>4 DEF LedgerStep
  <2> QED BY <2>1, DoneIsSound DEF Leaving
<1> QED BY <1>2, <1>3, <1>4 DEF CallType

LEMMA AfterTotalsIsSound ==
  ASSUME NEW c \in CallType, NEW v, Views(v), Sound(c, v), c.pc = "write", NEW known \in BOOLEAN
  PROVE  LET d == AfterTotals(c, known) IN
         /\ Sound(d, v) /\ d.pc \in Leaving \cup {"unlock", "ride"}
         /\ Pipeline(d) => Pipeline(c) /\ d.ref = c.ref
         /\ HoldsIt(d) => HoldsIt(c)
         /\ c.after = "ride" /\ known /\ c.processed > 0 =>
              d.pc = "ride" /\ d.processed = c.processed
<1> DEFINE d == AfterTotals(c, known)
<1>1. CASE c.after = "unlock"
  <2> DEFINE e == [c EXCEPT !.pc = "unlock", !.processed = 0, !.pending = 0]
  <2>1. d = e
    BY <1>1 DEF AfterTotals
  <2>2. /\ e \in CallType /\ e.pc = "unlock" /\ e.ref = c.ref /\ e.due = c.due /\ e.syncs = c.syncs
        /\ e.todo = c.todo /\ e.processed = 0 /\ e.after = c.after
    <3>1. "unlock" \in Pc
      BY DEF Pc
    <3> QED BY <3>1 DEF CallType
  <2> HIDE DEF e
  <2>3. Sound(e, v)
    <3>1. KnowsGateway(e, v) /\ KnowsSums(e, v)
      BY <2>2 DEF KnowsGateway, KnowsSums, Views
    <3>2. KnowsRefund(e, v) /\ KnowsList(e, v)
      BY <1>1, <2>2 DEF Sound, KnowsRefund, KnowsList, Pipeline
    <3> QED BY <2>2, <3>1, <3>2 DEF Sound
  <2>4. Pipeline(c) /\ HoldsIt(c)
    BY <1>1 DEF Pipeline, HoldsIt
  <2> HIDE DEF d
  <2>5. Sound(d, v) /\ d.pc = "unlock" /\ d.ref = c.ref
    BY <2>1, <2>2, <2>3
  <2> QED BY <1>1, <2>4, <2>5 DEF d
<1>2. CASE c.after = "ride" /\ known /\ c.processed > 0
  <2> DEFINE e == [c EXCEPT !.pc = "ride"]
  <2>1. d = e
    BY <1>2 DEF AfterTotals
  <2>2. /\ e \in CallType /\ e.pc = "ride" /\ e.ref = c.ref /\ e.due = c.due /\ e.syncs = c.syncs
        /\ e.todo = c.todo /\ e.processed = c.processed /\ e.after = c.after
    BY DEF CallType, Pc
  <2> HIDE DEF e
  <2>3. Sound(e, v)
    BY <1>2, <2>2 DEF Sound, KnowsGateway, KnowsRefund, KnowsSums, KnowsList, Pipeline, Views
  <2> HIDE DEF d
  <2>4. Sound(d, v) /\ d.pc = "ride" /\ d.processed = c.processed /\ ~Pipeline(d) /\ ~HoldsIt(d)
    BY <2>1, <2>2, <2>3 DEF Pipeline, HoldsIt
  <2> QED BY <1>2, <2>4 DEF d
<1>3. CASE c.after = "ride" /\ ~(known /\ c.processed > 0)
  <2>1. d = LedgerStep(c)
    BY <1>3 DEF AfterTotals
  <2>2. Sound(d, v) /\ d.pc \in Leaving
    <3>1. /\ KnowsList(c, v) /\ c.pc # "facts" /\ c.ref \in Refs
          /\ c.due = "clawback" => Borne(v.docs[c.ref])
          /\ c.processed <= v.sum
      BY <1>3 DEF Sound, KnowsRefund, KnowsSums
    <3> QED BY <2>1, <3>1, LedgerStepIsSound
  <2> HIDE DEF d
  <2>3. ~Pipeline(d) /\ ~HoldsIt(d)
    BY <2>2 DEF Pipeline, HoldsIt, Leaving
  <2> QED BY <1>3, <2>2, <2>3 DEF d
<1>4. CASE c.after = "done"
  <2>1. d = Idle
    BY <1>4 DEF AfterTotals
  <2> QED BY <1>4, <2>1, IdleIs DEF Leaving
<1> QED BY <1>1, <1>2, <1>3, <1>4 DEF CallType

-----------------------------------------------------------------------------
(* The request.                                                            *)

\* What the invariant gives every step.
LEMMA Basics ==
  ASSUME IInv
  PROVE  /\ Views(View) /\ refund \in Docs /\ gateway \in Razorpay /\ failures \in Nat
         /\ Documents /\ Handlers
  BY ViewIsOne DEF IInv, TypeOK, Docs, Razorpay

LEMMA RequestStep ==
  ASSUME IInv, NEW p \in Calls, NEW k \in Keys, Request(p, k)
  PROVE  IInv'
<1> DEFINE d == [Idle EXCEPT !.pc = "lock", !.ref = k]
<1>1. Become(p, d) /\ call[p].pc = "idle" /\ UNCHANGED <<money, aged, gateway>> /\ failures' = failures
  BY DEF Request, Running
<1>2. /\ d \in CallType /\ d.pc = "lock" /\ d.ref = k /\ d.processed = 0 /\ d.due = "nothing"
      /\ d.syncs = "no"
  <2>1. "lock" \in Pc /\ k \in Refs
    BY DEF Pc, Refs
  <2> QED BY <2>1, IdleIs DEF CallType
<1> HIDE DEF d
<1>3. Sound(d, View)
  BY <1>2, Basics DEF Sound, KnowsGateway, KnowsRefund, KnowsSums, KnowsList, Pipeline, Views
<1> QED BY <1>1, <1>2, <1>3, OnlyCall DEF Pipeline, HoldsIt, GoesOn, Heading, HeadingForRide, Writes

LEMMA FailStep ==
  ASSUME IInv, NEW p \in Calls, Fail(p)
  PROVE  IInv'
<1>1. Become(p, Idle) /\ UNCHANGED <<money, aged, gateway>> /\ failures < MaxFailures
      /\ failures' = failures + 1
  BY DEF Fail
<1>2. Sound(Idle, View)
  BY Basics, IdleIs
<1> QED BY <1>1, <1>2, IdleIs, OnlyCall

\* A handler that ends without having touched anything.
LEMMA EndStep ==
  ASSUME IInv, NEW p \in Calls, Become(p, Idle), UNCHANGED <<money, aged, gateway, failures>>,
         call[p].pc \notin {"facts", "move", "totals", "write", "ride"}
  PROVE  IInv'
<1>1. Sound(Idle, View)
  BY Basics, IdleIs
<1>2. GoesOn(call[p], Idle)
  BY IdleIs DEF GoesOn, Heading, HeadingForRide
<1> QED BY <1>1, <1>2, IdleIs, OnlyCall

LEMMA LockStep ==
  ASSUME IInv, NEW p \in Calls, Lock(p)
  PROVE  IInv'
<1> DEFINE c == call[p]
           d == [c EXCEPT !.pc = "reserve"]
<1>0. /\ c.pc = "lock" /\ UNCHANGED <<bill, ride, earning, refund, adjustments, aged, gateway>>
      /\ failures' = failures
  BY DEF Lock, Running
<1>1. CASE ~locked /\ locked' = TRUE /\ Goto(p, "reserve")
  <2>1. Become(p, d)
    BY <1>1 DEF Goto
  <2>2. c \in CallType /\ Sound(c, View)
    BY CallFacts
  <2>3. /\ d \in CallType /\ d.pc = "reserve" /\ d.ref = c.ref /\ d.processed = c.processed
        /\ d.due = c.due /\ d.syncs = c.syncs /\ d.todo = c.todo
    BY <2>2 DEF CallType, Pc
  <2>4. call'[p] = d /\ Others(p)
    BY <2>1, Becoming
  <2> HIDE DEF c, d
  <2>5. Sound(d, View)
    BY <1>0, <2>2, <2>3 DEF Sound, KnowsGateway, KnowsRefund, KnowsSums, KnowsList, Pipeline
  <2>6. LockOK'
    <3>1. \A q \in Calls : ~HoldsIt(call[q])
      BY <1>1 DEF IInv, LockOK
    <3>2. \A q \in Calls : HoldsIt(call'[q]) => q = p
      BY <2>4, <3>1, OthersKeep
    <3> QED BY <1>1, <3>2 DEF LockOK, HoldsIt
  <2>7. GoesOn(call[p], d)
    BY <1>0, <2>3 DEF c, GoesOn, Heading, HeadingForRide, Writes
  <2>8. ~Pipeline(d) /\ earning' \in BOOLEAN
    BY <1>0, <2>3 DEF Pipeline, IInv, TypeOK
  <2> QED BY <1>0, <1>1, <2>1, <2>5, <2>6, <2>7, <2>8, CallMoves
<1>2. CASE locked' = locked /\ Become(p, Idle)
  <2>1. UNCHANGED <<money, aged, gateway, failures>>
    BY <1>0, <1>2 DEF money
  <2> QED BY <1>0, <1>2, <2>1, EndStep
<1> QED BY <1>1, <1>2 DEF Lock, LockFree

\* A request that ends under the lock.
LEMMA ReleaseStep ==
  ASSUME IInv, NEW p \in Calls, Become(p, [Idle EXCEPT !.pc = "unlock"]), HoldsIt(call[p]),
         call[p].pc \in {"reserve", "insert"}, UNCHANGED <<money, aged, gateway, failures>>
  PROVE  IInv'
<1> DEFINE d == [Idle EXCEPT !.pc = "unlock"]
<1>1. /\ d \in CallType /\ d.pc = "unlock" /\ d.ref = NoRefund /\ d.processed = 0
      /\ d.due = "nothing" /\ d.syncs = "no"
  BY IdleIs DEF CallType, Pc
<1>2. Become(p, d) /\ UNCHANGED <<money, aged, gateway>> /\ failures' = failures
  OBVIOUS
<1> HIDE DEF d
<1>3. Sound(d, View)
  BY <1>1, Basics DEF Sound, KnowsGateway, KnowsRefund, KnowsSums, KnowsList, Pipeline, Views
<1>4. ~Pipeline(d) /\ GoesOn(call[p], d)
  BY <1>1 DEF Pipeline, GoesOn, Heading, HeadingForRide, Writes
<1> QED BY <1>2, <1>3, <1>4, OnlyCall

LEMMA ReserveStep ==
  ASSUME IInv, NEW p \in Calls, Reserve(p)
  PROVE  IInv'
<1> DEFINE c == call[p]
<1>0. c.pc = "reserve" /\ UNCHANGED <<money, aged, gateway, failures>>
  BY DEF Reserve, Running
<1>1. CASE Become(p, [c EXCEPT !.pc = "insert", !.reserved = Reserved])
  <2> DEFINE d == [c EXCEPT !.pc = "insert", !.reserved = Reserved]
  <2>1. c \in CallType /\ Sound(c, View)
    BY CallFacts
  <2>2. Reserved \in Nat /\ Asked <= Reserved
    <3>1. Keys \in SUBSET Refs /\ Refs \in SUBSET Refs
      BY DEF Refs
    <3>2. \A r \in Keys : r \in Refs /\ refund[r].amount <= refund[r].amount
      BY <3>1, Basics, AmountsAreNatural DEF Docs, RefundDoc
    <3> QED BY <3>1, <3>2, Basics, Sums, SumOfIsNatural, SumOfGrows DEF Reserved
  <2>3. /\ d \in CallType /\ d.pc = "insert" /\ d.ref = c.ref /\ d.processed = c.processed
        /\ d.due = c.due /\ d.syncs = c.syncs /\ d.todo = c.todo /\ d.reserved = Reserved
    <3>1. "insert" \in Pc
      BY DEF Pc
    <3> HIDE DEF c
    <3> QED BY <2>1, <2>2, <3>1 DEF CallType
  <2>4. Become(p, d)
    BY <1>1
  <2> HIDE DEF c, d
  <2>5. Sound(d, View)
    BY <1>0, <2>1, <2>2, <2>3, ViewIs
       DEF Sound, KnowsGateway, KnowsRefund, KnowsSums, KnowsList, Pipeline
  <2>6. GoesOn(call[p], d)
    BY <1>0, <2>3 DEF c, GoesOn, Heading, HeadingForRide, Writes
  <2>7. ~Pipeline(d) /\ HoldsIt(call[p])
    BY <1>0, <2>3 DEF Pipeline, HoldsIt, c
  <2> QED BY <1>0, <2>4, <2>5, <2>6, <2>7, OnlyCall
<1>2. CASE Become(p, [Idle EXCEPT !.pc = "unlock"])
  <2>1. HoldsIt(call[p]) /\ call[p].pc = "reserve"
    BY <1>0 DEF HoldsIt
  <2> QED BY <1>0, <1>2, <2>1, ReleaseStep
<1> QED BY <1>1, <1>2 DEF Reserve

LEMMA UnlockStep ==
  ASSUME IInv, NEW p \in Calls, Unlock(p)
  PROVE  IInv'
<1> DEFINE c == call[p]
           e == [Idle EXCEPT !.pc = "submit", !.ref = c.ref]
           d == IF c.ref = NoRefund THEN Idle ELSE e
<1>0. /\ c.pc = "unlock" /\ UNCHANGED <<bill, ride, earning, refund, adjustments, aged, gateway>>
      /\ failures' = failures /\ locked' = FALSE /\ Become(p, d)
  BY DEF Unlock, Running
<1>1. c \in CallType /\ Sound(c, View)
  BY CallFacts
<1>2. ASSUME c.ref # NoRefund
      PROVE  Sound(e, View) /\ e.pc = "submit" /\ e.ref = c.ref
  <2>1. /\ e \in CallType /\ e.pc = "submit" /\ e.ref = c.ref /\ e.processed = 0
        /\ e.due = "nothing" /\ e.syncs = "no"
    <3>1. c.ref \in Refs \cup {NoRefund}
      BY <1>1 DEF CallType
    <3>2. "submit" \in Pc
      BY DEF Pc
    <3> HIDE DEF c
    <3> QED BY <3>1, <3>2, IdleIs DEF CallType
  <2>2. Pipeline(c)
    BY <1>0, <1>2 DEF Pipeline
  <2> HIDE DEF c, e
  <2>3. KnowsRefund(e, View)
    BY <1>1, <2>1, <2>2 DEF Sound, KnowsRefund
  <2> QED BY <2>1, <2>3, Basics DEF Sound, KnowsGateway, KnowsSums, KnowsList, Views
<1>3. /\ Sound(d, View) /\ d.pc \in {"idle", "submit"}
      /\ Pipeline(d) => Pipeline(c) /\ d.ref = c.ref
  <2>1. CASE c.ref = NoRefund
    <3>1. d = Idle
      BY <2>1
    <3> HIDE DEF d
    <3> QED BY <3>1, Basics, IdleIs
  <2>2. CASE c.ref # NoRefund
    <3>1. d = e /\ Pipeline(c)
      BY <1>0, <2>2 DEF Pipeline
    <3> HIDE DEF d, e, c
    <3> QED BY <1>2, <2>2, <3>1
  <2> QED BY <2>1, <2>2
<1>4. call'[p] = d /\ Others(p)
  BY <1>0, Becoming
<1> HIDE DEF d, e
<1>5. LockOK'
  <2>1. HoldsIt(c)
    BY <1>0 DEF HoldsIt
  <2>2. \A q \in Calls \ {p} : ~HoldsIt(call[q])
    BY <2>1 DEF IInv, LockOK
  <2>3. \A q \in Calls : ~HoldsIt(call'[q])
    <3>1. ~HoldsIt(call'[p])
      BY <1>3, <1>4 DEF HoldsIt
    <3> QED BY <1>4, <2>2, <3>1, OthersKeep
  <2> QED BY <2>3 DEF LockOK, HoldsIt
<1>6. GoesOn(c, d)
  BY <1>0, <1>3 DEF GoesOn, Heading, HeadingForRide, Writes
<1>7. earning' \in BOOLEAN
  BY <1>0 DEF IInv, TypeOK
<1> QED BY <1>0, <1>3, <1>5, <1>6, <1>7, CallMoves

\* A refused request is dead: nobody else sends it, and Razorpay does not have it.
LEMMA SubmitRefusedStep ==
  ASSUME IInv, NEW p \in Calls, SubmitRefused(p)
  PROVE  IInv'
<1> DEFINE c == call[p]
           d == [Idle EXCEPT !.pc = "move", !.ref = c.ref, !.to = "FAILED"]
<1>0. c.pc = "submit" /\ UNCHANGED <<money, aged, gateway, failures>>
      /\ (Become(p, d) \/ Become(p, Idle))
  BY DEF SubmitRefused, Running
<1>1. CASE Become(p, d)
  <2>1. c \in CallType /\ Sound(c, View) /\ Pipeline(c)
    BY <1>0, CallFacts DEF Pipeline
  <2>2. PICK k \in Keys : /\ k = c.ref /\ Exists(refund[k])
                          /\ \A g \in GwRefunds : gateway[g].for # k
    BY <2>1, ViewIs DEF Sound, KnowsRefund
  <2>3. /\ d \in CallType /\ d.pc = "move" /\ d.ref = k /\ d.to = "FAILED" /\ d.processed = 0
        /\ d.due = "nothing" /\ d.syncs = "no"
    <3>1. c.ref \in Refs /\ c.ref = k
      BY <2>2 DEF Refs
    <3>2. "move" \in Pc /\ "FAILED" \in Targets
      BY DEF Pc, Targets
    <3> HIDE DEF c
    <3> QED BY <3>1, <3>2, IdleIs DEF CallType
  <2>4. call'[p] = d /\ Others(p)
    BY <1>1, Becoming
  <2> HIDE DEF d
  <2>5. ~Pipeline(d) /\ ~HoldsIt(d)
    BY <2>3 DEF Pipeline, HoldsIt
  <2>6. UNCHANGED <<refund, gateway, failures, aged>>
    BY <1>0 DEF money
  <2>7. \A q \in Calls : Pipeline(call'[q]) => call'[q].ref # k
    <3> SUFFICES ASSUME NEW q \in Calls, q # p, Pipeline(call'[q])
                 PROVE  call'[q].ref # k
      BY <2>4, <2>5
    <3>1. Pipeline(call[q]) /\ call'[q].ref = call[q].ref
      BY <2>4, OthersKeep
    <3> QED BY <2>1, <2>2, <3>1 DEF IInv, Handlers, OneSender
  <2>8. Dead(k)'
    BY <2>2, <2>6, <2>7 DEF Dead, Exists, Pipeline
  <2>9. k \in View'.dead /\ View'.docs = refund /\ View'.sum \in Nat
    <3>1. k \in Refs /\ View'.sum = Total({"PROCESSED"})
      BY <2>2, <2>6, ViewIs, StandsStill DEF Refs, SameSums
    <3>2. Total({"PROCESSED"}) \in Nat
      BY Basics, Sums, SumOfIsNatural
    <3> QED BY <2>6, <2>8, <3>1, <3>2, ViewIs
  <2> HIDE DEF c
  <2>10. Sound(d, View')
    <3>1. k \in Refs
      BY <2>2 DEF Refs
    <3>2. KnowsGateway(d, View')
      BY <2>2, <2>3, <2>9, <3>1 DEF KnowsGateway, Targets
    <3> QED BY <2>3, <2>5, <2>9, <3>2 DEF Sound, KnowsRefund, KnowsSums, KnowsList
  <2>11. GoesOn(c, d)
    BY <1>0, <2>3 DEF GoesOn, Heading, HeadingForRide, Writes
  <2> QED BY <1>0, <1>1, <2>5, <2>10, <2>11, OnlyCall DEF c
<1>2. CASE Become(p, Idle)
  BY <1>0, <1>2, EndStep
<1> QED BY <1>0, <1>1, <1>2

-----------------------------------------------------------------------------
(* Razorpay's news, and the reconciler.                                    *)

\* A call c looks for the record of Razorpay's refund g, of which said was heard.
LEMMA FoundIsSound ==
  ASSUME IInv, NEW c \in CallType, NEW g \in GwRefunds, NEW said \in Saids, Heard(g, said, View),
         c.processed <= View.sum, c.due = "nothing",
         c.syncs = "next" =>
           /\ \A item \in c.todo : item \in GwRefunds \X Saids /\ Heard(item[1], item[2], View)
           /\ \A h \in GwRefunds \ {g} : gateway[h].for \in aged =>
                refund[gateway[h].for].gw = h \/ \E heard \in Saids : <<h, heard>> \in c.todo,
         c.syncs # "abandon"
  PROVE  Sound(Found(c, g, said), View) /\ Found(c, g, said).pc \in {"facts", "external"}
<1>0. gateway[g].status # "none" /\ gateway[g].status \in {"pending", "processed", "failed"}
      /\ (said = "processed" => gateway[g].status = "processed")
      /\ (said = "failed" => gateway[g].status = "failed")
  BY ViewIs DEF Heard, Saids
<1>1. ASSUME NEW r \in Refs \cup {NoRefund}, NEW label \in {"facts", "external"},
             label = "facts" => r \in Refs /\ Matches(r, g, View),
             label = "external" => gateway[g].for = NoRefund,
             NEW d, d = [c EXCEPT !.pc = label, !.ref = r, !.gw = g, !.to = STATUS_FOR[said]]
      PROVE  Sound(d, View) /\ d.pc \in {"facts", "external"}
  <2> DEFINE to == STATUS_FOR[said]
             e == [c EXCEPT !.pc = label, !.ref = r, !.gw = g, !.to = to]
  <2>1. to \in Targets /\ (to = "PROCESSED" => said = "processed") /\ (to = "FAILED" => said = "failed")
    BY DEF STATUS_FOR, Saids, Targets
  <2> HIDE DEF to
  <2>2. /\ e \in CallType /\ e.pc = label /\ e.ref = r /\ e.gw = g /\ e.to = to
        /\ e.processed = c.processed /\ e.due = "nothing" /\ e.syncs = c.syncs /\ e.todo = c.todo
    <3>1. label \in Pc /\ to \in Targets \cup {"REQUESTED"} /\ g \in GwRefunds \cup {NoGw}
      BY <1>1, <2>1 DEF Pc
    <3> QED BY <3>1 DEF CallType
  <2>7. d = e
    BY <1>1 DEF to
  <2> HIDE DEF e
  <2>3. KnowsGateway(e, View)
    BY <1>0, <1>1, <2>1, <2>2, ViewIs DEF KnowsGateway
  <2>4. KnowsList(e, View)
    <3>1. c.syncs \in {"no", "next"}
      BY DEF CallType
    <3>2. CASE c.syncs = "next"
      <4>1. ASSUME NEW h \in GwRefunds, gateway[h].for \in aged
            PROVE  \/ refund[gateway[h].for].gw = h
                   \/ \E heard \in Saids : <<h, heard>> \in c.todo
                   \/ e.pc = "facts" /\ e.gw = h
        <5>1. CASE h # g
          BY <3>2, <4>1, <5>1
        <5>2. CASE h = g
          <6>1. gateway[g].for # NoRefund
            BY <4>1, <5>2, RefundIdsDistinct DEF IInv, TypeOK
          <6> QED BY <1>1, <2>2, <5>2, <6>1
        <5> QED BY <5>1, <5>2
      <4> QED BY <1>1, <2>2, <3>2, <4>1, ViewIs DEF KnowsList
    <3> QED BY <1>1, <2>2, <3>1, <3>2 DEF KnowsList
  <2>5. KnowsRefund(e, View) /\ KnowsSums(e, View)
    BY <1>1, <2>2, Basics DEF KnowsRefund, KnowsSums, Pipeline, Views
  <2>6. Sound(e, View) /\ e.pc \in {"facts", "external"}
    BY <2>2, <2>3, <2>4, <2>5, <1>1 DEF Sound
  <2> QED BY <2>6, <2>7
<1>2. CASE OwnersOf(g) # {}
  <2> DEFINE r == CHOOSE r \in OwnersOf(g) : TRUE
  <2>1. r \in OwnersOf(g)
    BY <1>2
  <2> HIDE DEF r
  <2>2. r \in Refs /\ refund[r].gw = g
    BY <2>1 DEF OwnersOf
  <2>3. Matches(r, g, View)
    BY <2>2, ViewIs, Basics, RefundIdsDistinct DEF Matches, Documents, DocsFit
  <2>4. Found(c, g, said) = [c EXCEPT !.pc = "facts", !.ref = r, !.gw = g, !.to = STATUS_FOR[said]]
    BY <1>2 DEF Found, Apply, r
  <2> QED BY <1>1, <2>2, <2>3, <2>4
<1>3. CASE OwnersOf(g) = {} /\ gateway[g].for # NoRefund
  <2> DEFINE r == gateway[g].for
  <2>1. r \in Keys /\ r \in Refs
    BY <1>3, Basics DEF Razorpay, RazorpayRefund, Refs
  <2>2. Matches(r, g, View)
    BY <2>1, ViewIs DEF Matches
  <2>3. Found(c, g, said) = [c EXCEPT !.pc = "facts", !.ref = r, !.gw = g, !.to = STATUS_FOR[said]]
    BY <1>3 DEF Found, Apply
  <2> HIDE DEF r
  <2> QED BY <1>1, <2>1, <2>2, <2>3
<1>4. CASE OwnersOf(g) = {} /\ gateway[g].for = NoRefund
  <2> DEFINE to == STATUS_FOR[said]
  <2>1. Found(c, g, said) = [[c EXCEPT !.pc = "facts", !.ref = NoRefund, !.gw = g, !.to = to]
                               EXCEPT !.pc = "external"]
    BY <1>4 DEF Found, Apply
  <2>2. [[c EXCEPT !.pc = "facts", !.ref = NoRefund, !.gw = g, !.to = to] EXCEPT !.pc = "external"]
          = [c EXCEPT !.pc = "external", !.ref = NoRefund, !.gw = g, !.to = to]
    <3> HIDE DEF to
    <3> QED BY DEF CallType
  <2>3. Found(c, g, said) = [c EXCEPT !.pc = "external", !.ref = NoRefund, !.gw = g, !.to = to]
    BY <2>1, <2>2
  <2>4. NoRefund \in Refs \cup {NoRefund} /\ "external" \in {"facts", "external"}
        /\ "external" # "facts"
    OBVIOUS
  <2> HIDE DEF to
  <2> QED BY <1>1, <1>4, <2>3, <2>4 DEF to
<1> QED BY <1>2, <1>3, <1>4

\* A handler that goes on outside the lock and the totals.
LEMMA GoOnStep ==
  ASSUME IInv, NEW p \in Calls, NEW d, Become(p, d), Sound(d, View),
         UNCHANGED <<money, aged, gateway>>, failures' = failures,
         d.pc \notin {"reserve", "insert", "unlock", "submit", "totals", "write"},
         call[p].pc \notin {"facts", "move", "totals", "write", "ride"}
  PROVE  IInv'
<1>1. ~Pipeline(d) /\ ~HoldsIt(d) /\ GoesOn(call[p], d)
  BY DEF Pipeline, HoldsIt, GoesOn, Heading, HeadingForRide, Writes
<1> QED BY <1>1, OnlyCall

LEMMA WebhookStep ==
  ASSUME IInv, NEW p \in Calls, NEW g \in GwRefunds, NEW said \in Saids, Webhook(p, g, said)
  PROVE  IInv'
<1> DEFINE d == Found(Idle, g, said)
<1>1. /\ Become(p, d) /\ call[p].pc = "idle" /\ UNCHANGED <<money, aged, gateway>>
      /\ failures' = failures /\ said \in Reported(g)
  BY DEF Webhook, Running
<1>2. Heard(g, said, View)
  BY <1>1, ViewIs DEF Heard, Reported
<1>3. Sound(d, View) /\ d.pc \in {"facts", "external"}
  <2>1. Idle.processed <= View.sum
    BY IdleIs, Basics DEF Views
  <2> QED BY <1>2, <2>1, IdleIs, FoundIsSound
<1> HIDE DEF d
<1> QED BY <1>1, <1>3, GoOnStep

\* What a refund's document says of Razorpay's refund is what applying it needs.
LEMMA ResolveStep ==
  ASSUME IInv, NEW p \in Calls, NEW r \in Refs, Resolve(p, r)
  PROVE  IInv'
<1> DEFINE g == refund[r].gw
           said == gateway[g].status
           to == STATUS_FOR[said]
           d == [Idle EXCEPT !.pc = "facts", !.ref = r, !.gw = g, !.to = to]
<1>1. /\ Become(p, d) /\ call[p].pc = "idle" /\ UNCHANGED <<money, aged, gateway>>
      /\ failures' = failures /\ g # NoGw
  BY DEF Resolve, Running, Apply
<1>2. g \in GwRefunds /\ said \in Saids /\ Matches(r, g, View)
  <2>1. g \in GwRefunds
    BY <1>1, Basics DEF Docs, RefundDoc
  <2>2. said # "none" /\ Matches(r, g, View)
    BY <1>1, Basics, ViewIs DEF Documents, DocsFit, Matches
  <2> QED BY <2>1, <2>2, Basics DEF Razorpay, RazorpayRefund, Saids
<1>3. to \in Targets /\ (to = "PROCESSED" => said = "processed") /\ (to = "FAILED" => said = "failed")
  BY <1>2 DEF STATUS_FOR, Saids, Targets
<1> HIDE DEF to
<1>4. /\ d \in CallType /\ d.pc = "facts" /\ d.ref = r /\ d.gw = g /\ d.to = to
      /\ d.processed = 0 /\ d.due = "nothing" /\ d.syncs = "no"
  <2>1. g \in GwRefunds \cup {NoGw} /\ to \in Targets \cup {"REQUESTED"}
    BY <1>2, <1>3
  <2>2. "facts" \in Pc
    BY DEF Pc
  <2> HIDE DEF g
  <2> QED BY <2>1, <2>2, IdleIs DEF CallType
<1> HIDE DEF d
<1>5. KnowsGateway(d, View)
  BY <1>2, <1>3, <1>4, ViewIs DEF KnowsGateway, Saids
<1>6. Sound(d, View)
  BY <1>4, <1>5, Basics DEF Sound, KnowsRefund, KnowsSums, KnowsList, Pipeline, Views
<1> QED BY <1>1, <1>4, <1>6, GoOnStep

LEMMA SyncStep ==
  ASSUME IInv, NEW p \in Calls, Sync(p)
  PROVE  IInv'
<1> DEFINE todo == {<<g, gateway[g].status>> : g \in {h \in GwRefunds : gateway[h].status # "none"}}
           d == [Idle EXCEPT !.pc = "next", !.syncs = "next", !.todo = todo]
<1>1. /\ Become(p, d) /\ call[p].pc = "idle" /\ UNCHANGED <<money, aged, gateway>>
      /\ failures' = failures
  BY DEF Sync, Running
<1>2. \A item \in todo : item \in GwRefunds \X Saids /\ Heard(item[1], item[2], View)
  <2> SUFFICES ASSUME NEW g \in GwRefunds, gateway[g].status # "none"
               PROVE  gateway[g].status \in Saids /\ Heard(g, gateway[g].status, View)
    OBVIOUS
  <2>1. gateway[g].status \in Saids
    BY Basics DEF Razorpay, RazorpayRefund, Saids
  <2> QED BY <2>1, ViewIs DEF Heard
<1>3. \A g \in GwRefunds : gateway[g].for \in aged => \E said \in Saids : <<g, said>> \in todo
  <2> SUFFICES ASSUME NEW g \in GwRefunds, gateway[g].for \in aged
               PROVE  gateway[g].status \in Saids /\ <<g, gateway[g].status>> \in todo
    OBVIOUS
  <2>1. gateway[g].for # NoRefund
    BY RefundIdsDistinct DEF IInv, TypeOK
  <2>2. gateway[g].status # "none"
    BY <2>1, Basics DEF Documents, GatewayFits
  <2> QED BY <2>2, Basics DEF Razorpay, RazorpayRefund, Saids
<1> HIDE DEF todo
<1>4. /\ d \in CallType /\ d.pc = "next" /\ d.todo = todo /\ d.processed = 0
      /\ d.due = "nothing" /\ d.syncs = "next"
  <2>1. todo \in SUBSET ((GwRefunds \X Saids) \cup Keys)
    BY <1>2
  <2>2. "next" \in Pc
    BY DEF Pc
  <2> QED BY <2>1, <2>2, IdleIs DEF CallType
<1> HIDE DEF d
<1>5. KnowsList(d, View)
  BY <1>2, <1>3, <1>4, ViewIs DEF KnowsList
<1>6. Sound(d, View)
  BY <1>4, <1>5, Basics DEF Sound, KnowsGateway, KnowsRefund, KnowsSums, Pipeline, Views
<1> QED BY <1>1, <1>4, <1>6, GoOnStep

\* A sync takes the next item of its list, or turns to the old requests that Razorpay
\* does not know: nobody sends those any more.
LEMMA SyncNextStep ==
  ASSUME IInv, NEW p \in Calls, SyncNext(p)
  PROVE  IInv'
<1> DEFINE c == call[p]
<1>1. /\ c.pc = "next" /\ UNCHANGED <<money, aged, gateway>> /\ failures' = failures
  BY DEF SyncNext, Running
<1>2. c \in CallType /\ Sound(c, View) /\ c.syncs = "next"
  BY <1>1, CallFacts DEF Sound, KnowsList
<1>3. /\ \A item \in c.todo : item \in GwRefunds \X Saids /\ Heard(item[1], item[2], View)
      /\ \A h \in GwRefunds : gateway[h].for \in aged =>
           refund[gateway[h].for].gw = h \/ \E heard \in Saids : <<h, heard>> \in c.todo
  BY <1>1, <1>2, ViewIs DEF Sound, KnowsList
<1>4. CASE c.todo = {} /\ Become(p, [c EXCEPT !.pc = "abandon", !.syncs = "abandon",
                                              !.todo = Abandonable])
  <2> DEFINE todo == Abandonable
             d == [c EXCEPT !.pc = "abandon", !.syncs = "abandon", !.todo = todo]
  <2>1. \A r \in todo : r \in Keys /\ r \in View.dead
    <3> SUFFICES ASSUME NEW r \in todo
                 PROVE  r \in Keys /\ Dead(r)
      BY ViewIs DEF Refs, Abandonable
    <3>1. r \in Keys /\ r \in aged /\ refund[r].status = "REQUESTED" /\ refund[r].gw = NoGw
      BY DEF Abandonable
    <3>2. \A g \in GwRefunds : gateway[g].for # r
      BY <1>3, <1>4, <3>1, RefundIdsDistinct
    <3>3. \A q \in Calls : Pipeline(call[q]) => call[q].ref # r
      BY <3>1 DEF IInv, Handlers, AgedIsIdle
    <3> QED BY <3>1, <3>2, <3>3 DEF Dead, Exists
  <2>2. Become(p, d)
    BY <1>4
  <2> HIDE DEF todo, c
  <2>3. /\ d \in CallType /\ d.pc = "abandon" /\ d.todo = todo /\ d.processed = c.processed
        /\ d.due = c.due /\ d.syncs = "abandon" /\ d.ref = c.ref
    <3>1. todo \in SUBSET ((GwRefunds \X Saids) \cup Keys)
      BY <2>1
    <3>2. "abandon" \in Pc /\ "abandon" \in {"no", "next", "abandon"}
      BY DEF Pc
    <3> QED BY <1>2, <3>1, <3>2 DEF CallType
  <2> HIDE DEF d
  <2>4. Sound(d, View)
    BY <1>1, <1>2, <2>1, <2>3 DEF Sound, KnowsGateway, KnowsRefund, KnowsSums, KnowsList, Pipeline
  <2>5. call[p].pc = "next"
    BY <1>1 DEF c
  <2> QED BY <1>1, <2>2, <2>3, <2>4, <2>5, GoOnStep
<1>5. ASSUME NEW item \in c.todo,
             Become(p, Found([c EXCEPT !.todo = c.todo \ {item}], item[1], item[2]))
      PROVE  IInv'
  <2> DEFINE todo == c.todo \ {item}
             e == [c EXCEPT !.todo = todo]
             d == Found(e, item[1], item[2])
  <2>1. PICK g \in GwRefunds, said \in Saids : item = <<g, said>> /\ Heard(g, said, View)
    BY <1>3, <1>5
  <2>2. Become(p, Found(e, g, said))
    BY <1>5, <2>1
  <2>3. todo \subseteq c.todo /\ \A h \in GwRefunds \ {g}, heard \in Saids :
          <<h, heard>> \in c.todo => <<h, heard>> \in todo
    BY <2>1
  <2> HIDE DEF todo
  <2>4. /\ e \in CallType /\ e.processed = c.processed /\ e.due = c.due /\ e.after = c.after
        /\ e.syncs = c.syncs /\ e.todo = todo
    BY <1>2, <2>3 DEF CallType
  <2>5. c.due = "nothing" /\ c.processed <= View.sum /\ call[p].pc = "next"
    BY <1>1, <1>2 DEF Sound, KnowsRefund, KnowsSums
  <2> HIDE DEF e, d, c
  <2>6. /\ \A it \in e.todo : it \in GwRefunds \X Saids /\ Heard(it[1], it[2], View)
        /\ \A h \in GwRefunds \ {g} : gateway[h].for \in aged =>
             refund[gateway[h].for].gw = h \/ \E heard \in Saids : <<h, heard>> \in e.todo
    BY <1>3, <2>3, <2>4
  <2>7. Sound(Found(e, g, said), View) /\ Found(e, g, said).pc \in {"facts", "external"}
    BY <1>2, <2>1, <2>4, <2>5, <2>6, FoundIsSound
  <2> QED BY <1>1, <2>2, <2>5, <2>7, GoOnStep
<1> QED BY <1>4, <1>5 DEF SyncNext

\* A sync gives up the old requests on its list, and then adds up the refunds.
LEMMA SyncAbandonStep ==
  ASSUME IInv, NEW p \in Calls, SyncAbandon(p)
  PROVE  IInv'
<1> DEFINE c == call[p]
<1>0. c.pc = "abandon" /\ UNCHANGED <<money, aged, gateway, failures>>
  BY Zenon DEF SyncAbandon, Running
<1>1. c.pc = "abandon" /\ UNCHANGED <<money, aged, gateway>> /\ failures' = failures
  BY <1>0
<1>2. /\ c \in CallType /\ Sound(c, View) /\ c.syncs = "abandon" /\ c.due = "nothing"
      /\ c.processed <= View.sum /\ c.todo \subseteq Keys /\ c.todo \subseteq View.dead
  BY <1>1, CallFacts DEF Sound, KnowsRefund, KnowsList, KnowsSums
<1>3. ASSUME NEW r \in c.todo,
             Become(p, [c EXCEPT !.pc = "move", !.ref = r, !.to = "FAILED", !.todo = c.todo \ {r}])
      PROVE  IInv'
  <2> DEFINE todo == c.todo \ {r}
             d == [c EXCEPT !.pc = "move", !.ref = r, !.to = "FAILED", !.todo = todo]
  <2>1. /\ todo \in SUBSET ((GwRefunds \X Saids) \cup Keys) /\ todo \subseteq Keys \cap View.dead
        /\ r \in Keys /\ r \in View.dead /\ r \in Refs
    BY <1>2, <1>3 DEF Refs
  <2>2. Become(p, d)
    BY <1>3
  <2> HIDE DEF todo, c
  <2>3. /\ d \in CallType /\ d.pc = "move" /\ d.ref = r /\ d.to = "FAILED" /\ d.todo = todo
        /\ d.processed = c.processed /\ d.due = c.due /\ d.syncs = c.syncs
    <3>1. "move" \in Pc /\ "FAILED" \in Targets \cup {"REQUESTED"}
      BY DEF Pc, Targets
    <3> QED BY <1>2, <2>1, <3>1 DEF CallType
  <2> HIDE DEF d
  <2>4. Exists(refund[r])
    BY <2>1, ViewIs DEF Dead
  <2>5. KnowsGateway(d, View)
    BY <2>1, <2>3, <2>4, ViewIs DEF KnowsGateway, Targets
  <2>6. Sound(d, View)
    BY <1>2, <2>1, <2>3, <2>5 DEF Sound, KnowsRefund, KnowsSums, KnowsList, Pipeline
  <2>7. call[p].pc = "abandon"
    BY <1>1 DEF c
  <2> QED BY <1>1, <2>2, <2>3, <2>6, <2>7, GoOnStep
<1>4. CASE Become(p, [Idle EXCEPT !.pc = "totals"])
  <2> DEFINE d == [Idle EXCEPT !.pc = "totals"]
  <2>1. Become(p, d)
    BY <1>4
  <2>2. /\ d \in CallType /\ d.pc = "totals" /\ d.after = "done" /\ d.processed = 0
        /\ d.due = "nothing" /\ d.syncs = "no"
    BY IdleIs DEF CallType, Pc
  <2> HIDE DEF d
  <2>3. Sound(d, View)
    BY <2>2, Basics DEF Sound, KnowsGateway, KnowsRefund, KnowsSums, KnowsList, Pipeline, Views
  <2>4. ~Pipeline(d) /\ ~HoldsIt(d) /\ GoesOn(call[p], d)
    BY <1>1, <2>2 DEF Pipeline, HoldsIt, GoesOn, Heading, HeadingForRide, Writes
  <2> HIDE DEF c
  <2> QED BY <1>1, <2>1, <2>3, <2>4, OnlyCall
<1> QED BY Zenon, <1>3, <1>4 DEF SyncAbandon

-----------------------------------------------------------------------------
(* The ledger.                                                             *)

\* A handler that goes on to another label of the ledger's work on its refund.
LEMMA RelabelledIsSound ==
  ASSUME NEW c \in CallType, NEW v, Sound(c, v), NEW label \in {"mark", "clawSum", "record"},
         c.pc \in {"clawFind", "clawSum"},
         NEW d, d = [c EXCEPT !.pc = label]
  PROVE  Sound(d, v) /\ d.pc = label
<1>1. label \in Pc
  BY DEF Pc
<1>2. /\ d \in CallType /\ d.pc = label /\ d.ref = c.ref /\ d.due = c.due /\ d.syncs = c.syncs
      /\ d.todo = c.todo /\ d.processed = c.processed
  BY <1>1 DEF CallType
<1>3. c.ref \in Refs /\ Borne(v.docs[c.ref])
  BY DEF Sound, KnowsRefund
<1> QED BY <1>2, <1>3 DEF Sound, KnowsGateway, KnowsRefund, KnowsSums, KnowsList, Pipeline

LEMMA FindAdjustmentStep ==
  ASSUME IInv, NEW p \in Calls, FindAdjustment(p)
  PROVE  IInv'
<1> DEFINE c == call[p]
<1>1. /\ call[p].pc = "clawFind" /\ UNCHANGED <<money, aged, gateway>> /\ failures' = failures
  BY DEF FindAdjustment, Running
<1>2. c \in CallType /\ Sound(c, View)
  BY CallFacts
<1>3. ASSUME NEW label \in {"clawSum", "record"}, Goto(p, label)
      PROVE  IInv'
  <2> DEFINE d == [c EXCEPT !.pc = label]
  <2>1. Become(p, d)
    BY <1>3 DEF Goto
  <2>2. c.pc = "clawFind"
    BY <1>1
  <2> HIDE DEF c
  <2>3. Sound(d, View) /\ d.pc = label
    BY <1>2, <2>2, RelabelledIsSound
  <2> HIDE DEF d
  <2> QED BY <1>1, <2>1, <2>3, GoOnStep
<1>4. CASE Finish(p)
  <2>1. Become(p, Done(c)) /\ KnowsList(c, View) /\ c.pc # "facts"
    BY <1>1, <1>2, <1>4 DEF Finish, Sound
  <2>2. Sound(Done(c), View) /\ Done(c).pc \in {"idle", "next", "abandon"}
    BY <1>2, <2>1, Basics, DoneIsSound
  <2> QED BY <1>1, <2>1, <2>2, GoOnStep
<1> QED BY <1>3, <1>4 DEF FindAdjustment

\* The sums of a ledger's lines.
LEMMA RecordedIsNatural ==
  ASSUME IInv, NEW field \in {"refund", "gross", "commission"}
  PROVE  Recorded(field) \in Nat
<1> DEFINE S == DOMAIN adjustments
           f == [i \in S |-> adjustments[i][field]]
<1>1. adjustments \in Seq(DriverEarningAdjustment)
  BY DEF IInv, TypeOK
<1>2. S = 1..Len(adjustments) /\ Len(adjustments) \in Nat
  BY <1>1
<1>3. IsFiniteSet(S)
  BY <1>2, FS_Interval
<1>4. ASSUME NEW i \in S
      PROVE  f[i] \in Nat
  <2>1. adjustments[i] \in DriverEarningAdjustment
    BY <1>1, <1>2
  <2> QED BY <2>1, AmountsAreNatural DEF DriverEarningAdjustment
<1>5. NatOn(f, S)
  BY <1>4 DEF NatOn
<1>6. Recorded(field) = SumFunctionOnSet(f, S)
  <2>1. DOMAIN f = S
    OBVIOUS
  <2>2. Recorded(field) = SumFunction(f)
    BY DEF Recorded
  <2> HIDE DEF f, S
  <2> QED BY <2>1, <2>2 DEF SumFunction
<1> HIDE DEF f, S
<1> QED BY <1>3, <1>5, <1>6, SumIsNatural

\* Whatever was reversed before, a reversal is a natural number.
LEMMA ReversalIsNatural ==
  ASSUME NEW recorded \in Nat, NEW reversed \in Nat, NEW paid \in Nat \ {0}, NEW part \in Nat,
         NEW full \in BOOLEAN
  PROVE  Reversal(recorded, reversed, paid, part, full) \in Nat
<1>1. Share(recorded, part, paid) \in Nat
  BY ShareIsNatural
<1> QED BY <1>1 DEF Reversal, Remaining, Lesser, AtLeastZero

LEMMA ClawbackIsNatural ==
  ASSUME NEW part \in Nat, NEW previous,
         previous \in [refunds : Nat, gross : Nat, commission : Nat]
  PROVE  RefundClawback(Earning, Paid, part, previous)
           \in [gross : Nat, commission : Nat, amount : Nat]
<1> DEFINE full == FullyRefunded(Paid, part, previous)
           g == Reversal(Earning.gross, previous.gross, Paid, part, full)
           k == Reversal(Earning.commission, previous.commission, Paid, part, full)
<1>1. /\ full \in BOOLEAN /\ Paid \in Nat \ {0}
      /\ Earning.gross \in Nat /\ Earning.commission \in Nat
      /\ previous.gross \in Nat /\ previous.commission \in Nat
  BY AmountsAreNatural DEF FullyRefunded
<1>2. g \in Nat /\ k \in Nat
  BY <1>1, ReversalIsNatural
<1>3. RefundClawback(Earning, Paid, part, previous)
        = [gross |-> g, commission |-> k, amount |-> AtLeastZero(g - k)]
  BY DEF RefundClawback
<1> HIDE DEF g, k
<1>4. AtLeastZero(g - k) \in Nat
  BY <1>2 DEF AtLeastZero
<1> QED BY <1>2, <1>3, <1>4

LEMMA SumAdjustmentsStep ==
  ASSUME IInv, NEW p \in Calls, SumAdjustments(p)
  PROVE  IInv'
<1> DEFINE c == call[p]
           previous == [refunds |-> Recorded("refund"), gross |-> Recorded("gross"),
                        commission |-> Recorded("commission")]
           reversal == RefundClawback(Earning, Paid, refund[c.ref].amount, previous)
<1>1. /\ call[p].pc = "clawSum" /\ UNCHANGED <<money, aged, gateway>> /\ failures' = failures
      /\ \/ Become(p, [c EXCEPT !.pc = "mark"])
         \/ Become(p, [c EXCEPT !.pc = "clawInsert", !.reversal = reversal])
  BY DEF SumAdjustments, Running
<1>2. /\ c \in CallType /\ Sound(c, View) /\ c.ref \in Refs /\ Borne(View.docs[c.ref])
      /\ c.processed <= View.sum
  BY <1>1, CallFacts DEF Sound, KnowsRefund, KnowsSums
<1>3. reversal \in [gross : Nat, commission : Nat, amount : Nat]
  <2>1. previous \in [refunds : Nat, gross : Nat, commission : Nat]
    BY RecordedIsNatural
  <2>2. refund[c.ref].amount \in Nat
    BY <1>2, Basics, AmountsAreNatural DEF Docs, RefundDoc
  <2> HIDE DEF previous
  <2> QED BY <2>1, <2>2, ClawbackIsNatural
<1> HIDE DEF reversal
<1>4. CASE Become(p, [c EXCEPT !.pc = "mark"])
  <2> DEFINE d == [c EXCEPT !.pc = "mark"]
  <2>1. Become(p, d) /\ c.pc = "clawSum"
    BY <1>1, <1>4
  <2> HIDE DEF c
  <2>2. Sound(d, View) /\ d.pc = "mark"
    BY <1>2, <2>1, RelabelledIsSound
  <2> HIDE DEF d
  <2> QED BY <1>1, <2>1, <2>2, GoOnStep
<1>5. CASE Become(p, [c EXCEPT !.pc = "clawInsert", !.reversal = reversal])
  <2> DEFINE d == [c EXCEPT !.pc = "clawInsert", !.reversal = reversal]
  <2>1. Become(p, d) /\ c.pc = "clawSum"
    BY <1>1, <1>5
  <2> HIDE DEF c
  <2>2. /\ d \in CallType /\ d.pc = "clawInsert" /\ d.ref = c.ref /\ d.due = c.due
        /\ d.syncs = c.syncs /\ d.todo = c.todo /\ d.processed = c.processed
    <3>1. "clawInsert" \in Pc
      BY DEF Pc
    <3> QED BY <1>2, <1>3, <3>1 DEF CallType
  <2> HIDE DEF d
  <2>3. Sound(d, View)
    BY <1>2, <2>1, <2>2 DEF Sound, KnowsGateway, KnowsRefund, KnowsSums, KnowsList, Pipeline
  <2> QED BY <1>1, <2>1, <2>2, <2>3, GoOnStep
<1> QED BY <1>1, <1>4, <1>5

\* What applyLedger has to do for a document.
LEMMA DueIs ==
  ASSUME NEW doc \in RefundDoc
  PROVE  /\ Due(doc) \in {"nothing", "mark", "clawback"}
         /\ Due(doc) = "clawback" => Borne(doc)
<1>1. doc.impact \in {"PROPORTIONAL", "NONE"} /\ doc.review \in BOOLEAN
  BY DEF RefundDoc
<1>2. CASE doc.review
  BY <1>2 DEF Due
<1>3. CASE ~doc.review /\ doc.status = "PROCESSED" /\ doc.ledger = "PENDING" /\ doc.impact = "NONE"
  BY <1>3 DEF Due, DueIfUnreviewed
<1>4. CASE ~doc.review /\ doc.status = "PROCESSED" /\ doc.ledger = "PENDING" /\ doc.impact # "NONE"
  BY <1>1, <1>4 DEF Due, DueIfUnreviewed, Borne
<1>5. CASE ~doc.review /\ ~(doc.status = "PROCESSED" /\ doc.ledger = "PENDING")
  BY <1>5 DEF Due, DueIfUnreviewed
<1> QED BY <1>2, <1>3, <1>4, <1>5

\* A handler that starts with the ledger of refund r.
Starter(r, due) == [Idle EXCEPT !.ref = r, !.due = due]
LEMMA LedgerStart ==
  ASSUME NEW v, Views(v), NEW r \in Refs, NEW due, due = Due(v.docs[r])
  PROVE  Sound(LedgerStep(Starter(r, due)), v) /\ LedgerStep(Starter(r, due)).pc \in Leaving
<1> DEFINE c == Starter(r, due)
<1>1. due \in {"nothing", "mark", "clawback"} /\ (due = "clawback" => Borne(v.docs[r]))
  <2>1. v.docs[r] \in RefundDoc
    BY DEF Views, Docs
  <2> QED BY <2>1, DueIs
<1>2. /\ c \in CallType /\ c.pc = "idle" /\ c.ref = r /\ c.due = due /\ c.processed = 0
      /\ c.syncs = "no"
  BY <1>1, IdleIs DEF CallType, Starter
<1> HIDE DEF c
<1>3. KnowsList(c, v)
  BY <1>2 DEF KnowsList
<1>4. Sound(LedgerStep(c), v) /\ LedgerStep(c).pc \in Leaving
  BY <1>1, <1>2, <1>3, LedgerStepIsSound DEF Views
<1> QED BY <1>4 DEF c

LEMMA ApplyPendingStep ==
  ASSUME IInv, NEW p \in Calls, NEW r \in Refs, ApplyPending(p, r)
  PROVE  IInv'
<1> DEFINE due == Due(refund[r])
           d == LedgerStep(Starter(r, due))
<1>0. Become(p, d) /\ call[p].pc = "idle" /\ UNCHANGED <<money, aged, gateway, failures>>
  BY Zenon DEF ApplyPending, Running, Starter
<1>1. UNCHANGED <<money, aged, gateway>> /\ failures' = failures
  BY <1>0
<1>2. Sound(d, View) /\ d.pc \in Leaving
  <2>1. Views(View) /\ due = Due(View.docs[r])
    BY Basics, ViewIs
  <2> HIDE DEF due
  <2> QED BY <2>1, LedgerStart
<1> HIDE DEF d
<1> QED BY <1>0, <1>1, <1>2, GoOnStep DEF Leaving

-----------------------------------------------------------------------------
(* The missing earning line, and giving up.                                *)

LEMMA CreditMissingStep ==
  ASSUME IInv, NEW p \in Calls, CreditMissing(p)
  PROVE  IInv'
<1> DEFINE d == [Idle EXCEPT !.pc = "credit"]
<1>1. /\ Become(p, d) /\ call[p].pc = "idle" /\ UNCHANGED <<money, aged, gateway>>
      /\ failures' = failures
  BY DEF CreditMissing, Running
<1>2. /\ d \in CallType /\ d.pc = "credit" /\ d.processed = 0 /\ d.due = "nothing" /\ d.syncs = "no"
  BY IdleIs DEF CallType, Pc
<1> HIDE DEF d
<1>3. Sound(d, View)
  BY <1>2, Basics DEF Sound, KnowsGateway, KnowsRefund, KnowsSums, KnowsList, Pipeline, Views
<1> QED BY <1>1, <1>2, <1>3, GoOnStep

LEMMA RidePaidStep ==
  ASSUME IInv, NEW p \in Calls, RidePaid(p)
  PROVE  IInv'
<1> DEFINE c == call[p]
           d == [c EXCEPT !.pc = "earn"]
<1>1. /\ Become(p, d) /\ c.pc = "credit"
      /\ UNCHANGED <<bill, locked, earning, refund, adjustments, aged, gateway>>
      /\ failures' = failures
      /\ ride' = ride \/ (ride.status = "PENDING" /\ ride' = [ride EXCEPT !.status = "SUCCESS"])
  BY DEF RidePaid, Running, Goto
<1>2. c \in CallType /\ Sound(c, View)
  BY CallFacts
<1>3. call'[p] = d /\ Others(p)
  BY <1>1, Becoming
<1>4. /\ d \in CallType /\ d.pc = "earn" /\ d.ref = c.ref /\ d.due = c.due
      /\ d.syncs = c.syncs /\ d.todo = c.todo /\ d.processed = c.processed
  BY <1>2 DEF CallType, Pc
<1> HIDE DEF c, d
<1>5. Sound(d, View)
  BY <1>1, <1>2, <1>4 DEF Sound, KnowsGateway, KnowsRefund, KnowsSums, KnowsList, Pipeline
<1>6. ~Pipeline(d) /\ ~HoldsIt(d) /\ GoesOn(c, d)
  BY <1>1, <1>4 DEF Pipeline, HoldsIt, GoesOn, Heading, HeadingForRide, Writes
<1>7. LockOK' /\ locked' \in BOOLEAN /\ earning' \in BOOLEAN
  BY <1>1, <1>3, <1>6, LockKept DEF IInv, TypeOK
<1> QED BY <1>1, <1>5, <1>6, <1>7, CallMoves DEF c

LEMMA EarningRecordedStep ==
  ASSUME IInv, NEW p \in Calls, EarningRecorded(p)
  PROVE  IInv'
<1>1. /\ Become(p, Idle) /\ call[p].pc = "earn"
      /\ UNCHANGED <<bill, locked, ride, refund, adjustments, aged, gateway>>
      /\ failures' = failures /\ earning' = TRUE
  BY DEF EarningRecorded, Running
<1>2. Sound(Idle, View)
  BY Basics, IdleIs
<1>3. call'[p] = Idle /\ Others(p)
  BY <1>1, Becoming
<1>4. GoesOn(call[p], Idle)
  BY <1>1, IdleIs DEF GoesOn, Heading, HeadingForRide
<1>5. LockOK' /\ locked' \in BOOLEAN /\ earning' \in BOOLEAN
  BY <1>1, <1>3, IdleIs, LockKept DEF IInv, TypeOK
<1> QED BY <1>1, <1>2, <1>4, <1>5, IdleIs, CallMoves

\* A call at its totals that forgets what is pending.
Unpending(c) == [c EXCEPT !.pending = 0]
LEMMA UnpendingIsSound ==
  ASSUME NEW c \in CallType, NEW v, Sound(c, v)
  PROVE  /\ Sound(Unpending(c), v) /\ Unpending(c) \in CallType
         /\ Unpending(c).pc = c.pc /\ Unpending(c).ref = c.ref /\ Unpending(c).after = c.after
         /\ Unpending(c).processed = c.processed
         /\ Pipeline(Unpending(c)) <=> Pipeline(c)
         /\ HoldsIt(Unpending(c)) <=> HoldsIt(c)
<1> DEFINE d == Unpending(c)
<1>1. /\ d \in CallType /\ d.pc = c.pc /\ d.ref = c.ref /\ d.gw = c.gw /\ d.to = c.to
      /\ d.processed = c.processed /\ d.after = c.after /\ d.due = c.due
      /\ d.reserved = c.reserved /\ d.todo = c.todo /\ d.syncs = c.syncs
  BY DEF Unpending, CallType
<1> HIDE DEF d
<1>2. KnowsGateway(d, v) /\ KnowsSums(d, v) /\ KnowsList(d, v)
  BY <1>1 DEF Sound, KnowsGateway, KnowsSums, KnowsList
<1>3. KnowsRefund(d, v) /\ (Pipeline(d) <=> Pipeline(c)) /\ (HoldsIt(d) <=> HoldsIt(c))
  BY <1>1 DEF Sound, KnowsRefund, Pipeline, HoldsIt
<1> QED BY <1>1, <1>2, <1>3 DEF d, Sound

LEMMA GiveUpTotalsStep ==
  ASSUME IInv, NEW p \in Calls, GiveUpTotals(p)
  PROVE  IInv'
<1> DEFINE c == Unpending(call[p])
           d == AfterTotals(c, FALSE)
<1>1. /\ Become(p, d) /\ call[p].pc = "write" /\ UNCHANGED <<money, aged, gateway>>
      /\ failures < MaxFailures /\ failures' = failures + 1
  BY DEF GiveUpTotals, Running, Unpending
<1>2. /\ c \in CallType /\ Sound(c, View) /\ c.pc = "write" /\ c.ref = call[p].ref
      /\ Pipeline(c) <=> Pipeline(call[p])
      /\ HoldsIt(c) <=> HoldsIt(call[p])
  BY <1>1, CallFacts, UnpendingIsSound
<1> HIDE DEF c
<1>3. /\ Sound(d, View)
      /\ Pipeline(d) => Pipeline(c) /\ d.ref = c.ref
      /\ HoldsIt(d) => HoldsIt(c)
  BY <1>2, Basics, AfterTotalsIsSound
<1> HIDE DEF d
<1> QED BY <1>1, <1>2, <1>3, OnlyCall

-----------------------------------------------------------------------------
(* Razorpay and the clock.                                                 *)

LEMMA EnvironmentStep ==
  ASSUME IInv, TypeOK', UNCHANGED <<bill, ride, earning, refund, call, failures>>,
         Onward(refund, refund', gateway, gateway'), Sent, Documents', LockOK', AgedIsIdle',
         \A q \in Calls : Undisturbed(call[q], View, View')
  PROVE  IInv'
<1>1. SameSums /\ Total({"PROCESSED"}) <= Total({"PROCESSED"})'
  <2>1. SameSums
    BY Sums DEF SameSums
  <2>2. Total({"PROCESSED"}) \in Nat
    BY Basics, Sums, SumOfIsNatural
  <2> QED BY <2>1, <2>2 DEF SameSums
<1>2. Forward(View, View')
  BY <1>1, ForwardHolds
<1>3. CallsSound'
  <2>1. \A q \in Calls : Sound(call'[q], View')
    BY <1>2, CallFacts, SoundForward
  <2> QED BY <2>1 DEF IInv, Handlers, CallsSound
<1>4. OneSender'
  BY DEF IInv, Handlers, OneSender, Pipeline
<1>5. RefusedIsDead'
  <2> SUFFICES ASSUME NEW k \in Keys, refund[k].status = "FAILED"
               PROVE  Dead(k)'
    BY DEF RefusedIsDead, Dead
  <2>1. k \in Refs /\ Dead(k)
    BY DEF IInv, Handlers, RefusedIsDead, Refs
  <2> QED BY <2>1, DeadStays
<1>6. BillFollows'
  <2>1. \A q \in Calls : Heading(call'[q], refund') <=> Heading(call[q], refund)
    OBVIOUS
  <2>2. TotalsRight => TotalsRight'
    BY <1>1 DEF TotalsRight, SameSums
  <2> QED BY <1>1, <2>1, <2>2 DEF IInv, BillFollows, SameSums, Writes, Heading
<1>7. RideFollows' /\ RideBehind'
  <2>1. Total({"PROCESSED"})' = Total({"PROCESSED"})
    BY <1>1 DEF SameSums
  <2> QED BY <2>1
          DEF IInv, RideFollows, RideBehind, Writes, HeadingForRide, MovesRide, RideFor, StatusFor
<1> QED BY <1>3, <1>4, <1>5, <1>6, <1>7 DEF IInv, Handlers

\* What Razorpay does on its own leaves our documents as they are.
LEMMA RazorpayMoves ==
  ASSUME IInv, NEW g \in GwRefunds, NEW new \in RazorpayRefund,
         gateway' = [gateway EXCEPT ![g] = new], UNCHANGED <<money, aged, call, failures>>,
         new.for = gateway[g].for, new.status # "none", new.amount > 0,
         gateway[g].status \in {"none", "pending"},
         gateway[g].status = "pending" => new.amount = gateway[g].amount,
         gateway[g].status = "none" => new.amount <= LeftAtGateway
  PROVE  IInv'
<1>0. UNCHANGED <<bill, locked, ride, earning, refund, adjustments, aged, call, failures>>
  BY DEF money
<1>1. gateway' \in Razorpay /\ gateway'[g] = new /\ \A h \in GwRefunds \ {g} : gateway'[h] = gateway[h]
  BY Basics DEF Razorpay
<1>2. TypeOK'
  BY <1>0, <1>1 DEF IInv, TypeOK, Razorpay
<1>3. Onward(refund, refund', gateway, gateway') /\ Sent
  BY <1>0, <1>1 DEF Onward, Sent
<1>4. AtGateway({"pending", "processed"})' <= Paid
  <2> DEFINE X == {"pending", "processed"}
             s == GwSum(gateway, X)
             t == GwSum(gateway', X)
             a == gateway[g].amount
             b == new.amount
  <2>1. t + (IF gateway[g].status \in X THEN a ELSE 0) = s + (IF new.status \in X THEN b ELSE 0)
    <3>1. gateway \in Razorpay /\ gateway' \in Razorpay
      BY <1>1, Basics
    <3>2. t + (IF gateway[g].status \in X THEN gateway[g].amount ELSE 0)
            = s + (IF gateway'[g].status \in X THEN gateway'[g].amount ELSE 0)
      BY <1>1, <3>1, GwSumMoves
    <3> HIDE DEF s, t
    <3> QED BY <1>1, <3>2
  <2>2. s \in Nat /\ t \in Nat /\ s <= Paid /\ a \in Nat /\ b \in Nat /\ LeftAtGateway = Paid - s
    <3>1. s \in Nat /\ t \in Nat
      BY <1>1, Basics, GwSumIsNatural
    <3>2. s <= Paid /\ LeftAtGateway = Paid - s
      BY Basics, Sums DEF Documents, GatewayFits, LeftAtGateway
    <3>3. a \in Nat /\ b \in Nat
      BY Basics, AmountsAreNatural DEF Razorpay, RazorpayRefund
    <3> QED BY <3>1, <3>2, <3>3
  <2>3. AtGateway(X)' = t
    BY Sums
  <2> HIDE DEF s, t, a
  <2>4. CASE gateway[g].status = "none"
    BY <2>1, <2>2, <2>3, <2>4, AmountsAreNatural
  <2>5. CASE gateway[g].status = "pending"
    BY <2>1, <2>2, <2>3, <2>5, AmountsAreNatural DEF a
  <2> QED BY <2>4, <2>5
<1>5. DocsFit'
  <2> SUFFICES ASSUME NEW r \in Refs
               PROVE  /\ ~Exists(refund[r]) => refund[r].gw = NoGw /\ ~refund[r].review
                      /\ Exists(refund[r]) => refund[r].amount > 0 /\
                         (r \in Externals => refund[r].gw # NoGw)
                      /\ refund[r].status = "PROCESSED" => Returned(r, refund, gateway')
                      /\ refund[r].gw # NoGw =>
                           /\ gateway'[refund[r].gw].status # "none"
                           /\ gateway'[refund[r].gw].amount = refund[r].amount
                           /\ gateway'[refund[r].gw].for = IF r \in Keys THEN r ELSE NoRefund
    BY <1>0 DEF DocsFit, Returned, Exists
  <2>1. refund[r].gw \in GwRefunds \cup {NoGw}
    BY Basics DEF Docs, RefundDoc
  <2>2. refund[r].gw = g => gateway[g].status = "pending" /\ ~Returned(r, refund, gateway)
    <3>1. refund[r].gw # NoGw => gateway[refund[r].gw].status # "none"
      BY Basics DEF Documents, DocsFit
    <3> QED BY <3>1, RefundIdsDistinct DEF Returned
  <2> QED BY <1>1, <2>1, <2>2, Basics DEF Documents, DocsFit, Returned
<1>6. GatewayFits'
  <2>1. ASSUME NEW h \in GwRefunds
        PROVE  /\ gateway'[h].status # "none" => gateway'[h].amount > 0
               /\ gateway'[h].for # NoRefund =>
                    /\ gateway'[h].status # "none" /\ Exists(refund[gateway'[h].for])
                    /\ gateway'[h].amount = refund[gateway'[h].for].amount
    BY <1>1, Basics DEF Documents, GatewayFits
  <2> QED BY <1>0, <1>4, <2>1 DEF GatewayFits, Exists
<1>7. SentOnce' /\ OneEntryEach' /\ RequestsFit'
  <2>1. \A h \in GwRefunds : gateway'[h].for = gateway[h].for
    BY <1>1
  <2> QED BY <1>0, <2>1, Basics
          DEF Documents, SentOnce, OneEntryEach, BookedOnce, ClawedBackOnce, RequestsFit, Amounts
<1>8. LockOK' /\ AgedIsIdle'
  BY <1>0, Basics DEF IInv, LockOK, HoldsIt, Handlers, AgedIsIdle, Exists, Pipeline
<1>9. \A q \in Calls : Undisturbed(call[q], View, View')
  <2>1. /\ \A h \in GwRefunds : View'.razorpay[h].for = View.razorpay[h].for
        /\ View'.old = View.old /\ View'.asked = View.asked /\ View.asked \in Nat
    BY <1>0, <1>1, ViewIs, Basics, Sums DEF Views
  <2>2. \A q \in Calls : Sound(call[q], View)
    BY CallFacts
  <2> QED BY <2>1, <2>2 DEF Undisturbed, Sound, KnowsRefund
<1>10. Documents'
  BY <1>5, <1>6, <1>7 DEF Documents
<1> QED BY <1>0, <1>2, <1>3, <1>8, <1>9, <1>10, EnvironmentStep

LEMMA DashboardRefundStep ==
  ASSUME IInv, NEW g \in GwRefunds, NEW amount \in 1..Paid, DashboardRefund(g, amount)
  PROVE  IInv'
<1> DEFINE new == [status |-> "pending", amount |-> amount, for |-> NoRefund]
<1>1. /\ gateway' = [gateway EXCEPT ![g] = new] /\ UNCHANGED <<money, aged, call, failures>>
      /\ gateway[g].status = "none" /\ amount <= LeftAtGateway
  BY DEF DashboardRefund
<1>2. gateway[g].for = NoRefund
  BY <1>1, Basics DEF Documents, GatewayFits
<1>3. new \in RazorpayRefund /\ new.status = "pending" /\ new.amount = amount /\ new.for = NoRefund
      /\ amount > 0
  BY AmountsAreNatural DEF RazorpayRefund
<1> HIDE DEF new
<1> QED BY <1>1, <1>2, <1>3, RazorpayMoves

LEMMA GatewayMovesStep ==
  ASSUME IInv, NEW g \in GwRefunds, GatewayMoves(g)
  PROVE  IInv'
<1>1. PICK said \in {"processed", "failed"} : gateway' = [gateway EXCEPT ![g].status = said]
  BY DEF GatewayMoves
<1> DEFINE new == [gateway[g] EXCEPT !.status = said]
<1>2. /\ gateway' = [gateway EXCEPT ![g] = new] /\ UNCHANGED <<money, aged, call, failures>>
      /\ gateway[g].status = "pending"
  BY <1>1 DEF GatewayMoves
<1>3. /\ new \in RazorpayRefund /\ new.status = said /\ new.amount = gateway[g].amount
      /\ new.for = gateway[g].for
  BY Basics DEF Razorpay, RazorpayRefund
<1>4. new.amount > 0
  BY <1>2, <1>3, Basics DEF Documents, GatewayFits
<1> HIDE DEF new
<1> QED BY <1>2, <1>3, <1>4, RazorpayMoves

LEMMA RefundAgesStep ==
  ASSUME IInv, NEW r \in Refs, RefundAges(r)
  PROVE  IInv'
<1>1. /\ aged' = aged \cup {r} /\ refund[r].status = "REQUESTED"
      /\ UNCHANGED <<bill, locked, ride, earning, refund, adjustments, gateway, call, failures>>
  BY DEF RefundAges, money
<1>2. \A q \in Calls : call[q].syncs = "no" /\ (Pipeline(call[q]) => call[q].ref # r)
  BY DEF RefundAges, HoldsLock, Running, Pipeline
<1>3. TypeOK'
  BY <1>1 DEF IInv, TypeOK
<1>4. Documents' /\ Onward(refund, refund', gateway, gateway') /\ Sent /\ Asked' = Asked
  BY <1>1, DocumentsKept, StandsStill
<1>5. LockOK'
  BY <1>1 DEF IInv, LockOK, HoldsIt
<1>6. AgedIsIdle'
  BY <1>1, <1>2, Basics DEF Handlers, AgedIsIdle, Exists, Pipeline
<1>7. \A q \in Calls : Undisturbed(call[q], View, View')
  <2>1. View'.razorpay = View.razorpay /\ View'.asked = View.asked /\ View.asked \in Nat
    BY <1>1, <1>4, ViewIs, Basics DEF Views
  <2>2. \A q \in Calls : Sound(call[q], View)
    BY CallFacts
  <2> QED BY <1>2, <2>1, <2>2 DEF Undisturbed, Sound, KnowsRefund
<1> QED BY <1>1, <1>3, <1>4, <1>5, <1>6, <1>7, EnvironmentStep

LEMMA LeaseExpiresStep ==
  ASSUME IInv, LeaseExpires
  PROVE  IInv'
<1>1. /\ locked' = FALSE /\ \A q \in Calls : ~HoldsIt(call[q])
      /\ UNCHANGED <<bill, ride, earning, refund, adjustments, aged, gateway, call, failures>>
  BY DEF LeaseExpires, HoldsLock, HoldsIt
<1>2. TypeOK'
  BY <1>1 DEF IInv, TypeOK
<1>3. Documents' /\ Onward(refund, refund', gateway, gateway') /\ Sent /\ Asked' = Asked
  BY <1>1, DocumentsKept, StandsStill
<1>4. LockOK'
  BY <1>1 DEF LockOK, HoldsIt
<1>5. AgedIsIdle'
  BY <1>1, Basics DEF Handlers, AgedIsIdle, Exists, Pipeline
<1>6. \A q \in Calls : Undisturbed(call[q], View, View')
  <2>1. View'.razorpay = View.razorpay /\ View'.asked = View.asked /\ View.asked \in Nat
        /\ View'.old = View.old
    BY <1>1, <1>3, ViewIs, Basics DEF Views
  <2>2. \A q \in Calls : Sound(call[q], View)
    BY CallFacts
  <2> QED BY <2>1, <2>2 DEF Undisturbed, Sound, KnowsRefund
<1> QED BY <1>1, <1>2, <1>3, <1>4, <1>5, <1>6, EnvironmentStep

-----------------------------------------------------------------------------
(* Steps that change the documents.                                        *)

LEMMA DocsStep ==
  ASSUME IInv, TypeOK', Documents', NEW p \in Calls, NEW d, Become(p, d), Sound(d, View'),
         Onward(refund, refund', gateway, gateway'), Sent, Starts(p),
         HoldsIt(d) => HoldsIt(call[p]),
         UNCHANGED <<bill, locked, ride, earning, aged, failures>>,
         Total({"PROCESSED"}) <= Total({"PROCESSED"})',
         \A q \in Calls \ {p} : Undisturbed(call[q], View, View'),
         \A k \in Keys : refund'[k].status = "FAILED" /\ refund[k].status # "FAILED" =>
                           k \in View'.dead,
         ~Writes(d), Heading(d, refund') \/ (SameSums /\ ~Heading(call[p], refund)),
         \/ HeadingForRide(d)
         \/ SameSums /\ ~HeadingForRide(call[p]) /\ call[p].pc # "ride"
         \/ /\ Total({"PROCESSED"})' = Total({"PROCESSED"})
            /\ ~HeadingForRide(call[p]) /\ call[p].pc # "ride"
  PROVE  IInv'
<1>1. call'[p] = d /\ Others(p) /\ call' = [q \in Calls |-> call'[q]]
  BY Becoming
<1>2. Forward(View, View')
  BY <1>1, Senders, ForwardHolds
<1>3. Handlers'
  BY <1>1, <1>2, HandlersKept
<1>4. LockOK'
  BY <1>1, LockKept
<1>5. BillFollows'
  BY <1>1, BillKept
<1>6. RideFollows'
  BY <1>1, RideKept DEF SameSums
<1>7. RideBehind'
  <2>1. Total({"PROCESSED"}) \in Nat /\ Total({"PROCESSED"})' \in Nat
    BY ViewIs, ViewIsOne DEF IInv, Views
  <2> QED BY <2>1, AmountsAreNatural DEF IInv, RideBehind
<1> QED BY <1>3, <1>4, <1>5, <1>6, <1>7 DEF IInv

\* What a handler that has not seen the change yet knows after it.
LEMMA KnowsAfterwards ==
  ASSUME IInv, TypeOK', NEW p \in Calls, NEW d, Become(p, d), Starts(p),
         Onward(refund, refund', gateway, gateway'), Sent,
         Total({"PROCESSED"}) <= Total({"PROCESSED"})'
  PROVE  /\ Forward(View, View')
         /\ \A q \in Calls : Undisturbed(call[q], View, View') => Sound(call[q], View')
<1>1. Others(p)
  BY Becoming
<1>2. Forward(View, View')
  BY <1>1, Senders, ForwardHolds
<1> QED BY <1>2, CallFacts, SoundForward

\* Documents that keep their statuses and amounts keep the sums.
LEMMA SameAmounts ==
  ASSUME IInv, refund' \in Docs,
         \A r \in Refs : refund'[r].status = refund[r].status /\ refund'[r].amount = refund[r].amount
  PROVE  SameSums /\ Asked' = Asked /\ Total({"PROCESSED"}) <= Total({"PROCESSED"})'
<1>1. ASSUME NEW X, NEW keys \in SUBSET Refs
      PROVE  SumOf(refund', keys, X) = SumOf(refund, keys, X)
  <2>1. {r \in keys : refund'[r].status \in X} = {r \in keys : refund[r].status \in X}
    OBVIOUS
  <2>2. [r \in Refs |-> refund'[r].amount] = [r \in Refs |-> refund[r].amount]
    OBVIOUS
  <2> QED BY <2>1, <2>2 DEF SumOf
<1>2. Keys \in SUBSET Refs /\ Refs \in SUBSET Refs
  BY DEF Refs
<1>3. Total({"PROCESSED"})' = Total({"PROCESSED"}) /\ Total(UNSETTLED)' = Total(UNSETTLED)
      /\ Asked' = Asked
  BY <1>1, <1>2, Sums
<1>4. Total({"PROCESSED"}) \in Nat
  BY <1>2, Basics, Sums, SumOfIsNatural
<1> QED BY <1>3, <1>4 DEF SameSums

\* A handler changes what a document says of the driver, and nothing else.
LEMMA DriverPartStep ==
  ASSUME IInv, NEW p \in Calls, NEW d, Become(p, d), Sound(d, View'), d.pc \in Leaving,
         call[p].pc \in {"idle", "mark", "record"},
         refund' \in Docs, UNCHANGED <<bill, locked, ride, earning, adjustments, aged, gateway, failures>>,
         \A r \in Refs : /\ refund'[r].status = refund[r].status
                         /\ refund'[r].amount = refund[r].amount /\ refund'[r].gw = refund[r].gw
                         /\ refund'[r].review => refund[r].review
                         /\ Borne(refund[r]) => Borne(refund'[r])
  PROVE  IInv'
<1>1. SameSums /\ Asked' = Asked /\ Total({"PROCESSED"}) <= Total({"PROCESSED"})'
  BY SameAmounts
<1>2. TypeOK'
  BY DEF IInv, TypeOK, Docs
<1>3. Onward(refund, refund', gateway, gateway') /\ Sent
  BY DEF Onward, Sent, Exists
<1>4. Documents'
  <2>1. DocsFit'
    BY Basics DEF Documents, DocsFit, Returned, Exists
  <2>2. GatewayFits'
    <3>1. AtGateway({"pending", "processed"})' = AtGateway({"pending", "processed"})
      BY Sums
    <3>2. \A g \in GwRefunds : gateway[g].for # NoRefund => gateway[g].for \in Refs
      BY Basics DEF Razorpay, RazorpayRefund, Refs
    <3> QED BY <3>1, <3>2, Basics DEF Documents, GatewayFits, Exists
  <2>3. SentOnce' /\ BookedOnce' /\ RequestsFit'
    BY <1>1, Basics DEF Documents, SentOnce, OneEntryEach, BookedOnce, RequestsFit, Asked
  <2>4. ClawedBackOnce'
    <3>1. ASSUME NEW i \in DOMAIN adjustments
          PROVE  adjustments[i].ref \in Refs
      <4>1. adjustments \in Seq(DriverEarningAdjustment)
        BY DEF IInv, TypeOK
      <4>2. adjustments[i] \in DriverEarningAdjustment
        BY <4>1
      <4> QED BY <4>2 DEF DriverEarningAdjustment
    <3> QED BY <3>1, Basics DEF Documents, OneEntryEach, ClawedBackOnce, Borne
  <2> QED BY <2>1, <2>2, <2>3, <2>4 DEF Documents, OneEntryEach
<1>5. call'[p] = d
  BY Becoming
<1>6. ~Pipeline(d) /\ ~HoldsIt(d) /\ ~Writes(d) /\ ~Heading(call[p], refund)
      /\ ~HeadingForRide(call[p]) /\ call[p].pc # "ride"
  BY DEF Pipeline, HoldsIt, Writes, Heading, HeadingForRide, Leaving
<1>7. Starts(p)
  BY <1>5, <1>6 DEF Starts
<1>8. \A q \in Calls : Undisturbed(call[q], View, View')
  <2>1. View'.razorpay = View.razorpay /\ View'.asked = View.asked /\ View.asked \in Nat
        /\ View'.old = View.old
    BY <1>1, ViewIs, Basics DEF Views
  <2>2. \A q \in Calls : Sound(call[q], View)
    BY CallFacts
  <2> QED BY <2>1, <2>2 DEF Undisturbed, Sound, KnowsRefund
<1>9. \A k \in Keys : refund'[k].status = refund[k].status
  BY DEF Refs
<1> QED BY <1>1, <1>2, <1>3, <1>4, <1>6, <1>7, <1>8, <1>9, DocsStep

LEMMA MarkLedgerStep ==
  ASSUME IInv, NEW p \in Calls, MarkLedger(p)
  PROVE  IInv'
<1> DEFINE c == call[p]
           r == c.ref
           d == Done(c)
<1>1. /\ c.pc \in {"mark", "record"} /\ Become(p, d)
      /\ UNCHANGED <<bill, locked, ride, earning, adjustments, aged, gateway, failures>>
  BY DEF MarkLedger, Running, Finish
<1>2. PICK state \in {"NOT_APPLICABLE", "RECORDED"} :
        refund' = IF refund[r].ledger = "PENDING" THEN [refund EXCEPT ![r].ledger = state] ELSE refund
  BY DEF MarkLedger, SetLedger
<1>3. c \in CallType /\ Sound(c, View) /\ r \in Refs
  BY <1>1, CallFacts DEF Sound, KnowsRefund
<1>4. /\ refund' \in Docs
      /\ \A s \in Refs : /\ refund'[s].status = refund[s].status
                         /\ refund'[s].amount = refund[s].amount /\ refund'[s].gw = refund[s].gw
                         /\ refund'[s].review => refund[s].review
                         /\ Borne(refund[s]) => Borne(refund'[s])
  <2>1. CASE refund' = refund
    BY <2>1, Basics
  <2>2. CASE refund' = [refund EXCEPT ![r].ledger = state]
    <3> HIDE DEF r
    <3>1. refund' \in Docs
      BY <1>3, <2>2, Basics DEF Docs, RefundDoc
    <3>2. \A s \in Refs : /\ refund'[s].status = refund[s].status /\ refund'[s].impact = refund[s].impact
                          /\ refund'[s].amount = refund[s].amount /\ refund'[s].gw = refund[s].gw
                          /\ refund'[s].review = refund[s].review
      BY <1>3, <2>2, Basics DEF Docs, RefundDoc
    <3> QED BY <3>1, <3>2 DEF Borne
  <2> QED BY <1>2, <2>1, <2>2
<1>5. Forward(View, View') /\ Sound(d, View') /\ d.pc \in Leaving
  <2>1. d.pc \in {"idle", "next", "abandon"} /\ Sound(d, View)
    BY <1>1, <1>3, Basics, DoneIsSound DEF Sound
  <2>2. SameSums /\ Asked' = Asked /\ Total({"PROCESSED"}) <= Total({"PROCESSED"})'
    BY <1>4, SameAmounts
  <2>3. TypeOK'
    BY <1>1, <1>4 DEF IInv, TypeOK, Docs
  <2>4. Onward(refund, refund', gateway, gateway') /\ Sent
    BY <1>1, <1>4 DEF Onward, Sent, Exists
  <2>5. Starts(p)
    <3> HIDE DEF d
    <3>1. call'[p] = d
      BY <1>1, Becoming
    <3> QED BY <2>1, <3>1 DEF Starts, Pipeline
  <2> HIDE DEF d
  <2>6. Forward(View, View')
    BY <1>1, <2>2, <2>3, <2>4, <2>5, KnowsAfterwards
  <2>7. Undisturbed(d, View, View')
    <3>1. View'.razorpay = View.razorpay /\ View'.asked = View.asked /\ View.asked \in Nat
          /\ View'.old = View.old
      BY <1>1, <2>2, ViewIs, Basics DEF Views
    <3> QED BY <2>1, <3>1 DEF Undisturbed, Pipeline
  <2>8. Sound(d, View')
    BY <2>1, <2>6, <2>7, SoundForward
  <2> QED BY <2>1, <2>6, <2>8 DEF Leaving
<1> HIDE DEF d, r, c
<1>6. call[p].pc \in {"idle", "mark", "record"}
  BY <1>1 DEF c
<1> QED BY <1>1, <1>4, <1>5, <1>6, DriverPartStep

LEMMA ReviewStep ==
  ASSUME IInv, NEW p \in Calls, NEW r \in Refs, Review(p, r)
  PROVE  IInv'
<1> DEFINE due == Due(refund'[r])
           d == LedgerStep(Starter(r, due))
<1>0. /\ call[p].pc = "idle" /\ refund[r].review /\ Become(p, d)
      /\ UNCHANGED <<bill, locked, ride, earning, adjustments, aged, gateway, failures>>
  BY Zenon DEF Review, Running, Starter
<1>1. PICK impact \in {"PROPORTIONAL", "NONE"} :
        refund' = [refund EXCEPT ![r].review = FALSE, ![r].impact = impact]
  BY Zenon DEF Review
<1>2. refund' \in Docs
  <2> DEFINE new == [refund[r] EXCEPT !.review = FALSE, !.impact = impact]
  <2>1. refund[r] \in RefundDoc /\ refund \in Docs
    BY Basics DEF Docs
  <2>2. new \in RefundDoc
    BY <2>1 DEF RefundDoc
  <2>3. refund' = [refund EXCEPT ![r] = new]
    BY <1>1, <2>1 DEF Docs
  <2> HIDE DEF new
  <2> QED BY <2>1, <2>2, <2>3 DEF Docs
<1>3. /\ \A s \in Refs : /\ refund'[s].status = refund[s].status
                         /\ refund'[s].amount = refund[s].amount /\ refund'[s].gw = refund[s].gw
                         /\ refund'[s].review => refund[s].review
      /\ \A s \in Refs \ {r} : refund'[s] = refund[s]
  BY <1>1, Basics DEF Docs, RefundDoc
<1>4. \A s \in Refs : Borne(refund[s]) => Borne(refund'[s])
  BY <1>0, <1>3 DEF Borne
<1>5. TypeOK'
  BY <1>0, <1>2 DEF IInv, TypeOK, Docs
<1>6. Sound(d, View') /\ d.pc \in Leaving
  <2>1. Views(View') /\ due = Due(View'.docs[r])
    BY <1>5, ViewIs, ViewIsOne
  <2> HIDE DEF due
  <2> QED BY <2>1, LedgerStart
<1> HIDE DEF d
<1> QED BY <1>0, <1>2, <1>3, <1>4, <1>6, DriverPartStep

\* The share is taken back under the refund's key, of a refund that the driver bears.
LEMMA InsertAdjustmentStep ==
  ASSUME IInv, NEW p \in Calls, InsertAdjustment(p)
  PROVE  IInv'
<1> DEFINE c == call[p]
           r == c.ref
           line == [ref |-> r, refund |-> refund[r].amount, gross |-> c.reversal.gross,
                    commission |-> c.reversal.commission, amount |-> c.reversal.amount]
           d == [c EXCEPT !.pc = "record", !.reversal = Unadjusted]
<1>1. /\ c.pc = "clawInsert" /\ Become(p, d)
      /\ UNCHANGED <<bill, locked, ride, earning, refund, aged, gateway, failures>>
      /\ adjustments' = IF ~Adjusted(r) THEN Append(adjustments, line) ELSE adjustments
  BY DEF InsertAdjustment, Running, AdjustmentFree
<1>2. /\ c \in CallType /\ Sound(c, View) /\ r \in Refs /\ Borne(refund[r])
  BY <1>1, CallFacts, ViewIs DEF Sound, KnowsRefund
<1>3. line \in DriverEarningAdjustment /\ line.ref = r
  <2>1. refund[r].amount \in 0..Paid /\ refund[r].amount > 0
    BY <1>2, Basics DEF Docs, RefundDoc, Documents, DocsFit, Borne, Exists
  <2>2. refund[r].amount \in 1..Paid
    BY <2>1, AmountsAreNatural
  <2>3. /\ c.reversal.gross \in Nat /\ c.reversal.commission \in Nat /\ c.reversal.amount \in Nat
    BY <1>2 DEF CallType
  <2> HIDE DEF c, r
  <2> QED BY <1>2, <2>2, <2>3 DEF DriverEarningAdjustment
<1> HIDE DEF line
<1>4. adjustments \in Seq(DriverEarningAdjustment)
  BY DEF IInv, TypeOK
<1>5. adjustments' \in Seq(DriverEarningAdjustment)
  BY <1>1, <1>3, <1>4
<1>6. TypeOK'
  BY <1>1, <1>5 DEF IInv, TypeOK
<1>7. ClawedBackOnce'
  <2>1. CASE adjustments' = adjustments
    BY <1>1, <2>1, Basics DEF Documents, OneEntryEach, ClawedBackOnce
  <2>2. CASE ~Adjusted(r) /\ adjustments' = Append(adjustments, line)
    <3> DEFINE n == Len(adjustments)
    <3>1. /\ n \in Nat /\ DOMAIN adjustments = 1..n /\ DOMAIN adjustments' = 1..(n + 1)
          /\ \A i \in 1..n : adjustments'[i] = adjustments[i]
          /\ adjustments'[n + 1] = line
      BY <1>3, <1>4, <2>2
    <3>2. \A i \in 1..n : adjustments[i].ref # r
      BY <2>2, <3>1 DEF Adjusted
    <3>3. \A i \in 1..n : Borne(refund[adjustments[i].ref]) /\
            \A j \in 1..n : adjustments[j].ref = adjustments[i].ref => i = j
      BY <3>1, Basics DEF Documents, OneEntryEach, ClawedBackOnce, Borne
    <3> HIDE DEF n, r
    <3>4. ASSUME NEW i \in 1..(n + 1)
          PROVE  /\ Borne(refund[adjustments'[i].ref])
                 /\ \A j \in 1..(n + 1) : adjustments'[j].ref = adjustments'[i].ref => i = j
      <4>1. CASE i = n + 1
        <5>1. adjustments'[i].ref = r
          BY <1>3, <3>1, <4>1
        <5>2. ASSUME NEW j \in 1..(n + 1), adjustments'[j].ref = r
              PROVE  j = n + 1
          <6>1. j \in 1..n \/ j = n + 1
            BY <3>1
          <6> QED BY <3>1, <3>2, <5>2, <6>1
        <5> QED BY <1>2, <4>1, <5>1, <5>2
      <4>2. CASE i \in 1..n
        <5>1. adjustments'[i] = adjustments[i] /\ Borne(refund[adjustments[i].ref])
          BY <3>1, <3>3, <4>2
        <5>2. ASSUME NEW j \in 1..(n + 1), adjustments'[j].ref = adjustments'[i].ref
              PROVE  i = j
          <6>1. j # n + 1
            BY <1>3, <3>1, <3>2, <4>2, <5>1, <5>2
          <6>2. j \in 1..n
            BY <3>1, <6>1
          <6> QED BY <3>1, <3>3, <4>2, <5>1, <5>2, <6>2
        <5> QED BY <5>1, <5>2
      <4>3. i = n + 1 \/ i \in 1..n
        BY <3>1
      <4> QED BY <4>1, <4>2, <4>3
    <3> QED BY <1>1, <3>1, <3>4 DEF ClawedBackOnce, Borne
  <2> QED BY <1>1, <2>1, <2>2
<1>8. Documents'
  <2>1. DocsFit'
    BY <1>1, Basics DEF Documents, DocsFit, Returned, Exists
  <2>2. GatewayFits'
    BY <1>1, Basics, Sums DEF Documents, GatewayFits, Exists
  <2>3. SentOnce' /\ BookedOnce' /\ RequestsFit'
    BY <1>1, Basics DEF Documents, SentOnce, OneEntryEach, BookedOnce, RequestsFit, Amounts
  <2> QED BY <1>7, <2>1, <2>2, <2>3 DEF Documents, OneEntryEach
<1>9. /\ d \in CallType /\ d.pc = "record" /\ d.ref = c.ref /\ d.due = c.due /\ d.syncs = c.syncs
      /\ d.todo = c.todo /\ d.processed = c.processed
  <2>1. Unadjusted \in [gross : Nat, commission : Nat, amount : Nat] /\ "record" \in Pc
    BY DEF Unadjusted, Pc
  <2> HIDE DEF c
  <2> QED BY <1>2, <2>1 DEF CallType
<1>10. call'[p] = d
  BY <1>1, Becoming
<1> HIDE DEF d
<1>11. Sound(d, View)
  BY <1>1, <1>2, <1>9, ViewIs
     DEF Sound, KnowsGateway, KnowsRefund, KnowsSums, KnowsList, Pipeline
<1>12. ~Pipeline(d) /\ ~HoldsIt(d) /\ ~Writes(d) /\ ~Heading(call[p], refund)
       /\ ~HeadingForRide(call[p]) /\ call[p].pc # "ride"
  BY <1>1, <1>9 DEF Pipeline, HoldsIt, Writes, Heading, HeadingForRide
<1>13. Others(p) /\ call' = [q \in Calls |-> call'[q]]
  BY <1>1, Becoming
<1>14. UNCHANGED <<refund, gateway, aged>> /\ locked' = locked /\ failures' = failures
       /\ bill' = bill /\ ride' = ride /\ earning' = earning
  BY <1>1
<1>15. Handlers'
  BY <1>6, <1>10, <1>11, <1>12, <1>13, <1>14, QuietHandlers
<1>16. Onward(refund, refund', gateway, gateway') /\ SameSums
  BY <1>14, StandsStill
<1>17. LockOK'
  BY <1>10, <1>12, <1>13, <1>14, LockKept
<1>18. BillFollows'
  BY <1>10, <1>12, <1>13, <1>14, <1>16, BillKept
<1>19. RideFollows'
  BY <1>10, <1>12, <1>13, <1>14, <1>16, RideKept DEF SameSums
<1>20. RideBehind'
  BY <1>14, <1>16 DEF IInv, RideBehind, SameSums
<1> QED BY <1>6, <1>8, <1>15, <1>17, <1>18, <1>19, <1>20 DEF IInv

\* What the sums become when one document changes.
LEMMA TotalMoves ==
  ASSUME IInv, refund' \in Docs, NEW x \in Refs, \A r \in Refs \ {x} : refund'[r] = refund[r], NEW X
  PROVE  /\ Total(X)' \in Nat /\ Total(X) \in Nat
         /\ Total(X)' + (IF refund[x].status \in X THEN refund[x].amount ELSE 0)
              = Total(X) + (IF refund'[x].status \in X THEN refund'[x].amount ELSE 0)
<1>1. Refs \in SUBSET Refs /\ refund \in Docs
  BY Basics
<1>2. SumOf(refund, Refs, X) \in Nat /\ SumOf(refund', Refs, X) \in Nat
  BY <1>1, SumOfIsNatural
<1>3. SumOf(refund', Refs, X) + (IF x \in Refs /\ refund[x].status \in X THEN refund[x].amount ELSE 0)
        = SumOf(refund, Refs, X) + (IF x \in Refs /\ refund'[x].status \in X THEN refund'[x].amount ELSE 0)
  BY <1>1, SumOfMoves
<1> QED BY <1>2, <1>3, Sums

LEMMA AskedMoves ==
  ASSUME IInv, refund' \in Docs, NEW x \in Refs, \A r \in Refs \ {x} : refund'[r] = refund[r]
  PROVE  /\ Asked' \in Nat /\ Asked \in Nat
         /\ Asked' + (IF x \in Keys /\ refund[x].status \in ACTIVE_REFUND_STATUSES
                       THEN refund[x].amount ELSE 0)
              = Asked + (IF x \in Keys /\ refund'[x].status \in ACTIVE_REFUND_STATUSES
                         THEN refund'[x].amount ELSE 0)
<1> DEFINE X == ACTIVE_REFUND_STATUSES
<1>1. Keys \in SUBSET Refs /\ refund \in Docs
  BY Basics DEF Refs
<1>2. SumOf(refund, Keys, X) \in Nat /\ SumOf(refund', Keys, X) \in Nat
  BY <1>1, SumOfIsNatural
<1>3. SumOf(refund', Keys, X) + (IF x \in Keys /\ refund[x].status \in X THEN refund[x].amount ELSE 0)
        = SumOf(refund, Keys, X) + (IF x \in Keys /\ refund'[x].status \in X THEN refund'[x].amount ELSE 0)
  BY <1>1, SumOfMoves
<1> QED BY <1>2, <1>3, Sums

\* A document is new: of a request, or of a refund that Razorpay made and nobody asked for.
LEMMA NewDocument ==
  ASSUME IInv, NEW r \in Refs, ~Exists(refund[r]), NEW new \in RefundDoc,
         refund' = [refund EXCEPT ![r] = new], new.status = "REQUESTED", new.amount > 0,
         UNCHANGED <<gateway, adjustments>>,
         r \in Keys => new.gw = NoGw /\ Asked + new.amount <= Paid,
         r \in Externals =>
           /\ new.gw \in GwRefunds /\ OwnersOf(new.gw) = {} /\ gateway[new.gw].status # "none"
           /\ gateway[new.gw].amount = new.amount /\ gateway[new.gw].for = NoRefund
  PROVE  /\ refund' \in Docs /\ Documents' /\ Onward(refund, refund', gateway, gateway') /\ Sent
         /\ Total({"PROCESSED"})' = Total({"PROCESSED"})
         /\ Total({"PROCESSED"}) <= Total({"PROCESSED"})'
         /\ r \in Externals => Asked' = Asked
<1>0. Refs = Keys \cup Externals /\ Keys \cap Externals = {} /\ Keys \in SUBSET Refs /\ Refs \in SUBSET Refs
  BY RefundIdsDistinct DEF Refs
<1>1. /\ refund' \in Docs /\ refund'[r] = new /\ \A s \in Refs \ {r} : refund'[s] = refund[s]
      /\ refund[r].status = "NONE" /\ refund[r].gw = NoGw
  BY Basics DEF Docs, Exists, Documents, DocsFit
<1>2. Total({"PROCESSED"})' = Total({"PROCESSED"}) /\ Total({"PROCESSED"}) \in Nat
  <2>1. /\ Total({"PROCESSED"})' + 0 = Total({"PROCESSED"}) + 0
        /\ Total({"PROCESSED"})' \in Nat /\ Total({"PROCESSED"}) \in Nat
    BY <1>1, TotalMoves
  <2> QED BY <2>1
<1>3. Asked' = Asked + (IF r \in Keys THEN new.amount ELSE 0) /\ Asked \in Nat
  <2>1. /\ Asked' + 0 = Asked + (IF r \in Keys THEN new.amount ELSE 0)
        /\ Asked' \in Nat /\ Asked \in Nat
    BY <1>1, AskedMoves DEF ACTIVE_REFUND_STATUSES
  <2>2. new.amount \in Nat
    BY AmountsAreNatural DEF RefundDoc
  <2> QED BY <2>1, <2>2
<1>4. new.amount \in Nat /\ (r \notin Keys => Asked' = Asked)
  BY <1>3, AmountsAreNatural DEF RefundDoc
<1>5. RequestsFit'
  <2>1. Asked' <= Paid
    <3>1. Asked <= Paid
      BY Basics DEF Documents, RequestsFit, Asked
    <3> QED BY <1>3, <1>4, <3>1
  <2> QED BY <2>1 DEF RequestsFit, Asked
<1>6. Onward(refund, refund', gateway, gateway') /\ Sent
  <2>1. ~Borne(refund[r])
    BY <1>1 DEF Borne
  <2> QED BY <1>1, <2>1 DEF Onward, Sent, Exists
<1>7. DocsFit'
  <2> SUFFICES ASSUME NEW s \in Refs
               PROVE  /\ ~Exists(refund'[s]) => refund'[s].gw = NoGw /\ ~refund'[s].review
                      /\ Exists(refund'[s]) => refund'[s].amount > 0 /\
                         (s \in Externals => refund'[s].gw # NoGw)
                      /\ refund'[s].status = "PROCESSED" => Returned(s, refund', gateway)
                      /\ refund'[s].gw # NoGw =>
                           /\ gateway[refund'[s].gw].status # "none"
                           /\ gateway[refund'[s].gw].amount = refund'[s].amount
                           /\ gateway[refund'[s].gw].for = IF s \in Keys THEN s ELSE NoRefund
    BY DEF DocsFit, Returned, Exists
  <2>1. CASE s = r
    BY <1>0, <1>1, <2>1, RefundIdsDistinct DEF Exists
  <2>2. CASE s # r
    BY <1>1, <2>2, Basics DEF Documents, DocsFit, Returned
  <2> QED BY <2>1, <2>2
<1>8. GatewayFits'
  <2>1. AtGateway({"pending", "processed"})' = AtGateway({"pending", "processed"})
    BY Sums
  <2>2. \A g \in GwRefunds : gateway[g].for # NoRefund => gateway[g].for \in Refs \ {r}
    BY <1>0, Basics DEF Razorpay, RazorpayRefund, Documents, GatewayFits
  <2> QED BY <1>1, <2>1, <2>2, Basics DEF Documents, GatewayFits, Exists
<1>9. SentOnce'
  BY Basics DEF Documents, SentOnce
<1>10. BookedOnce'
  <2>1. \A s \in Refs : refund[s].gw = new.gw => new.gw = NoGw
    BY <1>0 DEF OwnersOf
  <2> QED BY <1>1, <2>1, Basics DEF Documents, OneEntryEach, BookedOnce
<1>11. ClawedBackOnce'
  <2>1. ASSUME NEW i \in DOMAIN adjustments
        PROVE  adjustments[i].ref \in Refs \ {r}
    <3>1. adjustments \in Seq(DriverEarningAdjustment)
      BY DEF IInv, TypeOK
    <3>2. adjustments[i] \in DriverEarningAdjustment
      BY <3>1
    <3>3. refund[adjustments[i].ref].status = "PROCESSED"
      BY Basics DEF Documents, OneEntryEach, ClawedBackOnce
    <3> QED BY <1>1, <3>2, <3>3 DEF DriverEarningAdjustment
  <2> QED BY <1>1, <2>1, Basics DEF Documents, OneEntryEach, ClawedBackOnce
<1> QED BY <1>0, <1>1, <1>2, <1>4, <1>5, <1>6, <1>7, <1>8, <1>9, <1>10, <1>11
        DEF Documents, OneEntryEach

\* The request's record is inserted: what was asked for fits, and nobody sends it yet.
LEMMA InsertRefundStep ==
  ASSUME IInv, NEW p \in Calls, InsertRefund(p)
  PROVE  IInv'
<1> DEFINE c == call[p]
           k == c.ref
<1>1. /\ c.pc = "insert"
      /\ UNCHANGED <<bill, locked, ride, earning, adjustments, aged, gateway, failures>>
  BY Zenon DEF InsertRefund, Running
<1>2. /\ c \in CallType /\ Sound(c, View) /\ k \in Keys /\ k \in Refs /\ Asked <= c.reserved
      /\ c.reserved \in Nat
  BY <1>1, CallFacts, ViewIs DEF Sound, KnowsRefund, KnowsSums, Refs, CallType
<1>3. ASSUME KeyFree(k), NEW amount \in 1..Refundable(c.reserved), NEW impact \in {"PROPORTIONAL", "NONE"},
             refund' = [refund EXCEPT ![k] =
               [NoDoc EXCEPT !.status = "REQUESTED", !.amount = amount, !.impact = impact]],
             Become(p, [c EXCEPT !.pc = "totals", !.after = "unlock", !.reserved = 0])
      PROVE  IInv'
  <2> DEFINE new == [NoDoc EXCEPT !.status = "REQUESTED", !.amount = amount, !.impact = impact]
             c1 == [c EXCEPT !.pc = "lock"]
             d == [c EXCEPT !.pc = "totals", !.after = "unlock", !.reserved = 0]
  <2>1. amount \in 1..Paid /\ amount \in Nat /\ Asked + amount <= Paid
    <3>1. Asked \in Nat
      BY Basics, ViewIs DEF Views
    <3> HIDE DEF c
    <3> QED BY <1>2, <1>3, <3>1, AmountsAreNatural DEF Refundable
  <2>2. /\ new \in RefundDoc /\ new.status = "REQUESTED" /\ new.amount = amount
        /\ new.gw = NoGw /\ new.review = FALSE
    <3>1. amount \in 0..Paid
      BY <2>1, AmountsAreNatural
    <3> QED BY <1>3, <3>1 DEF NoDoc, RefundDoc, ACTIVE_REFUND_STATUSES
  <2>3. /\ refund' = [refund EXCEPT ![k] = new] /\ refund[k].status = "NONE" /\ ~Exists(refund[k])
        /\ Become(p, d)
    BY <1>3 DEF KeyFree, Exists
  <2> HIDE DEF new
  <2>4. /\ d \in CallType /\ d.pc = "totals" /\ d.after = "unlock" /\ d.ref = c.ref /\ d.due = c.due
        /\ d.syncs = c.syncs /\ d.todo = c.todo /\ d.processed = c.processed
    <3>1. "totals" \in Pc
      BY DEF Pc
    <3> HIDE DEF c
    <3> QED BY <1>2, <3>1 DEF CallType
  <2>5. /\ c1 \in CallType /\ c1.pc = "lock" /\ c1.ref = c.ref /\ c1.due = c.due /\ c1.gw = c.gw
        /\ c1.syncs = c.syncs /\ c1.todo = c.todo /\ c1.processed = c.processed
    <3>1. "lock" \in Pc
      BY DEF Pc
    <3> HIDE DEF c
    <3> QED BY <1>2, <3>1 DEF CallType
  <2> HIDE DEF c1, d
  <2>6. /\ refund' \in Docs /\ Documents' /\ Onward(refund, refund', gateway, gateway') /\ Sent
        /\ Total({"PROCESSED"})' = Total({"PROCESSED"})
        /\ Total({"PROCESSED"}) <= Total({"PROCESSED"})'
    <3>1. k \notin Externals /\ UNCHANGED <<gateway, adjustments>>
      BY <1>1, <1>2, RefundIdsDistinct
    <3>2. new.amount > 0 /\ Asked + new.amount <= Paid
      BY <2>1, <2>2
    <3> HIDE DEF k, c
    <3> QED BY <1>2, <2>2, <2>3, <3>1, <3>2, NewDocument
  <2>7. TypeOK'
    BY <1>1, <2>6 DEF IInv, TypeOK, Docs
  <2>8. call'[p] = d /\ Starts(p)
    <3>1. call'[p] = d
      BY <2>3, Becoming
    <3> QED BY <2>3, <2>4, <3>1 DEF Starts
  <2>9. Forward(View, View')
    BY <2>3, <2>6, <2>7, <2>8, KnowsAfterwards
  <2>10. View'.razorpay = View.razorpay /\ View'.old = View.old /\ View.docs[k] = refund[k]
         /\ View'.docs = refund' /\ View.razorpay = gateway
    BY <1>1, ViewIs
  <2>11. Sound(c1, View')
    <3>1. Sound(c1, View)
      BY <1>1, <1>2, <2>5 DEF Sound, KnowsGateway, KnowsRefund, KnowsSums, KnowsList, Pipeline
    <3>2. Undisturbed(c1, View, View')
      BY <2>5, <2>10 DEF Undisturbed, Pipeline
    <3> QED BY <2>9, <3>1, <3>2, SoundForward
  <2>12. \A g \in GwRefunds : gateway[g].for # k
    <3>1. k # NoRefund
      BY <1>2, RefundIdsDistinct
    <3> QED BY <2>3, <3>1, Basics DEF Documents, GatewayFits
  <2>13. Exists(refund'[k])
    BY <1>2, <2>2, <2>3, Basics DEF Docs, Exists
  <2>14. Sound(d, View')
    <3>1. KnowsRefund(d, View')
      BY <1>2, <2>4, <2>5, <2>10, <2>11, <2>12, <2>13 DEF Sound, KnowsRefund, Pipeline
    <3> HIDE DEF k, c
    <3> QED BY <2>4, <2>5, <2>11, <3>1 DEF Sound, KnowsGateway, KnowsSums, KnowsList
  <2>15. \A q \in Calls \ {p} : Undisturbed(call[q], View, View')
    <3> SUFFICES ASSUME NEW q \in Calls, q # p
                 PROVE  Undisturbed(call[q], View, View')
      OBVIOUS
    <3>1. call[q].pc # "insert"
      BY <1>1 DEF IInv, LockOK, HoldsIt
    <3>2. Sound(call[q], View)
      BY CallFacts
    <3> QED BY <2>10, <3>1, <3>2 DEF Undisturbed, Sound, KnowsRefund
  <2>16. \A s \in Keys : refund'[s].status = "FAILED" => refund[s].status = "FAILED"
    BY <1>2, <2>2, <2>3, Basics DEF Docs, Refs
  <2>17. HoldsIt(call[p]) /\ ~Writes(d) /\ Heading(d, refund') /\ ~HeadingForRide(call[p])
         /\ call[p].pc # "ride"
    BY <1>1, <2>4 DEF HoldsIt, Writes, Heading, HeadingForRide
  <2> HIDE DEF k, c
  <2> QED BY <1>1, <2>3, <2>6, <2>7, <2>8, <2>14, <2>15, <2>16, <2>17, DocsStep
<1>4. CASE Become(p, [Idle EXCEPT !.pc = "unlock"]) /\ refund' = refund
  <2>1. HoldsIt(call[p]) /\ call[p].pc = "insert"
    BY <1>1 DEF HoldsIt
  <2>2. UNCHANGED <<money, aged, gateway, failures>>
    BY <1>1, <1>4 DEF money
  <2> QED BY <1>4, <2>1, <2>2, ReleaseStep
<1> QED BY Zenon, <1>3, <1>4 DEF InsertRefund

\* A refund made in the dashboard gets its record, or another handler has given it one.
LEMMA RecordExternalStep ==
  ASSUME IInv, NEW p \in Calls, RecordExternal(p)
  PROVE  IInv'
<1> DEFINE c == call[p]
           g == c.gw
<1>1. /\ c.pc = "external"
      /\ UNCHANGED <<bill, locked, ride, earning, adjustments, aged, gateway, failures>>
  BY Zenon DEF RecordExternal, Running
<1>2. /\ c \in CallType /\ Sound(c, View) /\ g \in GwRefunds /\ gateway[g].status # "none"
      /\ gateway[g].for = NoRefund
  BY <1>1, CallFacts, ViewIs DEF Sound, KnowsGateway
\* How the handler goes on.
<1>3. ASSUME NEW r \in Refs, NEW v, Sound(c, v), Matches(r, g, v)
      PROVE  LET d == [c EXCEPT !.pc = "facts", !.ref = r] IN
             Sound(d, v) /\ d.pc = "facts" /\ d.ref = r /\ d.gw = g
  <2> DEFINE d == [c EXCEPT !.pc = "facts", !.ref = r]
  <2>1. /\ d \in CallType /\ d.pc = "facts" /\ d.ref = r /\ d.gw = c.gw /\ d.to = c.to /\ d.due = c.due
        /\ d.syncs = c.syncs /\ d.todo = c.todo /\ d.processed = c.processed
    <3>1. "facts" \in Pc
      BY DEF Pc
    <3> HIDE DEF c, g
    <3> QED BY <1>2, <1>3, <3>1 DEF CallType
  <2>2. c.due = "nothing"
    BY <1>1, <1>3 DEF Sound, KnowsRefund
  <2> HIDE DEF d
  <2>3. Sound(d, v)
    <3>1. KnowsGateway(d, v)
      BY <1>1, <1>3, <2>1 DEF Sound, KnowsGateway
    <3>2. KnowsRefund(d, v) /\ KnowsSums(d, v)
      BY <1>3, <2>1, <2>2 DEF Sound, KnowsRefund, KnowsSums, Pipeline
    <3>3. KnowsList(d, v)
      BY <1>1, <1>3, <2>1 DEF Sound, KnowsList
    <3> QED BY <2>1, <3>1, <3>2, <3>3 DEF Sound
  <2> QED BY <2>1, <2>3 DEF d
<1>4. ASSUME GwIdFree(g), NEW r \in Externals \ Existing,
             refund' = [refund EXCEPT ![r] =
               [NoDoc EXCEPT !.status = "REQUESTED", !.amount = gateway[g].amount,
                             !.gw = g, !.review = TRUE]],
             Become(p, [c EXCEPT !.pc = "facts", !.ref = r])
      PROVE  IInv'
  <2> DEFINE amount == gateway[g].amount
             new == [NoDoc EXCEPT !.status = "REQUESTED", !.amount = amount, !.gw = g, !.review = TRUE]
             d == [c EXCEPT !.pc = "facts", !.ref = r]
  <2>1. amount \in 0..Paid /\ amount > 0
    BY <1>2, Basics DEF Razorpay, RazorpayRefund, Documents, GatewayFits
  <2> HIDE DEF amount
  <2>2. /\ new \in RefundDoc /\ new.status = "REQUESTED" /\ new.amount = amount /\ new.gw = g
    <3> HIDE DEF g
    <3> QED BY <1>2, <2>1 DEF NoDoc, RefundDoc, ACTIVE_REFUND_STATUSES
  <2>3. /\ refund' = [refund EXCEPT ![r] = new] /\ r \in Refs /\ r \notin Keys /\ ~Exists(refund[r])
        /\ Become(p, d)
    BY <1>4, RefundIdsDistinct DEF Existing, Exists, Refs, amount
  <2> HIDE DEF new
  <2>4. /\ refund' \in Docs /\ Documents' /\ Onward(refund, refund', gateway, gateway') /\ Sent
        /\ Total({"PROCESSED"})' = Total({"PROCESSED"}) /\ Asked' = Asked
        /\ Total({"PROCESSED"}) <= Total({"PROCESSED"})'
    <3>1. OwnersOf(g) = {} /\ gateway[g].amount = new.amount /\ UNCHANGED <<gateway, adjustments>>
          /\ r \in Externals /\ new.amount > 0
      BY <1>1, <1>4, <2>1, <2>2 DEF GwIdFree, amount
    <3> HIDE DEF g
    <3> QED BY <1>2, <2>2, <2>3, <3>1, NewDocument
  <2>5. TypeOK'
    BY <1>1, <2>4 DEF IInv, TypeOK, Docs
  <2>6. call[p].pc = "external" /\ d.pc = "facts" /\ d.ref = r /\ d.gw = g
    <3>1. "facts" \in Pc /\ c.pc = "external"
      BY <1>1 DEF Pc
    <3> QED BY <1>2, <3>1 DEF CallType
  <2>7. call'[p] = d
    BY <2>3, Becoming
  <2> HIDE DEF d
  <2>8. Starts(p) /\ ~HoldsIt(d) /\ ~Writes(d)
    BY <2>6, <2>7 DEF Starts, Pipeline, HoldsIt, Writes
  <2>9. Forward(View, View') /\ \A q \in Calls : Undisturbed(call[q], View, View') /\ Sound(call[q], View')
    <3>1. View'.razorpay = View.razorpay /\ View'.old = View.old /\ View'.asked = View.asked
          /\ View.asked \in Nat
      BY <1>1, <2>4, ViewIs, Basics DEF Views
    <3>2. \A q \in Calls : Sound(call[q], View)
      BY CallFacts
    <3>3. \A q \in Calls : Undisturbed(call[q], View, View')
      BY <3>1, <3>2 DEF Undisturbed, Sound, KnowsRefund
    <3> QED BY <2>3, <2>4, <2>5, <2>8, <3>3, KnowsAfterwards
  <2>10. refund'[r].gw = g
    BY <2>2, <2>3, Basics DEF Docs
  <2>11. Sound(d, View')
    <3>1. Matches(r, g, View')
      BY <2>3, <2>10, ViewIs DEF Matches
    <3>2. Sound(c, View')
      BY <2>9
    <3> QED BY <1>3, <2>3, <3>1, <3>2 DEF d
  <2>12. Heading(d, refund') /\ ~HeadingForRide(call[p]) /\ call[p].pc # "ride"
    BY <2>6, <2>10 DEF Heading, HeadingForRide
  <2>13. \A k \in Keys : refund'[k].status = "FAILED" => refund[k].status = "FAILED"
    BY <2>2, <2>3, Basics DEF Docs, Refs
  <2>14. UNCHANGED <<bill, locked, ride, earning, aged, failures>>
    BY <1>1
  <2> HIDE DEF c, g
  <2> QED BY <2>3, <2>4, <2>5, <2>8, <2>9, <2>11, <2>12, <2>13, <2>14, DocsStep
<1>5. ASSUME NEW r \in OwnersOf(g), Become(p, [c EXCEPT !.pc = "facts", !.ref = r]), refund' = refund
      PROVE  IInv'
  <2> DEFINE d == [c EXCEPT !.pc = "facts", !.ref = r]
  <2>1. r \in Refs /\ refund[r].gw = g /\ Become(p, d)
    BY <1>5 DEF OwnersOf
  <2>2. Matches(r, g, View)
    BY <1>2, <2>1, ViewIs, Basics, RefundIdsDistinct DEF Matches, Documents, DocsFit
  <2>3. Sound(d, View) /\ d.pc = "facts" /\ d.ref = r /\ d.gw = g
    BY <1>2, <1>3, <2>1, <2>2
  <2> HIDE DEF d
  <2>4. ~Pipeline(d) /\ ~HoldsIt(d) /\ GoesOn(call[p], d)
    BY <1>1, <2>1, <2>3 DEF Pipeline, HoldsIt, GoesOn, Writes, Heading, HeadingForRide
  <2>5. UNCHANGED <<money, aged, gateway>> /\ failures' = failures
    BY <1>1, <1>5 DEF money
  <2> QED BY <2>1, <2>3, <2>4, <2>5, OnlyCall
<1> QED BY Zenon, <1>4, <1>5 DEF RecordExternal

\* The record learns its Razorpay id.  Nobody else has it: it was found by that id, or
\* Razorpay names it as the refund's origin.
LEMMA StoreFactsStep ==
  ASSUME IInv, NEW p \in Calls, StoreFacts(p)
  PROVE  IInv'
<1> DEFINE c == call[p]
<1>1. /\ c.pc = "facts"
      /\ UNCHANGED <<bill, locked, ride, earning, adjustments, aged, gateway, failures>>
  BY Zenon DEF StoreFacts, Running
<1>2. c \in CallType /\ Sound(c, View)
  BY CallFacts
<1>3. PICK r \in Refs, g \in GwRefunds : r = c.ref /\ g = c.gw
  BY <1>1, <1>2 DEF Sound, KnowsGateway
<1>4. /\ gateway[g].status # "none" /\ Matches(r, g, View) /\ c.to \in Targets
      /\ c.to = "PROCESSED" => gateway[g].status = "processed"
      /\ c.to = "FAILED" => gateway[g].status = "failed"
  BY <1>1, <1>2, <1>3, ViewIs DEF Sound, KnowsGateway
<1>5. r \in Keys => gateway[g].for = r
  BY <1>4, ViewIs DEF Matches
<1>6. r \notin Keys => refund[r].gw = g
  BY <1>4, ViewIs DEF Matches
<1>7. g # NoGw /\ r # NoRefund /\ \A s \in Keys : s # NoRefund
  BY RefundIdsDistinct DEF Refs
<1>8. \A s \in Refs : refund[s].gw = g => s = r
  <2> SUFFICES ASSUME NEW s \in Refs, refund[s].gw = g
               PROVE  s = r
    OBVIOUS
  <2>1. CASE r \in Keys
    BY <1>5, <1>7, <2>1, Basics DEF Documents, DocsFit
  <2>2. CASE r \notin Keys
    BY <1>6, <1>7, <2>2, Basics DEF Documents, OneEntryEach, BookedOnce
  <2> QED BY <2>1, <2>2
<1>9. /\ Exists(refund[r]) /\ refund[r].amount = gateway[g].amount
      /\ gateway[g].for = IF r \in Keys THEN r ELSE NoRefund
      /\ refund[r].gw \in {g, NoGw}
  <2>1. CASE r \in Keys
    <3>1. Exists(refund[r]) /\ refund[r].amount = gateway[g].amount
      BY <1>5, <1>7, <2>1, Basics DEF Documents, GatewayFits
    <3>2. refund[r].gw # NoGw => gateway[refund[r].gw].for = r /\ refund[r].gw \in GwRefunds
      BY <2>1, Basics DEF Documents, DocsFit, Docs, RefundDoc
    <3>3. refund[r].gw # NoGw => refund[r].gw = g
      BY <1>5, <1>7, <2>1, <3>2, Basics DEF Documents, SentOnce
    <3> QED BY <1>5, <2>1, <3>1, <3>3
  <2>2. CASE r \notin Keys
    BY <1>6, <1>7, <2>2, Basics DEF Documents, DocsFit
  <2> QED BY <2>1, <2>2
<1> DEFINE d == [c EXCEPT !.pc = "move"]
<1>10. refund' = [refund EXCEPT ![r].gw = g, ![r].amount = gateway[g].amount] /\ Become(p, d)
  <2>1. OwnersOf(c.gw) \subseteq {c.ref}
    BY <1>3, <1>8 DEF OwnersOf
  <2> QED BY <1>3, <2>1 DEF StoreFacts, Goto
<1>11. /\ refund' \in Docs /\ refund'[r].gw = g
       /\ \A s \in Refs \ {r} : refund'[s] = refund[s]
       /\ \A s \in Refs : /\ refund'[s].status = refund[s].status
                          /\ refund'[s].amount = refund[s].amount
                          /\ refund'[s].review = refund[s].review
                          /\ refund'[s].impact = refund[s].impact
  <2> DEFINE amount == gateway[g].amount
             new == [refund[r] EXCEPT !.gw = g, !.amount = amount]
  <2>1. refund[r] \in RefundDoc /\ refund \in Docs /\ amount \in 0..Paid /\ amount = refund[r].amount
    BY <1>9, Basics DEF Docs, Razorpay, RazorpayRefund
  <2>2. refund' = [refund EXCEPT ![r] = new]
    BY <1>10, <2>1 DEF Docs
  <2> HIDE DEF amount
  <2>3. /\ new \in RefundDoc /\ new.gw = g /\ new.amount = amount /\ new.status = refund[r].status
        /\ new.review = refund[r].review /\ new.impact = refund[r].impact
    BY <2>1 DEF RefundDoc
  <2> HIDE DEF new
  <2>4. refund' \in Docs /\ refund'[r] = new /\ \A s \in Refs \ {r} : refund'[s] = refund[s]
    BY <2>1, <2>2, <2>3 DEF Docs
  <2> QED BY <2>1, <2>3, <2>4
<1> HIDE DEF d
<1>12. SameSums /\ Asked' = Asked /\ Total({"PROCESSED"}) <= Total({"PROCESSED"})'
  BY <1>11, SameAmounts
<1>13. TypeOK'
  BY <1>1, <1>11 DEF IInv, TypeOK, Docs
<1>14. Onward(refund, refund', gateway, gateway') /\ Sent
  BY <1>1, <1>9, <1>11 DEF Onward, Sent, Exists, Borne
<1>15. Documents'
  <2>1. DocsFit'
    <3> SUFFICES ASSUME NEW s \in Refs
                 PROVE  /\ ~Exists(refund'[s]) => refund'[s].gw = NoGw /\ ~refund'[s].review
                        /\ Exists(refund'[s]) => refund'[s].amount > 0 /\
                           (s \in Externals => refund'[s].gw # NoGw)
                        /\ refund'[s].status = "PROCESSED" => Returned(s, refund', gateway)
                        /\ refund'[s].gw # NoGw =>
                             /\ gateway[refund'[s].gw].status # "none"
                             /\ gateway[refund'[s].gw].amount = refund'[s].amount
                             /\ gateway[refund'[s].gw].for = IF s \in Keys THEN s ELSE NoRefund
      BY <1>1 DEF DocsFit, Returned, Exists
    <3>1. CASE s = r
      BY <1>4, <1>7, <1>9, <1>11, <3>1, Basics DEF Documents, DocsFit, Returned, Exists
    <3>2. CASE s # r
      BY <1>11, <3>2, Basics DEF Documents, DocsFit, Returned, Exists
    <3> QED BY <3>1, <3>2
  <2>2. GatewayFits'
    <3>1. AtGateway({"pending", "processed"})' = AtGateway({"pending", "processed"})
      BY <1>1, Sums
    <3>2. \A h \in GwRefunds : gateway[h].for # NoRefund => gateway[h].for \in Refs
      BY Basics DEF Razorpay, RazorpayRefund, Refs
    <3> QED BY <1>1, <1>11, <3>1, <3>2, Basics DEF Documents, GatewayFits, Exists
  <2>3. SentOnce' /\ RequestsFit'
    BY <1>1, <1>12, Basics DEF Documents, SentOnce, RequestsFit, Asked
  <2>4. BookedOnce'
    BY <1>8, <1>11, Basics DEF Documents, OneEntryEach, BookedOnce
  <2>5. ClawedBackOnce'
    <3>1. ASSUME NEW i \in DOMAIN adjustments
          PROVE  adjustments[i].ref \in Refs
      <4>1. adjustments \in Seq(DriverEarningAdjustment)
        BY DEF IInv, TypeOK
      <4>2. adjustments[i] \in DriverEarningAdjustment
        BY <4>1
      <4> QED BY <4>2 DEF DriverEarningAdjustment
    <3> QED BY <1>1, <1>11, <3>1, Basics DEF Documents, OneEntryEach, ClawedBackOnce
  <2> QED BY <2>1, <2>2, <2>3, <2>4, <2>5 DEF Documents, OneEntryEach
<1>16. /\ d \in CallType /\ d.pc = "move" /\ d.ref = r /\ d.gw = g /\ d.to = c.to /\ d.due = c.due
       /\ d.syncs = c.syncs /\ d.todo = c.todo /\ d.processed = c.processed
  <2>1. "move" \in Pc
    BY DEF Pc
  <2> HIDE DEF c
  <2> QED BY <1>2, <1>3, <2>1 DEF CallType, d
<1>17. call'[p] = d /\ Starts(p) /\ Others(p)
  <2>1. call'[p] = d /\ Others(p)
    BY <1>10, Becoming
  <2> QED BY <1>16, <2>1 DEF Starts, Pipeline
<1>18. \A q \in Calls : Undisturbed(call[q], View, View')
  <2>1. View'.razorpay = View.razorpay /\ View'.old = View.old /\ View'.asked = View.asked
        /\ View.asked \in Nat
    BY <1>1, <1>12, ViewIs, Basics DEF Views
  <2>2. \A q \in Calls : Sound(call[q], View)
    BY CallFacts
  <2> QED BY <2>1, <2>2 DEF Undisturbed, Sound, KnowsRefund
<1>19. Forward(View, View') /\ Sound(c, View')
  BY <1>10, <1>12, <1>13, <1>14, <1>17, <1>18, KnowsAfterwards
<1>20. c.to = "FAILED" /\ r \in Keys => r \in View'.dead
  <2> SUFFICES ASSUME c.to = "FAILED", r \in Keys
               PROVE  Dead(r)'
    BY ViewIs
  <2>1. \A h \in GwRefunds : gateway[h].for = r => gateway[h].status = "failed"
    BY <1>4, <1>5, <1>7, Basics DEF Documents, SentOnce
  <2>2. ASSUME NEW q \in Calls, Pipeline(call'[q])
        PROVE  call'[q].ref # r
    <3>1. Pipeline(call[q]) /\ call'[q].ref = call[q].ref
      BY <1>16, <1>17, <2>2, OthersKeep DEF Pipeline
    <3>2. \A h \in GwRefunds : gateway[h].for # call[q].ref
      BY <3>1, CallFacts, ViewIs DEF Sound, KnowsRefund
    <3> QED BY <1>5, <3>1, <3>2
  <2>3. Exists(refund'[r])
    BY <1>9, <1>11 DEF Exists
  <2> QED BY <1>1, <2>1, <2>2, <2>3 DEF Dead, Pipeline
<1>21. Sound(d, View')
  <2> HIDE DEF c
  <2>1. KnowsGateway(d, View')
    <3>1. Exists(refund'[r]) /\ (c.to = "PROCESSED" => Returned(r, refund', gateway))
      BY <1>4, <1>7, <1>9, <1>11 DEF Exists, Returned
    <3> QED BY <1>1, <1>4, <1>16, <1>20, <3>1, ViewIs DEF KnowsGateway
  <2>2. KnowsRefund(d, View') /\ KnowsSums(d, View')
    BY <1>1, <1>16, <1>19 DEF Sound, KnowsRefund, KnowsSums, Pipeline
  <2>3. KnowsList(d, View')
    <3>1. ASSUME c.syncs = "next", NEW h \in GwRefunds, gateway[h].for \in aged
          PROVE  \/ refund'[gateway[h].for].gw = h
                 \/ \E said \in Saids : <<h, said>> \in c.todo
      <4>1. \/ refund'[gateway[h].for].gw = h
            \/ \E said \in Saids : <<h, said>> \in c.todo
            \/ h = g
        BY <1>1, <1>3, <1>19, <3>1, ViewIs DEF Sound, KnowsList
      <4>2. h = g => gateway[h].for = r
        BY <1>9, <3>1, RefundIdsDistinct DEF IInv, TypeOK
      <4> QED BY <1>11, <4>1, <4>2
    <3>2. View'.razorpay = gateway /\ View'.old = aged /\ View'.docs = refund'
      BY <1>1, ViewIs
    <3> QED BY <1>1, <1>16, <1>19, <3>1, <3>2 DEF Sound, KnowsList
  <2> QED BY <1>16, <2>1, <2>2, <2>3 DEF Sound
<1>22. ~HoldsIt(d) /\ ~Writes(d) /\ Heading(d, refund')
       /\ ~HeadingForRide(call[p]) /\ call[p].pc # "ride"
  BY <1>1, <1>16 DEF HoldsIt, Writes, Heading, HeadingForRide
<1>23. \A k \in Keys : refund'[k].status = refund[k].status
  BY <1>11 DEF Refs
<1> HIDE DEF c
<1> QED BY <1>1, <1>10, <1>12, <1>13, <1>14, <1>15, <1>17, <1>18, <1>21, <1>22, <1>23, DocsStep

\* A status moves on.  Nothing returns from PROCESSED; what Razorpay is known not to
\* have is not booked as returned.
LEMMA TransitionStep ==
  ASSUME IInv, NEW p \in Calls, Transition(p)
  PROVE  IInv'
<1> DEFINE c == call[p]
<1>1. /\ c.pc = "move"
      /\ UNCHANGED <<bill, locked, ride, earning, adjustments, aged, gateway, failures>>
  BY Zenon DEF Transition, Running
<1>2. c \in CallType /\ Sound(c, View)
  BY CallFacts
<1>3. PICK r \in Refs, to \in Targets : r = c.ref /\ to = c.to
  BY <1>1, <1>2 DEF Sound, KnowsGateway
<1>4. /\ Exists(refund[r]) /\ (to = "PROCESSED" => Returned(r, refund, gateway))
      /\ to = "FAILED" /\ r \in Keys => r \in View.dead
  BY <1>1, <1>2, <1>3, ViewIs DEF Sound, KnowsGateway
<1>5. refund' = IF MayMove(refund[r].status, to) THEN [refund EXCEPT ![r].status = to] ELSE refund
  BY <1>3 DEF Transition
<1>6. /\ refund' \in Docs /\ \A s \in Refs \ {r} : refund'[s] = refund[s]
      /\ refund'[r].amount = refund[r].amount /\ refund'[r].gw = refund[r].gw
      /\ refund'[r].review = refund[r].review /\ refund'[r].impact = refund[r].impact
      /\ \/ refund' = refund
         \/ refund'[r].status = to /\ refund[r].status \in ALLOWED_FROM[to]
  <2>1. CASE refund' = refund
    BY <2>1, Basics
  <2>2. CASE refund' = [refund EXCEPT ![r].status = to] /\ MayMove(refund[r].status, to)
    BY <2>2, Basics DEF Docs, RefundDoc, Targets, ACTIVE_REFUND_STATUSES, MayMove
  <2> QED BY <1>5, <2>1, <2>2
<1>7. \/ refund' = refund
      \/ /\ to = "PENDING" /\ refund[r].status = "REQUESTED" /\ refund'[r].status = "PENDING"
      \/ /\ to = "PROCESSED" /\ refund[r].status \in {"REQUESTED", "PENDING", "FAILED"}
         /\ refund'[r].status = "PROCESSED"
      \/ /\ to = "FAILED" /\ refund[r].status \in {"REQUESTED", "PENDING"}
         /\ refund'[r].status = "FAILED"
  BY <1>6 DEF ALLOWED_FROM, Targets
<1>8. to = "PROCESSED" /\ r \in Keys => refund[r].status # "FAILED"
  <2> SUFFICES ASSUME to = "PROCESSED", r \in Keys, refund[r].status = "FAILED"
               PROVE  FALSE
    OBVIOUS
  <2>1. Dead(r)
    BY Basics DEF Handlers, RefusedIsDead
  <2>2. refund[r].gw \in GwRefunds /\ gateway[refund[r].gw].for = r
        /\ gateway[refund[r].gw].status = "processed"
    BY <1>4, Basics DEF Returned, Docs, RefundDoc, Documents, DocsFit
  <2> QED BY <2>1, <2>2 DEF Dead
<1>9. /\ Asked' <= Asked /\ Total({"PROCESSED"}) <= Total({"PROCESSED"})'
      /\ Asked \in Nat /\ Total({"PROCESSED"}) \in Nat
  <2>1. refund[r].amount \in Nat
    BY Basics, AmountsAreNatural DEF Docs, RefundDoc
  <2>2. /\ Total({"PROCESSED"})' \in Nat /\ Total({"PROCESSED"}) \in Nat
        /\ Total({"PROCESSED"})' + (IF refund[r].status \in {"PROCESSED"} THEN refund[r].amount ELSE 0)
             = Total({"PROCESSED"}) + (IF refund'[r].status \in {"PROCESSED"} THEN refund'[r].amount ELSE 0)
    BY <1>6, TotalMoves
  <2>3. /\ Asked' \in Nat /\ Asked \in Nat
        /\ Asked' + (IF r \in Keys /\ refund[r].status \in ACTIVE_REFUND_STATUSES
                     THEN refund[r].amount ELSE 0)
             = Asked + (IF r \in Keys /\ refund'[r].status \in ACTIVE_REFUND_STATUSES
                        THEN refund'[r].amount ELSE 0)
    BY <1>6, AskedMoves
  <2>4. refund[r].status \in {"PROCESSED"} => refund'[r].status \in {"PROCESSED"}
    BY <1>7
  <2>5. r \in Keys /\ refund'[r].status \in ACTIVE_REFUND_STATUSES =>
          refund[r].status \in ACTIVE_REFUND_STATUSES
    BY <1>7, <1>8 DEF ACTIVE_REFUND_STATUSES
  <2> QED BY <1>6, <2>1, <2>2, <2>3, <2>4, <2>5
<1>10. TypeOK'
  BY <1>1, <1>6 DEF IInv, TypeOK, Docs
<1>11. Onward(refund, refund', gateway, gateway') /\ Sent
  <2>1. Exists(refund'[r]) /\ (Borne(refund[r]) => Borne(refund'[r]))
    BY <1>4, <1>6, <1>7 DEF Exists, Borne
  <2> QED BY <1>1, <1>6, <2>1 DEF Onward, Sent
<1>12. Documents'
  <2>1. DocsFit'
    <3> SUFFICES ASSUME NEW s \in Refs
                 PROVE  /\ ~Exists(refund'[s]) => refund'[s].gw = NoGw /\ ~refund'[s].review
                        /\ Exists(refund'[s]) => refund'[s].amount > 0 /\
                           (s \in Externals => refund'[s].gw # NoGw)
                        /\ refund'[s].status = "PROCESSED" => Returned(s, refund', gateway)
                        /\ refund'[s].gw # NoGw =>
                             /\ gateway[refund'[s].gw].status # "none"
                             /\ gateway[refund'[s].gw].amount = refund'[s].amount
                             /\ gateway[refund'[s].gw].for = IF s \in Keys THEN s ELSE NoRefund
      BY <1>1 DEF DocsFit, Returned, Exists
    <3>1. CASE s = r
      <4>1. refund'[r].status = "PROCESSED" => Returned(r, refund, gateway)
        BY <1>4, <1>7, Basics DEF Documents, DocsFit
      <4> QED BY <1>4, <1>6, <1>11, <3>1, <4>1, Basics DEF Onward, Documents, DocsFit, Returned
    <3>2. CASE s # r
      BY <1>6, <3>2, Basics DEF Documents, DocsFit, Returned
    <3> QED BY <3>1, <3>2
  <2>2. GatewayFits'
    <3>1. AtGateway({"pending", "processed"})' = AtGateway({"pending", "processed"})
      BY <1>1, Sums
    <3>2. \A g \in GwRefunds : gateway[g].for # NoRefund => gateway[g].for \in Refs
      BY Basics DEF Razorpay, RazorpayRefund, Refs
    <3>3. \A s \in Refs : refund'[s].amount = refund[s].amount
      BY <1>6
    <3> QED BY <1>1, <1>11, <3>1, <3>2, <3>3, Basics DEF Onward, Documents, GatewayFits
  <2>3. SentOnce' /\ RequestsFit'
    <3>1. Asked' \in Nat
      BY <1>10, ViewIs, ViewIsOne DEF Views
    <3>2. Asked' <= Paid
      BY <1>9, <3>1, Basics, AmountsAreNatural DEF Documents, RequestsFit, Asked
    <3> QED BY <1>1, <3>2, Basics DEF Documents, SentOnce, RequestsFit, Asked
  <2>4. BookedOnce'
    BY <1>6, Basics DEF Documents, OneEntryEach, BookedOnce
  <2>5. ClawedBackOnce'
    <3>1. ASSUME NEW i \in DOMAIN adjustments
          PROVE  adjustments[i].ref \in Refs
      <4>1. adjustments \in Seq(DriverEarningAdjustment)
        BY DEF IInv, TypeOK
      <4>2. adjustments[i] \in DriverEarningAdjustment
        BY <4>1
      <4> QED BY <4>2 DEF DriverEarningAdjustment
    <3> QED BY <1>1, <1>11, <3>1, Basics DEF Onward, Borne, Documents, OneEntryEach, ClawedBackOnce
  <2> QED BY <2>1, <2>2, <2>3, <2>4, <2>5 DEF Documents, OneEntryEach
<1> DEFINE due == Due(refund'[r])
           d == [c EXCEPT !.pc = "totals", !.after = "ride", !.due = due, !.gw = NoGw, !.to = "REQUESTED"]
<1>13. due \in {"nothing", "mark", "clawback"} /\ (due = "clawback" => Borne(refund'[r]))
  <2>1. refund'[r] \in RefundDoc
    BY <1>6 DEF Docs
  <2> QED BY <2>1, DueIs
<1>14. Become(p, d)
  BY <1>3 DEF Transition
<1> HIDE DEF due
<1>15. /\ d \in CallType /\ d.pc = "totals" /\ d.ref = r /\ d.after = "ride" /\ d.due = due
       /\ d.syncs = c.syncs /\ d.todo = c.todo /\ d.processed = c.processed
  <2>1. "totals" \in Pc
    BY DEF Pc
  <2> HIDE DEF c
  <2> QED BY <1>2, <1>3, <1>13, <2>1 DEF CallType
<1> HIDE DEF d
<1>16. call'[p] = d /\ Starts(p)
  <2>1. call'[p] = d
    BY <1>14, Becoming
  <2> QED BY <1>15, <2>1 DEF Starts, Pipeline
<1>17. \A q \in Calls : Undisturbed(call[q], View, View')
  <2>1. View'.razorpay = View.razorpay /\ View'.old = View.old /\ View'.asked <= View.asked
    BY <1>1, <1>9, ViewIs
  <2>2. \A q \in Calls : Sound(call[q], View)
    BY CallFacts
  <2> QED BY <2>1, <2>2 DEF Undisturbed, Sound, KnowsRefund
<1>18. Forward(View, View') /\ Sound(c, View')
  BY <1>9, <1>10, <1>11, <1>14, <1>16, <1>17, KnowsAfterwards
<1>19. Sound(d, View')
  <2>1. KnowsRefund(d, View')
    BY <1>3, <1>13, <1>15, ViewIs DEF KnowsRefund, Pipeline
  <2> HIDE DEF c
  <2> QED BY <1>1, <1>15, <1>18, <2>1 DEF Sound, KnowsGateway, KnowsSums, KnowsList
<1>20. ~HoldsIt(d) /\ ~Writes(d) /\ Heading(d, refund') /\ HeadingForRide(d)
  BY <1>15 DEF HoldsIt, Writes, Heading, HeadingForRide
<1>21. \A k \in Keys : refund'[k].status = "FAILED" /\ refund[k].status # "FAILED" => k \in View'.dead
  <2> SUFFICES ASSUME NEW k \in Keys, refund'[k].status = "FAILED", refund[k].status # "FAILED"
               PROVE  k \in View'.dead
    OBVIOUS
  <2>1. k = r /\ to = "FAILED"
    BY <1>6, <1>7 DEF Refs
  <2> QED BY <1>4, <1>18, <2>1 DEF Forward
<1> HIDE DEF c
<1> QED BY <1>1, <1>9, <1>10, <1>11, <1>12, <1>14, <1>16, <1>17, <1>19, <1>20, <1>21, DocsStep

\* Razorpay makes the refund: it has none for this request, and nobody else sends it.
LEMMA SubmitAcceptedStep ==
  ASSUME IInv, NEW p \in Calls, NEW g \in GwRefunds, SubmitAccepted(p, g)
  PROVE  IInv'
<1> DEFINE c == call[p]
<1>1. /\ c.pc = "submit" /\ gateway[g].status = "none"
      /\ UNCHANGED <<bill, locked, ride, earning, refund, adjustments, aged, failures>>
  BY DEF SubmitAccepted, Running, money
<1>2. c \in CallType /\ Sound(c, View) /\ Pipeline(c)
  BY <1>1, CallFacts DEF Pipeline
<1>3. PICK r \in Keys : r = c.ref /\ Exists(refund[r]) /\ \A h \in GwRefunds : gateway[h].for # r
  BY <1>2, ViewIs DEF Sound, KnowsRefund
<1>4. r \in Refs /\ r # NoRefund /\ NoGw \notin GwRefunds
  BY RefundIdsDistinct DEF Refs
<1> DEFINE amount == refund[r].amount
<1>5. amount \in 0..Paid /\ amount \in Nat /\ amount > 0 /\ amount <= LeftAtGateway
  BY <1>3, <1>4, Basics, AmountsAreNatural
     DEF Docs, RefundDoc, Documents, DocsFit, SubmitAccepted
<1>6. PICK said \in {"pending", "processed"} :
        /\ gateway' = [gateway EXCEPT ![g] = [status |-> said, amount |-> amount, for |-> r]]
        /\ Become(p, Idle) \/ Become(p, Apply(Idle, r, g, said))
  BY <1>3 DEF SubmitAccepted
<1> DEFINE new == [status |-> said, amount |-> amount, for |-> r]
<1> HIDE DEF amount
<1>7. /\ new \in RazorpayRefund /\ new.status = said /\ new.amount = amount /\ new.for = r
      /\ gateway' = [gateway EXCEPT ![g] = new]
  BY <1>5, <1>6 DEF RazorpayRefund
<1> HIDE DEF new
<1>8. gateway' \in Razorpay /\ gateway'[g] = new /\ \A h \in GwRefunds \ {g} : gateway'[h] = gateway[h]
  BY <1>7, Basics DEF Razorpay
<1>9. gateway[g].for = NoRefund
  BY <1>1, Basics DEF Documents, GatewayFits
<1>10. TypeOK'
  BY <1>1, <1>8 DEF IInv, TypeOK, Razorpay
<1>11. Onward(refund, refund', gateway, gateway') /\ Sent
  <2>1. Onward(refund, refund', gateway, gateway')
    BY <1>1, <1>8 DEF Onward
  <2>2. Sent
    BY <1>2, <1>3, <1>7, <1>8 DEF Sent
  <2> QED BY <2>1, <2>2
<1>12. SameSums /\ Asked' = Asked /\ Total({"PROCESSED"}) <= Total({"PROCESSED"})'
  BY <1>1, SameAmounts, Basics
<1>13. AtGateway({"pending", "processed"})' <= Paid
  <2> DEFINE X == {"pending", "processed"}
             s == GwSum(gateway, X)
             t == GwSum(gateway', X)
  <2>1. t + (IF gateway[g].status \in X THEN gateway[g].amount ELSE 0)
          = s + (IF gateway'[g].status \in X THEN gateway'[g].amount ELSE 0)
    <3>1. gateway \in Razorpay /\ gateway' \in Razorpay
      BY <1>8, Basics
    <3> QED BY <1>8, <3>1, GwSumMoves
  <2>2. s \in Nat /\ t \in Nat /\ LeftAtGateway = Paid - s /\ AtGateway(X)' = t
    <3>1. s \in Nat /\ t \in Nat
      BY <1>8, Basics, GwSumIsNatural
    <3>2. LeftAtGateway = Paid - s /\ AtGateway(X)' = t
      BY Sums DEF LeftAtGateway
    <3> QED BY <3>1, <3>2
  <2> HIDE DEF s, t
  <2>3. t = s + amount
    BY <1>1, <1>5, <1>7, <1>8, <2>1, <2>2
  <2> QED BY <1>5, <2>2, <2>3, AmountsAreNatural
<1>14. Documents'
  <2>1. DocsFit'
    <3> SUFFICES ASSUME NEW s \in Refs
                 PROVE  /\ ~Exists(refund[s]) => refund[s].gw = NoGw /\ ~refund[s].review
                        /\ Exists(refund[s]) => refund[s].amount > 0 /\
                           (s \in Externals => refund[s].gw # NoGw)
                        /\ refund[s].status = "PROCESSED" => Returned(s, refund, gateway')
                        /\ refund[s].gw # NoGw =>
                             /\ gateway'[refund[s].gw].status # "none"
                             /\ gateway'[refund[s].gw].amount = refund[s].amount
                             /\ gateway'[refund[s].gw].for = IF s \in Keys THEN s ELSE NoRefund
      BY <1>1 DEF DocsFit, Returned, Exists
    <3>1. refund[s].gw \in GwRefunds \cup {NoGw}
      BY Basics DEF Docs, RefundDoc
    <3>2. refund[s].gw # g
      BY <1>1, <1>4, Basics DEF Documents, DocsFit
    <3> QED BY <1>8, <3>1, <3>2, Basics DEF Documents, DocsFit, Returned
  <2>2. GatewayFits'
    <3>1. ASSUME NEW h \in GwRefunds
          PROVE  /\ gateway'[h].status # "none" => gateway'[h].amount > 0
                 /\ gateway'[h].for # NoRefund =>
                      /\ gateway'[h].status # "none" /\ Exists(refund[gateway'[h].for])
                      /\ gateway'[h].amount = refund[gateway'[h].for].amount
      <4>1. CASE h = g
        BY <1>3, <1>5, <1>7, <1>8, <4>1 DEF amount
      <4>2. CASE h # g
        BY <1>8, <4>2, Basics DEF Documents, GatewayFits
      <4> QED BY <4>1, <4>2
    <3> QED BY <1>1, <1>13, <3>1 DEF GatewayFits, Exists
  <2>3. SentOnce'
    BY <1>3, <1>7, <1>8, Basics DEF Documents, SentOnce
  <2>4. OneEntryEach' /\ RequestsFit'
    BY <1>1, Basics DEF Documents, OneEntryEach, BookedOnce, ClawedBackOnce, RequestsFit, Amounts
  <2> QED BY <2>1, <2>2, <2>3, <2>4 DEF Documents
<1>15. \A q \in Calls \ {p} : Undisturbed(call[q], View, View')
  <2> SUFFICES ASSUME NEW q \in Calls, q # p
               PROVE  Undisturbed(call[q], View, View')
    OBVIOUS
  <2>1. View'.razorpay = gateway' /\ View.razorpay = gateway /\ View'.old = aged /\ View.old = aged
        /\ View'.asked = View.asked /\ View.asked \in Nat
    BY <1>1, <1>12, ViewIs, Basics DEF Views
  <2>2. r \notin aged
    BY <1>2, <1>3, Basics DEF Handlers, AgedIsIdle
  <2>3. \A h \in GwRefunds : gateway'[h].for \in aged =>
          gateway[h].for \in aged /\ gateway[h].for = gateway'[h].for
    BY <1>7, <1>8, <2>2
  <2>4. Pipeline(call[q]) => \A h \in GwRefunds : gateway'[h].for # call[q].ref
    <3> SUFFICES ASSUME Pipeline(call[q]), NEW h \in GwRefunds
                 PROVE  gateway'[h].for # call[q].ref
      OBVIOUS
    <3>1. call[q].ref # r
      BY <1>2, <1>3, Basics DEF Handlers, OneSender
    <3>2. gateway[h].for # call[q].ref
      BY CallFacts, ViewIs DEF Sound, KnowsRefund
    <3> QED BY <1>7, <1>8, <3>1, <3>2
  <2> QED BY <2>1, <2>3, <2>4 DEF Undisturbed
<1>16. ASSUME NEW d, Become(p, d), Sound(d, View'), d.pc \in {"idle", "facts"}
       PROVE  IInv'
  <2>1. call'[p] = d
    BY <1>16, Becoming
  <2>2. ~HoldsIt(d) /\ ~Writes(d) /\ ~Pipeline(d) /\ ~Heading(call[p], refund)
        /\ ~HeadingForRide(call[p]) /\ call[p].pc # "ride"
    BY <1>1, <1>16 DEF HoldsIt, Writes, Pipeline, Heading, HeadingForRide
  <2>3. Starts(p)
    BY <2>1, <2>2 DEF Starts
  <2>4. \A k \in Keys : refund'[k].status = refund[k].status
    BY <1>1
  <2> HIDE DEF c
  <2> QED BY <1>1, <1>10, <1>11, <1>12, <1>14, <1>15, <1>16, <2>2, <2>3, <2>4, DocsStep
<1>17. CASE Become(p, Idle)
  <2>1. Sound(Idle, View')
    BY <1>10, ViewIsOne, IdleIs
  <2> QED BY <1>16, <1>17, <2>1, IdleIs
<1>18. CASE Become(p, Apply(Idle, r, g, said))
  <2> DEFINE to == STATUS_FOR[said]
             d == [Idle EXCEPT !.pc = "facts", !.ref = r, !.gw = g, !.to = to]
  <2>1. Become(p, d)
    BY <1>18 DEF Apply
  <2>2. to \in Targets /\ (to = "PROCESSED" => said = "processed") /\ to # "FAILED"
    BY DEF STATUS_FOR, Targets
  <2> HIDE DEF to
  <2>3. /\ d \in CallType /\ d.pc = "facts" /\ d.ref = r /\ d.gw = g /\ d.to = to
        /\ d.processed = 0 /\ d.due = "nothing" /\ d.syncs = "no"
    <3>1. g \in GwRefunds \cup {NoGw} /\ to \in Targets \cup {"REQUESTED"} /\ "facts" \in Pc
      BY <2>2 DEF Pc
    <3> QED BY <1>4, <3>1, IdleIs DEF CallType
  <2> HIDE DEF d
  <2>4. KnowsGateway(d, View')
    BY <1>3, <1>4, <1>7, <1>8, <2>2, <2>3, ViewIs DEF KnowsGateway, Matches
  <2>5. Views(View')
    BY <1>10, ViewIsOne
  <2>6. Sound(d, View')
    BY <2>3, <2>4, <2>5 DEF Sound, KnowsRefund, KnowsSums, KnowsList, Pipeline, Views
  <2> QED BY <1>16, <2>1, <2>3, <2>6
<1> QED BY <1>6, <1>17, <1>18

-----------------------------------------------------------------------------
(* The totals.                                                             *)

\* An attempt at the totals that has read the refunds: its numbers are right.
LEMMA SumRefundsStep ==
  ASSUME IInv, NEW p \in Calls, SumRefunds(p)
  PROVE  IInv'
<1> DEFINE c == call[p]
           n == Total({"PROCESSED"})
           m == Total(UNSETTLED)
           d == [c EXCEPT !.pc = "write", !.fresh = TRUE, !.processed = n, !.pending = m]
<1>1. /\ c.pc = "totals" /\ Become(p, d)
      /\ UNCHANGED <<money, aged, gateway>> /\ failures' = failures
  BY DEF SumRefunds, Running
<1>2. c \in CallType /\ Sound(c, View) /\ n \in Nat /\ m \in Nat
  <2>1. Refs \in SUBSET Refs
    OBVIOUS
  <2> QED BY <2>1, CallFacts, Basics, Sums, SumOfIsNatural
<1>3. View.sum = n
  BY ViewIs
<1>4. n' = n /\ m' = m /\ Onward(refund, refund', gateway, gateway')
  BY <1>1, StandsStill DEF SameSums, money
<1>5. UNCHANGED <<bill, ride, earning, refund, adjustments, aged, gateway>> /\ locked' = locked
  BY <1>1 DEF money
<1> HIDE DEF n, m
<1>6. /\ d \in CallType /\ d.pc = "write" /\ d.fresh = TRUE /\ d.ref = c.ref /\ d.due = c.due
      /\ d.syncs = c.syncs /\ d.todo = c.todo /\ d.processed = n /\ d.pending = m
      /\ d.after = c.after
  <2>1. "write" \in Pc
    BY DEF Pc
  <2> HIDE DEF c
  <2> QED BY <1>2, <2>1 DEF CallType
<1>7. call'[p] = d /\ Others(p) /\ call' = [q \in Calls |-> call'[q]]
  BY <1>1, Becoming
<1>8. TypeOK' /\ Documents' /\ RideBehind'
  BY <1>4, <1>5, <1>1, DocumentsKept DEF IInv, TypeOK, RideBehind, n
<1> HIDE DEF d
<1>9. /\ HoldsIt(d) => HoldsIt(c)
      /\ Pipeline(d) => Pipeline(c)
      /\ HeadingForRide(c) => HeadingForRide(d)
      /\ Heading(d, refund')
      /\ \A k : ~MovesRide(c, k)
  BY <1>1, <1>6 DEF HoldsIt, Pipeline, Heading, HeadingForRide, MovesRide
<1>10. Sound(d, View)
  <2> HIDE DEF c
  <2> QED BY <1>1, <1>2, <1>3, <1>6 DEF Sound, KnowsGateway, KnowsRefund, KnowsSums, KnowsList, Pipeline
<1>11. Handlers'
  BY <1>5, <1>6, <1>7, <1>8, <1>9, <1>10, QuietHandlers
<1>12. LockOK'
  BY <1>5, <1>7, <1>9, LockKept
<1> HIDE DEF c
<1>13. \A q \in Calls \ {p} : /\ HeadingForRide(call[q]) => HeadingForRide(call'[q])
                              /\ \A k : MovesRide(call[q], k) => MovesRide(call'[q], k)
                              /\ Writes(call'[q]) => call'[q] = call[q] /\ Writes(call[q])
  BY <1>4, <1>7, HeadingStays DEF Others
<1>14. BillFollows'
  <2> SUFFICES ASSUME failures = 0
               PROVE  /\ \E q \in Calls : Heading(call'[q], refund')
                      /\ \A q \in Calls : Writes(call'[q]) =>
                           \/ call'[q].processed = n' /\ call'[q].pending = m'
                           \/ \E s \in Calls \ {q} : Heading(call'[s], refund')
    BY <1>1 DEF BillFollows, Writes, Heading, n, m
  <2> QED BY <1>4, <1>6, <1>7, <1>9
<1>15. RideFollows'
  <2> SUFFICES ASSUME failures = 0
               PROVE  /\ earning' /\ ride'.status # "PENDING"
                      /\ \/ ride'.status = RideFor(n')
                         \/ \E q \in Calls : HeadingForRide(call'[q]) \/ MovesRide(call'[q], n')
                      /\ \A q \in Calls : Writes(call'[q]) =>
                           \/ call'[q].processed = n'
                           \/ \E s \in Calls \ {q} : HeadingForRide(call'[s])
    BY <1>1 DEF RideFollows, Writes, HeadingForRide, MovesRide, RideFor, StatusFor, n
  <2>1. /\ earning /\ ride.status # "PENDING"
        /\ \/ ride.status = RideFor(n)
           \/ \E q \in Calls : HeadingForRide(call[q]) \/ MovesRide(call[q], n)
        /\ \A q \in Calls : Writes(call[q]) =>
             \/ call[q].processed = n
             \/ \E s \in Calls \ {q} : HeadingForRide(call[s])
    BY DEF IInv, RideFollows, n
  <2>2. ASSUME NEW q \in Calls, HeadingForRide(call[q]) PROVE HeadingForRide(call'[q])
    BY <1>7, <1>9, <1>13, <2>2 DEF c
  <2>3. ASSUME NEW q \in Calls, MovesRide(call[q], n) PROVE MovesRide(call'[q], n)
    BY <1>9, <1>13, <2>3 DEF c
  <2>4. ASSUME NEW q \in Calls, Writes(call'[q])
        PROVE  call'[q].processed = n \/ \E s \in Calls \ {q} : HeadingForRide(call'[s])
    <3>1. CASE q = p
      BY <1>6, <1>7, <3>1
    <3>2. CASE q # p
      BY <1>13, <2>1, <2>2, <2>4, <3>2
    <3> QED BY <3>1, <3>2
  <2> QED BY <1>4, <1>5, <2>1, <2>2, <2>3, <2>4
<1> QED BY <1>8, <1>11, <1>12, <1>14, <1>15 DEF IInv

\* An attempt whose numbers were overtaken reads the refunds again.
LEMMA OvertakenStep ==
  ASSUME IInv, NEW p \in Calls, WriteTotals(p), ~call[p].fresh
  PROVE  IInv'
<1> DEFINE c == call[p]
           d == [c EXCEPT !.pc = "totals", !.processed = 0, !.pending = 0]
<1>1. /\ c.pc = "write" /\ Become(p, d) /\ bill' = bill
      /\ UNCHANGED <<locked, ride, earning, refund, adjustments, aged, gateway, failures>>
  BY DEF WriteTotals, Running, Fresh
<1>2. c \in CallType /\ Sound(c, View) /\ Views(View)
  BY CallFacts, Basics
<1>3. UNCHANGED <<money, aged, gateway>> /\ failures' = failures
  BY <1>1 DEF money
<1>4. /\ d \in CallType /\ d.pc = "totals" /\ d.ref = c.ref /\ d.due = c.due
      /\ d.syncs = c.syncs /\ d.todo = c.todo /\ d.processed = 0 /\ d.after = c.after
  <2>1. "totals" \in Pc
    BY DEF Pc
  <2> HIDE DEF c
  <2> QED BY <1>2, <2>1 DEF CallType
<1> HIDE DEF c, d
<1>5. Sound(d, View)
  <2>1. KnowsGateway(d, View) /\ KnowsSums(d, View)
    BY <1>2, <1>4 DEF KnowsGateway, KnowsSums, Views
  <2>2. KnowsRefund(d, View)
    BY <1>1, <1>2, <1>4 DEF Sound, KnowsRefund, Pipeline
  <2>3. KnowsList(d, View)
    BY <1>1, <1>2, <1>4 DEF Sound, KnowsList
  <2> QED BY <1>4, <2>1, <2>2, <2>3 DEF Sound
<1>6. /\ Pipeline(d) => Pipeline(c) /\ d.ref = c.ref
      /\ HoldsIt(d) => HoldsIt(c)
      /\ GoesOn(c, d)
  BY <1>1, <1>4 DEF Pipeline, HoldsIt, GoesOn, Heading, HeadingForRide, Writes
<1> QED BY <1>1, <1>3, <1>5, <1>6, OnlyCall DEF c

\* The write: the bill follows the refunds, or somebody else still comes to it; the
\* ride is next if it has to change.
LEMMA FreshWriteStep ==
  ASSUME IInv, NEW p \in Calls, WriteTotals(p), call[p].fresh
  PROVE  IInv'
<1> DEFINE c == call[p]
           e == Unpending(Stale(c))
           d == AfterTotals(e, TRUE)
           n == Total({"PROCESSED"})
           m == Total(UNSETTLED)
<1>1. c.pc = "write" /\ UNCHANGED <<locked, ride, earning, refund, adjustments, aged, gateway, failures>>
  BY Zenon DEF WriteTotals, Running
<1>2. c \in CallType /\ Sound(c, View) /\ Views(View) /\ n \in Nat /\ m \in Nat /\ View.sum = n
  <2>1. Refs \in SUBSET Refs
    OBVIOUS
  <2>2. n \in Nat /\ m \in Nat
    BY <2>1, Basics, Sums, SumOfIsNatural
  <2>3. View.sum = n
    BY ViewIs
  <2> HIDE DEF n, m
  <2> QED BY <2>2, <2>3, CallFacts, Basics
<1>3. bill' = [status |-> StatusFor(c.processed), refunded |-> c.processed, pending |-> c.pending]
  BY DEF WriteTotals, Fresh
<1>4. call' = [q \in Calls |-> IF q = p THEN d ELSE Stale(call[q])]
  <2>1. call' = [q \in Calls |->
                  IF q = p THEN AfterTotals([c EXCEPT !.fresh = FALSE, !.pending = 0], TRUE)
                           ELSE [call[q] EXCEPT !.fresh = FALSE]]
    BY DEF WriteTotals, Fresh
  <2>2. e = [c EXCEPT !.fresh = FALSE, !.pending = 0]
    <3> HIDE DEF c
    <3> QED BY <1>2 DEF Unpending, Stale, CallType
  <2> HIDE DEF e
  <2> QED BY <2>1, <2>2 DEF Stale
<1>5. /\ e \in CallType /\ Sound(e, View) /\ e.pc = "write" /\ e.ref = c.ref /\ e.after = c.after
      /\ e.processed = c.processed /\ (Pipeline(e) => Pipeline(c)) /\ (HoldsIt(e) => HoldsIt(c))
  <2> DEFINE s == Stale(c)
  <2>1. /\ s \in CallType /\ Sound(s, View) /\ s.pc = "write" /\ s.ref = c.ref
        /\ s.after = c.after /\ s.processed = c.processed
    <3> HIDE DEF c
    <3> QED BY <1>1, <1>2, StaleIsSound
  <2>2. (Pipeline(s) => Pipeline(c)) /\ (HoldsIt(s) => HoldsIt(c))
    BY <1>1, <2>1 DEF Pipeline, HoldsIt
  <2> HIDE DEF c, s
  <2> QED BY <2>1, <2>2, UnpendingIsSound DEF s
<1> HIDE DEF e
<1>6. /\ Sound(d, View) /\ d.pc \in Leaving \cup {"unlock", "ride"}
      /\ Pipeline(d) => Pipeline(c) /\ d.ref = c.ref
      /\ HoldsIt(d) => HoldsIt(c)
      /\ c.after = "ride" /\ c.processed > 0 => d.pc = "ride" /\ d.processed = c.processed
  BY <1>2, <1>5, AfterTotalsIsSound
<1> HIDE DEF d, n, m
<1>7. call'[p] = d /\ Others(p) /\ call' = [q \in Calls |-> call'[q]]
  BY <1>4 DEF Others
<1>8. n' = n /\ m' = m /\ Onward(refund, refund', gateway, gateway')
  BY <1>1, StandsStill DEF SameSums, n, m
<1>9. TypeOK'
  <2>1. n <= Paid
    BY ReturnedFits, Basics DEF IInv, Documents, OneEntryEach, n
  <2>2. c.processed \in 0..Paid /\ c.pending \in Nat
    <3>1. c.processed \in Nat /\ c.pending \in Nat /\ c.processed <= n
      BY <1>2 DEF CallType, Sound, KnowsSums
    <3> QED BY <1>2, <2>1, <3>1, AmountsAreNatural
  <2>3. bill' \in RefundTotals
    <3>1. StatusFor(c.processed) \in {"CAPTURED", "PARTIALLY_REFUNDED", "REFUNDED"}
      BY DEF StatusFor
    <3> HIDE DEF c
    <3> QED BY <1>3, <2>2, <3>1 DEF RefundTotals
  <2> QED BY <1>1, <2>3 DEF IInv, TypeOK
<1>10. Documents' /\ RideBehind'
  BY <1>1, <1>8, DocumentsKept DEF IInv, RideBehind, n
<1>11. Handlers'
  BY <1>1, <1>6, <1>7, <1>9, QuietHandlers
<1>12. LockOK'
  BY <1>1, <1>6, <1>7, LockKept
<1>13. \A q \in Calls \ {p} : /\ Heading(call[q], refund) => Heading(call'[q], refund')
                              /\ HeadingForRide(call[q]) => HeadingForRide(call'[q])
                              /\ \A k : MovesRide(call[q], k) => MovesRide(call'[q], k)
  BY <1>7, <1>8, HeadingStays DEF Others
<1>14. \A q \in Calls : ~Writes(call'[q])
  <2> SUFFICES ASSUME NEW q \in Calls PROVE ~Writes(call'[q])
    OBVIOUS
  <2>1. CASE q = p
    BY <1>6, <1>7, <2>1 DEF Writes, Leaving
  <2>2. CASE q # p
    <3>1. call'[q] = Stale(call[q]) /\ call[q] \in CallType
      BY <1>4, <2>2, CallFacts
    <3>2. Stale(call[q]).fresh = FALSE
      BY <3>1, StaleIsSound
    <3> QED BY <3>1, <3>2 DEF Writes
  <2> QED BY <2>1, <2>2
<1>15. Writes(call[p])
  BY <1>1 DEF Writes
<1>16. BillFollows'
  <2> SUFFICES ASSUME failures = 0
               PROVE  TotalsRight' \/ \E q \in Calls : Heading(call'[q], refund')
    BY <1>1, <1>14 DEF BillFollows, Writes, Heading
  <2>1. CASE c.processed = n /\ c.pending = m
    <3>1. TotalsRight'
      BY <1>3, <1>8, <2>1 DEF TotalsRight, StatusFor, n, m
    <3> QED BY <3>1
  <2>2. CASE \E q \in Calls \ {p} : Heading(call[q], refund)
    BY <1>13, <2>2
  <2> QED BY <1>15, <2>1, <2>2 DEF IInv, BillFollows, n, m
<1>17. RideFollows'
  <2> SUFFICES ASSUME failures = 0
               PROVE  /\ earning' /\ ride'.status # "PENDING"
                      /\ \/ ride'.status = RideFor(n')
                         \/ \E q \in Calls : HeadingForRide(call'[q]) \/ MovesRide(call'[q], n')
    BY <1>1, <1>14 DEF RideFollows, Writes, HeadingForRide, MovesRide, RideFor, StatusFor, n
  <2>1. /\ earning /\ ride.status # "PENDING"
        /\ \/ ride.status = RideFor(n)
           \/ \E q \in Calls : HeadingForRide(call[q]) \/ MovesRide(call[q], n)
        /\ \/ c.processed = n
           \/ \E q \in Calls \ {p} : HeadingForRide(call[q])
    BY <1>15 DEF IInv, RideFollows, n
  <2>2. CASE ride.status = RideFor(n)
    BY <1>1, <1>8, <2>1, <2>2
  <2>3. CASE \E q \in Calls \ {p} : HeadingForRide(call[q]) \/ MovesRide(call[q], n)
    BY <1>1, <1>8, <1>13, <2>1, <2>3
  <2>4. CASE HeadingForRide(c) /\ c.processed = n
    <3>1. c.after = "ride"
      BY <2>4 DEF HeadingForRide
    <3>2. CASE n > 0
      <4>1. MovesRide(call'[p], n')
        BY <1>6, <1>7, <1>8, <2>4, <3>1, <3>2 DEF MovesRide
      <4> QED BY <1>1, <2>1, <4>1
    <3>3. CASE n = 0
      <4>1. ride.status \in {"PENDING", "SUCCESS", "PARTIALLY_REFUNDED", "REFUNDED"}
        BY DEF IInv, TypeOK, RidePaymentSummary
      <4>2. ride.status = "SUCCESS"
        BY <2>1, <3>3, <4>1, AmountsAreNatural DEF IInv, RideBehind, n
      <4> QED BY <1>1, <1>8, <2>1, <3>3, <4>2 DEF RideFor
    <3> QED BY <1>2, <3>2, <3>3
  <2>5. ~MovesRide(c, n)
    BY <1>1 DEF MovesRide
  <2> QED BY <2>1, <2>2, <2>3, <2>4, <2>5
<1> QED BY <1>9, <1>10, <1>11, <1>12, <1>16, <1>17 DEF IInv

LEMMA WriteTotalsStep ==
  ASSUME IInv, NEW p \in Calls, WriteTotals(p)
  PROVE  IInv'
  BY OvertakenStep, FreshWriteStep

\* afterChange moves the ride on, never back: what it writes was returned.
LEMMA MoveRideStep ==
  ASSUME IInv, NEW p \in Calls, MoveRide(p)
  PROVE  IInv'
<1> DEFINE c == call[p]
           e == [c EXCEPT !.processed = 0]
           d == LedgerStep(e)
           n == Total({"PROCESSED"})
<1>1. /\ c.pc = "ride" /\ Become(p, d)
      /\ UNCHANGED <<bill, locked, earning, refund, adjustments, aged, gateway>>
      /\ failures' = failures
  BY Zenon DEF MoveRide, Running
<1>2. c \in CallType /\ Sound(c, View) /\ Views(View) /\ View.sum = n
  BY CallFacts, Basics, ViewIs
<1>3. n \in Nat /\ n <= Paid
  BY Basics, ViewIs, ReturnedFits DEF Views, IInv, Documents, OneEntryEach
<1> HIDE DEF n
<1>4. c.processed \in Nat /\ c.processed > 0 /\ c.processed <= n /\ c.processed <= Paid
  BY <1>1, <1>2, <1>3, AmountsAreNatural DEF CallType, Sound, KnowsSums
<1>5. \/ ride.status \in RideFrom
         /\ ride' = [status |-> StatusFor(c.processed), refunded |-> c.processed]
      \/ ride.status \notin RideFrom /\ ride' = ride
  BY DEF MoveRide
<1>6. Sound(d, View) /\ d.pc \in Leaving
  <2>1. /\ e \in CallType /\ e.pc = "ride" /\ e.ref = c.ref /\ e.due = c.due /\ e.todo = c.todo
        /\ e.syncs = c.syncs /\ e.processed = 0 /\ e.gw = c.gw
    <3> HIDE DEF c
    <3> QED BY <1>1, <1>2 DEF CallType, c
  <2> HIDE DEF c, e
  <2>2. c.ref \in Refs /\ (c.due = "clawback" => Borne(View.docs[c.ref]))
    BY <1>1, <1>2 DEF Sound, KnowsRefund
  <2>3. KnowsList(e, View)
    BY <1>1, <1>2, <2>1 DEF Sound, KnowsList
  <2> QED BY <1>2, <1>3, <2>1, <2>2, <2>3, LedgerStepIsSound
<1> HIDE DEF d
<1>7. ~Pipeline(d) /\ ~HoldsIt(d) /\ ~Writes(d) /\ ~Heading(c, refund) /\ ~HeadingForRide(c)
  BY <1>1, <1>6 DEF Pipeline, HoldsIt, Writes, Heading, HeadingForRide, Leaving
<1>8. call'[p] = d /\ Others(p) /\ call' = [q \in Calls |-> call'[q]]
  BY <1>1, Becoming
<1>9. n' = n /\ SameSums /\ Onward(refund, refund', gateway, gateway')
  BY <1>1, StandsStill DEF SameSums, n
<1>10. /\ c.processed >= Paid => StatusFor(c.processed) = "REFUNDED"
       /\ c.processed < Paid => StatusFor(c.processed) = "PARTIALLY_REFUNDED"
       /\ n >= Paid => RideFor(n) = "REFUNDED" /\ StatusFor(n) = "REFUNDED"
       /\ n < Paid => RideFor(n) = "PARTIALLY_REFUNDED" /\ StatusFor(n) = "PARTIALLY_REFUNDED"
  BY <1>3, <1>4, AmountsAreNatural DEF StatusFor, RideFor
<1>11. TypeOK'
  <2>1. ride' \in RidePaymentSummary
    <3>1. StatusFor(c.processed) \in {"PARTIALLY_REFUNDED", "REFUNDED"}
      BY <1>4, <1>10, AmountsAreNatural
    <3>2. c.processed \in 0..Paid
      BY <1>4, AmountsAreNatural
    <3>3. ride \in RidePaymentSummary
      BY DEF IInv, TypeOK
    <3> HIDE DEF c
    <3> QED BY <1>5, <3>1, <3>2, <3>3 DEF RidePaymentSummary
  <2> QED BY <1>1, <2>1 DEF IInv, TypeOK
<1>12. Documents' /\ Handlers' /\ LockOK'
  BY <1>1, <1>6, <1>7, <1>8, <1>11, DocumentsKept, QuietHandlers, LockKept
<1>13. /\ ride.status \in RideFrom => ride'.status = StatusFor(c.processed)
       /\ ride.status \notin RideFrom => ride'.status = ride.status
  BY <1>5
<1>14. RideBehind'
  <2>1. /\ ride.status = "PARTIALLY_REFUNDED" => n > 0
        /\ ride.status = "REFUNDED" => n >= Paid
    BY DEF IInv, RideBehind, n
  <2>2. /\ ride'.status = "PARTIALLY_REFUNDED" => n' > 0
        /\ ride'.status = "REFUNDED" => n' >= Paid
    BY <1>3, <1>4, <1>9, <1>10, <1>13, <2>1, AmountsAreNatural
  <2> QED BY <2>2 DEF RideBehind, n
<1>15. BillFollows'
  BY <1>1, <1>7, <1>8, <1>9, BillKept
<1>16. RideFollows'
  <2> SUFFICES ASSUME failures = 0
               PROVE  /\ earning' /\ ride'.status # "PENDING"
                      /\ \/ ride'.status = RideFor(n')
                         \/ \E q \in Calls : HeadingForRide(call'[q]) \/ MovesRide(call'[q], n')
                      /\ \A q \in Calls : Writes(call'[q]) =>
                           \/ call'[q].processed = n'
                           \/ \E s \in Calls \ {q} : HeadingForRide(call'[s])
    BY <1>1 DEF RideFollows, Writes, HeadingForRide, MovesRide, RideFor, StatusFor, n
  <2>1. /\ earning /\ ride.status # "PENDING"
        /\ \/ ride.status = RideFor(n)
           \/ \E q \in Calls : HeadingForRide(call[q]) \/ MovesRide(call[q], n)
        /\ \A q \in Calls : Writes(call[q]) =>
             \/ call[q].processed = n
             \/ \E s \in Calls \ {q} : HeadingForRide(call[s])
    BY DEF IInv, RideFollows, n
  <2>2. \A q \in Calls \ {p} : /\ HeadingForRide(call[q]) => HeadingForRide(call'[q])
                               /\ \A k : MovesRide(call[q], k) => MovesRide(call'[q], k)
                               /\ Writes(call'[q]) => call'[q] = call[q] /\ Writes(call[q])
    BY <1>8, <1>9, HeadingStays DEF Others
  <2>3. ride.status \in {"SUCCESS", "PARTIALLY_REFUNDED", "REFUNDED"}
    BY <2>1 DEF IInv, TypeOK, RidePaymentSummary
  <2>4. earning' /\ ride'.status # "PENDING"
    BY <1>1, <1>4, <1>10, <1>13, <2>1, AmountsAreNatural
  <2>5. ride'.status = RideFor(n') \/ \E q \in Calls : HeadingForRide(call'[q]) \/ MovesRide(call'[q], n')
    <3>1. CASE ride.status = RideFor(n)
      <4>1. ride'.status = RideFor(n')
        <5> HIDE DEF c
        <5> QED BY <1>3, <1>4, <1>9, <1>10, <1>13, <3>1, AmountsAreNatural DEF RideFrom
      <4> QED BY <4>1
    <3>2. CASE MovesRide(c, n)
      <4>1. StatusFor(c.processed) = StatusFor(n)
        BY <3>2 DEF MovesRide
      <4>2. ride.status = "REFUNDED" => n >= Paid
        BY DEF IInv, RideBehind, n
      <4>3. ride'.status = RideFor(n')
        <5> HIDE DEF c
        <5> QED BY <1>3, <1>4, <1>9, <1>10, <1>13, <2>3, <4>1, <4>2, AmountsAreNatural DEF RideFrom
      <4> QED BY <4>3
    <3>3. CASE \E q \in Calls \ {p} : HeadingForRide(call[q]) \/ MovesRide(call[q], n)
      BY <1>9, <2>2, <3>3
    <3> QED BY <1>7, <2>1, <3>1, <3>2, <3>3
  <2>6. ASSUME NEW q \in Calls, Writes(call'[q])
        PROVE  call'[q].processed = n' \/ \E s \in Calls \ {q} : HeadingForRide(call'[s])
    <3>1. q # p /\ call'[q] = call[q] /\ Writes(call[q])
      BY <1>7, <1>8, <2>2, <2>6
    <3> QED BY <1>7, <1>9, <2>1, <2>2, <3>1
  <2> QED BY <2>4, <2>5, <2>6
<1> QED BY <1>11, <1>12, <1>14, <1>15, <1>16 DEF IInv

-----------------------------------------------------------------------------
(* The invariant holds.                                                    *)

LEMMA NothingSummed ==
  ASSUME NEW f, NEW S, S = {}
  PROVE  SumFunctionOnSet(f, S) = 0
  BY FS_EmptySet, SumUnfolds

LEMMA InitHolds == Init => IInv
<1> SUFFICES ASSUME Init PROVE IInv
  OBVIOUS
<1> DEFINE n == Total({"PROCESSED"})
           m == Total(UNSETTLED)
           none == [status |-> "none", amount |-> 0, for |-> NoRefund]
<1>1. /\ bill = [status |-> "CAPTURED", refunded |-> 0, pending |-> 0]
      /\ locked = FALSE /\ refund = [r \in Refs |-> NoDoc] /\ aged = {} /\ adjustments = <<>>
      /\ gateway = [g \in GwRefunds |-> none] /\ call = [p \in Calls |-> Idle]
      /\ failures \in {0, 1} \cap 0..MaxFailures
      /\ earning = (failures = 0)
      /\ ride = [status |-> IF earning THEN "SUCCESS" ELSE "PENDING", refunded |-> 0]
  BY DEF Init
<1>2. NoDoc.status = "NONE" /\ NoDoc.gw = NoGw /\ NoDoc.review = FALSE /\ NoDoc \in RefundDoc
  BY AmountsAreNatural DEF NoDoc, RefundDoc
<1>3. none \in RazorpayRefund /\ none.status = "none" /\ none.for = NoRefund
  BY AmountsAreNatural DEF RazorpayRefund
<1>4. ASSUME NEW keys \in SUBSET Refs, NEW X, "NONE" \notin X
      PROVE  {r \in keys : refund[r].status \in X} = {}
  BY <1>1, <1>2, <1>4
<1>5. n = 0 /\ m = 0 /\ Asked = 0 /\ AtGateway({"pending", "processed"}) = 0
  <2>1. Refs \in SUBSET Refs /\ Keys \in SUBSET Refs
    BY DEF Refs
  <2>2. n = 0
    BY <1>4, <2>1, NothingSummed DEF Total
  <2>3. m = 0
    BY <1>4, <2>1, NothingSummed DEF Total, UNSETTLED
  <2>4. Asked = 0
    BY <1>4, <2>1, NothingSummed DEF Asked, ACTIVE_REFUND_STATUSES
  <2>5. AtGateway({"pending", "processed"}) = 0
    <3> HIDE DEF none
    <3>1. {g \in GwRefunds : gateway[g].status \in {"pending", "processed"}} = {}
      BY <1>1, <1>3
    <3> QED BY <3>1, NothingSummed DEF AtGateway
  <2> QED BY <2>2, <2>3, <2>4, <2>5
<1> HIDE DEF n, m, none
<1>6. TypeOK
  <2>1. bill \in RefundTotals /\ ride \in RidePaymentSummary
    BY <1>1, AmountsAreNatural DEF RefundTotals, RidePaymentSummary
  <2>2. refund \in [Refs -> RefundDoc] /\ gateway \in [GwRefunds -> RazorpayRefund]
    BY <1>1, <1>2, <1>3
  <2>3. adjustments \in Seq(DriverEarningAdjustment)
    BY <1>1
  <2> QED BY <1>1, <2>1, <2>2, <2>3 DEF TypeOK
<1>7. Documents
  <2>1. DocsFit
    BY <1>1, <1>2 DEF DocsFit, Exists
  <2>2. GatewayFits
    BY <1>1, <1>3, <1>5, AmountsAreNatural DEF GatewayFits
  <2>3. SentOnce /\ BookedOnce
    BY <1>1, <1>2, <1>3 DEF SentOnce, BookedOnce
  <2>4. ClawedBackOnce
    BY <1>1 DEF ClawedBackOnce
  <2>5. RequestsFit
    BY <1>5, AmountsAreNatural DEF RequestsFit, Asked
  <2> QED BY <2>1, <2>2, <2>3, <2>4, <2>5 DEF Documents, OneEntryEach
<1>8. \A p \in Calls : call[p] = Idle
  BY <1>1
<1>9. Handlers
  <2>1. Views(View)
    BY <1>6, ViewIsOne
  <2>2. CallsSound
    BY <1>1, <1>8, <2>1, IdleIs DEF CallsSound
  <2>3. OneSender
    BY <1>8, IdleIs DEF OneSender
  <2>4. RefusedIsDead
    BY <1>1, <1>2 DEF RefusedIsDead, Refs
  <2>5. AgedIsIdle
    BY <1>1 DEF AgedIsIdle
  <2> QED BY <2>2, <2>3, <2>4, <2>5 DEF Handlers
<1>10. LockOK
  BY <1>8, IdleIs DEF LockOK
<1>11. RideBehind
  BY <1>1 DEF RideBehind
<1>12. BillFollows
  <2>1. TotalsRight
    BY <1>1, <1>5, AmountsAreNatural DEF TotalsRight, StatusFor, n, m
  <2> QED BY <1>8, <2>1, IdleIs DEF BillFollows
<1>13. RideFollows
  <2> SUFFICES ASSUME failures = 0 PROVE earning /\ ride.status # "PENDING" /\ ride.status = RideFor(n)
    BY <1>8, IdleIs DEF RideFollows, n
  <2> QED BY <1>1, <1>5 DEF RideFor
<1> QED BY <1>6, <1>7, <1>9, <1>10, <1>11, <1>12, <1>13 DEF IInv

\* Each step of a handler keeps the invariant.
LEMMA CallStepHolds ==
  ASSUME IInv, NEW p \in Calls, CallStep(p)
  PROVE  IInv'
<1>1. ASSUME NEW g \in GwRefunds, SubmitAccepted(p, g) PROVE IInv'
  BY <1>1, SubmitAcceptedStep
<1>2. CASE Lock(p) \/ Reserve(p) \/ InsertRefund(p) \/ Unlock(p) \/ SubmitRefused(p)
  BY <1>2, LockStep, ReserveStep, InsertRefundStep, UnlockStep, SubmitRefusedStep
<1>3. CASE RecordExternal(p) \/ StoreFacts(p) \/ Transition(p)
  BY <1>3, RecordExternalStep, StoreFactsStep, TransitionStep
<1>4. CASE SumRefunds(p) \/ WriteTotals(p) \/ MoveRide(p)
  BY <1>4, SumRefundsStep, WriteTotalsStep, MoveRideStep
<1>5. CASE MarkLedger(p) \/ FindAdjustment(p) \/ SumAdjustments(p) \/ InsertAdjustment(p)
  BY <1>5, MarkLedgerStep, FindAdjustmentStep, SumAdjustmentsStep, InsertAdjustmentStep
<1>6. CASE SyncNext(p) \/ SyncAbandon(p) \/ RidePaid(p) \/ EarningRecorded(p)
  BY <1>6, SyncNextStep, SyncAbandonStep, RidePaidStep, EarningRecordedStep
<1> QED BY <1>1, <1>2, <1>3, <1>4, <1>5, <1>6 DEF CallStep

\* Each step keeps the invariant.
LEMMA StepHolds == IInv /\ [Next]_vars => IInv'
<1> SUFFICES ASSUME IInv, [Next]_vars PROVE IInv'
  OBVIOUS
<1>1. ASSUME NEW p \in Calls,
             \/ CallStep(p) \/ GiveUpTotals(p) \/ Fail(p) \/ CreditMissing(p)
             \/ SyncUnsettled(p) \/ SyncOnDemand(p)
      PROVE  IInv'
  <2>1. SyncUnsettled(p) \/ SyncOnDemand(p) => Sync(p)
    BY DEF SyncUnsettled, SyncOnDemand
  <2> QED BY <1>1, <2>1, CallStepHolds, GiveUpTotalsStep, FailStep, CreditMissingStep, SyncStep
<1>2. ASSUME NEW p \in Calls, NEW k \in Keys, Request(p, k) PROVE IInv'
  BY <1>2, RequestStep
<1>3. ASSUME NEW p \in Calls, NEW r \in Refs, Review(p, r) \/ Resolve(p, r) \/ ApplyPending(p, r)
      PROVE  IInv'
  BY <1>3, ReviewStep, ResolveStep, ApplyPendingStep
<1>4. ASSUME NEW p \in Calls, NEW g \in GwRefunds, NEW said \in DOMAIN STATUS_FOR, Webhook(p, g, said)
      PROVE  IInv'
  <2>1. said \in Saids
    BY DEF STATUS_FOR, Saids
  <2> QED BY <1>4, <2>1, WebhookStep
<1>5. ASSUME NEW g \in GwRefunds, GatewayMoves(g) PROVE IInv'
  BY <1>5, GatewayMovesStep
<1>6. ASSUME NEW g \in GwRefunds, NEW amount \in 1..Paid, DashboardRefund(g, amount) PROVE IInv'
  BY <1>6, DashboardRefundStep
<1>7. ASSUME NEW r \in Refs, RefundAges(r) PROVE IInv'
  BY <1>7, RefundAgesStep
<1>8. CASE LeaseExpires
  BY <1>8, LeaseExpiresStep
<1>9. CASE UNCHANGED vars
  <2>1. UNCHANGED <<bill, locked, ride, earning, refund, adjustments, aged, gateway, call, failures>>
    BY <1>9 DEF vars, money
  <2>2. TypeOK' /\ Documents' /\ RideBehind'
    BY <2>1, StandsStill, DocumentsKept DEF IInv, TypeOK, RideBehind, SameSums
  <2>3. Handlers'
    <3>1. View' = View
      BY <2>1, StandsStill DEF View, Dead, Pipeline, Exists, SameSums
    <3> QED BY <2>1, <3>1
        DEF IInv, Handlers, CallsSound, OneSender, RefusedIsDead, AgedIsIdle, Dead, Exists, Pipeline
  <2>4. LockOK'
    BY <2>1 DEF IInv, LockOK, HoldsIt
  <2>5. BillFollows' /\ RideFollows'
    BY <2>1, StandsStill
       DEF IInv, BillFollows, RideFollows, TotalsRight, SameSums, Heading, HeadingForRide, MovesRide,
           Writes, RideFor, StatusFor
  <2> QED BY <2>2, <2>3, <2>4, <2>5 DEF IInv
<1> QED BY <1>1, <1>2, <1>3, <1>4, <1>5, <1>6, <1>7, <1>8, <1>9 DEF Next

\* The requests, Razorpay's answers, the totals, the ride and the driver's ledger fit
\* each other at every moment, for every number of handlers, requests and refunds.
THEOREM Invariance == Spec => []IInv
  BY InitHolds, StepHolds, PTL DEF Spec

\* Every document and summary keeps its type; what is returned of a payment, and what
\* the ride says of it, stay within what was paid.
THEOREM TypeCorrect == Spec => []TypeOK
<1>1. IInv => TypeOK
  BY DEF IInv
<1> QED BY <1>1, Invariance, PTL

\* request, its lock and its unique key: what admins ask for fits the payment, is sent
\* once, and is booked as returned only when Razorpay returned it.
THEOREM RequestsSafe == Spec => []RequestsAreSafe
<1>1. IInv => RequestsAreSafe
  <2> SUFFICES ASSUME IInv PROVE RequestsAreSafe
    OBVIOUS
  <2>1. RequestsFit /\ SentOnce
    BY DEF IInv, Documents
  <2>2. ReturnedIsReal
    BY DEF IInv, Documents, DocsFit, Returned, ReturnedIsReal
  <2> QED BY <2>1, <2>2 DEF RequestsAreSafe
<1> QED BY <1>1, Invariance, PTL

\* A refund has one entry in the books, however many reports of it are handled at the
\* same moment, and the driver gives back one share of it.
THEOREM OneEntry == Spec => []OneEntryEach
<1>1. IInv => OneEntryEach
  BY DEF IInv, Documents
<1> QED BY <1>1, Invariance, PTL

\* recomputeTotals and afterChange: when no handler is under way and none has died, the
\* payment's totals and the ride's status are those of the refunds.
THEOREM BooksAgree == Spec => []BooksConverge
<1>1. IInv => BooksConverge
  <2> SUFFICES ASSUME IInv, Quiet
               PROVE  TotalsRight /\ ride.status = IF bill.status = "CAPTURED" THEN "SUCCESS"
                                                   ELSE bill.status
    BY DEF BooksConverge, TotalsConverge, TotalsRight, RideStatusFollows
  <2> DEFINE n == Total({"PROCESSED"})
  <2>1. failures = 0 /\ \A p \in Calls : call[p].pc = "idle"
    BY DEF Quiet, Running
  <2>2. \A p \in Calls : ~Heading(call[p], refund) /\ ~HeadingForRide(call[p])
    BY <2>1 DEF Heading, HeadingForRide
  <2>3. \A p \in Calls : ~MovesRide(call[p], n)
    BY <2>1 DEF MovesRide
  <2>4. TotalsRight
    BY <2>1, <2>2 DEF IInv, BillFollows
  <2>5. ride.status = RideFor(n)
    BY <2>1, <2>2, <2>3 DEF IInv, RideFollows
  <2>6. bill.status = StatusFor(n)
    BY <2>4 DEF TotalsRight
  <2>7. n \in Nat
    BY Basics, ViewIs DEF Views
  <2> HIDE DEF n
  <2>8. ride.status = IF bill.status = "CAPTURED" THEN "SUCCESS" ELSE bill.status
    BY <2>5, <2>6, <2>7, AmountsAreNatural DEF RideFor, StatusFor
  <2> QED BY <2>4, <2>8
<1> QED BY <1>1, Invariance, PTL

\* No step takes back a booked return.
LEMMA ReturnedStaysStep ==
  ASSUME IInv, Next, NEW r \in Refs, refund[r].status = "PROCESSED"
  PROVE  refund'[r].status = "PROCESSED"
<1>1. refund \in Docs
  BY Basics
<1>2. refund[r] \in RefundDoc
  BY <1>1 DEF Docs
<1>3. CASE UNCHANGED refund
  BY <1>3
<1>4. ASSUME NEW p \in Calls, InsertRefund(p)
      PROVE  refund'[r].status = "PROCESSED"
  <2>1. refund' = refund \/
        (KeyFree(call[p].ref) /\ \E doc : refund' = [refund EXCEPT ![call[p].ref] = doc])
    BY Zenon, <1>4 DEF InsertRefund
  <2> QED BY <1>1, <2>1 DEF KeyFree, Docs
<1>5. ASSUME NEW p \in Calls, RecordExternal(p)
      PROVE  refund'[r].status = "PROCESSED"
  <2>1. refund' = refund \/
        (\E s \in Externals \ Existing : \E doc : refund' = [refund EXCEPT ![s] = doc])
    BY Zenon, <1>5 DEF RecordExternal
  <2>2. r \in Existing
    BY DEF Existing
  <2> QED BY <1>1, <2>1, <2>2 DEF Docs
<1>6. ASSUME NEW p \in Calls, StoreFacts(p)
      PROVE  refund'[r].status = "PROCESSED"
  <2>1. refund' = refund \/
        refund' = [refund EXCEPT ![call[p].ref].gw = call[p].gw,
                                 ![call[p].ref].amount = gateway[call[p].gw].amount]
    BY <1>6 DEF StoreFacts
  <2> QED BY <1>1, <1>2, <2>1 DEF Docs, RefundDoc
<1>7. ASSUME NEW p \in Calls, Transition(p)
      PROVE  refund'[r].status = "PROCESSED"
  <2>1. PICK to \in Targets : to = call[p].to
    BY <1>7, CallFacts DEF Transition, Running, Sound, KnowsGateway
  <2>2. refund' = refund \/
        (refund[call[p].ref].status \in ALLOWED_FROM[to] /\ refund' = [refund EXCEPT ![call[p].ref].status = to])
    BY <1>7, <2>1 DEF Transition, MayMove
  <2>3. "PROCESSED" \notin ALLOWED_FROM[to]
    BY DEF ALLOWED_FROM, Targets
  <2> QED BY <1>1, <2>2, <2>3 DEF Docs
<1>8. ASSUME NEW p \in Calls, MarkLedger(p)
      PROVE  refund'[r].status = "PROCESSED"
  <2>1. \E state : SetLedger(call[p].ref, state)
    BY Zenon, <1>8 DEF MarkLedger
  <2>2. PICK state : refund' = refund \/ refund' = [refund EXCEPT ![call[p].ref].ledger = state]
    BY <2>1 DEF SetLedger
  <2> QED BY <1>1, <1>2, <2>2 DEF Docs, RefundDoc
<1>9. ASSUME NEW p \in Calls, NEW s \in Refs, Review(p, s)
      PROVE  refund'[r].status = "PROCESSED"
  <2>1. \E impact : refund' = [refund EXCEPT ![s].review = FALSE, ![s].impact = impact]
    BY <1>9 DEF Review
  <2> QED BY <1>1, <1>2, <2>1 DEF Docs, RefundDoc
<1> USE DEF money
<1>10. ASSUME NEW p \in Calls, CallStep(p)
       PROVE  refund'[r].status = "PROCESSED"
  <2>1. CASE Lock(p) \/ Reserve(p) \/ Unlock(p) \/ SubmitRefused(p) \/
             \E g \in GwRefunds : SubmitAccepted(p, g)
    BY <1>3, <2>1 DEF Lock, Reserve, Unlock, SubmitRefused, SubmitAccepted
  <2>2. CASE SumRefunds(p) \/ WriteTotals(p) \/ MoveRide(p)
    BY <1>3, <2>2 DEF SumRefunds, WriteTotals, MoveRide
  <2>3. CASE FindAdjustment(p) \/ SumAdjustments(p) \/ InsertAdjustment(p)
    BY <1>3, <2>3 DEF FindAdjustment, SumAdjustments, InsertAdjustment
  <2>4. CASE SyncNext(p) \/ SyncAbandon(p) \/ RidePaid(p) \/ EarningRecorded(p)
    <3>1. UNCHANGED refund
      BY Zenon, <2>4 DEF SyncNext, SyncAbandon, RidePaid, EarningRecorded
    <3> QED BY <1>3, <3>1
  <2> QED BY <1>4, <1>5, <1>6, <1>7, <1>8, <1>10, <2>1, <2>2, <2>3, <2>4 DEF CallStep
<1>11. ASSUME NEW p \in Calls,
              GiveUpTotals(p) \/ Fail(p) \/ CreditMissing(p) \/ SyncUnsettled(p) \/ SyncOnDemand(p)
       PROVE  refund'[r].status = "PROCESSED"
  <2>1. UNCHANGED refund
    BY Zenon, <1>11 DEF GiveUpTotals, Fail, CreditMissing, SyncUnsettled, SyncOnDemand, Sync
  <2> QED BY <1>3, <2>1
<1>12. ASSUME NEW p \in Calls,
              \/ \E k \in Keys : Request(p, k)
              \/ \E s \in Refs : Resolve(p, s) \/ ApplyPending(p, s)
              \/ \E g \in GwRefunds, said \in DOMAIN STATUS_FOR : Webhook(p, g, said)
       PROVE  refund'[r].status = "PROCESSED"
  <2>1. UNCHANGED refund
    BY Zenon, <1>12 DEF Request, Resolve, ApplyPending, Webhook
  <2> QED BY <1>3, <2>1
<1>13. CASE \/ \E g \in GwRefunds : GatewayMoves(g) \/ \E amount \in 1..Paid : DashboardRefund(g, amount)
            \/ \E s \in Refs : RefundAges(s)
            \/ LeaseExpires
  BY <1>3, <1>13 DEF GatewayMoves, DashboardRefund, RefundAges, LeaseExpires
<1> QED BY <1>9, <1>10, <1>11, <1>12, <1>13 DEF Next

\* transition's compare-and-set: a booked return stays booked, whatever older report,
\* retry or sync of the refund is handled after it.
THEOREM ReturnedStays == Spec => ReturnedIsFinal
<1>1. IInv /\ [Next]_vars =>
        [\A r \in Refs : refund[r].status = "PROCESSED" => refund'[r].status = "PROCESSED"]_vars
  <2> SUFFICES ASSUME IInv, Next, NEW r \in Refs, refund[r].status = "PROCESSED"
               PROVE  refund'[r].status = "PROCESSED"
    BY DEF vars, money
  <2> QED BY ReturnedStaysStep
<1> QED BY <1>1, Invariance, PTL DEF Spec, ReturnedIsFinal
=============================================================================

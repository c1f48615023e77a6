------------------------------ MODULE Induction ------------------------------
(***************************************************************************)
(* Induction over the natural numbers with a set in the place of the       *)
(* predicate, so that it can be cited wherever what is to be proved of n   *)
(* is the membership of n in a set; the iterates of a function; and what a *)
(* definition by recursion defines.                                        *)
(***************************************************************************)
EXTENDS Integers, WellFoundedInduction, TLAPS

(* A set with 0 and the successor of each member has every number.         *)
LEMMA NatSet ==
    ASSUME NEW S, 0 \in S, \A n \in Nat : n \in S => n + 1 \in S
    PROVE  Nat \subseteq S
<1>. DEFINE R == OpToRel(<, Nat)
            T == Nat \ S
<1>. SUFFICES ASSUME T # {} PROVE FALSE
    OBVIOUS
<1>1. PICK n \in T : \A m \in T : ~ (<<m, n>> \in R)
    BY WFMin, NatLessThanWellFounded
<1>2. n \in Nat \ {0} /\ n - 1 \in Nat
    OBVIOUS
<1>3. <<n - 1, n>> \in R
    BY <1>2 DEF OpToRel
<1>4. n - 1 \in S
    BY <1>1, <1>2, <1>3
<1>. QED BY <1>2, <1>4

(* The same for the numbers up to N.                                       *)
LEMMA UpTo ==
    ASSUME NEW N \in Nat, NEW S, 0 \in S, \A n \in 0..N : n \in S /\ n < N => n + 1 \in S
    PROVE  0..N \subseteq S
<1>. DEFINE T == {n \in Nat : n \in S \/ n > N}
<1>1. 0 \in T
    OBVIOUS
<1>2. ASSUME NEW n \in Nat, n \in T PROVE n + 1 \in T
    BY <1>2
<1>3. Nat \subseteq T
    <2>. HIDE DEF T
    <2>. QED BY <1>1, <1>2, NatSet
<1>. QED BY <1>3

(* The N first iterates of F from b: a function defined by recursion on    *)
(* 0..N exists when its step keeps to a set U.                             *)
Iterates(g, N, b, F) == g[0] = b /\ \A k \in 1..N : g[k] = F[g[k-1]]

(* Iterates within U exist for every step on U.                            *)
LEMMA IteratesExist ==
    ASSUME NEW N \in Nat, NEW U, NEW b \in U, NEW F \in [U -> U]
    PROVE  \E g \in [0..N -> U] : Iterates(g, N, b, F)
<1>. DEFINE G(n) == {g \in [0..n -> U] : g[0] = b /\ \A k \in 1..n : g[k] = F[g[k-1]]}
            S == {n \in 0..N : G(n) # {}}
<1>1. 0 \in S
    <2>1. [k \in 0..0 |-> b] \in G(0)
        OBVIOUS
    <2>. QED BY <2>1
<1>2. ASSUME NEW n \in 0..N, n \in S, n < N PROVE n + 1 \in S
    <2>1. PICK g \in [0..n -> U] : g[0] = b /\ \A k \in 1..n : g[k] = F[g[k-1]]
        BY <1>2
    <2>. DEFINE h == [k \in 0..(n+1) |-> IF k <= n THEN g[k] ELSE F[g[n]]]
    <2>2. h \in [0..(n+1) -> U]
        OBVIOUS
    <2>3. h[0] = b
        BY <2>1
    <2>4. ASSUME NEW k \in 1..(n+1) PROVE h[k] = F[h[k-1]]
        BY <2>1
    <2>5. h \in G(n + 1)
        BY <2>2, <2>3, <2>4
    <2>6. n + 1 \in 0..N
        BY <1>2
    <2>. HIDE DEF G, h
    <2>. QED BY <2>5, <2>6
<1>3. N \in S
    <2>. HIDE DEF S
    <2>. QED BY <1>1, <1>2, UpTo
<1>. QED BY <1>3 DEF Iterates

(* F makes functions on D, in the set U, out of one another, and looks     *)
(* only at arguments of a lower rank for each.                             *)
StepOfRecursion(F, U, D, rank, M) ==
    /\ M \in Nat /\ rank \in [D -> 0..M] /\ F \in [U -> U]
    /\ \A f \in U : f = [x \in D |-> f[x]]
    /\ \A f, g \in U : \A x \in D :
          (\A y \in D : rank[y] < rank[x] => f[y] = g[y]) => F[f][x] = F[g][x]

(* Such a step has a fixpoint, the function defined by recursion with it:  *)
(* iterated M times, the step changes nothing more.                        *)
LEMMA Recursion ==
    ASSUME NEW D, NEW U, NEW M, NEW rank, NEW b \in U, NEW F, StepOfRecursion(F, U, D, rank, M)
    PROVE  \E f \in U : F[f] = f
<1>. USE DEF StepOfRecursion
<1>1. PICK g \in [0..(M+2) -> U] : Iterates(g, M + 2, b, F)
    <2>1. M + 2 \in Nat
        OBVIOUS
    <2>. QED BY <2>1, IteratesExist
<1>2. ASSUME NEW k \in 0..(M+1) PROVE g[k] \in U /\ g[k+1] \in U /\ g[k+1] = F[g[k]]
    <2>1. k + 1 \in 1..(M+2) /\ (k + 1) - 1 = k /\ k \in 0..(M+2)
        OBVIOUS
    <2>. QED BY <1>1, <2>1 DEF Iterates
<1>. DEFINE S == {k \in 0..(M+1) : \A x \in D : rank[x] < k => g[k+1][x] = g[k][x]}
<1>3. 0 \in S
    OBVIOUS
<1>4. ASSUME NEW k \in 0..(M+1), k \in S, k < M + 1 PROVE k + 1 \in S
    <2>1. k + 1 \in 0..(M+1) /\ k \in 0..(M+1)
        BY <1>4
    <2>2. ASSUME NEW x \in D, rank[x] < k + 1 PROVE g[(k+1)+1][x] = g[k+1][x]
        <3>1. \A y \in D : rank[y] < rank[x] => g[k+1][y] = g[k][y]
            BY <1>4, <2>2
        <3>2. g[k] \in U /\ g[k+1] \in U /\ g[k+1] = F[g[k]] /\ g[(k+1)+1] = F[g[k+1]]
            <4>. HIDE DEF S
            <4>. QED BY <1>2, <2>1
        <3>3. F[g[k+1]][x] = F[g[k]][x]
            BY <3>1, <3>2
        <3>. QED BY <3>2, <3>3
    <2>. QED BY <2>1, <2>2
<1>5. M + 1 \in S
    <2>1. M + 1 \in Nat
        OBVIOUS
    <2>2. \A k \in 0..(M+1) : k \in S /\ k < M + 1 => k + 1 \in S
        <3>. HIDE DEF S
        <3>. QED BY <1>4
    <2>. HIDE DEF S
    <2>3. 0..(M+1) \subseteq S
        BY <1>3, <2>1, <2>2, UpTo
    <2>. QED BY <2>1, <2>3
<1>6. g[M+1] \in U /\ F[g[M+1]] \in U /\ F[g[M+1]] = g[(M+1)+1]
    <2>1. M + 1 \in 0..(M+1)
        OBVIOUS
    <2>. QED BY <1>2, <2>1
<1>7. ASSUME NEW x \in D PROVE F[g[M+1]][x] = g[M+1][x]
    BY <1>5, <1>6
<1>8. F[g[M+1]] = g[M+1]
    <2>. SUFFICES ASSUME NEW h, h = g[M+1], NEW i, i = F[h] PROVE i = h
        OBVIOUS
    <2>1. h \in U /\ i \in U /\ \A x \in D : i[x] = h[x]
        BY <1>6, <1>7
    <2>. QED BY <2>1
<1>. QED BY <1>6, <1>8
=============================================================================

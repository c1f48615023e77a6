----------------------------- MODULE DiffProofs -----------------------------
(***************************************************************************)
(* The comparison of two documents lists every difference exactly once but *)
(* those of a number's type, which it never lists, for any documents that  *)
(* nest no deeper than MaxNest and any depth of comparison.  Positions and the comparison are recursive definitions:    *)
(* what they compute is proved by induction on the length of a position.   *)
(***************************************************************************)
EXTENDS Diff, Induction, SequenceTheorems, TLAPS

-----------------------------------------------------------------------------
(* Sequences, whatever they are of.                                        *)

IsSeq(p) == \E X : p \in Seq(X)

(* Two sequences are sequences over one set.                               *)
LEMMA InOneSet ==
    ASSUME NEW p, NEW q, IsSeq(p), IsSeq(q) PROVE \E X : p \in Seq(X) /\ q \in Seq(X)
<1>1. PICK X, Y : p \in Seq(X) /\ q \in Seq(Y)
    BY DEF IsSeq
<1>2. X \subseteq X \cup Y /\ Y \subseteq X \cup Y
    OBVIOUS
<1>3. p \in Seq(X \cup Y) /\ q \in Seq(X \cup Y)
    BY <1>1, <1>2, SeqMonotonic
<1>. QED BY <1>3

(* The empty sequence is one.                                              *)
LEMMA EmptyIsSeq == IsSeq(<< >>) /\ Len(<< >>) = 0
BY DEF IsSeq

(* What appending an element makes of a sequence.                          *)
LEMMA AppendIsSeq ==
    ASSUME NEW p, NEW m, IsSeq(p)
    PROVE  /\ IsSeq(Append(p, m)) /\ Len(p) \in Nat /\ Len(Append(p, m)) = Len(p) + 1
           /\ Append(p, m)[Len(p) + 1] = m /\ \A i \in 1..Len(p) : Append(p, m)[i] = p[i]
           /\ Append(p, m) # << >>
<1>1. PICK X : p \in Seq(X)
    BY DEF IsSeq
<1>2. X \subseteq X \cup {m}
    OBVIOUS
<1>3. p \in Seq(X \cup {m}) /\ m \in X \cup {m}
    BY <1>1, <1>2, SeqMonotonic
<1>4. Append(p, m) \in Seq(X \cup {m})
    BY <1>3
<1>5. IsSeq(Append(p, m))
    BY <1>4 DEF IsSeq
<1>. QED BY <1>3, <1>5

(* Sequences are equal when they have the same elements.                   *)
LEMMA SameSeq ==
    ASSUME NEW p, NEW q, IsSeq(p), IsSeq(q), Len(p) = Len(q), \A i \in 1..Len(p) : p[i] = q[i]
    PROVE  p = q
<1>1. PICK X : p \in Seq(X) /\ q \in Seq(X)
    BY InOneSet
<1>. QED BY <1>1, SeqEqual

(* The sequence and the element are read off an appended sequence.         *)
LEMMA AppendSame ==
    ASSUME NEW p, NEW q, NEW m, NEW n, IsSeq(p), IsSeq(q), Append(p, m) = Append(q, n)
    PROVE  p = q /\ m = n
<1>1. Len(p) = Len(q) /\ m = n /\ \A i \in 1..Len(p) : p[i] = q[i]
    BY AppendIsSeq
<1>. QED BY <1>1, SameSeq

(* Being a prefix, element by element.                                     *)
LEMMA PrefixMeans ==
    ASSUME NEW p, NEW q, IsSeq(p), IsSeq(q)
    PROVE  IsPrefix(p, q) <=> Len(p) <= Len(q) /\ \A i \in 1..Len(p) : p[i] = q[i]
<1>1. PICK X : p \in Seq(X) /\ q \in Seq(X)
    BY InOneSet
<1>2. CASE Len(p) <= Len(q)
    <2>1. SubSeq(p, 1, Len(p)) = p
        BY <1>1
    <2>2. /\ SubSeq(q, 1, Len(p)) \in Seq(X) /\ Len(SubSeq(q, 1, Len(p))) = Len(p)
          /\ \A i \in 1..Len(p) : SubSeq(q, 1, Len(p))[i] = q[i]
        BY <1>1, <1>2
    <2>. QED BY <1>1, <1>2, <2>1, <2>2, SeqEqual DEF IsPrefix
<1>3. CASE ~ (Len(p) <= Len(q))
    BY <1>3 DEF IsPrefix
<1>. QED BY <1>2, <1>3

(* A sequence is a prefix of itself.                                       *)
LEMMA PrefixSelf == ASSUME NEW p, IsSeq(p) PROVE IsPrefix(p, p)
<1>1. Len(p) \in Nat
    BY AppendIsSeq
<1>. QED BY <1>1, PrefixMeans

(* The empty sequence is a prefix of all, and only it of the empty one.    *)
LEMMA PrefixEmpty == ASSUME NEW p, IsSeq(p) PROVE IsPrefix(<< >>, p) /\ (IsPrefix(p, << >>) => p = << >>)
<1>1. Len(p) \in Nat
    BY AppendIsSeq
<1>2. IsPrefix(<< >>, p)
    BY <1>1, EmptyIsSeq, PrefixMeans
<1>3. ASSUME IsPrefix(p, << >>) PROVE p = << >>
    <2>1. Len(p) = 0
        BY <1>1, <1>3, EmptyIsSeq, PrefixMeans
    <2>. QED BY <2>1, EmptyIsSeq, SameSeq
<1>. QED BY <1>2, <1>3

(* The prefixes of an appended sequence.                                   *)
LEMMA PrefixAppend ==
    ASSUME NEW p, NEW q, NEW m, IsSeq(p), IsSeq(q)
    PROVE  IsPrefix(p, Append(q, m)) <=> p = Append(q, m) \/ IsPrefix(p, q)
<1>. DEFINE r == Append(q, m)
<1>1. IsSeq(r) /\ Len(p) \in Nat /\ Len(q) \in Nat /\ Len(r) = Len(q) + 1
      /\ r[Len(q) + 1] = m /\ \A i \in 1..Len(q) : r[i] = q[i]
    BY AppendIsSeq
<1>. HIDE DEF r
<1>2. IsPrefix(p, r) <=> Len(p) <= Len(r) /\ \A i \in 1..Len(p) : p[i] = r[i]
    BY <1>1, PrefixMeans
<1>3. IsPrefix(p, q) <=> Len(p) <= Len(q) /\ \A i \in 1..Len(p) : p[i] = q[i]
    BY PrefixMeans
<1>4. ASSUME IsPrefix(p, r), Len(p) > Len(q) PROVE p = r
    <2>1. Len(p) = Len(r)
        BY <1>1, <1>2, <1>4
    <2>. QED BY <1>1, <1>2, <1>4, <2>1, SameSeq
<1>5. ASSUME IsPrefix(p, r), Len(p) <= Len(q) PROVE IsPrefix(p, q)
    BY <1>1, <1>2, <1>3, <1>5
<1>6. IsPrefix(p, q) => IsPrefix(p, r)
    BY <1>1, <1>2, <1>3
<1>7. p = r => IsPrefix(p, r)
    BY PrefixSelf
<1>8. IsPrefix(p, r) <=> p = r \/ IsPrefix(p, q)
    BY <1>1, <1>4, <1>5, <1>6, <1>7
<1>. QED BY <1>8 DEF r

(* The next step of the way from a prefix to the whole.                    *)
LEMMA PrefixNext ==
    ASSUME NEW p, NEW q, IsSeq(p), IsSeq(q), IsPrefix(p, q), p # q
    PROVE  Len(p) < Len(q) /\ IsPrefix(Append(p, q[Len(p) + 1]), q)
<1>. DEFINE r == Append(p, q[Len(p) + 1])
<1>1. IsSeq(r) /\ Len(p) \in Nat /\ Len(q) \in Nat /\ Len(r) = Len(p) + 1
      /\ r[Len(p) + 1] = q[Len(p) + 1] /\ \A i \in 1..Len(p) : r[i] = p[i]
    BY AppendIsSeq
<1>. HIDE DEF r
<1>2. Len(p) <= Len(q) /\ \A i \in 1..Len(p) : p[i] = q[i]
    BY PrefixMeans
<1>3. Len(p) < Len(q)
    BY <1>1, <1>2, SameSeq
<1>4. Len(r) <= Len(q) /\ \A i \in 1..Len(r) : r[i] = q[i]
    BY <1>1, <1>2, <1>3
<1>5. IsPrefix(r, q)
    BY <1>1, <1>4, PrefixMeans
<1>. QED BY <1>3, <1>5 DEF r

(* What concatenation makes of two sequences; the left one is a prefix.    *)
LEMMA ConcatIsSeq ==
    ASSUME NEW p, NEW q, IsSeq(p), IsSeq(q)
    PROVE  /\ IsSeq(p \o q) /\ Len(p \o q) = Len(p) + Len(q)
           /\ p \o << >> = p /\ IsPrefix(p, p \o q)
           /\ \A m : p \o Append(q, m) = Append(p \o q, m)
           /\ \A r : IsSeq(r) /\ p \o q = p \o r => q = r
<1>1. PICK X : p \in Seq(X) /\ q \in Seq(X)
    BY InOneSet
<1>2. p \o q \in Seq(X)
    BY <1>1
<1>3. IsSeq(p \o q)
    BY <1>2 DEF IsSeq
<1>4. p \o << >> = p
    BY <1>1
<1>5. IsPrefix(p, p \o q)
    <2>1. Len(p) <= Len(p \o q) /\ \A i \in 1..Len(p) : p[i] = (p \o q)[i]
        BY <1>1
    <2>. QED BY <1>3, <2>1, PrefixMeans
<1>6. ASSUME NEW m PROVE p \o Append(q, m) = Append(p \o q, m)
    <2>1. X \subseteq X \cup {m}
        OBVIOUS
    <2>2. p \in Seq(X \cup {m}) /\ q \in Seq(X \cup {m}) /\ <<m>> \in Seq(X \cup {m})
        BY <1>1, <2>1, SeqMonotonic
    <2>. QED BY <2>2
<1>7. ASSUME NEW r, IsSeq(r), p \o q = p \o r PROVE q = r
    <2>1. PICK Y : r \in Seq(Y)
        BY <1>7 DEF IsSeq
    <2>2. X \subseteq X \cup Y /\ Y \subseteq X \cup Y
        OBVIOUS
    <2>3. p \in Seq(X \cup Y) /\ q \in Seq(X \cup Y) /\ r \in Seq(X \cup Y)
        BY <1>1, <2>1, <2>2, SeqMonotonic
    <2>. QED BY <1>7, <2>3, ConcatSimplifications
<1>8. Len(p \o q) = Len(p) + Len(q)
    BY <1>1
<1>9. \A m : p \o Append(q, m) = Append(p \o q, m)
    BY <1>6
<1>10. \A r : IsSeq(r) /\ p \o q = p \o r => q = r
    BY <1>7
<1>. QED BY <1>3, <1>4, <1>5, <1>8, <1>9, <1>10

-----------------------------------------------------------------------------
(* What is at a position.                                                  *)

(* The values met on the way from v along p.                               *)
Along(g, v, p) == g = [k \in 0..Len(p) |-> IF k = 0 THEN v ELSE g[k-1][2][p[k]]]

(* There are such values for every sequence.                               *)
LEMMA AlongExists ==
    ASSUME NEW p, NEW v, IsSeq(p) PROVE \E g : Along(g, v, p)
<1>. DEFINE N == Len(p)
            Eq(n, g) == g = [k \in 0..n |-> IF k = 0 THEN v ELSE g[k-1][2][p[k]]]
            S == {n \in 0..N : \E g : Eq(n, g)}
<1>1. N \in Nat
    BY AppendIsSeq
<1>2. 0 \in S
    <2>1. Eq(0, [k \in 0..0 |-> v])
        OBVIOUS
    <2>. HIDE DEF Eq
    <2>. QED BY <1>1, <2>1
<1>3. ASSUME NEW n \in 0..N, n \in S, n < N PROVE n + 1 \in S
    <2>1. PICK g : Eq(n, g)
        BY <1>3
    <2>. DEFINE h == [k \in 0..(n+1) |-> IF k <= n THEN g[k] ELSE g[n][2][p[n+1]]]
    <2>2. \A k \in 0..n : g[k] = IF k = 0 THEN v ELSE g[k-1][2][p[k]]
        BY <2>1
    <2>3. \A k \in 0..(n+1) : h[k] = IF k = 0 THEN v ELSE h[k-1][2][p[k]]
        BY <2>2
    <2>4. Eq(n + 1, h)
        <3>1. h = [k \in 0..(n+1) |-> h[k]]
            OBVIOUS
        <3>. HIDE DEF h
        <3>. QED BY <2>3, <3>1
    <2>. HIDE DEF Eq
    <2>. QED BY <1>1, <1>3, <2>4
<1>4. 0..N \subseteq S
    <2>. HIDE DEF S, N
    <2>. QED BY <1>1, <1>2, <1>3, UpTo
<1>. QED BY <1>1, <1>4 DEF Along

(* The value at a position is the last one met on the way to it.           *)
LEMMA AlongIsAt ==
    ASSUME NEW p, NEW v, IsSeq(p), NEW g, Along(g, v, p)
    PROVE At(v, p) = g[Len(p)]
<1>. DEFINE along == CHOOSE f : Along(f, v, p)
<1>1. At(v, p) = along[Len(p)]
    BY DEF At, Along
<1>2. Along(along, v, p)
    BY AlongExists
<1>. DEFINE S == {n \in 0..Len(p) : along[n] = g[n]}
<1>. HIDE DEF along
<1>3. 0 \in S
    BY <1>2 DEF Along
<1>4. ASSUME NEW n \in 0..Len(p), n \in S, n < Len(p) PROVE n + 1 \in S
    BY <1>2, <1>4 DEF Along
<1>5. Len(p) \in Nat
    BY AppendIsSeq
<1>6. 0..Len(p) \subseteq S
    <2>. HIDE DEF S
    <2>. QED BY <1>3, <1>4, <1>5, UpTo
<1>. QED BY <1>1, <1>5, <1>6

(* The whole document is at the empty position.                            *)
LEMMA AtRoot == ASSUME NEW v PROVE At(v, << >>) = v
<1>1. PICK g : Along(g, v, << >>)
    BY EmptyIsSeq, AlongExists
<1>2. At(v, << >>) = g[0]
    BY <1>1, EmptyIsSeq, AlongIsAt
<1>3. 0 \in 0..Len(<< >>)
    BY EmptyIsSeq
<1>. QED BY <1>1, <1>2, <1>3 DEF Along

(* One step further, in the member named.                                  *)
LEMMA AtAppend ==
    ASSUME NEW v, NEW p, NEW m, IsSeq(p) PROVE At(v, Append(p, m)) = At(v, p)[2][m]
<1>. DEFINE r == Append(p, m)
<1>1. IsSeq(r) /\ Len(p) \in Nat /\ Len(r) = Len(p) + 1
      /\ r[Len(p) + 1] = m /\ \A i \in 1..Len(p) : r[i] = p[i]
    BY AppendIsSeq
<1>. HIDE DEF r
<1>2. PICK g : Along(g, v, r)
    BY <1>1, AlongExists
<1>3. \A k \in 0..Len(r) : g[k] = IF k = 0 THEN v ELSE g[k-1][2][r[k]]
    BY <1>2 DEF Along
<1>. DEFINE f == [k \in 0..Len(p) |-> g[k]]
<1>4. Along(f, v, p)
    <2>1. ASSUME NEW k \in 0..Len(p) PROVE f[k] = IF k = 0 THEN v ELSE f[k-1][2][p[k]]
        <3>1. k \in 0..Len(r) /\ (k # 0 => k - 1 \in 0..Len(p) /\ r[k] = p[k])
            BY <1>1
        <3>. QED BY <1>3, <3>1
    <2>2. f = [k \in 0..Len(p) |-> f[k]]
        OBVIOUS
    <2>. HIDE DEF f
    <2>. QED BY <2>1, <2>2 DEF Along
<1>5. At(v, p) = g[Len(p)]
    <2>1. f[Len(p)] = g[Len(p)]
        BY <1>1
    <2>. HIDE DEF f
    <2>. QED BY <1>4, <2>1, AlongIsAt
<1>6. At(v, r) = g[Len(p) + 1]
    BY <1>1, <1>2, AlongIsAt
<1>7. g[Len(p) + 1] = g[Len(p)][2][m]
    <2>1. Len(p) + 1 \in 0..Len(r) /\ Len(p) + 1 # 0 /\ Len(p) + 1 - 1 = Len(p)
        BY <1>1
    <2>. QED BY <1>1, <1>3, <2>1
<1>8. At(v, r) = At(v, p)[2][m]
    BY <1>5, <1>6, <1>7
<1>. QED BY <1>8 DEF r

-----------------------------------------------------------------------------
(* The positions reached from the root, one member further at a time: r[k] *)
(* has those of at most k members, and K what is below a position.         *)
Reaches(r, depth, K) ==
    /\ depth \in Nat /\ r[0] = {<< >>}
    /\ \A k \in 1..depth : r[k] = r[k-1] \cup UNION {{Append(p, m) : m \in K[p]} : p \in r[k-1]}

(* What the positions reached in depth steps are.                          *)
LEMMA Reached ==
    ASSUME NEW r, NEW depth, NEW K, Reaches(r, depth, K)
    PROVE  /\ << >> \in r[depth]
           /\ \A p \in r[depth] : /\ IsSeq(p) /\ Len(p) <= depth
                                  /\ p # << >> => \E q \in r[depth] : \E m \in K[q] : p = Append(q, m)
           /\ \A p \in r[depth] : Len(p) < depth => \A m \in K[p] : Append(p, m) \in r[depth]
<1>. DEFINE Grown(k) ==
                /\ << >> \in r[k]
                /\ \A j \in 0..k : r[j] \subseteq r[k]
                /\ \A p \in r[k] : /\ IsSeq(p) /\ Len(p) <= k /\ Len(p) \in 0..k /\ p \in r[Len(p)]
                                   /\ p # << >> => \E q \in r[k] : \E m \in K[q] : p = Append(q, m)
            S == {k \in 0..depth : Grown(k)}
<1>1. depth \in Nat /\ r[0] = {<< >>}
    BY DEF Reaches
<1>2. ASSUME NEW k \in 1..depth
      PROVE  /\ r[k-1] \subseteq r[k]
             /\ \A p \in r[k-1] : \A m \in K[p] : Append(p, m) \in r[k]
             /\ \A p \in r[k] : p \in r[k-1] \/ \E q \in r[k-1] : \E m \in K[q] : p = Append(q, m)
    <2>. DEFINE New(p) == {Append(p, m) : m \in K[p]}
    <2>1. r[k] = r[k-1] \cup UNION {New(p) : p \in r[k-1]}
        BY DEF Reaches
    <2>2. ASSUME NEW p \in r[k-1], NEW m \in K[p] PROVE Append(p, m) \in r[k]
        <3>1. Append(p, m) \in New(p)
            OBVIOUS
        <3>. HIDE DEF New
        <3>. QED BY <2>1, <3>1
    <2>3. ASSUME NEW p \in r[k], p \notin r[k-1]
          PROVE  \E q \in r[k-1] : \E m \in K[q] : p = Append(q, m)
        <3>1. PICK q \in r[k-1] : p \in New(q)
            <4>. HIDE DEF New
            <4>. QED BY <2>1, <2>3
        <3>. QED BY <3>1
    <2>. QED BY <2>1, <2>2, <2>3
<1>3. 0 \in S
    <2>1. Grown(0)
        BY <1>1, EmptyIsSeq
    <2>. QED BY <1>1, <2>1
<1>4. ASSUME NEW k \in 0..depth, k \in S, k < depth PROVE k + 1 \in S
    <2>1. Grown(k)
        BY <1>4
    <2>2. k + 1 \in 1..depth /\ (k + 1) - 1 = k /\ k + 1 <= depth
        BY <1>1, <1>4
    <2>3. /\ r[k] \subseteq r[k+1]
          /\ \A p \in r[k+1] : p \in r[k] \/ \E q \in r[k] : \E m \in K[q] : p = Append(q, m)
        BY <1>2, <2>2
    <2>4. << >> \in r[k+1] /\ \A j \in 0..(k+1) : r[j] \subseteq r[k+1]
        <3>1. \A j \in 0..(k+1) : j \in 0..k \/ j = k + 1
            BY <1>4
        <3>. QED BY <2>1, <2>3, <3>1
    <2>5. ASSUME NEW p \in r[k+1]
          PROVE  /\ IsSeq(p) /\ Len(p) <= k + 1 /\ Len(p) \in 0..(k+1) /\ p \in r[Len(p)]
                 /\ p # << >> => \E q \in r[k+1] : \E m \in K[q] : p = Append(q, m)
        <3>1. CASE p \in r[k]
            <4>1. Len(p) \in 0..k /\ IsSeq(p) /\ p \in r[Len(p)]
                BY <2>1, <3>1
            <4>. QED BY <1>4, <2>1, <2>3, <3>1, <4>1
        <3>2. CASE p \notin r[k]
            <4>1. PICK q \in r[k] : \E m \in K[q] : p = Append(q, m)
                BY <2>3, <3>2
            <4>2. PICK m \in K[q] : p = Append(q, m)
                BY <4>1
            <4>3. IsSeq(q) /\ Len(q) \in 0..k /\ q \in r[Len(q)]
                BY <2>1
            <4>4. IsSeq(p) /\ Len(p) = Len(q) + 1
                BY <4>2, <4>3, AppendIsSeq
            <4>5. Len(p) \in 1..(k+1) /\ Len(p) - 1 = Len(q)
                BY <1>4, <4>3, <4>4
            <4>6. Len(p) \in 1..depth
                <5>1. k \in Nat /\ Len(p) <= depth /\ Len(p) >= 1 /\ Len(p) \in Nat
                    BY <1>1, <2>2, <4>5
                <5>. QED BY <1>1, <5>1
            <4>7. p \in r[Len(p)]
                BY <1>2, <4>2, <4>3, <4>5, <4>6
            <4>8. q \in r[k+1]
                BY <2>3
            <4>. QED BY <4>2, <4>4, <4>5, <4>7, <4>8
        <3>. QED BY <3>1, <3>2
    <2>6. Grown(k + 1)
        BY <2>4, <2>5
    <2>7. k + 1 \in 0..depth
        BY <2>2
    <2>. HIDE DEF Grown
    <2>. QED BY <2>6, <2>7
<1>5. 0..depth \subseteq S
    <2>. HIDE DEF S
    <2>. QED BY <1>1, <1>3, <1>4, UpTo
<1>6. Grown(depth)
    <2>. HIDE DEF Grown
    <2>. QED BY <1>1, <1>5
<1>7. ASSUME NEW p \in r[depth], Len(p) < depth, NEW m \in K[p] PROVE Append(p, m) \in r[depth]
    <2>1. Len(p) \in 0..depth /\ p \in r[Len(p)]
        BY <1>6
    <2>2. Len(p) + 1 \in 1..depth /\ (Len(p) + 1) - 1 = Len(p)
        BY <1>1, <1>7, <2>1
    <2>3. Append(p, m) \in r[Len(p) + 1]
        BY <1>2, <2>1, <2>2
    <2>4. Len(p) + 1 \in 0..depth
        BY <2>2
    <2>. QED BY <1>6, <2>3, <2>4
<1>. QED BY <1>6, <1>7

(* The positions of a document.                                            *)
LEMMA PositionsFacts ==
    ASSUME NEW v
    PROVE  /\ << >> \in Positions(v)
           /\ \A p \in Positions(v) : /\ IsSeq(p) /\ Len(p) <= MaxNest
                                      /\ p # << >> => \E q \in Positions(v) : \E m \in Members(At(v, q)) :
                                                          p = Append(q, m)
           /\ \A p \in Positions(v) : Len(p) < MaxNest =>
                  \A m \in Members(At(v, p)) : Append(p, m) \in Positions(v)
<1>. DEFINE Kids(p) == Members(At(v, p))
            More(A) == A \cup UNION {{Append(p, m) : m \in Kids(p)} : p \in A}
            Eq(n, g) == g = [k \in 0..n |-> IF k = 0 THEN {<< >>} ELSE More(g[k-1])]
            reached == CHOOSE g : Eq(MaxNest, g)
            S == {n \in 0..MaxNest : \E g : Eq(n, g)}
            U == UNION {reached[k] : k \in 0..MaxNest}
            K == [p \in U |-> Kids(p)]
<1>1. Positions(v) = reached[MaxNest] /\ MaxNest \in Nat
    BY NestAssumption DEF Positions, Below
<1>. HIDE DEF Kids
<1>2. 0 \in S
    <2>1. Eq(0, [k \in 0..0 |-> {<< >>}])
        OBVIOUS
    <2>. HIDE DEF Eq
    <2>. QED BY <1>1, <2>1
<1>3. ASSUME NEW n \in 0..MaxNest, n \in S, n < MaxNest PROVE n + 1 \in S
    <2>1. PICK g : Eq(n, g)
        BY <1>3
    <2>. DEFINE h == [k \in 0..(n+1) |-> IF k <= n THEN g[k] ELSE More(g[n])]
    <2>. HIDE DEF More
    <2>2. \A k \in 0..n : g[k] = IF k = 0 THEN {<< >>} ELSE More(g[k-1])
        BY <2>1
    <2>3. \A k \in 0..(n+1) : h[k] = IF k = 0 THEN {<< >>} ELSE More(h[k-1])
        BY <2>2
    <2>4. Eq(n + 1, h)
        <3>1. h = [k \in 0..(n+1) |-> h[k]]
            OBVIOUS
        <3>. HIDE DEF h
        <3>. QED BY <2>3, <3>1
    <2>. HIDE DEF Eq
    <2>. QED BY <1>1, <1>3, <2>4
<1>4. 0..MaxNest \subseteq S
    <2>. HIDE DEF S
    <2>. QED BY <1>1, <1>2, <1>3, UpTo
<1>5. Eq(MaxNest, reached)
    <2>1. MaxNest \in S
        <3>. HIDE DEF S
        <3>. QED BY <1>1, <1>4
    <2>. HIDE DEF Eq
    <2>. QED BY <2>1
<1>. HIDE DEF reached
<1>6. Reaches(reached, MaxNest, K)
    <2>1. reached[0] = {<< >>}
        BY <1>1, <1>5
    <2>2. ASSUME NEW k \in 1..MaxNest
          PROVE  reached[k] = reached[k-1] \cup UNION {{Append(p, m) : m \in K[p]} : p \in reached[k-1]}
        <3>1. k \in 0..MaxNest /\ k # 0 /\ k - 1 \in 0..MaxNest
            BY <1>1
        <3>2. reached[k] = More(reached[k-1])
            <4>. HIDE DEF More
            <4>. QED BY <1>5, <3>1
        <3>3. \A p \in reached[k-1] : K[p] = Kids(p)
            BY <3>1
        <3>. HIDE DEF K
        <3>. QED BY <3>2, <3>3
    <2>. HIDE DEF K
    <2>. QED BY <1>1, <2>1, <2>2 DEF Reaches
<1>7. \A p \in reached[MaxNest] : p \in U
    BY <1>1
<1>8. \A p \in reached[MaxNest] : K[p] = Kids(p)
    BY <1>7
<1>. HIDE DEF K
<1>. USE DEF Kids
<1>. QED BY <1>1, <1>6, <1>8, Reached

(* The positions the comparison is called for.                             *)
LEMMA WalkedFacts ==
    ASSUME NEW b, NEW a
    PROVE  /\ << >> \in Walked(b, a)
           /\ \A p \in Walked(b, a) :
                  /\ IsSeq(p)
                  /\ p # << >> => \E q \in Walked(b, a) : \E m \in Members(At(b, q)) \cap Members(At(a, q)) :
                                      Descends(b, a, q) /\ p = Append(q, m)
           /\ \A p \in Walked(b, a) : Descends(b, a, p) =>
                  \A m \in Members(At(b, p)) \cap Members(At(a, p)) : Append(p, m) \in Walked(b, a)
<1>. DEFINE Kids(p) == IF Descends(b, a, p) THEN Members(At(b, p)) \cap Members(At(a, p)) ELSE {}
            More(A) == A \cup UNION {{Append(p, m) : m \in Kids(p)} : p \in A}
            Eq(n, g) == g = [k \in 0..n |-> IF k = 0 THEN {<< >>} ELSE More(g[k-1])]
            reached == CHOOSE g : Eq(DiffDepth, g)
            S == {n \in 0..DiffDepth : \E g : Eq(n, g)}
            U == UNION {reached[k] : k \in 0..DiffDepth}
            K == [p \in U |-> Kids(p)]
<1>1. Walked(b, a) = reached[DiffDepth] /\ DiffDepth \in Nat
    BY DepthAssumption DEF Walked, Below
<1>. HIDE DEF Kids
<1>2. 0 \in S
    <2>1. Eq(0, [k \in 0..0 |-> {<< >>}])
        OBVIOUS
    <2>. HIDE DEF Eq
    <2>. QED BY <1>1, <2>1
<1>3. ASSUME NEW n \in 0..DiffDepth, n \in S, n < DiffDepth PROVE n + 1 \in S
    <2>1. PICK g : Eq(n, g)
        BY <1>3
    <2>. DEFINE h == [k \in 0..(n+1) |-> IF k <= n THEN g[k] ELSE More(g[n])]
    <2>. HIDE DEF More
    <2>2. \A k \in 0..n : g[k] = IF k = 0 THEN {<< >>} ELSE More(g[k-1])
        BY <2>1
    <2>3. \A k \in 0..(n+1) : h[k] = IF k = 0 THEN {<< >>} ELSE More(h[k-1])
        BY <2>2
    <2>4. Eq(n + 1, h)
        <3>1. h = [k \in 0..(n+1) |-> h[k]]
            OBVIOUS
        <3>. HIDE DEF h
        <3>. QED BY <2>3, <3>1
    <2>. HIDE DEF Eq
    <2>. QED BY <1>1, <1>3, <2>4
<1>4. 0..DiffDepth \subseteq S
    <2>. HIDE DEF S
    <2>. QED BY <1>1, <1>2, <1>3, UpTo
<1>5. Eq(DiffDepth, reached)
    <2>1. DiffDepth \in S
        <3>. HIDE DEF S
        <3>. QED BY <1>1, <1>4
    <2>. HIDE DEF Eq
    <2>. QED BY <2>1
<1>. HIDE DEF reached
<1>6. Reaches(reached, DiffDepth, K)
    <2>1. reached[0] = {<< >>}
        BY <1>1, <1>5
    <2>2. ASSUME NEW k \in 1..DiffDepth
          PROVE  reached[k] = reached[k-1] \cup UNION {{Append(p, m) : m \in K[p]} : p \in reached[k-1]}
        <3>1. k \in 0..DiffDepth /\ k # 0 /\ k - 1 \in 0..DiffDepth
            BY <1>1
        <3>2. reached[k] = More(reached[k-1])
            <4>. HIDE DEF More
            <4>. QED BY <1>5, <3>1
        <3>3. \A p \in reached[k-1] : K[p] = Kids(p)
            BY <3>1
        <3>. HIDE DEF K
        <3>. QED BY <3>2, <3>3
    <2>. HIDE DEF K
    <2>. QED BY <1>1, <2>1, <2>2 DEF Reaches
<1>7. \A p \in reached[DiffDepth] : p \in U
    BY <1>1
<1>8. \A p \in reached[DiffDepth] : K[p] = Kids(p)
    BY <1>7
<1>. HIDE DEF K
<1>. DEFINE W == reached[DiffDepth]
<1>9. /\ << >> \in W
      /\ \A p \in W : /\ IsSeq(p)
                      /\ p # << >> => \E q \in W : \E m \in Kids(q) : p = Append(q, m)
      /\ \A p \in W : Len(p) < DiffDepth => \A m \in Kids(p) : Append(p, m) \in W
    BY <1>6, <1>8, Reached
<1>10. \A q : \A m \in Kids(q) : Descends(b, a, q) /\ m \in Members(At(b, q)) \cap Members(At(a, q))
    BY DEF Kids
<1>11. \A q : Descends(b, a, q) => Len(q) < DiffDepth /\ Kids(q) = Members(At(b, q)) \cap Members(At(a, q))
    BY DEF Descends, Kids
<1>. HIDE DEF W
<1>12. Walked(b, a) = W
    BY <1>1 DEF W
<1>13. ASSUME NEW p \in W, p # << >>
       PROVE  \E q \in W : \E m \in Members(At(b, q)) \cap Members(At(a, q)) :
                  Descends(b, a, q) /\ p = Append(q, m)
    <2>1. PICK q \in W : \E m \in Kids(q) : p = Append(q, m)
        BY <1>9, <1>13
    <2>2. PICK m \in Kids(q) : p = Append(q, m)
        BY <2>1
    <2>. QED BY <1>10, <2>2
<1>. QED BY <1>9, <1>11, <1>12, <1>13

-----------------------------------------------------------------------------
(* The positions of documents that nest no deeper than MaxNest.            *)

(* Induction over positions: T has the root, and what is below one it has. *)
LEMMA Downward ==
    ASSUME NEW P, NEW T, << >> \in T,
           \A p \in P : /\ IsSeq(p)
                        /\ p # << >> => \E q \in P : \E m : p = Append(q, m) /\ (q \in T => p \in T)
    PROVE  P \subseteq T
<1>. DEFINE S == {n \in Nat : \A p \in P : Len(p) = n => p \in T}
<1>1. 0 \in S
    <2>1. ASSUME NEW p \in P, Len(p) = 0 PROVE p \in T
        BY <2>1, EmptyIsSeq, SameSeq
    <2>. QED BY <2>1
<1>2. ASSUME NEW n \in Nat, n \in S PROVE n + 1 \in S
    <2>1. ASSUME NEW p \in P, Len(p) = n + 1 PROVE p \in T
        <3>1. p # << >>
            BY <2>1, EmptyIsSeq
        <3>2. PICK q \in P : \E m : p = Append(q, m) /\ (q \in T => p \in T)
            BY <3>1
        <3>3. Len(p) = Len(q) + 1 /\ Len(q) \in Nat
            BY <3>2, AppendIsSeq
        <3>4. Len(q) = n
            BY <2>1, <3>3
        <3>. QED BY <1>2, <3>2, <3>4
    <2>. QED BY <2>1
<1>3. Nat \subseteq S
    <2>. HIDE DEF S
    <2>. QED BY <1>1, <1>2, NatSet
<1>4. ASSUME NEW p \in P PROVE p \in T
    <2>1. Len(p) \in Nat
        BY AppendIsSeq
    <2>. QED BY <1>3, <2>1
<1>. QED BY <1>4

(* A position is a sequence of members.                                    *)
LEMMA PositionIsSeq == ASSUME NEW v, NEW p \in Positions(v) PROVE IsSeq(p)
BY PositionsFacts

(* A position ends with a member of what is just above it.                 *)
LEMMA LastMember ==
    ASSUME NEW v, NEW p, NEW m, IsSeq(p), Append(p, m) \in Positions(v)
    PROVE  p \in Positions(v) /\ m \in Members(At(v, p))
<1>1. Append(p, m) # << >>
    BY AppendIsSeq
<1>2. PICK q \in Positions(v) : \E n \in Members(At(v, q)) : Append(p, m) = Append(q, n)
    BY <1>1, PositionsFacts
<1>3. PICK n \in Members(At(v, q)) : Append(p, m) = Append(q, n)
    BY <1>2
<1>4. IsSeq(q)
    BY PositionIsSeq
<1>5. p = q /\ m = n
    BY <1>3, <1>4, AppendSame
<1>. QED BY <1>5

(* In a nested document every member of a position is a position.          *)
LEMMA NextMember ==
    ASSUME NEW v, Nested(v), NEW p \in Positions(v), NEW m \in Members(At(v, p))
    PROVE  Append(p, m) \in Positions(v)
<1>1. IsSeq(p) /\ Len(p) <= MaxNest
    BY PositionsFacts
<1>2. Len(p) \in Nat /\ Len(p) # MaxNest
    BY <1>1, AppendIsSeq DEF Nested
<1>. QED BY <1>1, <1>2, PositionsFacts, NestAssumption

(* What leads to a position is a position.                                 *)
LEMMA PrefixPosition ==
    ASSUME NEW v, NEW r \in Positions(v), NEW p, IsSeq(p), IsPrefix(p, r)
    PROVE  p \in Positions(v)
<1>. DEFINE T == {q \in Positions(v) : IsPrefix(p, q) => p \in Positions(v)}
<1>1. << >> \in T
    BY PositionsFacts, PrefixEmpty
<1>2. ASSUME NEW q \in Positions(v), q # << >>
      PROVE  \E h \in Positions(v) : \E m : q = Append(h, m) /\ (h \in T => q \in T)
    <2>1. PICK h \in Positions(v) : \E m \in Members(At(v, h)) : q = Append(h, m)
        BY <1>2, PositionsFacts
    <2>2. PICK m : q = Append(h, m)
        BY <2>1
    <2>3. IsPrefix(p, q) => p = q \/ IsPrefix(p, h)
        BY <2>2, PrefixAppend, PositionIsSeq
    <2>. QED BY <2>2, <2>3
<1>3. Positions(v) \subseteq T
    <2>. HIDE DEF T
    <2>. QED BY <1>1, <1>2, PositionIsSeq, Downward
<1>. QED BY <1>3

(* A position of what is at p is one below p, and every one below p is.    *)
LEMMA PositionsBelow ==
    ASSUME NEW v, Nested(v), NEW p \in Positions(v)
    PROVE  /\ \A q \in Positions(At(v, p)) : p \o q \in Positions(v) /\ At(v, p \o q) = At(At(v, p), q)
           /\ \A r \in Positions(v) : IsPrefix(p, r) => \E q \in Positions(At(v, p)) : r = p \o q
<1>. DEFINE w == At(v, p)
            T == {q \in Positions(w) : p \o q \in Positions(v) /\ At(v, p \o q) = At(w, q)}
            R == {r \in Positions(v) : IsPrefix(p, r) => \E q \in Positions(w) : r = p \o q}
<1>0. IsSeq(p) /\ Len(p) \in Nat
    BY PositionIsSeq, AppendIsSeq
<1>1. << >> \in T
    <2>1. p \o << >> = p
        BY <1>0, EmptyIsSeq, ConcatIsSeq
    <2>. QED BY <2>1, AtRoot, PositionsFacts
<1>2. ASSUME NEW q \in Positions(w), q # << >>
      PROVE  \E h \in Positions(w) : \E m : q = Append(h, m) /\ (h \in T => q \in T)
    <2>1. PICK h \in Positions(w) : \E m \in Members(At(w, h)) : q = Append(h, m)
        BY <1>2, PositionsFacts
    <2>2. PICK m \in Members(At(w, h)) : q = Append(h, m)
        BY <2>1
    <2>3. IsSeq(h) /\ IsSeq(p \o h) /\ p \o q = Append(p \o h, m)
        BY <1>0, <2>2, PositionIsSeq, ConcatIsSeq
    <2>4. ASSUME h \in T PROVE q \in T
        <3>1. p \o h \in Positions(v) /\ At(v, p \o h) = At(w, h)
            BY <2>4
        <3>2. p \o q \in Positions(v)
            BY <2>2, <2>3, <3>1, NextMember
        <3>3. At(v, p \o q) = At(v, p \o h)[2][m] /\ At(w, q) = At(w, h)[2][m]
            BY <2>2, <2>3, AtAppend
        <3>. HIDE DEF w
        <3>. QED BY <3>1, <3>2, <3>3
    <2>. QED BY <2>2, <2>4
<1>3. Positions(w) \subseteq T
    <2>. HIDE DEF T, w
    <2>. QED BY <1>1, <1>2, PositionIsSeq, Downward
<1>4. << >> \in R
    <2>1. IsPrefix(p, << >>) => << >> = p \o << >>
        BY <1>0, EmptyIsSeq, PrefixEmpty, ConcatIsSeq
    <2>. QED BY <2>1, PositionsFacts
<1>5. ASSUME NEW r \in Positions(v), r # << >>
      PROVE  \E h \in Positions(v) : \E m : r = Append(h, m) /\ (h \in R => r \in R)
    <2>1. PICK h \in Positions(v) : \E m \in Members(At(v, h)) : r = Append(h, m)
        BY <1>5, PositionsFacts
    <2>2. PICK m \in Members(At(v, h)) : r = Append(h, m)
        BY <2>1
    <2>3. IsSeq(h) /\ Len(h) \in Nat /\ Len(r) = Len(h) + 1 /\ Len(r) <= MaxNest
        BY <2>2, PositionsFacts, AppendIsSeq
    <2>4. ASSUME h \in R, IsPrefix(p, r) PROVE \E q \in Positions(w) : r = p \o q
        <3>1. CASE p = r
            BY <1>0, <3>1, EmptyIsSeq, ConcatIsSeq, PositionsFacts
        <3>2. CASE IsPrefix(p, h)
            <4>1. PICK q \in Positions(w) : h = p \o q
                BY <2>4, <3>2
            <4>2. IsSeq(q) /\ Len(q) \in Nat /\ Len(h) = Len(p) + Len(q) /\ r = p \o Append(q, m)
                BY <1>0, <2>2, <4>1, PositionIsSeq, AppendIsSeq, ConcatIsSeq
            <4>3. m \in Members(At(w, q))
                BY <1>3, <2>2, <4>1
            <4>4. Len(q) < MaxNest
                BY <1>0, <2>3, <4>2, NestAssumption
            <4>5. Append(q, m) \in Positions(w)
                BY <4>3, <4>4, PositionsFacts
            <4>. QED BY <4>2, <4>5
        <3>. QED BY <1>0, <2>2, <2>3, <2>4, <3>1, <3>2, PrefixAppend
    <2>. QED BY <2>2, <2>4
<1>6. Positions(v) \subseteq R
    <2>. HIDE DEF R
    <2>. QED BY <1>4, <1>5, PositionIsSeq, Downward
<1>. QED BY <1>3, <1>6

-----------------------------------------------------------------------------
(* The comparison.                                                         *)

(* The positions at which two documents differ, to Python.                 *)
Differ(b, a) ==
    {p \in Positions(b) \cup Positions(a) :
        p \in Positions(b) \cap Positions(a) => ~ Alike(At(b, p), At(a, p))}

(* They are those at which the documents differ by more than the type of a *)
(* number.                                                                 *)
LEMMA DifferMeans ==
    ASSUME NEW b, NEW a
    PROVE  Differ(b, a) = Different(b, a) \ Blurred(b, a)
<1>1. ASSUME NEW v, NEW w
      PROVE  ~ Alike(v, w) <=> v # w /\ ~ (IsObject(v) /\ IsObject(w)) /\ ~ SameNumber(v, w)
    BY DEF Alike, SameNumber
<1>2. ASSUME NEW p PROVE p \in Differ(b, a) <=> p \in Different(b, a) \ Blurred(b, a)
    BY <1>1 DEF Differ, Different, Blurred
<1>. QED BY <1>2

(* Python finds the two values at a position equal when nothing differs    *)
(* there or below.                                                         *)
LEMMA EqualMeans ==
    ASSUME NEW b, NEW a, Nested(b), Nested(a), NEW p \in Positions(b) \cap Positions(a)
    PROVE  PyEqual(At(b, p), At(a, p)) <=> \A r \in Differ(b, a) : ~ IsPrefix(p, r)
<1>. DEFINE x == At(b, p)
            y == At(a, p)
<1>1. /\ \A q \in Positions(x) : p \o q \in Positions(b) /\ At(b, p \o q) = At(x, q)
      /\ \A r \in Positions(b) : IsPrefix(p, r) => \E q \in Positions(x) : r = p \o q
    BY PositionsBelow
<1>2. /\ \A q \in Positions(y) : p \o q \in Positions(a) /\ At(a, p \o q) = At(y, q)
      /\ \A r \in Positions(a) : IsPrefix(p, r) => \E q \in Positions(y) : r = p \o q
    BY PositionsBelow
<1>3. /\ \A q \in Positions(x) \cup Positions(y) : IsPrefix(p, p \o q)
      /\ \A q, r \in Positions(x) \cup Positions(y) : p \o q = p \o r => q = r
    BY PositionIsSeq, ConcatIsSeq
<1>. HIDE DEF x, y
<1>4. ASSUME PyEqual(x, y), NEW r \in Differ(b, a), IsPrefix(p, r) PROVE FALSE
    <2>1. Positions(x) = Positions(y) /\ \A q \in Positions(x) : Alike(At(x, q), At(y, q))
        BY <1>4 DEF PyEqual
    <2>2. PICK q \in Positions(x) : r = p \o q
        BY <1>1, <1>2, <1>4, <2>1 DEF Differ
    <2>3. r \in Positions(b) \cap Positions(a) /\ Alike(At(b, r), At(a, r))
        BY <1>1, <1>2, <2>1, <2>2
    <2>. QED BY <1>4, <2>3 DEF Differ
<1>5. ASSUME \A r \in Differ(b, a) : ~ IsPrefix(p, r) PROVE PyEqual(x, y)
    <2>1. ASSUME NEW q \in Positions(x) PROVE q \in Positions(y) /\ Alike(At(x, q), At(y, q))
        <3>1. p \o q \in Positions(b) /\ IsPrefix(p, p \o q)
            BY <1>1, <1>3
        <3>2. p \o q \in Positions(a) /\ Alike(At(b, p \o q), At(a, p \o q))
            BY <1>5, <3>1 DEF Differ
        <3>3. PICK h \in Positions(y) : p \o q = p \o h
            BY <1>2, <3>1, <3>2
        <3>4. q = h
            BY <1>3, <3>3
        <3>. QED BY <1>1, <1>2, <3>2, <3>3, <3>4
    <2>2. ASSUME NEW q \in Positions(y) PROVE q \in Positions(x)
        <3>1. p \o q \in Positions(a) /\ IsPrefix(p, p \o q)
            BY <1>2, <1>3
        <3>2. p \o q \in Positions(b)
            BY <1>5, <3>1 DEF Differ
        <3>3. PICK h \in Positions(x) : p \o q = p \o h
            BY <1>1, <3>1, <3>2
        <3>4. q = h
            BY <1>3, <3>3
        <3>. QED BY <3>4
    <2>3. Positions(x) = Positions(y)
        BY <2>1, <2>2
    <2>. QED BY <2>1, <2>3 DEF PyEqual
<1>6. PyEqual(x, y) <=> \A r \in Differ(b, a) : ~ IsPrefix(p, r)
    BY <1>4, <1>5
<1>. QED BY <1>6 DEF x, y

(* The comparison is called for positions of both documents, and descends  *)
(* into all that leads to one.                                             *)
LEMMA WalkedBoth ==
    ASSUME NEW b, NEW a, Nested(b), Nested(a)
    PROVE  Walked(b, a) \subseteq Positions(b) \cap Positions(a)
<1>. DEFINE T == Positions(b) \cap Positions(a)
            W == Walked(b, a)
<1>1. << >> \in T
    BY PositionsFacts
<1>2. ASSUME NEW p \in W, p # << >>
      PROVE  \E q \in W : \E m : p = Append(q, m) /\ (q \in T => p \in T)
    <2>1. PICK q \in W : \E m \in Members(At(b, q)) \cap Members(At(a, q)) : p = Append(q, m)
        BY <1>2, WalkedFacts
    <2>2. PICK m \in Members(At(b, q)) \cap Members(At(a, q)) : p = Append(q, m)
        BY <2>1
    <2>3. ASSUME q \in T PROVE p \in T
        BY <2>2, <2>3, NextMember
    <2>. QED BY <2>2, <2>3
<1>3. \A p \in W : IsSeq(p)
    BY WalkedFacts
<1>. HIDE DEF T, W
<1>4. W \subseteq T
    BY <1>1, <1>2, <1>3, Downward
<1>. QED BY <1>4 DEF T, W

(* The comparison descends into all that leads to a position walked.       *)
LEMMA AboveWalked ==
    ASSUME NEW b, NEW a, NEW w \in Walked(b, a), NEW p, IsSeq(p), IsPrefix(p, w), p # w
    PROVE  p \in Walked(b, a) /\ Descends(b, a, p)
<1>. DEFINE W == Walked(b, a)
            T == {q \in W : IsPrefix(p, q) /\ p # q => p \in W /\ Descends(b, a, p)}
<1>1. << >> \in T
    BY PrefixEmpty, WalkedFacts
<1>2. ASSUME NEW q \in W, q # << >>
      PROVE  \E h \in W : \E m : q = Append(h, m) /\ (h \in T => q \in T)
    <2>1. PICK h \in W : \E m \in Members(At(b, h)) \cap Members(At(a, h)) :
              Descends(b, a, h) /\ q = Append(h, m)
        BY <1>2, WalkedFacts
    <2>2. PICK m : Descends(b, a, h) /\ q = Append(h, m)
        BY <2>1
    <2>3. IsSeq(h)
        BY WalkedFacts
    <2>4. IsPrefix(p, q) /\ p # q => IsPrefix(p, h)
        BY <2>2, <2>3, PrefixAppend
    <2>5. ASSUME h \in T PROVE q \in T
        BY <2>2, <2>4, <2>5
    <2>. QED BY <2>2, <2>5
<1>3. \A q \in W : IsSeq(q)
    BY WalkedFacts
<1>4. W \subseteq T
    <2>. HIDE DEF T, W
    <2>. QED BY <1>1, <1>2, <1>3, Downward
<1>. QED BY <1>4

(* What is reported, and as what.                                          *)
LEMMA CompareMeans ==
    ASSUME NEW b, NEW a, NEW c
    PROVE  c \in Compare(b, a) <=>
               \E p \in Walked(b, a) :
                   \/ /\ ~ Descends(b, a, p) /\ ~ PyEqual(At(b, p), At(a, p))
                      /\ c = <<p, "changed">>
                   \/ /\ Descends(b, a, p)
                      /\ \E m \in Members(At(b, p)) \ Members(At(a, p)) : c = <<Append(p, m), "removed">>
                   \/ /\ Descends(b, a, p)
                      /\ \E m \in Members(At(a, p)) \ Members(At(b, p)) : c = <<Append(p, m), "added">>
<1>. DEFINE W == Walked(b, a)
            deep == {p \in W : Descends(b, a, p)}
            Changed == {<<p, "changed">> : p \in {q \in W \ deep : ~ PyEqual(At(b, q), At(a, q))}}
            Removed(p) == {<<Append(p, m), "removed">> : m \in Members(At(b, p)) \ Members(At(a, p))}
            Added(p) == {<<Append(p, m), "added">> : m \in Members(At(a, p)) \ Members(At(b, p))}
<1>1. Compare(b, a) = Changed \cup UNION {Removed(p) \cup Added(p) : p \in deep}
    BY DEF Compare
<1>2. c \in Changed <=> \E p \in W : ~ Descends(b, a, p) /\ ~ PyEqual(At(b, p), At(a, p)) /\ c = <<p, "changed">>
    OBVIOUS
<1>3. \A p : /\ c \in Removed(p) <=>
                    \E m \in Members(At(b, p)) \ Members(At(a, p)) : c = <<Append(p, m), "removed">>
             /\ c \in Added(p) <=>
                    \E m \in Members(At(a, p)) \ Members(At(b, p)) : c = <<Append(p, m), "added">>
    OBVIOUS
<1>. HIDE DEF Changed, Removed, Added
<1>4. c \in Compare(b, a) <=> c \in Changed \/ \E p \in W : Descends(b, a, p) /\ (c \in Removed(p) \/ c \in Added(p))
    BY <1>1
<1>. QED BY <1>2, <1>3, <1>4

(* A change is a sequence and its kind; something differs at it or below;  *)
(* its kind says which side has it; and the comparison descends into all   *)
(* that leads to it but not into it.                                       *)
ChangeOK(b, a, c) ==
    /\ c = <<c[1], c[2]>> /\ IsSeq(c[1])
    /\ \E p \in Differ(b, a) : IsPrefix(c[1], p)
    /\ c[2] = (IF c[1] \in Positions(b) \cap Positions(a) THEN "changed"
               ELSE IF c[1] \in Positions(b) THEN "removed" ELSE "added")
    /\ ~ (c[1] \in Walked(b, a) /\ Descends(b, a, c[1]))
    /\ \A p : IsSeq(p) /\ IsPrefix(p, c[1]) /\ p # c[1] => p \in Walked(b, a) /\ Descends(b, a, p)

(* A member that one side has is where the two differ.                     *)
LEMMA OneSided ==
    ASSUME NEW b, NEW a, Nested(b), Nested(a), NEW p \in Walked(b, a), Descends(b, a, p),
           NEW m, NEW kind,
           \/ m \in Members(At(b, p)) \ Members(At(a, p)) /\ kind = "removed"
           \/ m \in Members(At(a, p)) \ Members(At(b, p)) /\ kind = "added",
           NEW c, c = <<Append(p, m), kind>>
    PROVE  ChangeOK(b, a, c)
<1>. DEFINE q == Append(p, m)
<1>1. p \in Positions(b) /\ p \in Positions(a) /\ IsSeq(p)
    BY WalkedBoth, WalkedFacts
<1>2. IsSeq(q) /\ q # << >>
    BY <1>1, AppendIsSeq
<1>3. /\ q \in Positions(b) <=> m \in Members(At(b, p))
      /\ q \in Positions(a) <=> m \in Members(At(a, p))
    BY <1>1, LastMember, NextMember
<1>4. q \in Differ(b, a) /\ IsPrefix(q, q)
    BY <1>2, <1>3, PrefixSelf DEF Differ
<1>5. q \notin Walked(b, a)
    BY <1>3, WalkedBoth
<1>6. ASSUME NEW h, IsSeq(h), IsPrefix(h, q), h # q PROVE h \in Walked(b, a) /\ Descends(b, a, h)
    <2>1. IsPrefix(h, p)
        BY <1>1, <1>6, PrefixAppend
    <2>. QED BY <1>6, <2>1, AboveWalked
<1>7. c[1] = q /\ c[2] = kind /\ c = <<c[1], c[2]>>
    OBVIOUS
<1>. HIDE DEF q
<1>. QED BY <1>2, <1>3, <1>4, <1>5, <1>6, <1>7 DEF ChangeOK

(* Every change that is reported is as described.                          *)
LEMMA ChangesOK ==
    ASSUME NEW b, NEW a, Nested(b), Nested(a), NEW c \in Compare(b, a)
    PROVE  ChangeOK(b, a, c)
<1>1. PICK p \in Walked(b, a) :
          \/ /\ ~ Descends(b, a, p) /\ ~ PyEqual(At(b, p), At(a, p))
             /\ c = <<p, "changed">>
          \/ /\ Descends(b, a, p)
             /\ \E m \in Members(At(b, p)) \ Members(At(a, p)) : c = <<Append(p, m), "removed">>
          \/ /\ Descends(b, a, p)
             /\ \E m \in Members(At(a, p)) \ Members(At(b, p)) : c = <<Append(p, m), "added">>
    BY CompareMeans
<1>2. CASE ~ Descends(b, a, p) /\ ~ PyEqual(At(b, p), At(a, p)) /\ c = <<p, "changed">>
    <2>1. p \in Positions(b) \cap Positions(a) /\ IsSeq(p)
        BY WalkedBoth, WalkedFacts
    <2>2. \E r \in Differ(b, a) : IsPrefix(p, r)
        BY <1>2, <2>1, EqualMeans
    <2>3. \A h : IsSeq(h) /\ IsPrefix(h, p) /\ h # p => h \in Walked(b, a) /\ Descends(b, a, h)
        BY AboveWalked
    <2>4. c[1] = p /\ c[2] = "changed" /\ c = <<c[1], c[2]>>
        BY <1>2
    <2>. QED BY <1>2, <2>1, <2>2, <2>3, <2>4 DEF ChangeOK
<1>3. ASSUME Descends(b, a, p), NEW m \in Members(At(b, p)) \ Members(At(a, p)), c = <<Append(p, m), "removed">>
      PROVE  ChangeOK(b, a, c)
    BY <1>3, OneSided
<1>4. ASSUME Descends(b, a, p), NEW m \in Members(At(a, p)) \ Members(At(b, p)), c = <<Append(p, m), "added">>
      PROVE  ChangeOK(b, a, c)
    BY <1>4, OneSided
<1>. QED BY <1>1, <1>2, <1>3, <1>4

(* Nothing is missed: the comparison follows the way to a position that    *)
(* differs until it reports something on it.                               *)
LEMMA NothingMissed ==
    ASSUME NEW b, NEW a, Nested(b), Nested(a), NEW r \in Differ(b, a)
    PROVE  \E c \in Compare(b, a) : IsPrefix(c[1], r)
<1>. SUFFICES ASSUME \A c \in Compare(b, a) : ~ IsPrefix(c[1], r) PROVE FALSE
    OBVIOUS
<1>. DEFINE W == Walked(b, a)
            S == {n \in 0..Len(r) : \E w \in W : Len(w) = n /\ IsPrefix(w, r)}
<1>1. IsSeq(r) /\ Len(r) \in Nat /\ r \in Positions(b) \cup Positions(a)
    BY PositionIsSeq, AppendIsSeq DEF Differ
<1>2. 0 \in S
    BY <1>1, WalkedFacts, PrefixEmpty, EmptyIsSeq
<1>3. ASSUME NEW w \in W, IsPrefix(w, r) PROVE Descends(b, a, w)
    <2>1. w \in Positions(b) \cap Positions(a)
        BY WalkedBoth
    <2>2. ~ PyEqual(At(b, w), At(a, w))
        BY <1>3, <2>1, EqualMeans
    <2>. SUFFICES ASSUME ~ Descends(b, a, w) PROVE FALSE
        OBVIOUS
    <2>. DEFINE c == <<w, "changed">>
    <2>3. c \in Compare(b, a)
        BY <2>2, CompareMeans
    <2>. QED BY <1>3, <2>3
<1>4. ASSUME NEW n \in 0..Len(r), n \in S, n < Len(r) PROVE n + 1 \in S
    <2>1. PICK w \in W : Len(w) = n /\ IsPrefix(w, r)
        BY <1>4
    <2>. DEFINE m == r[Len(w) + 1]
                q == Append(w, m)
    <2>2. IsSeq(w) /\ Descends(b, a, w) /\ w \in Positions(b) \cap Positions(a)
        BY <1>3, <2>1, WalkedFacts, WalkedBoth
    <2>3. IsSeq(q) /\ Len(q) = n + 1 /\ IsPrefix(q, r)
        BY <1>1, <1>4, <2>1, <2>2, AppendIsSeq, PrefixNext
    <2>4. /\ q \in Positions(b) => m \in Members(At(b, w))
          /\ q \in Positions(a) => m \in Members(At(a, w))
        BY <2>2, LastMember
    <2>5. q \in Positions(b) \cup Positions(a)
        BY <1>1, <2>3, PrefixPosition
    <2>. HIDE DEF m, q
    <2>6. m \in Members(At(b, w)) \ Members(At(a, w)) => FALSE
        <3>. SUFFICES ASSUME m \in Members(At(b, w)) \ Members(At(a, w)) PROVE FALSE
            OBVIOUS
        <3>. DEFINE c == <<q, "removed">>
        <3>1. c \in Compare(b, a)
            BY <2>2, CompareMeans DEF q
        <3>. QED BY <2>3, <3>1
    <2>7. m \in Members(At(a, w)) \ Members(At(b, w)) => FALSE
        <3>. SUFFICES ASSUME m \in Members(At(a, w)) \ Members(At(b, w)) PROVE FALSE
            OBVIOUS
        <3>. DEFINE c == <<q, "added">>
        <3>1. c \in Compare(b, a)
            BY <2>2, CompareMeans DEF q
        <3>. QED BY <2>3, <3>1
    <2>8. m \in Members(At(b, w)) \cap Members(At(a, w))
        BY <2>4, <2>5, <2>6, <2>7
    <2>9. q \in W
        BY <2>2, <2>8, WalkedFacts DEF q
    <2>10. n + 1 \in 0..Len(r)
        BY <1>1, <1>4
    <2>. QED BY <2>3, <2>9, <2>10
<1>5. 0..Len(r) \subseteq S
    <2>. HIDE DEF S
    <2>. QED BY <1>1, <1>2, <1>4, UpTo
<1>6. PICK w \in W : Len(w) = Len(r) /\ IsPrefix(w, r)
    BY <1>1, <1>5
<1>7. w = r
    <2>1. IsSeq(w)
        BY WalkedFacts
    <2>. QED BY <1>1, <1>6, <2>1, PrefixMeans, SameSeq
<1>8. Descends(b, a, r) /\ r \in Positions(b) \cap Positions(a)
    BY <1>3, <1>6, <1>7, WalkedBoth
<1>9. Alike(At(b, r), At(a, r))
    BY <1>8 DEF Descends, Alike
<1>. QED BY <1>8, <1>9 DEF Differ

(* The comparison lists every difference but those of a number's type      *)
(* exactly once (diff.compare): at or below each position it reports       *)
(* something differs by more than that, with the kind that says which side *)
(* has it; no reported position is below another; each position that       *)
(* differs by more is at or below a reported one; and nothing is reported  *)
(* exactly when nothing differs by more.                                   *)
THEOREM CompareExact ==
    ASSUME NEW b, NEW a, Nested(b), Nested(a)
    PROVE  LET more == Different(b, a) \ Blurred(b, a) IN
           /\ \A c \in Compare(b, a) :
                  /\ \E p \in more : IsPrefix(c[1], p)
                  /\ c[2] = (IF c[1] \in Positions(b) \cap Positions(a) THEN "changed"
                             ELSE IF c[1] \in Positions(b) THEN "removed" ELSE "added")
                  /\ \A d \in Compare(b, a) : IsPrefix(c[1], d[1]) => c = d
           /\ \A p \in more : \E c \in Compare(b, a) : IsPrefix(c[1], p)
           /\ Compare(b, a) = {} <=> Different(b, a) \subseteq Blurred(b, a)
<1>1. ASSUME NEW c \in Compare(b, a), NEW d \in Compare(b, a), IsPrefix(c[1], d[1]) PROVE c = d
    <2>1. ChangeOK(b, a, c) /\ ChangeOK(b, a, d)
        BY ChangesOK
    <2>2. c[1] = d[1]
        BY <1>1, <2>1 DEF ChangeOK
    <2>3. c[2] = d[2]
        BY <2>1, <2>2 DEF ChangeOK
    <2>4. c = <<c[1], c[2]>> /\ d = <<d[1], d[2]>>
        BY <2>1 DEF ChangeOK
    <2>. QED BY <2>2, <2>3, <2>4
<1>2. ASSUME NEW c \in Compare(b, a)
      PROVE  /\ \E p \in Differ(b, a) : IsPrefix(c[1], p)
             /\ c[2] = (IF c[1] \in Positions(b) \cap Positions(a) THEN "changed"
                        ELSE IF c[1] \in Positions(b) THEN "removed" ELSE "added")
    BY ChangesOK DEF ChangeOK
<1>3. Compare(b, a) = {} <=> Differ(b, a) = {}
    BY <1>2, NothingMissed
<1>. QED BY <1>1, <1>2, <1>3, NothingMissed, DifferMeans

(* The exception is real: of two documents that are the same number in     *)
(* different types, 1 and 1.0 or 1 and true, the comparison reports        *)
(* nothing, though they differ.  The docstring of diff.compare says that   *)
(* it returns every difference, and that none means identical.             *)
THEOREM NumbersBlur ==
    ASSUME NEW b, NEW a, SameNumber(b, a)
    PROVE  Compare(b, a) = {} /\ Different(b, a) = {<< >>}
<1>1. ~ IsObject(b) /\ ~ IsObject(a)
    BY DEF SameNumber, IsNumeric, IsObject
<1>2. At(b, << >>) = b /\ At(a, << >>) = a
    BY AtRoot
<1>3. Positions(b) = {<< >>} /\ Positions(a) = {<< >>}
    <2>1. ASSUME NEW v, ~ IsObject(v) PROVE Positions(v) = {<< >>}
        <3>1. ASSUME NEW p \in Positions(v), p # << >>
              PROVE  \E q \in Positions(v) : \E m : p = Append(q, m) /\ (q \in {<< >>} => p \in {<< >>})
            <4>1. PICK q \in Positions(v) : \E m \in Members(At(v, q)) : p = Append(q, m)
                BY <3>1, PositionsFacts
            <4>2. q # << >>
                BY <2>1, <4>1, AtRoot DEF Members
            <4>. QED BY <4>1, <4>2
        <3>2. Positions(v) \subseteq {<< >>}
            BY <3>1, PositionIsSeq, Downward
        <3>. QED BY <3>2, PositionsFacts
    <2>. QED BY <1>1, <2>1
<1>4. Different(b, a) = {<< >>} /\ Blurred(b, a) = {<< >>}
    BY <1>1, <1>2, <1>3 DEF Different, Blurred, SameNumber
<1>5. Nested(b) /\ Nested(a)
    <2>1. Len(<< >>) # MaxNest
        BY NestAssumption, EmptyIsSeq
    <2>. QED BY <1>3, <2>1 DEF Nested
<1>. QED BY <1>4, <1>5, CompareExact
=============================================================================

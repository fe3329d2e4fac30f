---------------------------- MODULE LedgerProofs ----------------------------
(***************************************************************************)
(* Theorems about Ledger, for any wallets, keys, recipients, amounts,      *)
(* tiers, quotes and fees, and for a chain and a tip of any length.        *)
(*                                                                         *)
(* What a review or a draft holds was read from the chain, and an output   *)
(* never changes, so it stays true however old the draft is (Known).  From *)
(* that alone every transaction the builders make over coins still unspent *)
(* is valid, and moves the tokens the indexer reads exactly as its user    *)
(* meant.                                                                  *)
(***************************************************************************)
EXTENDS Ledger, FiniteSetTheorems, SequenceTheorems, TLAPS

-----------------------------------------------------------------------------
(* Sums *)

\* A set of naturals has a least element.
LEMMA Least ==
  ASSUME NEW S \in SUBSET Nat, S # {}
  PROVE  Min(S) \in S /\ \A n \in S : Min(S) <= n
<1>1. \E m \in S : \A n \in S : ~(<<n, m>> \in OpToRel(<, Nat))
  BY NatLessThanWellFounded, WFMin
<1>2. ASSUME NEW m \in Nat, NEW n \in Nat, n < m PROVE <<n, m>> \in OpToRel(<, Nat)
  <2>1. <<n, m>> \in Nat \X Nat /\ <<n, m>>[1] < <<n, m>>[2]
    BY <1>2
  <2> QED
    BY <2>1, Zenon DEF OpToRel
<1>3. PICK m \in S : \A n \in S : ~(<<n, m>> \in OpToRel(<, Nat))
  BY <1>1
<1>4. \A n \in S : ~(n < m)
  BY <1>2, <1>3
<1>5. \E k \in S : \A n \in S : k <= n
  BY <1>4
<1> QED
  BY <1>5 DEF Min

\* Of the finite sets of a collection one is of least size.
LEMMA Fewest ==
  ASSUME NEW C, C # {}, \A T \in C : IsFiniteSet(T)
  PROVE  \E T \in C : \A U \in SUBSET T : U # T => U \notin C
<1> DEFINE sizes == {n \in Nat : \E T \in C : Cardinality(T) = n}
<1>1. sizes # {}
  BY FS_CardinalityType
<1>2. PICK T \in C : Cardinality(T) = Min(sizes) /\ \A n \in sizes : Min(sizes) <= n
  BY <1>1, Least
<1>3. ASSUME NEW U \in SUBSET T, U # T, U \in C PROVE FALSE
  <2>1. Cardinality(U) \in sizes /\ Cardinality(T) \in sizes
    BY <1>3, FS_CardinalityType
  <2>2. Cardinality(U) <= Cardinality(T) /\ Cardinality(U) # Cardinality(T)
    BY <1>3, FS_Subset
  <2>. HIDE DEF sizes
  <2>3. Cardinality(U) \in Int /\ Cardinality(T) \in Int
    BY <2>1 DEF sizes
  <2>. QED  BY <1>2, <2>1, <2>2, <2>3
<1>. QED  BY <1>3

\* The element a sum takes off first.
Pick(S) == CHOOSE x \in S : TRUE

\* The table the fold's recursion is: a total for every subset.
IsTable(f, S, g) ==
  g = [T \in SUBSET S |-> IF T = {} THEN 0 ELSE f[Pick(T)] + g[T \ {Pick(T)}]]

\* The library's recursion is a choice among the tables of partial sums.
LEMMA SumIsTable ==
  ASSUME NEW f, NEW S
  PROVE  SumFunctionOnSet(f, S) = (CHOOSE g : IsTable(f, S, g))[S]
BY DEF SumFunctionOnSet, FoldFunctionOnSet, MapThenFoldSet, IsTable, Pick

LEMMA Picked == ASSUME NEW T, T # {} PROVE Pick(T) \in T
BY DEF Pick

\* Two tables agree wherever both are defined.
LEMMA TablesAgree ==
  ASSUME NEW f, NEW S, NEW U, NEW g, NEW h, IsFiniteSet(U), U \subseteq S,
         IsTable(f, S, g), IsTable(f, U, h)
  PROVE  \A T \in SUBSET U : g[T] = h[T]
<1> DEFINE C == {T \in SUBSET U : g[T] # h[T]}
<1>. SUFFICES ASSUME C # {} PROVE FALSE
  OBVIOUS
<1>1. \A T \in C : IsFiniteSet(T)
  BY FS_Subset
<1>2. PICK T \in C : \A V \in SUBSET T : V # T => V \notin C
  BY <1>1, Fewest
<1>3. CASE T = {}
  BY <1>3, <1>2 DEF IsTable
<1>4. CASE T # {}
  <2>1. T \ {Pick(T)} \in SUBSET T /\ T \ {Pick(T)} # T
    BY <1>4, Picked
  <2>2. g[T \ {Pick(T)}] = h[T \ {Pick(T)}]
    BY <1>2, <2>1
  <2>3. g[T] = f[Pick(T)] + g[T \ {Pick(T)}]
    BY <1>4 DEF IsTable
  <2>4. h[T] = f[Pick(T)] + h[T \ {Pick(T)}]
    BY <1>4 DEF IsTable
  <2>. QED  BY <1>2, <2>2, <2>3, <2>4
<1>. QED  BY <1>3, <1>4

\* A finite set has a table of partial sums.
LEMMA TableExists ==
  ASSUME NEW f, NEW S, IsFiniteSet(S)
  PROVE  \E g : IsTable(f, S, g)
<1> DEFINE C == {T \in SUBSET S : ~ \E g : IsTable(f, T, g)}
<1>. SUFFICES ASSUME C # {} PROVE FALSE
  OBVIOUS
<1>1. \A T \in C : IsFiniteSet(T)
  BY FS_Subset
<1>2. PICK T \in C : \A V \in SUBSET T : V # T => V \notin C
  BY <1>1, Fewest
<1>3. \A V \in SUBSET T : V # T => \E g : IsTable(f, V, g)
  BY <1>2
<1> DEFINE tab(V) == CHOOSE g : IsTable(f, V, g)
           rest == T \ {Pick(T)}
           G == [V \in SUBSET T |-> IF V # T THEN tab(V)[V]
                                    ELSE IF T = {} THEN 0 ELSE f[Pick(T)] + tab(rest)[rest]]
<1>4. \A V \in SUBSET T : V # T => IsTable(f, V, tab(V))
  BY <1>3
<1>. HIDE DEF tab
<1>5. ASSUME NEW V \in SUBSET T
      PROVE  G[V] = IF V = {} THEN 0 ELSE f[Pick(V)] + G[V \ {Pick(V)}]
  <2>1. CASE V = {}
    <3>1. CASE V = T
      BY <2>1, <3>1
    <3>2. CASE V # T
      <4>1. IsTable(f, V, tab(V)) /\ G[V] = tab(V)[V]
        BY <3>2, <1>4
      <4>. HIDE DEF G
      <4>. QED  BY <4>1, <2>1 DEF IsTable
    <3>. QED  BY <3>1, <3>2
  <2>2. CASE V # {}
    <3> DEFINE W == V \ {Pick(V)}
    <3>1. W \in SUBSET V /\ W # V /\ W # T
      BY <2>2, Picked
    <3>2. IsTable(f, W, tab(W)) /\ G[W] = tab(W)[W]
      BY <3>1, <1>4
    <3>3. CASE V = T
      BY <3>2, <3>3, <2>2
    <3>4. CASE V # T
      <4>1. IsTable(f, V, tab(V)) /\ G[V] = tab(V)[V]
        BY <3>4, <1>4
      <4>2. IsFiniteSet(W)
        BY <3>1, FS_Subset
      <4>. HIDE DEF G, W
      <4>3. tab(V)[W] = tab(W)[W]
        BY <4>1, <4>2, <3>1, <3>2, TablesAgree
      <4>4. tab(V)[V] = f[Pick(V)] + tab(V)[W]
        BY <4>1, <2>2 DEF IsTable, W
      <4>. QED  BY <4>1, <4>3, <4>4, <3>2, <2>2 DEF W
    <3>. QED  BY <3>3, <3>4
  <2>. QED  BY <2>1, <2>2
<1>6. IsTable(f, T, G)
  BY <1>5 DEF IsTable
<1>. QED  BY <1>6, <1>2

\* Nothing comes to zero; anything else to one element and the rest.
LEMMA SumEmpty == ASSUME NEW f PROVE SumFunctionOnSet(f, {}) = 0
<1>1. IsTable(f, {}, CHOOSE g : IsTable(f, {}, g))
  BY TableExists, FS_EmptySet
<1>. QED  BY <1>1, SumIsTable DEF IsTable

LEMMA SumPick ==
  ASSUME NEW f, NEW S, IsFiniteSet(S), S # {}
  PROVE  SumFunctionOnSet(f, S) = f[Pick(S)] + SumFunctionOnSet(f, S \ {Pick(S)})
<1> DEFINE R == S \ {Pick(S)}
           g == CHOOSE t : IsTable(f, S, t)
           h == CHOOSE t : IsTable(f, R, t)
<1>1. IsFiniteSet(R) /\ R \subseteq S
  BY FS_Subset
<1>2. IsTable(f, S, g) /\ IsTable(f, R, h)
  BY <1>1, TableExists
<1>3. SumFunctionOnSet(f, S) = g[S] /\ SumFunctionOnSet(f, R) = h[R]
  BY SumIsTable
<1>. HIDE DEF g, h
<1>4. g[R] = h[R]
  BY <1>1, <1>2, TablesAgree
<1>5. g[S] = f[Pick(S)] + g[R]
  BY <1>2 DEF IsTable
<1>. QED  BY <1>3, <1>4, <1>5
\* A total of integers is one, and a natural number if they all are.
LEMMA SumType ==
  ASSUME NEW f, NEW S, IsFiniteSet(S), \A x \in S : f[x] \in Int
  PROVE  SumFunctionOnSet(f, S) \in Int
<1> DEFINE C == {T \in SUBSET S : SumFunctionOnSet(f, T) \notin Int}
<1>. SUFFICES ASSUME C # {} PROVE FALSE
  BY DEF C
<1>1. PICK T \in C : \A V \in SUBSET T : V # T => V \notin C
  BY Fewest, FS_Subset
<1>2. CASE T = {}
  BY <1>2, <1>1, SumEmpty
<1>3. CASE T # {}
  <2>1. T \ {Pick(T)} \in SUBSET T /\ T \ {Pick(T)} # T /\ Pick(T) \in S
    BY <1>3, Picked
  <2>2. IsFiniteSet(T)
    BY FS_Subset
  <2>3. SumFunctionOnSet(f, T) = f[Pick(T)] + SumFunctionOnSet(f, T \ {Pick(T)})
    BY <2>2, <1>3, SumPick
  <2>4. SumFunctionOnSet(f, T \ {Pick(T)}) \in Int
    BY <2>1, <1>1
  <2>. QED  BY <2>1, <2>3, <2>4, <1>1
<1>. QED  BY <1>2, <1>3

\* Any element may be taken out first.
LEMMA SumRemove ==
  ASSUME NEW f, NEW S, IsFiniteSet(S), \A x \in S : f[x] \in Int, NEW y \in S
  PROVE  SumFunctionOnSet(f, S) = f[y] + SumFunctionOnSet(f, S \ {y})
<1> DEFINE sum(T) == SumFunctionOnSet(f, T)
           C == {T \in SUBSET S : \E z \in T : sum(T) # f[z] + sum(T \ {z})}
<1>. SUFFICES ASSUME C # {} PROVE FALSE
  BY DEF C
<1>1. PICK T \in C : \A V \in SUBSET T : V # T => V \notin C
  BY Fewest, FS_Subset
<1>2. PICK z \in T : sum(T) # f[z] + sum(T \ {z})
  BY <1>1
<1> DEFINE p == Pick(T)
<1>3. p \in T /\ IsFiniteSet(T) /\ T \subseteq S
  BY <1>2, Picked, FS_Subset
<1>4. sum(T) = f[p] + sum(T \ {p})
  BY <1>3, SumPick
<1>5. p # z
  BY <1>2, <1>4
<1>6. T \ {p} \in SUBSET T /\ T \ {p} # T /\ T \ {z} \in SUBSET T /\ T \ {z} # T
      /\ z \in T \ {p} /\ p \in T \ {z}
  BY <1>3, <1>5
<1>7. sum(T \ {p}) = f[z] + sum((T \ {p}) \ {z})
  BY <1>1, <1>6
<1>8. sum(T \ {z}) = f[p] + sum((T \ {z}) \ {p})
  BY <1>1, <1>6
<1>9. (T \ {p}) \ {z} = (T \ {z}) \ {p}
  OBVIOUS
<1> DEFINE rest == (T \ {z}) \ {p}
<1>10. sum(rest) \in Int /\ f[p] \in Int /\ f[z] \in Int
  <2>1. IsFiniteSet(rest) /\ rest \subseteq S
    BY <1>3, FS_Subset
  <2>. QED  BY <2>1, <1>3, SumType
<1>. HIDE DEF sum, p, rest
<1>11. sum(T) = f[p] + (f[z] + sum(rest)) /\ sum(T \ {z}) = f[p] + sum(rest)
  BY <1>4, <1>7, <1>8, <1>9 DEF rest
<1>. QED  BY <1>2, <1>10, <1>11

\* Totals of values that agree on a set are equal.
LEMMA SumSame ==
  ASSUME NEW f, NEW g, NEW S, IsFiniteSet(S), \A x \in S : f[x] = g[x]
  PROVE  SumFunctionOnSet(f, S) = SumFunctionOnSet(g, S)
<1> DEFINE C == {T \in SUBSET S : SumFunctionOnSet(f, T) # SumFunctionOnSet(g, T)}
<1>. SUFFICES ASSUME C # {} PROVE FALSE
  BY DEF C
<1>1. PICK T \in C : \A V \in SUBSET T : V # T => V \notin C
  BY Fewest, FS_Subset
<1>2. CASE T = {}
  BY <1>2, <1>1, SumEmpty
<1>3. CASE T # {}
  <2>1. T \ {Pick(T)} \in SUBSET T /\ T \ {Pick(T)} # T /\ Pick(T) \in S
    BY <1>3, Picked
  <2>2. IsFiniteSet(T)
    BY FS_Subset
  <2>3. /\ SumFunctionOnSet(f, T) = f[Pick(T)] + SumFunctionOnSet(f, T \ {Pick(T)})
        /\ SumFunctionOnSet(g, T) = g[Pick(T)] + SumFunctionOnSet(g, T \ {Pick(T)})
    BY <2>2, <1>3, SumPick
  <2>4. SumFunctionOnSet(f, T \ {Pick(T)}) = SumFunctionOnSet(g, T \ {Pick(T)})
    BY <2>1, <1>1
  <2>. QED  BY <2>1, <2>3, <2>4, <1>1
<1>. QED  BY <1>2, <1>3

\* The total over two disjoint sets.
LEMMA SumUnion ==
  ASSUME NEW f, NEW S, NEW U, IsFiniteSet(S), IsFiniteSet(U), S \cap U = {},
         \A x \in S \cup U : f[x] \in Int
  PROVE  SumFunctionOnSet(f, S \cup U) = SumFunctionOnSet(f, S) + SumFunctionOnSet(f, U)
<1> DEFINE sum(T) == SumFunctionOnSet(f, T)
           C == {T \in SUBSET U : sum(S \cup T) # sum(S) + sum(T)}
<1>. SUFFICES ASSUME C # {} PROVE FALSE
  BY DEF C
<1>1. PICK T \in C : \A V \in SUBSET T : V # T => V \notin C
  BY Fewest, FS_Subset
<1>2. sum(S) \in Int
  BY SumType
<1>3. CASE T = {}
  <2>1. S \cup T = S
    BY <1>3
  <2>. QED  BY <1>1, <1>2, <1>3, <2>1, SumEmpty
<1>4. CASE T # {}
  <2> DEFINE y == Pick(T)
             V == T \ {y}
  <2>1. y \in T /\ V \in SUBSET T /\ V # T /\ y \notin S
    BY <1>4, Picked
  <2>2. IsFiniteSet(T) /\ IsFiniteSet(S \cup T) /\ IsFiniteSet(V)
    BY FS_Subset, FS_Union
  <2>3. (S \cup T) \ {y} = S \cup V
    BY <2>1
  <2>. HIDE DEF y
  <2>4. SumFunctionOnSet(f, S \cup T) = f[y] + SumFunctionOnSet(f, (S \cup T) \ {y})
    BY <2>1, <2>2, SumRemove
  <2>5. SumFunctionOnSet(f, T) = f[y] + SumFunctionOnSet(f, T \ {y})
    BY <2>1, <2>2, SumRemove
  <2>6. sum(S \cup V) = sum(S) + sum(V)
    BY <2>1, <1>1
  <2>7. sum(V) \in Int /\ f[y] \in Int
    BY <2>1, <2>2, SumType
  <2>. HIDE DEF V, sum
  <2>8. sum(S \cup T) = f[y] + (sum(S) + sum(V)) /\ sum(T) = f[y] + sum(V)
    BY <2>3, <2>4, <2>5, <2>6 DEF sum, V
  <2>9. sum(S \cup T) # sum(S) + sum(T)
    BY <1>1 DEF C
  <2>. QED  BY <1>2, <2>7, <2>8, <2>9
<1>. QED  BY <1>3, <1>4

\* A single element comes to its own value.
LEMMA SumOne ==
  ASSUME NEW f, NEW x, f[x] \in Int
  PROVE  SumFunctionOnSet(f, {x}) = f[x]
<1>1. {x} \ {x} = {}
  OBVIOUS
<1>2. SumFunctionOnSet(f, {x}) = f[x] + SumFunctionOnSet(f, {x} \ {x})
  BY SumRemove, FS_Singleton
<1>. QED  BY <1>1, <1>2, SumEmpty

\* A total of naturals bounds each of them.
LEMMA SumBounds ==
  ASSUME NEW f, NEW S, IsFiniteSet(S), \A x \in S : f[x] \in Nat
  PROVE  /\ SumFunctionOnSet(f, S) \in Nat
         /\ \A x \in S : f[x] <= SumFunctionOnSet(f, S)
<1> DEFINE C == {T \in SUBSET S : SumFunctionOnSet(f, T) \notin Nat}
<1>1. C = {}
  <2>. SUFFICES ASSUME C # {} PROVE FALSE
    OBVIOUS
  <2>1. PICK T \in C : \A V \in SUBSET T : V # T => V \notin C
    BY Fewest, FS_Subset
  <2>2. CASE T = {}
    BY <2>2, <2>1, SumEmpty
  <2>3. CASE T # {}
    <3>1. T \ {Pick(T)} \in SUBSET T /\ T \ {Pick(T)} # T /\ Pick(T) \in S
      BY <2>3, Picked
    <3>2. IsFiniteSet(T)
      BY FS_Subset
    <3>3. SumFunctionOnSet(f, T) = f[Pick(T)] + SumFunctionOnSet(f, T \ {Pick(T)})
      BY <3>2, <2>3, SumPick
    <3>4. SumFunctionOnSet(f, T \ {Pick(T)}) \in Nat
      BY <3>1, <2>1
    <3>. QED  BY <3>1, <3>3, <3>4, <2>1
  <2>. QED  BY <2>2, <2>3
<1>2. ASSUME NEW x \in S PROVE f[x] <= SumFunctionOnSet(f, S)
  <2>1. SumFunctionOnSet(f, S) = f[x] + SumFunctionOnSet(f, S \ {x})
    BY SumRemove
  <2>2. SumFunctionOnSet(f, S \ {x}) \in Nat
    BY <1>1 DEF C
  <2>. QED  BY <2>1, <2>2
<1>. QED  BY <1>1, <1>2 DEF C

-----------------------------------------------------------------------------
(* Sequences *)

\* A sequence, whatever its elements.
IsSeq(s) == Len(s) \in Nat /\ DOMAIN s = 1 .. Len(s) /\ s = [i \in 1 .. Len(s) |-> s[i]]

\* IsSeq is membership of some Seq(S), and its elements are in S.
LEMMA SeqIn == ASSUME NEW s, IsSeq(s) PROVE s \in Seq(Range(s))
<1>1. s \in [1 .. Len(s) -> Range(s)]
  BY DEF IsSeq, Range
<1>. QED  BY <1>1, SeqDef DEF IsSeq

LEMMA InSeq == ASSUME NEW S, NEW s \in Seq(S) PROVE IsSeq(s) /\ \A i \in DOMAIN s : s[i] \in S
BY LenProperties, ElementOfSeq DEF IsSeq

\* A sequence with one element more, and one after the other.
LEMMA Longer ==
  ASSUME NEW s, NEW x, IsSeq(s)
  PROVE  /\ IsSeq(Append(s, x)) /\ Len(Append(s, x)) = Len(s) + 1
         /\ \A i \in 1 .. Len(s) : Append(s, x)[i] = s[i]
         /\ Append(s, x)[Len(s) + 1] = x
<1> DEFINE S == Range(s) \cup {x}
<1>1. s \in Seq(S) /\ x \in S
  BY SeqIn, SeqMonotonic
<1>. HIDE DEF S
<1>2. /\ Append(s, x) \in Seq(S)
      /\ Len(Append(s, x)) = Len(s) + 1
      /\ \A i \in 1 .. Len(s) : Append(s, x)[i] = s[i]
      /\ Append(s, x)[Len(s) + 1] = x
  BY <1>1, AppendProperties
<1>. QED  BY <1>2, InSeq

\* What a concatenation holds.
LEMMA Joined ==
  ASSUME NEW s, NEW t, IsSeq(s), IsSeq(t)
  PROVE  /\ IsSeq(s \o t) /\ Len(s \o t) = Len(s) + Len(t)
         /\ \A i \in 1 .. Len(s) : (s \o t)[i] = s[i]
         /\ \A i \in 1 .. Len(t) : (s \o t)[Len(s) + i] = t[i]
<1> DEFINE S == Range(s) \cup Range(t)
<1>1. s \in Seq(S) /\ t \in Seq(S)
  BY SeqIn, SeqMonotonic
<1>. HIDE DEF S
<1>2. /\ s \o t \in Seq(S)
      /\ Len(s \o t) = Len(s) + Len(t)
      /\ \A i \in 1 .. Len(s) + Len(t) :
           (s \o t)[i] = IF i <= Len(s) THEN s[i] ELSE t[i - Len(s)]
  BY <1>1, ConcatProperties
<1>3. IsSeq(s \o t)
  BY <1>2, InSeq
<1>. QED  BY <1>2, <1>3 DEF IsSeq

\* Three sequences one after the other.
LEMMA ThreeJoined ==
  ASSUME NEW a, NEW b, NEW c, IsSeq(a), IsSeq(b), IsSeq(c)
  PROVE  LET o == (a \o b) \o c IN
         /\ IsSeq(o) /\ Len(o) = Len(a) + Len(b) + Len(c)
         /\ \A i \in 1 .. Len(a) : o[i] = a[i]
         /\ \A i \in 1 .. Len(b) : o[Len(a) + i] = b[i]
         /\ \A i \in 1 .. Len(c) : o[Len(a) + Len(b) + i] = c[i]
<1> DEFINE ab == a \o b
<1>1. /\ IsSeq(ab) /\ Len(ab) = Len(a) + Len(b)
      /\ \A i \in 1 .. Len(a) : ab[i] = a[i]
      /\ \A i \in 1 .. Len(b) : ab[Len(a) + i] = b[i]
  BY Joined
<1>. HIDE DEF ab
<1>3. /\ IsSeq(ab \o c) /\ Len(ab \o c) = Len(ab) + Len(c)
      /\ \A i \in 1 .. Len(ab) : (ab \o c)[i] = ab[i]
      /\ \A i \in 1 .. Len(c) : (ab \o c)[Len(ab) + i] = c[i]
  <2>1. IsSeq(ab) /\ IsSeq(c)
    BY <1>1
  <2>. QED  BY <2>1, Joined
<1>4. Len(a) \in Nat /\ Len(b) \in Nat
  BY DEF IsSeq
<1>5. /\ \A i \in 1 .. Len(a) : i \in 1 .. Len(a) + Len(b)
      /\ \A i \in 1 .. Len(b) : Len(a) + i \in 1 .. Len(a) + Len(b)
  BY <1>4
<1>. QED  BY <1>1, <1>3, <1>5 DEF ab

\* Tuples of up to three are sequences.
LEMMA Tuples ==
  /\ IsSeq(<<>>) /\ Len(<<>>) = 0
  /\ \A x : IsSeq(<<x>>) /\ Len(<<x>>) = 1 /\ <<x>>[1] = x
  /\ \A x, y : IsSeq(<<x, y>>) /\ Len(<<x, y>>) = 2 /\ <<x, y>>[1] = x /\ <<x, y>>[2] = y
  /\ \A x, y, z : IsSeq(<<x, y, z>>) /\ Len(<<x, y, z>>) = 3
       /\ <<x, y, z>>[1] = x /\ <<x, y, z>>[2] = y /\ <<x, y, z>>[3] = z
BY DEF IsSeq

\* A function on 1 .. n is a sequence of length n.
LEMMA Table ==
  ASSUME NEW n \in Nat, NEW f, DOMAIN f = 1 .. n, f = [i \in 1 .. n |-> f[i]]
  PROVE  IsSeq(f) /\ Len(f) = n
<1>1. f \in Seq(Range(f))
  BY SeqDef DEF Range
<1>. QED  BY <1>1, InSeq DEF IsSeq

-----------------------------------------------------------------------------
(* Scripts, outputs and the amounts read back from them *)

\* A script of a standard form is its kind and its key.
Plain(s) == s.kind \in StandardForms /\ s = [kind |-> s.kind, key |-> s.key]

\* The two scripts of a key are plain.
LEMMA KeyScripts ==
  ASSUME NEW k
  PROVE  /\ Plain(P2tr(k)) /\ P2tr(k).kind = "p2tr" /\ P2tr(k).key = k
         /\ Plain(P2wpkh(k)) /\ P2wpkh(k).kind = "p2wpkh" /\ P2wpkh(k).key = k
BY DEF Plain, P2tr, P2wpkh, StandardForms

\* The fees and thresholds are naturals, and a flow pays at least the minimum fee.
LEMMA TxNumbers ==
  /\ Fold \in Nat /\ Fold > 0 /\ MinFee \in Nat /\ MinFee > 0 /\ FlowFee \in Nat /\ FlowFee >= MinFee
  /\ MinOutput \in Nat /\ MinOutput > 0
BY TxConstants, LedgerConstants

\* Change is left out, or is worth an output.
LEMMA Change ==
  ASSUME NEW change \in Int, NEW script
  PROVE  LET c == FoldChange(change)
             o == OutIfPositive(c, script)
         IN  /\ c \in Nat /\ (c = 0 \/ (c >= Fold /\ c = change))
             /\ IsSeq(o) /\ Len(o) = IF c = 0 THEN 0 ELSE 1
             /\ c > 0 => Len(o) = 1 /\ o[1] = Out(c, script)
BY TxNumbers, Tuples DEF FoldChange, OutIfPositive

\* Change is nothing or at least the fold unit (packages/digidollar-js/src/txbuild.js).
LEMMA FoldIs ==
  ASSUME NEW change \in Int
  PROVE  /\ FoldChange(change) \in Nat
         /\ FoldChange(change) = 0 \/ (FoldChange(change) >= Fold /\ FoldChange(change) = change)
BY TxNumbers DEF FoldChange

\* Places in a sequence are finitely many naturals.
LEMMA DomainsAreFinite ==
  ASSUME NEW s, IsSeq(s), NEW S, S \subseteq DOMAIN s
  PROVE  IsFiniteSet(S) /\ S \subseteq Nat
<1>1. IsFiniteSet(1 .. Len(s))
  BY FS_Interval DEF IsSeq
<1>. QED  BY <1>1, FS_Subset DEF IsSeq

\* A token output has a rank of at least one.
LEMMA RankIsCount ==
  ASSUME NEW t, IsSeq(t.out), NEW n \in DdVouts(t)
  PROVE  DdRank(t, n) \in Nat /\ DdRank(t, n) >= 1
<1> DEFINE S == {m \in DdVouts(t) : m <= n}
<1>1. S \subseteq DOMAIN t.out /\ n \in DOMAIN t.out
  BY DEF DdVouts
<1>2. IsFiniteSet(S) /\ n \in S
  <2>1. IsFiniteSet(S)
    BY <1>1, DomainsAreFinite
  <2>2. n \in Nat
    BY <1>1 DEF IsSeq
  <2>. QED  BY <2>1, <2>2
<1>3. Cardinality(S) # 0 /\ Cardinality(S) \in Nat
  BY <1>2, FS_EmptySet, FS_CardinalityType
<1>. QED  BY <1>3 DEF DdRank

\* A transaction that names no amounts holds no tokens.
LEMMA NoAmounts ==
  ASSUME NEW t, IsSeq(t.out), AmountsOf(t) = <<>>
  PROVE  DOMAIN DdAmountsByVout(t) = {}
<1>1. Len(AmountsOf(t)) = 0
  BY Tuples
<1>2. {m \in DdVouts(t) : DdRank(t, m) <= Len(AmountsOf(t))} = {}
  BY <1>1, RankIsCount
<1>. QED  BY <1>2 DEF DdAmountsByVout

\* Tokens that come first are paired with the amounts one by one.
LEMMA FirstAmounts ==
  ASSUME NEW t, NEW k \in Nat, DdVouts(t) = 1 .. k, IsSeq(AmountsOf(t)), Len(AmountsOf(t)) = k
  PROVE  DdAmountsByVout(t) = [n \in 1 .. k |-> AmountsOf(t)[n]]
<1>1. ASSUME NEW n \in 1 .. k PROVE DdRank(t, n) = n
  <2>1. {m \in DdVouts(t) : m <= n} = 1 .. n
    OBVIOUS
  <2>2. Cardinality(1 .. n) = n
    BY FS_Interval
  <2>. QED  BY <2>1, <2>2 DEF DdRank
<1>2. {m \in DdVouts(t) : DdRank(t, m) <= Len(AmountsOf(t))} = 1 .. k
  BY <1>1
<1>. QED  BY <1>1, <1>2 DEF DdAmountsByVout

\* A lone token is paired with the one amount.
LEMMA LoneAmount ==
  ASSUME NEW t, NEW n \in Nat, DdVouts(t) = {n}, Len(AmountsOf(t)) = 1
  PROVE  DdAmountsByVout(t) = [m \in {n} |-> AmountsOf(t)[1]]
<1>1. DdRank(t, n) = 1
  <2>1. {m \in {n} : m <= n} = {n}
    OBVIOUS
  <2>. QED  BY <2>1, FS_Singleton DEF DdRank
<1>2. {m \in DdVouts(t) : DdRank(t, m) <= Len(AmountsOf(t))} = {n}
  BY <1>1
<1>. QED  BY <1>1, <1>2 DEF DdAmountsByVout

\* The least of one number is that number.
LEMMA LeastOfOne == ASSUME NEW n \in Int PROVE Min({n}) = n
BY DEF Min

-----------------------------------------------------------------------------
(* What each kind of transaction is made of *)

\* No output is worth anything but to a standard form or as collateral, and a script
\* of a standard form is plain.
Shaped(o) ==
  /\ o.value \in Nat
  /\ o.value > 0 => o.script.kind \in StandardForms \cup {"collateral"}
  /\ o.script.kind \in StandardForms => Plain(o.script)

\* The tokens of a transaction are worthless taproot outputs of known keys.
Tokens(t) ==
  \A n \in DOMAIN DdAmountsByVout(t) :
    /\ n \in DOMAIN t.out /\ t.out[n].value = 0 /\ DdAmountsByVout(t)[n] \in Nat
    /\ t.out[n].script.kind = "p2tr" /\ t.out[n].script.key \in Keys

\* A mint pairs a collateral with one token of the same cents and key.
MintShape(t, k, cents, lock, tier) ==
  /\ k \in Keys /\ cents \in Nat \ {0} /\ lock \in Nat
  /\ {1, 2, 3} \subseteq DOMAIN t.out
  /\ t.out[1].value >= Fold /\ t.out[1].script = Collateral(k, lock, cents)
  /\ t.out[2] = Out(0, P2tr(k))
  /\ t.out[3] = Out(0, Metadata("mint", <<cents, lock, tier, k>>))
  /\ OpReturns(t) = {3}
  /\ DdAmountsByVout(t) = [n \in {2} |-> cents]

\* What holds of every transaction the wallet or another device makes.
TxOK(t) ==
  /\ IsSeq(t.out)
  /\ \A n \in DOMAIN t.out :
       Shaped(t.out[n]) /\ (t.out[n].script.kind = "collateral" => t.type = "mint" /\ n = 1)
  /\ t.type = "mint" => LET p == t.out[3].script.pushes IN MintShape(t, p[4], p[1], p[2], p[3])
  /\ Tokens(t)

\* A plain payment holds no tokens.
LEMMA PlainTx ==
  ASSUME NEW t, t.type \in {"dgb", "other"}, IsSeq(t.out),
         \A n \in DOMAIN t.out : t.out[n].value \in Nat /\ Plain(t.out[n].script)
  PROVE  TxOK(t) /\ DOMAIN DdAmountsByVout(t) = {}
<1>1. OpReturns(t) = {}
  BY DEF OpReturns, Plain, StandardForms
<1>2. DOMAIN DdAmountsByVout(t) = {}
  BY <1>1, NoAmounts DEF AmountsOf
<1>3. \A n \in DOMAIN t.out : Shaped(t.out[n]) /\ t.out[n].script.kind # "collateral"
  BY DEF Shaped, Plain, StandardForms
<1>. QED  BY <1>2, <1>3 DEF TxOK, Tokens

\* A mint has its collateral, its token, its metadata, and change if any.
LEMMA MintOutputsAre ==
  ASSUME NEW k, NEW cents, NEW tier, NEW lock, NEW value, NEW change \in Int,
         NEW o, o = MintOutputs(k, cents, tier, lock, value, FoldChange(change))
  PROVE  /\ IsSeq(o) /\ Len(o) \in {3, 4}
         /\ o[1] = Out(value, Collateral(k, lock, cents)) /\ o[2] = Out(0, P2tr(k))
         /\ o[3] = Out(0, Metadata("mint", <<cents, lock, tier, k>>))
         /\ FoldChange(change) = 0 => Len(o) = 3
         /\ FoldChange(change) # 0 => Len(o) = 4
         /\ Len(o) = 4 => o[4] = Out(FoldChange(change), P2wpkh(k)) /\ FoldChange(change) > 0
<1> DEFINE a == <<Out(value, Collateral(k, lock, cents)), Out(0, P2tr(k)),
                  Out(0, Metadata("mint", <<cents, lock, tier, k>>))>>
           b == OutIfPositive(FoldChange(change), P2wpkh(k))
<1>1. IsSeq(a) /\ Len(a) = 3 /\ a[1] = Out(value, Collateral(k, lock, cents))
      /\ a[2] = Out(0, P2tr(k)) /\ a[3] = Out(0, Metadata("mint", <<cents, lock, tier, k>>))
  BY Tuples
<1>2. /\ IsSeq(b) /\ Len(b) = IF FoldChange(change) = 0 THEN 0 ELSE 1
      /\ FoldChange(change) \in Nat
      /\ FoldChange(change) > 0 => b[1] = Out(FoldChange(change), P2wpkh(k))
  BY Change
<1>3. o = a \o b
  BY DEF MintOutputs
<1>. HIDE DEF a, b
<1>4. /\ IsSeq(o) /\ Len(o) = 3 + Len(b) /\ \A i \in 1 .. 3 : o[i] = a[i]
      /\ \A i \in 1 .. Len(b) : o[3 + i] = b[i]
  <2>0. IsSeq(a) /\ IsSeq(b)
    BY <1>1, <1>2
  <2>1. /\ IsSeq(a \o b) /\ Len(a \o b) = Len(a) + Len(b)
        /\ \A i \in 1 .. Len(a) : (a \o b)[i] = a[i]
        /\ \A i \in 1 .. Len(b) : (a \o b)[Len(a) + i] = b[i]
    BY <2>0, Joined
  <2>. QED  BY <1>1, <1>3, <2>1
<1>5. o[1] = a[1] /\ o[2] = a[2] /\ o[3] = a[3]
  BY <1>4
<1>6. CASE FoldChange(change) = 0
  BY <1>1, <1>2, <1>4, <1>5, <1>6
<1>7. CASE FoldChange(change) # 0
  <2>1. Len(b) = 1 /\ FoldChange(change) > 0
    BY <1>2, <1>7
  <2>2. o[3 + 1] = b[1]
    BY <1>4, <2>1
  <2>. QED  BY <1>1, <1>2, <1>4, <1>5, <1>7, <2>1, <2>2
<1>. QED  BY <1>6, <1>7

\* Those outputs are read back as one token of the minted cents.
LEMMA MintTxIs ==
  ASSUME NEW t, t.type = "mint",
         NEW k \in Keys, NEW cents \in Nat \ {0}, NEW tier, NEW lock \in Nat, NEW value \in Nat,
         value >= Fold, NEW change \in Int,
         t.out = MintOutputs(k, cents, tier, lock, value, FoldChange(change))
  PROVE  TxOK(t) /\ MintShape(t, k, cents, lock, tier) /\ AmountsOf(t) = <<cents>>
         /\ DdVouts(t) = {2}
<1> DEFINE o == t.out
<1>1. /\ IsSeq(o) /\ Len(o) \in {3, 4}
      /\ o[1] = Out(value, Collateral(k, lock, cents)) /\ o[2] = Out(0, P2tr(k))
      /\ o[3] = Out(0, Metadata("mint", <<cents, lock, tier, k>>))
      /\ Len(o) = 4 => o[4] = Out(FoldChange(change), P2wpkh(k)) /\ FoldChange(change) > 0
  BY MintOutputsAre
<1>2. DOMAIN o = 1 .. Len(o) /\ {1, 2, 3} \subseteq DOMAIN o
      /\ \A n \in DOMAIN o : n \in {1, 2, 3} \/ (n = 4 /\ Len(o) = 4)
  BY <1>1 DEF IsSeq
<1>3. /\ o[1].value = value /\ o[1].script.kind = "collateral"
      /\ o[2].value = 0 /\ o[2].script.kind = "p2tr" /\ o[2].script.key = k
      /\ o[3].value = 0 /\ o[3].script.kind = "return"
      /\ o[3].script.type = "mint" /\ o[3].script.pushes = <<cents, lock, tier, k>>
  BY <1>1 DEF Out, P2tr, Collateral, Metadata
<1>4. Len(o) = 4 => o[4].value > 0 /\ o[4].value \in Nat /\ o[4].script = P2wpkh(k)
                    /\ o[4].script.kind = "p2wpkh"
  BY <1>1, Change DEF Out, P2wpkh
<1>5. OpReturns(t) = {3}
  BY <1>2, <1>3, <1>4 DEF OpReturns
<1>6. DdVouts(t) = {2}
  BY <1>2, <1>3, <1>4, TxNumbers DEF DdVouts
<1>7. AmountsOf(t) = <<cents>>
  <2>1. Min(OpReturns(t)) = 3
    BY <1>5, LeastOfOne
  <2>. QED  BY <1>3, <1>5, <2>1 DEF AmountsOf
<1>8. DdAmountsByVout(t) = [n \in {2} |-> cents]
  BY <1>6, <1>7, LoneAmount, Tuples
<1>9. \A n \in DOMAIN t.out :
        Shaped(t.out[n]) /\ (t.out[n].script.kind = "collateral" => n = 1)
  <2>1. Shaped(o[1])
    BY <1>3 DEF Shaped, StandardForms
  <2>2. Shaped(o[2])
    BY <1>3, <1>1, KeyScripts DEF Shaped, Out
  <2>3. Shaped(o[3])
    BY <1>3 DEF Shaped, StandardForms
  <2>4. Len(o) = 4 => Shaped(o[4])
    BY <1>4, KeyScripts DEF Shaped, StandardForms
  <2>. QED  BY <1>2, <1>3, <1>4, <2>1, <2>2, <2>3, <2>4
<1>10. MintShape(t, k, cents, lock, tier)
  <2>1. t.out[1].value >= Fold /\ t.out[1].script = Collateral(k, lock, cents)
    BY <1>1 DEF Out
  <2>. QED  BY <1>1, <1>2, <1>5, <1>8, <2>1 DEF MintShape
<1>11. Tokens(t)
  BY <1>2, <1>3, <1>8 DEF Tokens
<1>12. LET p == t.out[3].script.pushes IN MintShape(t, p[4], p[1], p[2], p[3])
  BY <1>3, <1>10
<1>. QED  BY <1>1, <1>6, <1>7, <1>9, <1>10, <1>11, <1>12 DEF TxOK

\* A transfer's outputs: the tokens, the change if there is any, the amounts.
TransferParts(o, dds, change, script, e) ==
  /\ e = IF FoldChange(change) = 0 THEN 0 ELSE 1
  /\ IsSeq(o) /\ Len(o) = Len(dds) + e + 1
  /\ \A i \in 1 .. Len(dds) : o[i] = Out(0, P2tr(dds[i].key))
  /\ e = 1 => o[Len(dds) + 1] = Out(FoldChange(change), script) /\ FoldChange(change) > 0
  /\ o[Len(dds) + e + 1] = Out(0, Metadata("transfer", [i \in DOMAIN dds |-> dds[i].cents]))

\* A transfer has its tokens first, then change if any, then the metadata.
LEMMA TransferOutputsAre ==
  ASSUME NEW dds, IsSeq(dds), NEW change \in Int, NEW script, NEW o,
         o = TransferOutputs(dds, FoldChange(change), script)
  PROVE  \E e \in {0, 1} : TransferParts(o, dds, change, script, e)
<1> DEFINE a == [i \in DOMAIN dds |-> Out(0, P2tr(dds[i].key))]
           b == OutIfPositive(FoldChange(change), script)
           c == <<Out(0, Metadata("transfer", [i \in DOMAIN dds |-> dds[i].cents]))>>
           e == Len(b)
<1>1. IsSeq(a) /\ Len(a) = Len(dds) /\ \A i \in 1 .. Len(dds) : a[i] = Out(0, P2tr(dds[i].key))
  <2>1. Len(dds) \in Nat /\ DOMAIN a = 1 .. Len(dds) /\ a = [i \in 1 .. Len(dds) |-> a[i]]
    BY DEF IsSeq
  <2>2. IsSeq(a) /\ Len(a) = Len(dds)
    <3>. HIDE DEF a
    <3>. QED  BY <2>1, Table
  <2>. QED  BY <2>1, <2>2
<1>2. /\ IsSeq(b) /\ e = IF FoldChange(change) = 0 THEN 0 ELSE 1
      /\ FoldChange(change) \in Nat
      /\ FoldChange(change) > 0 => b[1] = Out(FoldChange(change), script)
  BY Change
<1>3. IsSeq(c) /\ Len(c) = 1
      /\ c[1] = Out(0, Metadata("transfer", [i \in DOMAIN dds |-> dds[i].cents]))
  BY Tuples
<1>4. o = (a \o b) \o c
  BY DEF TransferOutputs
<1>5. Len(dds) \in Nat
  BY DEF IsSeq
<1>. HIDE DEF a, b, c, e
<1>6. Len(b) = e
  BY DEF e
<1>7. /\ IsSeq(o) /\ Len(o) = Len(a) + Len(b) + Len(c)
      /\ \A i \in 1 .. Len(a) : o[i] = a[i]
      /\ \A i \in 1 .. Len(b) : o[Len(a) + i] = b[i]
      /\ \A i \in 1 .. Len(c) : o[Len(a) + Len(b) + i] = c[i]
  <2>1. IsSeq(a) /\ IsSeq(b) /\ IsSeq(c)
    BY <1>1, <1>2, <1>3
  <2>. QED  BY <2>1, <1>4, ThreeJoined
<1>8. /\ IsSeq(o) /\ Len(o) = Len(dds) + e + 1
      /\ \A i \in 1 .. Len(dds) : o[i] = a[i]
      /\ \A i \in 1 .. e : o[Len(dds) + i] = b[i]
      /\ \A i \in 1 .. 1 : o[Len(dds) + e + i] = c[i]
  BY <1>1, <1>3, <1>6, <1>7
<1>9. e \in {0, 1} /\ e = IF FoldChange(change) = 0 THEN 0 ELSE 1
  BY <1>2
<1>10. \A i \in 1 .. Len(dds) : o[i] = Out(0, P2tr(dds[i].key))
  BY <1>1, <1>8
<1>11. e = 1 => o[Len(dds) + 1] = Out(FoldChange(change), script) /\ FoldChange(change) > 0
  BY <1>2, <1>8, <1>9
<1>12. o[Len(dds) + e + 1] = c[1]
  BY <1>8
<1>. QED  BY <1>3, <1>8, <1>9, <1>10, <1>11, <1>12 DEF TransferParts

\* Those outputs are read back as the cents each recipient was to have.
LEMMA TransferTxIs ==
  ASSUME NEW t, t.type = "transfer", NEW dds, IsSeq(dds),
         \A i \in DOMAIN dds : dds[i].key \in Keys /\ dds[i].cents \in Nat,
         NEW change \in Int, NEW k,
         t.out = TransferOutputs(dds, FoldChange(change), P2tr(k))
  PROVE  /\ TxOK(t) /\ AmountsOf(t) = [i \in DOMAIN dds |-> dds[i].cents]
         /\ DdVouts(t) = 1 .. Len(dds)
         /\ DdAmountsByVout(t) = [i \in 1 .. Len(dds) |-> dds[i].cents]
         /\ \A i \in 1 .. Len(dds) : i \in DOMAIN t.out /\ t.out[i] = Out(0, P2tr(dds[i].key))
<1> DEFINE o == t.out
           m == Len(dds)
<1>0. m \in Nat /\ DOMAIN dds = 1 .. m
  BY DEF IsSeq
<1>e. PICK e \in {0, 1} : TransferParts(t.out, dds, change, P2tr(k), e)
  BY TransferOutputsAre
<1>1. /\ IsSeq(o) /\ Len(o) = m + e + 1
      /\ \A i \in 1 .. m : o[i] = Out(0, P2tr(dds[i].key))
      /\ e = 1 => o[m + 1] = Out(FoldChange(change), P2tr(k)) /\ FoldChange(change) > 0
      /\ o[m + e + 1] = Out(0, Metadata("transfer", [i \in DOMAIN dds |-> dds[i].cents]))
  BY <1>e DEF TransferParts
<1>. HIDE DEF m
<1>2. \A i \in 1 .. m : o[i].value = 0 /\ o[i].script.kind = "p2tr"
                        /\ o[i].script.key = dds[i].key /\ Plain(o[i].script)
  <2>. SUFFICES ASSUME NEW i \in 1 .. m
                PROVE  o[i].value = 0 /\ o[i].script.kind = "p2tr"
                       /\ o[i].script.key = dds[i].key /\ Plain(o[i].script)
    OBVIOUS
  <2>0. o[i] = Out(0, P2tr(dds[i].key))
    BY <1>1
  <2>1. o[i].value = 0 /\ o[i].script = P2tr(dds[i].key)
    <3>. HIDE DEF o
    <3>. QED  BY <2>0 DEF Out
  <2>. QED  BY <2>1, KeyScripts
<1>3. e = 1 => o[m + 1].value > 0 /\ o[m + 1].value \in Nat /\ o[m + 1].script.kind = "p2tr"
               /\ Plain(o[m + 1].script)
  BY <1>1, Change, KeyScripts DEF Out
<1>4. /\ o[m + e + 1].value = 0 /\ o[m + e + 1].script.kind = "return"
      /\ o[m + e + 1].script.type = "transfer"
      /\ o[m + e + 1].script.pushes = [i \in DOMAIN dds |-> dds[i].cents]
  BY <1>1 DEF Out, Metadata
<1>5. DOMAIN o = 1 .. m + e + 1
      /\ \A n \in DOMAIN o : n \in 1 .. m \/ (e = 1 /\ n = m + 1) \/ n = m + e + 1
  BY <1>0, <1>1 DEF IsSeq
<1>6. OpReturns(t) = {m + e + 1}
  <2>1. \A n \in DOMAIN o : o[n].script.kind = "return" <=> n = m + e + 1
    BY <1>2, <1>3, <1>4, <1>5
  <2>2. m + e + 1 \in DOMAIN o
    BY <1>0, <1>5
  <2>. QED  BY <2>1, <2>2 DEF OpReturns
<1>7. DdVouts(t) = 1 .. m
  <2>1. \A n \in DOMAIN o : (o[n].value = 0 /\ o[n].script.kind = "p2tr") <=> n \in 1 .. m
    BY <1>0, <1>2, <1>3, <1>4, <1>5
  <2>2. 1 .. m \subseteq DOMAIN o
    BY <1>0, <1>5
  <2>. QED  BY <2>1, <2>2 DEF DdVouts
<1>8. AmountsOf(t) = [i \in DOMAIN dds |-> dds[i].cents]
  <2>1. m + e + 1 \in Int
    BY <1>0
  <2>2. Min(OpReturns(t)) = m + e + 1
    BY <2>1, <1>6, LeastOfOne
  <2>. QED  BY <1>4, <1>6, <2>2 DEF AmountsOf
<1>9. DdAmountsByVout(t) = [i \in 1 .. m |-> dds[i].cents]
  <2> DEFINE a == [i \in DOMAIN dds |-> dds[i].cents]
  <2>1. DOMAIN a = 1 .. m /\ a = [i \in 1 .. m |-> a[i]]
    BY <1>0
  <2>2. IsSeq(a) /\ Len(a) = m
    <3>. HIDE DEF a
    <3>. QED  BY <1>0, <2>1, Table
  <2>3. DdAmountsByVout(t) = [n \in 1 .. m |-> a[n]]
    <3>1. IsSeq(AmountsOf(t)) /\ Len(AmountsOf(t)) = m /\ AmountsOf(t) = a
      BY <1>8, <2>2
    <3>. HIDE DEF a
    <3>. QED  BY <1>0, <1>7, <3>1, FirstAmounts
  <2>. QED  BY <1>0, <2>3
<1>10. \A n \in DOMAIN o : Shaped(o[n]) /\ o[n].script.kind # "collateral"
  <2>. SUFFICES ASSUME NEW n \in DOMAIN o PROVE Shaped(o[n]) /\ o[n].script.kind # "collateral"
    OBVIOUS
  <2>1. CASE n \in 1 .. m
    BY <1>2, <2>1 DEF Shaped
  <2>2. CASE e = 1 /\ n = m + 1
    BY <1>3, <2>2 DEF Shaped, StandardForms
  <2>3. CASE n = m + e + 1
    BY <1>4, <2>3 DEF Shaped, StandardForms
  <2>. QED  BY <1>5, <2>1, <2>2, <2>3
<1>11. Tokens(t)
  BY <1>0, <1>2, <1>5, <1>9 DEF Tokens
<1>12. TxOK(t)
  BY <1>1, <1>10, <1>11 DEF TxOK
<1>. QED  BY <1>0, <1>1, <1>5, <1>7, <1>8, <1>9, <1>12 DEF m

\* A redemption's outputs: the collateral, the token left over if any, the change if any.
RedeemParts(o, returned, owner, ddChange, change, script, d, e) ==
  /\ d = IF ddChange > 0 THEN 2 ELSE 0
  /\ e = IF FoldChange(change) = 0 THEN 0 ELSE 1
  /\ IsSeq(o) /\ Len(o) = 1 + d + e
  /\ o[1] = Out(returned, P2tr(owner))
  /\ d = 2 => o[2] = Out(0, P2tr(owner)) /\ o[3] = Out(0, Metadata("redeem", <<ddChange>>))
  /\ e = 1 => o[1 + d + 1] = Out(FoldChange(change), script) /\ FoldChange(change) > 0

\* A redemption returns the collateral, then the burn's change if any, then the fee's.
LEMMA RedeemOutputsAre ==
  ASSUME NEW returned, NEW owner, NEW ddChange \in Nat, NEW change \in Int, NEW script, NEW o,
         o = RedeemOutputs(returned, owner, ddChange, FoldChange(change), script)
  PROVE  \E d \in {0, 2}, e \in {0, 1} :
           RedeemParts(o, returned, owner, ddChange, change, script, d, e)
<1> DEFINE a == <<Out(returned, P2tr(owner))>>
           b == IF ddChange > 0
                THEN <<Out(0, P2tr(owner)), Out(0, Metadata("redeem", <<ddChange>>))>> ELSE <<>>
           c == OutIfPositive(FoldChange(change), script)
           d == Len(b)
           e == Len(c)
<1>1. IsSeq(a) /\ Len(a) = 1 /\ a[1] = Out(returned, P2tr(owner))
  BY Tuples
<1>2. /\ IsSeq(b) /\ d = IF ddChange > 0 THEN 2 ELSE 0
      /\ d = 2 => b[1] = Out(0, P2tr(owner)) /\ b[2] = Out(0, Metadata("redeem", <<ddChange>>))
  <2>1. CASE ddChange > 0
    <3>1. b = <<Out(0, P2tr(owner)), Out(0, Metadata("redeem", <<ddChange>>))>>
      BY <2>1
    <3>. HIDE DEF b
    <3>. QED  BY <2>1, <3>1, Tuples
  <2>2. CASE ~(ddChange > 0)
    <3>1. b = <<>>
      BY <2>2
    <3>. HIDE DEF b
    <3>. QED  BY <2>2, <3>1, Tuples
  <2>. QED  BY <2>1, <2>2
<1>3. /\ IsSeq(c) /\ e = IF FoldChange(change) = 0 THEN 0 ELSE 1
      /\ FoldChange(change) \in Nat
      /\ FoldChange(change) > 0 => c[1] = Out(FoldChange(change), script)
  BY Change
<1>4. o = (a \o b) \o c
  BY DEF RedeemOutputs
<1>. HIDE DEF a, b, c
<1>5. /\ IsSeq(o) /\ Len(o) = Len(a) + Len(b) + Len(c)
      /\ \A i \in 1 .. Len(a) : o[i] = a[i]
      /\ \A i \in 1 .. Len(b) : o[Len(a) + i] = b[i]
      /\ \A i \in 1 .. Len(c) : o[Len(a) + Len(b) + i] = c[i]
  <2>1. IsSeq(a) /\ IsSeq(b) /\ IsSeq(c)
    BY <1>1, <1>2, <1>3
  <2>. QED  BY <2>1, <1>4, ThreeJoined
<1>6. /\ IsSeq(o) /\ Len(o) = 1 + d + e
      /\ \A i \in 1 .. 1 : o[i] = a[i]
      /\ \A i \in 1 .. d : o[1 + i] = b[i]
      /\ \A i \in 1 .. e : o[1 + d + i] = c[i]
  BY <1>1, <1>5
<1>. HIDE DEF d, e
<1>7. d \in {0, 2} /\ d = IF ddChange > 0 THEN 2 ELSE 0
  BY <1>2
<1>8. e \in {0, 1} /\ e = IF FoldChange(change) = 0 THEN 0 ELSE 1
  BY <1>3
<1>9. o[1] = Out(returned, P2tr(owner))
  BY <1>1, <1>6
<1>10. d = 2 => o[2] = Out(0, P2tr(owner)) /\ o[3] = Out(0, Metadata("redeem", <<ddChange>>))
  <2>. SUFFICES ASSUME d = 2
                PROVE  o[2] = Out(0, P2tr(owner))
                       /\ o[3] = Out(0, Metadata("redeem", <<ddChange>>))
    OBVIOUS
  <2>1. o[1 + 1] = b[1] /\ o[1 + 2] = b[2]
    BY <1>6
  <2>. QED  BY <1>2, <2>1
<1>11. e = 1 => o[1 + d + 1] = Out(FoldChange(change), script) /\ FoldChange(change) > 0
  BY <1>3, <1>6, <1>8
<1>. QED  BY <1>6, <1>7, <1>8, <1>9, <1>10, <1>11 DEF RedeemParts

\* Those outputs are read back as the change of the burn and nothing else.
LEMMA RedeemTxIs ==
  ASSUME NEW t, t.type = "redeem", NEW returned \in Nat, returned >= Fold, NEW owner \in Keys,
         NEW ddChange \in Nat, NEW change \in Int, NEW k,
         t.out = RedeemOutputs(returned, owner, ddChange, FoldChange(change), P2tr(k))
  PROVE  /\ TxOK(t)
         /\ 1 \in DOMAIN t.out /\ t.out[1] = Out(returned, P2tr(owner))
         /\ ddChange = 0 => DdVouts(t) = {} /\ DOMAIN DdAmountsByVout(t) = {}
         /\ ddChange > 0 => /\ DdVouts(t) = {2} /\ DdAmountsByVout(t) = [n \in {2} |-> ddChange]
                            /\ 2 \in DOMAIN t.out /\ t.out[2] = Out(0, P2tr(owner))
<1> DEFINE o == t.out
<1>a. PICK d \in {0, 2}, e \in {0, 1} :
        RedeemParts(t.out, returned, owner, ddChange, change, P2tr(k), d, e)
  BY RedeemOutputsAre
<1>1. /\ d = (IF ddChange > 0 THEN 2 ELSE 0)
      /\ IsSeq(o) /\ Len(o) = 1 + d + e
      /\ o[1] = Out(returned, P2tr(owner))
      /\ d = 2 => o[2] = Out(0, P2tr(owner)) /\ o[3] = Out(0, Metadata("redeem", <<ddChange>>))
      /\ e = 1 => o[1 + d + 1] = Out(FoldChange(change), P2tr(k)) /\ FoldChange(change) > 0
  BY <1>a DEF RedeemParts
<1>2. DOMAIN o = 1 .. 1 + d + e
      /\ \A n \in DOMAIN o : n = 1 \/ (d = 2 /\ n \in {2, 3}) \/ (e = 1 /\ n = 1 + d + 1)
  BY <1>1 DEF IsSeq
<1>. HIDE DEF o
<1>3. o[1].value = returned /\ o[1].value > 0 /\ o[1].script = P2tr(owner)
      /\ o[1].script.kind = "p2tr" /\ Plain(o[1].script)
  BY <1>1, TxNumbers, KeyScripts DEF Out
<1>4. d = 2 => /\ o[2].value = 0 /\ o[2].script.kind = "p2tr" /\ o[2].script.key = owner
               /\ Plain(o[2].script)
               /\ o[3].value = 0 /\ o[3].script.kind = "return" /\ o[3].script.type = "redeem"
               /\ o[3].script.pushes = <<ddChange>>
  BY <1>1, KeyScripts DEF Out, Metadata
<1>5. e = 1 => o[1 + d + 1].value > 0 /\ o[1 + d + 1].value \in Nat
               /\ o[1 + d + 1].script.kind = "p2tr" /\ Plain(o[1 + d + 1].script)
  BY <1>1, Change, KeyScripts DEF Out
<1>6. OpReturns(t) = IF d = 2 THEN {3} ELSE {}
  <2>1. \A n \in DOMAIN o : o[n].script.kind = "return" <=> (d = 2 /\ n = 3)
    BY <1>2, <1>3, <1>4, <1>5
  <2>2. d = 2 => 3 \in DOMAIN o
    BY <1>2
  <2>. QED  BY <2>1, <2>2 DEF OpReturns, o
<1>7. DdVouts(t) = IF d = 2 THEN {2} ELSE {}
  <2>1. \A n \in DOMAIN o : (o[n].value = 0 /\ o[n].script.kind = "p2tr") <=> (d = 2 /\ n = 2)
    BY <1>2, <1>3, <1>4, <1>5
  <2>2. d = 2 => 2 \in DOMAIN o
    BY <1>2
  <2>. QED  BY <2>1, <2>2 DEF DdVouts, o
<1>8. \A n \in DOMAIN o : Shaped(o[n]) /\ o[n].script.kind # "collateral"
  <2>1. Shaped(o[1])
    BY <1>3 DEF Shaped, StandardForms
  <2>2. d = 2 => Shaped(o[2]) /\ Shaped(o[3])
    BY <1>4 DEF Shaped, StandardForms
  <2>3. e = 1 => Shaped(o[1 + d + 1])
    BY <1>5 DEF Shaped, StandardForms
  <2>. QED  BY <1>2, <1>3, <1>4, <1>5, <2>1, <2>2, <2>3
<1>9. CASE ddChange = 0
  <2>1. OpReturns(t) = {} /\ DdVouts(t) = {}
    BY <1>1, <1>6, <1>7, <1>9
  <2>2. DOMAIN DdAmountsByVout(t) = {}
    BY <2>1, <1>1, NoAmounts DEF AmountsOf, o
  <2>. QED  BY <1>1, <1>2, <1>8, <1>9, <2>1, <2>2 DEF TxOK, Tokens, o
<1>10. CASE ddChange > 0
  <2>1. d = 2 /\ OpReturns(t) = {3} /\ DdVouts(t) = {2}
    BY <1>1, <1>6, <1>7, <1>10
  <2>2. AmountsOf(t) = <<ddChange>>
    <3>1. Min(OpReturns(t)) = 3
      BY <2>1, LeastOfOne
    <3>. QED  BY <1>4, <2>1, <3>1 DEF AmountsOf, o
  <2>3. DdAmountsByVout(t) = [n \in {2} |-> ddChange]
    <3>1. Len(AmountsOf(t)) = 1 /\ AmountsOf(t)[1] = ddChange
      BY <2>2, Tuples
    <3>. QED  BY <2>1, <3>1, LoneAmount
  <2>4. Tokens(t)
    BY <1>2, <1>4, <2>1, <2>3 DEF Tokens, o
  <2>5. 1 \in DOMAIN t.out /\ 2 \in DOMAIN t.out
    BY <1>2, <2>1 DEF o
  <2>6. t.out[1] = Out(returned, P2tr(owner)) /\ t.out[2] = Out(0, P2tr(owner))
    BY <1>1, <2>1 DEF o
  <2>7. TxOK(t)
    BY <1>1, <1>8, <2>4 DEF TxOK, o
  <2>. QED  BY <1>10, <2>1, <2>3, <2>5, <2>6, <2>7
<1>. QED  BY <1>9, <1>10

\* A plain spend's outputs: the payment, the change if there is any.
SpendParts(o, amount, script, change, changeScript) ==
  /\ IsSeq(o) /\ Len(o) = IF FoldChange(change) = 0 THEN 1 ELSE 2
  /\ o[1] = Out(amount, script)
  /\ FoldChange(change) # 0 => o[2] = Out(FoldChange(change), changeScript)

\* A plain spend pays its recipient, then change if any.
LEMMA SpendOutputsAre ==
  ASSUME NEW amount, NEW script, NEW change \in Int, NEW changeScript
  PROVE  SpendParts(<<Out(amount, script)>> \o OutIfPositive(FoldChange(change), changeScript),
                    amount, script, change, changeScript)
<1> DEFINE a == <<Out(amount, script)>>
           b == OutIfPositive(FoldChange(change), changeScript)
           o == a \o b
<1>1. IsSeq(a) /\ Len(a) = 1 /\ a[1] = Out(amount, script)
  BY Tuples
<1>2. /\ IsSeq(b) /\ Len(b) = IF FoldChange(change) = 0 THEN 0 ELSE 1
      /\ FoldChange(change) \in Nat
      /\ FoldChange(change) > 0 => b[1] = Out(FoldChange(change), changeScript)
  BY Change
<1>. HIDE DEF a, b
<1>4. /\ IsSeq(o) /\ Len(o) = Len(a) + Len(b)
      /\ \A i \in 1 .. Len(a) : o[i] = a[i]
      /\ \A i \in 1 .. Len(b) : o[Len(a) + i] = b[i]
  <2>1. IsSeq(a) /\ IsSeq(b)
    BY <1>1, <1>2
  <2>. QED  BY <2>1, Joined
<1>. HIDE DEF o
<1>5. o[1] = a[1] /\ Len(o) = 1 + Len(b) /\ (Len(b) = 1 => o[1 + 1] = b[1])
  BY <1>1, <1>4
<1>6. SpendParts(o, amount, script, change, changeScript)
  BY <1>1, <1>2, <1>4, <1>5 DEF SpendParts
<1>. QED  BY <1>6 DEF o, a, b

\* A plain spend makes no token.
LEMMA SpendTxIs ==
  ASSUME NEW t, t.type = "dgb", NEW amount \in Nat, NEW script, Plain(script), NEW change \in Int,
         NEW changeScript, Plain(changeScript),
         SpendParts(t.out, amount, script, change, changeScript)
  PROVE  TxOK(t) /\ DOMAIN DdAmountsByVout(t) = {}
<1> DEFINE o == t.out
<1>1. /\ IsSeq(o) /\ Len(o) = IF FoldChange(change) = 0 THEN 1 ELSE 2
      /\ o[1] = Out(amount, script)
      /\ FoldChange(change) # 0 => o[2] = Out(FoldChange(change), changeScript)
  BY DEF SpendParts
<1>2. DOMAIN o = 1 .. Len(o)
  BY <1>1 DEF IsSeq
<1>. HIDE DEF o
<1>3. \A n \in DOMAIN o : o[n].value \in Nat /\ Plain(o[n].script)
  <2>1. o[1].value \in Nat /\ Plain(o[1].script)
    BY <1>1 DEF Out
  <2>2. FoldChange(change) # 0 => o[2].value \in Nat /\ Plain(o[2].script)
    BY <1>1, Change DEF Out
  <2>. QED  BY <1>1, <1>2, <2>1, <2>2
<1>4. /\ t.type \in {"dgb", "other"} /\ IsSeq(t.out)
      /\ \A n \in DOMAIN t.out : t.out[n].value \in Nat /\ Plain(t.out[n].script)
  BY <1>1, <1>3 DEF o
<1>. QED  BY <1>4, PlainTx

\* A total does not depend on how its terms are named.
LEMMA SumRenamed ==
  ASSUME NEW f, NEW g, NEW h, NEW S, IsFiniteSet(S),
         \A x \in S : f[x] = g[h[x]] /\ f[x] \in Int,
         \A x, y \in S : h[x] = h[y] => x = y
  PROVE  /\ IsFiniteSet({h[x] : x \in S})
         /\ SumFunctionOnSet(f, S) = SumFunctionOnSet(g, {h[x] : x \in S})
<1> DEFINE img(T) == {h[x] : x \in T}
           good(T) == /\ IsFiniteSet(img(T))
                      /\ SumFunctionOnSet(f, T) = SumFunctionOnSet(g, img(T))
           C == {T \in SUBSET S : ~good(T)}
<1>. SUFFICES ASSUME C # {} PROVE FALSE
  BY DEF C
<1>1. PICK T \in C : \A V \in SUBSET T : V # T => V \notin C
  BY Fewest, FS_Subset
<1>2. CASE T = {}
  <2>1. img(T) = {}
    BY <1>2
  <2>2. good(T)
    BY <1>2, <2>1, FS_EmptySet, SumEmpty
  <2>. QED  BY <1>1, <2>2
<1>3. CASE T # {}
  <2> DEFINE y == Pick(T)
             V == T \ {y}
  <2>1. V \in SUBSET T /\ V # T /\ y \in S /\ y \in T /\ IsFiniteSet(T)
    BY <1>3, Picked, FS_Subset
  <2>. HIDE DEF y
  <2>2. SumFunctionOnSet(f, T) = f[y] + SumFunctionOnSet(f, V)
    BY <2>1, SumRemove
  <2>3. good(V)
    BY <2>1, <1>1
  <2>4. img(T) = img(V) \cup {h[y]} /\ h[y] \notin img(V)
    BY <2>1
  <2>5. IsFiniteSet(img(T))
    <3>. HIDE DEF V
    <3>1. IsFiniteSet(img(V))
      BY <2>3
    <3>. HIDE DEF img
    <3>. QED  BY <2>4, <3>1, FS_AddElement
  <2>6. SumFunctionOnSet(g, img(T)) = g[h[y]] + SumFunctionOnSet(g, img(T) \ {h[y]})
    <3>1. h[y] \in img(T) /\ \A z \in img(T) : g[z] \in Int
      BY <2>1
    <3>. HIDE DEF img
    <3>. QED  BY <3>1, <2>5, SumRemove
  <2>7. img(T) \ {h[y]} = img(V)
    BY <2>4
  <2>8. SumFunctionOnSet(f, V) = SumFunctionOnSet(g, img(V)) /\ f[y] = g[h[y]]
    BY <2>1, <2>3
  <2>9. good(T)
    <3>. HIDE DEF V, img
    <3>. QED  BY <2>2, <2>5, <2>6, <2>7, <2>8
  <2>. QED  BY <1>1, <2>9
<1>. QED  BY <1>2, <1>3

\* Terms that are zero may be left out.
LEMMA SumSupport ==
  ASSUME NEW f, NEW S, NEW T, IsFiniteSet(S), T \subseteq S, \A x \in S : f[x] \in Int,
         \A x \in S \ T : f[x] = 0
  PROVE  SumFunctionOnSet(f, S) = SumFunctionOnSet(f, T)
<1> DEFINE R == S \ T
           C == {V \in SUBSET R : SumFunctionOnSet(f, V) # 0}
<1>1. IsFiniteSet(T) /\ IsFiniteSet(R) /\ T \cap R = {} /\ S = T \cup R
  BY FS_Subset
<1>2. C = {}
  <2>. SUFFICES ASSUME C # {} PROVE FALSE
    OBVIOUS
  <2>0. \A V \in C : IsFiniteSet(V)
    BY <1>1, FS_Subset
  <2>1. PICK V \in C : \A W \in SUBSET V : W # V => W \notin C
    BY <2>0, Fewest
  <2>2. CASE V = {}
    BY <2>1, <2>2, SumEmpty
  <2>3. CASE V # {}
    <3>1. V \ {Pick(V)} \in SUBSET V /\ V \ {Pick(V)} # V /\ f[Pick(V)] = 0
      BY <2>3, Picked
    <3>2. SumFunctionOnSet(f, V) = f[Pick(V)] + SumFunctionOnSet(f, V \ {Pick(V)})
      BY <2>0, <2>3, SumPick
    <3>3. SumFunctionOnSet(f, V \ {Pick(V)}) = 0
      BY <2>1, <3>1
    <3>. QED  BY <2>1, <3>1, <3>2, <3>3
  <2>. QED  BY <2>2, <2>3
<1>3. SumFunctionOnSet(f, R) = 0
  BY <1>2
<1>4. SumFunctionOnSet(f, T \cup R) = SumFunctionOnSet(f, T) + SumFunctionOnSet(f, R)
  <2>. HIDE DEF R
  <2>1. \A x \in T \cup R : f[x] \in Int
    BY <1>1
  <2>. QED  BY <1>1, <2>1, SumUnion
<1>5. SumFunctionOnSet(f, T) \in Int
  BY <1>1, SumType
<1>6. SumFunctionOnSet(f, S) = SumFunctionOnSet(f, T \cup R)
  <2>. HIDE DEF R
  <2>. QED  BY <1>1
<1>. HIDE DEF R
<1>. QED  BY <1>3, <1>4, <1>5, <1>6

\* Two elements come to the sum of their values.
LEMMA SumTwo ==
  ASSUME NEW f, NEW x, NEW y, x # y, f[x] \in Int, f[y] \in Int
  PROVE  SumFunctionOnSet(f, {x, y}) = f[x] + f[y]
<1>1. IsFiniteSet({x}) /\ IsFiniteSet({y}) /\ {x} \cap {y} = {} /\ {x} \cup {y} = {x, y}
  BY FS_Singleton
<1>2. SumFunctionOnSet(f, {x} \cup {y}) = SumFunctionOnSet(f, {x}) + SumFunctionOnSet(f, {y})
  <2>1. \A z \in {x} \cup {y} : f[z] \in Int
    OBVIOUS
  <2>. QED  BY <1>1, <2>1, SumUnion
<1>. QED  BY <1>1, <1>2, SumOne

-----------------------------------------------------------------------------
(* What holds of every chain, and of what a review or a draft took from one *)

\* An output of the chain, and its script.
Holds(c, o) == o = <<o[1], o[2]>> /\ o[1] \in DOMAIN c /\ o[2] \in DOMAIN c[o[1]].out
OutOf(c, o) == c[o[1]].out[o[2]]

\* Every transaction is well made and spends outputs of the chain.
ChainOK(c) ==
  /\ IsSeq(c)
  /\ \A t \in DOMAIN c :
       TxOK(c[t]) /\ \A i \in DOMAIN c[t].in : Holds(c, c[t].in[i])

\* A coin as listunspent gave it, a token, a position: each is what the chain says.
CoinReal(c, u) ==
  /\ Holds(c, u.at) /\ OutOf(c, u.at).value = u.value
  /\ u.type \in {"p2tr", "p2wpkh"} /\ OutOf(c, u.at).script.kind = u.type
  /\ u.key \in Keys /\ OutOf(c, u.at).script.key = u.key

DdReal(c, d) ==
  /\ Holds(c, d.at) /\ d.at[2] \in DOMAIN DdAmountsByVout(c[d.at[1]])
  /\ d = [at |-> d.at, key |-> OutOf(c, d.at).script.key,
          cents |-> DdAmountsByVout(c[d.at[1]])[d.at[2]]]

PosReal(c, p) ==
  \E t \in DOMAIN c :
    /\ c[t].type = "mint"
    /\ p = [at |-> <<t, 1>>, value |-> c[t].out[1].value,
            cents |-> c[t].out[3].script.pushes[1], lock |-> c[t].out[3].script.pushes[2],
            key |-> c[t].out[3].script.pushes[4]]

\* Distinct tokens of the position's key that cover it.
BurnOK(c, burn, p) ==
  /\ IsSeq(burn)
  /\ \A i \in DOMAIN burn : DdReal(c, burn[i]) /\ burn[i].key = p.key
  /\ \A i, j \in DOMAIN burn : burn[i].at = burn[j].at => i = j
  /\ TotalCents(burn) >= p.cents

\* Valuable coins that pay the amount and the fee priced for them.
PlanOK(c, plan, recipient) ==
  /\ IsSeq(plan.inputs)
  /\ \A i \in DOMAIN plan.inputs : CoinReal(c, plan.inputs[i]) /\ plan.inputs[i].value > 0
  /\ plan.amount \in Nat /\ plan.fee \in Nat
  /\ \/ /\ plan.fee = SpendFee(plan.inputs, recipient)
        /\ TotalValue(plan.inputs) >= plan.amount + plan.fee
     \/ /\ plan.fee = MaxSpendFee(plan.inputs, recipient)
        /\ TotalValue(plan.inputs) = plan.amount + plan.fee

\* A coin that pays the flat fee, and cents within the mint's limits.
PaysFlow(c, u) == CoinReal(c, u) /\ u.value >= FlowFee
Asked(x) == MinMint <= x.cents /\ x.cents <= MaxMint

\* What each kind of draft holds.
SpendOK(c, d) == PlanOK(c, d.plan, d.recipient) /\ Plain(d.recipient)
MintOK(c, d) ==
  CoinReal(c, d.utxo) /\ Asked(d) /\ Collateralised(d.cents, d.tier, d.price, d.bps)
TransferOK(c, x) == DdReal(c, x.dd) /\ x.to \in Keys /\ x.cents \in Nat
RipeOK(c, h, x) == PosReal(c, x.position) /\ x.position.lock <= h

\* What a review in flight and a draft know of the chain c at height h.
TaskOK(c, h, x) ==
  /\ x.kind \in {"max", "send", "consolidate", "mint", "pickDd", "transfer", "burn", "redeem"} =>
       x.of \in Wallet
  /\ x.kind = "send" => Plain(x.recipient) /\ x.amount \in SendAmounts \cup {Nil}
  /\ x.kind = "quote" => Asked(x) /\ \A q \in Quotes : Collateralised(x.cents, x.tier, q[1], q[2])
  /\ x.kind = "mint" =>
       Asked(x) /\ Collateralised(x.cents, x.tier, x.price, x.bps)
  /\ x.kind = "pickDd" => x.to \in Keys /\ x.cents \in Nat
  /\ x.kind = "transfer" =>
       TransferOK(c, x)
  /\ x.kind = "burn" => RipeOK(c, h, x)
  /\ x.kind = "redeem" =>
       RipeOK(c, h, x) /\ BurnOK(c, x.burn, x.position)
  /\ x.kind = "signing" => MintOK(c, x.mint)

DraftOK(c, h, d) ==
  d # Nil =>
    /\ d.kind = "send" => SpendOK(c, d)
    /\ d.kind = "consolidate" => SpendOK(c, d) /\ d.recipient = P2tr(d.recipient.key)
    /\ d.kind = "mint" => MintOK(c, d)
    /\ d.kind = "transfer" => TransferOK(c, d) /\ PaysFlow(c, d.feeUtxo)
    /\ d.kind = "redeem" =>
         RipeOK(c, h, d) /\ BurnOK(c, d.burn, d.position) /\ PaysFlow(c, d.feeUtxo)

\* The page's knowledge of the chain stays true.
Known ==
  /\ ChainOK(chain) /\ tip \in Nat /\ open \in Wallet \cup {Nil}
  /\ TaskOK(chain, tip, task) /\ DraftOK(chain, tip, draft)
  /\ DOMAIN meant = Keys

\* The chain d is c, or c with one transaction more.
Grown(c, d) == d = c \/ \E x : d = Append(c, x)

\* A longer chain keeps the transactions and outputs it had.
LEMMA Kept ==
  ASSUME NEW c, NEW d, IsSeq(c), Grown(c, d)
  PROVE  /\ \A t \in DOMAIN c : t \in DOMAIN d /\ d[t] = c[t]
         /\ \A o : Holds(c, o) => Holds(d, o) /\ d[o[1]] = c[o[1]] /\ OutOf(d, o) = OutOf(c, o)
<1>1. \A t \in DOMAIN c : t \in DOMAIN d /\ d[t] = c[t]
  <2>1. CASE d = c
    BY <2>1
  <2>2. ASSUME NEW x, d = Append(c, x) PROVE \A t \in DOMAIN c : t \in DOMAIN d /\ d[t] = c[t]
    <3>1. IsSeq(d) /\ Len(d) = Len(c) + 1 /\ \A i \in 1 .. Len(c) : d[i] = c[i]
      BY <2>2, Longer
    <3>. QED  BY <3>1 DEF IsSeq
  <2>. QED  BY <2>1, <2>2 DEF Grown
<1>. QED  BY <1>1 DEF Holds, OutOf

\* What was real stays real as the chain grows.
LEMMA CoinKept ==
  ASSUME NEW c, NEW d, IsSeq(c), Grown(c, d), NEW u, CoinReal(c, u)
  PROVE  CoinReal(d, u)
BY Kept DEF CoinReal

LEMMA DdKept ==
  ASSUME NEW c, NEW d, IsSeq(c), Grown(c, d), NEW u, DdReal(c, u)
  PROVE  DdReal(d, u)
<1>1. Holds(c, u.at) /\ Holds(d, u.at) /\ d[u.at[1]] = c[u.at[1]] /\ OutOf(d, u.at) = OutOf(c, u.at)
  BY Kept DEF DdReal
<1>. QED  BY <1>1 DEF DdReal

LEMMA PosKept ==
  ASSUME NEW c, NEW d, IsSeq(c), Grown(c, d), NEW p, PosReal(c, p)
  PROVE  PosReal(d, p)
<1>1. PICK t \in DOMAIN c :
    /\ c[t].type = "mint"
    /\ p = [at |-> <<t, 1>>, value |-> c[t].out[1].value,
            cents |-> c[t].out[3].script.pushes[1], lock |-> c[t].out[3].script.pushes[2],
            key |-> c[t].out[3].script.pushes[4]]
  BY DEF PosReal
<1>2. t \in DOMAIN d /\ d[t] = c[t]
  BY Kept
<1>. QED  BY <1>1, <1>2 DEF PosReal

LEMMA BurnKept ==
  ASSUME NEW c, NEW d, IsSeq(c), Grown(c, d), NEW burn, NEW p, BurnOK(c, burn, p)
  PROVE  BurnOK(d, burn, p)
BY DdKept DEF BurnOK

LEMMA PlanKept ==
  ASSUME NEW c, NEW d, IsSeq(c), Grown(c, d), NEW plan, NEW r, PlanOK(c, plan, r)
  PROVE  PlanOK(d, plan, r)
BY CoinKept DEF PlanOK

LEMMA MintKept ==
  ASSUME NEW c, NEW d, IsSeq(c), Grown(c, d), NEW x, MintOK(c, x)
  PROVE  MintOK(d, x)
BY CoinKept DEF MintOK

\* A position that is ripe stays ripe.
LEMMA RipeKept ==
  ASSUME NEW c, NEW d, IsSeq(c), Grown(c, d), NEW x, NEW h \in Nat, NEW g \in Nat, h <= g,
         x.position.lock \in Nat, RipeOK(c, h, x)
  PROVE  RipeOK(d, g, x)
BY PosKept DEF RipeOK

LEMMA TransferKept ==
  ASSUME NEW c, NEW d, IsSeq(c), Grown(c, d), NEW x, TransferOK(c, x)
  PROVE  TransferOK(d, x)
BY DdKept DEF TransferOK

\* What a position is: the collateral of a mint.
LEMMA PositionIs ==
  ASSUME NEW c, ChainOK(c), NEW p, PosReal(c, p)
  PROVE  /\ Holds(c, p.at) /\ p.at[2] = 1 /\ c[p.at[1]].type = "mint"
         /\ MintShape(c[p.at[1]], p.key, p.cents, p.lock, c[p.at[1]].out[3].script.pushes[3])
         /\ OutOf(c, p.at).value = p.value /\ p.value \in Nat /\ p.value >= Fold
         /\ OutOf(c, p.at).script = Collateral(p.key, p.lock, p.cents)
         /\ p.key \in Keys /\ p.cents \in Nat \ {0} /\ p.lock \in Nat
<1>1. PICK t \in DOMAIN c :
    /\ c[t].type = "mint"
    /\ p = [at |-> <<t, 1>>, value |-> c[t].out[1].value,
            cents |-> c[t].out[3].script.pushes[1], lock |-> c[t].out[3].script.pushes[2],
            key |-> c[t].out[3].script.pushes[4]]
  BY DEF PosReal
<1>2. p.at = <<t, 1>> /\ p.at[1] = t /\ p.at[2] = 1
  BY <1>1
<1>3. /\ p.value = c[t].out[1].value /\ p.cents = c[t].out[3].script.pushes[1]
      /\ p.lock = c[t].out[3].script.pushes[2] /\ p.key = c[t].out[3].script.pushes[4]
  BY <1>1
<1>4. TxOK(c[t])
  BY DEF ChainOK
<1>5. MintShape(c[t], p.key, p.cents, p.lock, c[t].out[3].script.pushes[3])
  BY <1>1, <1>3, <1>4 DEF TxOK
<1>6. /\ p.key \in Keys /\ p.cents \in Nat \ {0} /\ p.lock \in Nat /\ 1 \in DOMAIN c[t].out
      /\ c[t].out[1].value >= Fold /\ c[t].out[1].script = Collateral(p.key, p.lock, p.cents)
  BY <1>5 DEF MintShape
<1>7. c[t].out[1].value \in Nat
  BY <1>4, <1>6 DEF TxOK, Shaped
<1>8. Holds(c, p.at)
  BY <1>2, <1>6 DEF Holds
<1>. QED  BY <1>1, <1>2, <1>3, <1>5, <1>6, <1>7, <1>8 DEF OutOf

\* A review in flight and a draft outlive blocks and other transactions.
LEMMA TaskKept ==
  ASSUME NEW c, NEW d, ChainOK(c), Grown(c, d), NEW h \in Nat, NEW g \in Nat, h <= g,
         NEW x, TaskOK(c, h, x)
  PROVE  TaskOK(d, g, x)
<1>0. IsSeq(c)
  BY DEF ChainOK
<1>1. x.kind = "transfer" => TransferOK(d, x)
  BY <1>0, TransferKept DEF TaskOK
<1>2. x.kind \in {"burn", "redeem"} => RipeOK(d, g, x)
  <2>. SUFFICES ASSUME x.kind \in {"burn", "redeem"} PROVE RipeOK(d, g, x)
    OBVIOUS
  <2>1. RipeOK(c, h, x)
    BY DEF TaskOK
  <2>2. PosReal(c, x.position)
    BY <2>1 DEF RipeOK
  <2>3. x.position.lock \in Nat
    BY <2>2, PositionIs
  <2>. QED  BY <1>0, <2>1, <2>3, RipeKept
<1>3. x.kind = "redeem" => BurnOK(d, x.burn, x.position)
  BY <1>0, BurnKept DEF TaskOK
<1>4. x.kind = "signing" => MintOK(d, x.mint)
  BY <1>0, MintKept DEF TaskOK
<1>. QED  BY <1>1, <1>2, <1>3, <1>4 DEF TaskOK

LEMMA DraftKept ==
  ASSUME NEW c, NEW d, ChainOK(c), Grown(c, d), NEW h \in Nat, NEW g \in Nat, h <= g,
         NEW x, DraftOK(c, h, x)
  PROVE  DraftOK(d, g, x)
<1>. SUFFICES ASSUME x # Nil PROVE DraftOK(d, g, x)
  BY DEF DraftOK
<1>0. IsSeq(c)
  BY DEF ChainOK
<1>1. x.kind \in {"send", "consolidate"} => SpendOK(d, x)
  BY <1>0, PlanKept DEF DraftOK, SpendOK
<1>2. x.kind = "mint" => MintOK(d, x)
  BY <1>0, MintKept DEF DraftOK
<1>3. x.kind = "transfer" => TransferOK(d, x) /\ PaysFlow(d, x.feeUtxo)
  BY <1>0, TransferKept, CoinKept DEF DraftOK, PaysFlow
<1>4. x.kind = "redeem" => RipeOK(d, g, x)
  <2>. SUFFICES ASSUME x.kind = "redeem" PROVE RipeOK(d, g, x)
    OBVIOUS
  <2>1. RipeOK(c, h, x)
    BY DEF DraftOK
  <2>2. PosReal(c, x.position)
    BY <2>1 DEF RipeOK
  <2>3. x.position.lock \in Nat
    BY <2>2, PositionIs
  <2>. QED  BY <1>0, <2>1, <2>3, RipeKept
<1>5. x.kind = "redeem" => BurnOK(d, x.burn, x.position) /\ PaysFlow(d, x.feeUtxo)
  BY <1>0, BurnKept, CoinKept DEF DraftOK, PaysFlow
<1>. QED  BY <1>1, <1>2, <1>3, <1>4, <1>5 DEF DraftOK

-----------------------------------------------------------------------------
(* What is read from the chain is real *)

\* Membership of the outpoints, and of the unspent ones.
LEMMA OutpointsAre == ASSUME NEW o PROVE o \in Outpoints <=> Holds(chain, o)
<1>1. ASSUME o \in Outpoints PROVE Holds(chain, o)
  <2>1. PICK t \in DOMAIN chain : o \in {t} \X DOMAIN chain[t].out
    BY <1>1 DEF Outpoints
  <2>2. o = <<o[1], o[2]>> /\ o[1] = t /\ o[2] \in DOMAIN chain[t].out
    BY <2>1
  <2>. QED  BY <2>2 DEF Holds
<1>2. ASSUME Holds(chain, o) PROVE o \in Outpoints
  <2>1. o[1] \in DOMAIN chain /\ o \in {o[1]} \X DOMAIN chain[o[1]].out
    BY <1>2 DEF Holds
  <2>. QED  BY <2>1 DEF Outpoints
<1>. QED  BY <1>1, <1>2

LEMMA UnspentIs ==
  ASSUME NEW o
  PROVE  o \in Unspent <=> Holds(chain, o) /\ \A t \in DOMAIN chain : o \notin ToSet(chain[t].in)
BY OutpointsAre DEF Unspent, Spent

\* Coins read from the chain are real, and of the keys asked for.
LEMMA CoinsAreReal ==
  ASSUME NEW ks, ks \subseteq Keys, NEW u \in UtxosOf(ks)
  PROVE  CoinReal(chain, u) /\ u.key \in ks /\ u.at \in Unspent
         /\ u = [at |-> u.at, value |-> u.value, type |-> u.type, key |-> u.key]
<1>1. PICK o \in Unspent :
        /\ At(o).script.kind \in {"p2tr", "p2wpkh"} /\ At(o).script.key \in ks
        /\ u = [at |-> o, value |-> At(o).value, type |-> At(o).script.kind, key |-> At(o).script.key]
  BY DEF UtxosOf
<1>2. u.at = o /\ u.value = At(o).value /\ u.type = At(o).script.kind /\ u.key = At(o).script.key
  BY <1>1
<1>3. Holds(chain, o)
  BY UnspentIs
<1>. QED  BY <1>1, <1>2, <1>3 DEF CoinReal, OutOf, At

\* A coin is known by its outpoint.
LEMMA CoinsByOutpoint ==
  ASSUME NEW ks, NEW u \in UtxosOf(ks), NEW v \in UtxosOf(ks), u.at = v.at
  PROVE  u = v
BY DEF UtxosOf

\* A real token is a worthless taproot output of a known key.
LEMMA TokenIs ==
  ASSUME ChainOK(chain), NEW d, DdReal(chain, d)
  PROVE  /\ Holds(chain, d.at) /\ IsToken(d.at) /\ d.cents = CentsAt(d.at) /\ d.cents \in Nat
         /\ At(d.at).value = 0 /\ At(d.at).script.kind = "p2tr"
         /\ d.key = At(d.at).script.key /\ d.key \in Keys
         /\ At(d.at).script = P2tr(d.key)
<1> DEFINE t == chain[d.at[1]]
           n == d.at[2]
<1>1. Holds(chain, d.at) /\ n \in DOMAIN DdAmountsByVout(t)
      /\ d = [at |-> d.at, key |-> OutOf(chain, d.at).script.key, cents |-> DdAmountsByVout(t)[n]]
  BY DEF DdReal
<1>2. d.key = t.out[n].script.key /\ d.cents = DdAmountsByVout(t)[n]
  BY <1>1 DEF OutOf
<1>3. d.at[1] \in DOMAIN chain /\ n \in DOMAIN t.out
  BY <1>1 DEF Holds
<1>. HIDE DEF n
<1>4. TxOK(t)
  BY <1>3 DEF ChainOK
<1>. HIDE DEF t
<1>5. t.out[n].value = 0 /\ t.out[n].script.kind = "p2tr" /\ t.out[n].script.key \in Keys
      /\ DdAmountsByVout(t)[n] \in Nat
  BY <1>1, <1>4 DEF TxOK, Tokens
<1>6. t.out[n].script = P2tr(d.key)
  BY <1>2, <1>3, <1>4, <1>5 DEF TxOK, Shaped, StandardForms, Plain, P2tr
<1>. QED  BY <1>1, <1>2, <1>5, <1>6 DEF IsToken, CentsAt, At, t, n

\* The tokens listed are the real, unspent ones of the keys asked for.
LEMMA TokensAreReal ==
  ASSUME ChainOK(chain), NEW ks, NEW d
  PROVE  d \in DdUtxosOf(ks) <=> DdReal(chain, d) /\ d.key \in ks /\ d.at \in Unspent
<1>1. ASSUME d \in DdUtxosOf(ks) PROVE DdReal(chain, d) /\ d.key \in ks /\ d.at \in Unspent
  <2>1. PICK v \in UtxosOf(ks) :
          v.value = 0 /\ IsToken(v.at) /\ d = [at |-> v.at, key |-> v.key, cents |-> CentsAt(v.at)]
    BY <1>1 DEF DdUtxosOf
  <2>2. PICK o \in Unspent :
          /\ At(o).script.key \in ks
          /\ v = [at |-> o, value |-> At(o).value, type |-> At(o).script.kind,
                  key |-> At(o).script.key]
    BY DEF UtxosOf
  <2>3. v.at = o /\ v.key = At(o).script.key
    BY <2>2
  <2>4. d = [at |-> o, key |-> At(o).script.key, cents |-> CentsAt(o)] /\ IsToken(o)
    BY <2>1, <2>3
  <2>5. d.at = o /\ d.key = At(o).script.key
    BY <2>4
  <2>6. Holds(chain, o)
    BY UnspentIs
  <2>. QED  BY <2>2, <2>4, <2>5, <2>6 DEF DdReal, IsToken, CentsAt, At, OutOf
<1>2. ASSUME DdReal(chain, d), d.key \in ks, d.at \in Unspent PROVE d \in DdUtxosOf(ks)
  <2> DEFINE o == d.at
             v == [at |-> o, value |-> At(o).value, type |-> At(o).script.kind,
                   key |-> At(o).script.key]
  <2>1. /\ IsToken(o) /\ d.cents = CentsAt(o) /\ At(o).value = 0
        /\ At(o).script.kind = "p2tr" /\ d.key = At(o).script.key
    BY <1>2, TokenIs
  <2>2. v \in UtxosOf(ks)
    BY <1>2, <2>1 DEF UtxosOf
  <2>3. d = [at |-> v.at, key |-> v.key, cents |-> CentsAt(v.at)]
    <3>1. d = [at |-> d.at, key |-> OutOf(chain, d.at).script.key,
               cents |-> DdAmountsByVout(chain[d.at[1]])[d.at[2]]]
      BY <1>2 DEF DdReal
    <3>. QED  BY <3>1 DEF OutOf, At, CentsAt
  <2>4. v.value = 0 /\ IsToken(v.at)
    BY <2>1
  <2>. HIDE DEF v
  <2>. QED  BY <2>2, <2>3, <2>4 DEF DdUtxosOf
<1>. QED  BY <1>1, <1>2

\* The positions listed are the real, unspent ones of the keys asked for.
LEMMA PositionsAreReal ==
  ASSUME ChainOK(chain), NEW ks, NEW p
  PROVE  p \in PositionsOf(ks) <=> PosReal(chain, p) /\ p.key \in ks /\ p.at \in Unspent
<1> DEFINE rec(t) == [at |-> <<t, 1>>, value |-> chain[t].out[1].value,
            cents |-> chain[t].out[3].script.pushes[1], lock |-> chain[t].out[3].script.pushes[2],
            key |-> chain[t].out[3].script.pushes[4]]
<1>1. ASSUME NEW t \in DOMAIN chain, chain[t].type = "mint"
      PROVE  IsMintOf(t, ks) <=> rec(t).key \in ks
  <2>1. TxOK(chain[t])
    BY DEF ChainOK
  <2>2. OpReturns(chain[t]) = {3}
    BY <1>1, <2>1 DEF TxOK, MintShape
  <2>3. Min(OpReturns(chain[t])) = 3
    BY <2>2, LeastOfOne
  <2>. QED  BY <1>1, <2>3 DEF IsMintOf
<1>2. p \in PositionsOf(ks) <=>
        \E t \in DOMAIN chain : IsMintOf(t, ks) /\ <<t, 1>> \in Unspent /\ p = rec(t)
  BY DEF PositionsOf, CollateralUnspent
<1>3. PosReal(chain, p) <=> \E t \in DOMAIN chain : chain[t].type = "mint" /\ p = rec(t)
  BY DEF PosReal
<1>4. \A t : rec(t).at = <<t, 1>>
  OBVIOUS
<1>5. \A t : IsMintOf(t, ks) => chain[t].type = "mint"
  BY DEF IsMintOf
<1>. HIDE DEF rec
<1>. QED  BY <1>1, <1>2, <1>3, <1>4, <1>5

\* The image of a finite set is finite.
LEMMA ImageIsFinite ==
  ASSUME NEW h, NEW S, IsFiniteSet(S)
  PROVE  IsFiniteSet({h[x] : x \in S})
<1> DEFINE T == {h[x] : x \in S}
           f == [x \in S |-> h[x]]
<1>1. f \in Surjection(S, T)
  BY DEF Surjection
<1>. HIDE DEF f, T
<1>2. IsFiniteSet(T)
  BY <1>1, FS_Surjection
<1>. QED  BY <1>2 DEF T

\* There are finitely many unspent outputs, so finitely many of anything read from them.
LEMMA UnspentIsFinite ==
  ASSUME ChainOK(chain)
  PROVE  IsFiniteSet(Unspent)
<1> DEFINE h == [t \in DOMAIN chain |-> {t} \X DOMAIN chain[t].out]
           S == {h[t] : t \in DOMAIN chain}
<1>1. IsFiniteSet(DOMAIN chain)
  BY DomainsAreFinite DEF ChainOK
<1>2. IsFiniteSet(S)
  <2>. HIDE DEF h
  <2>. QED  BY <1>1, ImageIsFinite
<1>3. \A T \in S : IsFiniteSet(T)
  <2>. SUFFICES ASSUME NEW t \in DOMAIN chain PROVE IsFiniteSet({t} \X DOMAIN chain[t].out)
    OBVIOUS
  <2>1. IsSeq(chain[t].out)
    BY DEF ChainOK, TxOK
  <2>2. IsFiniteSet(DOMAIN chain[t].out) /\ IsFiniteSet({t})
    BY <2>1, DomainsAreFinite, FS_Singleton
  <2>. QED  BY <2>2, FS_Product
<1>4. Outpoints = UNION S
  BY DEF Outpoints
<1>. HIDE DEF S
<1>5. IsFiniteSet(Outpoints)
  BY <1>2, <1>3, <1>4, FS_UNION
<1>. QED  BY <1>5, FS_Subset DEF Unspent

LEMMA ReadsAreFinite ==
  ASSUME ChainOK(chain), NEW ks
  PROVE  IsFiniteSet(UtxosOf(ks)) /\ IsFiniteSet(DdUtxosOf(ks)) /\ IsFiniteSet(PositionsOf(ks))
<1>1. IsFiniteSet(UtxosOf(ks))
  <2> DEFINE h == [o \in Unspent |-> [at |-> o, value |-> At(o).value,
                                      type |-> At(o).script.kind, key |-> At(o).script.key]]
             T == {h[o] : o \in Unspent}
  <2>1. IsFiniteSet(T)
    <3>. HIDE DEF h
    <3>. QED  BY UnspentIsFinite, ImageIsFinite
  <2>2. UtxosOf(ks) \subseteq T
    BY DEF UtxosOf
  <2>. HIDE DEF T
  <2>. QED  BY <2>1, <2>2, FS_Subset
<1>2. IsFiniteSet(DdUtxosOf(ks))
  <2> DEFINE U == UtxosOf(ks)
             h == [v \in U |-> [at |-> v.at, key |-> v.key, cents |-> CentsAt(v.at)]]
             T == {h[v] : v \in U}
  <2>1. IsFiniteSet(T)
    <3>. HIDE DEF h
    <3>. QED  BY <1>1, ImageIsFinite
  <2>2. DdUtxosOf(ks) \subseteq T
    BY DEF DdUtxosOf
  <2>. HIDE DEF T
  <2>. QED  BY <2>1, <2>2, FS_Subset
<1>3. IsFiniteSet(PositionsOf(ks))
  <2> DEFINE h == [t \in DOMAIN chain |->
               [at |-> <<t, 1>>, value |-> chain[t].out[1].value,
                cents |-> chain[t].out[3].script.pushes[1],
                lock |-> chain[t].out[3].script.pushes[2],
                key |-> chain[t].out[3].script.pushes[4]]]
             T == {h[t] : t \in DOMAIN chain}
  <2>1. IsFiniteSet(T)
    <3>1. IsFiniteSet(DOMAIN chain)
      BY DomainsAreFinite DEF ChainOK
    <3>. HIDE DEF h
    <3>. QED  BY <3>1, ImageIsFinite
  <2>2. PositionsOf(ks) \subseteq T
    BY DEF PositionsOf
  <2>. HIDE DEF T
  <2>. QED  BY <2>1, <2>2, FS_Subset
<1>. QED  BY <1>1, <1>2, <1>3

-----------------------------------------------------------------------------
(* The order coins are taken in *)

\* Coins that are told apart by their outpoints, of known sizes.
Sortable(size, coins) ==
  /\ IsFiniteSet(coins)
  /\ \A c \in coins : size[c] \in Int /\ c.at[1] \in Int /\ c.at[2] \in Int
  /\ \A c, d \in coins : c.at[1] = d.at[1] /\ c.at[2] = d.at[2] => c = d

\* The comparator orders distinct coins strictly.
LEMMA OrderIsTotal ==
  ASSUME NEW size, NEW oldest \in BOOLEAN, NEW coins, Sortable(size, coins)
  PROVE  /\ \A c \in coins : ~Before(size, oldest, c, c)
         /\ \A c, d \in coins : c # d => Before(size, oldest, c, d) \/ Before(size, oldest, d, c)
         /\ \A c, d, e \in coins :
              Before(size, oldest, c, d) /\ Before(size, oldest, d, e) => Before(size, oldest, c, e)
<1>. USE DEF Sortable, Before, Older
<1>1. \A c \in coins : ~Before(size, oldest, c, c)
  OBVIOUS
<1>2. \A c, d \in coins : c # d => Before(size, oldest, c, d) \/ Before(size, oldest, d, c)
  OBVIOUS
<1>3. \A c, d, e \in coins :
        Before(size, oldest, c, d) /\ Before(size, oldest, d, e) => Before(size, oldest, c, e)
  OBVIOUS
<1>. QED  BY <1>1, <1>2, <1>3

\* A coin that comes before another has a lower place.
LEMMA PlacesGrow ==
  ASSUME NEW size, NEW oldest \in BOOLEAN, NEW coins, Sortable(size, coins),
         NEW c \in coins, NEW d \in coins, Before(size, oldest, c, d)
  PROVE  Place(size, oldest, coins, c) < Place(size, oldest, coins, d)
<1> DEFINE B(x) == {e \in coins : Before(size, oldest, e, x)}
<1>1. IsFiniteSet(B(c)) /\ IsFiniteSet(B(d))
  BY FS_Subset DEF Sortable
<1>2. B(c) \subseteq B(d) /\ c \in B(d) /\ c \notin B(c)
  BY OrderIsTotal
<1>3. Cardinality(B(c)) <= Cardinality(B(d)) /\ Cardinality(B(c)) # Cardinality(B(d))
      /\ Cardinality(B(c)) \in Nat /\ Cardinality(B(d)) \in Nat
  <2>. HIDE DEF B
  <2>. QED  BY <1>1, <1>2, FS_Subset, FS_CardinalityType
<1>4. Place(size, oldest, coins, c) = 1 + Cardinality(B(c))
      /\ Place(size, oldest, coins, d) = 1 + Cardinality(B(d))
  BY DEF Place
<1>. HIDE DEF B
<1>. QED  BY <1>3, <1>4

\* Every place has a coin.
LEMMA PlacesAreFilled ==
  ASSUME NEW size, NEW oldest \in BOOLEAN, NEW coins, Sortable(size, coins)
  PROVE  \A i \in 1 .. Cardinality(coins) : \E c \in coins : Place(size, oldest, coins, c) = i
<1> DEFINE n == Cardinality(coins)
           p == [c \in coins |-> Place(size, oldest, coins, c)]
<1>1. IsFiniteSet(coins) /\ n \in Nat
  BY FS_CardinalityType DEF Sortable
<1>2. ASSUME NEW c \in coins PROVE p[c] \in 1 .. n
  <2> DEFINE B == {e \in coins : Before(size, oldest, e, c)}
  <2>1. B \subseteq coins /\ c \notin B
    BY OrderIsTotal
  <2>2. Cardinality(B) \in Nat /\ Cardinality(B) <= n /\ Cardinality(B) # n
    <3>. HIDE DEF B
    <3>. QED  BY <1>1, <2>1, FS_Subset, FS_CardinalityType
  <2>3. p[c] = 1 + Cardinality(B)
    BY DEF Place
  <2>. HIDE DEF B, p, n
  <2>. QED  BY <1>1, <2>2, <2>3
<1>3. ASSUME NEW c \in coins, NEW d \in coins, c # d PROVE p[c] # p[d]
  <2>1. Before(size, oldest, c, d) \/ Before(size, oldest, d, c)
    BY <1>3, OrderIsTotal
  <2>2. p[c] < p[d] \/ p[d] < p[c]
    BY <2>1, PlacesGrow
  <2>3. p[c] \in Int /\ p[d] \in Int
    BY <1>2
  <2>. HIDE DEF p
  <2>. QED  BY <2>2, <2>3
<1>4. p \in [coins -> 1 .. n]
  <2>1. \A c \in coins : Place(size, oldest, coins, c) \in 1 .. n
    BY <1>2
  <2>. QED  BY <2>1
<1>5. p \in Injection(coins, 1 .. n)
  <2>. HIDE DEF p
  <2>. QED  BY <1>3, <1>4 DEF Injection, IsInjective
<1>6. p \in Surjection(coins, 1 .. n)
  <2>1. IsFiniteSet(1 .. n) /\ Cardinality(1 .. n) = n
    BY <1>1, FS_Interval
  <2>. HIDE DEF p
  <2>. QED  BY <1>5, <2>1, FS_Injection
<1>7. \A i \in 1 .. n : \E c \in coins : p[c] = i
  <2>. HIDE DEF p
  <2>. QED  BY <1>6 DEF Surjection
<1>. QED  BY <1>7

\* The sorted sequence names distinct coins, none larger than those before it.
LEMMA SortedIs ==
  ASSUME NEW size, NEW oldest \in BOOLEAN, NEW coins, Sortable(size, coins)
  PROVE  LET s == Sorted(size, oldest, coins)
         IN  /\ IsSeq(s) /\ Len(s) = Cardinality(coins)
             /\ \A i \in DOMAIN s : s[i] \in coins
             /\ \A i, j \in DOMAIN s : s[i] = s[j] => i = j
             /\ \A i, j \in DOMAIN s : i < j => size[s[i]] >= size[s[j]]
<1> DEFINE s == Sorted(size, oldest, coins)
           n == Cardinality(coins)
           place(c) == Place(size, oldest, coins, c)
<1>0. n \in Nat
  BY FS_CardinalityType DEF Sortable
<1>1. DOMAIN s = 1 .. n /\ s = [i \in 1 .. n |-> s[i]]
  BY DEF Sorted
<1>2. IsSeq(s) /\ Len(s) = n
  <2>. HIDE DEF s, n
  <2>. QED  BY <1>0, <1>1, Table
<1>3. ASSUME NEW i \in 1 .. n PROVE s[i] \in coins /\ place(s[i]) = i
  <2>1. s[i] = CHOOSE c \in coins : place(c) = i
    BY DEF Sorted
  <2>2. \E c \in coins : place(c) = i
    BY PlacesAreFilled
  <2>. HIDE DEF s, n, place
  <2>. QED  BY <2>1, <2>2
<1>4. ASSUME NEW i \in 1 .. n, NEW j \in 1 .. n, i < j PROVE size[s[i]] >= size[s[j]]
  <2>1. s[i] \in coins /\ s[j] \in coins /\ place(s[i]) = i /\ place(s[j]) = j
    BY <1>3
  <2>2. ~Before(size, oldest, s[j], s[i])
    <3>1. Before(size, oldest, s[j], s[i]) => place(s[j]) < place(s[i])
      BY <2>1, PlacesGrow
    <3>. HIDE DEF s, n, place
    <3>. QED  BY <1>0, <1>4, <2>1, <3>1
  <2>3. size[s[i]] \in Int /\ size[s[j]] \in Int
    BY <2>1 DEF Sortable
  <2>. HIDE DEF s, n, place
  <2>. QED  BY <2>2, <2>3 DEF Before
<1>. HIDE DEF s, n, place
<1>5. /\ \A i \in DOMAIN s : s[i] \in coins
      /\ \A i, j \in DOMAIN s : s[i] = s[j] => i = j
      /\ \A i, j \in DOMAIN s : i < j => size[s[i]] >= size[s[j]]
  BY <1>1, <1>3, <1>4
<1>. QED  BY <1>2, <1>5 DEF s, n

\* A cut at l is a prefix of length l.
LEMMA CutIs ==
  ASSUME NEW o, IsSeq(o), NEW l \in 0 .. Len(o)
  PROVE  /\ IsSeq(SubSeq(o, 1, l)) /\ Len(SubSeq(o, 1, l)) = l
         /\ \A i \in 1 .. l : SubSeq(o, 1, l)[i] = o[i]
         /\ SubSeq(o, 1, l) \in Prefixes(o)
<1>0. Len(o) \in Nat /\ l \in Nat
  BY DEF IsSeq
<1>1. \A i \in 1 .. l : o[i] \in Range(o)
  BY <1>0 DEF IsSeq, Range
<1>2. /\ SubSeq(o, 1, l) \in Seq(Range(o))
      /\ Len(SubSeq(o, 1, l)) = (IF 1 <= l THEN l - 1 + 1 ELSE 0)
      /\ \A i \in 1 .. l - 1 + 1 : SubSeq(o, 1, l)[i] = o[1 + i - 1]
  BY <1>0, <1>1, SubSeqProperties
<1>3. IsSeq(SubSeq(o, 1, l))
  BY <1>2, InSeq
<1>4. Len(SubSeq(o, 1, l)) = l
  BY <1>0, <1>2
<1>5. \A i \in 1 .. l : SubSeq(o, 1, l)[i] = o[i]
  <2>. SUFFICES ASSUME NEW i \in 1 .. l PROVE SubSeq(o, 1, l)[i] = o[i]
    OBVIOUS
  <2>1. i \in 1 .. l - 1 + 1 /\ 1 + i - 1 = i
    BY <1>0
  <2>. QED  BY <1>2, <2>1
<1>6. SubSeq(o, 1, l) \in Prefixes(o)
  BY DEF Prefixes
<1>. QED  BY <1>3, <1>4, <1>5, <1>6

\* A prefix holds the first elements.
LEMMA PrefixIs ==
  ASSUME NEW o, IsSeq(o), NEW s \in Prefixes(o)
  PROVE  IsSeq(s) /\ Len(s) \in 0 .. Len(o) /\ \A i \in 1 .. Len(s) : s[i] = o[i]
<1>1. PICK l \in 0 .. Len(o) : s = SubSeq(o, 1, l)
  BY DEF Prefixes
<1>. QED  BY <1>1, CutIs

\* A total over one term more.
LEMMA SumLonger ==
  ASSUME NEW n \in Nat, NEW f, NEW g, \A i \in 1 .. n : f[i] = g[i], \A i \in 1 .. n + 1 : g[i] \in Int
  PROVE  SumFunctionOnSet(g, 1 .. n + 1) = SumFunctionOnSet(f, 1 .. n) + g[n + 1]
<1>1. IsFiniteSet(1 .. n + 1) /\ IsFiniteSet(1 .. n) /\ n + 1 \in 1 .. n + 1
  BY FS_Interval
<1>2. (1 .. n + 1) \ {n + 1} = 1 .. n
  OBVIOUS
<1>3. SumFunctionOnSet(g, 1 .. n + 1) = g[n + 1] + SumFunctionOnSet(g, 1 .. n)
  BY <1>1, <1>2, SumRemove
<1>4. SumFunctionOnSet(f, 1 .. n) = SumFunctionOnSet(g, 1 .. n)
  BY <1>1, SumSame
<1>5. SumFunctionOnSet(g, 1 .. n) \in Int /\ g[n + 1] \in Int
  <2>1. \A x \in 1 .. n : g[x] \in Int
    OBVIOUS
  <2>. QED  BY <1>1, <2>1, SumType
<1>. QED  BY <1>3, <1>4, <1>5

-----------------------------------------------------------------------------
(* Fees *)

\* Weights are naturals.
LEMMA InputWeightIs == ASSUME NEW type PROVE InputWeight(type) \in {230, 272}
BY DEF InputWeight

LEMMA WeightIs ==
  ASSUME NEW ins, IsSeq(ins)
  PROVE  InputsWeight(ins) \in Nat
<1> DEFINE f == [i \in DOMAIN ins |-> InputWeight(ins[i].type)]
<1>1. \A i \in DOMAIN ins : f[i] \in Nat
  BY InputWeightIs
<1>2. IsFiniteSet(DOMAIN ins)
  BY DomainsAreFinite
<1>3. SumFunctionOnSet(f, DOMAIN ins) \in Nat
  <2>. HIDE DEF f
  <2>. QED  BY <1>1, <1>2, SumBounds
<1>4. SumFunction(f) = SumFunctionOnSet(f, DOMAIN ins)
  BY DEF SumFunction
<1>5. TxOverheadWu \in Nat /\ InputCountExtraWu(Len(ins)) \in Nat
  BY DEF TxOverheadWu, InputCountExtraWu
<1>6. InputsWeight(ins) = TxOverheadWu + InputCountExtraWu(Len(ins)) + SumFunction(f)
  BY DEF InputsWeight
<1>. HIDE DEF f
<1>. QED  BY <1>3, <1>4, <1>5, <1>6

LEMMA OutputWeightIs == ASSUME NEW s PROVE OutputWeight(s) \in Nat
<1>1. ScriptBytes(s.kind) \in Nat
  BY DEF ScriptBytes
<1>. QED  BY <1>1 DEF OutputWeight

\* A heavier transaction never pays less.
LEMMA FeeGrows ==
  ASSUME NEW a \in Nat, NEW b \in Nat, a <= b
  PROVE  FeeFor(a) \in Nat /\ FeeFor(a) <= FeeFor(b)
<1> DEFINE x == (a + 4 - 1) \div 4
           y == (b + 4 - 1) \div 4
<1>1. x \in Nat /\ y \in Nat /\ x <= y
  OBVIOUS
<1>2. FeeRate \in Nat
  BY TxConstants
<1>. HIDE DEF x, y
<1>3. x * FeeRate \in Nat /\ y * FeeRate \in Nat
  BY <1>1, <1>2
<1>4. x * FeeRate <= y * FeeRate
  BY <1>1, <1>2
<1> DEFINE p == x * FeeRate
           q == y * FeeRate
<1>5. p \in Nat /\ q \in Nat /\ p <= q
  BY <1>3, <1>4
<1>. HIDE DEF p, q
<1>6. (p + 1000 - 1) \div 1000 \in Nat /\ (p + 1000 - 1) \div 1000 <= (q + 1000 - 1) \div 1000
  BY <1>5
<1>7. FeeFor(a) = (p + 1000 - 1) \div 1000 /\ FeeFor(b) = (q + 1000 - 1) \div 1000
  BY DEF FeeFor, CeilDiv, p, q, x, y
<1>. QED  BY <1>6, <1>7

-----------------------------------------------------------------------------
(* What the planners choose *)

\* An outpoint is a pair of numbers.
LEMMA PlacesAreNumbers ==
  ASSUME ChainOK(chain), NEW o, Holds(chain, o)
  PROVE  o[1] \in Int /\ o[2] \in Int /\ o = <<o[1], o[2]>>
<1>1. IsSeq(chain) /\ IsSeq(chain[o[1]].out)
  BY DEF ChainOK, TxOK, Holds
<1>. QED  BY <1>1 DEF IsSeq, Holds

\* A real coin has the value and script of its output.
LEMMA CoinValue ==
  ASSUME ChainOK(chain), NEW u, CoinReal(chain, u)
  PROVE  u.value \in Nat /\ At(u.at).value = u.value
         /\ At(u.at).script = (IF u.type = "p2wpkh" THEN P2wpkh(u.key) ELSE P2tr(u.key))
         /\ At(u.at).script.kind = u.type
<1> DEFINE t == chain[u.at[1]]
           n == u.at[2]
<1>1. u.at[1] \in DOMAIN chain /\ n \in DOMAIN t.out
  BY DEF CoinReal, Holds
<1>2. TxOK(t)
  BY <1>1 DEF ChainOK
<1>. HIDE DEF t, n
<1>3. Shaped(t.out[n])
  BY <1>1, <1>2 DEF TxOK
<1>4. t.out[n].value = u.value /\ t.out[n].script.kind = u.type /\ t.out[n].script.key = u.key
      /\ u.type \in {"p2tr", "p2wpkh"}
  BY DEF CoinReal, OutOf, t, n
<1>5. t.out[n].script = [kind |-> u.type, key |-> u.key]
  BY <1>3, <1>4 DEF Shaped, StandardForms, Plain
<1>6. At(u.at) = t.out[n]
  BY DEF At, t, n
<1>. QED  BY <1>3, <1>4, <1>5, <1>6 DEF Shaped, P2tr, P2wpkh

\* Coins and tokens can be sorted.
LEMMA CoinsSort ==
  ASSUME ChainOK(chain), NEW ks, ks \subseteq Keys
  PROVE  Sortable([c \in UtxosOf(ks) |-> c.value], UtxosOf(ks))
<1> DEFINE coins == UtxosOf(ks)
<1>1. IsFiniteSet(coins)
  BY ReadsAreFinite
<1>2. ASSUME NEW c \in coins
      PROVE  CoinReal(chain, c) /\ Holds(chain, c.at) /\ c.value \in Int
             /\ c.at[1] \in Int /\ c.at[2] \in Int /\ c.at = <<c.at[1], c.at[2]>>
  <2>1. CoinReal(chain, c)
    BY CoinsAreReal
  <2>2. Holds(chain, c.at)
    BY <2>1 DEF CoinReal
  <2>. QED  BY <2>1, <2>2, CoinValue, PlacesAreNumbers
<1>3. ASSUME NEW c \in coins, NEW d \in coins, c.at[1] = d.at[1], c.at[2] = d.at[2]
      PROVE  c = d
  <2>1. c.at = d.at
    BY <1>2, <1>3
  <2>. QED  BY <2>1, CoinsByOutpoint
<1>. QED  BY <1>1, <1>2, <1>3 DEF Sortable

LEMMA TokensSort ==
  ASSUME ChainOK(chain), NEW ks
  PROVE  Sortable([d \in DdUtxosOf(ks) |-> d.cents], DdUtxosOf(ks))
<1> DEFINE dds == DdUtxosOf(ks)
<1>1. IsFiniteSet(dds)
  BY ReadsAreFinite
<1>2. ASSUME NEW d \in dds
      PROVE  DdReal(chain, d) /\ d.cents \in Int
             /\ d.at[1] \in Int /\ d.at[2] \in Int /\ d.at = <<d.at[1], d.at[2]>>
  <2>1. DdReal(chain, d)
    BY TokensAreReal
  <2>2. Holds(chain, d.at)
    BY <2>1 DEF DdReal
  <2>. QED  BY <2>1, <2>2, TokenIs, PlacesAreNumbers
<1>3. ASSUME NEW c \in dds, NEW d \in dds, c.at[1] = d.at[1], c.at[2] = d.at[2]
      PROVE  c = d
  <2>1. c.at = d.at
    BY <1>2, <1>3
  <2>2. DdReal(chain, c) /\ DdReal(chain, d)
    BY <1>2
  <2>. QED  BY <2>1, <2>2 DEF DdReal
<1>. QED  BY <1>1, <1>2, <1>3 DEF Sortable

\* A planner takes coins in sorted order, as many as the first ones of it.
LEMMA FirstOfSorted ==
  ASSUME NEW size, NEW coins, Sortable(size, coins), NEW o \in LargestFirst(size, coins),
         NEW s \in Prefixes(o)
  PROVE  /\ IsSeq(o) /\ IsSeq(s) /\ Len(s) \in 0 .. Len(o) /\ \A i \in 1 .. Len(s) : s[i] = o[i]
         /\ \A i \in DOMAIN s : s[i] \in coins
         /\ \A i, j \in DOMAIN s : s[i] = s[j] => i = j
         /\ \A i, j \in DOMAIN s : i < j => size[s[i]] >= size[s[j]]
<1>1. PICK oldest \in BOOLEAN : o = Sorted(size, oldest, coins)
  BY DEF LargestFirst
<1>2. /\ IsSeq(o)
      /\ \A i \in DOMAIN o : o[i] \in coins
      /\ \A i, j \in DOMAIN o : o[i] = o[j] => i = j
      /\ \A i, j \in DOMAIN o : i < j => size[o[i]] >= size[o[j]]
  BY <1>1, SortedIs
<1>3. IsSeq(s) /\ Len(s) \in 0 .. Len(o) /\ \A i \in 1 .. Len(s) : s[i] = o[i]
  BY <1>2, PrefixIs
<1>4. DOMAIN s = 1 .. Len(s) /\ DOMAIN s \subseteq DOMAIN o /\ \A i \in DOMAIN s : s[i] = o[i]
  BY <1>2, <1>3 DEF IsSeq
<1>. QED  BY <1>2, <1>3, <1>4

\* The tokens picked for a redemption are distinct, the position's and enough.
LEMMA BurnIs ==
  ASSUME ChainOK(chain), NEW p, NEW burn \in BurnSets(DdUtxosOf({p.key}), p.cents)
  PROVE  BurnOK(chain, burn, p)
<1> DEFINE dds == DdUtxosOf({p.key})
           size == [d \in dds |-> d.cents]
<1>1. PICK o \in LargestFirst(size, dds) : burn \in Shortest({s \in Prefixes(o) : TotalCents(s) >= p.cents})
  BY DEF BurnSets
<1>2. burn \in Prefixes(o) /\ TotalCents(burn) >= p.cents
  BY <1>1 DEF Shortest
<1>3. Sortable(size, dds)
  BY TokensSort
<1>. HIDE DEF size
<1>4. /\ IsSeq(burn) /\ \A i \in DOMAIN burn : burn[i] \in dds
      /\ \A i, j \in DOMAIN burn : burn[i] = burn[j] => i = j
  BY <1>1, <1>2, <1>3, FirstOfSorted
<1>5. \A i \in DOMAIN burn : DdReal(chain, burn[i]) /\ burn[i].key = p.key
  BY <1>4, TokensAreReal
<1>6. \A i, j \in DOMAIN burn : burn[i].at = burn[j].at => burn[i] = burn[j]
  BY <1>5 DEF DdReal
<1>. QED  BY <1>2, <1>4, <1>5, <1>6 DEF BurnOK

\* The coin picked is one of those offered and worth enough.
LEMMA PickIs ==
  ASSUME NEW coins, NEW least, NEW prefer, NEW u \in PickDgbCoin(coins, least, prefer)
  PROVE  u \in coins /\ u.value >= least
BY DEF PickDgbCoin, Smallest

\* Everything to one output takes each coin offered.
LEMMA AllIsASequence ==
  ASSUME NEW S, IsFiniteSet(S)
  PROVE  /\ IsSeq(SetToSeq(S)) /\ \A i \in DOMAIN SetToSeq(S) : SetToSeq(S)[i] \in S
<1> DEFINE n == Cardinality(S)
<1>1. n \in Nat /\ ExistsBijection(1 .. n, S)
  BY FS_CardinalityType
<1>2. PICK h \in Bijection(1 .. n, S) : TRUE
  BY <1>1 DEF ExistsBijection
<1>3. h \in [1 .. n -> S] /\ IsInjective(h)
  BY <1>2 DEF Bijection, Injection
<1> DEFINE s == SetToSeq(S)
<1>4. s \in [1 .. n -> S]
  BY <1>3 DEF SetToSeq
<1>5. DOMAIN s = 1 .. n /\ s = [i \in 1 .. n |-> s[i]] /\ \A i \in 1 .. n : s[i] \in S
  BY <1>4
<1>. HIDE DEF s, n
<1>6. IsSeq(s)
  BY <1>1, <1>5, Table
<1>. QED  BY <1>5, <1>6 DEF s

\* One coin more adds its value, and never makes a payment cheaper.
LEMMA OneCoinMore ==
  ASSUME NEW s, NEW t, IsSeq(s), IsSeq(t), Len(t) = Len(s) + 1, \A i \in 1 .. Len(s) : s[i] = t[i],
         \A i \in 1 .. Len(t) : t[i].value \in Nat, NEW r
  PROVE  /\ TotalValue(t) = TotalValue(s) + t[Len(t)].value /\ TotalValue(s) \in Nat
         /\ SpendFee(s, r) \in Nat /\ SpendFee(s, r) <= SpendFee(t, r)
<1> DEFINE n == Len(s)
           f == [i \in DOMAIN s |-> s[i].value]
           g == [i \in DOMAIN t |-> t[i].value]
           v == [i \in DOMAIN s |-> InputWeight(s[i].type)]
           w == [i \in DOMAIN t |-> InputWeight(t[i].type)]
<1>1. n \in Nat /\ DOMAIN s = 1 .. n /\ DOMAIN t = 1 .. n + 1 /\ IsFiniteSet(1 .. n)
  BY FS_Interval DEF IsSeq
<1>2. TotalValue(t) = TotalValue(s) + t[n + 1].value /\ TotalValue(s) \in Nat
  <2>1. \A i \in 1 .. n : f[i] = g[i]
    BY <1>1
  <2>2. \A i \in 1 .. n + 1 : g[i] \in Nat
    BY <1>1
  <2>3. \A i \in 1 .. n : f[i] \in Nat
    BY <1>1
  <2>4. TotalValue(t) = SumFunctionOnSet(g, 1 .. n + 1) /\ TotalValue(s) = SumFunctionOnSet(f, 1 .. n)
    BY <1>1 DEF TotalValue, SumFunction
  <2>5. g[n + 1] = t[n + 1].value
    BY <1>1
  <2>. HIDE DEF f, g, n
  <2>6. SumFunctionOnSet(g, 1 .. n + 1) = SumFunctionOnSet(f, 1 .. n) + g[n + 1]
    <3>1. n \in Nat /\ (\A i \in 1 .. n : f[i] = g[i]) /\ \A i \in 1 .. n + 1 : g[i] \in Int
      BY <1>1, <2>1, <2>2
    <3>. QED  BY <3>1, SumLonger
  <2>7. SumFunctionOnSet(f, 1 .. n) \in Nat
    BY <1>1, <2>3, SumBounds
  <2>. QED  BY <2>4, <2>5, <2>6, <2>7
<1>3. InputsWeight(s) <= InputsWeight(t)
  <2>1. \A i \in 1 .. n : v[i] = w[i]
    BY <1>1
  <2>2. \A i \in 1 .. n + 1 : w[i] \in Nat
    BY <1>1, InputWeightIs
  <2>3. SumFunction(w) = SumFunctionOnSet(w, 1 .. n + 1) /\ SumFunction(v) = SumFunctionOnSet(v, 1 .. n)
    BY <1>1 DEF SumFunction
  <2>4. /\ InputsWeight(s) = TxOverheadWu + InputCountExtraWu(n) + SumFunction(v)
        /\ InputsWeight(t) = TxOverheadWu + InputCountExtraWu(n + 1) + SumFunction(w)
    BY DEF InputsWeight
  <2>5. \A i \in 1 .. n : v[i] \in Nat
    BY <2>1, <2>2
  <2>. HIDE DEF v, w, n
  <2>6. SumFunctionOnSet(w, 1 .. n + 1) = SumFunctionOnSet(v, 1 .. n) + w[n + 1]
    <3>1. n \in Nat /\ (\A i \in 1 .. n : v[i] = w[i]) /\ \A i \in 1 .. n + 1 : w[i] \in Int
      BY <1>1, <2>1, <2>2
    <3>. QED  BY <3>1, SumLonger
  <2>7. SumFunctionOnSet(v, 1 .. n) \in Nat
    BY <1>1, <2>5, SumBounds
  <2>8. InputCountExtraWu(n) \in Nat /\ InputCountExtraWu(n + 1) \in Nat
        /\ InputCountExtraWu(n) <= InputCountExtraWu(n + 1)
    BY <1>1, TxConstants DEF InputCountExtraWu
  <2>9. TxOverheadWu \in Nat /\ w[n + 1] \in Nat
    BY <1>1, <2>2 DEF TxOverheadWu
  <2>. QED  BY <2>3, <2>4, <2>6, <2>7, <2>8, <2>9
<1>4. SpendFee(s, r) \in Nat /\ SpendFee(s, r) <= SpendFee(t, r)
  <2> DEFINE a == InputsWeight(s) + OutputWeight(r) + P2trOutputWu
             b == InputsWeight(t) + OutputWeight(r) + P2trOutputWu
  <2>1. InputsWeight(s) \in Nat /\ InputsWeight(t) \in Nat /\ OutputWeight(r) \in Nat
        /\ P2trOutputWu \in Nat
    BY WeightIs, OutputWeightIs DEF P2trOutputWu
  <2>2. a \in Nat /\ b \in Nat /\ a <= b
    BY <1>3, <2>1
  <2>3. SpendFee(s, r) = FeeFor(a) /\ SpendFee(t, r) = FeeFor(b)
    BY DEF SpendFee
  <2>. HIDE DEF a, b
  <2>. QED  BY <2>2, <2>3, FeeGrows
<1>. QED  BY <1>2, <1>4

\* A plan to pay an amount covers it and its fee (txbuild.js planSpend).
LEMMA PlanSpendIs ==
  ASSUME ChainOK(chain), NEW ks, ks \subseteq Keys, NEW amount \in Nat \ {0}, NEW r,
         NEW plan \in PlanSpend(UtxosOf(ks), amount, r)
  PROVE  PlanOK(chain, plan, r)
<1> DEFINE coins == UtxosOf(ks)
           size == [c \in coins |-> c.value]
<1>1. PICK o \in LargestFirst(size, coins) :
        \E ins \in Shortest({s \in Prefixes(o) : Covers(s, amount, r)}) :
          plan = [inputs |-> ins, amount |-> amount, fee |-> SpendFee(ins, r)]
  BY DEF PlanSpend
<1>2. PICK ins \in Shortest({s \in Prefixes(o) : Covers(s, amount, r)}) :
          plan = [inputs |-> ins, amount |-> amount, fee |-> SpendFee(ins, r)]
  BY <1>1
<1>3. ins \in Prefixes(o) /\ Covers(ins, amount, r)
      /\ \A s \in Prefixes(o) : Covers(s, amount, r) => Len(ins) <= Len(s)
  BY <1>2 DEF Shortest
<1>4. Sortable(size, coins) /\ \A c \in coins : size[c] = c.value
  BY CoinsSort
<1>. HIDE DEF size
<1>5. /\ IsSeq(o) /\ IsSeq(ins) /\ Len(ins) \in 0 .. Len(o) /\ \A i \in 1 .. Len(ins) : ins[i] = o[i]
      /\ \A i \in DOMAIN ins : ins[i] \in coins
      /\ \A i, j \in DOMAIN ins : i < j => size[ins[i]] >= size[ins[j]]
  BY <1>3, <1>4, FirstOfSorted
<1>6. \A i \in DOMAIN ins : CoinReal(chain, ins[i]) /\ ins[i].value \in Nat
  BY <1>5, CoinsAreReal, CoinValue
<1> DEFINE n == Len(ins)
<1>7. n \in Nat /\ DOMAIN ins = 1 .. n
  BY <1>5 DEF IsSeq
<1>8. SpendFee(ins, r) \in Nat
  <2>1. InputsWeight(ins) + OutputWeight(r) + P2trOutputWu \in Nat
    BY <1>5, WeightIs, OutputWeightIs DEF P2trOutputWu
  <2>. QED  BY <2>1, FeeGrows DEF SpendFee
<1>9. n # 0
  <2>. SUFFICES ASSUME n = 0 PROVE FALSE
    OBVIOUS
  <2> DEFINE f == [i \in DOMAIN ins |-> ins[i].value]
  <2>1. DOMAIN f = {} /\ TotalValue(ins) = SumFunctionOnSet(f, DOMAIN f)
    BY <1>7 DEF TotalValue, SumFunction
  <2>. HIDE DEF f
  <2>2. TotalValue(ins) = 0
    BY <2>1, SumEmpty
  <2>. QED  BY <1>3, <1>8, <2>2 DEF Covers
<1>10. ins[n].value > 0
  <2>. SUFFICES ASSUME ins[n].value = 0 PROVE FALSE
    BY <1>6, <1>7, <1>9
  <2> DEFINE s == SubSeq(o, 1, n - 1)
  <2>1. n - 1 \in 0 .. Len(o)
    BY <1>5, <1>7, <1>9 DEF IsSeq
  <2>2. /\ IsSeq(s) /\ Len(s) = n - 1
        /\ \A i \in 1 .. n - 1 : s[i] = o[i]
        /\ s \in Prefixes(o)
    BY <1>5, <2>1, CutIs
  <2>. HIDE DEF s, n
  <2>3. /\ Len(ins) = Len(s) + 1 /\ \A i \in 1 .. Len(s) : s[i] = ins[i]
        /\ \A i \in 1 .. Len(ins) : ins[i].value \in Nat /\ ins[n].value = 0 /\ Len(ins) = n
    BY <1>5, <1>6, <1>7, <2>2 DEF n
  <2>4. /\ TotalValue(ins) = TotalValue(s) + ins[Len(ins)].value /\ TotalValue(s) \in Nat
        /\ SpendFee(s, r) \in Nat /\ SpendFee(s, r) <= SpendFee(ins, r)
    BY <1>5, <2>2, <2>3, OneCoinMore
  <2>5. Covers(s, amount, r)
    <3>1. Len(ins) = n /\ ins[n].value = 0
      BY <1>7 DEF n
    <3>. QED  BY <1>3, <1>8, <2>4, <3>1 DEF Covers
  <2>. QED  BY <1>3, <1>7, <2>2, <2>5 DEF n
<1>11. \A i \in DOMAIN ins : ins[i].value > 0
  <2>. SUFFICES ASSUME NEW i \in DOMAIN ins PROVE ins[i].value > 0
    OBVIOUS
  <2>1. n \in DOMAIN ins /\ (i = n \/ i < n)
    BY <1>7, <1>9
  <2>2. size[ins[i]] = ins[i].value /\ size[ins[n]] = ins[n].value
    BY <1>4, <1>5, <2>1
  <2>. HIDE DEF n
  <2>. QED  BY <1>5, <1>6, <1>10, <2>1, <2>2
<1>12. plan.inputs = ins /\ plan.amount = amount /\ plan.fee = SpendFee(ins, r)
  BY <1>2
<1>. QED  BY <1>3, <1>5, <1>6, <1>8, <1>11, <1>12 DEF PlanOK, Covers

\* A total of naturals is one, and at least each of them.
LEMMA TotalIs ==
  ASSUME NEW s, IsSeq(s), \A i \in DOMAIN s : s[i].value \in Nat
  PROVE  TotalValue(s) \in Nat /\ \A i \in DOMAIN s : s[i].value <= TotalValue(s)
<1> DEFINE f == [i \in DOMAIN s |-> s[i].value]
<1>1. \A i \in DOMAIN s : f[i] \in Nat /\ f[i] = s[i].value
  OBVIOUS
<1>2. TotalValue(s) = SumFunctionOnSet(f, DOMAIN s)
  BY DEF TotalValue, SumFunction
<1>3. IsFiniteSet(DOMAIN s)
  BY DomainsAreFinite
<1>. HIDE DEF f
<1>. QED  BY <1>1, <1>2, <1>3, SumBounds

\* A plan for Max or a consolidation spends exactly its coins (txbuild.js planMaxSpend).
LEMMA PlanMaxIs ==
  ASSUME ChainOK(chain), NEW ks, ks \subseteq Keys, NEW coins, coins \subseteq UtxosOf(ks),
         \A c \in coins : c.value > 0, NEW r, NEW plan \in PlanMaxSpend(coins, r)
  PROVE  PlanOK(chain, plan, r)
<1> DEFINE ins == SetToSeq(coins)
           fee == MaxSpendFee(ins, r)
<1>1. /\ ~(coins = {} \/ TotalValue(ins) <= fee)
      /\ plan = [inputs |-> ins, amount |-> TotalValue(ins) - fee, fee |-> fee]
  BY DEF PlanMaxSpend
<1>2. IsFiniteSet(coins)
  BY ReadsAreFinite, FS_Subset
<1>3. IsSeq(ins) /\ \A i \in DOMAIN ins : ins[i] \in coins
  BY <1>2, AllIsASequence
<1>. HIDE DEF ins
<1>4. \A i \in DOMAIN ins : CoinReal(chain, ins[i]) /\ ins[i].value \in Nat /\ ins[i].value > 0
  BY <1>3, CoinsAreReal, CoinValue
<1>5. TotalValue(ins) \in Nat
  BY <1>3, <1>4, TotalIs
<1>6. fee \in Nat
  <2>1. InputsWeight(ins) + OutputWeight(r) \in Nat
    BY <1>3, WeightIs, OutputWeightIs
  <2>. QED  BY <2>1, FeeGrows DEF MaxSpendFee
<1>7. plan.inputs = ins /\ plan.amount = TotalValue(ins) - fee /\ plan.fee = fee
  BY <1>1
<1>8. plan.amount \in Nat /\ TotalValue(ins) = plan.amount + plan.fee
  <2>. HIDE DEF fee
  <2>. QED  BY <1>1, <1>5, <1>6, <1>7
<1>. QED  BY <1>3, <1>4, <1>6, <1>7, <1>8 DEF PlanOK

-----------------------------------------------------------------------------
(* What the network takes *)

\* The inputs say what the chain says.
Truthful(t) ==
  /\ t = [type |-> t.type, locktime |-> t.locktime, in |-> t.in, out |-> t.out]
  /\ IsSeq(t.in)
  /\ \A i \in DOMAIN t.in :
       t.in[i] = In(t.in[i].at, At(t.in[i].at).value, At(t.in[i].at).script, t.in[i].sequence)

\* What the network sees of a truthful transaction is what was signed.
LEMMA ActualIs == ASSUME NEW t, Truthful(t) PROVE Actual(t) = t
<1> DEFINE F == [i \in DOMAIN t.in |->
     In(t.in[i].at, At(t.in[i].at).value, At(t.in[i].at).script, t.in[i].sequence)]
<1>1. ASSUME NEW i \in DOMAIN t.in PROVE F[i] = t.in[i]
  BY DEF Truthful
<1>2. F = t.in
  <2>1. t.in = [i \in DOMAIN t.in |-> t.in[i]]
    BY DEF Truthful, IsSeq
  <2>2. DOMAIN F = DOMAIN t.in /\ F = [i \in DOMAIN t.in |-> F[i]]
    OBVIOUS
  <2>. HIDE DEF F
  <2>. QED  BY <1>1, <2>1, <2>2
<1>3. Actual(t) = [t EXCEPT !.in = F]
  BY DEF Actual
<1>. HIDE DEF F
<1>4. Actual(t) = [t EXCEPT !.in = t.in]
  BY <1>2, <1>3
<1>5. t = [type |-> t.type, locktime |-> t.locktime, in |-> t.in, out |-> t.out]
  BY DEF Truthful
<1>. QED  BY <1>4, <1>5

\* A coin's own key signs its leg, whichever its form.
LEMMA LegSigned ==
  ASSUME NEW tx, NEW i, Truthful(tx.body), NEW u, u.type \in {"p2tr", "p2wpkh"},
         tx.body.in[i].script = DgbLegScript(u), tx.sigs[i] = SignDgbLeg(u, tx.body, i)
  PROVE  SignedFor(tx, i)
<1>1. Actual(tx.body) = tx.body
  BY ActualIs
<1> DEFINE t == tx.body
           sig == tx.sigs[i]
           s == t.in[i].script
<1>2. CASE u.type = "p2wpkh"
  <2>1. s.kind = "p2wpkh" /\ s.key = u.key
    BY <1>2 DEF DgbLegScript, P2wpkh
  <2>2. sig = [alg |-> "ecdsa", key |-> u.key, tweaked |-> FALSE, msg |-> Bip143Sighash(t, i)]
    BY <1>2 DEF SignDgbLeg
  <2>3. sig.key = u.key /\ sig.alg = "ecdsa" /\ sig.msg = Bip143Sighash(t, i)
    BY <2>2
  <2>. HIDE DEF t, sig, s
  <2>. QED  BY <1>1, <2>1, <2>3 DEF SignedFor, t, sig, s
<1>3. CASE u.type = "p2tr"
  <2>1. s.kind = "p2tr" /\ s.key = u.key
    BY <1>3 DEF DgbLegScript, P2tr
  <2>2. sig = [alg |-> "schnorr", key |-> u.key, tweaked |-> TRUE,
               msg |-> TaprootSighash(t, i, NoLeaf)]
    BY <1>3 DEF SignDgbLeg, KeyPathSig
  <2>3. sig.key = u.key /\ sig.alg = "schnorr" /\ sig.tweaked /\ sig.msg = TaprootSighash(t, i, NoLeaf)
    BY <2>2
  <2>. HIDE DEF t, sig, s
  <2>. QED  BY <1>1, <2>1, <2>3 DEF SignedFor, t, sig, s
<1>. QED  BY <1>2, <1>3

\* A token's leg is signed by its own key.
LEMMA KeySigned ==
  ASSUME NEW tx, NEW i, Truthful(tx.body), NEW k,
         tx.body.in[i].script = P2tr(k), tx.sigs[i] = KeyPathSig(k, tx.body, i)
  PROVE  SignedFor(tx, i)
<1> DEFINE u == [type |-> "p2tr", key |-> k]
<1>1. u.type = "p2tr" /\ u.key = k
  OBVIOUS
<1>2. DgbLegScript(u) = P2tr(k) /\ SignDgbLeg(u, tx.body, i) = KeyPathSig(k, tx.body, i)
  <2>. HIDE DEF u
  <2>. QED  BY <1>1 DEF DgbLegScript, SignDgbLeg
<1>. HIDE DEF u
<1>3. /\ Truthful(tx.body) /\ u.type \in {"p2tr", "p2wpkh"}
      /\ tx.body.in[i].script = DgbLegScript(u) /\ tx.sigs[i] = SignDgbLeg(u, tx.body, i)
  BY <1>1, <1>2
<1>. QED  BY <1>3, LegSigned

\* A total with one or two terms that count.
LEMMA TotalOfOne ==
  ASSUME NEW s, IsSeq(s), NEW i \in DOMAIN s, \A j \in DOMAIN s : s[j].value \in Int,
         \A j \in DOMAIN s : j # i => s[j].value = 0
  PROVE  TotalValue(s) = s[i].value
<1> DEFINE f == [j \in DOMAIN s |-> s[j].value]
<1>1. IsFiniteSet(DOMAIN s) /\ {i} \subseteq DOMAIN s
  BY DomainsAreFinite
<1>2. (\A j \in DOMAIN s : f[j] \in Int) /\ (\A j \in DOMAIN s \ {i} : f[j] = 0) /\ f[i] = s[i].value
  OBVIOUS
<1>3. TotalValue(s) = SumFunctionOnSet(f, DOMAIN s)
  BY DEF TotalValue, SumFunction
<1>. HIDE DEF f
<1>4. SumFunctionOnSet(f, DOMAIN s) = SumFunctionOnSet(f, {i})
  BY <1>1, <1>2, SumSupport
<1>5. f[i] \in Int
  BY <1>2
<1>. QED  BY <1>2, <1>3, <1>4, <1>5, SumOne

\* Two outputs of value make the total.
LEMMA TotalOfTwo ==
  ASSUME NEW s, IsSeq(s), NEW i \in DOMAIN s, NEW k \in DOMAIN s, i # k,
         \A j \in DOMAIN s : s[j].value \in Int,
         \A j \in DOMAIN s : j # i /\ j # k => s[j].value = 0
  PROVE  TotalValue(s) = s[i].value + s[k].value
<1> DEFINE f == [j \in DOMAIN s |-> s[j].value]
<1>1. IsFiniteSet(DOMAIN s) /\ {i, k} \subseteq DOMAIN s
  BY DomainsAreFinite
<1>2. (\A j \in DOMAIN s : f[j] \in Int) /\ (\A j \in DOMAIN s \ {i, k} : f[j] = 0)
      /\ f[i] = s[i].value /\ f[k] = s[k].value
  OBVIOUS
<1>3. TotalValue(s) = SumFunctionOnSet(f, DOMAIN s)
  BY DEF TotalValue, SumFunction
<1>. HIDE DEF f
<1>4. SumFunctionOnSet(f, DOMAIN s) = SumFunctionOnSet(f, {i, k})
  BY <1>1, <1>2, SumSupport
<1>5. f[i] \in Int /\ f[k] \in Int
  BY <1>2
<1>. QED  BY <1>2, <1>3, <1>4, <1>5, SumTwo

\* A plain spend of coins that are there is taken.
SpendBodyIs(t, plan, r, changeScript) ==
  /\ t.type = "dgb" /\ Truthful(t)
  /\ DOMAIN t.in = DOMAIN plan.inputs /\ Len(t.in) = Len(plan.inputs)
  /\ \A i \in DOMAIN t.in :
       /\ t.in[i].at = plan.inputs[i].at /\ t.in[i].value = plan.inputs[i].value
       /\ t.in[i].script = DgbLegScript(plan.inputs[i])
  /\ SpendParts(t.out, plan.amount, r, TotalValue(plan.inputs) - plan.amount - plan.fee, changeScript)

\* The script signed for a coin is that of its output.
LEMMA LegScriptIs ==
  ASSUME ChainOK(chain), NEW u, CoinReal(chain, u)
  PROVE  /\ DgbLegScript(u) = At(u.at).script /\ At(u.at).value = u.value /\ u.value \in Nat
         /\ At(u.at).script.kind = u.type /\ u.type \in {"p2tr", "p2wpkh"}
BY CoinValue DEF DgbLegScript, CoinReal

\* The numbers of a plan are naturals and leave change that is not negative.
LEMMA PlanTotals ==
  ASSUME ChainOK(chain), NEW plan, NEW r, PlanOK(chain, plan, r)
  PROVE  /\ IsSeq(plan.inputs)
         /\ \A i \in DOMAIN plan.inputs :
              CoinReal(chain, plan.inputs[i]) /\ plan.inputs[i].value \in Nat
         /\ plan.amount \in Nat /\ plan.fee \in Nat /\ TotalValue(plan.inputs) \in Nat
         /\ TotalValue(plan.inputs) - plan.amount - plan.fee \in Nat
<1>1. IsSeq(plan.inputs) /\ plan.amount \in Nat /\ plan.fee \in Nat
      /\ TotalValue(plan.inputs) >= plan.amount + plan.fee
      /\ \A i \in DOMAIN plan.inputs : CoinReal(chain, plan.inputs[i])
  <2>1. plan.amount + plan.fee \in Nat
    BY DEF PlanOK
  <2>. QED  BY <2>1 DEF PlanOK
<1>2. \A i \in DOMAIN plan.inputs : plan.inputs[i].value \in Nat
  BY <1>1, CoinValue
<1>3. TotalValue(plan.inputs) \in Nat
  BY <1>1, <1>2, TotalIs
<1>. QED  BY <1>1, <1>2, <1>3

\* What a plain spend is made of.
LEMMA SpendTxBody ==
  ASSUME ChainOK(chain), NEW plan, NEW r, PlanOK(chain, plan, r), NEW cs
  PROVE  /\ SpendBodyIs(SpendTx(plan, r, cs).body, plan, r, cs)
         /\ \A i \in DOMAIN plan.inputs :
              SpendTx(plan, r, cs).sigs[i] = SignDgbLeg(plan.inputs[i], SpendTx(plan, r, cs).body, i)
<1> DEFINE ins == [i \in DOMAIN plan.inputs |->
                      In(plan.inputs[i].at, plan.inputs[i].value,
                         DgbLegScript(plan.inputs[i]), "rbf")]
           change == TotalValue(plan.inputs) - plan.amount - plan.fee
           outs == <<Out(plan.amount, r)>> \o OutIfPositive(FoldChange(change), cs)
           t == [type |-> "dgb", locktime |-> 0, in |-> ins, out |-> outs]
<1>1. SpendTx(plan, r, cs) =
        [body |-> t, sigs |-> [i \in DOMAIN t.in |-> SignDgbLeg(plan.inputs[i], t, i)]]
  BY DEF SpendTx
<1>2. DOMAIN t.in = DOMAIN plan.inputs /\ t.in = ins /\ t.out = outs /\ t.type = "dgb"
  OBVIOUS
<1>3. /\ SpendTx(plan, r, cs).body = t
      /\ \A i \in DOMAIN plan.inputs : SpendTx(plan, r, cs).sigs[i] = SignDgbLeg(plan.inputs[i], t, i)
  <2>. HIDE DEF t
  <2>. QED  BY <1>1, <1>2
<1>4. /\ IsSeq(plan.inputs) /\ \A i \in DOMAIN plan.inputs : CoinReal(chain, plan.inputs[i])
      /\ change \in Int
  BY PlanTotals
<1>5. IsSeq(ins) /\ Len(ins) = Len(plan.inputs)
  <2>1. Len(plan.inputs) \in Nat /\ DOMAIN ins = 1 .. Len(plan.inputs)
        /\ ins = [i \in 1 .. Len(plan.inputs) |-> ins[i]]
    BY <1>4 DEF IsSeq
  <2>. HIDE DEF ins
  <2>. QED  BY <2>1, Table
<1>6. \A i \in DOMAIN plan.inputs :
        /\ ins[i].at = plan.inputs[i].at /\ ins[i].value = plan.inputs[i].value
        /\ ins[i].script = DgbLegScript(plan.inputs[i]) /\ ins[i].sequence = "rbf"
        /\ ins[i] = In(plan.inputs[i].at, plan.inputs[i].value, DgbLegScript(plan.inputs[i]), "rbf")
  BY DEF In
<1>. HIDE DEF ins, outs
<1>7. Truthful(t)
  <2>1. \A i \in DOMAIN plan.inputs :
          ins[i] = In(ins[i].at, At(ins[i].at).value, At(ins[i].at).script, ins[i].sequence)
    BY <1>4, <1>6, LegScriptIs
  <2>. QED  BY <1>2, <1>5, <2>1 DEF Truthful
<1>8. SpendParts(outs, plan.amount, r, change, cs)
  <2>. HIDE DEF change
  <2>. QED  BY <1>4, SpendOutputsAre DEF outs
<1>9. SpendBodyIs(t, plan, r, cs)
  <2>. HIDE DEF t
  <2>. QED  BY <1>2, <1>5, <1>6, <1>7, <1>8 DEF SpendBodyIs
<1>. HIDE DEF t
<1>. QED  BY <1>3, <1>9

\* A plain spend pays the fee of its own weight, with or without change.
LEMMA SpendFeePaid ==
  ASSUME ChainOK(chain), NEW plan, NEW r, PlanOK(chain, plan, r), NEW k,
         NEW t, SpendBodyIs(t, plan, r, P2tr(k))
  PROVE  FeeOf(t) >= FeeFor(ActualWeight(t))
<1> DEFINE ins == plan.inputs
           total == TotalValue(ins)
           change == total - plan.amount - plan.fee
           fold == FoldChange(change)
           o == t.out
<1>1. /\ IsSeq(ins) /\ \A i \in DOMAIN ins : CoinReal(chain, ins[i]) /\ ins[i].value \in Nat
      /\ plan.amount \in Nat /\ plan.fee \in Nat /\ total \in Nat /\ change \in Nat
  BY PlanTotals
<1>2. fold \in Nat /\ (fold = 0 \/ fold = change)
  BY <1>1, FoldIs
<1>3. /\ IsSeq(o) /\ Len(o) = (IF fold = 0 THEN 1 ELSE 2)
      /\ o[1] = Out(plan.amount, r) /\ (fold # 0 => o[2] = Out(fold, P2tr(k)))
  BY DEF SpendBodyIs, SpendParts
<1>4. /\ Truthful(t) /\ DOMAIN t.in = DOMAIN ins /\ Len(t.in) = Len(ins)
      /\ \A i \in DOMAIN t.in : t.in[i].at = ins[i].at /\ t.in[i].value = ins[i].value
  BY DEF SpendBodyIs
<1>5. TotalValue(t.in) = total
  <2>1. [i \in DOMAIN t.in |-> t.in[i].value] = [i \in DOMAIN ins |-> ins[i].value]
    BY <1>4
  <2>. QED  BY <2>1 DEF TotalValue
<1> DEFINE in == SumFunction([i \in DOMAIN ins |-> InputWeight(ins[i].type)])
           out == SumFunction([i \in DOMAIN t.out |-> OutputWeight(t.out[i].script)])
<1>6. ActualWeight(t) = InputsWeight(ins) + out
  <2>1. [i \in DOMAIN t.in |-> InputWeight(At(t.in[i].at).script.kind)]
          = [i \in DOMAIN ins |-> InputWeight(ins[i].type)]
    BY <1>1, <1>4, LegScriptIs
  <2>. QED  BY <1>4, <2>1 DEF ActualWeight, InputsWeight
<1>7. DOMAIN o = 1 .. Len(o)
  BY <1>3 DEF IsSeq
<1>8. OutputWeight(P2tr(k)) = P2trOutputWu /\ P2trOutputWu = 172
  BY KeyScripts DEF OutputWeight, ScriptBytes, P2trOutputWu
<1>9. InputsWeight(ins) \in Nat /\ OutputWeight(r) \in Nat
  BY <1>1, WeightIs, OutputWeightIs
<1> DEFINE w == [i \in DOMAIN o |-> OutputWeight(o[i].script)]
           base == InputsWeight(ins) + OutputWeight(r)
<1>10. out = SumFunctionOnSet(w, DOMAIN o)
  BY DEF SumFunction
<1>11. FeeOf(t) = total - TotalValue(o)
  <2>1. Actual(t) = t
    BY <1>4, ActualIs
  <2>. QED  BY <1>5, <2>1 DEF FeeOf
<1>12. CASE fold = 0
  <2>1. DOMAIN o = {1} /\ o[1].value = plan.amount /\ o[1].script = r
    BY <1>3, <1>7, <1>12 DEF Out
  <2>2. TotalValue(o) = plan.amount
    <3>1. 1 \in DOMAIN o /\ (\A j \in DOMAIN o : o[j].value \in Int)
          /\ \A j \in DOMAIN o : j # 1 => o[j].value = 0
      BY <1>1, <2>1
    <3>. HIDE DEF o
    <3>. QED  BY <1>3, <2>1, <3>1, TotalOfOne
  <2>3. out = OutputWeight(r)
    <3>1. w[1] = OutputWeight(r) /\ w[1] \in Int
      BY <1>9, <2>1
    <3>. HIDE DEF w, o, out
    <3>2. SumFunctionOnSet(w, {1}) = w[1]
      BY <3>1, SumOne
    <3>. QED  BY <1>10, <2>1, <3>1, <3>2
  <2>4. ActualWeight(t) = base
    BY <1>6, <2>3
  <2>5. plan.fee >= FeeFor(base)
    <3>1. base \in Nat /\ base + P2trOutputWu \in Nat
      BY <1>8, <1>9
    <3>2. FeeFor(base) \in Nat /\ FeeFor(base) <= FeeFor(base + P2trOutputWu)
          /\ FeeFor(base + P2trOutputWu) \in Nat
      <4>. HIDE DEF base
      <4>1. base <= base + P2trOutputWu
        BY <1>8, <3>1
      <4>. QED  BY <3>1, <4>1, FeeGrows
    <3>3. plan.fee \in {FeeFor(base), FeeFor(base + P2trOutputWu)}
      BY DEF PlanOK, SpendFee, MaxSpendFee
    <3>. HIDE DEF base
    <3>. QED  BY <3>2, <3>3
  <2>6. FeeOf(t) >= plan.fee
    <3>1. FeeOf(t) = total - plan.amount
      BY <1>11, <2>2
    <3>. HIDE DEF total, o
    <3>. QED  BY <1>1, <3>1
  <2>7. FeeOf(t) \in Int /\ FeeFor(base) \in Int
    <3>1. base \in Nat
      BY <1>9
    <3>. HIDE DEF base
    <3>. QED  BY <1>1, <1>11, <2>2, <3>1, FeeGrows
  <2>. HIDE DEF base
  <2>. QED  BY <1>1, <2>4, <2>5, <2>6, <2>7
<1>13. CASE fold # 0
  <2>1. /\ DOMAIN o = {1, 2} /\ o[1].value = plan.amount /\ o[1].script = r
        /\ o[2].value = fold /\ o[2].script = P2tr(k)
    BY <1>3, <1>7, <1>13 DEF Out
  <2>2. TotalValue(o) = plan.amount + fold
    <3>1. 1 \in DOMAIN o /\ 2 \in DOMAIN o /\ (\A j \in DOMAIN o : o[j].value \in Int)
          /\ \A j \in DOMAIN o : j # 1 /\ j # 2 => o[j].value = 0
      BY <1>1, <1>2, <2>1
    <3>. HIDE DEF o, fold
    <3>2. TotalValue(o) = o[1].value + o[2].value
      BY <1>3, <3>1, TotalOfTwo
    <3>. QED  BY <2>1, <3>2
  <2>3. out = OutputWeight(r) + P2trOutputWu
    <3>1. w[1] = OutputWeight(r) /\ w[2] = P2trOutputWu /\ w[1] \in Int /\ w[2] \in Int
      BY <1>8, <1>9, <2>1
    <3>. HIDE DEF w, o, out
    <3>2. SumFunctionOnSet(w, {1, 2}) = w[1] + w[2]
      BY <3>1, SumTwo
    <3>. QED  BY <1>10, <2>1, <3>1, <3>2
  <2>4. ActualWeight(t) = base + P2trOutputWu
    <3>1. ActualWeight(t) = InputsWeight(ins) + (OutputWeight(r) + P2trOutputWu)
      BY <1>6, <2>3
    <3>. QED  BY <1>8, <1>9, <3>1
  <2>5. fold = change /\ change # 0
    BY <1>2, <1>13
  <2>6. plan.fee = FeeFor(base + P2trOutputWu)
    <3>1. plan.fee = SpendFee(ins, r)
      <4>1. ~(total = plan.amount + plan.fee)
        BY <1>1, <2>5
      <4>. QED  BY <4>1 DEF PlanOK
    <3>. QED  BY <3>1 DEF SpendFee
  <2>7. FeeOf(t) = plan.fee
    <3>1. FeeOf(t) = total - (plan.amount + change)
      BY <1>11, <2>2, <2>5
    <3>2. change = total - plan.amount - plan.fee
      OBVIOUS
    <3>. HIDE DEF total, change, o
    <3>. QED  BY <1>1, <3>1, <3>2
  <2>. QED  BY <1>1, <2>4, <2>6, <2>7
<1>. QED  BY <1>12, <1>13

\* Whatever plan is signed, the network takes it.
LEMMA SpendValid ==
  ASSUME ChainOK(chain), NEW plan, NEW r, PlanOK(chain, plan, r), Plain(r), NEW k
  PROVE  Valid(SpendTx(plan, r, P2tr(k)))
<1> DEFINE tx == SpendTx(plan, r, P2tr(k))
           t == tx.body
<1>1. /\ SpendBodyIs(t, plan, r, P2tr(k))
      /\ \A i \in DOMAIN plan.inputs : tx.sigs[i] = SignDgbLeg(plan.inputs[i], t, i)
  BY SpendTxBody
<1>2. IsSeq(plan.inputs) /\ (\A i \in DOMAIN plan.inputs : CoinReal(chain, plan.inputs[i]))
      /\ TotalValue(plan.inputs) - plan.amount - plan.fee \in Nat
  BY PlanTotals
<1>. HIDE DEF tx
<1>3. /\ t.type = "dgb" /\ Truthful(t) /\ DOMAIN t.in = DOMAIN plan.inputs
      /\ \A i \in DOMAIN t.in : t.in[i].script = DgbLegScript(plan.inputs[i])
  BY <1>1 DEF SpendBodyIs
<1>4. \A i \in DOMAIN t.in : SignedFor(tx, i)
  <2>. SUFFICES ASSUME NEW i \in DOMAIN t.in PROVE SignedFor(tx, i)
    OBVIOUS
  <2> DEFINE u == plan.inputs[i]
  <2>1. /\ Truthful(tx.body) /\ u.type \in {"p2tr", "p2wpkh"}
        /\ tx.body.in[i].script = DgbLegScript(u) /\ tx.sigs[i] = SignDgbLeg(u, tx.body, i)
    BY <1>1, <1>2, <1>3 DEF CoinReal
  <2>. QED  BY <2>1, LegSigned
<1>5. NoDust(t)
  <2> DEFINE change == TotalValue(plan.inputs) - plan.amount - plan.fee
             fold == FoldChange(change)
  <2>1. /\ IsSeq(t.out) /\ Len(t.out) = (IF fold = 0 THEN 1 ELSE 2)
        /\ fold # 0 => t.out[2] = Out(fold, P2tr(k))
    BY <1>1 DEF SpendBodyIs, SpendParts
  <2>2. fold \in Nat /\ (fold = 0 \/ fold >= Fold) /\ Fold \in Nat
    BY <1>2, FoldIs, TxNumbers
  <2>3. \A n \in DOMAIN t.out : n = 1 \/ (n = 2 /\ fold # 0)
    BY <2>1 DEF IsSeq
  <2>4. fold # 0 => t.out[2].value = fold
    BY <2>1 DEF Out
  <2>. HIDE DEF fold
  <2>. QED  BY <1>3, <2>2, <2>3, <2>4 DEF NoDust
<1>6. FeeOf(t) >= FeeFor(ActualWeight(t))
  BY <1>1, SpendFeePaid
<1>. HIDE DEF t
<1>. QED  BY <1>3, <1>4, <1>5, <1>6 DEF Valid, t, tx

\* Rounded-up quotients, lock tiers and collaterals are naturals.
LEMMA CeilDivType ==
  ASSUME NEW n \in Nat, NEW d \in Nat \ {0}
  PROVE  CeilDiv(n, d) \in Nat
<1>1. n + d - 1 \in Nat
  OBVIOUS
<1>2. \A m \in Nat : m \div d \in Nat
  OBVIOUS
<1>. QED  BY <1>1, <1>2 DEF CeilDiv

LEMMA TierIs ==
  ASSUME NEW tier \in DOMAIN LockTiers
  PROVE  LockTiers[tier].lockBlocks \in Nat /\ LockTiers[tier].ratioPercent \in Nat \ {0}
<1>1. LockTiers \in Seq([lockBlocks: Nat, ratioPercent: Nat \ {0}])
  BY TxConstants
<1>2. LockTiers[tier] \in [lockBlocks: Nat, ratioPercent: Nat \ {0}]
  BY <1>1, InSeq
<1>. QED  BY <1>2

LEMMA CollateralType ==
  ASSUME NEW cents, NEW tier, NEW price, NEW bps, Collateralised(cents, tier, price, bps)
  PROVE  RequiredCollateral(cents, tier, price, bps) \in Nat
<1>1. /\ cents \in Nat /\ tier \in DOMAIN LockTiers /\ price \in Nat \ {0} /\ bps \in Nat
      /\ Coin \in Nat /\ BpsScale \in Nat \ {0} /\ LockTiers[tier].ratioPercent \in Nat
  BY TierIs, TxConstants DEF Collateralised
<1> DEFINE ratio == EffectiveRatioPercent(LockTiers[tier].ratioPercent, bps)
<1>2. ratio \in Nat
  <2>1. LockTiers[tier].ratioPercent * bps \in Nat
    BY <1>1
  <2>. QED  BY <1>1, <2>1, CeilDivType DEF EffectiveRatioPercent
<1>. HIDE DEF ratio
<1>3. BaseCollateral(cents, ratio, price) \in Nat
  <2>1. cents * Coin * ratio * 100 \in Nat
    BY <1>1, <1>2
  <2>. QED  BY <1>1, <2>1, CeilDivType DEF BaseCollateral
<1> DEFINE b == BaseCollateral(cents, ratio, price)
<1>4. RequiredCollateral(cents, tier, price, bps) = (b * 101) \div 100
  BY DEF RequiredCollateral, ratio
<1>5. b \in Nat
  BY <1>3
<1>. HIDE DEF b
<1>. QED  BY <1>4, <1>5

\* A mint as the wallet builds it.
MintBodyIs(t, u, cents, tier, lock, value, change) ==
  /\ t.type = "mint" /\ Truthful(t)
  /\ DOMAIN t.in = {1} /\ Len(t.in) = 1 /\ t.in[1].at = u.at /\ t.in[1].value = u.value
  /\ t.in[1].script = DgbLegScript(u)
  /\ value \in Nat /\ value >= Fold /\ change \in Nat /\ lock \in Nat
  /\ u.value = value + FlowFee + change
  /\ t.out = MintOutputs(u.key, cents, tier, lock, value, FoldChange(change))

\* A position unlocks later than its tier asks (constants.js, the confirmation buffer).
LEMMA UnlockIs ==
  ASSUME NEW h \in Nat, NEW tier \in DOMAIN LockTiers
  PROVE  UnlockHeight(h, tier) \in Nat /\ UnlockHeight(h, tier) > h + LockTiers[tier].lockBlocks
<1>1. LockTiers[tier].lockBlocks \in Nat /\ Buffer \in Nat
  BY TierIs, TxConstants
<1>. QED  BY <1>1 DEF UnlockHeight

\* What a mint is made of.
LEMMA MintTxBody ==
  ASSUME ChainOK(chain), NEW u, CoinReal(chain, u), NEW h \in Nat,
         NEW cents, NEW tier, NEW price, NEW bps, Collateralised(cents, tier, price, bps),
         CanMint(u, cents, tier, price, bps, FlowFee)
  PROVE  LET tx == MintTx(u, cents, tier, price, bps, h, FlowFee)
             value == RequiredCollateral(cents, tier, price, bps)
         IN  /\ MintBodyIs(tx.body, u, cents, tier, UnlockHeight(h, tier), value,
                           u.value - value - FlowFee)
             /\ tx.sigs[1] = SignDgbLeg(u, tx.body, 1)
<1> DEFINE tx == MintTx(u, cents, tier, price, bps, h, FlowFee)
           value == RequiredCollateral(cents, tier, price, bps)
           ins == <<In(u.at, u.value, DgbLegScript(u), "rbf")>>
           lock == UnlockHeight(h, tier)
           change == u.value - value - FlowFee
           outs == MintOutputs(u.key, cents, tier, lock, value, FoldChange(change))
           t == [type |-> "mint", locktime |-> 0, in |-> ins, out |-> outs]
<1>1. tx = [body |-> t, sigs |-> <<SignDgbLeg(u, t, 1)>>]
  BY DEF MintTx
<1>2. tx.body = t /\ tx.sigs[1] = SignDgbLeg(u, t, 1)
  <2>. HIDE DEF t
  <2>. QED  BY <1>1
<1>3. t.type = "mint" /\ t.in = ins /\ t.out = outs
  OBVIOUS
<1>4. value \in Nat /\ value >= Fold /\ tier \in DOMAIN LockTiers
  BY CollateralType DEF Collateralised
<1>5. /\ DgbLegScript(u) = At(u.at).script /\ At(u.at).value = u.value /\ u.value \in Nat
  BY LegScriptIs
<1>6. change \in Nat /\ u.value = value + FlowFee + change
  <2>1. u.value >= value + FlowFee
    BY DEF CanMint
  <2>. HIDE DEF value
  <2>. QED  BY <1>4, <1>5, <2>1, TxNumbers
<1>7. lock \in Nat
  BY <1>4, UnlockIs
<1>8. /\ IsSeq(ins) /\ DOMAIN ins = {1} /\ Len(ins) = 1
      /\ ins[1] = In(u.at, u.value, DgbLegScript(u), "rbf")
  BY Tuples
<1>. HIDE DEF ins, outs
<1>9. ins[1].at = u.at /\ ins[1].value = u.value /\ ins[1].script = DgbLegScript(u)
      /\ ins[1].sequence = "rbf"
  BY <1>8 DEF In
<1>10. Truthful(t)
  <2>1. \A i \in DOMAIN ins :
          ins[i] = In(ins[i].at, At(ins[i].at).value, At(ins[i].at).script, ins[i].sequence)
    BY <1>5, <1>8, <1>9
  <2>. QED  BY <1>3, <1>8, <2>1 DEF Truthful
<1>11. MintBodyIs(t, u, cents, tier, lock, value, change)
  <2>1. t.out = MintOutputs(u.key, cents, tier, lock, value, FoldChange(change))
    BY <1>3 DEF outs
  <2>. HIDE DEF t, value, change, lock
  <2>. QED  BY <1>3, <1>4, <1>6, <1>7, <1>8, <1>9, <1>10, <2>1 DEF MintBodyIs
<1>. HIDE DEF t, lock, change
<1>. QED  BY <1>2, <1>11 DEF lock, change

\* A mint built on a coin that covers it is one the network takes.
LEMMA MintValid ==
  ASSUME ChainOK(chain), tip \in Nat, NEW u, CoinReal(chain, u),
         NEW cents, NEW tier, NEW price, NEW bps, Collateralised(cents, tier, price, bps),
         MinMint <= cents, cents <= MaxMint, CanMint(u, cents, tier, price, bps, FlowFee)
  PROVE  Valid(MintTx(u, cents, tier, price, bps, tip, FlowFee))
<1> DEFINE tx == MintTx(u, cents, tier, price, bps, tip, FlowFee)
           t == tx.body
           o == t.out
           k == u.key
           value == RequiredCollateral(cents, tier, price, bps)
           lock == UnlockHeight(tip, tier)
           change == u.value - value - FlowFee
           fold == FoldChange(change)
<1>1. MintBodyIs(t, u, cents, tier, lock, value, change) /\ tx.sigs[1] = SignDgbLeg(u, t, 1)
  BY MintTxBody
<1>. HIDE DEF tx, value, change, lock
<1>2. /\ t.type = "mint" /\ Truthful(t) /\ DOMAIN t.in = {1}
      /\ t.in[1].at = u.at /\ t.in[1].value = u.value /\ t.in[1].script = DgbLegScript(u)
      /\ value \in Nat /\ value >= Fold /\ change \in Nat /\ lock \in Nat
      /\ u.value = value + FlowFee + change
      /\ o = MintOutputs(k, cents, tier, lock, value, fold)
  BY <1>1 DEF MintBodyIs
<1>3. fold \in Nat /\ fold <= change /\ (fold = 0 \/ fold >= Fold)
  BY <1>2, FoldIs
<1>. HIDE DEF fold
<1>4. /\ IsSeq(o) /\ Len(o) \in {3, 4}
      /\ o[1] = Out(value, Collateral(k, lock, cents)) /\ o[2] = Out(0, P2tr(k))
      /\ o[3] = Out(0, Metadata("mint", <<cents, lock, tier, k>>))
      /\ fold = 0 => Len(o) = 3
      /\ fold # 0 => Len(o) = 4
      /\ Len(o) = 4 => o[4] = Out(fold, P2wpkh(k)) /\ fold > 0
  BY <1>2, MintOutputsAre DEF fold
<1>5. /\ TxOK(t) /\ AmountsOf(t) = <<cents>> /\ DdVouts(t) = {2}
  <2>1. k \in Keys /\ cents \in Nat \ {0}
    BY DEF CoinReal, Collateralised
  <2>2. /\ t.type = "mint" /\ lock \in Nat /\ value \in Nat /\ value >= Fold /\ change \in Int
        /\ t.out = MintOutputs(k, cents, tier, lock, value, FoldChange(change))
    BY <1>2 DEF fold
  <2>. HIDE DEF t, k
  <2>. QED  BY <2>1, <2>2, MintTxIs
<1>. HIDE DEF t
<1>6. /\ o[1].value = value /\ o[1].script.kind = "collateral" /\ o[1].script.cents = cents
      /\ o[1].script.lock = lock
      /\ o[2].value = 0 /\ o[2].script.kind = "p2tr"
      /\ o[3].value = 0 /\ o[3].script.kind = "return" /\ o[3].script.pushes[3] = tier
      /\ Len(o) = 4 => o[4].value = fold /\ o[4].script.kind = "p2wpkh"
  <2>. HIDE DEF o
  <2>. QED  BY <1>4 DEF Out, Collateral, P2tr, Metadata, P2wpkh
<1>7. DOMAIN o = 1 .. Len(o) /\ {1, 2, 3} \subseteq DOMAIN o
      /\ \A n \in DOMAIN o : n \in {1, 2, 3} \/ (n = 4 /\ Len(o) = 4)
  BY <1>4 DEF IsSeq
<1>8. \A i \in DOMAIN t.in : SignedFor(tx, i)
  <2>1. /\ Truthful(tx.body) /\ u.type \in {"p2tr", "p2wpkh"}
        /\ tx.body.in[1].script = DgbLegScript(u) /\ tx.sigs[1] = SignDgbLeg(u, tx.body, 1)
    BY <1>1, <1>2 DEF CoinReal, t
  <2>. QED  BY <1>2, <2>1, LegSigned
<1>9. NoDust(t)
  <2>1. Fold \in Nat /\ Fold > 0
    BY TxNumbers
  <2>. QED  BY <1>2, <1>3, <1>4, <1>6, <1>7, <2>1 DEF NoDust
<1>10. FeeOf(t) >= MinFee
  <2>1. Actual(t) = t
    BY <1>2, ActualIs
  <2>2. TotalValue(t.in) = u.value
    <3>1. IsSeq(t.in) /\ u.value \in Int
      BY <1>2, LegScriptIs DEF Truthful
    <3>2. 1 \in DOMAIN t.in /\ (\A j \in DOMAIN t.in : t.in[j].value \in Int)
          /\ \A j \in DOMAIN t.in : j # 1 => t.in[j].value = 0
      BY <1>2, <3>1
    <3>. QED  BY <1>2, <3>1, <3>2, TotalOfOne
  <2>3. TotalValue(o) = value + fold
    <3>1. \A j \in DOMAIN o : o[j].value \in Int
      BY <1>2, <1>3, <1>6, <1>7
    <3>2. CASE fold = 0
      <4>1. 1 \in DOMAIN o /\ \A j \in DOMAIN o : j # 1 => o[j].value = 0
        BY <1>4, <1>6, <1>7, <3>2
      <4>. HIDE DEF o
      <4>2. TotalValue(o) = o[1].value
        BY <1>4, <3>1, <4>1, TotalOfOne
      <4>. QED  BY <1>2, <1>6, <3>2, <4>2
    <3>3. CASE fold # 0
      <4>1. 1 \in DOMAIN o /\ 4 \in DOMAIN o /\ \A j \in DOMAIN o : j # 1 /\ j # 4 => o[j].value = 0
        BY <1>4, <1>6, <1>7, <3>3
      <4>. HIDE DEF o
      <4>2. TotalValue(o) = o[1].value + o[4].value
        BY <1>4, <3>1, <4>1, TotalOfTwo
      <4>. QED  BY <1>4, <1>6, <3>3, <4>2
    <3>. QED  BY <3>2, <3>3
  <2>4. FeeOf(t) = u.value - (value + fold)
    BY <2>1, <2>2, <2>3 DEF FeeOf
  <2>. QED  BY <1>2, <1>3, <2>4, TxNumbers
<1>11. ValidMint(t)
  <2>1. {i \in DOMAIN o : o[i].value > 0 /\ o[i].script.kind \in {"collateral", "p2tr"}} = {1}
    <3>1. Fold \in Nat /\ Fold > 0
      BY TxNumbers
    <3>2. \A i \in DOMAIN o : (o[i].value > 0 /\ o[i].script.kind \in {"collateral", "p2tr"}) <=> i = 1
      BY <1>2, <1>6, <1>7, <3>1
    <3>. HIDE DEF o
    <3>. QED  BY <1>7, <3>2
  <2>2. Cardinality(DdVouts(t)) = 1
    BY <1>5, FS_Singleton
  <2>3. AmountsOf(t)[1] = cents
    BY <1>5, Tuples
  <2>4. lock > tip + LockTiers[tier].lockBlocks
    BY UnlockIs DEF Collateralised, lock
  <2>. QED  BY <1>6, <2>1, <2>2, <2>3, <2>4 DEF ValidMint
<1>. QED  BY <1>2, <1>8, <1>9, <1>10, <1>11 DEF Valid, t, tx

\* An outpoint that holds cents is worthless; a coin of value holds none.
LEMMA TokenAt ==
  ASSUME ChainOK(chain), NEW o, Holds(chain, o), IsToken(o)
  PROVE  At(o).value = 0 /\ At(o).script.kind = "p2tr" /\ CentsAt(o) \in Nat
<1>1. TxOK(chain[o[1]])
  BY DEF ChainOK, Holds
<1>. QED  BY <1>1 DEF TxOK, Tokens, IsToken, At, CentsAt

LEMMA PayersAreNoTokens ==
  ASSUME ChainOK(chain), NEW u, CoinReal(chain, u), u.value > 0
  PROVE  ~IsToken(u.at)
<1>1. Holds(chain, u.at) /\ At(u.at).value # 0
  BY LegScriptIs DEF CoinReal
<1>. QED  BY <1>1, TokenAt

\* The cents of one recipient.
LEMMA CentsOfOne == ASSUME NEW x, x.cents \in Int PROVE TotalCents(<<x>>) = x.cents
<1> DEFINE s == <<x>>
           f == [i \in DOMAIN s |-> s[i].cents]
<1>1. DOMAIN s = {1} /\ s[1] = x
  OBVIOUS
<1>2. f[1] = x.cents /\ DOMAIN f = {1}
  BY <1>1
<1>3. TotalCents(s) = SumFunctionOnSet(f, {1})
  BY <1>1 DEF TotalCents, SumFunction
<1>. HIDE DEF f
<1>. QED  BY <1>2, <1>3, SumOne

\* The recipient of a transfer and, if anything is left, its sender.
LEMMA PaidOut ==
  ASSUME NEW to, NEW cents \in Nat, NEW dd, dd.cents \in Nat, cents <= dd.cents
  PROVE  LET recipients == <<[key |-> to, cents |-> cents]>>
             dds == DdOutputs(recipients, DdChange(dd, recipients), dd.key)
             left == dd.cents - cents
         IN  /\ DdChange(dd, recipients) = left
             /\ IsSeq(dds) /\ Len(dds) = (IF left = 0 THEN 1 ELSE 2)
             /\ dds[1] = [key |-> to, cents |-> cents]
             /\ left # 0 => dds[2] = [key |-> dd.key, cents |-> left]
<1> DEFINE x == [key |-> to, cents |-> cents]
           recipients == <<x>>
           left == dd.cents - cents
           b == IF left > 0 THEN <<[key |-> dd.key, cents |-> left]>> ELSE <<>>
           dds == recipients \o b
<1>1. DdChange(dd, recipients) = left
  <2>1. x.cents = cents
    OBVIOUS
  <2>2. TotalCents(<<x>>) = x.cents
    <3>. HIDE DEF x
    <3>. QED  BY <2>1, CentsOfOne
  <2>. QED  BY <2>1, <2>2 DEF DdChange
<1>2. IsSeq(recipients) /\ Len(recipients) = 1 /\ recipients[1] = x
  <2>. HIDE DEF x
  <2>. QED  BY Tuples
<1>3. IsSeq(b) /\ Len(b) = (IF left = 0 THEN 0 ELSE 1)
      /\ (left # 0 => b[1] = [key |-> dd.key, cents |-> left])
  <2>1. left \in Nat
    OBVIOUS
  <2>. HIDE DEF left
  <2>. QED  BY <2>1, Tuples
<1>4. DdOutputs(recipients, left, dd.key) = dds
  BY DEF DdOutputs
<1>. HIDE DEF recipients, b
<1>5. /\ IsSeq(dds) /\ Len(dds) = Len(recipients) + Len(b)
      /\ \A i \in 1 .. Len(recipients) : dds[i] = recipients[i]
      /\ \A i \in 1 .. Len(b) : dds[Len(recipients) + i] = b[i]
  <2>1. IsSeq(recipients) /\ IsSeq(b)
    BY <1>2, <1>3
  <2>. QED  BY <2>1, Joined
<1>. HIDE DEF dds
<1>6. dds[1] = x /\ Len(dds) = 1 + Len(b) /\ (Len(b) = 1 => dds[1 + 1] = b[1])
  BY <1>2, <1>5
<1>7. /\ IsSeq(dds) /\ Len(dds) = (IF left = 0 THEN 1 ELSE 2) /\ dds[1] = x
      /\ left # 0 => dds[2] = [key |-> dd.key, cents |-> left]
  <2>. HIDE DEF left, x
  <2>. QED  BY <1>3, <1>5, <1>6
<1>8. DdOutputs(recipients, DdChange(dd, recipients), dd.key) = dds
  BY <1>1, <1>4
<1>. QED  BY <1>1, <1>7, <1>8 DEF recipients

\* What a transfer is made of.
TransferBodyIs(t, dd, u, dds, change) ==
  /\ t.type = "transfer" /\ Truthful(t) /\ DOMAIN t.in = {1, 2} /\ Len(t.in) = 2
  /\ t.in[1].at = dd.at /\ t.in[1].value = 0 /\ t.in[1].script = P2tr(dd.key)
  /\ t.in[2].at = u.at /\ t.in[2].value = u.value /\ t.in[2].script = DgbLegScript(u)
  /\ change \in Nat /\ u.value = FlowFee + change
  /\ t.out = TransferOutputs(dds, FoldChange(change), P2tr(dd.key))

LEMMA TransferTxBody ==
  ASSUME ChainOK(chain), NEW dd, DdReal(chain, dd), NEW u, PaysFlow(chain, u), NEW recipients
  PROVE  LET tx == TransferTx(dd, u, recipients, FlowFee, P2tr(dd.key))
             dds == DdOutputs(recipients, DdChange(dd, recipients), dd.key)
         IN  /\ TransferBodyIs(tx.body, dd, u, dds, u.value - FlowFee)
             /\ tx.sigs[1] = KeyPathSig(dd.key, tx.body, 1)
             /\ tx.sigs[2] = SignDgbLeg(u, tx.body, 2)
<1> DEFINE tx == TransferTx(dd, u, recipients, FlowFee, P2tr(dd.key))
           dds == DdOutputs(recipients, DdChange(dd, recipients), dd.key)
           change == u.value - FlowFee
           ins == <<In(dd.at, 0, P2tr(dd.key), "final"),
                    In(u.at, u.value, DgbLegScript(u), "final")>>
           outs == TransferOutputs(dds, FoldChange(change), P2tr(dd.key))
           t == TransferBody(dd, u, recipients, FlowFee, P2tr(dd.key))
<1>1. tx.body = t /\ tx.sigs[1] = KeyPathSig(dd.key, t, 1) /\ tx.sigs[2] = SignDgbLeg(u, t, 2)
  <2>1. tx = [body |-> t, sigs |-> <<KeyPathSig(dd.key, t, 1), SignDgbLeg(u, t, 2)>>]
    BY DEF TransferTx
  <2>. HIDE DEF t, tx
  <2>. QED  BY <2>1
<1>2. t = [type |-> "transfer", locktime |-> 0, in |-> ins, out |-> outs]
  BY DEF TransferBody
<1>3. t.type = "transfer" /\ t.in = ins /\ t.out = outs
  <2>. HIDE DEF ins, outs, t
  <2>. QED  BY <1>2
<1>4. /\ DgbLegScript(u) = At(u.at).script /\ At(u.at).value = u.value /\ u.value \in Nat
      /\ u.value >= FlowFee
  BY LegScriptIs DEF PaysFlow
<1>5. At(dd.at).value = 0 /\ At(dd.at).script = P2tr(dd.key)
  BY TokenIs
<1>6. change \in Nat /\ u.value = FlowFee + change
  BY <1>4, TxNumbers
<1>7. /\ IsSeq(ins) /\ DOMAIN ins = {1, 2} /\ Len(ins) = 2
      /\ ins[1] = In(dd.at, 0, P2tr(dd.key), "final")
      /\ ins[2] = In(u.at, u.value, DgbLegScript(u), "final")
  BY Tuples
<1>. HIDE DEF ins, outs, t, tx
<1>8. /\ ins[1].at = dd.at /\ ins[1].value = 0 /\ ins[1].script = P2tr(dd.key)
      /\ ins[1].sequence = "final"
      /\ ins[2].at = u.at /\ ins[2].value = u.value /\ ins[2].script = DgbLegScript(u)
      /\ ins[2].sequence = "final"
  BY <1>7 DEF In
<1>9. Truthful(t)
  <2>1. \A i \in DOMAIN ins :
          ins[i] = In(ins[i].at, At(ins[i].at).value, At(ins[i].at).script, ins[i].sequence)
    BY <1>4, <1>5, <1>7, <1>8
  <2>2. t.locktime = 0
    BY <1>2
  <2>. QED  BY <1>2, <1>3, <1>7, <2>1, <2>2 DEF Truthful
<1>10. t.out = TransferOutputs(dds, FoldChange(change), P2tr(dd.key))
  BY <1>3 DEF outs
<1>. HIDE DEF dds, change
<1>11. TransferBodyIs(t, dd, u, dds, change)
  BY <1>3, <1>6, <1>7, <1>8, <1>9, <1>10 DEF TransferBodyIs
<1>. QED  BY <1>1, <1>11 DEF tx, dds, change

\* What the tokens of a transfer hold, in and out.
LEMMA TransferCents ==
  ASSUME ChainOK(chain), NEW dd, DdReal(chain, dd), NEW u, PaysFlow(chain, u),
         NEW to \in Keys, NEW cents \in Nat, cents <= dd.cents,
         NEW t, NEW dds, NEW change, TransferBodyIs(t, dd, u, dds, change),
         IsSeq(dds), Len(dds) = (IF dd.cents - cents = 0 THEN 1 ELSE 2),
         dds[1] = [key |-> to, cents |-> cents],
         dd.cents - cents # 0 => dds[2] = [key |-> dd.key, cents |-> dd.cents - cents]
  PROVE  /\ DdIn(t) = dd.cents /\ DdOut(t) = dd.cents
         /\ TxOK(t) /\ AmountsOf(t) = [i \in DOMAIN dds |-> dds[i].cents]
         /\ DdVouts(t) = 1 .. Len(dds)
         /\ DdAmountsByVout(t) = [i \in 1 .. Len(dds) |-> dds[i].cents]
         /\ \A i \in 1 .. Len(dds) : i \in DOMAIN t.out /\ t.out[i] = Out(0, P2tr(dds[i].key))
<1> DEFINE left == dd.cents - cents
           n == Len(dds)
<1>1. dd.cents \in Nat /\ left \in Nat /\ dd.key \in Keys /\ IsToken(dd.at) /\ dd.cents = CentsAt(dd.at)
  BY TokenIs
<1>2. /\ dds[1].key = to /\ dds[1].cents = cents
      /\ left # 0 => dds[2].key = dd.key /\ dds[2].cents = left
  OBVIOUS
<1>3. n \in {1, 2} /\ (n = 2 <=> left # 0) /\ DOMAIN dds = 1 .. n
  BY DEF IsSeq
<1>. HIDE DEF left, n
<1>4. \A i \in DOMAIN dds : dds[i].key \in Keys /\ dds[i].cents \in Nat
  BY <1>1, <1>2, <1>3
<1>5. /\ TxOK(t) /\ AmountsOf(t) = [i \in DOMAIN dds |-> dds[i].cents]
      /\ DdVouts(t) = 1 .. Len(dds)
      /\ DdAmountsByVout(t) = [i \in 1 .. Len(dds) |-> dds[i].cents]
      /\ \A i \in 1 .. Len(dds) : i \in DOMAIN t.out /\ t.out[i] = Out(0, P2tr(dds[i].key))
  <2>1. t.type = "transfer" /\ change \in Int
        /\ t.out = TransferOutputs(dds, FoldChange(change), P2tr(dd.key))
    BY DEF TransferBodyIs
  <2>. QED  BY <1>4, <2>1, TransferTxIs
<1>6. DdIn(t) = dd.cents
  <2> DEFINE f == [i \in DOMAIN t.in |-> IF IsToken(t.in[i].at) THEN CentsAt(t.in[i].at) ELSE 0]
  <2>1. DOMAIN t.in = {1, 2} /\ t.in[1].at = dd.at /\ t.in[2].at = u.at
    BY DEF TransferBodyIs
  <2>2. ~IsToken(u.at)
    <3>1. CoinReal(chain, u) /\ u.value > 0
      BY TxNumbers, LegScriptIs DEF PaysFlow
    <3>. QED  BY <3>1, PayersAreNoTokens
  <2>3. f[1] = dd.cents /\ f[2] = 0
    BY <1>1, <2>1, <2>2
  <2>4. DdIn(t) = SumFunctionOnSet(f, {1, 2})
    BY <2>1 DEF DdIn, SumFunction
  <2>. HIDE DEF f
  <2>5. SumFunctionOnSet(f, {1, 2}) = f[1] + f[2]
    <3>1. 1 # 2 /\ f[1] \in Int /\ f[2] \in Int
      BY <1>1, <2>3
    <3>. QED  BY <3>1, SumTwo
  <2>. QED  BY <1>1, <2>3, <2>4, <2>5
<1>7. DdOut(t) = dd.cents
  <2> DEFINE f == [i \in 1 .. n |-> dds[i].cents]
  <2>1. DdOut(t) = SumFunctionOnSet(f, 1 .. n)
    BY <1>5 DEF DdOut, SumFunction, n
  <2>2. CASE left = 0
    <3>1. 1 .. n = {1} /\ f[1] = cents /\ cents = dd.cents
      <4>1. n = 1
        BY <1>3, <2>2
      <4>2. cents = dd.cents
        BY <1>1, <2>2 DEF left
      <4>. QED  BY <1>2, <4>1, <4>2
    <3>. HIDE DEF f
    <3>2. SumFunctionOnSet(f, {1}) = f[1]
      <4>1. f[1] \in Int
        BY <1>1, <3>1
      <4>. QED  BY <4>1, SumOne
    <3>. QED  BY <2>1, <3>1, <3>2
  <2>3. CASE left # 0
    <3>1. 1 .. n = {1, 2} /\ f[1] = cents /\ f[2] = left
      <4>1. n = 2
        BY <1>3, <2>3
      <4>. QED  BY <1>2, <2>3, <4>1
    <3>2. cents + left = dd.cents
      BY <1>1 DEF left
    <3>. HIDE DEF f
    <3>3. SumFunctionOnSet(f, {1, 2}) = f[1] + f[2]
      <4>1. 1 # 2 /\ f[1] \in Int /\ f[2] \in Int
        BY <1>1, <1>3, <3>1
      <4>. QED  BY <4>1, SumTwo
    <3>. QED  BY <2>1, <3>1, <3>2, <3>3
  <2>. QED  BY <2>2, <2>3
<1>. QED  BY <1>5, <1>6, <1>7

\* A transfer the builder allows is one the network takes.
LEMMA TransferValid ==
  ASSUME ChainOK(chain), NEW dd, DdReal(chain, dd), NEW u, PaysFlow(chain, u),
         NEW to \in Keys, NEW cents \in Nat,
         CanTransfer(dd, u, <<[key |-> to, cents |-> cents]>>, FlowFee)
  PROVE  Valid(TransferTx(dd, u, <<[key |-> to, cents |-> cents]>>, FlowFee, P2tr(dd.key)))
<1> DEFINE recipients == <<[key |-> to, cents |-> cents]>>
           tx == TransferTx(dd, u, recipients, FlowFee, P2tr(dd.key))
           t == tx.body
           dds == DdOutputs(recipients, DdChange(dd, recipients), dd.key)
           left == dd.cents - cents
           change == u.value - FlowFee
           fold == FoldChange(change)
<1>1. dd.cents \in Nat
  BY TokenIs
<1>2. cents <= dd.cents
  <2>1. DdChange(dd, recipients) = dd.cents - cents
    <3>1. TotalCents(recipients) = cents
      <4> DEFINE x == [key |-> to, cents |-> cents]
      <4>1. x.cents = cents
        OBVIOUS
      <4>2. TotalCents(<<x>>) = x.cents
        <5>. HIDE DEF x
        <5>. QED  BY <4>1, CentsOfOne
      <4>. QED  BY <4>1, <4>2
    <3>. QED  BY <3>1 DEF DdChange
  <2>2. DdChange(dd, recipients) >= 0
    BY DEF CanTransfer
  <2>. QED  BY <1>1, <2>1, <2>2
<1>3. /\ IsSeq(dds) /\ Len(dds) = (IF left = 0 THEN 1 ELSE 2)
      /\ dds[1] = [key |-> to, cents |-> cents]
      /\ left # 0 => dds[2] = [key |-> dd.key, cents |-> left]
  BY <1>1, <1>2, PaidOut
<1>4. /\ TransferBodyIs(t, dd, u, dds, change)
      /\ tx.sigs[1] = KeyPathSig(dd.key, t, 1) /\ tx.sigs[2] = SignDgbLeg(u, t, 2)
  BY TransferTxBody
<1>5. \A i \in DOMAIN dds : dds[i].cents >= MinOutput
  BY DEF CanTransfer, ToSet
<1>. HIDE DEF recipients, tx, dds
<1>6. /\ DdIn(t) = dd.cents /\ DdOut(t) = dd.cents
      /\ AmountsOf(t) = [i \in DOMAIN dds |-> dds[i].cents]
      /\ DdVouts(t) = 1 .. Len(dds)
      /\ \A i \in 1 .. Len(dds) : i \in DOMAIN t.out /\ t.out[i] = Out(0, P2tr(dds[i].key))
  <2>. HIDE DEF t, change
  <2>. QED  BY <1>2, <1>3, <1>4, TransferCents
<1>7. /\ t.type = "transfer" /\ Truthful(t) /\ DOMAIN t.in = {1, 2} /\ Len(t.in) = 2
      /\ t.in[1].at = dd.at /\ t.in[1].value = 0 /\ t.in[1].script = P2tr(dd.key)
      /\ t.in[2].at = u.at /\ t.in[2].value = u.value /\ t.in[2].script = DgbLegScript(u)
      /\ change \in Nat /\ u.value = FlowFee + change
      /\ t.out = TransferOutputs(dds, FoldChange(change), P2tr(dd.key))
  BY <1>4 DEF TransferBodyIs
<1>8. \A i \in DOMAIN t.in : SignedFor(tx, i)
  <2>1. SignedFor(tx, 1)
    BY <1>4, <1>7, KeySigned
  <2>2. SignedFor(tx, 2)
    <3>1. u.type \in {"p2tr", "p2wpkh"}
      BY DEF PaysFlow, CoinReal
    <3>. QED  BY <1>4, <1>7, <3>1, LegSigned
  <2>. QED  BY <1>7, <2>1, <2>2
<1> DEFINE m == Len(dds)
           o == t.out
<1>. HIDE DEF t, change
<1>9. PICK e \in {0, 1} : TransferParts(o, dds, change, P2tr(dd.key), e)
  BY <1>3, <1>7, TransferOutputsAre
<1>10. /\ e = (IF fold = 0 THEN 0 ELSE 1)
       /\ IsSeq(o) /\ Len(o) = m + e + 1
       /\ \A i \in 1 .. m : o[i] = Out(0, P2tr(dds[i].key))
       /\ e = 1 => o[m + 1] = Out(fold, P2tr(dd.key)) /\ fold > 0
       /\ o[m + e + 1] = Out(0, Metadata("transfer", [i \in DOMAIN dds |-> dds[i].cents]))
  BY <1>9 DEF TransferParts
<1>11. fold \in Nat /\ fold <= change /\ (fold = 0 \/ fold >= Fold)
  BY <1>7, FoldIs
<1>. HIDE DEF fold
<1>12. m \in Nat /\ m >= 1 /\ DOMAIN dds = 1 .. m
  BY <1>3 DEF IsSeq
<1>. HIDE DEF m, o
<1>13. \A i \in 1 .. m : o[i].value = 0 /\ o[i].script.kind = "p2tr"
  <2>. SUFFICES ASSUME NEW i \in 1 .. m PROVE o[i].value = 0 /\ o[i].script.kind = "p2tr"
    OBVIOUS
  <2>1. o[i] = Out(0, P2tr(dds[i].key))
    BY <1>10
  <2>. QED  BY <2>1 DEF Out, P2tr
<1>14. /\ o[m + e + 1].value = 0 /\ o[m + e + 1].script.kind = "return"
       /\ e = 1 => o[m + 1].value = fold
  BY <1>10 DEF Out, Metadata
<1>15. DOMAIN o = 1 .. m + e + 1
       /\ \A j \in DOMAIN o : j \in 1 .. m \/ (e = 1 /\ j = m + 1) \/ j = m + e + 1
  BY <1>10, <1>12 DEF IsSeq
<1>16. NoDust(t)
  <2>1. \A j \in DOMAIN o : o[j].value < Fold => o[j].value = 0 /\ o[j].script.kind \in {"p2tr", "return"}
    BY <1>10, <1>11, <1>13, <1>14, <1>15, TxNumbers
  <2>. QED  BY <1>7, <2>1 DEF NoDust, o
<1>17. FeeOf(t) >= MinFee
  <2>1. Actual(t) = t
    BY <1>7, ActualIs
  <2>2. TotalValue(t.in) = u.value
    <3>1. IsSeq(t.in) /\ u.value \in Int
      BY <1>7, LegScriptIs DEF Truthful, PaysFlow
    <3>2. 2 \in DOMAIN t.in /\ (\A j \in DOMAIN t.in : t.in[j].value \in Int)
          /\ \A j \in DOMAIN t.in : j # 2 => t.in[j].value = 0
      BY <1>7, <3>1
    <3>. QED  BY <1>7, <3>1, <3>2, TotalOfOne
  <2>3. TotalValue(o) = fold
    <3>1. \A j \in DOMAIN o : o[j].value \in Int
      BY <1>11, <1>13, <1>14, <1>15
    <3>2. CASE fold = 0
      <4>1. 1 \in DOMAIN o /\ (\A j \in DOMAIN o : j # 1 => o[j].value = 0) /\ o[1].value = 0
        BY <1>10, <1>12, <1>13, <1>14, <1>15, <3>2
      <4>2. TotalValue(o) = o[1].value
        BY <1>10, <3>1, <4>1, TotalOfOne
      <4>. QED  BY <3>2, <4>1, <4>2
    <3>3. CASE fold # 0
      <4>1. e = 1 /\ m + 1 \in DOMAIN o /\ (\A j \in DOMAIN o : j # m + 1 => o[j].value = 0)
            /\ o[m + 1].value = fold
        BY <1>10, <1>12, <1>13, <1>14, <1>15, <3>3
      <4>2. TotalValue(o) = o[m + 1].value
        BY <1>10, <3>1, <4>1, TotalOfOne
      <4>. QED  BY <4>1, <4>2
    <3>. QED  BY <3>2, <3>3
  <2>4. FeeOf(t) = u.value - fold
    BY <2>1, <2>2, <2>3 DEF FeeOf, o
  <2>. QED  BY <1>7, <1>11, <2>4, TxNumbers
<1>18. ValidTransfer(t)
  <2> DEFINE a == [i \in DOMAIN dds |-> dds[i].cents]
  <2>1. DOMAIN a = 1 .. m /\ a = [i \in 1 .. m |-> a[i]] /\ \A i \in DOMAIN a : a[i] >= MinOutput
    BY <1>5, <1>12
  <2>2. AmountsOf(t) = a
    BY <1>6
  <2>. HIDE DEF a
  <2>3. Len(a) = m
    BY <1>12, <2>1, Table
  <2>4. Cardinality(DdVouts(t)) = m
    <3>1. Cardinality(1 .. m) = m
      BY <1>12, FS_Interval
    <3>. QED  BY <1>6, <3>1 DEF m
  <2>. QED  BY <1>6, <2>1, <2>2, <2>3, <2>4 DEF ValidTransfer
<1>19. Valid(tx)
  BY <1>7, <1>8, <1>16, <1>17, <1>18 DEF Valid, t
<1>. QED  BY <1>19 DEF tx, recipients

-----------------------------------------------------------------------------
(* Redemptions *)

\* What is burned covers the position, and is its owner's.
LEMMA BurnTotal ==
  ASSUME ChainOK(chain), NEW p, PosReal(chain, p), NEW burn, BurnOK(chain, burn, p)
  PROVE  /\ IsSeq(burn) /\ Len(burn) >= 1 /\ burn[1].key = p.key
         /\ RedeemChange(p, burn) \in Nat /\ TotalCents(burn) = RedeemChange(p, burn) + p.cents
         /\ \A i \in DOMAIN burn : DdReal(chain, burn[i]) /\ burn[i].key = p.key
                                   /\ burn[i].cents \in Nat
<1> DEFINE f == [i \in DOMAIN burn |-> burn[i].cents]
<1>1. IsSeq(burn) /\ TotalCents(burn) >= p.cents
  BY DEF BurnOK
<1>2. \A i \in DOMAIN burn : DdReal(chain, burn[i]) /\ burn[i].key = p.key
                             /\ burn[i].cents \in Nat
  BY TokenIs DEF BurnOK
<1>3. p.cents \in Nat \ {0}
  BY PositionIs
<1>4. TotalCents(burn) = SumFunctionOnSet(f, DOMAIN burn)
  BY DEF TotalCents, SumFunction
<1>5. IsFiniteSet(DOMAIN burn) /\ \A i \in DOMAIN burn : f[i] \in Nat
  BY <1>1, <1>2, DomainsAreFinite
<1>. HIDE DEF f
<1>6. TotalCents(burn) \in Nat
  BY <1>4, <1>5, SumBounds
<1>7. DOMAIN burn # {}
  BY <1>1, <1>3, <1>4, SumEmpty
<1>8. Len(burn) >= 1 /\ 1 \in DOMAIN burn
  BY <1>1, <1>7 DEF IsSeq
<1>. QED  BY <1>1, <1>2, <1>3, <1>6, <1>8 DEF RedeemChange

\* What a redemption is made of, and who signs it.
RedeemBodyIs(t, p, burn, u, change) ==
  /\ t.type = "redeem" /\ t.locktime = p.lock /\ Truthful(t)
  /\ Len(t.in) = Len(burn) + 2
  /\ t.in[1].at = p.at /\ t.in[1].value = p.value
  /\ t.in[1].script = Collateral(p.key, p.lock, p.cents) /\ t.in[1].sequence = "cltv"
  /\ \A i \in 1 .. Len(burn) :
       t.in[1 + i].at = burn[i].at /\ t.in[1 + i].value = 0 /\ t.in[1 + i].script = P2tr(p.key)
  /\ t.in[Len(burn) + 2].at = u.at /\ t.in[Len(burn) + 2].value = u.value
  /\ t.in[Len(burn) + 2].script = DgbLegScript(u)
  /\ change \in Nat /\ u.value = FlowFee + change
  /\ t.out = RedeemOutputs(p.value, p.key, RedeemChange(p, burn), FoldChange(change), P2tr(p.key))

RedeemSigned(tx, p, burn, u) ==
  /\ tx.sigs[1] = LeafSig(p.key, tx.body, 1, <<p.lock, p.cents>>)
  /\ \A i \in 1 .. Len(burn) : tx.sigs[1 + i] = KeyPathSig(p.key, tx.body, 1 + i)
  /\ tx.sigs[Len(burn) + 2] = SignDgbLeg(u, tx.body, Len(burn) + 2)

LEMMA RedeemTxBody ==
  ASSUME ChainOK(chain), NEW p, PosReal(chain, p), NEW burn, BurnOK(chain, burn, p),
         NEW u, PaysFlow(chain, u)
  PROVE  LET tx == RedeemTx(p, burn, u, FlowFee, P2tr(p.key))
         IN  RedeemBodyIs(tx.body, p, burn, u, u.value - FlowFee) /\ RedeemSigned(tx, p, burn, u)
<1> DEFINE tx == RedeemTx(p, burn, u, FlowFee, P2tr(p.key))
           t == RedeemBody(p, burn, u, FlowFee, P2tr(p.key))
           n == Len(burn)
           change == u.value - FlowFee
           c == In(p.at, p.value, Collateral(p.key, p.lock, p.cents), "cltv")
           b == [i \in DOMAIN burn |-> In(burn[i].at, 0, P2tr(p.key), "cltv")]
           f == In(u.at, u.value, DgbLegScript(u), "final")
           ins == <<c>> \o b \o <<f>>
           outs == RedeemOutputs(p.value, p.key, RedeemChange(p, burn), FoldChange(change), P2tr(p.key))
           sigs == [i \in DOMAIN t.in |->
                      IF i = 1 THEN LeafSig(p.key, t, i, <<p.lock, p.cents>>)
                      ELSE IF i = 2 + n THEN SignDgbLeg(u, t, i)
                      ELSE KeyPathSig(p.key, t, i)]
<1>1. /\ IsSeq(burn) /\ n >= 1 /\ n \in Nat /\ burn[1].key = p.key /\ DOMAIN burn = 1 .. n
      /\ \A i \in DOMAIN burn : DdReal(chain, burn[i]) /\ burn[i].key = p.key
  BY BurnTotal DEF IsSeq
<1>2. /\ DgbLegScript(u) = At(u.at).script /\ At(u.at).value = u.value /\ u.value \in Nat
      /\ u.value >= FlowFee
  BY LegScriptIs DEF PaysFlow
<1>3. change \in Nat /\ u.value = FlowFee + change
  BY <1>2, TxNumbers
<1>4. t = [type |-> "redeem", locktime |-> p.lock, in |-> ins, out |-> outs]
  BY <1>1 DEF RedeemBody
<1>5. tx = [body |-> t, sigs |-> sigs]
  BY <1>1 DEF RedeemTx
<1>6. tx.body = t /\ tx.sigs = sigs
  <2>. HIDE DEF t, sigs, tx
  <2>. QED  BY <1>5
<1>7. t.type = "redeem" /\ t.locktime = p.lock /\ t.in = ins /\ t.out = outs
  <2>. HIDE DEF ins, outs, t
  <2>. QED  BY <1>4
<1>8. IsSeq(b) /\ Len(b) = n /\ \A i \in 1 .. n : b[i] = In(burn[i].at, 0, P2tr(p.key), "cltv")
  <2>1. DOMAIN b = 1 .. n /\ b = [i \in 1 .. n |-> b[i]]
    BY <1>1
  <2>2. \A i \in 1 .. n : b[i] = In(burn[i].at, 0, P2tr(p.key), "cltv")
    BY <1>1
  <2>. HIDE DEF b
  <2>. QED  BY <1>1, <2>1, <2>2, Table
<1>9. /\ IsSeq(<<c>>) /\ Len(<<c>>) = 1 /\ <<c>>[1] = c
      /\ IsSeq(<<f>>) /\ Len(<<f>>) = 1 /\ <<f>>[1] = f
  <2>. HIDE DEF c, f
  <2>. QED  BY Tuples
<1>10. /\ IsSeq(ins) /\ Len(ins) = n + 2 /\ ins[1] = c
       /\ \A i \in 1 .. n : ins[1 + i] = b[i]
       /\ ins[n + 2] = f
  <2> DEFINE x == <<c>>
             y == <<f>>
  <2>1. IsSeq(x) /\ IsSeq(y) /\ Len(x) = 1 /\ Len(y) = 1 /\ x[1] = c /\ y[1] = f
    BY <1>9
  <2>2. ins = (x \o b) \o y
    OBVIOUS
  <2>. HIDE DEF x, y, c, f, b, n
  <2>3. LET o == (x \o b) \o y IN
         /\ IsSeq(o) /\ Len(o) = Len(x) + Len(b) + Len(y)
         /\ \A i \in 1 .. Len(x) : o[i] = x[i]
         /\ \A i \in 1 .. Len(b) : o[Len(x) + i] = b[i]
         /\ \A i \in 1 .. Len(y) : o[Len(x) + Len(b) + i] = y[i]
    <3>1. IsSeq(x) /\ IsSeq(b) /\ IsSeq(y)
      BY <1>8, <2>1
    <3>. QED  BY <3>1, ThreeJoined
  <2>. HIDE DEF ins
  <2>4. /\ IsSeq(ins) /\ Len(ins) = 1 + n + 1
        /\ \A i \in 1 .. 1 : ins[i] = x[i]
        /\ \A i \in 1 .. n : ins[1 + i] = b[i]
        /\ \A i \in 1 .. 1 : ins[1 + n + i] = y[i]
    BY <1>8, <2>1, <2>2, <2>3
  <2>5. ins[1] = x[1] /\ ins[1 + n + 1] = y[1] /\ 1 + n + 1 = n + 2
    BY <1>1, <2>4
  <2>. QED  BY <1>1, <2>1, <2>4, <2>5
<1>11. /\ c.at = p.at /\ c.value = p.value /\ c.script = Collateral(p.key, p.lock, p.cents)
       /\ c.sequence = "cltv"
       /\ f.at = u.at /\ f.value = u.value /\ f.script = DgbLegScript(u) /\ f.sequence = "final"
  BY DEF In
<1>12. \A i \in 1 .. n : b[i].at = burn[i].at /\ b[i].value = 0 /\ b[i].script = P2tr(p.key)
                         /\ b[i].sequence = "cltv"
  <2>. HIDE DEF b
  <2>. SUFFICES ASSUME NEW i \in 1 .. n
                PROVE  b[i].at = burn[i].at /\ b[i].value = 0 /\ b[i].script = P2tr(p.key)
                       /\ b[i].sequence = "cltv"
    OBVIOUS
  <2>1. b[i] = In(burn[i].at, 0, P2tr(p.key), "cltv")
    BY <1>8
  <2>. QED  BY <2>1 DEF In
<1>13. At(p.at).value = p.value /\ At(p.at).script = Collateral(p.key, p.lock, p.cents)
  BY PositionIs DEF At, OutOf
<1>14. \A i \in 1 .. n : At(burn[i].at).value = 0 /\ At(burn[i].at).script = P2tr(p.key)
  <2>. SUFFICES ASSUME NEW i \in 1 .. n
                PROVE  At(burn[i].at).value = 0 /\ At(burn[i].at).script = P2tr(p.key)
    OBVIOUS
  <2>1. DdReal(chain, burn[i]) /\ burn[i].key = p.key
    BY <1>1
  <2>. QED  BY <2>1, TokenIs
<1>15. DOMAIN t.in = 1 .. n + 2
  BY <1>7, <1>10 DEF IsSeq
<1>16. RedeemSigned(tx, p, burn, u)
  <2>1. /\ sigs[1] = LeafSig(p.key, t, 1, <<p.lock, p.cents>>)
        /\ sigs[n + 2] = SignDgbLeg(u, t, n + 2)
        /\ \A i \in 1 .. n : sigs[1 + i] = KeyPathSig(p.key, t, 1 + i)
    <3>. HIDE DEF t, n
    <3>. QED  BY <1>1, <1>15
  <2>. HIDE DEF sigs, tx, t
  <2>. QED  BY <1>6, <2>1 DEF RedeemSigned
<1>. HIDE DEF c, b, f, ins, outs, t, tx
<1>17. Truthful(t)
  <2>1. ASSUME NEW i \in DOMAIN ins
        PROVE  ins[i] = In(ins[i].at, At(ins[i].at).value, At(ins[i].at).script, ins[i].sequence)
    <3>1. CASE i = 1
      BY <1>10, <1>11, <1>13, <3>1 DEF c
    <3>2. CASE i = n + 2
      BY <1>2, <1>10, <1>11, <3>2 DEF f
    <3>3. ASSUME NEW j \in 1 .. n, i = 1 + j
          PROVE  ins[i] = In(ins[i].at, At(ins[i].at).value, At(ins[i].at).script, ins[i].sequence)
      BY <1>8, <1>10, <1>12, <1>14, <3>3
    <3>4. i = 1 \/ i = n + 2 \/ (i - 1 \in 1 .. n /\ i = 1 + (i - 1))
      BY <1>1, <1>7, <1>15
    <3>. QED  BY <3>1, <3>2, <3>3, <3>4
  <2>. QED  BY <1>4, <1>7, <1>10, <2>1 DEF Truthful
<1>18. t.out = RedeemOutputs(p.value, p.key, RedeemChange(p, burn), FoldChange(change), P2tr(p.key))
  BY <1>7 DEF outs
<1>. HIDE DEF n, change
<1>19. RedeemBodyIs(t, p, burn, u, change)
  BY <1>3, <1>7, <1>10, <1>11, <1>12, <1>17, <1>18 DEF RedeemBodyIs, n
<1>. QED  BY <1>6, <1>16, <1>19 DEF tx, change

\* The cents a redemption takes in are those of the tokens it burns.
LEMMA RedeemCentsIn ==
  ASSUME ChainOK(chain), NEW p, PosReal(chain, p), NEW burn, BurnOK(chain, burn, p),
         NEW u, PaysFlow(chain, u), NEW t, NEW change, RedeemBodyIs(t, p, burn, u, change)
  PROVE  DdIn(t) = TotalCents(burn)
<1> DEFINE n == Len(burn)
           f == [i \in DOMAIN t.in |-> IF IsToken(t.in[i].at) THEN CentsAt(t.in[i].at) ELSE 0]
           g == [i \in DOMAIN burn |-> burn[i].cents]
           h == [i \in DOMAIN burn |-> 1 + i]
<1>1. /\ IsSeq(burn) /\ n \in Nat /\ DOMAIN burn = 1 .. n
      /\ \A i \in 1 .. n : DdReal(chain, burn[i]) /\ burn[i].cents \in Nat
  BY BurnTotal DEF IsSeq
<1>2. DOMAIN t.in = 1 .. n + 2 /\ IsSeq(t.in)
  BY DEF RedeemBodyIs, Truthful, IsSeq
<1>3. ~IsToken(p.at)
  <2>1. Holds(chain, p.at) /\ At(p.at).value > 0
    BY PositionIs, TxNumbers DEF At, OutOf
  <2>. QED  BY <2>1, TokenAt
<1>4. ~IsToken(u.at)
  <2>1. CoinReal(chain, u) /\ u.value > 0
    BY TxNumbers, LegScriptIs DEF PaysFlow
  <2>. QED  BY <2>1, PayersAreNoTokens
<1>5. /\ t.in[1].at = p.at /\ t.in[n + 2].at = u.at
      /\ \A i \in 1 .. n : t.in[1 + i].at = burn[i].at
  BY DEF RedeemBodyIs
<1>6. \A i \in 1 .. n : IsToken(burn[i].at) /\ burn[i].cents = CentsAt(burn[i].at)
  BY <1>1, TokenIs
<1>. HIDE DEF n
<1>7. f[1] = 0 /\ f[n + 2] = 0
  BY <1>1, <1>2, <1>3, <1>4, <1>5
<1>8. \A i \in 1 .. n : f[1 + i] = g[i] /\ g[i] \in Nat /\ h[i] = 1 + i
  <2>. SUFFICES ASSUME NEW i \in 1 .. n PROVE f[1 + i] = g[i] /\ g[i] \in Nat /\ h[i] = 1 + i
    OBVIOUS
  <2>1. 1 + i \in DOMAIN t.in
    BY <1>1, <1>2
  <2>2. g[i] = burn[i].cents /\ h[i] = 1 + i /\ burn[i].cents \in Nat
    BY <1>1
  <2>3. f[1 + i] = burn[i].cents
    BY <1>5, <1>6, <2>1
  <2>. HIDE DEF f, g, h
  <2>. QED  BY <2>2, <2>3
<1>9. DOMAIN g = 1 .. n /\ DOMAIN f = 1 .. n + 2
  BY <1>1, <1>2
<1>10. DdIn(t) = SumFunctionOnSet(f, DOMAIN t.in)
  BY DEF DdIn, SumFunction
<1>11. TotalCents(burn) = SumFunctionOnSet(g, DOMAIN burn)
  BY DEF TotalCents, SumFunction
<1>. HIDE DEF f, g, h
<1> DEFINE image == {h[i] : i \in DOMAIN burn}
<1>12. image = 2 .. n + 1
  <2>1. ASSUME NEW j \in 2 .. n + 1 PROVE \E i \in 1 .. n : j = h[i]
    <3>1. j - 1 \in 1 .. n /\ j = 1 + (j - 1)
      BY <1>1
    <3>. QED  BY <3>1, <1>8
  <2>2. \A i \in 1 .. n : h[i] \in 2 .. n + 1
    BY <1>1, <1>8
  <2>3. \A j \in 2 .. n + 1 : j \in image
    BY <1>1, <2>1
  <2>4. \A j \in image : j \in 2 .. n + 1
    BY <1>1, <2>2
  <2>. HIDE DEF image
  <2>. QED  BY <2>3, <2>4
<1>13. SumFunctionOnSet(g, DOMAIN burn) = SumFunctionOnSet(f, image)
  <2>1. IsFiniteSet(DOMAIN burn)
    BY <1>1, DomainsAreFinite
  <2>2. /\ \A i \in DOMAIN burn : g[i] = f[h[i]] /\ g[i] \in Int
        /\ \A i, j \in DOMAIN burn : h[i] = h[j] => i = j
    BY <1>1, <1>8
  <2>. HIDE DEF image
  <2>. QED  BY <2>1, <2>2, SumRenamed DEF image
<1>. HIDE DEF image
<1>14. SumFunctionOnSet(f, DOMAIN t.in) = SumFunctionOnSet(f, image)
  <2>1. \A j \in image : \E i \in 1 .. n : j = 1 + i
    <3>. SUFFICES ASSUME NEW j \in image PROVE \E i \in 1 .. n : j = 1 + i
      OBVIOUS
    <3>1. j - 1 \in 1 .. n /\ j = 1 + (j - 1)
      BY <1>1, <1>12
    <3>. QED  BY <3>1
  <2>2. \A j \in image : f[j] \in Int
    BY <1>8, <2>1
  <2>3. \A j \in DOMAIN t.in \ image : f[j] = 0
    <3>1. \A j \in DOMAIN t.in \ image : j = 1 \/ j = n + 2
      BY <1>1, <1>2, <1>12
    <3>. QED  BY <1>7, <3>1
  <2>4. IsFiniteSet(DOMAIN t.in) /\ image \subseteq DOMAIN t.in
    BY <1>1, <1>2, <1>12, DomainsAreFinite
  <2>5. \A j \in DOMAIN t.in : f[j] \in Int
    BY <2>2, <2>3
  <2>. QED  BY <2>3, <2>4, <2>5, SumSupport
<1>. QED  BY <1>10, <1>11, <1>13, <1>14

\* A redemption makes the burn's change and no other cents.
LEMMA RedeemCents ==
  ASSUME ChainOK(chain), NEW p, PosReal(chain, p), NEW burn, BurnOK(chain, burn, p),
         NEW u, PaysFlow(chain, u), NEW t, NEW change, RedeemBodyIs(t, p, burn, u, change)
  PROVE  /\ TxOK(t) /\ DdOut(t) = RedeemChange(p, burn)
         /\ 1 \in DOMAIN t.out /\ t.out[1] = Out(p.value, P2tr(p.key))
         /\ RedeemChange(p, burn) = 0 => DdVouts(t) = {} /\ DOMAIN DdAmountsByVout(t) = {}
         /\ RedeemChange(p, burn) > 0 =>
              /\ DdVouts(t) = {2} /\ DdAmountsByVout(t) = [n \in {2} |-> RedeemChange(p, burn)]
              /\ 2 \in DOMAIN t.out /\ t.out[2] = Out(0, P2tr(p.key))
<1> DEFINE left == RedeemChange(p, burn)
<1>1. left \in Nat
  BY BurnTotal
<1>2. p.value \in Nat /\ p.value >= Fold /\ p.key \in Keys
  BY PositionIs
<1>3. /\ t.type = "redeem" /\ change \in Int
      /\ t.out = RedeemOutputs(p.value, p.key, left, FoldChange(change), P2tr(p.key))
  BY DEF RedeemBodyIs
<1>. HIDE DEF left
<1>4. /\ TxOK(t)
      /\ 1 \in DOMAIN t.out /\ t.out[1] = Out(p.value, P2tr(p.key))
      /\ left = 0 => DdVouts(t) = {} /\ DOMAIN DdAmountsByVout(t) = {}
      /\ left > 0 => /\ DdVouts(t) = {2} /\ DdAmountsByVout(t) = [n \in {2} |-> left]
                     /\ 2 \in DOMAIN t.out /\ t.out[2] = Out(0, P2tr(p.key))
  BY <1>1, <1>2, <1>3, RedeemTxIs
<1>5. CASE left = 0
  <2>1. DdOut(t) = SumFunctionOnSet(DdAmountsByVout(t), {})
    BY <1>4, <1>5 DEF DdOut, SumFunction
  <2>. QED  BY <1>4, <1>5, <2>1, SumEmpty DEF left
<1>6. CASE left > 0
  <2> DEFINE f == [n \in {2} |-> left]
  <2>1. DdAmountsByVout(t) = f /\ DOMAIN f = {2} /\ f[2] = left
    BY <1>4, <1>6
  <2>. HIDE DEF f
  <2>2. DdOut(t) = SumFunctionOnSet(f, {2})
    BY <2>1 DEF DdOut, SumFunction
  <2>3. SumFunctionOnSet(f, {2}) = f[2]
    <3>1. f[2] \in Int
      BY <1>1, <2>1
    <3>. QED  BY <3>1, SumOne
  <2>. QED  BY <1>4, <1>6, <2>1, <2>2, <2>3 DEF left
<1>. QED  BY <1>1, <1>5, <1>6

\* The network takes a redemption of a matured position, whatever change it leaves.
LEMMA RedeemValid ==
  ASSUME ChainOK(chain), tip \in Nat, NEW p, PosReal(chain, p), p.lock <= tip,
         NEW burn, BurnOK(chain, burn, p), NEW u, PaysFlow(chain, u)
  PROVE  /\ CanRedeem(p, burn, u, FlowFee)
         /\ Valid(RedeemTx(p, burn, u, FlowFee, P2tr(p.key)))
<1> DEFINE tx == RedeemTx(p, burn, u, FlowFee, P2tr(p.key))
           t == tx.body
           n == Len(burn)
           change == u.value - FlowFee
           left == RedeemChange(p, burn)
           fold == FoldChange(change)
<1>1. RedeemBodyIs(t, p, burn, u, change) /\ RedeemSigned(tx, p, burn, u)
  BY RedeemTxBody
<1>2. /\ IsSeq(burn) /\ n \in Nat /\ n >= 1 /\ left \in Nat
      /\ TotalCents(burn) = left + p.cents
  BY BurnTotal DEF IsSeq
<1>3. /\ Holds(chain, p.at) /\ At(p.at).value = p.value /\ p.value \in Nat /\ p.value >= Fold
      /\ At(p.at).script = Collateral(p.key, p.lock, p.cents)
      /\ p.key \in Keys /\ p.cents \in Nat \ {0} /\ p.lock \in Nat
  BY PositionIs DEF At, OutOf
<1>4. CanRedeem(p, burn, u, FlowFee)
  BY <1>2, TxNumbers DEF CanRedeem, PaysFee, PaysFlow
<1>. HIDE DEF tx, n
<1>5. /\ t.type = "redeem" /\ t.locktime = p.lock /\ Truthful(t) /\ Len(t.in) = n + 2
      /\ t.in[1].at = p.at /\ t.in[1].value = p.value
      /\ t.in[1].script = Collateral(p.key, p.lock, p.cents) /\ t.in[1].sequence = "cltv"
      /\ \A i \in 1 .. n : t.in[1 + i].value = 0 /\ t.in[1 + i].script = P2tr(p.key)
      /\ t.in[n + 2].value = u.value /\ t.in[n + 2].script = DgbLegScript(u)
      /\ change \in Nat /\ u.value = FlowFee + change
      /\ t.out = RedeemOutputs(p.value, p.key, left, FoldChange(change), P2tr(p.key))
  BY <1>1 DEF RedeemBodyIs, n
<1>6. /\ IsSeq(t.in) /\ DOMAIN t.in = 1 .. n + 2
      /\ \A i \in DOMAIN t.in : i = 1 \/ i = n + 2 \/ \E j \in 1 .. n : i = 1 + j
  <2>1. IsSeq(t.in) /\ DOMAIN t.in = 1 .. n + 2
    BY <1>5 DEF Truthful, IsSeq
  <2>2. ASSUME NEW i \in 1 .. n + 2, i # 1, i # n + 2 PROVE \E j \in 1 .. n : i = 1 + j
    <3>1. i - 1 \in 1 .. n /\ i = 1 + (i - 1)
      BY <1>2, <2>2
    <3>. QED  BY <3>1
  <2>. QED  BY <2>1, <2>2
<1>7. \A i \in DOMAIN t.in : SignedFor(tx, i)
  <2>1. SignedFor(tx, 1)
    <3> DEFINE sig == tx.sigs[1]
               s == t.in[1].script
    <3>1. sig = LeafSig(p.key, t, 1, <<p.lock, p.cents>>)
      BY <1>1 DEF RedeemSigned
    <3>2. sig.key = p.key /\ sig.msg = TaprootSighash(t, 1, <<p.lock, p.cents>>) /\ ~sig.tweaked
      BY <3>1 DEF LeafSig
    <3>3. s.kind = "collateral" /\ s.key = p.key /\ s.lock = p.lock /\ s.cents = p.cents
      BY <1>5 DEF Collateral
    <3>4. Actual(t) = t
      BY <1>5, ActualIs
    <3>5. t.locktime >= s.lock /\ t.in[1].sequence # "final"
      BY <1>3, <1>5, <3>3
    <3>. HIDE DEF sig, s
    <3>. QED  BY <3>2, <3>3, <3>4, <3>5 DEF SignedFor, sig, s, t
  <2>2. \A j \in 1 .. n : SignedFor(tx, 1 + j)
    <3>. SUFFICES ASSUME NEW j \in 1 .. n PROVE SignedFor(tx, 1 + j)
      OBVIOUS
    <3> DEFINE i == 1 + j
    <3>1. Truthful(tx.body) /\ tx.body.in[i].script = P2tr(p.key)
          /\ tx.sigs[i] = KeyPathSig(p.key, tx.body, i)
      BY <1>1, <1>5 DEF RedeemSigned, n
    <3>. HIDE DEF i
    <3>2. SignedFor(tx, i)
      BY <3>1, KeySigned
    <3>. QED  BY <3>2 DEF i
  <2>3. SignedFor(tx, n + 2)
    <3>1. u.type \in {"p2tr", "p2wpkh"}
      BY DEF PaysFlow, CoinReal
    <3> DEFINE i == n + 2
    <3>2. Truthful(tx.body) /\ tx.body.in[i].script = DgbLegScript(u)
          /\ tx.sigs[i] = SignDgbLeg(u, tx.body, i)
      BY <1>1, <1>5 DEF RedeemSigned, n
    <3>. HIDE DEF i
    <3>3. SignedFor(tx, i)
      BY <3>1, <3>2, LegSigned
    <3>. QED  BY <3>3 DEF i
  <2>. QED  BY <1>6, <2>1, <2>2, <2>3
<1> DEFINE o == t.out
<1>8. /\ DdIn(t) = left + p.cents /\ DdOut(t) = left
      /\ 1 \in DOMAIN o /\ o[1] = Out(p.value, P2tr(p.key))
      /\ DdVouts(t) = {} \/ DdVouts(t) = {2}
  <2>. HIDE DEF t, change
  <2>1. DdIn(t) = TotalCents(burn)
    BY <1>1, RedeemCentsIn
  <2>2. /\ DdOut(t) = left
        /\ 1 \in DOMAIN o /\ o[1] = Out(p.value, P2tr(p.key))
        /\ left = 0 => DdVouts(t) = {}
        /\ left > 0 => DdVouts(t) = {2}
    BY <1>1, RedeemCents
  <2>. HIDE DEF o, left
  <2>. QED  BY <1>2, <2>1, <2>2
<1>9. PICK d \in {0, 2}, e \in {0, 1} :
        RedeemParts(o, p.value, p.key, left, change, P2tr(p.key), d, e)
  <2>. HIDE DEF left
  <2>. QED  BY <1>2, <1>5, RedeemOutputsAre
<1>10. /\ e = (IF fold = 0 THEN 0 ELSE 1)
       /\ IsSeq(o) /\ Len(o) = 1 + d + e
       /\ d = 2 => o[2] = Out(0, P2tr(p.key)) /\ o[3] = Out(0, Metadata("redeem", <<left>>))
       /\ e = 1 => o[1 + d + 1] = Out(fold, P2tr(p.key)) /\ fold > 0
  BY <1>9 DEF RedeemParts
<1>11. fold \in Nat /\ fold <= change /\ (fold = 0 \/ fold >= Fold)
  <2>1. change \in Nat /\ change \in Int
    BY <1>5
  <2>. HIDE DEF t, change, left, o
  <2>. QED  BY <2>1, FoldIs
<1>. HIDE DEF t, change, left, fold, o
<1>12. /\ o[1].value = p.value
       /\ d = 2 => /\ o[2].value = 0 /\ o[2].script.kind = "p2tr"
                   /\ o[3].value = 0 /\ o[3].script.kind = "return"
       /\ e = 1 => o[1 + d + 1].value = fold
  BY <1>8, <1>10 DEF Out, P2tr, Metadata
<1>13. DOMAIN o = 1 .. 1 + d + e
       /\ \A j \in DOMAIN o : j = 1 \/ (d = 2 /\ j \in {2, 3}) \/ (e = 1 /\ j = 1 + d + 1)
  BY <1>10 DEF IsSeq
<1>14. NoDust(t)
  <2>1. \A j \in DOMAIN o : o[j].value < Fold => o[j].value = 0 /\ o[j].script.kind \in {"p2tr", "return"}
    BY <1>3, <1>10, <1>11, <1>12, <1>13, TxNumbers
  <2>. QED  BY <1>5, <2>1 DEF NoDust, o
<1>15. FeeOf(t) >= MinFee
  <2>1. Actual(t) = t
    BY <1>5, ActualIs
  <2>2. u.value \in Int /\ p.value \in Int
    BY <1>3, LegScriptIs DEF PaysFlow
  <2>3. TotalValue(t.in) = p.value + u.value
    <3> DEFINE s == t.in
               k == n + 2
    <3>1. 1 \in DOMAIN s /\ k \in DOMAIN s /\ 1 # k
      BY <1>2, <1>6
    <3>2. s[1].value = p.value /\ s[k].value = u.value
      BY <1>5
    <3>3. \A j \in DOMAIN s : j # 1 /\ j # k => s[j].value = 0
      BY <1>5, <1>6
    <3>4. \A j \in DOMAIN s : s[j].value \in Int
      BY <2>2, <3>2, <3>3
    <3>5. IsSeq(s)
      BY <1>6
    <3>. HIDE DEF s, k
    <3>6. TotalValue(s) = s[1].value + s[k].value
      BY <3>1, <3>3, <3>4, <3>5, TotalOfTwo
    <3>. QED  BY <3>2, <3>6 DEF s
  <2>4. TotalValue(o) = p.value + fold
    <3>1. \A j \in DOMAIN o : o[j].value \in Int
      BY <1>3, <1>11, <1>12, <1>13
    <3>2. CASE e = 0
      <4>1. fold = 0
        BY <1>10, <3>2
      <4>2. 1 \in DOMAIN o /\ \A j \in DOMAIN o : j # 1 => o[j].value = 0
        BY <1>12, <1>13, <3>2
      <4>3. TotalValue(o) = o[1].value
        BY <1>10, <3>1, <4>2, TotalOfOne
      <4>. QED  BY <1>12, <2>2, <4>1, <4>3
    <3>3. CASE e = 1
      <4> DEFINE k == 1 + d + 1
      <4>1. o[k].value = fold /\ k \in DOMAIN o /\ 1 \in DOMAIN o /\ 1 # k
        BY <1>12, <1>13, <3>3
      <4>2. \A j \in DOMAIN o : j # 1 /\ j # k => o[j].value = 0
        BY <1>12, <1>13, <3>3
      <4>. HIDE DEF k
      <4>3. TotalValue(o) = o[1].value + o[k].value
        BY <1>10, <3>1, <4>1, <4>2, TotalOfTwo
      <4>. QED  BY <1>12, <4>1, <4>3
    <3>. QED  BY <3>2, <3>3
  <2>5. FeeOf(t) = p.value + u.value - (p.value + fold)
    <3>1. FeeOf(t) = TotalValue(t.in) - TotalValue(t.out)
      BY <2>1 DEF FeeOf
    <3>2. TotalValue(t.out) = p.value + fold
      BY <2>4 DEF o
    <3>. QED  BY <1>11, <2>2, <2>3, <3>1, <3>2
  <2>. QED  BY <1>3, <1>5, <1>11, <2>2, <2>5, TxNumbers
<1>16. ValidRedeem(t)
  <2>1. At(t.in[1].at).script.cents = p.cents
    BY <1>3, <1>5 DEF Collateral
  <2>2. DdIn(t) - DdOut(t) = p.cents
    BY <1>2, <1>3, <1>8
  <2>3. Cardinality(DdVouts(t)) <= 1
    <3>1. Cardinality({}) = 0
      BY FS_EmptySet
    <3>2. Cardinality({2}) = 1
      BY FS_Singleton
    <3>. QED  BY <1>8, <3>1, <3>2
  <2>4. \E x \in ToSet(t.out) : x.value > 0
    <3>1. o[1] \in ToSet(t.out)
      BY <1>8 DEF ToSet, o
    <3>. QED  BY <1>3, <1>12, <3>1, TxNumbers
  <2>. QED  BY <1>5, <2>1, <2>2, <2>3, <2>4 DEF ValidRedeem
<1>17. Valid(tx)
  BY <1>5, <1>7, <1>14, <1>15, <1>16 DEF Valid, t
<1>. QED  BY <1>4, <1>17 DEF tx

-----------------------------------------------------------------------------
(* Known holds at the start *)

\* The keys of wallets, of the first mint and of DigiDollar recipients are known.
LEMMA KeysAre ==
  /\ \A w \in Wallet : ToSet(KeysOf[w]) \subseteq Keys
  /\ Minted.utxo.key \in Keys
  /\ \A a \in PayableDd : DecodeDdAddress(a).key \in Keys
<1>1. \A w \in Wallet : ToSet(KeysOf[w]) \subseteq Keys
  BY DEF Keys
<1>2. Minted.utxo.key \in Keys
  BY MintedIsMint DEF Keys
<1>3. \A a \in PayableDd : DecodeDdAddress(a).key \in Keys
  BY DEF Keys
<1>. QED  BY <1>1, <1>2, <1>3

\* The chain's start is a plain payment, followed by a mint.
LEMMA FirstTxs ==
  ASSUME NEW c, c = <<[type |-> "dgb", in |-> <<>>, out |-> Genesis], OnChain(FirstMint)>>
  PROVE  /\ IsSeq(c) /\ DOMAIN c = {1, 2}
         /\ TxOK(c[1]) /\ DOMAIN DdAmountsByVout(c[1]) = {} /\ c[1].type = "dgb" /\ c[1].in = <<>>
         /\ TxOK(c[2]) /\ c[2].type = "mint" /\ DOMAIN c[2].in = {1} /\ c[2].in[1] = Minted.utxo.at
         /\ \E lock, tier : MintShape(c[2], Minted.utxo.key, Minted.cents, lock, tier)
         /\ Holds(c, Minted.utxo.at) /\ Minted.utxo.at[1] = 1
<1> DEFINE a == [type |-> "dgb", in |-> <<>>, out |-> Genesis]
           b == OnChain(FirstMint)
           u == Minted.utxo
           value == RequiredCollateral(Minted.cents, Minted.tier, Minted.price, Minted.bps)
           lock == UnlockHeight(0, Minted.tier)
           change == u.value - value - FlowFee
           outs == MintOutputs(u.key, Minted.cents, Minted.tier, lock, value, FoldChange(change))
           ins == <<In(u.at, u.value, DgbLegScript(u), "rbf")>>
<1>1. IsSeq(c) /\ DOMAIN c = {1, 2} /\ c[1] = a /\ c[2] = b
  <2>. HIDE DEF a, b
  <2>1. c = <<a, b>>
    BY DEF a, b
  <2>2. IsSeq(<<a, b>>) /\ Len(<<a, b>>) = 2 /\ <<a, b>>[1] = a /\ <<a, b>>[2] = b
    BY Tuples
  <2>. QED  BY <2>1, <2>2
<1>2. /\ IsSeq(Genesis) /\ DOMAIN Genesis = 1 .. Len(Genesis)
      /\ \A n \in DOMAIN Genesis : Genesis[n].value \in Nat /\ Plain(Genesis[n].script)
  <2>1. IsSeq(Genesis)
    BY GenesisIsPlain, InSeq
  <2>. QED  BY <2>1, GenesisIsPlain DEF Plain, IsSeq
<1>3. a.type = "dgb" /\ a.in = <<>> /\ a.out = Genesis
  OBVIOUS
<1>4. TxOK(a) /\ DOMAIN DdAmountsByVout(a) = {}
  <2>. HIDE DEF a
  <2>. QED  BY <1>2, <1>3, PlainTx
<1>5. /\ u.at \in {1} \X DOMAIN Genesis /\ u.value = Genesis[u.at[2]].value
      /\ Collateralised(Minted.cents, Minted.tier, Minted.price, Minted.bps)
  BY MintedIsMint
<1>6. /\ value \in Nat /\ value >= Fold /\ Minted.cents \in Nat \ {0}
      /\ Minted.tier \in DOMAIN LockTiers
  BY <1>5, CollateralType DEF Collateralised
<1>7. lock \in Nat /\ 0 \in Nat
  BY <1>6, UnlockIs
<1>8. change \in Int
  BY <1>2, <1>5, <1>6, TxNumbers
<1>9. u.key \in Keys
  BY KeysAre
<1>10. FirstMint = [type |-> "mint", locktime |-> 0, in |-> ins, out |-> outs]
  BY DEF FirstMint, MintTx
<1>11. FirstMint.type = "mint" /\ FirstMint.in = ins /\ FirstMint.out = outs
  <2>. HIDE DEF ins, outs
  <2>. QED  BY <1>10
<1>12. DOMAIN ins = {1} /\ ins[1].at = u.at
  <2>1. ins[1] = In(u.at, u.value, DgbLegScript(u), "rbf") /\ DOMAIN ins = {1}
    OBVIOUS
  <2>. HIDE DEF ins
  <2>. QED  BY <2>1 DEF In
<1>. HIDE DEF ins, outs
<1>13. b.type = "mint" /\ b.out = outs /\ DOMAIN b.in = {1} /\ b.in[1] = u.at
  BY <1>11, <1>12 DEF OnChain
<1>. HIDE DEF a, b, u, value, lock, change
<1>14. TxOK(b) /\ MintShape(b, u.key, Minted.cents, lock, Minted.tier)
  BY <1>6, <1>7, <1>8, <1>9, <1>13, MintTxIs DEF outs
<1>15. Holds(c, u.at) /\ u.at[1] = 1
  BY <1>1, <1>3, <1>5 DEF Holds
<1>. QED  BY <1>1, <1>3, <1>4, <1>13, <1>14, <1>15 DEF u

\* It is true of the first chain.
LEMMA KnownInit == Init => Known
<1>. SUFFICES ASSUME Init PROVE Known
  OBVIOUS
<1>1. ChainOK(chain)
  <2>1. chain = <<[type |-> "dgb", in |-> <<>>, out |-> Genesis], OnChain(FirstMint)>>
    BY DEF Init
  <2>. HIDE DEF Init
  <2>2. /\ IsSeq(chain) /\ DOMAIN chain = {1, 2} /\ TxOK(chain[1]) /\ TxOK(chain[2])
        /\ chain[1].in = <<>> /\ DOMAIN chain[2].in = {1} /\ Holds(chain, chain[2].in[1])
    BY <2>1, FirstTxs
  <2>. QED  BY <2>2 DEF ChainOK
<1>2. tip \in Nat /\ open \in Wallet \cup {Nil} /\ DOMAIN meant = Keys
  BY DEF Init
<1>3. TaskOK(chain, tip, task)
  BY DEF Init, TaskOK, Idle
<1>4. DraftOK(chain, tip, draft)
  BY DEF Init, DraftOK
<1>. QED  BY <1>1, <1>2, <1>3, <1>4 DEF Known

-----------------------------------------------------------------------------
(* Reviews and plans keep it *)

\* An address the wallet pays has a plain script.
LEMMA PayableIsPlain ==
  ASSUME NEW a, MayPay(a)
  PROVE  Plain(DecodeAddress(a).script)
<1>1. CASE IsWitnessAddress(a)
  <2> DEFINE s == WitnessScript(a.version, a.bytes, a.key)
             type == WitnessType(a.version, a.bytes)
  <2>1. DecodeAddress(a).script = s /\ DecodeAddress(a).type = type
    BY <1>1 DEF DecodeAddress
  <2>2. type \in PayableAddressTypes
    BY <2>1 DEF MayPay
  <2>3. a.version # 26
    BY <2>2 DEF WitnessType, PayableAddressTypes
  <2>4. s = [kind |-> type, key |-> a.key]
    BY <2>3 DEF WitnessScript
  <2>. HIDE DEF type, s
  <2>. QED  BY <2>1, <2>2, <2>4 DEF Plain, PayableAddressTypes, StandardForms
<1>2. CASE ~IsWitnessAddress(a) /\ IsLegacyAddress(a)
  <2> DEFINE s == LegacyScript(LegacyType(a.version), a.key)
  <2>1. DecodeAddress(a).script = s
    BY <1>2 DEF DecodeAddress
  <2>2. LegacyType(a.version) \in {"p2pkh", "p2sh"}
    BY DEF LegacyType
  <2>. QED  BY <2>1, <2>2 DEF LegacyScript, Plain, StandardForms
<1>3. CASE ~IsWitnessAddress(a) /\ ~IsLegacyAddress(a)
  BY <1>3 DEF MayPay, DecodeAddress, NotAnAddress
<1>. QED  BY <1>1, <1>2, <1>3

\* A review holds what the page just read or was given.
LEMMA ReviewTasks ==
  ASSUME Known, Room,
         \/ ConsolidateOpened \/ MaxClicked
         \/ \E a \in Recipients, v \in SendAmounts : SendReview(a, v)
         \/ \E m \in Mints : MintReview(m[1], m[2])
         \/ \E q \in Quotes : MintQuoted(q[1], q[2])
         \/ \E a \in DdRecipients, c \in TransferAmounts : TransferReview(a, c)
         \/ TransferPicked
         \/ open # Nil /\ \E p \in PositionsOf(ToSet(KeysOf[open])) : RedeemReview(p)
         \/ RedeemPicked
         \/ Fail
  PROVE  TaskOK(chain, tip, task')
<1>1. ChainOK(chain) /\ tip \in Nat /\ open \in Wallet \cup {Nil} /\ TaskOK(chain, tip, task)
  BY DEF Known
<1>2. CASE ConsolidateOpened
  <2>1. task' = [kind |-> "consolidate", of |-> open] /\ open \in Wallet
    BY <1>1, <1>2 DEF ConsolidateOpened, Start
  <2>. QED  BY <2>1 DEF TaskOK
<1>3. CASE MaxClicked
  <2>1. task' = [kind |-> "max", of |-> open] /\ open \in Wallet
    BY <1>1, <1>3 DEF MaxClicked, Start
  <2>. QED  BY <2>1 DEF TaskOK
<1>4. ASSUME NEW a \in Recipients, NEW v \in SendAmounts, SendReview(a, v)
      PROVE  TaskOK(chain, tip, task')
  <2> DEFINE r == DecodeAddress(a).script
             x == IF armed THEN Nil ELSE v
  <2>1. task' = [kind |-> "send", of |-> open, recipient |-> r, amount |-> x] /\ open \in Wallet
    BY <1>1, <1>4 DEF SendReview, Start
  <2>2. Plain(r) /\ x \in SendAmounts \cup {Nil}
    BY <1>4, PayableIsPlain DEF SendReview
  <2>. HIDE DEF r, x
  <2>. QED  BY <2>1, <2>2 DEF TaskOK
<1>5. ASSUME NEW m \in Mints, MintReview(m[1], m[2])
      PROVE  TaskOK(chain, tip, task')
  <2>1. task' = [kind |-> "quote", cents |-> m[1], tier |-> m[2]]
        /\ MinMint <= m[1] /\ m[1] <= MaxMint
    BY <1>5 DEF MintReview, Start
  <2>2. \A q \in Quotes : Collateralised(m[1], m[2], q[1], q[2])
    BY <2>1, MintsAreBacked
  <2>3. task'.kind = "quote" /\ task'.cents = m[1] /\ task'.tier = m[2]
    BY <2>1
  <2>. QED  BY <2>1, <2>2, <2>3 DEF TaskOK, Asked
<1>6. ASSUME NEW q \in Quotes, MintQuoted(q[1], q[2])
      PROVE  TaskOK(chain, tip, task')
  <2>1. task' = [kind |-> "mint", of |-> open, cents |-> task.cents, tier |-> task.tier,
                 price |-> q[1], bps |-> q[2]] /\ open \in Wallet /\ task.kind = "quote"
    BY <1>1, <1>6 DEF MintQuoted, Continue
  <2>2. Asked(task) /\ Collateralised(task.cents, task.tier, q[1], q[2])
    BY <1>1, <2>1 DEF TaskOK
  <2>3. /\ task'.kind = "mint" /\ task'.of = open /\ task'.cents = task.cents
        /\ task'.tier = task.tier /\ task'.price = q[1] /\ task'.bps = q[2]
    BY <2>1
  <2>. QED  BY <2>1, <2>2, <2>3 DEF TaskOK, Asked
<1>7. ASSUME NEW a \in DdRecipients, NEW c \in TransferAmounts, TransferReview(a, c)
      PROVE  TaskOK(chain, tip, task')
  <2> DEFINE k == DecodeDdAddress(a).key
  <2>1. task' = [kind |-> "pickDd", of |-> open, to |-> k, cents |-> c]
        /\ open \in Wallet
    BY <1>1, <1>7 DEF TransferReview, Start
  <2>2. k \in Keys
    <3>1. a \in PayableDd
      BY <1>7 DEF TransferReview, PayableDd
    <3>. QED  BY <3>1, KeysAre
  <2>3. c \in Nat
    BY LedgerConstants
  <2>. HIDE DEF k
  <2>. QED  BY <2>1, <2>2, <2>3 DEF TaskOK
<1>8. CASE TransferPicked
  <2> DEFINE ks == ToSet(KeysOf[task.of])
  <2>1. PICK d \in DdUtxosOf(ks) :
          task' = [kind |-> "transfer", of |-> open, dd |-> d, to |-> task.to, cents |-> task.cents]
    BY <1>8 DEF TransferPicked, Continue
  <2>2. open \in Wallet /\ task.kind = "pickDd"
    BY <1>1, <1>8 DEF TransferPicked
  <2>3. DdReal(chain, d)
    BY <1>1, TokensAreReal
  <2>4. task.to \in Keys /\ task.cents \in Nat
    BY <1>1, <2>2 DEF TaskOK
  <2>5. task'.kind = "transfer" /\ task'.of = open /\ task'.dd = d /\ task'.to = task.to
        /\ task'.cents = task.cents
    BY <2>1
  <2>. QED  BY <2>2, <2>3, <2>4, <2>5 DEF TaskOK, TransferOK
<1>9. ASSUME open # Nil, NEW p \in PositionsOf(ToSet(KeysOf[open])), RedeemReview(p)
      PROVE  TaskOK(chain, tip, task')
  <2>1. task' = [kind |-> "burn", of |-> open, position |-> p] /\ open \in Wallet /\ p.lock <= tip
    BY <1>1, <1>9 DEF RedeemReview, Start
  <2>2. PosReal(chain, p)
    BY <1>1, PositionsAreReal
  <2>3. task'.kind = "burn" /\ task'.of = open /\ task'.position = p
    BY <2>1
  <2>. QED  BY <2>1, <2>2, <2>3 DEF TaskOK, RipeOK
<1>10. CASE RedeemPicked
  <2>1. PICK burn \in BurnSets(DdUtxosOf({task.position.key}), task.position.cents) :
          task' = [kind |-> "redeem", of |-> open, position |-> task.position, burn |-> burn]
    BY <1>10 DEF RedeemPicked, Continue
  <2>2. open \in Wallet /\ task.kind = "burn"
    BY <1>1, <1>10 DEF RedeemPicked
  <2> DEFINE p == task.position
  <2>3. BurnOK(chain, burn, p)
    BY <1>1, BurnIs
  <2>4. PosReal(chain, p) /\ p.lock <= tip
    BY <1>1, <2>2 DEF TaskOK, RipeOK
  <2>. HIDE DEF p
  <2>5. task'.kind = "redeem" /\ task'.of = open /\ task'.position = p /\ task'.burn = burn
    BY <2>1 DEF p
  <2>. QED  BY <2>2, <2>3, <2>4, <2>5 DEF TaskOK, RipeOK
<1>11. CASE Fail
  BY <1>11 DEF Fail, Idle, TaskOK
<1>. QED  BY <1>2, <1>3, <1>4, <1>5, <1>6, <1>7, <1>8, <1>9, <1>10, <1>11

LEMMA ReviewKnown == ASSUME Known, ReviewStep PROVE Known'
<1>1. UNCHANGED <<chain, confirmed, tip, open, armed, draft, faulted, meant>>
  BY DEF ReviewStep, chainVars
<1>2. TaskOK(chain, tip, task')
  BY ReviewTasks DEF ReviewStep
<1>3. ChainOK(chain) /\ tip \in Nat /\ open \in Wallet \cup {Nil} /\ DraftOK(chain, tip, draft)
      /\ DOMAIN meant = Keys
  BY DEF Known
<1>. QED  BY <1>1, <1>2, <1>3 DEF Known

-----------------------------------------------------------------------------
(* What one transaction more does to the tokens and the positions *)

\* A transaction on the chain has the outputs and amounts of what was signed.
LEMMA OnChainIs ==
  ASSUME NEW t
  PROVE  LET x == OnChain(t)
         IN  /\ x.type = t.type /\ x.out = t.out /\ DOMAIN x.in = DOMAIN t.in
             /\ \A i \in DOMAIN t.in : x.in[i] = t.in[i].at
             /\ DdAmountsByVout(x) = DdAmountsByVout(t)
             /\ TxOK(t) => TxOK(x)
             /\ \A k, cents, lock, tier :
                  MintShape(t, k, cents, lock, tier) => MintShape(x, k, cents, lock, tier)
<1> DEFINE x == OnChain(t)
<1>1. /\ x.type = t.type /\ x.out = t.out /\ DOMAIN x.in = DOMAIN t.in
      /\ \A i \in DOMAIN t.in : x.in[i] = t.in[i].at
  BY DEF OnChain
<1>. HIDE DEF x
<1>2. OpReturns(x) = OpReturns(t) /\ DdVouts(x) = DdVouts(t)
  BY <1>1 DEF OpReturns, DdVouts
<1>3. AmountsOf(x) = AmountsOf(t)
  BY <1>1, <1>2 DEF AmountsOf
<1>4. \A n : DdRank(x, n) = DdRank(t, n)
  BY <1>2 DEF DdRank
<1>5. DdAmountsByVout(x) = DdAmountsByVout(t)
  BY <1>2, <1>3, <1>4 DEF DdAmountsByVout
<1>6. \A k, cents, lock, tier :
        MintShape(t, k, cents, lock, tier) <=> MintShape(x, k, cents, lock, tier)
  BY <1>1, <1>2, <1>5 DEF MintShape
<1>7. Tokens(x) <=> Tokens(t)
  BY <1>1, <1>5 DEF Tokens
<1>8. TxOK(t) => TxOK(x)
  BY <1>1, <1>6, <1>7 DEF TxOK
<1>. QED  BY <1>1, <1>5, <1>6, <1>8 DEF x

\* The same readings after a step.
LEMMA UnspentThen ==
  \A o : o \in Unspent' <=>
           Holds(chain', o) /\ \A t \in DOMAIN chain' : o \notin ToSet(chain'[t].in)
<1>1. \A o : o \in Unspent <=>
               Holds(chain, o) /\ \A t \in DOMAIN chain : o \notin ToSet(chain[t].in)
  BY UnspentIs
<1>2. (\A o : o \in Unspent <=>
                Holds(chain, o) /\ \A t \in DOMAIN chain : o \notin ToSet(chain[t].in))'
  BY <1>1, PTL
<1>. QED  BY <1>2

\* The same of what is read in the next state.
LEMMA TokensThen ==
  ChainOK(chain') => \A ks, d : d \in DdUtxosOf(ks)' <=>
                       DdReal(chain', d) /\ d.key \in ks /\ d.at \in Unspent'
<1>1. ChainOK(chain) => \A ks, d : d \in DdUtxosOf(ks) <=>
                          DdReal(chain, d) /\ d.key \in ks /\ d.at \in Unspent
  BY TokensAreReal
<1>2. (ChainOK(chain) => \A ks, d : d \in DdUtxosOf(ks) <=>
                           DdReal(chain, d) /\ d.key \in ks /\ d.at \in Unspent)'
  BY <1>1, PTL
<1>. QED  BY <1>2

LEMMA PositionsThen ==
  ChainOK(chain') => \A ks, p : p \in PositionsOf(ks)' <=>
                       PosReal(chain', p) /\ p.key \in ks /\ p.at \in Unspent'
<1>1. ChainOK(chain) => \A ks, p : p \in PositionsOf(ks) <=>
                          PosReal(chain, p) /\ p.key \in ks /\ p.at \in Unspent
  BY PositionsAreReal
<1>2. (ChainOK(chain) => \A ks, p : p \in PositionsOf(ks) <=>
                           PosReal(chain, p) /\ p.key \in ks /\ p.at \in Unspent)'
  BY <1>1, PTL
<1>. QED  BY <1>2

\* A transaction of unspent outputs spends them and adds its own.
LEMMA Appended ==
  ASSUME ChainOK(chain), NEW x, TxOK(x), \A i \in DOMAIN x.in : x.in[i] \in Unspent,
         chain' = Append(chain, x)
  PROVE  /\ ChainOK(chain') /\ Grown(chain, chain') /\ Len(chain) \in Nat
         /\ DOMAIN chain' = DOMAIN chain \cup {Len(chain) + 1} /\ Len(chain) + 1 \notin DOMAIN chain
         /\ chain'[Len(chain) + 1] = x /\ \A t \in DOMAIN chain : chain'[t] = chain[t]
         /\ \A o : o \in Unspent' <=>
              \/ o \in Unspent /\ \A i \in DOMAIN x.in : o # x.in[i]
              \/ o = <<Len(chain) + 1, o[2]>> /\ o[2] \in DOMAIN x.out
<1> DEFINE n == Len(chain) + 1
           c == Append(chain, x)
<1>1. IsSeq(chain) /\ Len(chain) \in Nat /\ DOMAIN chain = 1 .. Len(chain)
  BY DEF ChainOK, IsSeq
<1>2. IsSeq(c) /\ Len(c) = n /\ (\A t \in 1 .. Len(chain) : c[t] = chain[t]) /\ c[n] = x
  BY <1>1, Longer
<1>. HIDE DEF c
<1>3. DOMAIN c = DOMAIN chain \cup {n} /\ n \notin DOMAIN chain
  BY <1>1, <1>2 DEF IsSeq
<1>4. Grown(chain, c)
  BY DEF Grown, c
<1>5. \A o : Holds(chain, o) => Holds(c, o)
  BY <1>1, <1>4, Kept
<1>6. \A i \in DOMAIN x.in : Holds(chain, x.in[i])
  BY UnspentIs
<1>7. ChainOK(c)
  <2>1. ASSUME NEW t \in DOMAIN c
        PROVE  TxOK(c[t]) /\ \A i \in DOMAIN c[t].in : Holds(c, c[t].in[i])
    <3>1. CASE t \in DOMAIN chain
      BY <1>1, <1>2, <1>5, <3>1 DEF ChainOK
    <3>2. CASE t = n
      BY <1>2, <1>5, <1>6, <3>2
    <3>. QED  BY <1>3, <3>1, <3>2
  <2>. QED  BY <1>2, <2>1 DEF ChainOK
<1>8. chain' = c
  BY DEF c
<1>10. \A p : p \in Unspent' <=> Holds(c, p) /\ \A t \in DOMAIN c : p \notin ToSet(c[t].in)
  BY <1>8, UnspentThen
<1>11. ASSUME NEW o
       PROVE  o \in Unspent' <=>
              \/ o \in Unspent /\ \A i \in DOMAIN x.in : o # x.in[i]
              \/ o = <<n, o[2]>> /\ o[2] \in DOMAIN x.out
  <2>1. o \in Unspent <=> Holds(chain, o) /\ \A t \in DOMAIN chain : o \notin ToSet(chain[t].in)
    BY UnspentIs
  <2>2. o \notin ToSet(x.in) <=> \A i \in DOMAIN x.in : o # x.in[i]
    BY DEF ToSet
  <2>3. (\A t \in DOMAIN c : o \notin ToSet(c[t].in))
          <=> (\A t \in DOMAIN chain : o \notin ToSet(chain[t].in)) /\ o \notin ToSet(x.in)
    BY <1>1, <1>2, <1>3
  <2>4. Holds(c, o) <=> Holds(chain, o) \/ (o = <<n, o[2]>> /\ o[2] \in DOMAIN x.out)
    BY <1>1, <1>2, <1>3 DEF Holds
  <2>5. ASSUME o = <<n, o[2]>>
        PROVE  (\A t \in DOMAIN chain : o \notin ToSet(chain[t].in)) /\ o \notin ToSet(x.in)
    <3>1. o[1] = n
      BY <2>5
    <3>2. ~Holds(chain, o)
      BY <1>3, <3>1 DEF Holds
    <3>3. \A t \in DOMAIN chain : \A i \in DOMAIN chain[t].in : chain[t].in[i] # o
      BY <3>2 DEF ChainOK
    <3>4. \A i \in DOMAIN x.in : x.in[i] # o
      BY <1>6, <3>2
    <3>. QED  BY <3>3, <3>4 DEF ToSet
  <2>. HIDE DEF n
  <2>. QED  BY <1>10, <2>1, <2>2, <2>3, <2>4, <2>5
<1>. QED  BY <1>1, <1>2, <1>3, <1>4, <1>7, <1>8, <1>11

\* What a transaction takes from a set of tokens or positions, and the tokens it makes.
Gone(x, S) == {d \in S : \E i \in DOMAIN x.in : d.at = x.in[i]}
Made(x, at, ks) ==
  {[at |-> <<at, n>>, key |-> x.out[n].script.key, cents |-> DdAmountsByVout(x)[n]] :
     n \in {m \in DOMAIN DdAmountsByVout(x) : x.out[m].script.key \in ks}}

LEMMA MadeIs ==
  ASSUME NEW x, NEW at, NEW ks, NEW d
  PROVE  d \in Made(x, at, ks) <=>
           /\ d.at = <<at, d.at[2]>> /\ d.at[2] \in DOMAIN DdAmountsByVout(x)
           /\ d = [at |-> d.at, key |-> x.out[d.at[2]].script.key,
                   cents |-> DdAmountsByVout(x)[d.at[2]]]
           /\ d.key \in ks
<1> DEFINE e(n) == [at |-> <<at, n>>, key |-> x.out[n].script.key, cents |-> DdAmountsByVout(x)[n]]
<1>1. \A n : e(n).at = <<at, n>> /\ e(n).at[2] = n /\ e(n).key = x.out[n].script.key
             /\ e(n).cents = DdAmountsByVout(x)[n]
  OBVIOUS
<1>2. ASSUME d \in Made(x, at, ks)
      PROVE  /\ d.at = <<at, d.at[2]>> /\ d.at[2] \in DOMAIN DdAmountsByVout(x)
             /\ d = [at |-> d.at, key |-> x.out[d.at[2]].script.key,
                     cents |-> DdAmountsByVout(x)[d.at[2]]]
             /\ d.key \in ks
  <2>1. PICK n \in DOMAIN DdAmountsByVout(x) : d = e(n) /\ x.out[n].script.key \in ks
    BY <1>2 DEF Made
  <2>. QED  BY <1>1, <2>1
<1>3. ASSUME d.at = <<at, d.at[2]>>, d.at[2] \in DOMAIN DdAmountsByVout(x),
             d = [at |-> d.at, key |-> x.out[d.at[2]].script.key,
                  cents |-> DdAmountsByVout(x)[d.at[2]]],
             d.key \in ks
      PROVE  d \in Made(x, at, ks)
  <2>1. d = e(d.at[2])
    BY <1>3
  <2>2. x.out[d.at[2]].script.key \in ks
    BY <1>1, <1>3, <2>1
  <2>. QED  BY <1>3, <2>1, <2>2 DEF Made
<1>. QED  BY <1>2, <1>3

\* Tokens, and positions, are those that were, less those taken, and those made.
LEMMA TokensMove ==
  ASSUME ChainOK(chain), NEW x, TxOK(x), \A i \in DOMAIN x.in : x.in[i] \in Unspent,
         chain' = Append(chain, x), NEW ks
  PROVE  DdUtxosOf(ks)' = (DdUtxosOf(ks) \ Gone(x, DdUtxosOf(ks))) \cup Made(x, Len(chain) + 1, ks)
<1> DEFINE n == Len(chain) + 1
<1>1. /\ ChainOK(chain') /\ IsSeq(chain) /\ Grown(chain, chain')
      /\ DOMAIN chain' = DOMAIN chain \cup {n} /\ n \notin DOMAIN chain
      /\ chain'[n] = x /\ \A t \in DOMAIN chain : chain'[t] = chain[t]
      /\ \A o : o \in Unspent' <=>
              \/ o \in Unspent /\ \A i \in DOMAIN x.in : o # x.in[i]
              \/ o = <<n, o[2]>> /\ o[2] \in DOMAIN x.out
  BY Appended DEF ChainOK
<1>. HIDE DEF n
<1>3. \A d : d \in DdUtxosOf(ks)' <=> DdReal(chain', d) /\ d.key \in ks /\ d.at \in Unspent'
  BY <1>1, TokensThen
<1>4. \A d : d \in DdUtxosOf(ks) <=> DdReal(chain, d) /\ d.key \in ks /\ d.at \in Unspent
  BY TokensAreReal
<1>5. ASSUME NEW d
      PROVE  d \in DdUtxosOf(ks)' <=>
               (d \in DdUtxosOf(ks) /\ d \notin Gone(x, DdUtxosOf(ks))) \/ d \in Made(x, n, ks)
  <2>1. CASE d.at[1] = n
    <3>1. ~Holds(chain, d.at)
      BY <1>1, <2>1 DEF Holds
    <3>2. d \notin DdUtxosOf(ks)
      BY <1>4, <3>1 DEF DdReal
    <3>3. OutOf(chain', d.at) = x.out[d.at[2]]
      BY <1>1, <2>1 DEF OutOf
    <3>4. \A m \in DOMAIN DdAmountsByVout(x) : m \in DOMAIN x.out
      BY DEF TxOK, Tokens
    <3>5. Holds(chain', d.at) /\ d.at[2] \in DOMAIN DdAmountsByVout(chain'[d.at[1]])
            <=> d.at = <<n, d.at[2]>> /\ d.at[2] \in DOMAIN DdAmountsByVout(x)
      BY <1>1, <2>1, <3>4 DEF Holds
    <3>6. DdReal(chain', d) <=>
           /\ d.at = <<n, d.at[2]>> /\ d.at[2] \in DOMAIN DdAmountsByVout(x)
           /\ d = [at |-> d.at, key |-> x.out[d.at[2]].script.key,
                   cents |-> DdAmountsByVout(x)[d.at[2]]]
      BY <1>1, <2>1, <3>3, <3>5 DEF DdReal
    <3>7. d \in Made(x, n, ks) <=> DdReal(chain', d) /\ d.key \in ks
      BY <3>6, MadeIs
    <3>8. DdReal(chain', d) => d.at \in Unspent'
      BY <1>1, <3>4, <3>6
    <3>. QED  BY <1>3, <3>2, <3>7, <3>8
  <2>2. CASE d.at[1] # n
    <3>1. d \notin Made(x, n, ks)
      <4>. SUFFICES ASSUME d \in Made(x, n, ks) PROVE FALSE
        OBVIOUS
      <4>1. d.at = <<n, d.at[2]>>
        BY MadeIs
      <4>. QED  BY <2>2, <4>1
    <3>2. DdReal(chain', d) <=> DdReal(chain, d)
      <4>1. DdReal(chain, d) => DdReal(chain', d)
        BY <1>1, DdKept
      <4>2. ASSUME DdReal(chain', d) PROVE DdReal(chain, d)
        <5>1. d.at[1] \in DOMAIN chain /\ chain'[d.at[1]] = chain[d.at[1]]
          BY <1>1, <2>2, <4>2 DEF DdReal, Holds
        <5>2. Holds(chain, d.at) /\ OutOf(chain', d.at) = OutOf(chain, d.at)
          BY <4>2, <5>1 DEF DdReal, Holds, OutOf
        <5>. QED  BY <4>2, <5>1, <5>2 DEF DdReal
      <4>. QED  BY <4>1, <4>2
    <3>3. d.at # <<n, d.at[2]>>
      BY <2>2
    <3>4. d.at \in Unspent' <=> d.at \in Unspent /\ \A i \in DOMAIN x.in : d.at # x.in[i]
      BY <1>1, <3>3
    <3>5. d \in Gone(x, DdUtxosOf(ks)) <=> d \in DdUtxosOf(ks) /\ \E i \in DOMAIN x.in : d.at = x.in[i]
      BY DEF Gone
    <3>. QED  BY <1>3, <1>4, <3>1, <3>2, <3>4, <3>5
  <2>. QED  BY <2>1, <2>2
<1>. QED  BY <1>5 DEF n

\* The position a mint opens.
Opened(x, at, ks) ==
  {p \in {[at |-> <<at, 1>>, value |-> x.out[1].value,
           cents |-> x.out[3].script.pushes[1], lock |-> x.out[3].script.pushes[2],
           key |-> x.out[3].script.pushes[4]]} : x.type = "mint" /\ p.key \in ks}

\* Positions move alike.
LEMMA PositionsMove ==
  ASSUME ChainOK(chain), NEW x, TxOK(x), \A i \in DOMAIN x.in : x.in[i] \in Unspent,
         chain' = Append(chain, x), NEW ks
  PROVE  PositionsOf(ks)' =
           (PositionsOf(ks) \ Gone(x, PositionsOf(ks))) \cup Opened(x, Len(chain) + 1, ks)
<1> DEFINE n == Len(chain) + 1
           mint(m, t) == [at |-> <<t, 1>>, value |-> m.out[1].value,
                          cents |-> m.out[3].script.pushes[1], lock |-> m.out[3].script.pushes[2],
                          key |-> m.out[3].script.pushes[4]]
           fresh == mint(x, n)
<1>1. /\ ChainOK(chain') /\ IsSeq(chain) /\ Grown(chain, chain')
      /\ DOMAIN chain' = DOMAIN chain \cup {n} /\ n \notin DOMAIN chain
      /\ chain'[n] = x /\ \A t \in DOMAIN chain : chain'[t] = chain[t]
      /\ \A o : o \in Unspent' <=>
              \/ o \in Unspent /\ \A i \in DOMAIN x.in : o # x.in[i]
              \/ o = <<n, o[2]>> /\ o[2] \in DOMAIN x.out
  BY Appended DEF ChainOK
<1>. HIDE DEF n
<1>3. \A p : p \in PositionsOf(ks)' <=> PosReal(chain', p) /\ p.key \in ks /\ p.at \in Unspent'
  BY <1>1, PositionsThen
<1>4. \A p : p \in PositionsOf(ks) <=> PosReal(chain, p) /\ p.key \in ks /\ p.at \in Unspent
  BY PositionsAreReal
<1>5. \A c, p : PosReal(c, p) <=> \E t \in DOMAIN c : c[t].type = "mint" /\ p = mint(c[t], t)
  BY DEF PosReal
<1>6. \A m, t : mint(m, t).at = <<t, 1>> /\ mint(m, t).at[1] = t
  OBVIOUS
<1>8. mint(x, n) = fresh
  OBVIOUS
<1>9. fresh.at = <<n, 1>> /\ fresh.at[1] = n /\ fresh.at[2] = 1
  OBVIOUS
<1>10. \A p : p \in Opened(x, n, ks) <=> p = fresh /\ x.type = "mint" /\ p.key \in ks
  BY DEF Opened
<1>. HIDE DEF mint, fresh
<1> DEFINE d == chain'
<1>7. /\ DOMAIN d = DOMAIN chain \cup {n} /\ n \notin DOMAIN chain
      /\ d[n] = x /\ \A t \in DOMAIN chain : d[t] = chain[t]
  BY <1>1
<1>. HIDE DEF d
<1>11. x.type = "mint" => 1 \in DOMAIN x.out
  BY DEF TxOK, MintShape
<1>12. ASSUME NEW p
       PROVE  p \in PositionsOf(ks)' <=>
                (p \in PositionsOf(ks) /\ p \notin Gone(x, PositionsOf(ks))) \/ p \in Opened(x, n, ks)
  <2>1. CASE p.at[1] = n
    <3>1. ~PosReal(chain, p)
      BY <1>1, <1>5, <1>6, <2>1
    <3>2. PosReal(chain', p) <=> x.type = "mint" /\ p = fresh
      <4>1. PosReal(d, p) <=> x.type = "mint" /\ p = fresh
        BY <1>5, <1>6, <1>7, <1>8, <2>1
      <4>. QED  BY <4>1 DEF d
    <3>3. PosReal(chain', p) => p.at \in Unspent'
      BY <1>1, <1>9, <1>11, <3>2
    <3>. QED  BY <1>3, <1>4, <1>10, <3>1, <3>2, <3>3
  <2>2. CASE p.at[1] # n
    <3>1. p \notin Opened(x, n, ks)
      BY <1>9, <1>10, <2>2
    <3>2. PosReal(chain', p) <=> PosReal(chain, p)
      <4>1. PosReal(d, p) <=> PosReal(chain, p)
        BY <1>5, <1>6, <1>7, <2>2
      <4>. QED  BY <4>1 DEF d
    <3>3. p.at # <<n, p.at[2]>>
      BY <2>2
    <3>4. p.at \in Unspent' <=> p.at \in Unspent /\ \A i \in DOMAIN x.in : p.at # x.in[i]
      BY <1>1, <3>3
    <3>5. p \in Gone(x, PositionsOf(ks)) <=> p \in PositionsOf(ks) /\ \E i \in DOMAIN x.in : p.at = x.in[i]
      BY DEF Gone
    <3>. QED  BY <1>3, <1>4, <3>1, <3>2, <3>4, <3>5
  <2>. QED  BY <2>1, <2>2
<1>. QED  BY <1>12 DEF n

-----------------------------------------------------------------------------
(* Cents are conserved *)

\* The cents of some are summed alike among more.
LEMMA CentsOn ==
  ASSUME NEW S, NEW T, T \subseteq S, IsFiniteSet(S)
  PROVE  CentsIn(T) = SumFunctionOnSet([d \in S |-> d.cents], T)
<1> DEFINE f == [d \in S |-> d.cents]
           g == [d \in T |-> d.cents]
<1>1. CentsIn(T) = SumFunctionOnSet(g, T)
  BY DEF CentsIn, SumFunction
<1>2. \A d \in T : g[d] = f[d]
  OBVIOUS
<1>3. IsFiniteSet(T)
  BY FS_Subset
<1>. HIDE DEF f, g
<1>4. SumFunctionOnSet(g, T) = SumFunctionOnSet(f, T)
  BY <1>2, <1>3, SumSame
<1>. QED  BY <1>1, <1>4 DEF f

\* The cents of no, one and two tokens.
LEMMA CentsOfNone == CentsIn({}) = 0
<1> DEFINE f == [d \in {} |-> d.cents]
<1>1. CentsIn({}) = SumFunctionOnSet(f, {})
  BY DEF CentsIn, SumFunction
<1>. HIDE DEF f
<1>. QED  BY <1>1, SumEmpty

LEMMA CentsOfOneToken == ASSUME NEW d, d.cents \in Int PROVE CentsIn({d}) = d.cents
<1> DEFINE f == [x \in {d} |-> x.cents]
<1>1. CentsIn({d}) = SumFunctionOnSet(f, {d})
  BY DEF CentsIn, SumFunction
<1>2. f[d] = d.cents /\ f[d] \in Int
  OBVIOUS
<1>. HIDE DEF f
<1>. QED  BY <1>1, <1>2, SumOne

LEMMA CentsOfTwoTokens ==
  ASSUME NEW d, NEW e, d # e, d.cents \in Int, e.cents \in Int
  PROVE  CentsIn({d, e}) = d.cents + e.cents
<1> DEFINE f == [x \in {d, e} |-> x.cents]
<1>1. CentsIn({d, e}) = SumFunctionOnSet(f, {d, e})
  BY DEF CentsIn, SumFunction
<1>2. f[d] = d.cents /\ f[e] = e.cents /\ f[d] \in Int /\ f[e] \in Int
  OBVIOUS
<1>. HIDE DEF f
<1>3. d # e /\ f[d] \in Int /\ f[e] \in Int
  BY <1>2
<1>4. SumFunctionOnSet(f, {d, e}) = f[d] + f[e]
  BY <1>3, SumTwo
<1>. QED  BY <1>1, <1>2, <1>4

\* The cents of finitely many tokens are a number.
LEMMA CentsType ==
  ASSUME NEW S, IsFiniteSet(S), \A d \in S : d.cents \in Int
  PROVE  CentsIn(S) \in Int
<1> DEFINE f == [d \in S |-> d.cents]
<1>1. CentsIn(S) = SumFunctionOnSet(f, S)
  BY DEF CentsIn, SumFunction
<1>2. \A d \in S : f[d] \in Int
  OBVIOUS
<1>. HIDE DEF f
<1>. QED  BY <1>1, <1>2, SumType

\* What goes is taken off, what comes is added.
LEMMA CentsMove ==
  ASSUME NEW S, NEW R, NEW N, IsFiniteSet(S), IsFiniteSet(N), R \subseteq S, S \cap N = {},
         \A d \in S \cup N : d.cents \in Int
  PROVE  CentsIn((S \ R) \cup N) = CentsIn(S) - CentsIn(R) + CentsIn(N)
<1> DEFINE U == S \cup N
           K == S \ R
           f == [d \in U |-> d.cents]
           sum(T) == SumFunctionOnSet(f, T)
<1>1. IsFiniteSet(U) /\ IsFiniteSet(K) /\ IsFiniteSet(R)
  BY FS_Union, FS_Subset
<1>2. \A d \in U : f[d] \in Int
  OBVIOUS
<1>3. S \subseteq U /\ R \subseteq U /\ N \subseteq U /\ K \subseteq U /\ K \cup N \subseteq U
      /\ K \cap N = {} /\ K \cap R = {} /\ S = K \cup R
  OBVIOUS
<1>4. \A T \in SUBSET U : CentsIn(T) = sum(T)
  BY <1>1, CentsOn
<1>. HIDE DEF f, U, K
<1>5. sum(K \cup N) = sum(K) + sum(N)
  <2>1. \A d \in K \cup N : f[d] \in Int
    BY <1>2, <1>3
  <2>. QED  BY <1>1, <1>3, <2>1, SumUnion
<1>6. sum(K \cup R) = sum(K) + sum(R)
  <2>1. \A d \in K \cup R : f[d] \in Int
    BY <1>2, <1>3
  <2>. QED  BY <1>1, <1>3, <2>1, SumUnion
<1>7. sum(K) \in Int /\ sum(R) \in Int /\ sum(N) \in Int
  <2>1. \A T \in SUBSET U : IsFiniteSet(T) /\ \A d \in T : f[d] \in Int
    BY <1>1, <1>2, FS_Subset
  <2>2. \A T \in SUBSET U : sum(T) \in Int
    BY <2>1, SumType
  <2>. QED  BY <1>3, <2>2
<1>8. CentsIn(K \cup N) = sum(K \cup N) /\ CentsIn(S) = sum(S) /\ CentsIn(R) = sum(R)
      /\ CentsIn(N) = sum(N) /\ sum(S) = sum(K \cup R)
  BY <1>3, <1>4
<1>. HIDE DEF sum
<1>. QED  BY <1>5, <1>6, <1>7, <1>8 DEF K

\* The tokens of a burn, each named once.
LEMMA CentsOfBurn ==
  ASSUME NEW burn, IsSeq(burn), \A i \in DOMAIN burn : burn[i].cents \in Int,
         \A i, j \in DOMAIN burn : burn[i].at = burn[j].at => i = j
  PROVE  CentsIn({burn[i] : i \in DOMAIN burn}) = TotalCents(burn)
<1> DEFINE R == {burn[i] : i \in DOMAIN burn}
           f == [i \in DOMAIN burn |-> burn[i].cents]
           g == [d \in R |-> d.cents]
<1>1. TotalCents(burn) = SumFunctionOnSet(f, DOMAIN burn)
  BY DEF TotalCents, SumFunction
<1>2. CentsIn(R) = SumFunctionOnSet(g, R)
  BY DEF CentsIn, SumFunction
<1>3. /\ \A i \in DOMAIN burn : f[i] = g[burn[i]] /\ f[i] \in Int
      /\ \A i, j \in DOMAIN burn : burn[i] = burn[j] => i = j
  OBVIOUS
<1>4. IsFiniteSet(DOMAIN burn)
  BY DomainsAreFinite
<1>. HIDE DEF f, g
<1>5. SumFunctionOnSet(f, DOMAIN burn) = SumFunctionOnSet(g, {burn[i] : i \in DOMAIN burn})
  BY <1>3, <1>4, SumRenamed
<1>. QED  BY <1>1, <1>2, <1>5

\* A step's effect on the cents of some keys, and on those of their positions.
LEMMA TokensBalance ==
  ASSUME ChainOK(chain), NEW x, TxOK(x), \A i \in DOMAIN x.in : x.in[i] \in Unspent,
         chain' = Append(chain, x), NEW ks
  PROVE  LET old == DdUtxosOf(ks)
             made == Made(x, Len(chain) + 1, ks)
         IN  /\ CentsIn(DdUtxosOf(ks)') = CentsIn(old) - CentsIn(Gone(x, old)) + CentsIn(made)
             /\ CentsIn(old) \in Int /\ CentsIn(Gone(x, old)) \in Int /\ CentsIn(made) \in Int
<1> DEFINE old == DdUtxosOf(ks)
           n == Len(chain) + 1
           made == Made(x, n, ks)
           gone == Gone(x, old)
<1>1. DdUtxosOf(ks)' = (old \ gone) \cup made
  BY TokensMove
<1>2. n \notin DOMAIN chain
  BY Appended
<1>3. IsFiniteSet(old) /\ gone \subseteq old
  BY ReadsAreFinite DEF Gone
<1>4. \A d \in old : d.cents \in Nat /\ d.at[1] \in DOMAIN chain
  <2>. SUFFICES ASSUME NEW d \in old PROVE d.cents \in Nat /\ d.at[1] \in DOMAIN chain
    OBVIOUS
  <2>1. DdReal(chain, d)
    BY TokensAreReal
  <2>. QED  BY <2>1, TokenIs DEF Holds
<1>. HIDE DEF n
<1>5. \A d \in made : d.cents \in Nat /\ d.at[1] = n
  <2>. SUFFICES ASSUME NEW d \in made PROVE d.cents \in Nat /\ d.at[1] = n
    OBVIOUS
  <2>1. /\ d.at = <<n, d.at[2]>> /\ d.at[2] \in DOMAIN DdAmountsByVout(x)
        /\ d = [at |-> d.at, key |-> x.out[d.at[2]].script.key,
                cents |-> DdAmountsByVout(x)[d.at[2]]]
    BY MadeIs
  <2>2. d.cents = DdAmountsByVout(x)[d.at[2]] /\ d.at[1] = n
    BY <2>1
  <2>. QED  BY <2>1, <2>2 DEF TxOK, Tokens
<1>6. IsFiniteSet(made)
  <2> DEFINE D == DOMAIN DdAmountsByVout(x)
             h == [m \in D |-> [at |-> <<n, m>>, key |-> x.out[m].script.key,
                                cents |-> DdAmountsByVout(x)[m]]]
  <2>1. D \subseteq DOMAIN x.out /\ IsSeq(x.out)
    BY DEF TxOK, Tokens
  <2>2. IsFiniteSet(D)
    <3>. HIDE DEF D
    <3>. QED  BY <2>1, DomainsAreFinite
  <2>3. made \subseteq {h[m] : m \in D}
    BY DEF Made
  <2>. HIDE DEF D, h, made
  <2>4. IsFiniteSet({h[m] : m \in D})
    BY <2>2, ImageIsFinite
  <2>. QED  BY <2>3, <2>4, FS_Subset
<1>7. old \cap made = {}
  BY <1>2, <1>4, <1>5
<1>8. \A d \in old \cup made : d.cents \in Int
  BY <1>4, <1>5
<1>9. IsFiniteSet(gone)
  BY <1>3, FS_Subset
<1>. HIDE DEF old, gone, made
<1>10. CentsIn((old \ gone) \cup made) = CentsIn(old) - CentsIn(gone) + CentsIn(made)
  BY <1>3, <1>6, <1>7, <1>8, CentsMove
<1>11. CentsIn(old) \in Int /\ CentsIn(gone) \in Int /\ CentsIn(made) \in Int
  <2>1. \A d \in gone : d.cents \in Int
    BY <1>3, <1>8
  <2>. QED  BY <1>3, <1>6, <1>8, <1>9, <2>1, CentsType
<1>. QED  BY <1>1, <1>10, <1>11 DEF old, gone, made, n

\* The cents of the positions move as the positions do.
LEMMA PositionsBalance ==
  ASSUME ChainOK(chain), NEW x, TxOK(x), \A i \in DOMAIN x.in : x.in[i] \in Unspent,
         chain' = Append(chain, x), NEW ks
  PROVE  LET old == PositionsOf(ks)
             opened == Opened(x, Len(chain) + 1, ks)
         IN  /\ CentsIn(PositionsOf(ks)') = CentsIn(old) - CentsIn(Gone(x, old)) + CentsIn(opened)
             /\ CentsIn(old) \in Int /\ CentsIn(Gone(x, old)) \in Int /\ CentsIn(opened) \in Int
<1> DEFINE old == PositionsOf(ks)
           n == Len(chain) + 1
           opened == Opened(x, n, ks)
           gone == Gone(x, old)
           fresh == [at |-> <<n, 1>>, value |-> x.out[1].value,
                     cents |-> x.out[3].script.pushes[1], lock |-> x.out[3].script.pushes[2],
                     key |-> x.out[3].script.pushes[4]]
<1>1. PositionsOf(ks)' = (old \ gone) \cup opened
  BY PositionsMove
<1>2. n \notin DOMAIN chain
  BY Appended
<1>3. IsFiniteSet(old) /\ gone \subseteq old
  BY ReadsAreFinite DEF Gone
<1>4. \A p \in old : p.cents \in Nat /\ p.at[1] \in DOMAIN chain
  <2>. SUFFICES ASSUME NEW p \in old PROVE p.cents \in Nat /\ p.at[1] \in DOMAIN chain
    OBVIOUS
  <2>1. PosReal(chain, p)
    BY PositionsAreReal
  <2>. QED  BY <2>1, PositionIs DEF Holds
<1>. HIDE DEF n
<1>5. opened \subseteq {fresh} /\ (x.type # "mint" => opened = {})
  BY DEF Opened
<1>6. fresh.at[1] = n /\ fresh.cents = x.out[3].script.pushes[1]
  OBVIOUS
<1>7. x.type = "mint" => fresh.cents \in Nat
  BY <1>6 DEF TxOK, MintShape
<1>8. IsFiniteSet(opened)
  <2>. HIDE DEF opened, fresh
  <2>. QED  BY <1>5, FS_Singleton, FS_Subset
<1>. HIDE DEF opened, fresh
<1>9. old \cap opened = {}
  BY <1>2, <1>4, <1>5, <1>6
<1>10. \A p \in old \cup opened : p.cents \in Int
  BY <1>4, <1>5, <1>7
<1>11. IsFiniteSet(gone)
  BY <1>3, FS_Subset
<1>. HIDE DEF old, gone
<1>12. CentsIn((old \ gone) \cup opened) = CentsIn(old) - CentsIn(gone) + CentsIn(opened)
  BY <1>3, <1>8, <1>9, <1>10, CentsMove
<1>13. CentsIn(old) \in Int /\ CentsIn(gone) \in Int /\ CentsIn(opened) \in Int
  <2>1. \A p \in gone : p.cents \in Int
    BY <1>3, <1>10
  <2>. QED  BY <1>3, <1>8, <1>10, <1>11, <2>1, CentsType
<1>. QED  BY <1>1, <1>12, <1>13 DEF old, gone, opened, n

-----------------------------------------------------------------------------
(* What each kind of transaction does to them *)

\* A transaction that spends only coins of value takes no token.
LEMMA NoTokensGone ==
  ASSUME ChainOK(chain), NEW x, NEW ks,
         \A i \in DOMAIN x.in : At(x.in[i]).value > 0
  PROVE  Gone(x, DdUtxosOf(ks)) = {}
<1>. SUFFICES ASSUME NEW d \in DdUtxosOf(ks), NEW i \in DOMAIN x.in, d.at = x.in[i] PROVE FALSE
  BY DEF Gone
<1>1. DdReal(chain, d)
  BY TokensAreReal
<1>2. At(d.at).value = 0
  BY <1>1, TokenIs
<1>. QED  BY <1>2

\* One that spends no collateral takes no position.
LEMMA NoPositionsGone ==
  ASSUME ChainOK(chain), NEW x, NEW ks,
         \A i \in DOMAIN x.in : At(x.in[i]).script.kind # "collateral"
  PROVE  Gone(x, PositionsOf(ks)) = {}
<1>. SUFFICES ASSUME NEW p \in PositionsOf(ks), NEW i \in DOMAIN x.in, p.at = x.in[i] PROVE FALSE
  BY DEF Gone
<1>1. PosReal(chain, p)
  BY PositionsAreReal
<1>2. At(p.at).script = Collateral(p.key, p.lock, p.cents)
  BY <1>1, PositionIs DEF At, OutOf
<1>. QED  BY <1>2 DEF Collateral

\* What is meant moves as the tokens do, and the tokens as the positions.
Conserves(x, intent) ==
  /\ \A k \in Keys :
       intent[k] = meant[k] - CentsIn(Gone(x, DdUtxosOf({k}))) + CentsIn(Made(x, Len(chain) + 1, {k}))
  /\ CentsIn(Made(x, Len(chain) + 1, Keys)) - CentsIn(Gone(x, DdUtxosOf(Keys)))
       = CentsIn(Opened(x, Len(chain) + 1, Keys)) - CentsIn(Gone(x, PositionsOf(Keys)))

\* What each key should hold is a number.
MeantType == \A k \in Keys : meant[k] \in Int

\* A plain spend, and another device's, leave tokens and positions alone.
LEMMA PlainConserves ==
  ASSUME ChainOK(chain), MeantType, NEW x, x.type # "mint", DOMAIN DdAmountsByVout(x) = {},
         \A i \in DOMAIN x.in : At(x.in[i]).value > 0 /\ At(x.in[i]).script.kind # "collateral"
  PROVE  Conserves(x, meant)
<1>1. \A ks : Gone(x, DdUtxosOf(ks)) = {}
  BY NoTokensGone
<1>2. \A ks : Gone(x, PositionsOf(ks)) = {}
  BY NoPositionsGone
<1>3. \A n, ks : Made(x, n, ks) = {} /\ Opened(x, n, ks) = {}
  BY DEF Made, Opened
<1>4. \A n, ks : /\ CentsIn(Gone(x, DdUtxosOf(ks))) = 0 /\ CentsIn(Gone(x, PositionsOf(ks))) = 0
                 /\ CentsIn(Made(x, n, ks)) = 0 /\ CentsIn(Opened(x, n, ks)) = 0
  BY <1>1, <1>2, <1>3, CentsOfNone, Zenon
<1>5. \A k \in Keys : meant[k] \in Int
  BY DEF MeantType
<1>. QED  BY <1>4, <1>5 DEF Conserves

\* A mint makes a token and a position of the same cents.
LEMMA MintConserves ==
  ASSUME ChainOK(chain), MeantType, DOMAIN meant = Keys, NEW x, x.type = "mint",
         NEW k, NEW cents, NEW lock, NEW tier, MintShape(x, k, cents, lock, tier),
         \A i \in DOMAIN x.in : At(x.in[i]).value > 0 /\ At(x.in[i]).script.kind # "collateral"
  PROVE  Conserves(x, [meant EXCEPT ![k] = @ + cents])
<1> DEFINE n == Len(chain) + 1
           e == [at |-> <<n, 2>>, key |-> x.out[2].script.key, cents |-> DdAmountsByVout(x)[2]]
           fresh == [at |-> <<n, 1>>, value |-> x.out[1].value,
                     cents |-> x.out[3].script.pushes[1], lock |-> x.out[3].script.pushes[2],
                     key |-> x.out[3].script.pushes[4]]
<1>1. /\ k \in Keys /\ cents \in Nat /\ DOMAIN DdAmountsByVout(x) = {2}
      /\ DdAmountsByVout(x)[2] = cents /\ x.out[2].script.key = k
      /\ x.out[3].script.pushes[1] = cents /\ x.out[3].script.pushes[4] = k
  <2>1. /\ k \in Keys /\ cents \in Nat /\ DdAmountsByVout(x) = [m \in {2} |-> cents]
        /\ x.out[2] = Out(0, P2tr(k)) /\ x.out[3] = Out(0, Metadata("mint", <<cents, lock, tier, k>>))
    BY DEF MintShape
  <2>2. x.out[3].script.pushes = <<cents, lock, tier, k>>
    BY <2>1 DEF Out, Metadata
  <2>. QED  BY <2>1, <2>2 DEF Out, P2tr
<1>2. e.key = k /\ e.cents = cents /\ fresh.key = k /\ fresh.cents = cents
  BY <1>1
<1>3. \A ks : Made(x, n, ks) = IF k \in ks THEN {e} ELSE {}
  BY <1>1 DEF Made
<1>4. \A ks : Opened(x, n, ks) = IF k \in ks THEN {fresh} ELSE {}
  BY <1>2 DEF Opened
<1>. HIDE DEF n, e, fresh
<1>5. CentsIn({e}) = cents /\ CentsIn({fresh}) = cents
  <2>1. e.cents \in Int /\ fresh.cents \in Int
    BY <1>1, <1>2
  <2>. QED  BY <1>2, <2>1, CentsOfOneToken
<1>6. \A ks : Gone(x, DdUtxosOf(ks)) = {}
  BY NoTokensGone
<1>7. \A ks : Gone(x, PositionsOf(ks)) = {}
  BY NoPositionsGone
<1>a. \A ks : CentsIn(Gone(x, DdUtxosOf(ks))) = 0 /\ CentsIn(Gone(x, PositionsOf(ks))) = 0
  BY <1>6, <1>7, CentsOfNone, Zenon
<1>b. \A ks : /\ k \in ks => CentsIn(Made(x, n, ks)) = cents /\ CentsIn(Opened(x, n, ks)) = cents
              /\ k \notin ks => CentsIn(Made(x, n, ks)) = 0
  BY <1>3, <1>4, <1>5, CentsOfNone, Zenon
<1> DEFINE intent == [meant EXCEPT ![k] = @ + cents]
<1>8. ASSUME NEW j \in Keys
      PROVE  intent[j] = meant[j] - CentsIn(Gone(x, DdUtxosOf({j}))) + CentsIn(Made(x, n, {j}))
  <2>1. meant[j] \in Int
    BY DEF MeantType
  <2>2. CASE j = k
    <3>1. intent[j] = meant[j] + cents
      BY <1>1, <2>2
    <3>2. CentsIn(Made(x, n, {j})) = cents /\ CentsIn(Gone(x, DdUtxosOf({j}))) = 0
      BY <1>a, <1>b, <2>2
    <3>. HIDE DEF intent
    <3>. QED  BY <1>1, <2>1, <3>1, <3>2
  <2>3. CASE j # k
    <3>1. intent[j] = meant[j]
      BY <2>3
    <3>2. CentsIn(Made(x, n, {j})) = 0 /\ CentsIn(Gone(x, DdUtxosOf({j}))) = 0
      BY <1>a, <1>b, <2>3
    <3>. HIDE DEF intent
    <3>. QED  BY <2>1, <3>1, <3>2
  <2>. QED  BY <2>2, <2>3
<1>9. CentsIn(Made(x, n, Keys)) - CentsIn(Gone(x, DdUtxosOf(Keys)))
        = CentsIn(Opened(x, n, Keys)) - CentsIn(Gone(x, PositionsOf(Keys)))
  BY <1>1, <1>a, <1>b
<1>. HIDE DEF intent
<1>10. Conserves(x, intent)
  BY <1>8, <1>9 DEF Conserves, n
<1>. QED  BY <1>10 DEF intent

\* A token is known by its outpoint, and so is a position.
LEMMA KnownByOutpoint ==
  /\ \A d, e : DdReal(chain, d) /\ DdReal(chain, e) /\ d.at = e.at => d = e
  /\ \A p, q : PosReal(chain, p) /\ PosReal(chain, q) /\ p.at = q.at => p = q
<1>1. \A d, e : DdReal(chain, d) /\ DdReal(chain, e) /\ d.at = e.at => d = e
  BY DEF DdReal
<1>2. ASSUME NEW p, NEW q, PosReal(chain, p), PosReal(chain, q), p.at = q.at PROVE p = q
  <2>1. PICK s \in DOMAIN chain :
      p = [at |-> <<s, 1>>, value |-> chain[s].out[1].value,
           cents |-> chain[s].out[3].script.pushes[1], lock |-> chain[s].out[3].script.pushes[2],
           key |-> chain[s].out[3].script.pushes[4]]
    BY <1>2 DEF PosReal
  <2>2. PICK t \in DOMAIN chain :
      q = [at |-> <<t, 1>>, value |-> chain[t].out[1].value,
           cents |-> chain[t].out[3].script.pushes[1], lock |-> chain[t].out[3].script.pushes[2],
           key |-> chain[t].out[3].script.pushes[4]]
    BY <1>2 DEF PosReal
  <2>3. p.at[1] = s /\ q.at[1] = t
    BY <2>1, <2>2
  <2>. QED  BY <1>2, <2>1, <2>2, <2>3
<1>. QED  BY <1>1, <1>2

\* A transfer of some of a token's cents: the token and a payer go in, the amount and
\* the change come out, and the owners are meant to hold as much less and more.
Transferred(x, dd, to, cents, dds, intent) ==
  /\ x.type = "transfer" /\ DdReal(chain, dd) /\ to \in Keys /\ cents \in Nat /\ cents <= dd.cents
  /\ DOMAIN x.in = {1, 2} /\ x.in[1] = dd.at /\ dd.at \in Unspent
  /\ At(x.in[2]).value > 0 /\ At(x.in[2]).script.kind # "collateral"
  /\ Len(dds) = (IF dd.cents - cents = 0 THEN 1 ELSE 2)
  /\ dds[1] = [key |-> to, cents |-> cents]
  /\ dd.cents - cents # 0 => dds[2] = [key |-> dd.key, cents |-> dd.cents - cents]
  /\ DOMAIN DdAmountsByVout(x) = 1 .. Len(dds)
  /\ \A i \in 1 .. Len(dds) :
       DdAmountsByVout(x)[i] = dds[i].cents /\ x.out[i] = Out(0, P2tr(dds[i].key))
  /\ \A k \in Keys : intent[k] = meant[k] - (IF k = dd.key THEN cents ELSE 0)
                                           + (IF k = to THEN cents ELSE 0)

\* A transfer moves cents between keys, and none is lost.
LEMMA TransferConserves ==
  ASSUME ChainOK(chain), MeantType, DOMAIN meant = Keys,
         NEW x, NEW dd, NEW to, NEW cents, NEW dds, NEW intent,
         Transferred(x, dd, to, cents, dds, intent)
  PROVE  Conserves(x, intent)
<1>0. /\ x.type = "transfer" /\ DdReal(chain, dd) /\ to \in Keys /\ cents \in Nat /\ cents <= dd.cents
      /\ DOMAIN x.in = {1, 2} /\ x.in[1] = dd.at /\ dd.at \in Unspent
      /\ At(x.in[2]).value > 0 /\ At(x.in[2]).script.kind # "collateral"
      /\ Len(dds) = (IF dd.cents - cents = 0 THEN 1 ELSE 2)
      /\ dds[1] = [key |-> to, cents |-> cents]
      /\ dd.cents - cents # 0 => dds[2] = [key |-> dd.key, cents |-> dd.cents - cents]
      /\ DOMAIN DdAmountsByVout(x) = 1 .. Len(dds)
      /\ \A i \in 1 .. Len(dds) :
           DdAmountsByVout(x)[i] = dds[i].cents /\ x.out[i] = Out(0, P2tr(dds[i].key))
      /\ \A k \in Keys : intent[k] = meant[k] - (IF k = dd.key THEN cents ELSE 0)
                                               + (IF k = to THEN cents ELSE 0)
  BY DEF Transferred
<1>. USE <1>0
<1> DEFINE n == Len(chain) + 1
           m == Len(dds)
           rest == dd.cents - cents
           e(i) == [at |-> <<n, i>>, key |-> x.out[i].script.key, cents |-> DdAmountsByVout(x)[i]]
<1>1. /\ Holds(chain, dd.at) /\ dd.cents \in Nat /\ dd.key \in Keys /\ rest \in Nat
      /\ At(dd.at).value = 0 /\ At(dd.at).script.kind = "p2tr" /\ dd.cents = cents + rest
  <2>1. /\ Holds(chain, dd.at) /\ dd.cents \in Nat /\ dd.key \in Keys
        /\ At(dd.at).value = 0 /\ At(dd.at).script.kind = "p2tr"
    BY TokenIs
  <2>2. rest \in Nat /\ dd.cents = cents + rest
    <3>1. \A a, b \in Nat : b <= a => a - b \in Nat /\ a = b + (a - b)
      OBVIOUS
    <3>. QED  BY <2>1, <3>1
  <2>. HIDE DEF rest
  <2>. QED  BY <2>1, <2>2
<1>2. dds[1].key = to /\ dds[1].cents = cents
      /\ (rest # 0 => dds[2].key = dd.key /\ dds[2].cents = rest)
      /\ m = (IF rest = 0 THEN 1 ELSE 2)
  OBVIOUS
<1>3. \A i \in 1 .. m : e(i).cents = dds[i].cents /\ x.out[i].script.key = dds[i].key
  <2>. SUFFICES ASSUME NEW i \in 1 .. m
                PROVE  e(i).cents = dds[i].cents /\ x.out[i].script.key = dds[i].key
    OBVIOUS
  <2>1. x.out[i] = Out(0, P2tr(dds[i].key)) /\ DdAmountsByVout(x)[i] = dds[i].cents
    OBVIOUS
  <2>2. x.out[i].script.key = dds[i].key
    BY <2>1 DEF Out, P2tr
  <2>. QED  BY <2>1, <2>2
<1>4. \A ks : Made(x, n, ks) = {e(i) : i \in {j \in 1 .. m : dds[j].key \in ks}}
  <2>1. DOMAIN DdAmountsByVout(x) = 1 .. m
    OBVIOUS
  <2>2. \A ks : {j \in DOMAIN DdAmountsByVout(x) : x.out[j].script.key \in ks}
                  = {j \in 1 .. m : dds[j].key \in ks}
    BY <1>3, <2>1
  <2>. QED  BY <2>2 DEF Made
<1>5. \A i, j : e(i) = e(j) => i = j
  <2>1. \A i : e(i).at[2] = i
    OBVIOUS
  <2>. HIDE DEF e
  <2>. QED  BY <2>1
<1>. HIDE DEF e, n
<1>6. \A ks : Gone(x, DdUtxosOf(ks)) = IF dd.key \in ks THEN {dd} ELSE {}
  <2>. SUFFICES ASSUME NEW ks
                PROVE  Gone(x, DdUtxosOf(ks)) = IF dd.key \in ks THEN {dd} ELSE {}
    OBVIOUS
  <2>1. \A d : d \in DdUtxosOf(ks) <=> DdReal(chain, d) /\ d.key \in ks /\ d.at \in Unspent
    BY TokensAreReal
  <2>2. \A d : DdReal(chain, d) => d.at # x.in[2]
    <3>. SUFFICES ASSUME NEW d, DdReal(chain, d) PROVE d.at # x.in[2]
      OBVIOUS
    <3>1. At(d.at).value = 0
      BY TokenIs
    <3>. QED  BY <3>1
  <2>3. \A d : DdReal(chain, d) /\ d.at = x.in[1] => d = dd
    BY KnownByOutpoint
  <2>4. \A d : d \in Gone(x, DdUtxosOf(ks)) <=> d = dd /\ dd.key \in ks
    BY <2>1, <2>2, <2>3 DEF Gone
  <2>. QED  BY <2>4
<1>7. \A ks : Gone(x, PositionsOf(ks)) = {}
  <2>1. \A i \in DOMAIN x.in : At(x.in[i]).script.kind # "collateral"
    BY <1>1
  <2>. QED  BY <2>1, NoPositionsGone
<1>8. \A ks : Opened(x, n, ks) = {}
  BY DEF Opened
<1>9. CentsIn({dd}) = dd.cents
  <2>1. dd.cents \in Int
    BY <1>1
  <2>. QED  BY <2>1, CentsOfOneToken
<1>10. CentsIn({e(1)}) = cents /\ e(1).cents = cents /\ 1 \in 1 .. m
  <2>1. e(1).cents = cents /\ e(1).cents \in Int /\ 1 \in 1 .. m
    BY <1>2, <1>3
  <2>2. CentsIn({e(1)}) = e(1).cents
    BY <2>1, CentsOfOneToken
  <2>. QED  BY <2>1, <2>2
<1>. HIDE DEF m, rest
<1>11. rest # 0 => CentsIn({e(2)}) = rest /\ e(2).cents = rest /\ 2 \in 1 .. m
                   /\ CentsIn({e(1), e(2)}) = dd.cents
  <2>. SUFFICES ASSUME rest # 0
                PROVE  CentsIn({e(2)}) = rest /\ e(2).cents = rest /\ 2 \in 1 .. m
                       /\ CentsIn({e(1), e(2)}) = dd.cents
    OBVIOUS
  <2>1. e(2).cents = rest /\ e(2).cents \in Int /\ 2 \in 1 .. m
    BY <1>1, <1>2, <1>3
  <2>2. CentsIn({e(2)}) = e(2).cents
    BY <2>1, CentsOfOneToken
  <2>3. e(1) # e(2) /\ e(1).cents \in Int
    BY <1>5, <1>10
  <2>4. CentsIn({e(1), e(2)}) = e(1).cents + e(2).cents
    BY <2>1, <2>3, CentsOfTwoTokens
  <2>. QED  BY <1>1, <1>10, <2>1, <2>2, <2>4
<1>12. /\ rest = 0 => \A ks : Made(x, n, ks) = IF to \in ks THEN {e(1)} ELSE {}
       /\ rest # 0 => \A ks : Made(x, n, ks) = (IF to \in ks THEN {e(1)} ELSE {})
                                                 \cup (IF dd.key \in ks THEN {e(2)} ELSE {})
  <2>1. CASE rest = 0
    <3>1. 1 .. m = {1}
      BY <1>2, <2>1
    <3>2. \A ks : {j \in 1 .. m : dds[j].key \in ks} = IF to \in ks THEN {1} ELSE {}
      BY <1>2, <3>1
    <3>3. \A ks : Made(x, n, ks) = IF to \in ks THEN {e(1)} ELSE {}
      BY <1>4, <3>2
    <3>. QED  BY <2>1, <3>3
  <2>2. CASE rest # 0
    <3>1. 1 .. m = {1, 2}
      BY <1>2, <2>2
    <3>2. \A ks : {j \in 1 .. m : dds[j].key \in ks}
                    = (IF to \in ks THEN {1} ELSE {}) \cup (IF dd.key \in ks THEN {2} ELSE {})
      BY <1>2, <2>2, <3>1
    <3>3. \A ks : Made(x, n, ks) = (IF to \in ks THEN {e(1)} ELSE {})
                                                 \cup (IF dd.key \in ks THEN {e(2)} ELSE {})
      BY <1>4, <3>2
    <3>. QED  BY <2>2, <3>3
  <2>. QED  BY <2>1, <2>2
<1>a. \A ks : /\ dd.key \in ks => CentsIn(Gone(x, DdUtxosOf(ks))) = dd.cents
              /\ dd.key \notin ks => CentsIn(Gone(x, DdUtxosOf(ks))) = 0
              /\ CentsIn(Gone(x, PositionsOf(ks))) = 0 /\ CentsIn(Opened(x, n, ks)) = 0
  BY <1>6, <1>7, <1>8, <1>9, CentsOfNone, Zenon
<1>b. rest = 0 => \A ks : /\ to \in ks => CentsIn(Made(x, n, ks)) = cents
                          /\ to \notin ks => CentsIn(Made(x, n, ks)) = 0
  BY <1>10, <1>12, CentsOfNone, Zenon
<1>c. rest # 0 => \A ks : /\ to \in ks /\ dd.key \in ks => CentsIn(Made(x, n, ks)) = dd.cents
                          /\ to \in ks /\ dd.key \notin ks => CentsIn(Made(x, n, ks)) = cents
                          /\ to \notin ks /\ dd.key \in ks => CentsIn(Made(x, n, ks)) = rest
                          /\ to \notin ks /\ dd.key \notin ks => CentsIn(Made(x, n, ks)) = 0
  <2>. SUFFICES ASSUME rest # 0, NEW ks
                PROVE  /\ to \in ks /\ dd.key \in ks => CentsIn(Made(x, n, ks)) = dd.cents
                       /\ to \in ks /\ dd.key \notin ks => CentsIn(Made(x, n, ks)) = cents
                       /\ to \notin ks /\ dd.key \in ks => CentsIn(Made(x, n, ks)) = rest
                       /\ to \notin ks /\ dd.key \notin ks => CentsIn(Made(x, n, ks)) = 0
    OBVIOUS
  <2>1. /\ to \in ks /\ dd.key \in ks => Made(x, n, ks) = {e(1), e(2)}
        /\ to \in ks /\ dd.key \notin ks => Made(x, n, ks) = {e(1)}
        /\ to \notin ks /\ dd.key \in ks => Made(x, n, ks) = {e(2)}
        /\ to \notin ks /\ dd.key \notin ks => Made(x, n, ks) = {}
    BY <1>12
  <2>. QED  BY <1>10, <1>11, <2>1, CentsOfNone, Zenon
<1>13. ASSUME NEW k \in Keys
       PROVE  intent[k] = meant[k] - CentsIn(Gone(x, DdUtxosOf({k}))) + CentsIn(Made(x, n, {k}))
  <2>1. meant[k] \in Int
    BY DEF MeantType
  <2>2. CASE k = to /\ k = dd.key
    <3>1. intent[k] = meant[k]
      <4>1. \A a \in Int, b \in Nat : a - b + b = a
        OBVIOUS
      <4>. QED  BY <2>1, <2>2, <4>1
    <3>2. CentsIn(Gone(x, DdUtxosOf({k}))) = dd.cents
      BY <1>a, <2>2
    <3>3. CentsIn(Made(x, n, {k})) = dd.cents
      <4>1. to \in {k} /\ dd.key \in {k}
        BY <2>2
      <4>2. CASE rest = 0
        BY <1>1, <1>b, <4>1, <4>2
      <4>3. CASE rest # 0
        BY <1>c, <4>1, <4>3
      <4>. QED  BY <4>2, <4>3
    <3>. QED  BY <1>1, <2>1, <3>1, <3>2, <3>3
  <2>3. CASE k = to /\ k # dd.key
    <3>1. intent[k] = meant[k] + cents
      BY <2>1, <2>3
    <3>2. CentsIn(Gone(x, DdUtxosOf({k}))) = 0
      BY <1>a, <2>3
    <3>3. CentsIn(Made(x, n, {k})) = cents
      BY <1>b, <1>c, <2>3
    <3>. QED  BY <2>1, <3>1, <3>2, <3>3
  <2>4. CASE k # to /\ k = dd.key
    <3>1. intent[k] = meant[k] - cents
      BY <2>1, <2>4
    <3>2. CentsIn(Gone(x, DdUtxosOf({k}))) = dd.cents
      BY <1>a, <2>4
    <3>3. CentsIn(Made(x, n, {k})) = rest
      BY <1>b, <1>c, <2>4
    <3>. QED  BY <1>1, <2>1, <3>1, <3>2, <3>3
  <2>5. CASE k # to /\ k # dd.key
    <3>1. intent[k] = meant[k]
      BY <2>1, <2>5
    <3>2. CentsIn(Gone(x, DdUtxosOf({k}))) = 0
      BY <1>a, <2>5
    <3>3. CentsIn(Made(x, n, {k})) = 0
      BY <1>b, <1>c, <2>5
    <3>. QED  BY <2>1, <3>1, <3>2, <3>3
  <2>. QED  BY <2>2, <2>3, <2>4, <2>5
<1>14. CentsIn(Made(x, n, Keys)) - CentsIn(Gone(x, DdUtxosOf(Keys)))
        = CentsIn(Opened(x, n, Keys)) - CentsIn(Gone(x, PositionsOf(Keys)))
  <2>1. CentsIn(Gone(x, DdUtxosOf(Keys))) = dd.cents /\ CentsIn(Opened(x, n, Keys)) = 0
        /\ CentsIn(Gone(x, PositionsOf(Keys))) = 0
    BY <1>1, <1>a
  <2>2. CentsIn(Made(x, n, Keys)) = dd.cents
    BY <1>1, <1>b, <1>c
  <2>. QED  BY <1>1, <2>1, <2>2
<1>15. Conserves(x, intent)
  BY <1>13, <1>14 DEF Conserves, n
<1>. QED  BY <1>15

\* A redemption burns exactly the cents of the position it closes.
LEMMA RedeemConserves ==
  ASSUME ChainOK(chain), MeantType, DOMAIN meant = Keys, NEW x, x.type = "redeem",
         NEW p, PosReal(chain, p), NEW burn, BurnOK(chain, burn, p),
         DOMAIN x.in = 1 .. Len(burn) + 2, x.in[1] = p.at,
         \A i \in 1 .. Len(burn) : x.in[1 + i] = burn[i].at,
         At(x.in[Len(burn) + 2]).value > 0, At(x.in[Len(burn) + 2]).script.kind # "collateral",
         \A i \in DOMAIN x.in : x.in[i] \in Unspent,
         RedeemChange(p, burn) = 0 => DOMAIN DdAmountsByVout(x) = {},
         RedeemChange(p, burn) > 0 => /\ DdAmountsByVout(x) = [n \in {2} |-> RedeemChange(p, burn)]
                                      /\ x.out[2] = Out(0, P2tr(p.key))
  PROVE  Conserves(x, [meant EXCEPT ![p.key] = @ - p.cents])
<1> DEFINE n == Len(chain) + 1
           m == Len(burn)
           left == RedeemChange(p, burn)
           e == [at |-> <<n, 2>>, key |-> x.out[2].script.key, cents |-> DdAmountsByVout(x)[2]]
           intent == [meant EXCEPT ![p.key] = @ - p.cents]
           R == {burn[i] : i \in DOMAIN burn}
<1>1. /\ IsSeq(burn) /\ m \in Nat /\ DOMAIN burn = 1 .. m /\ left \in Nat
      /\ TotalCents(burn) = left + p.cents
      /\ \A i \in 1 .. m : DdReal(chain, burn[i]) /\ burn[i].key = p.key /\ burn[i].cents \in Nat
  BY BurnTotal DEF IsSeq
<1>2. /\ p.key \in Keys /\ p.cents \in Nat /\ At(p.at).value # 0
      /\ At(p.at).script.kind = "collateral"
  <2>1. /\ p.key \in Keys /\ p.cents \in Nat /\ At(p.at).value = p.value /\ p.value >= Fold
        /\ At(p.at).script = Collateral(p.key, p.lock, p.cents) /\ p.value \in Nat
    <3>1. At(p.at) = OutOf(chain, p.at)
      BY DEF At, OutOf
    <3>2. /\ p.key \in Keys /\ p.cents \in Nat \ {0} /\ OutOf(chain, p.at).value = p.value
          /\ p.value >= Fold /\ OutOf(chain, p.at).script = Collateral(p.key, p.lock, p.cents)
          /\ p.value \in Nat
      BY PositionIs, Zenon
    <3>. HIDE DEF n, m, left, e, intent, R
    <3>. QED  BY <3>1, <3>2
  <2>. QED  BY <2>1, TxNumbers DEF Collateral
<1>3. /\ \A i \in DOMAIN x.in : i = 1 \/ i = m + 2 \/ \E j \in 1 .. m : i = 1 + j
      /\ 1 \in DOMAIN x.in /\ \A j \in 1 .. m : 1 + j \in DOMAIN x.in
  <2>1. ASSUME NEW i \in 1 .. m + 2, i # 1, i # m + 2 PROVE \E j \in 1 .. m : i = 1 + j
    <3>1. i - 1 \in 1 .. m /\ i = 1 + (i - 1)
      BY <1>1, <2>1
    <3>. QED  BY <3>1
  <2>. QED  BY <1>1, <2>1
<1>4. \A i \in 1 .. m : At(burn[i].at).value = 0 /\ At(burn[i].at).script.kind # "collateral"
  <2>. SUFFICES ASSUME NEW i \in 1 .. m
                PROVE  At(burn[i].at).value = 0 /\ At(burn[i].at).script.kind # "collateral"
    OBVIOUS
  <2>1. DdReal(chain, burn[i])
    BY <1>1
  <2>2. At(burn[i].at).value = 0 /\ At(burn[i].at).script.kind = "p2tr"
    BY <2>1, TokenIs
  <2>. QED  BY <2>2
<1>. HIDE DEF m
<1>5. \A ks : Gone(x, DdUtxosOf(ks)) = IF p.key \in ks THEN R ELSE {}
  <2>. SUFFICES ASSUME NEW ks
                PROVE  Gone(x, DdUtxosOf(ks)) = IF p.key \in ks THEN R ELSE {}
    OBVIOUS
  <2>1. \A d : d \in DdUtxosOf(ks) <=> DdReal(chain, d) /\ d.key \in ks /\ d.at \in Unspent
    BY TokensAreReal
  <2>2. \A d : DdReal(chain, d) => d.at # x.in[1] /\ d.at # x.in[m + 2]
    <3>. SUFFICES ASSUME NEW d, DdReal(chain, d) PROVE d.at # x.in[1] /\ d.at # x.in[m + 2]
      OBVIOUS
    <3>1. At(d.at).value = 0
      BY TokenIs
    <3>. QED  BY <1>2, <3>1 DEF m
  <2>3. \A d, f : DdReal(chain, d) /\ DdReal(chain, f) /\ d.at = f.at => d = f
    BY KnownByOutpoint
  <2>4. \A j \in 1 .. m : x.in[1 + j] = burn[j].at /\ burn[j].at \in Unspent
    BY <1>3 DEF m
  <2>5. ASSUME NEW d, DdReal(chain, d)
        PROVE  (\E i \in DOMAIN x.in : d.at = x.in[i]) <=> d \in R
    <3>1. (\E i \in DOMAIN x.in : d.at = x.in[i]) => \E j \in 1 .. m : d.at = burn[j].at
      BY <1>3, <2>2, <2>4, <2>5
    <3>2. (\E j \in 1 .. m : d.at = burn[j].at) => d \in R
      BY <1>1, <2>3, <2>5
    <3>3. d \in R => \E i \in DOMAIN x.in : d.at = x.in[i]
      BY <1>1, <1>3, <2>4
    <3>. QED  BY <3>1, <3>2, <3>3
  <2>6. \A d \in R : DdReal(chain, d) /\ d.key = p.key /\ d.at \in Unspent
    BY <1>1, <2>4
  <2>. HIDE DEF R
  <2>7. \A d : d \in Gone(x, DdUtxosOf(ks)) <=> d \in R /\ p.key \in ks
    BY <2>1, <2>5, <2>6 DEF Gone
  <2>. QED  BY <2>7
<1>6. \A ks : Gone(x, PositionsOf(ks)) = IF p.key \in ks THEN {p} ELSE {}
  <2>. SUFFICES ASSUME NEW ks
                PROVE  Gone(x, PositionsOf(ks)) = IF p.key \in ks THEN {p} ELSE {}
    OBVIOUS
  <2>1. \A q : q \in PositionsOf(ks) <=> PosReal(chain, q) /\ q.key \in ks /\ q.at \in Unspent
    BY PositionsAreReal
  <2>2. ASSUME NEW q, PosReal(chain, q), NEW i \in DOMAIN x.in, q.at = x.in[i]
        PROVE  q = p
    <3>1. At(q.at).script = Collateral(q.key, q.lock, q.cents)
      BY <2>2, PositionIs DEF At, OutOf
    <3>2. At(q.at).script.kind = "collateral"
      BY <3>1 DEF Collateral
    <3>3. i = 1
      BY <1>3, <1>4, <2>2, <3>2 DEF m
    <3>4. q.at = p.at
      BY <2>2, <3>3
    <3>. QED  BY <2>2, <3>4, KnownByOutpoint
  <2>3. p.at \in Unspent
    BY <1>3
  <2>4. \A q : q \in Gone(x, PositionsOf(ks)) <=> q = p /\ p.key \in ks
    BY <1>3, <2>1, <2>2, <2>3 DEF Gone
  <2>. QED  BY <2>4
<1>7. \A ks : Opened(x, n, ks) = {}
  BY DEF Opened
<1>8. /\ left = 0 => \A ks : Made(x, n, ks) = {}
      /\ left > 0 => \A ks : Made(x, n, ks) = IF p.key \in ks THEN {e} ELSE {}
  <2>1. CASE left = 0
    BY <2>1 DEF Made
  <2>2. CASE left > 0
    <3>1. DOMAIN DdAmountsByVout(x) = {2} /\ x.out[2].script.key = p.key
      BY <2>2 DEF Out, P2tr
    <3>. QED  BY <2>2, <3>1 DEF Made
  <2>. QED  BY <1>1, <2>1, <2>2
<1>9. CentsIn(R) = left + p.cents
  <2>1. /\ \A i \in DOMAIN burn : burn[i].cents \in Int
        /\ \A i, j \in DOMAIN burn : burn[i].at = burn[j].at => i = j
    BY <1>1 DEF BurnOK
  <2>2. CentsIn(R) = TotalCents(burn)
    BY <1>1, <2>1, CentsOfBurn
  <2>. QED  BY <1>1, <2>2
<1>10. CentsIn({p}) = p.cents
  <2>1. p.cents \in Int
    BY <1>2
  <2>. QED  BY <2>1, CentsOfOneToken
<1>11. left > 0 => CentsIn({e}) = left
  <2>. SUFFICES ASSUME left > 0 PROVE CentsIn({e}) = left
    OBVIOUS
  <2>1. e.cents = left /\ e.cents \in Int
    BY <1>1
  <2>. HIDE DEF e, left
  <2>2. CentsIn({e}) = e.cents
    BY <2>1, CentsOfOneToken
  <2>. QED  BY <2>1, <2>2
<1>. HIDE DEF e, left, n, R
<1>12. \A ks : /\ p.key \in ks => /\ CentsIn(Gone(x, DdUtxosOf(ks))) = left + p.cents
                                  /\ CentsIn(Gone(x, PositionsOf(ks))) = p.cents
               /\ p.key \notin ks => CentsIn(Gone(x, DdUtxosOf(ks))) = 0
               /\ CentsIn(Opened(x, n, ks)) = 0
  BY <1>5, <1>6, <1>7, <1>9, <1>10, CentsOfNone, Zenon
<1>13. \A ks : /\ p.key \in ks => CentsIn(Made(x, n, ks)) = left
               /\ p.key \notin ks => CentsIn(Made(x, n, ks)) = 0
  <2>1. CASE left = 0
    BY <1>8, <2>1, CentsOfNone, Zenon
  <2>2. CASE left > 0
    BY <1>8, <1>11, <2>2, CentsOfNone, Zenon
  <2>. QED  BY <1>1, <2>1, <2>2
<1>14. ASSUME NEW k \in Keys
       PROVE  intent[k] = meant[k] - CentsIn(Gone(x, DdUtxosOf({k}))) + CentsIn(Made(x, n, {k}))
  <2>1. meant[k] \in Int
    BY DEF MeantType
  <2>2. CASE k = p.key
    <3>1. intent[k] = meant[k] - p.cents
      BY <1>2, <2>2
    <3>2. CentsIn(Gone(x, DdUtxosOf({k}))) = left + p.cents /\ CentsIn(Made(x, n, {k})) = left
      BY <1>12, <1>13, <2>2
    <3>. HIDE DEF intent
    <3>. QED  BY <1>1, <1>2, <2>1, <3>1, <3>2
  <2>3. CASE k # p.key
    <3>1. intent[k] = meant[k]
      BY <2>3
    <3>2. CentsIn(Gone(x, DdUtxosOf({k}))) = 0 /\ CentsIn(Made(x, n, {k})) = 0
      BY <1>12, <1>13, <2>3
    <3>. HIDE DEF intent
    <3>. QED  BY <2>1, <3>1, <3>2
  <2>. QED  BY <2>2, <2>3
<1>15. CentsIn(Made(x, n, Keys)) - CentsIn(Gone(x, DdUtxosOf(Keys)))
        = CentsIn(Opened(x, n, Keys)) - CentsIn(Gone(x, PositionsOf(Keys)))
  BY <1>1, <1>2, <1>12, <1>13
<1>. HIDE DEF intent
<1>16. Conserves(x, intent)
  BY <1>14, <1>15 DEF Conserves, n
<1>. QED  BY <1>16 DEF intent

-----------------------------------------------------------------------------
(* A draft holds what its plan took from the chain *)

\* What Max drains are coins of value of the wallet.
LEMMA DrainableIs ==
  ASSUME NEW w
  PROVE  /\ Drainable(w) \subseteq UtxosOf(ToSet(KeysOf[w])) /\ \A c \in Drainable(w) : c.value > 0
         /\ SpendableUtxos(w) = UtxosOf(ToSet(KeysOf[w]))
BY DEF Drainable, SpendableUtxos

\* Each plan leaves a draft that holds what it read.
LEMMA SendDraft ==
  ASSUME Known, SendPlanned
  PROVE  task' = Idle /\ DraftOK(chain, tip, draft')
<1> DEFINE r == task.recipient
<1>1. PICK plan \in SendPlans :
        task' = Idle /\ draft' = [kind |-> "send", of |-> task.of, plan |-> plan, recipient |-> r]
  BY DEF SendPlanned, Plan
<1>2. /\ ChainOK(chain) /\ task.of \in Wallet /\ Plain(r) /\ task.amount \in SendAmounts \cup {Nil}
  BY DEF Known, TaskOK, SendPlanned
<1> DEFINE ks == ToSet(KeysOf[task.of])
<1>3. ks \subseteq Keys
  BY <1>2, KeysAre
<1>4. PlanOK(chain, plan, r)
  <2>1. CASE task.amount = Nil
    <3>1. plan \in PlanMaxSpend(Drainable(task.of), r)
      BY <1>1, <2>1 DEF SendPlans
    <3>2. Drainable(task.of) \subseteq UtxosOf(ks) /\ \A c \in Drainable(task.of) : c.value > 0
      BY DrainableIs
    <3>. HIDE DEF ks, r
    <3>. QED  BY <1>2, <1>3, <3>1, <3>2, PlanMaxIs
  <2>2. CASE task.amount # Nil
    <3>1. plan \in PlanSpend(UtxosOf(ks), task.amount, r)
      BY <1>1, <2>2 DEF SendPlans, SpendableUtxos
    <3>2. task.amount \in Nat \ {0}
      BY <1>2, <2>2, LedgerConstants
    <3>. HIDE DEF ks, r
    <3>. QED  BY <1>2, <1>3, <3>1, <3>2, PlanSpendIs
  <2>. QED  BY <2>1, <2>2
<1>. HIDE DEF r
<1>5. draft'.kind = "send" /\ draft'.plan = plan /\ draft'.recipient = r
  BY <1>1
<1>. QED  BY <1>1, <1>2, <1>4, <1>5 DEF DraftOK, SpendOK

LEMMA ConsolidateDraft ==
  ASSUME Known, ConsolidatePlanned
  PROVE  task' = Idle /\ DraftOK(chain, tip, draft')
<1> DEFINE r == P2tr(ReceiveKey(task.of))
<1>1. PICK plan \in PlanMaxSpend(Drainable(task.of), r) :
        task' = Idle
        /\ draft' = [kind |-> "consolidate", of |-> task.of, plan |-> plan, recipient |-> r]
  BY DEF ConsolidatePlanned, Plan
<1>2. ChainOK(chain) /\ task.of \in Wallet
  BY DEF Known, TaskOK, ConsolidatePlanned
<1> DEFINE ks == ToSet(KeysOf[task.of])
<1>3. ks \subseteq Keys
  BY <1>2, KeysAre
<1>4. Plain(r) /\ r = P2tr(r.key)
  BY KeyScripts
<1>5. Drainable(task.of) \subseteq UtxosOf(ks) /\ \A c \in Drainable(task.of) : c.value > 0
  BY DrainableIs
<1>. HIDE DEF ks, r
<1>6. PlanOK(chain, plan, r)
  BY <1>1, <1>2, <1>3, <1>5, PlanMaxIs
<1>7. draft'.kind = "consolidate" /\ draft'.plan = plan /\ draft'.recipient = r
  BY <1>1
<1>. QED  BY <1>1, <1>4, <1>6, <1>7 DEF DraftOK, SpendOK

\* The coin picked for a fee or a collateral is real and enough.
LEMMA CoinPicked ==
  ASSUME Known, NEW w \in Wallet, NEW least, NEW prefer,
         NEW u \in PickDgbCoin(SpendableUtxos(w), least, prefer)
  PROVE  CoinReal(chain, u) /\ u.value >= least
<1> DEFINE ks == ToSet(KeysOf[w])
<1>1. u \in UtxosOf(ks) /\ u.value >= least
  BY PickIs DEF SpendableUtxos
<1>2. ks \subseteq Keys
  BY KeysAre
<1>. QED  BY <1>1, <1>2, CoinsAreReal

LEMMA MintDraft ==
  ASSUME Known, MintPlanned
  PROVE  task' = Idle /\ DraftOK(chain, tip, draft')
<1> DEFINE need == RequiredCollateral(task.cents, task.tier, task.price, task.bps) + FlowFee
<1>1. PICK u \in PickDgbCoin(SpendableUtxos(task.of), need, Nil) :
        task' = Idle
        /\ draft' = [kind |-> "mint", of |-> task.of, cents |-> task.cents, tier |-> task.tier,
                     price |-> task.price, bps |-> task.bps, utxo |-> u]
  BY DEF MintPlanned, Plan
<1>2. task.of \in Wallet /\ Asked(task) /\ Collateralised(task.cents, task.tier, task.price, task.bps)
  BY DEF Known, TaskOK, MintPlanned
<1>. HIDE DEF need
<1>3. CoinReal(chain, u)
  BY <1>1, <1>2, CoinPicked
<1>4. /\ draft'.kind = "mint" /\ draft'.utxo = u /\ draft'.cents = task.cents
      /\ draft'.tier = task.tier /\ draft'.price = task.price /\ draft'.bps = task.bps
  BY <1>1
<1>. QED  BY <1>1, <1>2, <1>3, <1>4 DEF DraftOK, MintOK, Asked

LEMMA TransferDraft ==
  ASSUME Known, TransferPlanned
  PROVE  task' = Idle /\ DraftOK(chain, tip, draft')
<1>1. PICK u \in PickDgbCoin(SpendableUtxos(task.of), FlowFee, task.dd.key) :
        task' = Idle
        /\ draft' = [kind |-> "transfer", of |-> task.of, dd |-> task.dd, to |-> task.to,
                     cents |-> task.cents, feeUtxo |-> u]
  BY DEF TransferPlanned, Plan
<1>2. task.of \in Wallet /\ TransferOK(chain, task)
  BY DEF Known, TaskOK, TransferPlanned
<1>3. CoinReal(chain, u) /\ u.value >= FlowFee
  BY <1>2, CoinPicked
<1>4. /\ draft'.kind = "transfer" /\ draft'.dd = task.dd /\ draft'.to = task.to
      /\ draft'.cents = task.cents /\ draft'.feeUtxo = u
  BY <1>1
<1>. QED  BY <1>1, <1>2, <1>3, <1>4 DEF DraftOK, TransferOK, PaysFlow

LEMMA RedeemDraft ==
  ASSUME Known, RedeemPlanned
  PROVE  task' = Idle /\ DraftOK(chain, tip, draft')
<1>1. PICK u \in PickDgbCoin(SpendableUtxos(task.of), FlowFee, task.burn[1].key) :
        task' = Idle
        /\ draft' = [kind |-> "redeem", of |-> task.of, position |-> task.position,
                     burn |-> task.burn, feeUtxo |-> u]
  BY DEF RedeemPlanned, Plan
<1>2. task.of \in Wallet /\ RipeOK(chain, tip, task) /\ BurnOK(chain, task.burn, task.position)
  BY DEF Known, TaskOK, RedeemPlanned
<1>3. CoinReal(chain, u) /\ u.value >= FlowFee
  BY <1>2, CoinPicked
<1>4. /\ draft'.kind = "redeem" /\ draft'.position = task.position /\ draft'.burn = task.burn
      /\ draft'.feeUtxo = u
  BY <1>1
<1>. QED  BY <1>1, <1>2, <1>3, <1>4 DEF DraftOK, RipeOK, PaysFlow

\* An idle page knows nothing that could be false.
LEMMA IdleIsOK == TaskOK(chain, tip, Idle)
BY DEF Idle, TaskOK

\* Plans, Max and the screen keep what the page knows.
LEMMA PlanKnown == ASSUME Known, PlanStep PROVE Known'
<1>1. UNCHANGED <<chain, tip, open, meant>>
  BY DEF PlanStep, chainVars
<1>2. task' = Idle /\ DraftOK(chain, tip, draft')
  BY SendDraft, ConsolidateDraft, MintDraft, TransferDraft, RedeemDraft DEF PlanStep
<1>3. ChainOK(chain) /\ tip \in Nat /\ open \in Wallet \cup {Nil} /\ DOMAIN meant = Keys
  BY DEF Known
<1>. QED  BY <1>1, <1>2, <1>3, IdleIsOK DEF Known

LEMMA MaxKnown == ASSUME Known, MaxStep PROVE Known'
<1>1. UNCHANGED <<chain, tip, open, meant, draft>> /\ task' = Idle
  BY DEF MaxStep, MaxPlanned, Continue, chainVars
<1>2. ChainOK(chain) /\ tip \in Nat /\ open \in Wallet \cup {Nil} /\ DOMAIN meant = Keys
      /\ DraftOK(chain, tip, draft)
  BY DEF Known
<1>. QED  BY <1>1, <1>2, IdleIsOK DEF Known

LEMMA ScreenKnown == ASSUME Known, ScreenStep PROVE Known'
<1>1. UNCHANGED <<chain, tip, task, meant>> /\ draft' \in {Nil, draft}
      /\ open' \in Wallet \cup {Nil, open}
  BY DEF ScreenStep, Cancel, EditAmount, Lock, OpenOther, ResetWalletState, chainVars
<1>2. ChainOK(chain) /\ tip \in Nat /\ open \in Wallet \cup {Nil} /\ DOMAIN meant = Keys
      /\ DraftOK(chain, tip, draft) /\ TaskOK(chain, tip, task)
  BY DEF Known
<1>3. DraftOK(chain, tip, draft')
  BY <1>1, <1>2 DEF DraftOK
<1>. QED  BY <1>1, <1>2, <1>3 DEF Known

-----------------------------------------------------------------------------
(* The invariant, and what a transaction the network takes makes of it *)

\* The inductive invariant.
LedgerInv == Known /\ NeverInvalid /\ BalancesAreAsMeant /\ SupplyIsBacked

\* What the two conservation laws say of the next state.
LEMMA BalancesThen ==
  /\ BalancesAreAsMeant' <=> \A k \in Keys : meant'[k] = CentsIn(DdUtxosOf({k})')
  /\ SupplyIsBacked' <=> CentsIn(DdUtxosOf(Keys)') = CentsIn(PositionsOf(Keys)')
BY DEF BalancesAreAsMeant, SupplyIsBacked

\* What is meant for a key is a number, since it is what the key holds.
LEMMA MeantIsNumber ==
  ASSUME ChainOK(chain), BalancesAreAsMeant
  PROVE  MeantType
<1>. SUFFICES ASSUME NEW k \in Keys PROVE meant[k] \in Int
  BY DEF MeantType
<1>1. \A d \in DdUtxosOf({k}) : d.cents \in Int
  BY TokensAreReal, TokenIs
<1>2. IsFiniteSet(DdUtxosOf({k}))
  BY ReadsAreFinite
<1>3. CentsIn(DdUtxosOf({k})) \in Int
  BY <1>1, <1>2, CentsType
<1>. QED  BY <1>3 DEF BalancesAreAsMeant

\* A step that leaves the chain and what is meant alone keeps the balances.
LEMMA SameChain ==
  ASSUME UNCHANGED <<chain, meant>>, BalancesAreAsMeant, SupplyIsBacked, ChainOK(chain)
  PROVE  BalancesAreAsMeant' /\ SupplyIsBacked'
<1>1. \A o : o \in Unspent' <=> o \in Unspent
  BY UnspentThen, UnspentIs
<1>2. \A ks : DdUtxosOf(ks)' = DdUtxosOf(ks)
  <2>. SUFFICES ASSUME NEW ks PROVE DdUtxosOf(ks)' = DdUtxosOf(ks)
    OBVIOUS
  <2>1. \A d : d \in DdUtxosOf(ks)' <=> d \in DdUtxosOf(ks)
    BY <1>1, TokensThen, TokensAreReal
  <2>. QED  BY <2>1
<1>3. \A ks : PositionsOf(ks)' = PositionsOf(ks)
  <2>. SUFFICES ASSUME NEW ks PROVE PositionsOf(ks)' = PositionsOf(ks)
    OBVIOUS
  <2>1. \A d : d \in PositionsOf(ks)' <=> d \in PositionsOf(ks)
    BY <1>1, PositionsThen, PositionsAreReal
  <2>. QED  BY <2>1
<1>4. /\ \A k \in Keys : CentsIn(DdUtxosOf({k})') = CentsIn(DdUtxosOf({k}))
      /\ CentsIn(DdUtxosOf(Keys)') = CentsIn(DdUtxosOf(Keys))
      /\ CentsIn(PositionsOf(Keys)') = CentsIn(PositionsOf(Keys))
  BY <1>2, <1>3, Zenon
<1>. QED  BY <1>4, BalancesThen DEF BalancesAreAsMeant, SupplyIsBacked

\* A transaction that conserves what is meant keeps the balances and the backing.
LEMMA Taken ==
  ASSUME LedgerInv, NEW x, TxOK(x), \A i \in DOMAIN x.in : x.in[i] \in Unspent,
         chain' = Append(chain, x), Conserves(x, meant')
  PROVE  ChainOK(chain') /\ Grown(chain, chain') /\ BalancesAreAsMeant' /\ SupplyIsBacked'
<1> DEFINE n == Len(chain) + 1
<1>0. ChainOK(chain) /\ BalancesAreAsMeant /\ SupplyIsBacked
  BY DEF LedgerInv, Known
<1>1. ChainOK(chain') /\ Grown(chain, chain')
  BY <1>0, Appended
<1>2. \A k \in Keys : meant'[k] = CentsIn(DdUtxosOf({k})')
  <2>. SUFFICES ASSUME NEW k \in Keys PROVE meant'[k] = CentsIn(DdUtxosOf({k})')
    OBVIOUS
  <2>1. LET old == DdUtxosOf({k}) IN
        /\ CentsIn(DdUtxosOf({k})')
             = CentsIn(old) - CentsIn(Gone(x, old)) + CentsIn(Made(x, n, {k}))
        /\ CentsIn(old) \in Int /\ CentsIn(Gone(x, old)) \in Int /\ CentsIn(Made(x, n, {k})) \in Int
    BY <1>0, TokensBalance
  <2>2. meant[k] = CentsIn(DdUtxosOf({k}))
    BY <1>0 DEF BalancesAreAsMeant
  <2>3. meant'[k] = meant[k] - CentsIn(Gone(x, DdUtxosOf({k}))) + CentsIn(Made(x, n, {k}))
    BY DEF Conserves
  <2>. QED  BY <2>1, <2>2, <2>3
<1>3. CentsIn(DdUtxosOf(Keys)') = CentsIn(PositionsOf(Keys)')
  <2>1. LET old == DdUtxosOf(Keys) IN
        /\ CentsIn(DdUtxosOf(Keys)')
             = CentsIn(old) - CentsIn(Gone(x, old)) + CentsIn(Made(x, n, Keys))
        /\ CentsIn(old) \in Int /\ CentsIn(Gone(x, old)) \in Int /\ CentsIn(Made(x, n, Keys)) \in Int
    BY <1>0, TokensBalance
  <2>2. LET old == PositionsOf(Keys) IN
        /\ CentsIn(PositionsOf(Keys)')
             = CentsIn(old) - CentsIn(Gone(x, old)) + CentsIn(Opened(x, n, Keys))
        /\ CentsIn(old) \in Int /\ CentsIn(Gone(x, old)) \in Int /\ CentsIn(Opened(x, n, Keys)) \in Int
    BY <1>0, PositionsBalance
  <2>3. CentsIn(DdUtxosOf(Keys)) = CentsIn(PositionsOf(Keys))
    BY <1>0 DEF SupplyIsBacked
  <2>4. CentsIn(Made(x, n, Keys)) - CentsIn(Gone(x, DdUtxosOf(Keys)))
          = CentsIn(Opened(x, n, Keys)) - CentsIn(Gone(x, PositionsOf(Keys)))
    BY DEF Conserves
  <2>. QED  BY <2>1, <2>2, <2>3, <2>4
<1>. QED  BY <1>1, <1>2, <1>3, BalancesThen

\* Reviews, plans and the screen leave the chain alone.
LEMMA QuietStep ==
  ASSUME LedgerInv, ReviewStep \/ PlanStep \/ MaxStep \/ ScreenStep
  PROVE  LedgerInv'
<1>1. UNCHANGED <<chain, meant, faulted>>
  BY DEF ReviewStep, PlanStep, MaxStep, ScreenStep, chainVars
<1>2. Known /\ ~faulted /\ BalancesAreAsMeant /\ SupplyIsBacked /\ ChainOK(chain)
  BY DEF LedgerInv, NeverInvalid, Known
<1>3. Known'
  BY <1>2, ReviewKnown, PlanKnown, MaxKnown, ScreenKnown
<1>4. BalancesAreAsMeant' /\ SupplyIsBacked'
  BY <1>1, <1>2, SameChain
<1>. QED  BY <1>1, <1>2, <1>3, <1>4 DEF LedgerInv, NeverInvalid

\* Each kind of transaction the wallet signs is well made and conserves what its user meant.
LEMMA SpendTaken ==
  ASSUME ChainOK(chain), MeantType, NEW plan, NEW r, PlanOK(chain, plan, r), Plain(r), NEW k,
         NEW tx, tx = SpendTx(plan, r, P2tr(k))
  PROVE  TxOK(tx.body) /\ Conserves(OnChain(tx.body), meant)
<1> DEFINE t == tx.body
           x == OnChain(t)
           cs == P2tr(k)
<1>1. SpendBodyIs(t, plan, r, cs)
  BY SpendTxBody
<1>2. Plain(cs)
  BY KeyScripts
<1>3. plan.amount \in Nat /\ TotalValue(plan.inputs) - plan.amount - plan.fee \in Int
  BY PlanTotals
<1>. HIDE DEF t, cs
<1>4. /\ t.type = "dgb" /\ DOMAIN t.in = DOMAIN plan.inputs
      /\ \A i \in DOMAIN t.in : t.in[i].at = plan.inputs[i].at
      /\ SpendParts(t.out, plan.amount, r, TotalValue(plan.inputs) - plan.amount - plan.fee, cs)
  BY <1>1 DEF SpendBodyIs
<1>5. TxOK(t) /\ DOMAIN DdAmountsByVout(t) = {}
  BY <1>2, <1>3, <1>4, SpendTxIs
<1>6. /\ x.type = "dgb" /\ DOMAIN x.in = DOMAIN t.in /\ \A i \in DOMAIN t.in : x.in[i] = t.in[i].at
      /\ DOMAIN DdAmountsByVout(x) = {}
  BY <1>4, <1>5, OnChainIs
<1>. HIDE DEF x
<1>7. \A i \in DOMAIN x.in : At(x.in[i]).value > 0 /\ At(x.in[i]).script.kind # "collateral"
  <2>. SUFFICES ASSUME NEW i \in DOMAIN x.in
                PROVE  At(x.in[i]).value > 0 /\ At(x.in[i]).script.kind # "collateral"
    OBVIOUS
  <2>1. CoinReal(chain, plan.inputs[i]) /\ plan.inputs[i].value > 0 /\ x.in[i] = plan.inputs[i].at
    BY <1>4, <1>6 DEF PlanOK
  <2>2. At(x.in[i]).value = plan.inputs[i].value /\ At(x.in[i]).script.kind = plan.inputs[i].type
    BY <2>1, CoinValue
  <2>. QED  BY <2>1, <2>2 DEF CoinReal
<1>8. Conserves(x, meant)
  BY <1>6, <1>7, PlainConserves
<1>. QED  BY <1>5, <1>8 DEF t, x

LEMMA MintTaken ==
  ASSUME ChainOK(chain), tip \in Nat, MeantType, DOMAIN meant = Keys, NEW u, CoinReal(chain, u),
         NEW cents, NEW tier, NEW price, NEW bps, Collateralised(cents, tier, price, bps),
         CanMint(u, cents, tier, price, bps, FlowFee),
         NEW tx, tx = MintTx(u, cents, tier, price, bps, tip, FlowFee)
  PROVE  TxOK(tx.body) /\ Conserves(OnChain(tx.body), [meant EXCEPT ![u.key] = @ + cents])
<1> DEFINE t == tx.body
           x == OnChain(t)
           k == u.key
           value == RequiredCollateral(cents, tier, price, bps)
           lock == UnlockHeight(tip, tier)
           change == u.value - value - FlowFee
<1>1. MintBodyIs(t, u, cents, tier, lock, value, change)
  BY MintTxBody
<1>. HIDE DEF t, value, change, lock
<1>2. /\ t.type = "mint" /\ DOMAIN t.in = {1} /\ t.in[1].at = u.at
      /\ value \in Nat /\ value >= Fold /\ change \in Int /\ lock \in Nat
      /\ u.value = value + FlowFee + change /\ change \in Nat
      /\ t.out = MintOutputs(u.key, cents, tier, lock, value, FoldChange(change))
  BY <1>1 DEF MintBodyIs
<1>3. k \in Keys /\ cents \in Nat \ {0}
  BY DEF CoinReal, Collateralised
<1>. HIDE DEF k
<1>4. TxOK(t) /\ MintShape(t, k, cents, lock, tier)
  BY <1>2, <1>3, MintTxIs DEF k
<1>5. /\ x.type = "mint" /\ DOMAIN x.in = {1} /\ x.in[1] = u.at
      /\ MintShape(x, k, cents, lock, tier)
  BY <1>2, <1>4, OnChainIs
<1>. HIDE DEF x
<1>6. \A i \in DOMAIN x.in : At(x.in[i]).value > 0 /\ At(x.in[i]).script.kind # "collateral"
  <2>1. At(u.at).value = u.value /\ At(u.at).script.kind = u.type
    BY CoinValue
  <2>2. u.value > 0
    BY <1>2, TxNumbers
  <2>. QED  BY <1>5, <2>1, <2>2 DEF CoinReal
<1>7. Conserves(x, [meant EXCEPT ![k] = @ + cents])
  BY <1>5, <1>6, MintConserves
<1>. QED  BY <1>4, <1>7 DEF t, x, k

LEMMA TransferTaken ==
  ASSUME ChainOK(chain), MeantType, DOMAIN meant = Keys,
         NEW dd, DdReal(chain, dd), NEW u, PaysFlow(chain, u), NEW to \in Keys, NEW cents \in Nat,
         CanTransfer(dd, u, <<[key |-> to, cents |-> cents]>>, FlowFee),
         NEW tx, tx = TransferTx(dd, u, <<[key |-> to, cents |-> cents]>>, FlowFee, P2tr(dd.key)),
         InputsUnspent(tx.body)
  PROVE  LET left == [meant EXCEPT ![dd.key] = @ - cents]
         IN  TxOK(tx.body) /\ Conserves(OnChain(tx.body), [left EXCEPT ![to] = @ + cents])
<1> DEFINE recipients == <<[key |-> to, cents |-> cents]>>
           t == tx.body
           x == OnChain(t)
           dds == DdOutputs(recipients, DdChange(dd, recipients), dd.key)
           intent == [[meant EXCEPT ![dd.key] = @ - cents] EXCEPT ![to] = @ + cents]
<1>1. dd.cents \in Nat
  BY TokenIs
<1>2. cents <= dd.cents
  <2>1. DdChange(dd, recipients) = dd.cents - cents
    <3>1. TotalCents(recipients) = cents
      <4> DEFINE e == [key |-> to, cents |-> cents]
      <4>1. e.cents = cents
        OBVIOUS
      <4>2. TotalCents(<<e>>) = e.cents
        <5>. HIDE DEF e
        <5>. QED  BY <4>1, CentsOfOne
      <4>. QED  BY <4>1, <4>2
    <3>. QED  BY <3>1 DEF DdChange
  <2>2. DdChange(dd, recipients) >= 0
    BY DEF CanTransfer
  <2>. QED  BY <1>1, <2>1, <2>2
<1>3. /\ IsSeq(dds) /\ Len(dds) = (IF dd.cents - cents = 0 THEN 1 ELSE 2)
      /\ dds[1] = [key |-> to, cents |-> cents]
      /\ dd.cents - cents # 0 => dds[2] = [key |-> dd.key, cents |-> dd.cents - cents]
  BY <1>1, <1>2, PaidOut
<1>4. TransferBodyIs(t, dd, u, dds, u.value - FlowFee)
  BY TransferTxBody
<1>. HIDE DEF recipients, dds, t
<1>5. /\ TxOK(t) /\ DdAmountsByVout(t) = [i \in 1 .. Len(dds) |-> dds[i].cents]
      /\ \A i \in 1 .. Len(dds) : t.out[i] = Out(0, P2tr(dds[i].key))
  BY <1>2, <1>3, <1>4, TransferCents
<1>6. t.type = "transfer" /\ DOMAIN t.in = {1, 2} /\ t.in[1].at = dd.at /\ t.in[2].at = u.at
  BY <1>4 DEF TransferBodyIs
<1>7. /\ x.type = "transfer" /\ DOMAIN x.in = {1, 2} /\ x.in[1] = dd.at /\ x.in[2] = u.at
      /\ DdAmountsByVout(x) = DdAmountsByVout(t) /\ x.out = t.out
  BY <1>6, OnChainIs
<1>. HIDE DEF x
<1>8. dd.at \in Unspent
  <2>1. InputsUnspent(t)
    BY DEF t
  <2>. QED  BY <1>6, <2>1 DEF InputsUnspent
<1>9. At(x.in[2]).value > 0 /\ At(x.in[2]).script.kind # "collateral"
  <2>1. CoinReal(chain, u) /\ u.value >= FlowFee
    BY DEF PaysFlow
  <2>2. At(u.at).value = u.value /\ At(u.at).script.kind = u.type /\ u.value \in Nat
    BY <2>1, CoinValue
  <2>. QED  BY <1>7, <2>1, <2>2, TxNumbers DEF CoinReal
<1>10. Conserves(x, intent)
  <2>1. /\ DOMAIN DdAmountsByVout(x) = 1 .. Len(dds)
        /\ \A i \in 1 .. Len(dds) : DdAmountsByVout(x)[i] = dds[i].cents
        /\ \A i \in 1 .. Len(dds) : x.out[i] = Out(0, P2tr(dds[i].key))
    BY <1>5, <1>7
  <2>2. /\ x.type = "transfer" /\ cents <= dd.cents /\ DOMAIN x.in = {1, 2} /\ x.in[1] = dd.at
        /\ Len(dds) = (IF dd.cents - cents = 0 THEN 1 ELSE 2)
        /\ dds[1] = [key |-> to, cents |-> cents]
        /\ dd.cents - cents # 0 => dds[2] = [key |-> dd.key, cents |-> dd.cents - cents]
    BY <1>2, <1>3, <1>7
  <2>3. \A k \in Keys : intent[k] = meant[k] - (IF k = dd.key THEN cents ELSE 0)
                                             + (IF k = to THEN cents ELSE 0)
    <3>. SUFFICES ASSUME NEW k \in Keys
                  PROVE  intent[k] = meant[k] - (IF k = dd.key THEN cents ELSE 0)
                                             + (IF k = to THEN cents ELSE 0)
      OBVIOUS
    <3>1. meant[k] \in Int
      BY DEF MeantType
    <3> DEFINE left == [meant EXCEPT ![dd.key] = @ - cents]
    <3>2. left[k] = meant[k] - (IF k = dd.key THEN cents ELSE 0) /\ DOMAIN left = Keys
      BY <3>1
    <3>3. left[k] \in Int
      BY <3>1, <3>2
    <3>. HIDE DEF left
    <3>4. [left EXCEPT ![to] = @ + cents][k] = left[k] + (IF k = to THEN cents ELSE 0)
      BY <3>2, <3>3
    <3>. QED  BY <3>2, <3>4 DEF left
  <2>. HIDE DEF intent
  <2>4. Transferred(x, dd, to, cents, dds, intent)
    BY <1>8, <1>9, <2>1, <2>2, <2>3 DEF Transferred
  <2>. QED  BY <2>4, TransferConserves
<1>. QED  BY <1>5, <1>10 DEF t, x

LEMMA RedeemTaken ==
  ASSUME ChainOK(chain), MeantType, DOMAIN meant = Keys, NEW p, PosReal(chain, p),
         NEW burn, BurnOK(chain, burn, p), NEW u, PaysFlow(chain, u),
         NEW tx, tx = RedeemTx(p, burn, u, FlowFee, P2tr(p.key)), InputsUnspent(tx.body)
  PROVE  TxOK(tx.body) /\ Conserves(OnChain(tx.body), [meant EXCEPT ![p.key] = @ - p.cents])
<1> DEFINE t == tx.body
           x == OnChain(t)
           m == Len(burn)
           left == RedeemChange(p, burn)
<1>1. RedeemBodyIs(t, p, burn, u, u.value - FlowFee)
  BY RedeemTxBody
<1>. HIDE DEF t
<1>2. /\ TxOK(t)
      /\ left = 0 => DOMAIN DdAmountsByVout(t) = {}
      /\ left > 0 => /\ DdAmountsByVout(t) = [n \in {2} |-> left]
                     /\ t.out[2] = Out(0, P2tr(p.key))
  BY <1>1, RedeemCents
<1>3. /\ t.type = "redeem" /\ Truthful(t) /\ Len(t.in) = m + 2 /\ t.in[1].at = p.at
      /\ \A i \in 1 .. m : t.in[1 + i].at = burn[i].at
      /\ t.in[m + 2].at = u.at
  BY <1>1 DEF RedeemBodyIs
<1>4. DOMAIN t.in = 1 .. m + 2 /\ m \in Nat
  BY <1>3, BurnTotal DEF Truthful, IsSeq
<1>5. /\ x.type = "redeem" /\ DOMAIN x.in = 1 .. m + 2 /\ x.in[1] = p.at /\ x.in[m + 2] = u.at
      /\ \A i \in 1 .. m : x.in[1 + i] = burn[i].at
      /\ DdAmountsByVout(x) = DdAmountsByVout(t) /\ x.out = t.out
  <2>1. /\ x.type = t.type /\ x.out = t.out /\ DOMAIN x.in = DOMAIN t.in
        /\ \A i \in DOMAIN t.in : x.in[i] = t.in[i].at
        /\ DdAmountsByVout(x) = DdAmountsByVout(t)
    BY OnChainIs
  <2>2. 1 \in DOMAIN t.in /\ m + 2 \in DOMAIN t.in /\ \A i \in 1 .. m : 1 + i \in DOMAIN t.in
    BY <1>4
  <2>. HIDE DEF x
  <2>. QED  BY <1>3, <1>4, <2>1, <2>2
<1>6. \A i \in DOMAIN x.in : x.in[i] \in Unspent
  <2>1. InputsUnspent(t)
    BY DEF t
  <2>. QED  BY <2>1, OnChainIs DEF InputsUnspent
<1>. HIDE DEF x
<1>7. At(x.in[m + 2]).value > 0 /\ At(x.in[m + 2]).script.kind # "collateral"
  <2>1. CoinReal(chain, u) /\ u.value >= FlowFee
    BY DEF PaysFlow
  <2>2. At(u.at).value = u.value /\ At(u.at).script.kind = u.type /\ u.value \in Nat
    BY <2>1, CoinValue
  <2>. QED  BY <1>5, <2>1, <2>2, TxNumbers DEF CoinReal
<1>8. Conserves(x, [meant EXCEPT ![p.key] = @ - p.cents])
  <2>1. /\ left = 0 => DOMAIN DdAmountsByVout(x) = {}
        /\ left > 0 => DdAmountsByVout(x) = [n \in {2} |-> left] /\ x.out[2] = Out(0, P2tr(p.key))
    BY <1>2, <1>5
  <2>. QED  BY <1>5, <1>6, <1>7, <2>1, RedeemConserves
<1>. QED  BY <1>2, <1>8 DEF t, x

-----------------------------------------------------------------------------
(* Blocks and other devices *)

\* A block.
LEMMA MineKeeps ==
  ASSUME LedgerInv, WorldStep, Mine, UNCHANGED chain
  PROVE  LedgerInv'
<1>1. UNCHANGED <<open, task, draft, faulted, meant>> /\ tip' = tip + 1
  BY DEF WorldStep, Mine
<1>2. Known /\ ~faulted /\ BalancesAreAsMeant /\ SupplyIsBacked
  BY DEF LedgerInv, NeverInvalid
<1>3. /\ ChainOK(chain) /\ tip \in Nat /\ open \in Wallet \cup {Nil} /\ DOMAIN meant = Keys
      /\ TaskOK(chain, tip, task) /\ DraftOK(chain, tip, draft)
  BY <1>2 DEF Known
<1>4. tip + 1 \in Nat /\ tip <= tip + 1 /\ Grown(chain, chain)
  BY <1>3 DEF Grown
<1>5. TaskOK(chain, tip + 1, task)
  BY <1>3, <1>4, TaskKept
<1>6. DraftOK(chain, tip + 1, draft)
  BY <1>3, <1>4, DraftKept
<1>7. Known'
  BY <1>1, <1>3, <1>4, <1>5, <1>6 DEF Known
<1>8. BalancesAreAsMeant' /\ SupplyIsBacked'
  BY <1>1, <1>2, <1>3, SameChain
<1>. QED  BY <1>1, <1>2, <1>7, <1>8 DEF LedgerInv, NeverInvalid

\* A coin spent by another device under a review or a draft.
LEMMA ElsewhereKeeps ==
  ASSUME LedgerInv, WorldStep, NEW o \in Unspent, SpendElsewhere(o)
  PROVE  LedgerInv'
<1> DEFINE script == [kind |-> "p2sh", key |-> Nil]
           out == <<Out(At(o).value - 1, script)>>
           x == [type |-> "other", in |-> <<o>>, out |-> out]
<1>1. UNCHANGED <<open, task, draft, faulted, meant, tip>> /\ chain' = Append(chain, x)
      /\ At(o).value > 0 /\ At(o).script.kind # "collateral"
  BY DEF WorldStep, SpendElsewhere
<1>2. Known /\ ~faulted /\ BalancesAreAsMeant
  BY DEF LedgerInv, NeverInvalid
<1>3. /\ ChainOK(chain) /\ tip \in Nat /\ open \in Wallet \cup {Nil} /\ DOMAIN meant = Keys
      /\ TaskOK(chain, tip, task) /\ DraftOK(chain, tip, draft)
  BY <1>2 DEF Known
<1>4. At(o).value \in Nat
  <2>1. o[1] \in DOMAIN chain /\ o[2] \in DOMAIN chain[o[1]].out
    BY UnspentIs DEF Holds
  <2>. QED  BY <1>3, <2>1 DEF ChainOK, TxOK, Shaped, At
<1>5. TxOK(x) /\ DOMAIN DdAmountsByVout(x) = {}
  <2>1. IsSeq(out) /\ DOMAIN out = {1} /\ out[1] = Out(At(o).value - 1, script)
    BY Tuples DEF IsSeq
  <2>2. out[1].value \in Nat /\ Plain(out[1].script)
    BY <1>1, <1>4, <2>1 DEF Out, Plain, StandardForms
  <2>. HIDE DEF out
  <2>3. x.type = "other" /\ x.out = out
    OBVIOUS
  <2>. QED  BY <2>1, <2>2, <2>3, PlainTx
<1>6. x.type = "other" /\ DOMAIN x.in = {1} /\ x.in[1] = o
  OBVIOUS
<1>. HIDE DEF x
<1>7. Conserves(x, meant)
  <2>1. MeantType
    BY <1>2, <1>3, MeantIsNumber
  <2>. QED  BY <1>1, <1>3, <1>5, <1>6, <2>1, PlainConserves
<1>8. ChainOK(chain') /\ Grown(chain, chain') /\ BalancesAreAsMeant' /\ SupplyIsBacked'
  BY <1>1, <1>5, <1>6, <1>7, Taken
<1> DEFINE d == chain'
<1>9. tip <= tip /\ Grown(chain, d)
  BY <1>3, <1>8
<1>. HIDE DEF d
<1>10. TaskOK(d, tip, task)
  BY <1>3, <1>9, TaskKept
<1>11. DraftOK(d, tip, draft)
  BY <1>3, <1>9, DraftKept
<1>12. Known'
  BY <1>1, <1>3, <1>8, <1>10, <1>11 DEF Known, d
<1>. QED  BY <1>1, <1>2, <1>8, <1>12 DEF LedgerInv, NeverInvalid

LEMMA WorldKeeps == ASSUME LedgerInv, WorldStep PROVE LedgerInv'
BY MineKeeps, ElsewhereKeeps DEF WorldStep

-----------------------------------------------------------------------------
(* Confirmations *)

\* A valid transaction is taken whole or not at all.
LEMMA SubmitKeeps ==
  ASSUME LedgerInv, NEW tx, NEW intent, Submit(tx, intent), Valid(tx), DOMAIN intent = Keys,
         InputsUnspent(tx.body) => TxOK(tx.body) /\ Conserves(OnChain(tx.body), intent),
         UNCHANGED open, task' \in {task, Idle}
  PROVE  LedgerInv'
<1>0. Known /\ ~faulted /\ BalancesAreAsMeant /\ SupplyIsBacked
  BY DEF LedgerInv, NeverInvalid
<1>1. /\ ChainOK(chain) /\ tip \in Nat /\ open \in Wallet \cup {Nil} /\ DOMAIN meant = Keys
      /\ TaskOK(chain, tip, task) /\ DraftOK(chain, tip, draft)
  BY <1>0 DEF Known
<1>2. UNCHANGED <<tip, faulted>>
  BY DEF Submit
<1>3. CASE ~InputsUnspent(tx.body)
  <2>1. UNCHANGED <<chain, meant, draft>>
    BY <1>3 DEF Submit
  <2>2. Known'
    BY <1>1, <1>2, <2>1, IdleIsOK DEF Known
  <2>3. BalancesAreAsMeant' /\ SupplyIsBacked'
    BY <1>0, <1>1, <2>1, SameChain
  <2>. QED  BY <1>0, <1>2, <2>2, <2>3 DEF LedgerInv, NeverInvalid
<1>4. CASE InputsUnspent(tx.body)
  <2> DEFINE x == OnChain(tx.body)
  <2>1. chain' = Append(chain, x) /\ meant' = intent /\ draft' = Nil
    BY <1>4 DEF Submit
  <2>2. TxOK(x) /\ Conserves(x, intent)
    BY <1>4, OnChainIs
  <2>3. \A i \in DOMAIN x.in : x.in[i] \in Unspent
    BY <1>4, OnChainIs DEF InputsUnspent
  <2>. HIDE DEF x
  <2>4. ChainOK(chain') /\ Grown(chain, chain') /\ BalancesAreAsMeant' /\ SupplyIsBacked'
    <3>1. Conserves(x, meant')
      BY <2>1, <2>2
    <3>. QED  BY <2>1, <2>2, <2>3, <3>1, Taken
  <2> DEFINE d == chain'
  <2>5. tip <= tip /\ Grown(chain, d)
    BY <1>1, <2>4
  <2>. HIDE DEF d
  <2>6. TaskOK(d, tip, task)
    BY <1>1, <2>5, TaskKept
  <2>7. TaskOK(d, tip, Idle) /\ DraftOK(d, tip, Nil)
    BY DEF TaskOK, DraftOK, Idle
  <2>8. Known'
    BY <1>1, <1>2, <2>1, <2>4, <2>6, <2>7 DEF Known, d
  <2>. QED  BY <1>0, <1>2, <2>4, <2>8 DEF LedgerInv, NeverInvalid
<1>. QED  BY <1>3, <1>4

\* What a confirmation starts from.
LEMMA Confirming ==
  ASSUME LedgerInv
  PROVE  /\ ChainOK(chain) /\ tip \in Nat /\ MeantType /\ DOMAIN meant = Keys
         /\ TaskOK(chain, tip, task) /\ DraftOK(chain, tip, draft)
<1>1. Known /\ BalancesAreAsMeant
  BY DEF LedgerInv
<1>2. /\ ChainOK(chain) /\ tip \in Nat /\ DOMAIN meant = Keys
      /\ TaskOK(chain, tip, task) /\ DraftOK(chain, tip, draft)
  BY <1>1 DEF Known
<1>. QED  BY <1>1, <1>2, MeantIsNumber

\* Each confirmation keeps the invariant: its draft may be old, not wrong.
LEMMA SpendKeeps ==
  ASSUME LedgerInv, UNCHANGED <<open, task>>, NEW k, SpendOK(chain, draft),
         Submit(SpendTx(draft.plan, draft.recipient, P2tr(k)), meant)
  PROVE  LedgerInv'
<1> DEFINE tx == SpendTx(draft.plan, draft.recipient, P2tr(k))
<1>1. ChainOK(chain) /\ MeantType /\ DOMAIN meant = Keys
  BY Confirming
<1>2. PlanOK(chain, draft.plan, draft.recipient) /\ Plain(draft.recipient)
  BY DEF SpendOK
<1>3. Valid(tx)
  BY <1>1, <1>2, SpendValid
<1>4. TxOK(tx.body) /\ Conserves(OnChain(tx.body), meant)
  BY <1>1, <1>2, SpendTaken
<1>5. Submit(tx, meant)
  OBVIOUS
<1>. HIDE DEF tx
<1>. QED  BY <1>1, <1>3, <1>4, <1>5, SubmitKeeps

LEMMA SendGoKeeps ==
  ASSUME LedgerInv, SendGo, UNCHANGED open
  PROVE  LedgerInv'
<1>1. draft # Nil /\ draft.kind = "send" /\ UNCHANGED task
      /\ Submit(SpendTx(draft.plan, draft.recipient, P2tr(ReceiveKey(open))), meant)
  BY DEF SendGo, Confirmed
<1>2. SpendOK(chain, draft)
  BY <1>1, Confirming DEF DraftOK
<1> DEFINE k == ReceiveKey(open)
<1>3. Submit(SpendTx(draft.plan, draft.recipient, P2tr(k)), meant)
  BY <1>1
<1>. HIDE DEF k
<1>. QED  BY <1>1, <1>2, <1>3, SpendKeeps

LEMMA ConsolidateGoKeeps ==
  ASSUME LedgerInv, ConsolidateGo, UNCHANGED open
  PROVE  LedgerInv'
<1>1. draft # Nil /\ draft.kind = "consolidate" /\ UNCHANGED task
      /\ Submit(SpendTx(draft.plan, draft.recipient, draft.recipient), meant)
  BY DEF ConsolidateGo, Confirmed
<1>2. SpendOK(chain, draft) /\ draft.recipient = P2tr(draft.recipient.key)
  BY <1>1, Confirming DEF DraftOK
<1> DEFINE k == draft.recipient.key
<1>3. Submit(SpendTx(draft.plan, draft.recipient, P2tr(k)), meant)
  BY <1>1, <1>2, Zenon
<1>. HIDE DEF k
<1>. QED  BY <1>1, <1>2, <1>3, SpendKeeps

LEMMA TransferGoKeeps ==
  ASSUME LedgerInv, TransferGo, UNCHANGED open
  PROVE  LedgerInv'
<1> DEFINE dd == draft.dd
           u == draft.feeUtxo
           to == draft.to
           cents == draft.cents
           tx == TransferTx(dd, u, <<[key |-> to, cents |-> cents]>>, FlowFee, P2tr(dd.key))
           intent == [[meant EXCEPT ![dd.key] = @ - cents] EXCEPT ![to] = @ + cents]
<1>1. /\ draft # Nil /\ draft.kind = "transfer" /\ UNCHANGED task
      /\ CanTransfer(dd, u, <<[key |-> to, cents |-> cents]>>, FlowFee)
      /\ Submit(tx, intent)
  BY DEF TransferGo, Confirmed
<1>2. /\ ChainOK(chain) /\ MeantType /\ DOMAIN meant = Keys
      /\ DdReal(chain, dd) /\ to \in Keys /\ cents \in Nat /\ PaysFlow(chain, u)
  BY <1>1, Confirming DEF DraftOK, TransferOK
<1>. HIDE DEF dd, u, to, cents
<1>3. Valid(tx)
  BY <1>1, <1>2, TransferValid
<1>4. InputsUnspent(tx.body) => TxOK(tx.body) /\ Conserves(OnChain(tx.body), intent)
  <2>. SUFFICES ASSUME InputsUnspent(tx.body)
                PROVE  TxOK(tx.body) /\ Conserves(OnChain(tx.body), intent)
    OBVIOUS
  <2>. QED  BY <1>1, <1>2, TransferTaken
<1>5. DOMAIN intent = Keys
  BY <1>2
<1>. HIDE DEF tx, intent
<1>. QED  BY <1>1, <1>3, <1>4, <1>5, SubmitKeeps

LEMMA RedeemGoKeeps ==
  ASSUME LedgerInv, RedeemGo, UNCHANGED open
  PROVE  LedgerInv'
<1> DEFINE p == draft.position
           u == draft.feeUtxo
           burn == draft.burn
           tx == RedeemTx(p, burn, u, FlowFee, P2tr(p.key))
           intent == [meant EXCEPT ![p.key] = @ - p.cents]
<1>1. draft # Nil /\ draft.kind = "redeem" /\ UNCHANGED task /\ Submit(tx, intent)
  BY DEF RedeemGo, Confirmed
<1>2. /\ ChainOK(chain) /\ tip \in Nat /\ MeantType /\ DOMAIN meant = Keys
      /\ PosReal(chain, p) /\ p.lock <= tip /\ BurnOK(chain, burn, p) /\ PaysFlow(chain, u)
  BY <1>1, Confirming DEF DraftOK, RipeOK
<1>. HIDE DEF p, u, burn
<1>3. Valid(tx)
  BY <1>2, RedeemValid
<1>4. InputsUnspent(tx.body) => TxOK(tx.body) /\ Conserves(OnChain(tx.body), intent)
  BY <1>2, RedeemTaken
<1>5. DOMAIN intent = Keys
  BY <1>2
<1>. HIDE DEF tx, intent
<1>. QED  BY <1>1, <1>3, <1>4, <1>5, SubmitKeeps

LEMMA MintGoKeeps ==
  ASSUME LedgerInv, MintGo, UNCHANGED open
  PROVE  LedgerInv'
<1>1. /\ draft # Nil /\ draft.kind = "mint" /\ task' = [kind |-> "signing", mint |-> draft]
      /\ UNCHANGED <<chain, tip, draft, faulted, meant>>
  BY DEF MintGo, Confirmed, chainVars
<1>2. Known /\ ~faulted /\ BalancesAreAsMeant /\ SupplyIsBacked /\ ChainOK(chain)
  BY Confirming DEF LedgerInv, NeverInvalid
<1>3. MintOK(chain, draft)
  BY <1>1, Confirming DEF DraftOK
<1>4. TaskOK(chain, tip, task')
  <2>1. task'.kind = "signing" /\ task'.mint = draft
    BY <1>1
  <2>. QED  BY <1>3, <2>1 DEF TaskOK
<1>5. Known'
  BY <1>1, <1>2, <1>4 DEF Known
<1>6. BalancesAreAsMeant' /\ SupplyIsBacked'
  BY <1>1, <1>2, SameChain
<1>. QED  BY <1>1, <1>2, <1>5, <1>6 DEF LedgerInv, NeverInvalid

LEMMA MintSignedKeeps ==
  ASSUME LedgerInv, MintSigned, UNCHANGED open
  PROVE  LedgerInv'
<1> DEFINE m == task.mint
           u == m.utxo
           cents == m.cents
           tx == MintTx(u, cents, m.tier, m.price, m.bps, tip, FlowFee)
           intent == [meant EXCEPT ![u.key] = @ + cents]
<1>1. /\ task.kind = "signing" /\ task' = Idle /\ Submit(tx, intent)
      /\ CanMint(u, cents, m.tier, m.price, m.bps, FlowFee)
  BY DEF MintSigned
<1>2. /\ ChainOK(chain) /\ tip \in Nat /\ MeantType /\ DOMAIN meant = Keys
      /\ CoinReal(chain, u) /\ Asked(m) /\ Collateralised(cents, m.tier, m.price, m.bps)
  BY <1>1, Confirming DEF TaskOK, MintOK
<1>3. MinMint <= cents /\ cents <= MaxMint
  BY <1>2 DEF Asked
<1>. HIDE DEF u, cents, m
<1>4. Valid(tx)
  BY <1>1, <1>2, <1>3, MintValid
<1>5. TxOK(tx.body) /\ Conserves(OnChain(tx.body), intent)
  BY <1>1, <1>2, MintTaken
<1>6. DOMAIN intent = Keys
  BY <1>2
<1>. HIDE DEF tx, intent
<1>. QED  BY <1>1, <1>4, <1>5, <1>6, SubmitKeeps

LEMMA ConfirmKeeps == ASSUME LedgerInv, ConfirmStep PROVE LedgerInv'
BY SendGoKeeps, ConsolidateGoKeeps, TransferGoKeeps, RedeemGoKeeps, MintGoKeeps, MintSignedKeeps
   DEF ConfirmStep

-----------------------------------------------------------------------------
(* The chain at the start *)

\* The first mint is all there is: its token, its position, what is meant.
LEMMA LedgerInvInit == ASSUME Init PROVE LedgerInv
<1> DEFINE k == Minted.utxo.key
           n == <<2, 2>>
           d == [at |-> n, key |-> k, cents |-> Minted.cents]
<1>1. Known
  BY KnownInit
<1>2. ChainOK(chain)
  BY <1>1 DEF Known
<1>3. PICK lock, tier : MintShape(chain[2], k, Minted.cents, lock, tier)
  BY FirstTxs DEF Init
<1>4. /\ DOMAIN chain = {1, 2} /\ DOMAIN DdAmountsByVout(chain[1]) = {} /\ chain[1].type = "dgb"
      /\ chain[1].in = <<>> /\ chain[2].type = "mint" /\ DOMAIN chain[2].in = {1}
      /\ chain[2].in[1] = Minted.utxo.at /\ Minted.utxo.at[1] = 1
  BY FirstTxs DEF Init
<1>5. meant = [j \in Keys |-> IF j = k THEN Minted.cents ELSE 0] /\ ~faulted
  BY DEF Init
<1>. HIDE DEF k
<1>6. /\ k \in Keys /\ Minted.cents \in Nat \ {0} /\ {1, 2, 3} \subseteq DOMAIN chain[2].out
      /\ chain[2].out[2] = Out(0, P2tr(k))
      /\ chain[2].out[3] = Out(0, Metadata("mint", <<Minted.cents, lock, tier, k>>))
      /\ DdAmountsByVout(chain[2]) = [m \in {2} |-> Minted.cents]
  BY <1>3 DEF MintShape
<1>7. \A o : o[1] = 2 /\ Holds(chain, o) => o \in Unspent
  <2>. SUFFICES ASSUME NEW o, o[1] = 2, Holds(chain, o) PROVE o \in Unspent
    OBVIOUS
  <2>1. \A t \in DOMAIN chain : \A i \in DOMAIN chain[t].in : chain[t].in[i] # o
    BY <1>4
  <2>. QED  BY <2>1, UnspentIs DEF ToSet
<1>8. \A ks : DdUtxosOf(ks) = IF k \in ks THEN {d} ELSE {}
  <2>. SUFFICES ASSUME NEW ks PROVE DdUtxosOf(ks) = IF k \in ks THEN {d} ELSE {}
    OBVIOUS
  <2>1. \A e : DdReal(chain, e) <=> e = d
    <3>1. ASSUME NEW e, DdReal(chain, e) PROVE e = d
      <4>1. /\ Holds(chain, e.at) /\ e.at[2] \in DOMAIN DdAmountsByVout(chain[e.at[1]])
            /\ e = [at |-> e.at, key |-> OutOf(chain, e.at).script.key,
                    cents |-> DdAmountsByVout(chain[e.at[1]])[e.at[2]]]
        BY <3>1 DEF DdReal
      <4>2. e.at[1] = 2 /\ e.at[2] = 2 /\ e.at = n
        BY <1>4, <1>6, <4>1 DEF Holds
      <4>3. OutOf(chain, n).script.key = k /\ DdAmountsByVout(chain[2])[2] = Minted.cents
        BY <1>6 DEF OutOf, Out, P2tr
      <4>4. e = [at |-> n, key |-> k, cents |-> Minted.cents]
        BY <4>1, <4>2, <4>3
      <4>. QED  BY <4>4
    <3>2. DdReal(chain, d)
      <4>1. d.at = n /\ d.key = k /\ d.cents = Minted.cents /\ n[1] = 2 /\ n[2] = 2
        OBVIOUS
      <4>2. OutOf(chain, n).script.key = k /\ DdAmountsByVout(chain[2])[2] = Minted.cents
            /\ 2 \in DOMAIN DdAmountsByVout(chain[2]) /\ Holds(chain, n)
        BY <1>4, <1>6 DEF OutOf, Out, P2tr, Holds
      <4>3. d = [at |-> d.at, key |-> k, cents |-> Minted.cents]
        OBVIOUS
      <4>. HIDE DEF n, d
      <4>. QED  BY <4>1, <4>2, <4>3 DEF DdReal
    <3>. QED  BY <3>1, <3>2
  <2>2. d.key = k /\ d.at \in Unspent
    <3>1. d.key = k /\ d.at[1] = 2 /\ Holds(chain, d.at)
      BY <1>4, <1>6 DEF Holds
    <3>. QED  BY <1>7, <3>1
  <2>. HIDE DEF d
  <2>3. \A e : e \in DdUtxosOf(ks) <=> e = d /\ k \in ks
    BY <1>2, <2>1, <2>2, TokensAreReal
  <2>. QED  BY <2>3
<1> DEFINE p == [at |-> <<2, 1>>, value |-> chain[2].out[1].value, cents |-> Minted.cents,
                 lock |-> lock, key |-> k]
<1>9. PositionsOf(Keys) = {p}
  <2>1. /\ chain[2].out[3].script.pushes[1] = Minted.cents /\ chain[2].out[3].script.pushes[2] = lock
        /\ chain[2].out[3].script.pushes[4] = k
    BY <1>6 DEF Out, Metadata
  <2>2. \A q : PosReal(chain, q) <=> q = p
    BY <1>4, <2>1 DEF PosReal
  <2>3. p.key \in Keys /\ p.at \in Unspent
    <3>1. p.key = k /\ p.at[1] = 2 /\ Holds(chain, p.at)
      BY <1>4, <1>6 DEF Holds
    <3>. QED  BY <1>6, <1>7, <3>1
  <2>. HIDE DEF p
  <2>4. \A q : q \in PositionsOf(Keys) <=> q = p
    BY <1>2, <2>2, <2>3, PositionsAreReal
  <2>. QED  BY <2>4
<1>10. CentsIn({d}) = Minted.cents /\ CentsIn({p}) = Minted.cents
  <2>1. d.cents = Minted.cents /\ p.cents = Minted.cents /\ Minted.cents \in Int
    BY <1>6
  <2>. HIDE DEF d, p
  <2>. QED  BY <2>1, CentsOfOneToken
<1>. HIDE DEF d, p
<1>11. BalancesAreAsMeant
  <2>. SUFFICES ASSUME NEW j \in Keys PROVE meant[j] = CentsIn(DdUtxosOf({j}))
    BY DEF BalancesAreAsMeant
  <2>1. CASE j = k
    <3>1. CentsIn(DdUtxosOf({j})) = CentsIn({d})
      BY <1>8, <2>1, Zenon
    <3>. QED  BY <1>5, <1>10, <2>1, <3>1
  <2>2. CASE j # k
    <3>1. CentsIn(DdUtxosOf({j})) = CentsIn({})
      BY <1>8, <2>2, Zenon
    <3>. QED  BY <1>5, <2>2, <3>1, CentsOfNone
  <2>. QED  BY <2>1, <2>2
<1>12. SupplyIsBacked
  <2>1. CentsIn(DdUtxosOf(Keys)) = CentsIn({d}) /\ CentsIn(PositionsOf(Keys)) = CentsIn({p})
    BY <1>6, <1>8, <1>9, Zenon
  <2>. QED  BY <1>10, <2>1 DEF SupplyIsBacked
<1>. QED  BY <1>1, <1>5, <1>11, <1>12 DEF LedgerInv, NeverInvalid

\* Every step keeps the invariant.
LEMMA LedgerInvStep == ASSUME LedgerInv, [Next]_vars PROVE LedgerInv'
<1>1. CASE Next
  BY <1>1, QuietStep, ConfirmKeeps, WorldKeeps DEF Next
<1>2. CASE UNCHANGED vars
  <2>1. UNCHANGED <<chain, tip, open, task, draft, faulted, meant>>
    BY <1>2 DEF vars, chainVars
  <2>2. Known /\ ~faulted /\ BalancesAreAsMeant /\ SupplyIsBacked /\ ChainOK(chain)
    BY Confirming DEF LedgerInv, NeverInvalid
  <2>3. Known'
    BY <2>1, <2>2 DEF Known
  <2>4. BalancesAreAsMeant' /\ SupplyIsBacked'
    BY <2>1, <2>2, SameChain
  <2>. QED  BY <2>1, <2>2, <2>3, <2>4 DEF LedgerInv, NeverInvalid
<1>. QED  BY <1>1, <1>2

\* The invariant holds in every reachable state, for any keys, wallets, amounts, fees, quotes
\* and lengths of the chain.
THEOREM LedgerIsInvariant == Spec => []LedgerInv
<1>1. Init => LedgerInv
  BY LedgerInvInit
<1>2. LedgerInv /\ [Next]_vars => LedgerInv'
  BY LedgerInvStep
<1>. QED  BY <1>1, <1>2, PTL DEF Spec

\* Whatever was reviewed, and whatever blocks, spends of other devices, locks and switches of
\* wallet came since, a transaction signed over coins that are still there is one the network
\* takes (app.js reviews and confirmations; packages/digidollar-js/src/txbuild.js builders).
THEOREM TransactionsAreValid == Spec => []NeverInvalid
<1>1. LedgerInv => NeverInvalid
  BY DEF LedgerInv
<1>. QED  BY <1>1, LedgerIsInvariant, PTL

\* What the indexer reads from the chain for each key is what users meant it to hold: cents
\* minted and received, less those sent and burned (apps/indexer/server.js; txbuild.js).
THEOREM BalancesAreMeant == Spec => []BalancesAreAsMeant
<1>1. LedgerInv => BalancesAreAsMeant
  BY DEF LedgerInv
<1>. QED  BY <1>1, LedgerIsInvariant, PTL

\* The DigiDollars in being are those of the open positions (txbuild.js buildSignedMintTx,
\* buildSignedTransferTx, buildSignedRedeemTx).
THEOREM SupplyStaysBacked == Spec => []SupplyIsBacked
<1>1. LedgerInv => SupplyIsBacked
  BY DEF LedgerInv
<1>. QED  BY <1>1, LedgerIsInvariant, PTL

\* No transaction pays value to a script its owner cannot spend.
LEMMA KnownIsSpendable == ASSUME Known PROVE ValueStaysSpendable
<1>. SUFFICES ASSUME NEW t \in DOMAIN chain, NEW o \in ToSet(chain[t].out), o.value > 0
              PROVE  o.script.kind \in {"p2tr", "p2wpkh", "p2wsh", "p2pkh", "p2sh", "collateral"}
  BY DEF ValueStaysSpendable
<1>1. PICK n \in DOMAIN chain[t].out : o = chain[t].out[n]
  BY DEF ToSet
<1>2. Shaped(chain[t].out[n])
  BY DEF Known, ChainOK, TxOK
<1>. QED  BY <1>1, <1>2 DEF Shaped, StandardForms

\* Value goes only to scripts of a standard form (packages/digidollar-js/src/address.js, the
\* types app.js lets a user pay).
THEOREM ValueIsSpendable == Spec => []ValueStaysSpendable
<1>1. LedgerInv => ValueStaysSpendable
  BY KnownIsSpendable DEF LedgerInv
<1>. QED  BY <1>1, LedgerIsInvariant, PTL

\* A ripe position whose tokens are there redeems with any coin that pays the fee.
LEMMA KnownStrandsNothing == ASSUME Known PROVE NothingIsStranded
<1>. SUFFICES ASSUME NEW p \in PositionsOf(Keys), p.lock <= tip,
                     NEW burn \in BurnSets(DdUtxosOf({p.key}), p.cents),
                     NEW u \in UtxosOf(Keys), u.value >= FlowFee
              PROVE  /\ CanRedeem(p, burn, u, FlowFee)
                     /\ Valid(RedeemTx(p, burn, u, FlowFee, P2tr(p.key)))
  BY DEF NothingIsStranded
<1>1. ChainOK(chain) /\ tip \in Nat
  BY DEF Known
<1>2. PosReal(chain, p)
  BY <1>1, PositionsAreReal
<1>3. BurnOK(chain, burn, p)
  BY <1>1, BurnIs
<1>4. PaysFlow(chain, u)
  <2>1. CoinReal(chain, u)
    BY CoinsAreReal
  <2>. QED  BY <2>1 DEF PaysFlow
<1>. QED  BY <1>1, <1>2, <1>3, <1>4, RedeemValid

\* A matured position whose tokens sit on its address can be redeemed with any coin that pays
\* the fee, whatever change the burned tokens leave (txbuild.js
\* buildRedeemOutputs).
THEOREM NothingStaysStranded == Spec => []NothingIsStranded
<1>1. LedgerInv => NothingIsStranded
  BY KnownStrandsNothing DEF LedgerInv
<1>. QED  BY <1>1, LedgerIsInvariant, PTL
=============================================================================

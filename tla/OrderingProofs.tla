--------------------------- MODULE OrderingProofs ---------------------------
(***************************************************************************)
(* InOrder lists a set in its order and Keep filters a sequence; and what  *)
(* follows by induction on numbers (Least, UpTo) and on the subsets of a   *)
(* finite set (Subsets), on which the facts about sums rest.               *)
(***************************************************************************)
EXTENDS Ordering, Functions, FiniteSetTheorems, TLAPS

(* How many come before an element ranks it, from 0 on, without gaps.      *)
LEMMA Ranks ==
  ASSUME NEW S, IsFiniteSet(S), NEW R, Orders(R, S)
  PROVE  /\ Cardinality(S) \in Nat
         /\ \A x \in S : Cardinality(Before(x, S, R)) \in 0 .. Cardinality(S) - 1
         /\ \A x, y \in S : <<x, y>> \in R =>
              Cardinality(Before(x, S, R)) < Cardinality(Before(y, S, R))
         /\ \A i \in 1 .. Cardinality(S) :
              \E x \in S : Cardinality(Before(x, S, R)) = i - 1
<1> DEFINE n == Cardinality(S)
<1> DEFINE rank(x) == Cardinality(Before(x, S, R))
<1> DEFINE f == [x \in S |-> rank(x)]
<1>1. n \in Nat  BY FS_CardinalityType
<1>2. ASSUME NEW x \in S
      PROVE  IsFiniteSet(Before(x, S, R)) /\ rank(x) \in Nat /\ rank(x) < n
  <2>1. Before(x, S, R) \subseteq S /\ x \notin Before(x, S, R)
    BY DEF Before, Orders
  <2>2. IsFiniteSet(Before(x, S, R)) /\ rank(x) \in Nat
    BY <2>1, FS_Subset, FS_CardinalityType
  <2>3. IsFiniteSet(S \ {x}) /\ Cardinality(S \ {x}) = n - 1
    BY FS_RemoveElement
  <2>4. Before(x, S, R) \subseteq S \ {x}  BY <2>1
  <2>5. rank(x) <= Cardinality(S \ {x})  BY <2>3, <2>4, FS_Subset
  <2> HIDE DEF n, rank
  <2> QED  BY <1>1, <2>2, <2>3, <2>5
<1>3. ASSUME NEW x \in S, NEW y \in S, <<x, y>> \in R PROVE rank(x) < rank(y)
  <2>1. Before(x, S, R) \subseteq Before(y, S, R) \ {x}
    BY <1>3 DEF Before, Orders
  <2>2. x \in Before(y, S, R)  BY <1>3 DEF Before
  <2>3. /\ IsFiniteSet(Before(y, S, R) \ {x})
        /\ Cardinality(Before(y, S, R) \ {x}) = rank(y) - 1
    BY <1>2, <2>2, FS_RemoveElement
  <2>4. rank(x) <= Cardinality(Before(y, S, R) \ {x})
    BY <2>1, <2>3, FS_Subset
  <2>5. rank(x) \in Nat /\ rank(y) \in Nat  BY <1>2
  <2> HIDE DEF rank
  <2> QED  BY <2>3, <2>4, <2>5
<1>4. f \in Surjection(S, 0 .. n - 1)
  <2> HIDE DEF n, rank
  <2>1. f \in [S -> 0 .. n - 1]  BY <1>1, <1>2
  <2>2. ASSUME NEW x \in S, NEW y \in S, x # y PROVE f[x] # f[y]
    <3>1. rank(x) < rank(y) \/ rank(y) < rank(x)
      BY <1>3, <2>2 DEF Orders
    <3> QED  BY <1>2, <3>1
  <2>3. f \in Injection(S, 0 .. n - 1)
    BY <2>1, <2>2 DEF Injection, IsInjective
  <2>4. IsFiniteSet(0 .. n - 1) /\ Cardinality(0 .. n - 1) = n
    BY <1>1, FS_Interval
  <2>5. Cardinality(S) = n  BY DEF n
  <2> QED  BY <2>3, <2>4, <2>5, FS_Injection
<1>5. ASSUME NEW i \in 1 .. n PROVE \E x \in S : rank(x) = i - 1
  <2> HIDE DEF n, rank
  <2>1. i - 1 \in 0 .. n - 1  BY <1>1
  <2>2. \E x \in S : f[x] = i - 1  BY <1>4, <2>1 DEF Surjection
  <2> QED  BY <2>2
<1>6. \A x \in S : rank(x) \in 0 .. n - 1
  <2> HIDE DEF n, rank
  <2> QED  BY <1>1, <1>2
<1> QED  BY <1>1, <1>3, <1>5, <1>6

(* A finite set of numbers has a least one.                                *)
LEMMA Least ==
  ASSUME NEW S, S \subseteq Nat, IsFiniteSet(S), S # {}
  PROVE  \E x \in S : \A y \in S : x <= y
<1>1. Orders(Smaller(S), S)
  <2>1. \A x, y \in S : <<x, y>> \in Smaller(S) <=> x < y  BY DEF Smaller
  <2> QED  BY <2>1 DEF Orders
<1>2. /\ Cardinality(S) \in Nat
      /\ \A i \in 1 .. Cardinality(S) :
           \E x \in S : Cardinality(Before(x, S, Smaller(S))) = i - 1
  BY <1>1, Ranks
<1>3. 1 \in 1 .. Cardinality(S)
  <2>1. Cardinality(S) # 0  BY FS_EmptySet
  <2> QED  BY <1>2, <2>1
<1>4. PICK x \in S : Cardinality(Before(x, S, Smaller(S))) = 0
  <2>1. \E x \in S : Cardinality(Before(x, S, Smaller(S))) = 1 - 1
    BY <1>2, <1>3
  <2> QED  BY <2>1
<1>5. Before(x, S, Smaller(S)) = {}
  <2>1. Before(x, S, Smaller(S)) \subseteq S  BY DEF Before
  <2> QED  BY <1>4, <2>1, FS_Subset, FS_EmptySet
<1>6. \A y \in S : ~ (y < x)  BY <1>5 DEF Before, Smaller
<1> QED  BY <1>6

(* Induction up to n: a set with 0 and with the successors of its members  *)
(* has all the numbers up to n.                                            *)
LEMMA UpTo ==
  ASSUME NEW n \in Nat, NEW G, 0 \in G, \A i \in 0 .. n - 1 : i \in G => i + 1 \in G
  PROVE  0 .. n \subseteq G
<1> DEFINE missing == (0 .. n) \ G
<1> SUFFICES ASSUME missing # {} PROVE FALSE  OBVIOUS
<1>1. missing \subseteq Nat /\ IsFiniteSet(missing)
  <2>1. IsFiniteSet(0 .. n)  BY FS_Interval
  <2> QED  BY <2>1, FS_Subset
<1>2. PICK x \in missing : \A y \in missing : x <= y
  <2> HIDE DEF missing
  <2> QED  BY <1>1, Least
<1>3. x # 0 /\ x - 1 \in 0 .. n - 1 /\ x - 1 \notin missing
  BY <1>2
<1> QED  BY <1>2, <1>3

(* InOrder lists every element once, each before those that follow it.     *)
LEMMA InOrderFacts ==
  ASSUME NEW S, IsFiniteSet(S), NEW R, Orders(R, S), NEW s, s = InOrder(S, R)
  PROVE  /\ s \in Seq(S)
         /\ Len(s) = Cardinality(S) /\ Len(s) \in Nat /\ DOMAIN s = 1 .. Len(s)
         /\ \A x \in S : \E i \in DOMAIN s : s[i] = x
         /\ \A i, j \in DOMAIN s : i < j => <<s[i], s[j]>> \in R /\ s[i] # s[j]
<1> DEFINE n == Cardinality(S)
<1> DEFINE rank(x) == Cardinality(Before(x, S, R))
<1>1. /\ n \in Nat
      /\ \A x \in S : rank(x) \in 0 .. n - 1
      /\ \A x, y \in S : <<x, y>> \in R => rank(x) < rank(y)
      /\ \A i \in 1 .. n : \E x \in S : rank(x) = i - 1
  BY Ranks
<1>2. s = [i \in 1 .. n |-> CHOOSE x \in S : rank(x) = i - 1]
  BY DEF InOrder
<1>6. /\ \A x \in S : <<x, x>> \notin R
      /\ \A x, y \in S : x # y => <<x, y>> \in R \/ <<y, x>> \in R
  BY DEF Orders
<1> HIDE DEF n, rank
<1>3. \A i \in 1 .. n : s[i] \in S /\ rank(s[i]) = i - 1
  BY <1>1, <1>2
<1>4. s \in Seq(S) /\ Len(s) = n /\ DOMAIN s = 1 .. n
  BY <1>1, <1>2, <1>3
<1>5. ASSUME NEW x \in S PROVE \E i \in 1 .. n : s[i] = x
  <2>1. rank(x) + 1 \in 1 .. n  BY <1>1
  <2>2. s[rank(x) + 1] \in S /\ rank(s[rank(x) + 1]) = rank(x)
    BY <1>1, <1>3, <2>1
  <2>3. ASSUME NEW y \in S, y # x PROVE rank(y) # rank(x)
    <3>1. rank(x) < rank(y) \/ rank(y) < rank(x)  BY <1>1, <1>6, <2>3
    <3>2. rank(x) \in Int /\ rank(y) \in Int  BY <1>1
    <3> QED  BY <3>1, <3>2
  <2>4. s[rank(x) + 1] = x  BY <2>2, <2>3
  <2> QED  BY <2>1, <2>4
<1>7. ASSUME NEW i \in 1 .. n, NEW j \in 1 .. n, i < j
      PROVE  <<s[i], s[j]>> \in R /\ s[i] # s[j]
  <2>1. rank(s[i]) < rank(s[j])  BY <1>3, <1>7
  <2>2. s[i] # s[j]  BY <1>1, <1>3, <2>1
  <2>3. <<s[j], s[i]>> \notin R  BY <1>1, <1>3, <2>1
  <2> QED  BY <1>3, <1>6, <2>2, <2>3
<1> QED  BY <1>1, <1>4, <1>5, <1>7 DEF n

(* The elements at the positions of I and no others, in their order: o     *)
(* says at which position of s each of them stands.                        *)
LEMMA SelectedFacts ==
  ASSUME NEW T, NEW s \in Seq(T), NEW I \in SUBSET (DOMAIN s), NEW k, k = Selected(s, I)
  PROVE  /\ k \in Seq(T) /\ Len(k) \in Nat /\ DOMAIN k = 1 .. Len(k)
         /\ \E o \in [DOMAIN k -> I] :
              /\ \A a \in DOMAIN k : k[a] = s[o[a]]
              /\ \A i \in I : \E a \in DOMAIN k : o[a] = i
              /\ \A a, b \in DOMAIN k : a < b => o[a] < o[b]
<1> DEFINE o == InOrder(I, Smaller(DOMAIN s))
<1>1. DOMAIN s = 1 .. Len(s) /\ Len(s) \in Nat  OBVIOUS
<1>2. I \subseteq DOMAIN s /\ IsFiniteSet(I)
  <2>1. IsFiniteSet(1 .. Len(s))  BY <1>1, FS_Interval
  <2> QED  BY <1>1, <2>1, FS_Subset
<1>3. Orders(Smaller(DOMAIN s), I)
  <2>1. \A x, y \in I : <<x, y>> \in Smaller(DOMAIN s) <=> x < y
    BY <1>2 DEF Smaller
  <2> QED  BY <1>1, <1>2, <2>1 DEF Orders
<1>4. /\ o \in Seq(I) /\ Len(o) \in Nat /\ DOMAIN o = 1 .. Len(o)
      /\ \A x \in I : \E i \in DOMAIN o : o[i] = x
      /\ \A i, j \in DOMAIN o : i < j => <<o[i], o[j]>> \in Smaller(DOMAIN s)
  <2>1. o = InOrder(I, Smaller(DOMAIN s))  OBVIOUS
  <2> HIDE DEF o
  <2> QED  BY <1>2, <1>3, <2>1, InOrderFacts
<1>5. k = [i \in DOMAIN o |-> s[o[i]]]  BY DEF Selected
<1> HIDE DEF o
<1>6. \A a \in DOMAIN o : o[a] \in I /\ o[a] \in DOMAIN s /\ s[o[a]] \in T
  BY <1>1, <1>4
<1>7. k \in Seq(T) /\ Len(k) \in Nat /\ DOMAIN k = 1 .. Len(k) /\ DOMAIN k = DOMAIN o
  BY <1>4, <1>5, <1>6
<1>8. \A a, b \in DOMAIN k : a < b => o[a] < o[b]
  <2> SUFFICES ASSUME NEW a \in DOMAIN k, NEW b \in DOMAIN k, a < b
               PROVE  o[a] < o[b]
    OBVIOUS
  <2>1. <<o[a], o[b]>> \in Smaller(DOMAIN s)  BY <1>4, <1>7
  <2> QED  BY <2>1 DEF Smaller
<1>9. o \in [DOMAIN k -> I]
  <2>1. o \in [1 .. Len(o) -> I]  BY <1>4
  <2>2. DOMAIN k = 1 .. Len(o)  BY <1>4, <1>7
  <2> QED  BY <2>1, <2>2
<1>10. \A a \in DOMAIN k : k[a] = s[o[a]]  BY <1>5, <1>7
<1>11. \A i \in I : \E a \in DOMAIN k : o[a] = i  BY <1>4, <1>7
<1> QED
  <2>1. \E x \in [DOMAIN k -> I] :
          /\ \A a \in DOMAIN k : k[a] = s[x[a]]
          /\ \A i \in I : \E a \in DOMAIN k : x[a] = i
          /\ \A a, b \in DOMAIN k : a < b => x[a] < x[b]
    BY <1>8, <1>9, <1>10, <1>11
  <2> QED  BY <1>7, <2>1

LEMMA SelectedLength ==
  ASSUME NEW T, NEW s \in Seq(T), NEW I \in SUBSET (DOMAIN s)
  PROVE  Len(Selected(s, I)) <= Len(s)
<1>1. PICK k : k = Selected(s, I)  OBVIOUS
<1>2. k \in Seq(T) /\ Len(k) \in Nat /\ DOMAIN k = 1 .. Len(k)
  BY <1>1, SelectedFacts
<1>3. PICK o \in [DOMAIN k -> I] : \A a, b \in DOMAIN k : a < b => o[a] < o[b]
  BY <1>1, SelectedFacts
<1>4. DOMAIN s = 1 .. Len(s) /\ Len(s) \in Nat  OBVIOUS
<1>5. \A a \in 1 .. Len(k) : o[a] \in 1 .. Len(s)  BY <1>2, <1>3, <1>4
<1>6. \A a, b \in 1 .. Len(k) : a # b => o[a] # o[b]
  <2>1. \A a, b \in 1 .. Len(k) : a # b => a < b \/ b < a  BY <1>2
  <2>2. \A a, b \in 1 .. Len(k) : a < b => o[a] < o[b]  BY <1>2, <1>3
  <2> QED  BY <1>4, <1>5, <2>1, <2>2
<1>7. o \in Injection(1 .. Len(k), 1 .. Len(s))
  <2>1. o \in [1 .. Len(k) -> 1 .. Len(s)]  BY <1>2, <1>3, <1>4
  <2> QED  BY <1>6, <2>1 DEF Injection, IsInjective
<1>8. /\ IsFiniteSet(1 .. Len(s)) /\ Cardinality(1 .. Len(s)) = Len(s)
      /\ Cardinality(1 .. Len(k)) = Len(k)
  <2>1. \A n \in Nat : IsFiniteSet(1 .. n) /\ Cardinality(1 .. n) = n
    BY FS_Interval
  <2> QED  BY <1>2, <1>4, <2>1
<1>9. Cardinality(1 .. Len(k)) <= Cardinality(1 .. Len(s))
  BY <1>7, <1>8, FS_Injection
<1> QED  BY <1>1, <1>8, <1>9

(* Keep returns the elements in S and no others, in the order they had.    *)
LEMMA KeepFacts ==
  ASSUME NEW T, NEW s \in Seq(T), NEW S, NEW k, k = Keep(s, S)
  PROVE  /\ k \in Seq(T) /\ Len(k) \in Nat /\ DOMAIN k = 1 .. Len(k)
         /\ \A a \in DOMAIN k : k[a] \in S /\ \E i \in DOMAIN s : k[a] = s[i]
         /\ \A i \in DOMAIN s : s[i] \in S => \E a \in DOMAIN k : k[a] = s[i]
         /\ \A a, b \in DOMAIN k : a < b =>
              \E i, j \in DOMAIN s : i < j /\ k[a] = s[i] /\ k[b] = s[j]
<1> DEFINE I == {i \in DOMAIN s : s[i] \in S}
<1>1. k = Selected(s, I) /\ I \in SUBSET (DOMAIN s)  BY DEF Keep
<1>2. \A i \in I : i \in DOMAIN s /\ s[i] \in S  OBVIOUS
<1>3. \A i \in DOMAIN s : s[i] \in S => i \in I  OBVIOUS
<1> HIDE DEF I
<1>4. k \in Seq(T) /\ Len(k) \in Nat /\ DOMAIN k = 1 .. Len(k)
  BY <1>1, SelectedFacts
<1>5. PICK o \in [DOMAIN k -> I] :
        /\ \A a \in DOMAIN k : k[a] = s[o[a]]
        /\ \A i \in I : \E a \in DOMAIN k : o[a] = i
        /\ \A a, b \in DOMAIN k : a < b => o[a] < o[b]
  BY <1>1, SelectedFacts
<1> QED  BY <1>2, <1>3, <1>4, <1>5

-----------------------------------------------------------------------------
(* Induction over the subsets of a finite set, from smaller ones up.       *)
LEMMA Subsets ==
  ASSUME NEW D, IsFiniteSet(D), NEW G,
         \A S \in SUBSET D : (\A x \in S : S \ {x} \in G) => S \in G
  PROVE  SUBSET D \subseteq G
<1> DEFINE n == Cardinality(D)
           H == {i \in 0 .. n : \A S \in SUBSET D : Cardinality(S) <= i => S \in G}
<1>1. n \in Nat /\ \A S \in SUBSET D : IsFiniteSet(S) /\ Cardinality(S) \in 0 .. n
  BY FS_Subset, FS_CardinalityType
<1>2. ASSUME NEW S \in SUBSET D, NEW x \in S
      PROVE  S \ {x} \in SUBSET D /\ Cardinality(S \ {x}) = Cardinality(S) - 1
  BY <1>1, FS_RemoveElement
<1>3. 0 \in H
  <2>1. ASSUME NEW S \in SUBSET D, Cardinality(S) <= 0 PROVE S \in G
    <3>1. Cardinality(S) = 0  BY <1>1, <2>1
    <3>2. S = {}  BY <1>1, <3>1, FS_EmptySet
    <3> QED  BY <3>2
  <2> HIDE DEF n
  <2> QED  BY <1>1, <2>1
<1>4. ASSUME NEW i \in 0 .. n - 1, i \in H PROVE i + 1 \in H
  <2>1. ASSUME NEW S \in SUBSET D, Cardinality(S) <= i + 1 PROVE S \in G
    <3>1. \A x \in S : Cardinality(S \ {x}) <= i
      <4> HIDE DEF n
      <4> QED  BY <1>1, <1>2, <2>1
    <3>2. \A x \in S : S \ {x} \in G  BY <1>2, <1>4, <3>1
    <3> QED  BY <3>2
  <2> HIDE DEF n
  <2>2. i + 1 \in 0 .. n  BY <1>1
  <2> QED  BY <2>1, <2>2
<1> HIDE DEF H
<1>5. 0 .. n \subseteq H
  <2> HIDE DEF n
  <2> QED  BY <1>1, <1>3, <1>4, UpTo
<1>6. n \in H
  <2> HIDE DEF n
  <2> QED  BY <1>1, <1>5
<1> QED  BY <1>1, <1>6 DEF H

(* The function that SumFunctionOnSet sums by, over the subsets in U.      *)
Chosen(s) == CHOOSE x \in s : TRUE
Sums(g, f, U) ==
  g = [s \in U |-> IF s = {} THEN 0 ELSE f[Chosen(s)] + g[s \ {Chosen(s)}]]

LEMMA SumsExist ==
  ASSUME NEW D, IsFiniteSet(D), NEW f
  PROVE  \E g : Sums(g, f, SUBSET D)
<1> DEFINE n == Cardinality(D)
           U(i) == {s \in SUBSET D : Cardinality(s) <= i}
           G == {i \in 0 .. n : \E g : Sums(g, f, U(i))}
<1>1. n \in Nat /\ \A S \in SUBSET D : IsFiniteSet(S) /\ Cardinality(S) \in 0 .. n
  BY FS_Subset, FS_CardinalityType
<1>2. ASSUME NEW i \in Nat, NEW s \in U(i + 1), s # {}
      PROVE  Chosen(s) \in s /\ s \ {Chosen(s)} \in U(i)
  <2>1. Chosen(s) \in s  BY <1>2 DEF Chosen
  <2>2. Cardinality(s \ {Chosen(s)}) = Cardinality(s) - 1
    BY <1>1, <2>1, FS_RemoveElement
  <2> HIDE DEF n
  <2> QED  BY <1>1, <2>1, <2>2
<1>3. 0 \in G
  <2>1. \A s \in U(0) : s = {}
    <3> TAKE s \in U(0)
    <3>1. Cardinality(s) = 0
      <4> HIDE DEF n
      <4> QED  BY <1>1
    <3> QED  BY <1>1, <3>1, FS_EmptySet
  <2> HIDE DEF U
  <2> DEFINE g == [s \in U(0) |-> 0]
  <2>2. Sums(g, f, U(0))  BY <2>1 DEF Sums
  <2> HIDE DEF n, g
  <2> QED  BY <1>1, <2>2
<1>4. ASSUME NEW i \in 0 .. n - 1, i \in G PROVE i + 1 \in G
  <2>0. i \in Nat /\ i + 1 \in 0 .. n
    <3> HIDE DEF n, U, G
    <3> QED  BY <1>1
  <2>1. PICK g : Sums(g, f, U(i))  BY <1>4
  <2>2. U(i) \subseteq U(i + 1)
    <3>1. ASSUME NEW s \in SUBSET D, Cardinality(s) <= i PROVE Cardinality(s) <= i + 1
      BY <1>1, <2>0, <3>1
    <3> QED  BY <3>1
  <2>3. \A s \in U(i + 1) : s # {} => s \ {Chosen(s)} \in U(i)
    BY <1>2, <2>0
  <2> HIDE DEF U
  <2> DEFINE g2 == [s \in U(i + 1) |-> IF s = {} THEN 0
                                       ELSE f[Chosen(s)] + g[s \ {Chosen(s)}]]
  <2>4. \A s \in U(i) : g2[s] = g[s]
    <3> TAKE s \in U(i)
    <3>1. g[s] = IF s = {} THEN 0 ELSE f[Chosen(s)] + g[s \ {Chosen(s)}]
      BY <2>1 DEF Sums
    <3>2. s \in U(i + 1)  BY <2>2
    <3> QED  BY <3>1, <3>2
  <2>5. \A s \in U(i + 1) : g2[s] = IF s = {} THEN 0
                                    ELSE f[Chosen(s)] + g2[s \ {Chosen(s)}]
    <3> TAKE s \in U(i + 1)
    <3>1. g2[s] = IF s = {} THEN 0 ELSE f[Chosen(s)] + g[s \ {Chosen(s)}]  OBVIOUS
    <3> HIDE DEF g2
    <3>2. s # {} => g2[s \ {Chosen(s)}] = g[s \ {Chosen(s)}]  BY <2>3, <2>4
    <3> QED  BY <3>1, <3>2
  <2>6. g2 = [s \in U(i + 1) |-> g2[s]]  OBVIOUS
  <2> HIDE DEF g2
  <2>7. Sums(g2, f, U(i + 1))  BY <2>5, <2>6 DEF Sums
  <2> QED  BY <2>0, <2>7
<1> HIDE DEF G
<1>5. 0 .. n \subseteq G
  <2> HIDE DEF n, U
  <2> QED  BY <1>1, <1>3, <1>4, UpTo
<1>6. n \in G
  <2> HIDE DEF n, U
  <2> QED  BY <1>1, <1>5
<1>7. U(n) = SUBSET D
  <2> HIDE DEF n
  <2> QED  BY <1>1
<1> QED  BY <1>6, <1>7 DEF G

(* A sum is one of a chosen element and of the others.                     *)
LEMMA SumStep ==
  ASSUME NEW D, IsFiniteSet(D), NEW f
  PROVE  SumFunctionOnSet(f, D) =
           IF D = {} THEN 0 ELSE f[Chosen(D)] + SumFunctionOnSet(f, D \ {Chosen(D)})
<1> DEFINE F(S) == CHOOSE g : Sums(g, f, SUBSET S)
<1>1. \A S : SumFunctionOnSet(f, S) = F(S)[S]
  BY DEF SumFunctionOnSet, FoldFunctionOnSet, MapThenFoldSet, Sums, Chosen
<1>2. ASSUME NEW S \in SUBSET D
      PROVE  /\ \A s \in SUBSET S : F(S)[s] = IF s = {} THEN 0
                                     ELSE f[Chosen(s)] + F(S)[s \ {Chosen(s)}]
             /\ \A s \in SUBSET S : s # {} => Chosen(s) \in s
  <2>1. IsFiniteSet(S)  BY FS_Subset
  <2>2. \E g : Sums(g, f, SUBSET S)  BY <2>1, SumsExist
  <2>3. Sums(F(S), f, SUBSET S)  BY <2>2
  <2> HIDE DEF F
  <2> QED  BY <2>3 DEF Sums, Chosen
<1> HIDE DEF F
<1>3. ASSUME NEW S \in SUBSET D PROVE F(S)[S] = F(D)[S]
  <2> DEFINE G == {s \in SUBSET S : F(S)[s] = F(D)[s]}
  <2>1. ASSUME NEW s \in SUBSET S, \A x \in s : s \ {x} \in G PROVE s \in G
    <3>1. s # {} => s \ {Chosen(s)} \in G  BY <1>2, <2>1
    <3>2. s \in SUBSET D /\ D \in SUBSET D  OBVIOUS
    <3> QED  BY <1>2, <3>1, <3>2
  <2>2. IsFiniteSet(S)  BY FS_Subset
  <2> HIDE DEF G
  <2>3. SUBSET S \subseteq G  BY <2>1, <2>2, Subsets
  <2>4. S \in G  BY <2>3
  <2> QED  BY <2>4 DEF G
<1>4. D \ {Chosen(D)} \in SUBSET D /\ D \in SUBSET D  OBVIOUS
<1> QED  BY <1>1, <1>2, <1>3, <1>4

(* A sum of numbers is a number, and one of any element and the others.    *)
LEMMA SumRemove ==
  ASSUME NEW D, IsFiniteSet(D), NEW f, \A x \in D : f[x] \in Nat, NEW S \in SUBSET D
  PROVE  /\ SumFunctionOnSet(f, S) \in Nat
         /\ \A x \in S : SumFunctionOnSet(f, S) = f[x] + SumFunctionOnSet(f, S \ {x})
<1> DEFINE sum(s) == SumFunctionOnSet(f, s)
           G == {s \in SUBSET D :
                   /\ sum(s) \in Nat
                   /\ \A x \in s : sum(s \ {x}) \in Nat /\ sum(s) = f[x] + sum(s \ {x})}
<1>1. ASSUME NEW s \in SUBSET D
      PROVE  sum(s) = IF s = {} THEN 0 ELSE f[Chosen(s)] + sum(s \ {Chosen(s)})
  <2>1. IsFiniteSet(s)  BY FS_Subset
  <2> QED  BY <2>1, SumStep
<1> HIDE DEF sum
<1>2. ASSUME NEW s \in SUBSET D, \A x \in s : s \ {x} \in G PROVE s \in G
  <2>1. CASE s = {}
    <3>1. sum(s) = 0  BY <1>1, <2>1
    <3> QED  BY <2>1, <3>1
  <2>2. CASE s # {}
    <3> DEFINE c == Chosen(s)
    <3>1. c \in s  BY <2>2 DEF Chosen
    <3>2. sum(s) = f[c] + sum(s \ {c})  BY <1>1, <2>2
    <3> HIDE DEF c
    <3>3. s \ {c} \in G /\ f[c] \in Nat /\ sum(s \ {c}) \in Nat  BY <1>2, <3>1
    <3>4. ASSUME NEW x \in s, x # c PROVE sum(s) = f[x] + sum(s \ {x})
      <4>1. sum(s \ {c}) = f[x] + sum((s \ {c}) \ {x})  BY <3>3, <3>4
      <4>2. sum(s \ {x}) = f[c] + sum((s \ {x}) \ {c})  BY <1>2, <3>1, <3>4
      <4>3. (s \ {c}) \ {x} = (s \ {x}) \ {c}  OBVIOUS
      <4>4. sum((s \ {c}) \ {x}) \in Nat /\ f[x] \in Nat  BY <3>3, <3>4
      <4> QED  BY <3>2, <3>3, <3>4, <4>1, <4>2, <4>3, <4>4
    <3>5. \A x \in s : sum(s \ {x}) \in Nat  BY <1>2
    <3>6. sum(s) \in Nat  BY <3>2, <3>3
    <3>7. \A x \in s : sum(s) = f[x] + sum(s \ {x})  BY <3>2, <3>4
    <3> HIDE DEF sum
    <3> QED  BY <3>5, <3>6, <3>7
  <2> QED  BY <2>1, <2>2
<1> HIDE DEF G
<1>3. SUBSET D \subseteq G  BY <1>2, Subsets
<1> QED  BY <1>3 DEF G, sum

(* A part of numbers has no larger sum than all.                           *)
LEMMA SumMonotone ==
  ASSUME NEW D, IsFiniteSet(D), NEW f, \A x \in D : f[x] \in Nat, NEW S \in SUBSET D
  PROVE  SumFunctionOnSet(f, S) <= SumFunctionOnSet(f, D)
<1> DEFINE sum(s) == SumFunctionOnSet(f, s)
           G == {s \in SUBSET D : S \subseteq s => sum(S) <= sum(s)}
<1>1. ASSUME NEW s \in SUBSET D
      PROVE  sum(s) \in Nat /\ \A x \in s : sum(s) = f[x] + sum(s \ {x})
  BY SumRemove
<1> HIDE DEF sum
<1>2. ASSUME NEW s \in SUBSET D, \A x \in s : s \ {x} \in G PROVE s \in G
  <2>1. CASE ~ (S \subseteq s)  BY <2>1
  <2>2. CASE S = s  BY <1>1, <2>2
  <2>3. CASE S \subseteq s /\ S # s
    <3>1. PICK x \in s : x \notin S  BY <2>3
    <3>2. sum(S) <= sum(s \ {x})  BY <1>2, <2>3, <3>1
    <3>3. sum(s) = f[x] + sum(s \ {x}) /\ f[x] \in Nat /\ sum(S) \in Nat /\ sum(s \ {x}) \in Nat
      BY <1>1
    <3>4. sum(S) <= sum(s)  BY <3>2, <3>3
    <3> QED  BY <3>4
  <2> QED  BY <2>1, <2>2, <2>3
<1> HIDE DEF G
<1>3. SUBSET D \subseteq G  BY <1>2, Subsets
<1> QED  BY <1>3 DEF G, sum

(* A finite set of numbers has a greatest one.                             *)
LEMMA Greatest ==
  ASSUME NEW D, D \subseteq Nat, IsFiniteSet(D), D # {}
  PROVE  \E x \in D : \A y \in D : x >= y
<1> DEFINE G == {S \in SUBSET D : S = {} \/ \E x \in S : \A y \in S : x >= y}
<1>1. ASSUME NEW S \in SUBSET D, \A x \in S : S \ {x} \in G PROVE S \in G
  <2> SUFFICES ASSUME NEW x \in S PROVE \E z \in S : \A y \in S : z >= y
    OBVIOUS
  <2>1. CASE S \ {x} = {}
    <3>1. \A y \in S : x >= y  BY <2>1
    <3> QED  BY <3>1
  <2>2. CASE S \ {x} # {}
    <3>1. PICK z \in S \ {x} : \A y \in S \ {x} : z >= y  BY <1>1, <2>2
    <3>2. x >= z => \A y \in S : x >= y  BY <3>1
    <3>3. z >= x => \A y \in S : z >= y  BY <3>1
    <3>4. x >= z \/ z >= x  BY <3>1
    <3> QED  BY <3>1, <3>2, <3>3, <3>4
  <2> QED  BY <2>1, <2>2
<1> HIDE DEF G
<1>2. SUBSET D \subseteq G  BY <1>1, Subsets
<1>3. D \in G  BY <1>2
<1> QED  BY <1>3 DEF G
=============================================================================

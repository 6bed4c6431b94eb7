---------------------------- MODULE CatalogProofs ----------------------------
(* Proofs about Catalog for every list of widths, of dropped and of kept      *)
(* views, every set of events and reports, and any number of starts.          *)
EXTENDS Catalog, FiniteSetTheorems, TLAPS

Bag == [Event -> Nat]

Types ==
  /\ phase \in {"down", "migrating", "serving"} /\ stmt \in 1..Len(MIGRATIONS) + 1
  /\ events \in Bag /\ due \in Bag /\ read \in [Width -> Bag]
  /\ imp \in [Upload -> {"none", "exporting", "inserting", "done", "failed"}]
  /\ took \in [Upload -> Upload \cup {NoUpload}]
  /\ sqlite \in Upload \cup {NoUpload}

(* The statements that have run since the last start have left the kept       *)
(* views they create; once all have run, the kept views are there for good,   *)
(* whatever a later run of the same statements does.                          *)
KeptViews ==
  /\ phase = "migrating" =>
       \A j \in 1..stmt - 1 :
         MIGRATIONS[j].op = "create" /\ MIGRATIONS[j].arg \in Kept => MIGRATIONS[j].arg \in views
  /\ migrated => Kept \subseteq views

(* Two uploads that are imported at a time are both marked; one that is not   *)
(* finds its own export in trace.sqlite.                                      *)
OneAtATime ==
  /\ \A u, v \in Upload : u \in Importing /\ v \in Importing /\ u # v => u \in overlapped
  /\ \A u \in Upload \ overlapped :
       /\ imp[u] = "inserting" => sqlite = u
       /\ imp[u] = "done" => took[u] = u

(* No view reads a row that is not activity. *)
ReadsActivity == \A w \in Width, e \in Event : ~Activity(e) => read[w][e] = 0

IInv == Types /\ KeptViews /\ ViewsRead /\ ReadsActivity /\ OneAtATime

----------------------------------------------------------------------------
(* Sums over finite sets.  SumFunctionOnSet is a fold, so what it does to    *)
(* one more element comes from the recursive function behind it, by induction  *)
(* over the subsets of the set.                                                *)

(* The least element of a set of naturals, and induction from it. *)
LEMMA LeastElement ==
  ASSUME NEW T \in SUBSET Nat, T # {}
  PROVE  \E n \in T : \A m \in T : n <= m
<1>1. PICK n \in T : \A m \in T : ~ (<<m, n>> \in OpToRel(<, Nat))
  <2>1. \E x \in T : \A y \in T : ~ (<<y, x>> \in OpToRel(<, Nat))
    BY WFMin, NatLessThanWellFounded
  <2>2. QED BY <2>1
<1>2. ASSUME NEW m \in T PROVE n <= m
  <2>1. <<m, n>> \notin {ss \in Nat \X Nat : ss[1] < ss[2]}
    BY <1>1 DEF OpToRel
  <2>2. <<m, n>> \in Nat \X Nat /\ n \in Nat /\ m \in Nat
    OBVIOUS
  <2>3. QED BY <2>1, <2>2
<1>3. QED BY <1>2

LEMMA Induction ==
  ASSUME NEW T, 0 \in T, \A n \in Nat : n \in T => n + 1 \in T
  PROVE  \A n \in Nat : n \in T
<1> SUFFICES ASSUME Nat \ T # {} PROVE FALSE
  OBVIOUS
<1>1. PICK n \in Nat \ T : \A m \in Nat \ T : n <= m
  BY LeastElement
<1>2. n # 0 /\ n - 1 \in Nat /\ n - 1 + 1 = n
  BY <1>1
<1>3. QED BY <1>1, <1>2

(* A family of subsets of a finite set has a minimal one. *)
LEMMA MinimalSubset ==
  ASSUME NEW S, IsFiniteSet(S), NEW F \in SUBSET (SUBSET S), F # {}
  PROVE  \E U \in F : \A V \in F : V \subseteq U => V = U
<1>1. F \subseteq FiniteSubsetsOf(S)
  BY FS_FiniteSubsetsOfFinite
<1>2. \E U \in F : \A V \in F : ~ (<<V, U>> \in StrictSubsetOrdering(S))
  BY <1>1, WFMin, FS_StrictSubsetOrderingWellFounded
<1>3. PICK U \in F : \A V \in F : ~ (<<V, U>> \in StrictSubsetOrdering(S))
  BY <1>2
<1>4. ASSUME NEW V \in F, V \subseteq U PROVE V = U
  <2>1. <<V, U>> \notin {ss \in (SUBSET S) \X (SUBSET S) : ss[1] \subseteq ss[2] /\ ss[1] # ss[2]}
    BY <1>3 DEF StrictSubsetOrdering
  <2>2. <<V, U>> \in (SUBSET S) \X (SUBSET S)
    OBVIOUS
  <2>3. QED BY <1>4, <2>1, <2>2
<1>5. QED BY <1>4

(* Induction over the subsets of a finite set, one element at a time. *)
LEMMA SubsetInduction ==
  ASSUME NEW S, IsFiniteSet(S), NEW F,
         {} \in F,
         \A U \in SUBSET S : U # {} /\ (\A x \in U : U \ {x} \in F) => U \in F
  PROVE  \A U \in SUBSET S : U \in F
<1> SUFFICES ASSUME (SUBSET S) \ F # {} PROVE FALSE
  OBVIOUS
<1>1. PICK U \in (SUBSET S) \ F : \A V \in (SUBSET S) \ F : V \subseteq U => V = U
  <2> DEFINE G == (SUBSET S) \ F
  <2>1. G \in SUBSET (SUBSET S) /\ G # {}
    OBVIOUS
  <2> HIDE DEF G
  <2>2. \E U \in G : \A V \in G : V \subseteq U => V = U
    BY <2>1, MinimalSubset
  <2>3. QED BY <2>2 DEF G
<1>2. ASSUME NEW x \in U PROVE U \ {x} \in F
  BY <1>1
<1>3. QED BY <1>1, <1>2


(* The element that the fold takes next, the equation of the function behind  *)
(* a sum of f over S, and what a solution g of it satisfies.                  *)
Chosen(s) == CHOOSE x \in s : TRUE
SumUp(f, S, g) ==
  [s \in SUBSET S |-> IF s = {} THEN 0 ELSE LET x == CHOOSE x \in s : TRUE IN f[x] + g[s \ {x}]]
SumsUp(f, S, g) ==
  \A s \in SUBSET S : g[s] = IF s = {} THEN 0 ELSE f[Chosen(s)] + g[s \ {Chosen(s)}]

(* The equation has a solution: on the subsets of up to n elements for        *)
(* every n.                                                                   *)
LEMMA SumExists ==
  ASSUME NEW S, IsFiniteSet(S), NEW f
  PROVE  \E g : g = SumUp(f, S, g)
<1> DEFINE Small(n) == {s \in SUBSET S : Cardinality(s) <= n}
           Good(n, g) == g = [s \in Small(n) |-> IF s = {} THEN 0 ELSE f[Chosen(s)] + g[s \ {Chosen(s)}]]
           T == {n \in Nat : \E g : Good(n, g)}
<1>1. ASSUME NEW s \in SUBSET S
      PROVE  /\ IsFiniteSet(s) /\ Cardinality(s) \in Nat /\ (Cardinality(s) = 0 <=> s = {})
             /\ s # {} => Chosen(s) \in s /\ Cardinality(s \ {Chosen(s)}) = Cardinality(s) - 1
  <2>1. IsFiniteSet(s) /\ Cardinality(s) \in Nat /\ (Cardinality(s) = 0 <=> s = {})
    BY FS_Subset, FS_CardinalityType, FS_EmptySet
  <2>2. s # {} => Chosen(s) \in s
    BY DEF Chosen
  <2>3. s # {} => Cardinality(s \ {Chosen(s)}) = Cardinality(s) - 1
    BY <2>1, <2>2, FS_RemoveElement
  <2>4. QED BY <2>1, <2>2, <2>3
<1>2. 0 \in T
  <2> DEFINE g == [s \in Small(0) |-> 0]
  <2>1. ASSUME NEW s \in Small(0) PROVE s = {}
    <3>1. Cardinality(s) \in Nat /\ Cardinality(s) <= 0
      BY <1>1
    <3>2. Cardinality(s) = 0
      BY <3>1
    <3>3. QED BY <1>1, <3>2
  <2>2. Good(0, g)
    BY <2>1
  <2>3. QED BY <2>2
<1>3. ASSUME NEW n \in Nat, n \in T PROVE n + 1 \in T
  <2>1. PICK g : Good(n, g)
    BY <1>3
  <2> DEFINE h == [s \in Small(n + 1) |-> IF s = {} THEN 0 ELSE f[Chosen(s)] + g[s \ {Chosen(s)}]]
  <2>2. ASSUME NEW s \in Small(n + 1), s # {} PROVE h[s \ {Chosen(s)}] = g[s \ {Chosen(s)}]
    <3> DEFINE r == s \ {Chosen(s)}
    <3>1. r \in Small(n) /\ r \in Small(n + 1)
      BY <1>1, <2>2
    <3>2. h[r] = IF r = {} THEN 0 ELSE f[Chosen(r)] + g[r \ {Chosen(r)}]
      BY <3>1
    <3>3. g[r] = IF r = {} THEN 0 ELSE f[Chosen(r)] + g[r \ {Chosen(r)}]
      BY <2>1, <3>1
    <3>4. QED BY <3>2, <3>3
  <2> HIDE DEF Small
  <2>3. h = [s \in Small(n + 1) |-> IF s = {} THEN 0 ELSE f[Chosen(s)] + h[s \ {Chosen(s)}]]
    <3> DEFINE k == [s \in Small(n + 1) |-> IF s = {} THEN 0 ELSE f[Chosen(s)] + h[s \ {Chosen(s)}]]
    <3>1. ASSUME NEW s \in Small(n + 1) PROVE h[s] = k[s]
      <4>1. CASE s = {}
        BY <4>1
      <4>2. CASE s # {}
        <5>1. k[s] = f[Chosen(s)] + h[s \ {Chosen(s)}]
          BY <4>2
        <5>2. h[s] = f[Chosen(s)] + g[s \ {Chosen(s)}]
          BY <4>2
        <5>3. QED BY <2>2, <4>2, <5>1, <5>2
      <4>3. QED BY <4>1, <4>2
    <3>2. h = k
      BY <3>1
    <3>3. QED BY <3>2
  <2>4. Good(n + 1, h)
    BY <2>3
  <2> HIDE DEF h, Good
  <2>5. \E k : Good(n + 1, k)
    BY <2>4
  <2>6. QED BY <2>5
<1> HIDE DEF T
<1>4. Cardinality(S) \in T
  <2>1. Cardinality(S) \in Nat
    BY FS_CardinalityType
  <2>2. QED BY <1>2, <1>3, <2>1, Induction
<1>5. Small(Cardinality(S)) = SUBSET S
  BY FS_Subset
<1>6. PICK g : Good(Cardinality(S), g)
  BY <1>4 DEF T
<1>7. g = [s \in SUBSET S |-> IF s = {} THEN 0 ELSE f[Chosen(s)] + g[s \ {Chosen(s)}]]
  BY <1>5, <1>6
<1>8. g = SumUp(f, S, g)
  BY <1>7 DEF SumUp, Chosen
<1>9. QED BY <1>8

(* SumFunctionOnSet is that solution at the whole set. *)
LEMMA SumIsIter ==
  ASSUME NEW S, IsFiniteSet(S), NEW f
  PROVE  \E g : SumsUp(f, S, g) /\ SumFunctionOnSet(f, S) = g[S]
<1> DEFINE g == CHOOSE g : g = SumUp(f, S, g)
<1>1. SumFunctionOnSet(f, S) = g[S]
  BY DEF SumFunctionOnSet, FoldFunctionOnSet, MapThenFoldSet, SumUp
<1>2. g = SumUp(f, S, g)
  BY SumExists
<1> HIDE DEF g
<1>3. g = [s \in SUBSET S |-> IF s = {} THEN 0 ELSE f[Chosen(s)] + g[s \ {Chosen(s)}]]
  BY <1>2 DEF SumUp, Chosen
<1>4. SumsUp(f, S, g)
  BY <1>3 DEF SumsUp
<1>5. QED BY <1>1, <1>4

(* What the function behind a sum over S says of the subsets of S is what the *)
(* sums over them are.                                                        *)
LEMMA SumOfSubset ==
  ASSUME NEW S, IsFiniteSet(S), NEW f, NEW g, SumsUp(f, S, g), NEW U \in SUBSET S
  PROVE  SumFunctionOnSet(f, U) = g[U]
<1>1. IsFiniteSet(U)
  BY FS_Subset
<1>2. PICK h : SumsUp(f, U, h) /\ SumFunctionOnSet(f, U) = h[U]
  BY <1>1, SumIsIter
<1> DEFINE F == {s \in SUBSET U : h[s] = g[s]}
<1>3. {} \in F
  BY <1>2 DEF SumsUp
<1>4. ASSUME NEW s \in SUBSET U, s # {}, \A x \in s : s \ {x} \in F PROVE s \in F
  <2>1. Chosen(s) \in s
    BY <1>4 DEF Chosen
  <2>2. h[s \ {Chosen(s)}] = g[s \ {Chosen(s)}]
    BY <1>4, <2>1
  <2>3. h[s] = f[Chosen(s)] + h[s \ {Chosen(s)}]
    BY <1>2, <1>4 DEF SumsUp
  <2>4. g[s] = f[Chosen(s)] + g[s \ {Chosen(s)}]
    <3>1. s \in SUBSET S
      OBVIOUS
    <3>2. QED BY <1>4, <3>1 DEF SumsUp
  <2>5. QED BY <2>2, <2>3, <2>4
<1> HIDE DEF F
<1>5. U \in F
  BY <1>1, <1>3, <1>4, SubsetInduction
<1>6. QED BY <1>2, <1>5 DEF F

(* A sum of naturals is a natural, zero over no element, and each element can *)
(* be taken out of it.                                                        *)
LEMMA SumFacts ==
  ASSUME NEW S, IsFiniteSet(S), NEW f, \A x \in S : f[x] \in Nat
  PROVE  /\ SumFunctionOnSet(f, {}) = 0
         /\ SumFunctionOnSet(f, S) \in Nat
         /\ \A x \in S : SumFunctionOnSet(f, S) = f[x] + SumFunctionOnSet(f, S \ {x})
<1>1. PICK g : SumsUp(f, S, g) /\ SumFunctionOnSet(f, S) = g[S]
  BY SumIsIter
<1>2. \A U \in SUBSET S : SumFunctionOnSet(f, U) = g[U]
  BY <1>1, SumOfSubset
<1>3. g[{}] = 0
  BY <1>1 DEF SumsUp
<1>4. \A U \in SUBSET S : g[U] \in Nat
  <2> DEFINE F == {U \in SUBSET S : g[U] \in Nat}
  <2>1. {} \in F
    BY <1>3
  <2>2. ASSUME NEW U \in SUBSET S, U # {}, \A x \in U : U \ {x} \in F PROVE U \in F
    <3>1. Chosen(U) \in U
      BY <2>2 DEF Chosen
    <3>2. g[U] = f[Chosen(U)] + g[U \ {Chosen(U)}]
      BY <1>1, <2>2 DEF SumsUp
    <3>3. f[Chosen(U)] \in Nat /\ g[U \ {Chosen(U)}] \in Nat
      BY <2>2, <3>1
    <3>4. QED BY <3>2, <3>3
  <2> HIDE DEF F
  <2>3. \A U \in SUBSET S : U \in F
    BY <2>1, <2>2, SubsetInduction
  <2>4. QED BY <2>3 DEF F
<1> DEFINE F == {U \in SUBSET S : \A x \in U : g[U] = f[x] + g[U \ {x}]}
<1>5. {} \in F
  OBVIOUS
<1>6. ASSUME NEW U \in SUBSET S, U # {}, \A x \in U : U \ {x} \in F PROVE U \in F
  <2> DEFINE c == Chosen(U)
  <2>1. c \in U
    BY <1>6 DEF Chosen
  <2>2. g[U] = f[c] + g[U \ {c}]
    BY <1>1, <1>6 DEF SumsUp
  <2>3. ASSUME NEW x \in U, x # c PROVE g[U] = f[x] + g[U \ {x}]
    <3>1. /\ x \in U \ {c} /\ c \in U \ {x} /\ (U \ {c}) \ {x} = (U \ {x}) \ {c}
          /\ (U \ {x}) \ {c} \in SUBSET S /\ U \ {x} \in SUBSET S /\ U \ {c} \in SUBSET S
      BY <2>1, <2>3
    <3>2. g[U \ {c}] = f[x] + g[(U \ {c}) \ {x}]
      BY <1>6, <2>1, <3>1
    <3>3. g[U \ {x}] = f[c] + g[(U \ {x}) \ {c}]
      BY <1>6, <2>3, <3>1
    <3>4. f[x] \in Nat /\ f[c] \in Nat
      BY <2>1
    <3> HIDE DEF c
    <3>5. /\ g[(U \ {x}) \ {c}] \in Nat /\ g[U \ {x}] \in Nat /\ g[U \ {c}] \in Nat
          /\ g[(U \ {x}) \ {c}] = g[(U \ {c}) \ {x}]
      BY <1>4, <3>1
    <3>6. QED BY <2>2, <3>2, <3>3, <3>4, <3>5
  <2>4. \A x \in U : g[U] = f[x] + g[U \ {x}]
    BY <2>2, <2>3
  <2>5. QED BY <2>4
<1> HIDE DEF F
<1>7. \A U \in SUBSET S : U \in F
  BY <1>5, <1>6, SubsetInduction
<1>8. \A x \in S : g[S] = f[x] + g[S \ {x}] /\ S \ {x} \in SUBSET S
  <2>1. S \in F
    BY <1>7
  <2>2. QED BY <2>1 DEF F
<1>9. QED BY <1>2, <1>3, <1>4, <1>8

(* SumFacts for all subsets of a set at once. *)
LEMMA SumStep ==
  ASSUME NEW S, IsFiniteSet(S), NEW f, \A x \in S : f[x] \in Nat
  PROVE  \A U \in SUBSET S : /\ SumFunctionOnSet(f, U) \in Nat
                             /\ \A x \in U : SumFunctionOnSet(f, U) = f[x] + SumFunctionOnSet(f, U \ {x})
<1>1. ASSUME NEW U \in SUBSET S
      PROVE  /\ SumFunctionOnSet(f, U) \in Nat
             /\ \A x \in U : SumFunctionOnSet(f, U) = f[x] + SumFunctionOnSet(f, U \ {x})
  <2>1. IsFiniteSet(U) /\ \A x \in U : f[x] \in Nat
    BY FS_Subset
  <2>2. QED BY <2>1, SumFacts
<1>2. QED BY <1>1

(* A sum grows with its function. *)
LEMMA SumMonotone ==
  ASSUME NEW S, IsFiniteSet(S), NEW f, NEW g,
         \A x \in S : f[x] \in Nat /\ g[x] \in Nat /\ f[x] <= g[x]
  PROVE  SumFunctionOnSet(f, S) <= SumFunctionOnSet(g, S)
<1> DEFINE F == {U \in SUBSET S : SumFunctionOnSet(f, U) <= SumFunctionOnSet(g, U)}
<1>1. SumFunctionOnSet(f, {}) = 0 /\ SumFunctionOnSet(g, {}) = 0
  BY SumFacts
<1>2. /\ \A U \in SUBSET S : SumFunctionOnSet(f, U) \in Nat /\ SumFunctionOnSet(g, U) \in Nat
      /\ \A U \in SUBSET S : \A x \in U :
           /\ SumFunctionOnSet(f, U) = f[x] + SumFunctionOnSet(f, U \ {x})
           /\ SumFunctionOnSet(g, U) = g[x] + SumFunctionOnSet(g, U \ {x})
  BY SumStep
<1>3. {} \in F
  BY <1>1
<1>4. ASSUME NEW U \in SUBSET S, U # {}, \A x \in U : U \ {x} \in F PROVE U \in F
  <2>1. PICK x : x \in U
    BY <1>4
  <2> DEFINE V == U \ {x}
  <2>2. V \in SUBSET S /\ SumFunctionOnSet(f, V) <= SumFunctionOnSet(g, V)
    BY <1>4, <2>1
  <2>3. /\ SumFunctionOnSet(f, U) = f[x] + SumFunctionOnSet(f, V)
        /\ SumFunctionOnSet(g, U) = g[x] + SumFunctionOnSet(g, V)
        /\ f[x] \in Nat /\ g[x] \in Nat /\ f[x] <= g[x]
    BY <1>2, <2>1
  <2> HIDE DEF V
  <2>4. SumFunctionOnSet(f, V) \in Nat /\ SumFunctionOnSet(g, V) \in Nat
    BY <1>2, <2>2
  <2>5. QED BY <2>2, <2>3, <2>4
<1> HIDE DEF F
<1>5. \A U \in SUBSET S : U \in F
  BY <1>3, <1>4, SubsetInduction
<1>6. S \in F
  BY <1>5
<1>7. QED BY <1>6 DEF F

(* The sum over two disjoint sets. *)
LEMMA SumUnion ==
  ASSUME NEW A, NEW B, IsFiniteSet(A), IsFiniteSet(B), A \cap B = {}, NEW f,
         \A x \in A \cup B : f[x] \in Nat
  PROVE  SumFunctionOnSet(f, A \cup B) = SumFunctionOnSet(f, A) + SumFunctionOnSet(f, B)
<1> DEFINE F == {U \in SUBSET A : SumFunctionOnSet(f, U \cup B) = SumFunctionOnSet(f, U) + SumFunctionOnSet(f, B)}
<1>1. SumFunctionOnSet(f, {}) = 0 /\ SumFunctionOnSet(f, B) \in Nat
  BY SumFacts
<1>2. IsFiniteSet(A \cup B)
  BY FS_Union
<1>3. \A U \in SUBSET (A \cup B) :
         /\ SumFunctionOnSet(f, U) \in Nat
         /\ \A x \in U : SumFunctionOnSet(f, U) = f[x] + SumFunctionOnSet(f, U \ {x})
  BY <1>2, SumStep
<1>4. {} \in F
  <2>1. {} \cup B = B
    OBVIOUS
  <2>2. QED BY <1>1, <2>1
<1>5. ASSUME NEW U \in SUBSET A, U # {}, \A x \in U : U \ {x} \in F PROVE U \in F
  <2>1. PICK x : x \in U
    BY <1>5
  <2> DEFINE V == U \ {x}
  <2>2. SumFunctionOnSet(f, V \cup B) = SumFunctionOnSet(f, V) + SumFunctionOnSet(f, B)
    BY <1>5, <2>1
  <2>3. /\ U \in SUBSET (A \cup B) /\ U \cup B \in SUBSET (A \cup B) /\ V \in SUBSET (A \cup B)
        /\ x \in U /\ x \in U \cup B /\ (U \cup B) \ {x} = V \cup B
    BY <2>1
  <2> HIDE DEF V
  <2>4. /\ SumFunctionOnSet(f, U) = f[x] + SumFunctionOnSet(f, V)
        /\ SumFunctionOnSet(f, U \cup B) = f[x] + SumFunctionOnSet(f, V \cup B)
        /\ f[x] \in Nat /\ SumFunctionOnSet(f, V) \in Nat
    <3>1. SumFunctionOnSet(f, U) = f[x] + SumFunctionOnSet(f, U \ {x}) /\ U \ {x} = V
      BY <1>3, <2>3 DEF V
    <3>2. SumFunctionOnSet(f, U \cup B) = f[x] + SumFunctionOnSet(f, (U \cup B) \ {x})
      BY <1>3, <2>3
    <3>3. f[x] \in Nat /\ SumFunctionOnSet(f, V) \in Nat
      BY <1>3, <2>3
    <3>4. QED BY <2>3, <3>1, <3>2, <3>3
  <2>5. QED BY <1>1, <2>2, <2>4
<1> HIDE DEF F
<1>6. \A U \in SUBSET A : U \in F
  BY <1>4, <1>5, SubsetInduction
<1>7. A \in F
  BY <1>6
<1>8. QED BY <1>7 DEF F

(* A sum grows with its set. *)
LEMMA SumOfPart ==
  ASSUME NEW B, IsFiniteSet(B), NEW A \in SUBSET B, NEW f, \A x \in B : f[x] \in Nat
  PROVE  SumFunctionOnSet(f, A) <= SumFunctionOnSet(f, B)
<1> DEFINE C == B \ A
<1>1. IsFiniteSet(A) /\ IsFiniteSet(C) /\ A \cap C = {} /\ B = A \cup C
  BY FS_Subset
<1> HIDE DEF C
<1>2. SumFunctionOnSet(f, B) = SumFunctionOnSet(f, A) + SumFunctionOnSet(f, C)
  BY <1>1, SumUnion
<1>3. SumFunctionOnSet(f, A) \in Nat /\ SumFunctionOnSet(f, C) \in Nat
  BY <1>1, SumFacts
<1>4. QED BY <1>2, <1>3

(* Elements that count nothing do not count. *)
LEMMA SumOfZeros ==
  ASSUME NEW S, IsFiniteSet(S), NEW f, \A x \in S : f[x] = 0
  PROVE  SumFunctionOnSet(f, S) = 0
<1> DEFINE F == {U \in SUBSET S : SumFunctionOnSet(f, U) = 0}
<1>1. \A U \in SUBSET S : /\ SumFunctionOnSet(f, U) \in Nat
                          /\ \A x \in U : SumFunctionOnSet(f, U) = f[x] + SumFunctionOnSet(f, U \ {x})
  BY SumStep
<1>2. {} \in F
  BY SumFacts
<1>3. ASSUME NEW U \in SUBSET S, U # {}, \A x \in U : U \ {x} \in F PROVE U \in F
  <2>1. PICK x : x \in U
    BY <1>3
  <2>2. SumFunctionOnSet(f, U) = f[x] + SumFunctionOnSet(f, U \ {x})
    BY <1>1, <2>1
  <2>3. f[x] = 0 /\ SumFunctionOnSet(f, U \ {x}) = 0
    BY <1>3, <2>1
  <2>4. QED BY <2>2, <2>3
<1> HIDE DEF F
<1>4. \A U \in SUBSET S : U \in F
  BY <1>2, <1>3, SubsetInduction
<1>5. S \in F
  BY <1>4
<1>6. QED BY <1>5 DEF F

(* The elements with a key, with a key of a set, and those with an earlier time. *)
Fibre(S, key, k) == {x \in S : key[x] = k}
Fibres(S, key, K) == {x \in S : key[x] \in K}
Earlier(S, time, t) == {x \in S : time[x] < t}

(* Summing per key and then over the keys is summing over all elements. *)
LEMMA SumOfFibres ==
  ASSUME NEW S, IsFiniteSet(S), NEW f, \A x \in S : f[x] \in Nat,
         NEW key, NEW K, IsFiniteSet(K), NEW per,
         \A k \in K : per[k] = SumFunctionOnSet(f, Fibre(S, key, k))
  PROVE  SumFunctionOnSet(per, K) = SumFunctionOnSet(f, Fibres(S, key, K))
<1> DEFINE Part(U) == Fibres(S, key, U)
           F == {U \in SUBSET K : SumFunctionOnSet(per, U) = SumFunctionOnSet(f, Part(U))}
<1>1. ASSUME NEW k \in K PROVE per[k] \in Nat
  <2> DEFINE B == Fibre(S, key, k)
  <2>1. B \in SUBSET S /\ per[k] = SumFunctionOnSet(f, B)
    BY DEF Fibre
  <2> HIDE DEF B
  <2>2. SumFunctionOnSet(f, B) \in Nat
    BY <2>1, SumStep
  <2>3. QED BY <2>1, <2>2
<1>2. \A U \in SUBSET K : \A x \in U : SumFunctionOnSet(per, U) = per[x] + SumFunctionOnSet(per, U \ {x})
  <2>1. \A x \in K : per[x] \in Nat
    BY <1>1
  <2>2. \A U \in SUBSET K : /\ SumFunctionOnSet(per, U) \in Nat
                             /\ \A x \in U : SumFunctionOnSet(per, U) = per[x] + SumFunctionOnSet(per, U \ {x})
    BY <2>1, SumStep
  <2>3. QED BY <2>2
<1>3. {} \in F
  <2>1. Part({}) = {}
    BY DEF Fibres
  <2>2. SumFunctionOnSet(per, {}) = 0 /\ SumFunctionOnSet(f, {}) = 0
    BY <1>1, SumFacts
  <2>3. QED BY <2>1, <2>2
<1>4. ASSUME NEW U \in SUBSET K, U # {}, \A x \in U : U \ {x} \in F PROVE U \in F
  <2>1. PICK k : k \in U
    BY <1>4
  <2> DEFINE V == U \ {k}
             A == Part(V)
             B == Fibre(S, key, k)
  <2>2. SumFunctionOnSet(per, U) = per[k] + SumFunctionOnSet(per, V)
    BY <1>2, <2>1
  <2>3. SumFunctionOnSet(per, V) = SumFunctionOnSet(f, A) /\ per[k] = SumFunctionOnSet(f, B)
    BY <1>4, <2>1
  <2>4. A \cap B = {} /\ Part(U) = A \cup B /\ A \in SUBSET S /\ B \in SUBSET S
    BY <2>1 DEF Fibre, Fibres
  <2> HIDE DEF A, B, V, Part
  <2>5. IsFiniteSet(A) /\ IsFiniteSet(B)
    BY <2>4, FS_Subset
  <2>6. SumFunctionOnSet(f, A \cup B) = SumFunctionOnSet(f, A) + SumFunctionOnSet(f, B)
    BY <2>4, <2>5, SumUnion
  <2>7. SumFunctionOnSet(f, A) \in Nat /\ SumFunctionOnSet(f, B) \in Nat
    BY <2>4, SumStep
  <2>8. SumFunctionOnSet(per, U) = SumFunctionOnSet(f, Part(U))
    BY <2>2, <2>3, <2>4, <2>6, <2>7
  <2>9. QED BY <2>8
<1> HIDE DEF F
<1>5. \A U \in SUBSET K : U \in F
  BY <1>3, <1>4, SubsetInduction
<1>6. K \in F
  BY <1>5
<1>7. QED BY <1>6 DEF F

(* Only the elements that count something matter. *)
LEMMA SumOfPositive ==
  ASSUME NEW S, IsFiniteSet(S), NEW f, \A x \in S : f[x] \in Nat
  PROVE  SumFunctionOnSet(f, {x \in S : f[x] > 0}) = SumFunctionOnSet(f, S)
<1> DEFINE A == {x \in S : f[x] > 0}
           B == {x \in S : f[x] = 0}
<1>1. A \cup B = S /\ A \cap B = {} /\ A \in SUBSET S /\ B \in SUBSET S /\ \A x \in B : f[x] = 0
  OBVIOUS
<1> HIDE DEF A, B
<1>2. IsFiniteSet(A) /\ IsFiniteSet(B)
  BY <1>1, FS_Subset
<1>3. SumFunctionOnSet(f, A \cup B) = SumFunctionOnSet(f, A) + SumFunctionOnSet(f, B)
  BY <1>1, <1>2, SumUnion
<1>4. SumFunctionOnSet(f, B) = 0 /\ SumFunctionOnSet(f, A) \in Nat
  BY <1>1, <1>2, SumOfZeros, SumStep
<1>5. QED BY <1>1, <1>3, <1>4 DEF A

(* The smaller one of two. *)
LEMMA MinOfTwo ==
  ASSUME NEW a \in Nat, NEW b \in Nat
  PROVE  Min({a, b}) = IF a <= b THEN a ELSE b
<1>1. Min({a, b}) = CHOOSE x \in {a, b} : \A y \in {a, b} : x =< y
  BY DEF Min
<1>2. \E x \in {a, b} : \A y \in {a, b} : x =< y
  OBVIOUS
<1>3. Min({a, b}) \in {a, b} /\ \A y \in {a, b} : Min({a, b}) =< y
  BY <1>1, <1>2
<1>4. QED BY <1>3


(* The rows of S, each counted f times, are read in the order of their times  *)
(* up to a limit: shown says how many are read of each time in D.             *)
ReadInOrder(S, f, time, end, limit, D, shown) ==
  /\ IsFiniteSet(S) /\ limit \in Nat /\ end \in Nat
  /\ \A x \in S : f[x] \in Nat /\ time[x] \in Nat /\ time[x] < end
  /\ \A t : t \in D <=> /\ t \in Nat
                        /\ \E x \in S : time[x] = t
                        /\ SumFunctionOnSet(f, Earlier(S, time, t)) < limit
  /\ \A t \in D : shown[t] = Min({SumFunctionOnSet(f, Fibre(S, time, t)),
                                  limit - SumFunctionOnSet(f, Earlier(S, time, t))})

(* They read the limit or all of them. *)
LEMMA SumOfFirst ==
  ASSUME NEW S, NEW f, NEW time, NEW end, NEW limit, NEW D, NEW shown,
         ReadInOrder(S, f, time, end, limit, D, shown)
  PROVE  SumFunctionOnSet(shown, D) = Min({limit, SumFunctionOnSet(f, S)})
<1> DEFINE At == [t \in Nat |-> SumFunctionOnSet(f, Fibre(S, time, t))]
           Before == [t \in Nat |-> SumFunctionOnSet(f, Earlier(S, time, t))]
<1>0. /\ IsFiniteSet(S) /\ limit \in Nat /\ end \in Nat
      /\ \A x \in S : f[x] \in Nat
      /\ \A x \in S : time[x] \in Nat /\ time[x] < end
      /\ \A t \in Nat : At[t] = SumFunctionOnSet(f, Fibre(S, time, t))
      /\ \A t \in Nat : Before[t] = SumFunctionOnSet(f, Earlier(S, time, t))
      /\ \A t : t \in D <=> t \in Nat /\ (\E x \in S : time[x] = t) /\ Before[t] < limit
      /\ \A t \in D : shown[t] = Min({At[t], limit - Before[t]})
  BY DEF ReadInOrder
<1> HIDE DEF At, Before
<1> USE <1>0
<1> DEFINE Up(t) == Earlier(S, time, t)
           Now(t) == Fibre(S, time, t)
           E(t) == {d \in D : d < t}
           Least2(a, b) == IF a <= b THEN a ELSE b
           T == {t \in Nat : SumFunctionOnSet(shown, E(t)) = Least2(limit, Before[t])}
<1>1. \A t \in Nat : At[t] \in Nat /\ Before[t] \in Nat
  <2>1. ASSUME NEW t \in Nat PROVE At[t] \in Nat /\ Before[t] \in Nat
    <3>1. Up(t) \in SUBSET S /\ Now(t) \in SUBSET S
      BY DEF Earlier, Fibre
    <3>2. At[t] = SumFunctionOnSet(f, Now(t)) /\ Before[t] = SumFunctionOnSet(f, Up(t))
      OBVIOUS
    <3> HIDE DEF Up, Now
    <3>3. SumFunctionOnSet(f, Now(t)) \in Nat /\ SumFunctionOnSet(f, Up(t)) \in Nat
      BY <3>1, SumStep
    <3>4. QED BY <3>2, <3>3
  <2>2. QED BY <2>1
<1>2. \A t \in D : shown[t] \in Nat /\ shown[t] = Least2(At[t], limit - Before[t])
  <2>1. ASSUME NEW t \in D PROVE shown[t] \in Nat /\ shown[t] = Least2(At[t], limit - Before[t])
    <3>1. t \in Nat /\ At[t] \in Nat /\ Before[t] \in Nat /\ Before[t] < limit /\ limit - Before[t] \in Nat
      BY <1>1
    <3>2. Min({At[t], limit - Before[t]}) = Least2(At[t], limit - Before[t])
      BY <3>1, MinOfTwo
    <3>3. QED BY <3>1, <3>2
  <2>2. QED BY <2>1
<1>3. IsFiniteSet(D) /\ D \in SUBSET Nat /\ \A t \in D : t < end
  <2>1. D \in SUBSET (0..end) /\ \A t \in D : t < end
    OBVIOUS
  <2>2. IsFiniteSet(0..end)
    BY FS_Interval
  <2>3. IsFiniteSet(D)
    BY <2>1, <2>2, FS_Subset
  <2>4. QED BY <2>1, <2>3
<1>4. 0 \in T
  <2>1. Up(0) = {} /\ E(0) = {}
    BY <1>3 DEF Earlier
  <2>2. Before[0] = SumFunctionOnSet(f, Up(0))
    OBVIOUS
  <2>3. SumFunctionOnSet(f, {}) = 0 /\ SumFunctionOnSet(shown, {}) = 0
    BY <1>2, <1>3, SumFacts
  <2> HIDE DEF Up, E
  <2>4. SumFunctionOnSet(shown, E(0)) = 0 /\ Before[0] = 0
    BY <2>1, <2>2, <2>3
  <2>5. SumFunctionOnSet(shown, E(0)) = Least2(limit, Before[0])
    BY <2>4
  <2>6. QED BY <2>5
<1>5. ASSUME NEW t \in Nat, t \in T PROVE t + 1 \in T
  <2>1. /\ Up(t + 1) = Up(t) \cup Now(t) /\ Up(t) \cap Now(t) = {}
        /\ Up(t) \in SUBSET S /\ Now(t) \in SUBSET S /\ t + 1 \in Nat
        /\ E(t) \in SUBSET D /\ E(t + 1) \in SUBSET D
    BY <1>3 DEF Earlier, Fibre
  <2>2. /\ Before[t + 1] = SumFunctionOnSet(f, Up(t + 1)) /\ Before[t] = SumFunctionOnSet(f, Up(t))
        /\ At[t] = SumFunctionOnSet(f, Now(t))
    BY <2>1
  <2>3. CASE t \in D
    <3>1. t \in E(t + 1) /\ E(t + 1) \ {t} = E(t)
      BY <1>3, <2>3
    <3>2. Before[t] < limit
      BY <2>3
    <3>3. SumFunctionOnSet(shown, E(t)) = Least2(limit, Before[t])
      BY <1>5
    <3> HIDE DEF E, Up, Now
    <3>4. IsFiniteSet(Up(t)) /\ IsFiniteSet(Now(t))
      BY <2>1, FS_Subset
    <3>5. Before[t + 1] = Before[t] + At[t]
      BY <2>1, <2>2, <3>4, SumUnion
    <3>6. SumFunctionOnSet(shown, E(t + 1)) = shown[t] + SumFunctionOnSet(shown, E(t))
      BY <1>2, <1>3, <2>1, <3>1, SumStep
    <3>7. At[t] \in Nat /\ Before[t] \in Nat /\ shown[t] = Least2(At[t], limit - Before[t])
      BY <1>1, <1>2, <2>3
    <3>8. SumFunctionOnSet(shown, E(t + 1)) = Least2(limit, Before[t + 1])
      BY <3>2, <3>3, <3>5, <3>6, <3>7
    <3>9. QED BY <2>1, <3>8
  <2>4. CASE t \notin D
    <3>1. E(t + 1) = E(t)
      BY <1>3, <2>4
    <3>2. Now(t) = {} \/ ~ (Before[t] < limit)
      BY <2>4 DEF Fibre
    <3>3. SumFunctionOnSet(shown, E(t)) = Least2(limit, Before[t])
      BY <1>5
    <3> HIDE DEF E, Up, Now
    <3>4. IsFiniteSet(Up(t)) /\ IsFiniteSet(Now(t))
      BY <2>1, FS_Subset
    <3>5. Before[t + 1] = Before[t] + At[t]
      BY <2>1, <2>2, <3>4, SumUnion
    <3>6. Now(t) = {} => At[t] = 0
      BY <2>2, SumFacts
    <3>7. At[t] \in Nat /\ Before[t] \in Nat
      BY <1>1
    <3>8. SumFunctionOnSet(shown, E(t + 1)) = Least2(limit, Before[t + 1])
      BY <3>1, <3>2, <3>3, <3>5, <3>6, <3>7
    <3>9. QED BY <2>1, <3>8
  <2>5. QED BY <2>3, <2>4
<1>6. end \in T
  <2> HIDE DEF T
  <2>1. \A t \in Nat : t \in T
    BY <1>4, <1>5, Induction
  <2>2. QED BY <2>1
<1>7. E(end) = D /\ Up(end) = S
  BY <1>3 DEF Earlier
<1>8. Before[end] = SumFunctionOnSet(f, Up(end))
  OBVIOUS
<1>9. SumFunctionOnSet(shown, E(end)) = Least2(limit, Before[end])
  BY <1>6
<1> HIDE DEF E, Up
<1>10. Min({limit, Before[end]}) = Least2(limit, Before[end])
  BY <1>1, MinOfTwo
<1>11. QED BY <1>7, <1>8, <1>9, <1>10

----------------------------------------------------------------------------
(* The statements of the migrations. *)

Stmt == [op : {"table", "create", "drop"}, arg : Nat \cup {"events", "tiles_activity", "kernel_sol"}]

Dropped(s) == {s[j].arg : j \in {i \in 1..Len(s) : s[i].op = "drop"}}
Created(s) == {s[j].arg : j \in {i \in 1..Len(s) : s[i].op = "create"}}

(* What two scripts drop and create, one after the other. *)
LEMMA ConcatFacts ==
  ASSUME NEW s \in Seq(Stmt), NEW t \in Seq(Stmt)
  PROVE  /\ s \o t \in Seq(Stmt)
         /\ Dropped(s \o t) = Dropped(s) \cup Dropped(t)
         /\ Created(s \o t) = Created(s) \cup Created(t)
<1> DEFINE v == s \o t
           m == Len(s)
           n == Len(t)
<1>1. v \in Seq(Stmt) /\ m \in Nat /\ n \in Nat /\ Len(v) = m + n
  OBVIOUS
<1>2. ASSUME NEW j \in 1..m PROVE v[j] = s[j] /\ j \in 1..Len(v)
  BY <1>1
<1>3. ASSUME NEW j \in 1..n PROVE v[m + j] = t[j] /\ m + j \in 1..Len(v)
  <2>1. m + j \in 1..Len(v) /\ ~(m + j <= m) /\ m + j - m = j
    BY <1>1
  <2>2. QED BY <1>1, <2>1
<1> HIDE DEF v, m, n
<1>4. ASSUME NEW j \in 1..Len(v) PROVE j \in 1..m \/ \E i \in 1..n : j = m + i
  <2>1. j \in 1..m \/ (j - m \in 1..n /\ j = m + (j - m))
    BY <1>1
  <2>2. QED BY <2>1
<1>5. ASSUME NEW o
      PROVE  {v[j].arg : j \in {i \in 1..Len(v) : v[i].op = o}}
               = {s[j].arg : j \in {i \in 1..m : s[i].op = o}}
                   \cup {t[j].arg : j \in {i \in 1..n : t[i].op = o}}
  <2> DEFINE V == {v[j].arg : j \in {i \in 1..Len(v) : v[i].op = o}}
             S == {s[j].arg : j \in {i \in 1..m : s[i].op = o}}
             T == {t[j].arg : j \in {i \in 1..n : t[i].op = o}}
  <2>1. ASSUME NEW x \in V PROVE x \in S \cup T
    <3>1. PICK j \in 1..Len(v) : v[j].op = o /\ x = v[j].arg
      OBVIOUS
    <3>2. CASE j \in 1..m
      BY <1>2, <3>1, <3>2
    <3>3. CASE \E i \in 1..n : j = m + i
      BY <1>3, <3>1, <3>3
    <3>4. QED BY <1>4, <3>2, <3>3
  <2>2. ASSUME NEW x \in S PROVE x \in V
    <3>1. PICK j \in 1..m : s[j].op = o /\ x = s[j].arg
      OBVIOUS
    <3>2. QED BY <1>2, <3>1
  <2>3. ASSUME NEW x \in T PROVE x \in V
    <3>1. PICK j \in 1..n : t[j].op = o /\ x = t[j].arg
      OBVIOUS
    <3>2. QED BY <1>3, <3>1
  <2> HIDE DEF V, S, T
  <2>4. V = S \cup T
    BY <2>1, <2>2, <2>3
  <2>5. QED BY <2>4 DEF V, S, T
<1>6. QED BY <1>1, <1>5 DEF Dropped, Created, v, m, n

(* The lists of views that a script creates or drops. *)
LEMMA ViewFacts ==
  ASSUME NEW ws \in Seq(Nat), NEW name \in {"events", "tiles_activity", "kernel_sol"}
  PROVE  /\ CreateViews(ws) \in Seq(Stmt) /\ DropViews(ws) \in Seq(Stmt)
         /\ <<Table(name)>> \in Seq(Stmt)
         /\ Dropped(CreateViews(ws)) = {} /\ Created(CreateViews(ws)) = {ws[i] : i \in 1..Len(ws)}
         /\ Dropped(DropViews(ws)) = {ws[i] : i \in 1..Len(ws)}
         /\ Dropped(<<Table(name)>>) = {}
<1>1. Len(ws) \in Nat /\ \A i \in 1..Len(ws) : ws[i] \in Nat
  OBVIOUS
<1> DEFINE c == CreateViews(ws)
           d == DropViews(ws)
<1>2. /\ c \in [1..Len(ws) -> Stmt] /\ \A i \in 1..Len(ws) : c[i].op = "create" /\ c[i].arg = ws[i]
      /\ d \in [1..Len(ws) -> Stmt] /\ \A i \in 1..Len(ws) : d[i].op = "drop" /\ d[i].arg = ws[i]
  BY <1>1 DEF CreateViews, DropViews, Stmt
<1> HIDE DEF c, d
<1>3. c \in Seq(Stmt) /\ Len(c) = Len(ws) /\ d \in Seq(Stmt) /\ Len(d) = Len(ws)
  <2>1. \A n \in Nat : \A f \in [1..n -> Stmt] : f \in Seq(Stmt) /\ Len(f) = n
    OBVIOUS
  <2>2. QED BY <1>1, <1>2, <2>1
<1>4. /\ Dropped(c) = {}
      /\ Created(c) = {ws[i] : i \in 1..Len(ws)}
      /\ Dropped(d) = {ws[i] : i \in 1..Len(ws)}
  <2>1. Dropped(c) = {}
    BY <1>2, <1>3 DEF Dropped
  <2>2. Created(c) = {ws[i] : i \in 1..Len(ws)}
    <3>1. {i \in 1..Len(c) : c[i].op = "create"} = 1..Len(ws)
      BY <1>2, <1>3
    <3>2. Created(c) = {c[j].arg : j \in 1..Len(ws)}
      BY <3>1 DEF Created
    <3>3. QED BY <1>2, <3>2
  <2>3. Dropped(d) = {ws[i] : i \in 1..Len(ws)}
    <3>1. {i \in 1..Len(d) : d[i].op = "drop"} = 1..Len(ws)
      BY <1>2, <1>3
    <3>2. Dropped(d) = {d[j].arg : j \in 1..Len(ws)}
      BY <3>1 DEF Dropped
    <3>3. QED BY <1>2, <3>2
  <2>4. QED BY <2>1, <2>2, <2>3
<1>5. Table(name) \in Stmt /\ Table(name).op = "table"
  BY DEF Table, Stmt
<1>6. <<Table(name)>> \in Seq(Stmt) /\ Dropped(<<Table(name)>>) = {}
  BY <1>5 DEF Dropped
<1>7. QED BY <1>3, <1>4, <1>6 DEF c, d

(* The migrations drop no kept view, and create each of them. *)
LEMMA MigrationFacts ==
  /\ MIGRATIONS \in Seq(Stmt)
  /\ \A j \in 1..Len(MIGRATIONS) : MIGRATIONS[j].op = "drop" => MIGRATIONS[j].arg \notin Kept
  /\ \A w \in Kept : \E j \in 1..Len(MIGRATIONS) :
       MIGRATIONS[j].op = "create" /\ MIGRATIONS[j].arg = w
<1> DEFINE A == <<Table("events"), Table("tiles_activity")>>
           B == CreateViews(Widths)
           C == DropViews(Shed)
           D == CreateViews(Keep)
           E == <<Table("kernel_sol")>>
<1>1. Widths \in Seq(Nat) /\ Shed \in Seq(Nat) /\ Keep \in Seq(Nat)
  <2>1. \A s \in Seq(Nat \ {0}) : s \in Seq(Nat)
    OBVIOUS
  <2>2. QED BY <2>1, CatalogAssumption
<1>2. A \in Seq(Stmt) /\ Dropped(A) = {}
  <2>1. /\ Table("events") \in Stmt /\ Table("tiles_activity") \in Stmt
        /\ Table("events").op = "table" /\ Table("tiles_activity").op = "table"
    BY DEF Table, Stmt
  <2>2. Len(A) = 2 /\ A \in Seq(Stmt) /\ \A i \in 1..Len(A) : A[i].op = "table"
    BY <2>1
  <2>3. QED BY <2>2 DEF Dropped
<1>3. /\ B \in Seq(Stmt) /\ C \in Seq(Stmt) /\ D \in Seq(Stmt) /\ E \in Seq(Stmt)
      /\ Dropped(B) = {} /\ Dropped(D) = {} /\ Dropped(E) = {}
      /\ Dropped(C) = {Shed[i] : i \in 1..Len(Shed)} /\ Created(D) = Kept
  BY <1>1, ViewFacts DEF Kept
<1>4. MIGRATIONS = A \o B \o C \o D \o E
  BY DEF MIGRATIONS
<1> HIDE DEF A, B, C, D, E
<1>5. A \o B \in Seq(Stmt) /\ Dropped(A \o B) = {}
  BY <1>2, <1>3, ConcatFacts
<1>6. A \o B \o C \in Seq(Stmt) /\ Dropped(A \o B \o C) = Dropped(C)
  BY <1>3, <1>5, ConcatFacts
<1>7. /\ A \o B \o C \o D \in Seq(Stmt) /\ Dropped(A \o B \o C \o D) = Dropped(C)
      /\ Kept \subseteq Created(A \o B \o C \o D)
  BY <1>3, <1>6, ConcatFacts
<1>8. /\ MIGRATIONS \in Seq(Stmt) /\ Dropped(MIGRATIONS) = Dropped(C) /\ Kept \subseteq Created(MIGRATIONS)
  <2> DEFINE F == A \o B \o C \o D
  <2>1. F \in Seq(Stmt) /\ Dropped(F) = Dropped(C) /\ Kept \subseteq Created(F) /\ MIGRATIONS = F \o E
    BY <1>4, <1>7
  <2> HIDE DEF F
  <2>2. /\ F \o E \in Seq(Stmt)
        /\ Dropped(F \o E) = Dropped(F) \cup Dropped(E)
        /\ Created(F \o E) = Created(F) \cup Created(E)
    BY <1>3, <2>1, ConcatFacts
  <2>3. QED BY <1>3, <2>1, <2>2
<1>9. Dropped(C) \cap Kept = {}
  BY <1>3, CatalogAssumption DEF Kept
<1>10. QED BY <1>8, <1>9 DEF Dropped, Created


----------------------------------------------------------------------------
(* The invariant holds initially and every step preserves it. *)

LEMMA InitIInv == Init => IInv
<1> SUFFICES ASSUME Init PROVE IInv
  OBVIOUS
<1>1. MIGRATIONS \in Seq(Stmt) /\ Len(MIGRATIONS) \in Nat
  BY MigrationFacts
<1>2. ASSUME NEW w \in Kept PROVE w \in Width
  BY CatalogAssumption DEF Kept, Width
<1>3. Types
  BY <1>1 DEF Init, Types, Bag
<1>4. KeptViews
  BY DEF Init, KeptViews
<1>5. ViewsRead
  BY <1>2 DEF Init, ViewsRead
<1>6. OneAtATime
  BY DEF Init, OneAtATime, Importing
<1>7. ReadsActivity
  BY DEF Init, ReadsActivity
<1>8. QED BY <1>3, <1>4, <1>5, <1>6, <1>7 DEF IInv

(* What an INSERT does to the bags of rows, whatever rows it brings. *)
LEMMA AddFacts ==
  ASSUME NEW bag \in Bag, NEW S
  PROVE  Add(bag, S) \in Bag /\ \A e \in Event : Add(bag, S)[e] = IF e \in S THEN bag[e] + 1 ELSE bag[e]
BY DEF Add, Bag

(* Steps other than an INSERT leave the rows alone. *)
LEMMA InsertFacts ==
  ASSUME IInv, NEW S, Insert(S)
  PROVE  /\ events' \in Bag /\ due' \in Bag /\ read' \in [Width -> Bag]
         /\ \A e \in Event : Activity(e) =>
              /\ \A w \in Kept : due'[e] <= read'[w][e]
              /\ \A w \in Width : read'[w][e] <= events'[e]
<1>1. events \in Bag /\ due \in Bag /\ read \in [Width -> Bag] /\ (migrated => Kept \subseteq views)
  BY DEF IInv, Types, KeptViews
<1> DEFINE T == {e \in S : Activity(e)}
<1>2. /\ events' = Add(events, S) /\ due' = IF migrated THEN Add(due, S) ELSE due
      /\ read' = [w \in Width |-> IF w \in views THEN Add(read[w], T) ELSE read[w]]
  BY DEF Insert
<1>3. events' \in Bag /\ due' \in Bag
  BY <1>1, <1>2, AddFacts
<1> HIDE DEF T
<1>4. read' \in [Width -> Bag]
  <2>1. ASSUME NEW w \in Width PROVE (IF w \in views THEN Add(read[w], T) ELSE read[w]) \in Bag
    BY <1>1, AddFacts
  <2>2. QED BY <1>2, <2>1
<1>5. ASSUME NEW w \in Width, NEW e \in Event, Activity(e)
      PROVE  (w \in Kept => due'[e] <= read'[w][e]) /\ read'[w][e] <= events'[e]
  <2>2. read[w] \in Bag /\ due[e] \in Nat /\ events[e] \in Nat /\ read[w][e] \in Nat
    BY <1>1 DEF Bag
  <2>3. (w \in Kept => due[e] <= read[w][e]) /\ read[w][e] <= events[e]
    BY <1>5 DEF IInv, ViewsRead
  <2>4. e \in T <=> e \in S
    BY <1>5 DEF T
  <2>5. events'[e] = IF e \in S THEN events[e] + 1 ELSE events[e]
    BY <1>1, <1>2, AddFacts
  <2>6. due'[e] = IF migrated /\ e \in S THEN due[e] + 1 ELSE due[e]
    BY <1>1, <1>2, AddFacts
  <2>7. read'[w][e] = IF w \in views /\ e \in S THEN read[w][e] + 1 ELSE read[w][e]
    BY <1>2, <2>2, <2>4, AddFacts
  <2>8. migrated /\ w \in Kept => w \in views
    BY <1>1
  <2>9. QED BY <2>2, <2>3, <2>5, <2>6, <2>7, <2>8
<1>6. Kept \subseteq Width
  BY CatalogAssumption DEF Kept, Width
<1>7. QED BY <1>3, <1>4, <1>5, <1>6

(* Every step is an INSERT of some rows or leaves the rows alone. *)
LEMMA RowsStep == [Next]_vars => (\E S : Insert(S)) \/ UNCHANGED rows
<1> SUFFICES ASSUME [Next]_vars PROVE (\E S : Insert(S)) \/ UNCHANGED rows
  OBVIOUS
<1>1. CASE Start \/ Apply \/ Serve \/ Stop \/ UNCHANGED vars
  BY <1>1 DEF Start, Apply, Serve, Stop, vars
<1>2. ASSUME NEW e \in Live, Flush(e) PROVE \E S : Insert(S)
  BY <1>2 DEF Flush
<1>3. ASSUME NEW u \in Upload, StartImport(u) \/ Export(u) \/ InsertImportFails(u)
      PROVE  UNCHANGED rows
  BY <1>3 DEF StartImport, Export, InsertImportFails
<1>4. ASSUME NEW u \in Upload, InsertImport(u) PROVE \E S : Insert(S)
  BY <1>4 DEF InsertImport
<1>5. ASSUME NEW c \in CliUpload, CliImport(c) PROVE \E S : Insert(S)
  BY <1>5 DEF CliImport
<1>6. QED BY <1>1, <1>2, <1>3, <1>4, <1>5 DEF Next

LEMMA ReadStep == IInv /\ [Next]_vars => ViewsRead'
<1> SUFFICES ASSUME IInv, [Next]_vars PROVE ViewsRead'
  OBVIOUS
<1>1. CASE \E S : Insert(S)
  BY <1>1, InsertFacts DEF ViewsRead
<1>2. CASE UNCHANGED rows
  BY <1>2 DEF IInv, ViewsRead, rows
<1>3. QED BY <1>1, <1>2, RowsStep

(* No step lets a view read another row. *)
LEMMA ReadsStep == IInv /\ [Next]_vars => ReadsActivity'
<1> SUFFICES ASSUME IInv, [Next]_vars PROVE ReadsActivity'
  OBVIOUS
<1>1. CASE UNCHANGED rows
  BY <1>1 DEF IInv, ReadsActivity, rows
<1>2. ASSUME NEW S, Insert(S) PROVE ReadsActivity'
  <2>1. ASSUME NEW w \in Width, NEW e \in Event, ~Activity(e) PROVE read'[w][e] = 0
    <3>1. read'[w] = IF w \in views THEN Add(read[w], {d \in S : Activity(d)}) ELSE read[w]
      BY <1>2 DEF Insert
    <3>2. read[w] \in Bag /\ read[w][e] = 0 /\ e \notin {d \in S : Activity(d)}
      BY <2>1 DEF IInv, Types, ReadsActivity
    <3>3. QED BY <3>1, <3>2, AddFacts
  <2>2. QED BY <2>1 DEF ReadsActivity
<1>3. QED BY <1>1, <1>2, RowsStep

LEMMA TypesStep == IInv /\ [Next]_vars => Types'
<1> SUFFICES ASSUME IInv, [Next]_vars PROVE Types'
  OBVIOUS
<1>1. Types /\ Len(MIGRATIONS) \in Nat
  BY MigrationFacts DEF IInv
<1>2. events' \in Bag /\ due' \in Bag /\ read' \in [Width -> Bag]
  <2>1. CASE \E S : Insert(S)
    BY <2>1, InsertFacts
  <2>2. CASE UNCHANGED rows
    BY <1>1, <2>2 DEF Types, rows
  <2>3. QED BY <2>1, <2>2, RowsStep
<1> DEFINE Others == /\ phase' \in {"down", "migrating", "serving"} /\ stmt' \in 1..Len(MIGRATIONS) + 1
                     /\ imp' \in [Upload -> {"none", "exporting", "inserting", "done", "failed"}]
                     /\ took' \in [Upload -> Upload \cup {NoUpload}]
                     /\ sqlite' \in Upload \cup {NoUpload}
<1> SUFFICES Others
  <2>1. (Len(MIGRATIONS))' = Len(MIGRATIONS) /\ Bag' = Bag /\ Width' = Width
    BY DEF MIGRATIONS, CreateViews, DropViews, Table, Bag, Width
  <2>2. QED BY <1>2, <2>1 DEF Types
<1>3. CASE Start
  BY <1>1, <1>3 DEF Start, Types, imports
<1>4. CASE Apply
  <2>1. stmt \in 1..Len(MIGRATIONS) + 1 /\ stmt <= Len(MIGRATIONS) /\ stmt' = stmt + 1
    BY <1>1, <1>4 DEF Apply, Types
  <2>2. stmt' \in 1..Len(MIGRATIONS) + 1
    BY <1>1, <2>1
  <2>3. QED BY <1>1, <1>4, <2>2 DEF Apply, Types, imports
<1>5. CASE Serve
  BY <1>1, <1>5 DEF Serve, Types, imports
<1>6. CASE Stop
  BY <1>1, <1>6 DEF Stop, Types
<1>7. CASE \E e \in Live : Flush(e)
  BY <1>1, <1>7 DEF Flush, Types, server, imports
<1>8. ASSUME NEW u \in Upload, StartImport(u) \/ Export(u) \/ InsertImport(u) \/ InsertImportFails(u)
      PROVE  Others
  BY <1>1, <1>8 DEF StartImport, Export, ExportTo, InsertImport, InsertImportFails, Types, server
<1>9. CASE \E c \in CliUpload : CliImport(c)
  BY <1>1, <1>9 DEF CliImport, Types, server, imports
<1>10. CASE UNCHANGED vars
  BY <1>1, <1>10 DEF Types, vars, server, imports
<1> HIDE DEF Others
<1>11. QED BY <1>3, <1>4, <1>5, <1>6, <1>7, <1>8, <1>9, <1>10 DEF Next

LEMMA KeptViewsStep == IInv /\ [Next]_vars => KeptViews'
<1> SUFFICES ASSUME IInv, [Next]_vars PROVE KeptViews'
  OBVIOUS
<1> DEFINE M == MIGRATIONS
<1>1. /\ Types /\ KeptViews
  BY DEF IInv
<1>2. /\ Len(M) \in Nat
      /\ \A j \in 1..Len(M) : M[j] \in Stmt
      /\ \A j \in 1..Len(M) : M[j].op = "drop" => M[j].arg \notin Kept
      /\ \A w \in Kept : \E j \in 1..Len(M) : M[j].op = "create" /\ M[j].arg = w
  BY MigrationFacts
<1>3. stmt \in 1..Len(M) + 1
  BY <1>1 DEF Types
<1>4. MIGRATIONS' = M /\ Kept' = Kept
  BY DEF MIGRATIONS, CreateViews, DropViews, Table, Kept
<1> DEFINE Ran(n, vs) == \A j \in 1..n - 1 : M[j].op = "create" /\ M[j].arg \in Kept => M[j].arg \in vs
<1>5. (phase = "migrating" => Ran(stmt, views)) /\ (migrated => Kept \subseteq views)
  BY <1>1 DEF KeptViews
<1> HIDE DEF M
<1> SUFFICES (phase' = "migrating" => Ran(stmt', views')) /\ (migrated' => Kept \subseteq views')
  BY <1>4 DEF KeptViews
<1>6. CASE Start
  <2>1. stmt' = 1 /\ migrated' = migrated /\ views' = views
    BY <1>6 DEF Start
  <2>2. Ran(1, views')
    OBVIOUS
  <2>3. QED BY <1>5, <2>1, <2>2
<1>7. CASE Apply
  <2>1. /\ phase = "migrating" /\ stmt \in 1..Len(M) /\ stmt' = stmt + 1 /\ migrated' = migrated
        /\ phase' = phase
    BY <1>2, <1>3, <1>7 DEF Apply, M
  <2>2. views' = CASE M[stmt].op = "create" -> views \cup {M[stmt].arg}
                   [] M[stmt].op = "drop"   -> views \ {M[stmt].arg}
                   [] OTHER                 -> views
    BY <1>7 DEF Apply, M
  <2>3. views \cap Kept \subseteq views'
    <3>1. CASE M[stmt].op = "drop"
      BY <1>2, <2>1, <2>2, <3>1
    <3>2. CASE M[stmt].op = "create"
      BY <2>2, <3>2
    <3>3. CASE M[stmt].op # "drop" /\ M[stmt].op # "create"
      BY <2>2, <3>3
    <3>4. QED BY <3>1, <3>2, <3>3
  <2>4. M[stmt].op = "create" => M[stmt].arg \in views'
    BY <2>2
  <2>5. ASSUME NEW j \in 1..stmt + 1 - 1, M[j].op = "create", M[j].arg \in Kept PROVE M[j].arg \in views'
    <3>1. j \in 1..stmt - 1 \/ j = stmt
      BY <1>3
    <3>2. CASE j \in 1..stmt - 1
      BY <1>5, <2>1, <2>3, <2>5, <3>2
    <3>3. QED BY <2>4, <2>5, <3>1, <3>2
  <2>6. Ran(stmt', views')
    BY <2>1, <2>5
  <2>7. migrated' => Kept \subseteq views'
    BY <1>5, <2>1, <2>3
  <2> QED BY <2>6, <2>7
<1>8. CASE Serve
  <2>1. phase = "migrating" /\ stmt > Len(M) /\ views' = views /\ phase' = "serving"
    BY <1>8 DEF Serve, M
  <2>2. Len(M) = stmt - 1
    BY <1>2, <1>3, <2>1
  <2>3. Kept \subseteq views
    BY <1>2, <1>5, <2>1, <2>2
  <2>4. QED BY <2>1, <2>3
<1>9. CASE Stop
  BY <1>5, <1>9 DEF Stop
<1>10. ASSUME UNCHANGED <<phase, stmt, views, migrated>>
       PROVE  (phase' = "migrating" => Ran(stmt', views')) /\ (migrated' => Kept \subseteq views')
  BY <1>5, <1>10
<1>11. CASE \E e \in Live : Flush(e)
  BY <1>10, <1>11 DEF Flush, server
<1>12. CASE \E u \in Upload : StartImport(u) \/ Export(u) \/ InsertImport(u) \/ InsertImportFails(u)
  BY <1>10, <1>12 DEF StartImport, Export, InsertImport, InsertImportFails, server
<1>13. CASE \E c \in CliUpload : CliImport(c)
  BY <1>10, <1>13 DEF CliImport, server
<1>14. CASE UNCHANGED vars
  BY <1>10, <1>14 DEF vars, server
<1>15. QED BY <1>6, <1>7, <1>8, <1>9, <1>11, <1>12, <1>13, <1>14 DEF Next

LEMMA OneAtATimeStep == IInv /\ [Next]_vars => OneAtATime'
<1> SUFFICES ASSUME IInv, [Next]_vars PROVE OneAtATime'
  OBVIOUS
<1>1. Types /\ OneAtATime
  BY DEF IInv
<1>2. CASE Start
  BY <1>1, <1>2 DEF Start, imports, OneAtATime, Importing
<1>3. CASE Apply
  BY <1>1, <1>3 DEF Apply, imports, OneAtATime, Importing
<1>4. CASE Serve
  BY <1>1, <1>4 DEF Serve, imports, OneAtATime, Importing
<1>5. CASE Stop
  BY <1>1, <1>5 DEF Stop, OneAtATime, Importing, Types
<1>6. CASE \E e \in Live : Flush(e)
  BY <1>1, <1>6 DEF Flush, imports, OneAtATime, Importing
<1>7. ASSUME NEW u \in Upload, StartImport(u) PROVE OneAtATime'
  BY <1>1, <1>7 DEF StartImport, OneAtATime, Importing, Types
<1>8. ASSUME NEW u \in Upload, Export(u) PROVE OneAtATime'
  BY <1>1, <1>8 DEF Export, ExportTo, OneAtATime, Importing, Types
<1>9. ASSUME NEW u \in Upload, InsertImport(u) PROVE OneAtATime'
  BY <1>1, <1>9 DEF InsertImport, OneAtATime, Importing, Types
<1>10. ASSUME NEW u \in Upload, InsertImportFails(u) PROVE OneAtATime'
  BY <1>1, <1>10 DEF InsertImportFails, OneAtATime, Importing, Types
<1>11. CASE \E c \in CliUpload : CliImport(c)
  BY <1>1, <1>11 DEF CliImport, imports, OneAtATime, Importing
<1>12. CASE UNCHANGED vars
  BY <1>1, <1>12 DEF vars, imports, OneAtATime, Importing
<1>13. QED BY <1>2, <1>3, <1>4, <1>5, <1>6, <1>7, <1>8, <1>9, <1>10, <1>11, <1>12 DEF Next

LEMMA NextIInv == IInv /\ [Next]_vars => IInv'
BY TypesStep, KeptViewsStep, ReadStep, ReadsStep, OneAtATimeStep DEF IInv

----------------------------------------------------------------------------
(* What the timeline answers. *)

(* A bucket holds the times of one width from its start on. *)
LEMMA BucketFacts ==
  ASSUME NEW w \in Nat \ {0}, NEW ts \in Nat
  PROVE  Bucket(w, ts) \in Nat /\ Bucket(w, ts) <= ts /\ ts < Bucket(w, ts) + w
<1> DEFINE d == ts \div w
<1>1. d \in Nat /\ w * d <= ts /\ ts < w * (d + 1)
  OBVIOUS
<1> HIDE DEF d
<1>2. d * w \in Nat /\ d * w <= ts /\ ts < d * w + w
  BY <1>1
<1>3. QED BY <1>2 DEF Bucket, d

(* The width an answer is made of is one of the list. *)
LEMMA ChosenWidth ==
  ASSUME NEW range, NEW pixels
  PROVE  choose_tile(range, pixels) \in Width
<1> DEFINE wide == {w \in Width : w >= range \div pixels}
<1>1. 1 \in 1..Len(Widths) /\ Len(Widths) \in 1..Len(Widths)
  BY CatalogAssumption
<1>2. Widths[1] \in Width /\ Widths[Len(Widths)] \in Width
  BY <1>1 DEF Width
<1>3. Width \subseteq Nat
  BY CatalogAssumption DEF Width
<1>4. wide # {} => Min(wide) \in Width
  <2>1. wide \in SUBSET Nat /\ wide \in SUBSET Width
    BY <1>3
  <2> HIDE DEF wide
  <2>2. wide # {} => \E x \in wide : \A y \in wide : x <= y
    BY <2>1, LeastElement
  <2>3. wide # {} => Min(wide) \in wide
    BY <2>2 DEF Min
  <2>4. QED BY <2>1, <2>3
<1> HIDE DEF wide
<1>5. choose_tile(range, pixels) = CASE pixels = 0 -> Widths[1]
                                     [] pixels # 0 /\ wide # {} -> Min(wide)
                                     [] OTHER -> Widths[Len(Widths)]
  BY DEF choose_tile, wide
<1>6. QED BY <1>2, <1>4, <1>5

(* An answer from tiles counts rows its view has read, and those are stored.   *)
LEMMA ActivityAnswer ==
  ASSUME IInv, NEW q \in Query, NEW w,
         w = choose_tile(q.end - q.start, q.pixels)
  PROVE  SumFunction(ServeActivity(q))
           <= SumFunctionOnSet(events, {e \in Event : /\ Activity(e) /\ Filtered(q, e)
                                                      /\ e.ts >= q.start /\ e.ts < q.end + w - 1})
<1> DEFINE bag == read[w]
           hit == {e \in Event : /\ Tile(w, e) /\ Filtered(q, e)
                                 /\ Bucket(w, e.ts) >= q.start /\ Bucket(w, e.ts) < q.end}
           Key(e) == <<Bucket(w, e.ts), Row(e).gpu, Row(e).cat>>
           key == [e \in hit |-> Key(e)]
           K == {Key(e) : e \in hit}
           per == [k \in K |-> Count(w, {e \in hit : Key(e) = k})]
           outer == {e \in Event : /\ Activity(e) /\ Filtered(q, e)
                                   /\ e.ts >= q.start /\ e.ts < q.end + w - 1}
<1>1. ServeActivity(q) = per
  BY DEF ServeActivity
<1>2. w \in Nat \ {0} /\ w \in Width /\ q.start \in Nat /\ q.end \in Nat
  <2>1. w \in Width
    BY ChosenWidth
  <2>2. \A i \in 1..Len(Widths) : Widths[i] \in Nat \ {0}
    BY CatalogAssumption
  <2>3. QED BY <2>1, <2>2, CatalogAssumption DEF Width
<1>3. IsFiniteSet(Event) /\ bag \in Bag /\ events \in Bag
  BY <1>2, CatalogAssumption DEF IInv, Types
<1>4. ASSUME NEW e \in Event
      PROVE  /\ bag[e] \in Nat /\ events[e] \in Nat
             /\ Activity(e) => bag[e] <= events[e]
             /\ ~Activity(e) => bag[e] = 0
             /\ e.ts \in Nat /\ Bucket(w, e.ts) \in Nat
             /\ Bucket(w, e.ts) <= e.ts /\ e.ts < Bucket(w, e.ts) + w
  <2>1. bag[e] \in Nat /\ events[e] \in Nat
    BY <1>3 DEF Bag
  <2>2. Activity(e) => bag[e] <= events[e]
    BY <1>2 DEF IInv, ViewsRead
  <2>3. ~Activity(e) => bag[e] = 0
    BY <1>2 DEF IInv, ReadsActivity
  <2>4. e.ts \in Nat
    BY CatalogAssumption
  <2>5. QED BY <1>2, <2>1, <2>2, <2>3, <2>4, BucketFacts
<1> HIDE DEF bag
<1>5. IsFiniteSet(hit) /\ IsFiniteSet(K) /\ DOMAIN per = K
  <2>1. IsFiniteSet(hit)
    BY <1>3, FS_Subset
  <2>2. key \in Surjection(hit, K)
    BY DEF Surjection
  <2> HIDE DEF hit, K, key
  <2>3. IsFiniteSet(K)
    BY <2>1, <2>2, FS_Surjection
  <2>4. QED BY <2>1, <2>3
<1>6. SumFunction(per) = IF w = Widths[1] THEN SumFunctionOnSet(bag, hit) ELSE 0
  <2>1. CASE w = Widths[1]
    <3>1. \A e \in hit : bag[e] \in Nat
      BY <1>4
    <3>2. \A k \in K : per[k] = SumFunctionOnSet(bag, Fibre(hit, key, k))
      <4>1. ASSUME NEW k \in K PROVE {e \in hit : Key(e) = k} = Fibre(hit, key, k)
        BY DEF Fibre
      <4>2. \A S : Count(w, S) = SumFunctionOnSet(bag, S)
        BY <2>1 DEF Count, bag
      <4> HIDE DEF hit, key, bag
      <4>3. QED BY <4>1, <4>2
    <3>3. Fibres(hit, key, K) = hit
      BY DEF Fibres
    <3> HIDE DEF hit, K, key, per
    <3>4. SumFunctionOnSet(per, K) = SumFunctionOnSet(bag, Fibres(hit, key, K))
      BY <1>5, <3>1, <3>2, SumOfFibres
    <3>5. QED BY <1>5, <2>1, <3>3, <3>4 DEF SumFunction
  <2>2. CASE w # Widths[1]
    <3>1. \A k \in K : per[k] = 0
      BY <2>2 DEF Count
    <3> HIDE DEF K, per
    <3>2. SumFunctionOnSet(per, K) = 0
      BY <1>5, <3>1, SumOfZeros
    <3>3. QED BY <1>5, <2>2, <3>2 DEF SumFunction
  <2>3. QED BY <2>1, <2>2
<1>7. SumFunctionOnSet(bag, hit) <= SumFunctionOnSet(events, outer)
  <2>1. outer \in SUBSET Event /\ hit \in SUBSET Event /\ hit \in SUBSET outer
    <3>1. ASSUME NEW e \in hit PROVE e \in outer
      <4>1. e \in Event /\ bag[e] > 0 /\ Filtered(q, e) /\ Bucket(w, e.ts) >= q.start /\ Bucket(w, e.ts) < q.end
        BY DEF Tile, bag
      <4>2. Activity(e) /\ e.ts >= q.start /\ e.ts < q.end + w - 1
        BY <1>2, <1>4, <4>1
      <4>3. QED BY <4>1, <4>2
    <3>2. QED BY <3>1
  <2>2. \A e \in hit : bag[e] <= events[e] /\ events[e] \in Nat /\ bag[e] \in Nat
    <3>1. \A e \in hit : Activity(e)
      BY <2>1
    <3>2. QED BY <1>4, <2>1, <3>1
  <2>3. \A e \in outer : events[e] \in Nat
    BY <1>4
  <2> HIDE DEF outer, hit
  <2>4. IsFiniteSet(outer) /\ IsFiniteSet(hit)
    BY <1>3, <2>1, FS_Subset
  <2>5. SumFunctionOnSet(bag, hit) <= SumFunctionOnSet(events, hit)
    BY <2>2, <2>4, SumMonotone
  <2>6. SumFunctionOnSet(events, hit) <= SumFunctionOnSet(events, outer)
    BY <2>1, <2>3, <2>4, SumOfPart
  <2>7. SumFunctionOnSet(bag, hit) \in Nat /\ SumFunctionOnSet(events, hit) \in Nat /\ SumFunctionOnSet(events, outer) \in Nat
    BY <2>2, <2>3, <2>4, SumFacts
  <2>8. QED BY <2>5, <2>6, <2>7
<1>8. SumFunctionOnSet(events, outer) \in Nat
  <2>1. outer \in SUBSET Event
    OBVIOUS
  <2> HIDE DEF outer
  <2>2. QED BY <1>3, <1>4, <2>1, FS_Subset, SumFacts
<1> HIDE DEF hit, outer, per
<1>9. SumFunction(per) <= SumFunctionOnSet(events, outer)
  BY <1>6, <1>7, <1>8
<1>10. QED BY <1>1, <1>9 DEF outer

(* An answer from the rows themselves. *)
LEMMA RawAnswer ==
  ASSUME IInv, NEW q \in Query
  PROVE  SumFunction(ServeRaw(q))
           = Min({RawLimit, SumFunctionOnSet(events, {e \in Event : /\ Activity(e) /\ Filtered(q, e)
                                                                    /\ e.ts >= q.start /\ e.ts < q.end})})
<1> DEFINE S == {e \in Event : Activity(e) /\ Filtered(q, e) /\ e.ts >= q.start /\ e.ts < q.end}
           hit == {e \in Event : /\ events[e] > 0 /\ Filtered(q, e) /\ Activity(e)
                                 /\ e.ts >= q.start /\ e.ts < q.end}
           time == [e \in hit |-> e.ts]
           Here(t) == SumFunctionOnSet(events, {e \in hit : e.ts = t})
           Prior(t) == SumFunctionOnSet(events, {e \in hit : e.ts < t})
           D == {e.ts : e \in {d \in hit : Prior(d.ts) < RawLimit}}
           shown == [t \in D |-> Min({Here(t), RawLimit - Prior(t)})]
<1>1. ServeRaw(q) = shown
  BY DEF ServeRaw
<1>2. /\ IsFiniteSet(Event) /\ events \in Bag /\ RawLimit \in Nat
      /\ \A e \in Event : e.ts \in Nat /\ events[e] \in Nat
      /\ q.start \in Nat /\ q.end \in Nat
  BY CatalogAssumption DEF IInv, Types, Bag
<1>3. IsFiniteSet(S) /\ IsFiniteSet(hit) /\ \A e \in S : events[e] \in Nat
  BY <1>2, FS_Subset
<1>4. hit = {e \in S : events[e] > 0}
  OBVIOUS
<1>5. SumFunctionOnSet(events, hit) = SumFunctionOnSet(events, S)
  <2> HIDE DEF S, hit
  <2>1. QED BY <1>3, <1>4, SumOfPositive
<1>6. SumFunction(shown) = Min({RawLimit, SumFunctionOnSet(events, hit)})
  <2>1. \A e \in hit : events[e] \in Nat /\ time[e] \in Nat /\ time[e] < q.end /\ time[e] = e.ts
    BY <1>2
  <2> HIDE DEF hit, time
  <2>2. ASSUME NEW t
        PROVE  /\ Here(t) = SumFunctionOnSet(events, Fibre(hit, time, t))
               /\ Prior(t) = SumFunctionOnSet(events, Earlier(hit, time, t))
    <3>1. {e \in hit : e.ts = t} = Fibre(hit, time, t)
      BY <2>1 DEF Fibre
    <3>2. {e \in hit : e.ts < t} = Earlier(hit, time, t)
      BY <2>1 DEF Earlier
    <3>3. QED BY <3>1, <3>2
  <2> HIDE DEF Here, Prior
  <2>3. \A t : t \in D <=> t \in Nat /\ (\E x \in hit : time[x] = t) /\ Prior(t) < RawLimit
    <3>1. ASSUME NEW t \in D PROVE t \in Nat /\ (\E x \in hit : time[x] = t) /\ Prior(t) < RawLimit
      <4>1. PICK e \in hit : t = e.ts /\ Prior(e.ts) < RawLimit
        OBVIOUS
      <4>2. QED BY <2>1, <4>1
    <3>2. ASSUME NEW t, NEW e \in hit, time[e] = t, Prior(t) < RawLimit PROVE t \in D
      BY <2>1, <3>2
    <3>3. QED BY <3>1, <3>2
  <2>4. \A t \in D : shown[t] = Min({Here(t), RawLimit - Prior(t)})
    OBVIOUS
  <2>5. DOMAIN shown = D
    OBVIOUS
  <2> HIDE DEF D, shown
  <2>6. ReadInOrder(hit, events, time, q.end, RawLimit, D, shown)
    BY <1>2, <1>3, <2>1, <2>2, <2>3, <2>4 DEF ReadInOrder
  <2>7. QED BY <2>5, <2>6, SumOfFirst DEF SumFunction
<1>7. QED BY <1>1, <1>5, <1>6

(* Both, as the handler dispatches them. *)
LEMMA AnswersAreStored == IInv => AnswersStored
<1> SUFFICES ASSUME IInv, NEW q \in Query, q.start < q.end, Kind(q) # "metric"
             PROVE  LET w == AnswerWidth(q)
                        counted == SumFunction(Answer(q))
                        Rows(to) ==
                          SumFunctionOnSet(events, {e \in Event : /\ Activity(e) /\ Filtered(q, e)
                                                                  /\ e.ts >= q.start /\ e.ts < to})
                    IN  IF Kind(q) = "raw" THEN counted = Min({RawLimit, Rows(q.end)})
                                           ELSE counted <= Rows(q.end + w - 1)
  BY DEF AnswersStored
<1>1. ~ (q.end <= q.start) /\ q.end > q.start
  BY CatalogAssumption
<1>2. CASE Kind(q) = "raw"
  <2>1. Answer(q) = ServeRaw(q)
    BY <1>1, <1>2 DEF Answer
  <2>2. QED BY <1>2, <2>1, RawAnswer
<1>3. CASE Kind(q) # "raw"
  <2> DEFINE w == AnswerWidth(q)
             B == SumFunctionOnSet(events, {e \in Event : /\ Activity(e) /\ Filtered(q, e)
                                                         /\ e.ts >= q.start /\ e.ts < q.end + w - 1})
  <2>1. Answer(q) = ServeActivity(q)
    BY <1>1, <1>3 DEF Answer
  <2>2. w = choose_tile(q.end - q.start, q.pixels)
    BY <1>3 DEF AnswerWidth
  <2> HIDE DEF w
  <2>3. SumFunction(ServeActivity(q)) <= B
    BY <2>2, ActivityAnswer
  <2> HIDE DEF B
  <2>4. SumFunction(Answer(q)) <= B
    BY <2>1, <2>3
  <2>5. QED BY <1>3, <2>4 DEF B, w
<1>4. QED BY <1>2, <1>3

----------------------------------------------------------------------------
(* The catalog's state stays well-formed, the kept views once made are never  *)
(* dropped by a later start, complete or interrupted, and an upload imported  *)
(* alone is the one whose export trace.sqlite holds.                          *)
THEOREM CatalogInvariant == Spec => []IInv
<1>1. Init => IInv
  BY InitIInv
<1>2. IInv /\ [Next]_vars => IInv'
  BY NextIInv
<1>3. QED BY <1>1, <1>2, PTL DEF Spec

(* Rows inserted once apply() has run to its end are read by the view of      *)
(* every kept width, whichever views 0006 drops and however often a start      *)
(* runs the migrations again or dies in the middle of them, and no view reads  *)
(* a row more often than events stores it.                                     *)
THEOREM CatalogViewsRead == Spec => []ViewsRead
<1>1. IInv => ViewsRead
  BY DEF IInv
<1>2. QED BY <1>1, CatalogInvariant, PTL

(* An import that no other one overlapped inserted the rows of its report.    *)
THEOREM CatalogImportsOwnRows == Spec => []ImportsOwnRows
<1>1. IInv => ImportsOwnRows
  BY DEF IInv, OneAtATime, ImportsOwnRows
<1>2. QED BY <1>1, CatalogInvariant, PTL

(* Whatever was inserted, imported and migrated in whatever order, a raw      *)
(* answer of the timeline counts the rows of the range or as many as its       *)
(* limit, and an activity answer only rows that are stored, of the range or    *)
(* of the bucket that its end cuts.                                            *)
THEOREM CatalogAnswersStored == Spec => []AnswersStored
<1>1. IInv => AnswersStored
  BY AnswersAreStored
<1>2. QED BY <1>1, CatalogInvariant, PTL
=============================================================================

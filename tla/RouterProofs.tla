---------------------------- MODULE RouterProofs ----------------------------
(***************************************************************************)
(* Proofs about AgentRouter: for every file of rules and every message,    *)
(* trying the sorted rules one by one has the documented outcome.          *)
(*                                                                         *)
(* Before is a strict total order on the rules of a file, so counting the  *)
(* rules before a rule gives each a place of its own (RankOrder), and all  *)
(* places are taken (RankOnto).  Sorting what is sorted changes nothing    *)
(* (SortedTwice), and the first match in sorted order is the best match of *)
(* the file (FirstIsBest).                                                 *)
(***************************************************************************)
EXTENDS AgentRouter, FiniteSetTheorems, TLAPS

\* A file of n rules.  Sorting asks nothing of a rule but its priority.
IsFile(file, n) ==
    /\ n \in Nat
    /\ file = [i \in 1 .. n |-> file[i]]
    /\ \A i \in 1 .. n : file[i].priority \in Int

-----------------------------------------------------------------------------
(* Ranks *)

\* The rules before a rule are finitely many, fewer than there are.
LEMMA BeforeFinite ==
    ASSUME NEW n, NEW file, IsFile(file, n), NEW i \in 1 .. n
    PROVE  LET B == {j \in 1 .. n : Before(file, j, i)}
           IN  /\ IsFiniteSet(B)
               /\ Cardinality(B) \in Nat
               /\ Cardinality(B) < n
<1> DEFINE B == {j \in 1 .. n : Before(file, j, i)}
<1>1. n \in Nat /\ file[i].priority \in Int
  BY DEF IsFile
<1>2. IsFiniteSet(1 .. n) /\ Cardinality(1 .. n) = n
  BY <1>1, FS_Interval
<1>3. B \subseteq (1 .. n) \ {i}
  BY <1>1 DEF Before
<1>4. IsFiniteSet((1 .. n) \ {i}) /\ Cardinality((1 .. n) \ {i}) = n - 1
  BY <1>2, FS_RemoveElement
<1>5. IsFiniteSet(B) /\ Cardinality(B) <= n - 1
  BY <1>3, <1>4, FS_Subset
<1>6. Cardinality(B) \in Nat
  BY <1>5, FS_CardinalityType
<1> QED
  BY <1>1, <1>5, <1>6

\* Before is a strict total order.
LEMMA BeforeOrder ==
    ASSUME NEW n, NEW file, IsFile(file, n), NEW i \in 1 .. n, NEW j \in 1 .. n
    PROVE  /\ i # j => Before(file, i, j) \/ Before(file, j, i)
           /\ ~(Before(file, i, j) /\ Before(file, j, i))
           /\ \A k \in 1 .. n : Before(file, k, i) /\ Before(file, i, j) => Before(file, k, j)
<1>1. n \in Nat /\ \A k \in 1 .. n : file[k].priority \in Int
  BY DEF IsFile
<1> QED
  BY <1>1 DEF Before

\* A rule that comes before another has the lower rank.
LEMMA RankGrows ==
    ASSUME NEW n, NEW file, IsFile(file, n),
           NEW i \in 1 .. n, NEW j \in 1 .. n, Before(file, i, j)
    PROVE  Rank(file, i) < Rank(file, j)
<1> DEFINE B(x) == {k \in 1 .. n : Before(file, k, x)}
<1>1. DOMAIN file = 1 .. n
  BY DEF IsFile
<1>2. IsFiniteSet(B(i)) /\ Cardinality(B(i)) \in Nat
  BY BeforeFinite
<1>3. IsFiniteSet(B(j)) /\ Cardinality(B(j)) \in Nat
  BY BeforeFinite
<1>4. i \notin B(i)
  BY BeforeOrder
<1>5. B(i) \cup {i} \subseteq B(j)
  BY BeforeOrder
<1>6. Cardinality(B(i) \cup {i}) = Cardinality(B(i)) + 1
  BY <1>2, <1>4, FS_AddElement
<1>7. Cardinality(B(i) \cup {i}) <= Cardinality(B(j))
  BY <1>3, <1>5, FS_Subset
<1>8. Rank(file, i) = 1 + Cardinality(B(i)) /\ Rank(file, j) = 1 + Cardinality(B(j))
  BY <1>1 DEF Rank
<1> HIDE DEF B
<1> QED
  BY <1>2, <1>3, <1>6, <1>7, <1>8

\* Ranks are places in the file, and ordered as the rules are.
LEMMA RankOrder ==
    ASSUME NEW n, NEW file, IsFile(file, n), NEW i \in 1 .. n, NEW j \in 1 .. n
    PROVE  /\ Rank(file, i) \in 1 .. n
           /\ Rank(file, i) < Rank(file, j) <=> Before(file, i, j)
           /\ Rank(file, i) = Rank(file, j) => i = j
<1>1. DOMAIN file = 1 .. n /\ n \in Nat
  BY DEF IsFile
<1>2. \A x \in 1 .. n : Rank(file, x) \in 1 .. n
  <2> TAKE x \in 1 .. n
  <2> DEFINE B == {k \in 1 .. n : Before(file, k, x)}
  <2>1. Cardinality(B) \in Nat /\ Cardinality(B) < n
    BY BeforeFinite
  <2>2. Rank(file, x) = 1 + Cardinality(B)
    BY <1>1 DEF Rank
  <2> HIDE DEF B
  <2> QED
    BY <1>1, <2>1, <2>2
<1>3. Before(file, i, j) => Rank(file, i) < Rank(file, j)
  BY RankGrows
<1>4. Before(file, j, i) => Rank(file, j) < Rank(file, i)
  BY RankGrows
<1>5. i = j \/ Before(file, i, j) \/ Before(file, j, i)
  BY BeforeOrder
<1>6. Rank(file, i) \in Int /\ Rank(file, j) \in Int
  BY <1>1, <1>2
<1> QED
  BY <1>2, <1>3, <1>4, <1>5, <1>6

\* Every place is the rank of a rule.
LEMMA RankOnto ==
    ASSUME NEW n, NEW file, IsFile(file, n), NEW k \in 1 .. n
    PROVE  \E i \in 1 .. n : Rank(file, i) = k
<1> DEFINE r == [i \in 1 .. n |-> Rank(file, i)]
<1>1. n \in Nat
  BY DEF IsFile
<1>2. r \in Injection(1 .. n, 1 .. n)
  <2>1. r \in [1 .. n -> 1 .. n]
    BY RankOrder
  <2>2. \A i, j \in 1 .. n : r[i] = r[j] => i = j
    BY RankOrder
  <2> QED
    BY <2>1, <2>2 DEF Injection, IsInjective
<1>3. IsFiniteSet(1 .. n)
  BY <1>1, FS_Interval
<1>4. r \in Surjection(1 .. n, 1 .. n)
  BY <1>2, <1>3, FS_Injection
<1>5. PICK i \in 1 .. n : r[i] = k
  BY <1>4 DEF Surjection
<1> QED
  BY <1>5

-----------------------------------------------------------------------------
(* Sorting *)

\* Sorting puts every rule at the place of its rank.
LEMMA SortedPlaces ==
    ASSUME NEW n, NEW file, IsFile(file, n)
    PROVE  /\ IsFile(Sorted(file), n)
           /\ DOMAIN Sorted(file) = 1 .. n
           /\ \A i \in 1 .. n : Sorted(file)[Rank(file, i)] = file[i]
<1>1. DOMAIN file = 1 .. n /\ n \in Nat
  BY DEF IsFile
<1>2. \A i \in 1 .. n : (CHOOSE x \in 1 .. n : Rank(file, x) = Rank(file, i)) = i
  BY RankOrder
<1>3. \A i \in 1 .. n : Sorted(file)[Rank(file, i)] = file[i]
  BY <1>1, <1>2, RankOrder DEF Sorted
<1>4. \A k \in 1 .. n : Sorted(file)[k].priority \in Int
  <2> TAKE k \in 1 .. n
  <2>1. PICK i \in 1 .. n : Rank(file, i) = k
    BY RankOnto
  <2>2. Sorted(file)[k] = file[i]
    BY <1>3, <2>1
  <2> QED
    BY <2>2 DEF IsFile
<1>5. Sorted(file) = [k \in 1 .. n |-> Sorted(file)[k]]
  BY <1>1 DEF Sorted
<1> QED
  BY <1>1, <1>3, <1>4, <1>5 DEF IsFile

\* In a sorted file, the rule at the lower place comes first.
LEMMA SortedBefore ==
    ASSUME NEW n, NEW file, IsFile(file, n), NEW k \in 1 .. n, NEW l \in 1 .. n
    PROVE  Before(Sorted(file), k, l) <=> k < l
<1>1. PICK i \in 1 .. n : Rank(file, i) = k
  BY RankOnto
<1>2. PICK j \in 1 .. n : Rank(file, j) = l
  BY RankOnto
<1>3. Sorted(file)[k] = file[i] /\ Sorted(file)[l] = file[j]
  BY <1>1, <1>2, SortedPlaces
<1>4. file[i].priority \in Int /\ file[j].priority \in Int
  BY DEF IsFile
<1>5. k < l => Before(file, i, j)
  BY <1>1, <1>2, RankOrder
<1>6. l < k => Before(file, j, i)
  BY <1>1, <1>2, RankOrder
<1>7. k < l => file[i].priority >= file[j].priority
  BY <1>4, <1>5 DEF Before
<1>8. l < k => file[j].priority >= file[i].priority
  BY <1>4, <1>6 DEF Before
<1>9. k \in Int /\ l \in Int
  BY DEF IsFile
<1> QED
  BY <1>3, <1>4, <1>7, <1>8, <1>9 DEF Before

\* Sorting a sorted file changes nothing: route may sort what load_rules has
\* sorted.
LEMMA SortedTwice ==
    ASSUME NEW n, NEW file, IsFile(file, n)
    PROVE  Sorted(Sorted(file)) = Sorted(file)
<1> DEFINE g == Sorted(file)
<1>1. IsFile(g, n) /\ DOMAIN g = 1 .. n /\ n \in Nat
  BY SortedPlaces DEF IsFile
<1>2. ASSUME NEW k \in 1 .. n
      PROVE  Rank(g, k) = k
  <2>1. {l \in 1 .. n : Before(g, l, k)} = 1 .. (k - 1)
    <3>1. \A l \in 1 .. n : Before(g, l, k) <=> l < k
      BY SortedBefore
    <3> HIDE DEF g
    <3> QED
      BY <1>1, <3>1
  <2>2. k - 1 \in Nat
    OBVIOUS
  <2>3. Cardinality(1 .. (k - 1)) = k - 1
    BY <2>2, FS_Interval
  <2>4. Rank(g, k) = 1 + Cardinality({l \in 1 .. n : Before(g, l, k)})
    BY <1>1 DEF Rank
  <2>5. Rank(g, k) = 1 + (k - 1)
    BY <2>1, <2>3, <2>4
  <2> HIDE DEF g
  <2> QED
    BY <1>1, <2>5
<1>3. \A k \in 1 .. n : Sorted(g)[k] = g[k]
  BY <1>1, <1>2, SortedPlaces
<1>4. DOMAIN Sorted(g) = 1 .. n
  BY <1>1, SortedPlaces
<1>5. Sorted(g) = [k \in 1 .. n |-> Sorted(g)[k]] /\ g = [k \in 1 .. n |-> g[k]]
  BY <1>1, <1>4, SortedPlaces DEF IsFile
<1> QED
  BY <1>3, <1>5

-----------------------------------------------------------------------------
(* The first match *)

\* Of the rules of the sorted file at the places of S, the first is rule i,
\* when its rank is among them and none of the others comes before it.
LEMMA FirstIsBest ==
    ASSUME NEW n, NEW file, IsFile(file, n), NEW S \in SUBSET (1 .. n),
           NEW i \in 1 .. n, Rank(file, i) \in S,
           \A j \in 1 .. n : Rank(file, j) \in S => ~Before(file, j, i)
    PROVE  First(Sorted(file), S) = Routed(file[i].name, file[i].target)
<1> DEFINE r == Rank(file, i)
<1>1. \A k \in S : r <= k
  <2> TAKE k \in S
  <2>1. PICK j \in 1 .. n : Rank(file, j) = k
    BY RankOnto
  <2>2. ~(Rank(file, j) < Rank(file, i))
    BY <2>1, RankOrder
  <2>3. k \in Int /\ r \in Int
    BY <2>1, RankOrder
  <2> QED
    BY <2>1, <2>2, <2>3
<1>2. \A k \in S : k \in Int
  BY DEF IsFile
<1>3. (CHOOSE x \in S : \A y \in S : x <= y) = r
  <2> DEFINE m == CHOOSE x \in S : \A y \in S : x <= y
  <2>1. \E x \in S : \A y \in S : x <= y
    BY <1>1
  <2>2. m \in S /\ \A y \in S : m <= y
    BY <2>1
  <2> HIDE DEF m, r
  <2>3. r \in S
    BY DEF r
  <2>4. m <= r /\ r <= m
    BY <1>1, <2>2, <2>3
  <2>5. m = r
    BY <1>2, <2>2, <2>3, <2>4
  <2> QED
    BY <2>5 DEF m
<1>4. Sorted(file)[r] = file[i]
  BY SortedPlaces
<1> QED
  BY <1>3, <1>4 DEF First

\* A nonempty set of places has a least one: the rule of rank 1, in a file
\* that prefers just these places.
LEMMA LeastPlace ==
    ASSUME NEW n \in Nat, NEW S \in SUBSET (1 .. n), S # {}
    PROVE  \E k \in S : \A l \in S : k <= l
<1> DEFINE file == [i \in 1 .. n |-> [priority |-> IF i \in S THEN 1 ELSE 0]]
<1>1. IsFile(file, n)
  BY DEF IsFile
<1>2. 1 \in 1 .. n
  <2>1. PICK s \in S : s \in 1 .. n
    OBVIOUS
  <2> QED
    BY <2>1
<1>3. PICK k \in 1 .. n : Rank(file, k) = 1
  <2> HIDE DEF file
  <2> QED
    BY <1>1, <1>2, RankOnto
<1>4. \A j \in 1 .. n : Rank(file, j) \in 1 .. n
  BY <1>1, RankOrder
<1>5. \A j \in 1 .. n : Rank(file, j) < Rank(file, k) <=> Before(file, j, k)
  BY <1>1, RankOrder
<1>6. \A j \in 1 .. n : ~Before(file, j, k)
  BY <1>3, <1>4, <1>5
<1>7. k \in S
  <2>1. PICK s \in S : s \in 1 .. n
    OBVIOUS
  <2>2. file[s].priority = 1 /\ (k \notin S => file[k].priority = 0)
    BY <2>1
  <2>3. ~(file[s].priority > file[k].priority)
    BY <1>6, <2>1 DEF Before
  <2> QED
    BY <2>2, <2>3
<1>8. \A l \in S : ~(l < k)
  BY <1>6, <1>7 DEF Before
<1> QED
  BY <1>7, <1>8

\* Of any rules of a file, one is the best.
LEMMA BestRule ==
    ASSUME NEW n, NEW file, IsFile(file, n), NEW S \in SUBSET (1 .. n), S # {}
    PROVE  \E i \in S : \A j \in S : ~Before(file, j, i)
<1> DEFINE K == {Rank(file, i) : i \in S}
<1>1. K \in SUBSET (1 .. n) /\ K # {} /\ n \in Nat
  <2>1. n \in Nat
    BY DEF IsFile
  <2>2. \A i \in S : Rank(file, i) \in 1 .. n
    BY RankOrder
  <2> QED
    BY <2>1, <2>2
<1>2. PICK k \in K : \A l \in K : k <= l
  <2> HIDE DEF K
  <2> QED
    BY <1>1, LeastPlace
<1>3. PICK i \in S : k = Rank(file, i)
  BY <1>2
<1>4. \A j \in S : ~(Rank(file, j) < Rank(file, i))
  <2> TAKE j \in S
  <2>1. Rank(file, i) <= Rank(file, j)
    BY <1>2, <1>3
  <2>2. Rank(file, i) \in Int /\ Rank(file, j) \in Int
    BY <1>1, RankOrder
  <2> QED
    BY <2>1, <2>2
<1> QED
  BY <1>4, RankOrder

-----------------------------------------------------------------------------
(* Routing *)

\* The outcome of a message is the choice among the sorted rules of the file.
RInv ==
    /\ \E n \in Nat : IsFile(config, n)
    /\ rules = Sorted(config)
    /\ message # NoMessage => outcome = Choice(Sorted(config), message)

\* The best of the rules that match, in the file, is the first in the sorted
\* file, for matching by metadata and by text.
LEMMA ChoiceIsBest ==
    ASSUME NEW n, NEW file, IsFile(file, n), NEW m
    PROVE  LET byMetadata == {i \in DOMAIN file : MatchesMetadata(file[i], m.metadata)}
               byText == {i \in DOMAIN file : MatchesText(file[i], m.text)}
               won(i) == Choice(Sorted(file), m) = Routed(file[i].name, file[i].target)
           IN  /\ \A i \in byMetadata : (\A j \in byMetadata : ~Before(file, j, i)) => won(i)
               /\ byMetadata = {} =>
                     /\ \A i \in byText : (\A j \in byText : ~Before(file, j, i)) => won(i)
                     /\ byText = {} => Choice(Sorted(file), m) = Explicit(m.metadata)
<1> DEFINE order == Sorted(file)
           M == {i \in 1 .. n : MatchesMetadata(file[i], m.metadata)}
           T == {i \in 1 .. n : MatchesText(file[i], m.text)}
           SM == {k \in 1 .. n : MatchesMetadata(order[k], m.metadata)}
           ST == {k \in 1 .. n : MatchesText(order[k], m.text)}
           won(i) == Choice(order, m) = Routed(file[i].name, file[i].target)
<1>1. DOMAIN file = 1 .. n /\ DOMAIN order = 1 .. n
  BY SortedPlaces DEF IsFile
<1>2. \A j \in 1 .. n : (Rank(file, j) \in SM <=> j \in M) /\ (Rank(file, j) \in ST <=> j \in T)
  BY SortedPlaces, RankOrder
<1>3. \A k \in 1 .. n : \E j \in 1 .. n : Rank(file, j) = k
  BY RankOnto
<1>4. (SM = {} <=> M = {}) /\ (ST = {} <=> T = {})
  BY <1>2, <1>3, RankOrder
<1>5. Choice(order, m) = IF SM # {} THEN First(order, SM)
                         ELSE IF ST # {} THEN First(order, ST)
                         ELSE Explicit(m.metadata)
  BY <1>1 DEF Choice
<1>6. ASSUME NEW i \in M, \A j \in M : ~Before(file, j, i)
      PROVE  won(i)
  <2>1. First(order, SM) = Routed(file[i].name, file[i].target)
    BY <1>2, <1>6, FirstIsBest
  <2> QED
    BY <1>4, <1>5, <2>1
<1>7. ASSUME M = {}, NEW i \in T, \A j \in T : ~Before(file, j, i)
      PROVE  won(i)
  <2>1. First(order, ST) = Routed(file[i].name, file[i].target)
    BY <1>2, <1>7, FirstIsBest
  <2> QED
    BY <1>4, <1>5, <1>7, <2>1
<1>8. ASSUME M = {}, T = {}
      PROVE  Choice(order, m) = Explicit(m.metadata)
  BY <1>4, <1>5, <1>8
<1> QED
  BY <1>1, <1>6, <1>7, <1>8

\* Every outcome is the choice among the sorted rules of the file.
LEMMA Outcomes == Spec => []RInv
<1>1. Init => RInv
  <2> SUFFICES ASSUME Init
               PROVE  RInv
    OBVIOUS
  <2>1. PICK n \in 0 .. MaxRules : config \in [1 .. n -> Menu]
    BY DEF Init, Files
  <2>2. \A i \in 1 .. n : config[i].priority \in Int
    BY <2>1, RouterAssumption DEF Rule
  <2>3. n \in Nat /\ IsFile(config, n)
    BY <2>1, <2>2, RouterAssumption DEF IsFile
  <2> QED
    BY <2>3 DEF Init, RInv
<1>2. RInv /\ [Next]_vars => RInv'
  <2> SUFFICES ASSUME RInv, [Next]_vars
               PROVE  RInv'
    OBVIOUS
  <2>1. PICK n \in Nat : IsFile(config, n)
    BY DEF RInv
  <2>2. Sorted(rules) = Sorted(config)
    BY <2>1, SortedTwice DEF RInv
  <2>3. ASSUME NEW m \in Messages, Route(m)
        PROVE  RInv'
    BY <2>2, <2>3 DEF RInv, Route
  <2>4. CASE Return
    BY <2>4 DEF RInv, Return
  <2>5. CASE UNCHANGED vars
    BY <2>5 DEF RInv, vars
  <2> QED
    BY <2>3, <2>4, <2>5 DEF Next
<1> QED
  BY <1>1, <1>2, PTL DEF Spec

\* Routing has the precedence that the docstring of route gives it, for every
\* configuration file and every message.
THEOREM Precedence == Spec => []PrecedenceKept
<1>1. RInv => PrecedenceKept
  <2> SUFFICES ASSUME RInv, message # NoMessage
               PROVE  PrecedenceKept
    BY DEF PrecedenceKept
  <2>1. PICK n \in Nat : IsFile(config, n)
    BY DEF RInv
  <2>2. outcome = Choice(Sorted(config), message)
    BY DEF RInv
  <2> QED
    BY <2>1, <2>2, ChoiceIsBest DEF PrecedenceKept
<1> QED
  BY <1>1, Outcomes, PTL

\* A file with a rule that every text matches routes every message to the
\* target of one of its rules.
THEOREM CatchAll == Spec => []CatchAllAnswersAll
<1>1. RInv => CatchAllAnswersAll
  <2> SUFFICES ASSUME RInv, message # NoMessage, NEW a \in DOMAIN config,
                      config[a].pattern = "any"
               PROVE  /\ outcome.kind = "routed"
                      /\ \E i \in DOMAIN config : outcome.rule = config[i].name
    BY DEF CatchAllAnswersAll
  <2> DEFINE M == {i \in DOMAIN config : MatchesMetadata(config[i], message.metadata)}
             T == {i \in DOMAIN config : MatchesText(config[i], message.text)}
             best(S, i) == i \in S /\ \A j \in S : ~Before(config, j, i)
  <2>1. PICK n \in Nat : IsFile(config, n)
    BY DEF RInv
  <2>2. outcome = Choice(Sorted(config), message)
    BY DEF RInv
  <2>3. DOMAIN config = 1 .. n
    BY <2>1 DEF IsFile
  <2>4. a \in T
    BY DEF MatchesText
  <2>5. \E i \in DOMAIN config : best(M, i) \/ (M = {} /\ best(T, i))
    <3>1. CASE M # {}
      BY <2>1, <2>3, <3>1, BestRule
    <3>2. CASE M = {}
      <4>1. \E i \in T : best(T, i)
        BY <2>1, <2>3, <2>4, BestRule
      <4> QED
        BY <3>2, <4>1
    <3> QED
      BY <3>1, <3>2
  <2>6. PICK i \in DOMAIN config : outcome = Routed(config[i].name, config[i].target)
    BY <2>1, <2>2, <2>5, ChoiceIsBest
  <2> QED
    BY <2>6 DEF Routed
<1> QED
  BY <1>1, Outcomes, PTL

\* The order of the rules in the file does not matter where their priorities
\* differ.
THEOREM FileOrder == Spec => []FileOrderIrrelevant
<1>1. RInv => FileOrderIrrelevant
  <2> SUFFICES ASSUME RInv, message # NoMessage,
                      \A i, j \in DOMAIN config :
                          i # j => config[i].priority # config[j].priority,
                      NEW p \in [DOMAIN config -> DOMAIN config],
                      \A i, j \in DOMAIN config : i # j => p[i] # p[j]
               PROVE  Choice(Sorted([i \in DOMAIN config |-> config[p[i]]]), message) = outcome
    BY DEF FileOrderIrrelevant
  <2> DEFINE g == [i \in DOMAIN config |-> config[p[i]]]
             M(f) == {i \in DOMAIN f : MatchesMetadata(f[i], message.metadata)}
             T(f) == {i \in DOMAIN f : MatchesText(f[i], message.text)}
             best(f, S, i) == i \in S /\ \A j \in S : ~Before(f, j, i)
  <2>1. PICK n \in Nat : IsFile(config, n)
    BY DEF RInv
  <2>2. outcome = Choice(Sorted(config), message)
    BY DEF RInv
  <2>3. DOMAIN config = 1 .. n /\ DOMAIN g = 1 .. n
    BY <2>1 DEF IsFile
  <2>4. IsFile(g, n)
    BY <2>1, <2>3 DEF IsFile
  <2>5. \A i \in 1 .. n : \E j \in 1 .. n : p[j] = i
    <3>1. p \in Injection(1 .. n, 1 .. n)
      BY <2>3 DEF Injection, IsInjective
    <3>2. IsFiniteSet(1 .. n)
      BY FS_Interval
    <3>3. p \in Surjection(1 .. n, 1 .. n)
      BY <3>1, <3>2, FS_Injection
    <3> QED
      BY <3>3 DEF Surjection
  <2>6. \A i, j \in 1 .. n : Before(g, i, j) <=> Before(config, p[i], p[j])
    BY <2>1, <2>3 DEF Before, IsFile
  <2>7. \A i \in 1 .. n : /\ (i \in M(g) <=> p[i] \in M(config))
                           /\ (i \in T(g) <=> p[i] \in T(config))
    BY <2>3
  <2>8. (M(g) = {} <=> M(config) = {}) /\ (T(g) = {} <=> T(config) = {})
    BY <2>3, <2>5, <2>7
  <2>9. \A i \in 1 .. n : /\ (best(config, M(config), p[i]) => best(g, M(g), i))
                           /\ (best(config, T(config), p[i]) => best(g, T(g), i))
    BY <2>3, <2>5, <2>6, <2>7
  <2>10. \A f : IsFile(f, n) =>
            LET won(i) == Choice(Sorted(f), message) = Routed(f[i].name, f[i].target)
            IN  /\ \A i : best(f, M(f), i) => won(i)
                /\ M(f) = {} => \A i : best(f, T(f), i) => won(i)
                /\ M(f) = {} /\ T(f) = {} =>
                      Choice(Sorted(f), message) = Explicit(message.metadata)
    BY ChoiceIsBest
  <2>11. CASE M(config) # {}
    <3>1. PICK i \in 1 .. n : best(config, M(config), i)
      BY <2>1, <2>3, <2>11, BestRule
    <3>2. PICK k \in 1 .. n : p[k] = i
      BY <2>5
    <3>3. best(g, M(g), k) /\ g[k] = config[i]
      BY <2>3, <2>9, <3>1, <3>2
    <3> QED
      BY <2>1, <2>2, <2>4, <2>10, <3>1, <3>3
  <2>12. CASE M(config) = {} /\ T(config) # {}
    <3>1. PICK i \in 1 .. n : best(config, T(config), i)
      BY <2>1, <2>3, <2>12, BestRule
    <3>2. PICK k \in 1 .. n : p[k] = i
      BY <2>5
    <3>3. best(g, T(g), k) /\ g[k] = config[i]
      BY <2>3, <2>9, <3>1, <3>2
    <3> QED
      BY <2>1, <2>2, <2>4, <2>8, <2>10, <2>12, <3>1, <3>3
  <2>13. CASE M(config) = {} /\ T(config) = {}
    BY <2>1, <2>2, <2>4, <2>8, <2>10, <2>13
  <2> QED
    BY <2>11, <2>12, <2>13
<1> QED
  BY <1>1, Outcomes, PTL
=============================================================================

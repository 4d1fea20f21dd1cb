------------------------- MODULE UploadPartsProofs --------------------------
(* Theorems about what uploads are made of, as parts of ClientParts: the     *)
(* progress events of a transfer (WireProgress), the cut into commits        *)
(* (CommitPlanner) and a file that changes meanwhile (ChangingFile), for any *)
(* sizes, limits, files, contents and numbers of attempts.                   *)
EXTENDS ClientParts, TLAPS, FiniteSetTheorems, WellFoundedInduction, SequenceTheorems

\* Induction, without an operator to instantiate: a set of naturals has a least element.
LEMMA LeastNatural ==
  ASSUME NEW T \in SUBSET Nat, T # {}
  PROVE  \E n \in T : \A m \in T : n <= m
<1>. DEFINE R == OpToRel(<, Nat)
<1>1. IsWellFoundedOn(R, Nat)
  BY NatLessThanWellFounded, Zenon
<1>2. \A x, y \in Nat : y < x => <<y, x>> \in R
  BY DEF OpToRel
<1>. HIDE DEF R
<1>3. PICK n \in T : \A m \in T : ~ (<<m, n>> \in R)
  BY <1>1, WFMin, Zenon
<1>4. \A m \in T : ~ (m < n)
  BY <1>2, <1>3
<1>5. \A m \in T : n <= m
  BY <1>3, <1>4
<1>. QED  BY <1>5

-----------------------------------------------------------------------------
(* Sums, which the folds of the community modules compute by choosing one    *)
(* element after the other.                                                  *)

Pick(s) == CHOOSE x \in s : TRUE
Added(w, g, s)  == IF s = {} THEN 0 ELSE w[Pick(s)] + g[s \ {Pick(s)}]
IsFold(g, w, D) == g = [s \in SUBSET D |-> IF s = {} THEN 0 ELSE w[Pick(s)] + g[s \ {Pick(s)}]]
Total(w, D)     == (CHOOSE g : IsFold(g, w, D))[D]

LEMMA PickIn == ASSUME NEW s, s # {} PROVE Pick(s) \in s
BY DEF Pick

LEMMA Smaller ==
  ASSUME NEW s, IsFiniteSet(s), NEW x \in s
  PROVE  /\ IsFiniteSet(s \ {x}) /\ Cardinality(s) \in Nat /\ Cardinality(s \ {x}) \in Nat
         /\ Cardinality(s \ {x}) = Cardinality(s) - 1 /\ Cardinality(s) > 0
<1>1. IsFiniteSet(s \ {x}) /\ Cardinality(s \ {x}) = Cardinality(s) - 1
  BY FS_RemoveElement
<1>2. Cardinality(s) \in Nat /\ Cardinality(s \ {x}) \in Nat
  BY <1>1, FS_CardinalityType
<1>. QED  BY <1>1, <1>2

\* The fold exists: the sets of at most n elements have their sums, for every n.
LEMMA FoldExists ==
  ASSUME NEW D, IsFiniteSet(D), NEW w, \A x \in D : w[x] \in Nat
  PROVE  \E g : IsFold(g, w, D) /\ \A s \in SUBSET D : g[s] \in Nat
<1>. DEFINE Upto(n) == \E g \in [SUBSET D -> Nat] :
              \A s \in SUBSET D : Cardinality(s) <= n => g[s] = Added(w, g, s)
            T == {n \in Nat : ~ Upto(n)}
<1>0. \A s \in SUBSET D : IsFiniteSet(s) /\ Cardinality(s) \in Nat /\ Cardinality(s) <= Cardinality(D)
  BY FS_Subset, FS_CardinalityType
<1>1. Upto(0)
  <2>. DEFINE g == [s \in SUBSET D |-> 0]
  <2>1. g \in [SUBSET D -> Nat]
    OBVIOUS
  <2>2. ASSUME NEW s \in SUBSET D, Cardinality(s) <= 0 PROVE g[s] = Added(w, g, s)
    <3>1. s = {}
      BY <1>0, <2>2, FS_EmptySet
    <3>. QED  BY <3>1 DEF Added
  <2>. HIDE DEF g
  <2>. QED  BY <2>1, <2>2
<1>2. ASSUME NEW n \in Nat, Upto(n) PROVE Upto(n + 1)
  <2>1. PICK g \in [SUBSET D -> Nat] : \A s \in SUBSET D : Cardinality(s) <= n => g[s] = Added(w, g, s)
    BY <1>2
  <2>. DEFINE h == [s \in SUBSET D |-> IF Cardinality(s) <= n THEN g[s] ELSE Added(w, g, s)]
  <2>2. \A s \in SUBSET D : s # {} => /\ Pick(s) \in s /\ w[Pick(s)] \in Nat /\ s \ {Pick(s)} \in SUBSET D
                                      /\ Cardinality(s \ {Pick(s)}) = Cardinality(s) - 1
    BY <1>0, PickIn, Smaller
  <2>3. h \in [SUBSET D -> Nat]
    <3>1. ASSUME NEW s \in SUBSET D PROVE Added(w, g, s) \in Nat
      <4>1. CASE s = {}
        BY <4>1 DEF Added
      <4>2. CASE s # {}
        <5>1. w[Pick(s)] \in Nat /\ g[s \ {Pick(s)}] \in Nat
          BY <2>2, <4>2
        <5>. QED  BY <4>2, <5>1 DEF Added
      <4>. QED  BY <4>1, <4>2
    <3>. QED  BY <3>1
  <2>4. ASSUME NEW s \in SUBSET D, Cardinality(s) <= n + 1 PROVE h[s] = Added(w, h, s)
    <3>1. h[s] = Added(w, g, s)
      BY <2>1
    <3>2. CASE s = {}
      BY <3>1, <3>2 DEF Added
    <3>3. CASE s # {}
      <4>1. Cardinality(s \ {Pick(s)}) <= n /\ s \ {Pick(s)} \in SUBSET D
        BY <1>0, <2>2, <2>4, <3>3
      <4>2. h[s \ {Pick(s)}] = g[s \ {Pick(s)}]
        BY <4>1
      <4>. QED  BY <3>1, <3>3, <4>2 DEF Added
    <3>. QED  BY <3>2, <3>3
  <2>. HIDE DEF h
  <2>. QED  BY <2>3, <2>4
<1>. HIDE DEF Upto
<1>3. T = {}
  <2>1. SUFFICES ASSUME T # {} PROVE FALSE
    OBVIOUS
  <2>2. PICK n \in T : \A m \in T : n <= m
    BY <2>1, LeastNatural
  <2>3. n # 0
    BY <1>1, <2>2
  <2>4. n - 1 \in Nat /\ Upto(n - 1)
    BY <2>2, <2>3
  <2>. QED  BY <1>2, <2>2, <2>4
<1>4. Upto(Cardinality(D))
  <2>1. Cardinality(D) \in Nat
    BY FS_CardinalityType
  <2>. QED  BY <1>3, <2>1
<1>5. PICK g \in [SUBSET D -> Nat] :
        \A s \in SUBSET D : Cardinality(s) <= Cardinality(D) => g[s] = Added(w, g, s)
  BY <1>4 DEF Upto
<1>6. IsFold(g, w, D)
  BY <1>0, <1>5 DEF IsFold, Added
<1>7. \A s \in SUBSET D : g[s] \in Nat
  OBVIOUS
<1>. QED  BY <1>6, <1>7

LEMMA FoldStep ==
  ASSUME NEW g, NEW w, NEW D, IsFold(g, w, D)
  PROVE  DOMAIN g = SUBSET D /\ \A s \in SUBSET D : g[s] = Added(w, g, s)
<1>1. g = [s \in SUBSET D |-> Added(w, g, s)]
  BY Zenon DEF IsFold, Added
<1>. QED  BY <1>1, Zenon

\* Two folds agree where what they add up does.
LEMMA FoldUnique ==
  ASSUME NEW D, NEW E, NEW v, NEW w, NEW g, NEW h, IsFold(g, v, D), IsFold(h, w, E),
         NEW S, IsFiniteSet(S), S \subseteq D, S \subseteq E, \A x \in S : v[x] = w[x]
  PROVE  g[S] = h[S]
<1>. DEFINE T == {n \in Nat : \E s \in SUBSET S : Cardinality(s) = n /\ g[s] # h[s]}
<1>0. \A s \in SUBSET S : IsFiniteSet(s) /\ Cardinality(s) \in Nat
  BY FS_Subset, FS_CardinalityType
<1>1. T = {}
  <2>1. SUFFICES ASSUME T # {} PROVE FALSE
    OBVIOUS
  <2>2. PICK n \in T : \A m \in T : n <= m
    BY <2>1, LeastNatural
  <2>3. PICK s \in SUBSET S : Cardinality(s) = n /\ g[s] # h[s]
    BY <2>2
  <2>4. g[s] = Added(v, g, s) /\ h[s] = Added(w, h, s)
    <3>1. s \in SUBSET D /\ s \in SUBSET E
      OBVIOUS
    <3>. QED  BY <3>1, FoldStep
  <2>5. s # {}
    BY <2>3, <2>4 DEF Added
  <2>6. Pick(s) \in s /\ v[Pick(s)] = w[Pick(s)]
    BY <2>5, PickIn
  <2>7. Cardinality(s \ {Pick(s)}) = n - 1 /\ n - 1 \in Nat
    BY <1>0, <2>3, <2>6, Smaller
  <2>8. g[s \ {Pick(s)}] = h[s \ {Pick(s)}]
    <3>1. n - 1 \notin T
      BY <2>2, <2>7
    <3>. QED  BY <2>7, <3>1
  <2>. QED  BY <2>3, <2>4, <2>5, <2>6, <2>8 DEF Added
<1>. QED  BY <1>0, <1>1

LEMMA TotalIs ==
  ASSUME NEW D, IsFiniteSet(D), NEW w, NEW g, IsFold(g, w, D)
  PROVE  Total(w, D) = g[D]
<1>1. IsFold(CHOOSE h : IsFold(h, w, D), w, D)
  BY Zenon
<1>. DEFINE f == CHOOSE h : IsFold(h, w, D)
<1>2. f[D] = g[D]
  <2>1. IsFold(f, w, D)
    BY <1>1
  <2>. HIDE DEF f
  <2>. QED  BY <2>1, FoldUnique
<1>. QED  BY <1>2 DEF Total

\* What the rest needs of sums.
LEMMA TotalFacts ==
  ASSUME NEW D, IsFiniteSet(D), NEW w, \A x \in D : w[x] \in Nat
  PROVE  Total(w, D) \in Nat /\ (D = {} => Total(w, D) = 0)
<1>1. PICK g : IsFold(g, w, D) /\ \A s \in SUBSET D : g[s] \in Nat
  BY FoldExists
<1>2. Total(w, D) = g[D] /\ D \in SUBSET D
  BY <1>1, TotalIs
<1>3. D = {} => g[D] = 0
  BY <1>1, FoldStep DEF Added
<1>. QED  BY <1>1, <1>2, <1>3

\* Sums of equal things are equal.
LEMMA TotalSame ==
  ASSUME NEW S, IsFiniteSet(S), NEW v, NEW w, \A x \in S : v[x] \in Nat /\ v[x] = w[x]
  PROVE  Total(v, S) = Total(w, S)
<1>1. PICK g : IsFold(g, v, S) /\ \A s \in SUBSET S : g[s] \in Nat
  BY FoldExists
<1>2. PICK h : IsFold(h, w, S) /\ \A s \in SUBSET S : h[s] \in Nat
  <2>1. \A x \in S : w[x] \in Nat
    OBVIOUS
  <2>. QED  BY <2>1, FoldExists
<1>3. g[S] = h[S]
  BY <1>1, <1>2, FoldUnique
<1>. QED  BY <1>1, <1>2, <1>3, TotalIs

\* Any element may be taken out first.
LEMMA FoldRemove ==
  ASSUME NEW D, IsFiniteSet(D), NEW w, \A x \in D : w[x] \in Nat,
         NEW g, IsFold(g, w, D), \A s \in SUBSET D : g[s] \in Nat,
         NEW S \in SUBSET D, NEW a \in S
  PROVE  g[S] = w[a] + g[S \ {a}]
<1>. DEFINE Holds(s) == \A x \in s : g[s] = w[x] + g[s \ {x}]
            T == {n \in Nat : \E s \in SUBSET D : Cardinality(s) = n /\ ~ Holds(s)}
<1>0. \A s \in SUBSET D : IsFiniteSet(s) /\ Cardinality(s) \in Nat
  BY FS_Subset, FS_CardinalityType
<1>1. \A s \in SUBSET D : g[s] = Added(w, g, s) /\ g[s] \in Nat
  <2>1. ASSUME NEW s \in SUBSET D PROVE g[s] = Added(w, g, s)
    BY FoldStep
  <2>. QED  BY <2>1
<1>2. T = {}
  <2>1. SUFFICES ASSUME T # {} PROVE FALSE
    OBVIOUS
  <2>2. PICK n \in T : \A m \in T : n <= m
    <3>. HIDE DEF Holds
    <3>. QED  BY <2>1, LeastNatural
  <2>3. PICK s \in SUBSET D : Cardinality(s) = n /\ ~ Holds(s)
    BY <2>2
  <2>4. PICK x \in s : g[s] # w[x] + g[s \ {x}]
    BY <2>3
  <2>. DEFINE p == Pick(s)
  <2>5. p \in s /\ g[s] = w[p] + g[s \ {p}]
    BY <1>1, <2>4, PickIn DEF Added
  <2>6. p # x
    BY <2>4, <2>5
  <2>7. Cardinality(s \ {p}) = n - 1 /\ n - 1 \in Nat
    BY <1>0, <2>3, <2>5, Smaller
  <2>8. Cardinality(s \ {x}) = n - 1
    BY <1>0, <2>3, <2>4, Smaller
  <2>9. Holds(s \ {p}) /\ Holds(s \ {x})
    <3>1. n - 1 \notin T
      BY <2>2, <2>7
    <3>2. s \ {p} \in SUBSET D /\ s \ {x} \in SUBSET D
      OBVIOUS
    <3>. HIDE DEF Holds, p
    <3>. QED  BY <2>7, <2>8, <3>1, <3>2
  <2>10. g[s \ {p}] = w[x] + g[(s \ {p}) \ {x}]
    BY <2>6, <2>9
  <2>11. g[s \ {x}] = w[p] + g[(s \ {x}) \ {p}]
    BY <2>5, <2>6, <2>9
  <2>12. (s \ {p}) \ {x} = (s \ {x}) \ {p}
    OBVIOUS
  <2>13. w[p] \in Nat /\ w[x] \in Nat /\ g[(s \ {p}) \ {x}] \in Nat
    BY <1>1, <2>5
  <2>14. g[s] = w[p] + (w[x] + g[(s \ {p}) \ {x}])
    BY <2>5, <2>10
  <2>15. g[s \ {x}] = w[p] + g[(s \ {p}) \ {x}]
    BY <2>11, <2>12
  <2>16. g[s] = w[x] + g[s \ {x}]
    <3>. HIDE DEF p
    <3>. QED  BY <2>13, <2>14, <2>15
  <2>. QED  BY <2>4, <2>16
<1>. QED  BY <1>0, <1>2

LEMMA TotalRemove ==
  ASSUME NEW S, IsFiniteSet(S), NEW w, \A x \in S : w[x] \in Nat, NEW a \in S
  PROVE  Total(w, S) = w[a] + Total(w, S \ {a})
<1>1. PICK g : IsFold(g, w, S) /\ \A s \in SUBSET S : g[s] \in Nat
  BY FoldExists
<1>2. Total(w, S) = g[S]
  BY <1>1, TotalIs
<1>3. IsFiniteSet(S \ {a}) /\ \A x \in S \ {a} : w[x] \in Nat
  BY FS_RemoveElement
<1>4. PICK h : IsFold(h, w, S \ {a}) /\ \A s \in SUBSET (S \ {a}) : h[s] \in Nat
  BY <1>3, FoldExists
<1>5. Total(w, S \ {a}) = h[S \ {a}]
  BY <1>3, <1>4, TotalIs
<1>6. g[S \ {a}] = h[S \ {a}]
  BY <1>1, <1>3, <1>4, FoldUnique
<1>7. g[S] = w[a] + g[S \ {a}]
  <2>1. S \in SUBSET S
    OBVIOUS
  <2>2. IsFold(g, w, S) /\ \A s \in SUBSET S : g[s] \in Nat
    BY <1>1
  <2>. QED  BY <2>1, <2>2, FoldRemove
<1>. QED  BY <1>2, <1>5, <1>6, <1>7

\* An element is added, and a part adds up to no more than the whole.
LEMMA TotalAdd ==
  ASSUME NEW S, IsFiniteSet(S), NEW w, NEW a, a \notin S, \A x \in S \cup {a} : w[x] \in Nat
  PROVE  Total(w, S \cup {a}) = w[a] + Total(w, S)
<1>1. IsFiniteSet(S \cup {a}) /\ a \in S \cup {a} /\ (S \cup {a}) \ {a} = S
  BY FS_AddElement
<1>. QED  BY <1>1, TotalRemove

LEMMA TotalLess ==
  ASSUME NEW S, IsFiniteSet(S), NEW w, \A x \in S : w[x] \in Nat, NEW R \in SUBSET S
  PROVE  Total(w, R) <= Total(w, S)
<1>. DEFINE T == {n \in Nat : \E s \in SUBSET S :
                    Cardinality(s) = n /\ R \subseteq s /\ ~ (Total(w, R) <= Total(w, s))}
<1>0. \A s \in SUBSET S : /\ IsFiniteSet(s) /\ Cardinality(s) \in Nat /\ Total(w, s) \in Nat
                         /\ \A x \in s : w[x] \in Nat
  <2>1. \A s \in SUBSET S : IsFiniteSet(s) /\ Cardinality(s) \in Nat
    BY FS_Subset, FS_CardinalityType
  <2>. QED  BY <2>1, TotalFacts
<1>1. T = {}
  <2>1. SUFFICES ASSUME T # {} PROVE FALSE
    OBVIOUS
  <2>2. PICK n \in T : \A m \in T : n <= m
    BY <2>1, LeastNatural
  <2>3. PICK s \in SUBSET S : Cardinality(s) = n /\ R \subseteq s /\ ~ (Total(w, R) <= Total(w, s))
    BY <2>2
  <2>4. s # R
    BY <1>0, <2>3
  <2>5. PICK x \in s : x \notin R
    BY <2>3, <2>4
  <2>6. Cardinality(s \ {x}) = n - 1 /\ n - 1 \in Nat
    BY <1>0, <2>3, <2>5, Smaller
  <2>7. Total(w, R) <= Total(w, s \ {x})
    <3>1. n - 1 \notin T
      BY <2>2, <2>6
    <3>2. s \ {x} \in SUBSET S /\ R \subseteq s \ {x}
      BY <2>3, <2>5
    <3>. QED  BY <2>6, <3>1, <3>2
  <2>8. Total(w, s) = w[x] + Total(w, s \ {x})
    BY <1>0, TotalRemove
  <2>9. w[x] \in Nat /\ Total(w, s \ {x}) \in Nat /\ Total(w, R) \in Nat
    BY <1>0
  <2>. QED  BY <2>3, <2>7, <2>8, <2>9
<1>. QED  BY <1>0, <1>1

\* One of the terms changes; and terms that are all 0.
LEMMA TotalChange ==
  ASSUME NEW S, IsFiniteSet(S), NEW v, NEW w, \A x \in S : v[x] \in Nat /\ w[x] \in Nat,
         NEW a \in S, \A x \in S \ {a} : v[x] = w[x]
  PROVE  Total(v, S) + w[a] = Total(w, S) + v[a]
<1>1. IsFiniteSet(S \ {a}) /\ \A x \in S \ {a} : v[x] \in Nat /\ v[x] = w[x]
  BY FS_RemoveElement
<1>2. Total(v, S \ {a}) = Total(w, S \ {a}) /\ Total(v, S \ {a}) \in Nat
  BY <1>1, TotalSame, TotalFacts
<1>3. Total(v, S) = v[a] + Total(v, S \ {a}) /\ Total(w, S) = w[a] + Total(w, S \ {a})
  BY TotalRemove
<1>. QED  BY <1>2, <1>3

LEMMA TotalZero ==
  ASSUME NEW S, IsFiniteSet(S), NEW w, \A x \in S : w[x] = 0
  PROVE  Total(w, S) = 0
<1>1. PICK g : IsFold(g, w, S) /\ \A s \in SUBSET S : g[s] \in Nat
  BY FoldExists
<1>. DEFINE h == [s \in SUBSET S |-> 0]
<1>2. IsFold(h, w, S)
  <2>1. \A s \in SUBSET S : s # {} => Pick(s) \in s /\ s \ {Pick(s)} \in SUBSET S
    BY PickIn
  <2>2. \A s \in SUBSET S : h[s] = IF s = {} THEN 0 ELSE w[Pick(s)] + h[s \ {Pick(s)}]
    BY <2>1
  <2>. HIDE DEF h
  <2>3. h = [s \in SUBSET S |-> h[s]]
    BY DEF h
  <2>. QED  BY <2>2, <2>3 DEF IsFold
<1>3. Total(w, S) = h[S]
  <2>. HIDE DEF h
  <2>. QED  BY <1>2, TotalIs
<1>. QED  BY <1>3

-----------------------------------------------------------------------------
(* What a consumer of the events adds up.                                    *)

Deltas(s)    == [i \in DOMAIN s |-> s[i].delta]
Sent(s)      == Total(Deltas(s), DOMAIN s)
WireEvents   == [event : {"none", "upload_progress", "batch_committed"}, bytes : Nat, files : Nat,
                 delta : Nat]

LEMMA SentTypes ==
  ASSUME NEW s \in Seq(WireEvents)
  PROVE  /\ IsFiniteSet(DOMAIN s) /\ Sent(s) \in Nat
         /\ \A i \in DOMAIN s : Deltas(s)[i] \in Nat /\ Deltas(s)[i] = s[i].delta
<1>1. DOMAIN s = 1..Len(s) /\ Len(s) \in Nat
  OBVIOUS
<1>2. IsFiniteSet(DOMAIN s)
  BY <1>1, FS_Interval
<1>3. ASSUME NEW i \in DOMAIN s PROVE Deltas(s)[i] \in Nat /\ Deltas(s)[i] = s[i].delta
  <2>1. s[i] \in WireEvents
    OBVIOUS
  <2>2. s[i].delta \in Nat
    BY <2>1 DEF WireEvents
  <2>. QED  BY <2>2 DEF Deltas
<1>. QED  BY <1>2, <1>3, TotalFacts DEF Sent

LEMMA SentAppend ==
  ASSUME NEW s \in Seq(WireEvents), NEW e \in WireEvents
  PROVE  Append(s, e) \in Seq(WireEvents) /\ Sent(Append(s, e)) = Sent(s) + e.delta
<1>. DEFINE t == Append(s, e)
            n == Len(s) + 1
<1>1. /\ t \in Seq(WireEvents) /\ n \in DOMAIN t /\ t[n] = e
      /\ DOMAIN s = DOMAIN t \ {n} /\ \A i \in DOMAIN s : t[i] = s[i]
  <2>1. Len(s) \in Nat /\ DOMAIN s = 1..Len(s)
    OBVIOUS
  <2>2. t \in Seq(WireEvents) /\ Len(t) = n /\ DOMAIN t = 1..n
    OBVIOUS
  <2>3. t[n] = e /\ \A i \in 1..Len(s) : t[i] = s[i]
    OBVIOUS
  <2>4. 1..Len(s) = (1..n) \ {n} /\ n \in 1..n
    BY <2>1
  <2>. HIDE DEF t, n
  <2>. QED  BY <2>1, <2>2, <2>3, <2>4
<1>. HIDE DEF t, n
<1>2. /\ IsFiniteSet(DOMAIN s) /\ IsFiniteSet(DOMAIN t) /\ Sent(s) \in Nat
      /\ \A i \in DOMAIN s : Deltas(s)[i] \in Nat /\ Deltas(s)[i] = s[i].delta
      /\ \A i \in DOMAIN t : Deltas(t)[i] \in Nat /\ Deltas(t)[i] = t[i].delta
  BY <1>1, SentTypes
<1>3. Sent(t) = Deltas(t)[n] + Total(Deltas(t), DOMAIN s)
  <2>1. \A i \in DOMAIN t : Deltas(t)[i] \in Nat
    BY <1>2
  <2>2. Total(Deltas(t), DOMAIN t) = Deltas(t)[n] + Total(Deltas(t), DOMAIN t \ {n})
    BY <1>1, <1>2, <2>1, TotalRemove
  <2>. QED  BY <1>1, <2>2 DEF Sent
<1>4. Total(Deltas(t), DOMAIN s) = Sent(s)
  <2>1. \A i \in DOMAIN s : Deltas(s)[i] = Deltas(t)[i]
    BY <1>1, <1>2
  <2>. QED  BY <1>2, <2>1, TotalSame DEF Sent
<1>5. Sent(t) = Sent(s) + e.delta
  BY <1>1, <1>2, <1>3, <1>4 DEF WireEvents
<1>. QED  BY <1>1, <1>5 DEF t

LEMMA SentNothing == Sent(<<>>) = 0
<1>1. DOMAIN <<>> = {} /\ IsFiniteSet({})
  BY FS_EmptySet
<1>. QED  BY <1>1, TotalZero DEF Sent

LEMMA SumIs == \A w, D : Wire!Sum(w, D) = Total(w, D)
BY DEF Wire!Sum, Wire!FoldSet, Wire!MapThenFoldSet, Total, IsFold, Pick

LEMMA DeliveredIs == ASSUME events \in Seq(WireEvents) PROVE Wire!Delivered = Sent(events)
<1>. DEFINE D == DOMAIN events
            Is(g) == g = [s \in SUBSET D |-> IF s = {} THEN 0
                                             ELSE events[Pick(s)].delta + g[s \ {Pick(s)}]]
            f == CHOOSE g : Is(g)
<1>1. Wire!Delivered = f[D]
  BY DEF Wire!Delivered, Wire!FoldSeq, Wire!FoldFunction, Wire!FoldFunctionOnSet,
         Wire!MapThenFoldSet, Pick
<1>2. IsFiniteSet(D) /\ \A i \in D : Deltas(events)[i] \in Nat /\ Deltas(events)[i] = events[i].delta
  BY SentTypes
<1>. HIDE DEF D
<1>3. \A s \in SUBSET D : s # {} => events[Pick(s)].delta = Deltas(events)[Pick(s)]
  BY <1>2, PickIn
<1>4. ASSUME NEW g PROVE Is(g) <=> IsFold(g, Deltas(events), D)
  <2>1. [s \in SUBSET D |-> IF s = {} THEN 0 ELSE events[Pick(s)].delta + g[s \ {Pick(s)}]]
        = [s \in SUBSET D |-> IF s = {} THEN 0 ELSE Deltas(events)[Pick(s)] + g[s \ {Pick(s)}]]
    BY <1>3
  <2>. QED  BY <2>1, Zenon DEF IsFold
<1>. HIDE DEF Is
<1>5. \E g : Is(g)
  BY <1>2, <1>4, FoldExists
<1>6. Is(f)
  BY <1>5, Zenon
<1>7. IsFold(f, Deltas(events), D)
  BY <1>4, <1>6
<1>. HIDE DEF f
<1>8. f[D] = Total(Deltas(events), D)
  BY <1>2, <1>7, TotalIs
<1>. QED  BY <1>1, <1>8 DEF Sent, D

-----------------------------------------------------------------------------
(* Progress events                                                          *)

Counted  == {f \in Files : job[f] \in {"emit", "done"}}
AboutTo  == [f \in Files |-> held[f].delta]

WireTypes ==
  /\ holding \in Throttles
  /\ job \in [Files -> {"upload", "recorded", "emit", "done"}]
  /\ held \in [Files -> WireEvents] /\ recorded \in SUBSET Files
  /\ bytes \in Nat /\ files \in Nat /\ reported \in Nat
  /\ main \in {"wait", "flush", "commit", "done"} /\ batch \in Nat
  /\ flush \in WireEvents /\ events \in Seq(WireEvents)

\* What is counted is what has moved, an event that waits is that of a worker or of the flush.
WireCounts ==
  /\ recorded = {f \in Files : job[f] # "upload"}
  /\ bytes = Total(Moved, Counted)
  /\ \A f \in Files : job[f] # "emit" => held[f].delta = 0
  /\ main # "flush" => flush.delta = 0
  /\ main = "done" => \A f \in Files : job[f] = "done"

\* Every byte reported was announced, or is about to be, once.
WireSent ==
  /\ reported <= bytes
  /\ Sent(events) + flush.delta + Total(AboutTo, Files) = reported
  /\ ~holding => reported = bytes

WireInv == WireTypes /\ WireCounts /\ WireSent

LEMMA WireSets ==
  /\ IsFiniteSet(Files) /\ NumBatches \in Nat /\ \A f \in Files : Moved[f] \in Nat
  /\ \A S \in SUBSET Files : IsFiniteSet(S)
<1>1. IsFiniteSet(Files)
  BY WireOK DEF Wire!ConstantsOK, Wire!IsFiniteSet, IsFiniteSet
<1>. QED  BY <1>1, WireOK, FS_Subset DEF Wire!ConstantsOK

LEMMA WireInit == Wire!Init => WireInv
<1>. SUFFICES ASSUME Wire!Init PROVE WireInv
  OBVIOUS
<1>. USE DEF Wire!Init
<1>1. Wire!NoEvent \in WireEvents /\ Wire!NoEvent.delta = 0
  BY DEF Wire!NoEvent, WireEvents
<1>2. WireTypes
  BY <1>1 DEF WireTypes
<1>3. Total(Moved, Counted) = 0
  <2>1. Counted = {}
    BY DEF Counted
  <2>. QED  BY <2>1, FS_EmptySet, TotalFacts
<1>4. WireCounts
  BY <1>1, <1>3 DEF WireCounts
<1>5. Total(AboutTo, Files) = 0
  <2>1. \A f \in Files : AboutTo[f] = 0
    BY <1>1 DEF AboutTo
  <2>. QED  BY <2>1, WireSets, TotalZero
<1>6. WireSent
  BY <1>1, <1>5, SentNothing DEF WireSent
<1>. QED  BY <1>2, <1>4, <1>6 DEF WireInv

\* What the rest needs of the sums as they are.
LEMMA WireSums ==
  ASSUME WireInv
  PROVE  /\ Sent(events) \in Nat /\ Total(AboutTo, Files) \in Nat /\ flush.delta \in Nat
         /\ \A f \in Files : AboutTo[f] \in Nat /\ AboutTo[f] = held[f].delta
<1>1. \A f \in Files : AboutTo[f] \in Nat /\ AboutTo[f] = held[f].delta
  BY DEF WireInv, WireTypes, AboutTo, WireEvents
<1>2. Sent(events) \in Nat /\ flush.delta \in Nat
  BY SentTypes DEF WireInv, WireTypes, WireEvents
<1>3. Total(AboutTo, Files) \in Nat
  BY <1>1, WireSets, TotalFacts
<1>. QED  BY <1>1, <1>2, <1>3

LEMMA WireRecord ==
  ASSUME WireInv, NEW f \in Files, Wire!Record(f)
  PROVE  WireInv'
<1>. USE DEF WireInv, WireTypes, Wire!Record, Wire!wire
<1>1. WireTypes'
  OBVIOUS
<1>2. Counted' = Counted
  BY DEF Counted
<1>3. AboutTo' = AboutTo
  BY DEF AboutTo
<1>4. WireCounts'
  BY <1>2 DEF WireCounts
<1>5. WireSent'
  BY <1>3 DEF WireSent
<1>. QED  BY <1>1, <1>4, <1>5

LEMMA WireCount ==
  ASSUME WireInv, NEW f \in Files, Wire!Count(f)
  PROVE  WireInv'
<1>. USE DEF WireInv
<1>1. /\ job[f] = "recorded" /\ bytes' = bytes + Moved[f] /\ files' = files + 1
      /\ UNCHANGED <<holding, recorded, main, batch, flush, events>>
      /\ bytes \in Nat /\ reported \in Nat /\ files \in Nat /\ Moved[f] \in Nat
  BY WireSets DEF Wire!Count, WireTypes
<1>2. bytes' = Total(Moved, Counted')
  <2>1. Counted' = Counted \cup {f} /\ f \notin Counted
    BY <1>1 DEF Counted, Wire!Count, WireTypes
  <2>2. Counted \in SUBSET Files
    BY DEF Counted
  <2>3. Total(Moved, Counted \cup {f}) = Moved[f] + Total(Moved, Counted)
    BY <2>1, <2>2, WireSets, TotalAdd
  <2>4. Total(Moved, Counted) \in Nat
    BY DEF WireCounts, WireTypes
  <2>. QED  BY <1>1, <2>1, <2>3, <2>4 DEF WireCounts
<1>3. reported <= bytes /\ (~holding => reported = bytes)
  BY DEF WireSent
<1>4. CASE job' = [job EXCEPT ![f] = "done"] /\ UNCHANGED <<held, reported>> /\ holding
  <2>1. WireTypes'
    <3>1. job' \in [Files -> {"upload", "recorded", "emit", "done"}]
      BY <1>4 DEF WireTypes
    <3>2. UNCHANGED <<holding, held, reported>> /\ bytes' \in Nat /\ files' \in Nat
      BY <1>1, <1>4
    <3>. QED  BY <1>1, <3>1, <3>2 DEF WireTypes
  <2>2. AboutTo' = AboutTo
    BY <1>4 DEF AboutTo
  <2>3. WireCounts'
    BY <1>1, <1>2, <1>4 DEF WireCounts, WireTypes
  <2>4. WireSent'
    BY <1>1, <1>3, <1>4, <2>2 DEF WireSent
  <2>. QED  BY <2>1, <2>3, <2>4
<1>5. CASE /\ job' = [job EXCEPT ![f] = "emit"]
           /\ held' = [held EXCEPT ![f] = Wire!Progress(bytes', files', bytes' - reported)]
           /\ reported' = bytes'
  <2>. DEFINE e == Wire!Progress(bytes', files', bytes' - reported)
  <2>1. bytes' - reported \in Nat /\ bytes' \in Nat /\ files' \in Nat
    BY <1>1, <1>3
  <2>2. e \in WireEvents /\ e.delta = bytes' - reported
    BY <2>1 DEF WireEvents, Wire!Progress
  <2>. HIDE DEF e
  <2>3. held' = [held EXCEPT ![f] = e]
    BY <1>5 DEF e
  <2>4. WireTypes'
    BY <1>1, <1>5, <2>1, <2>2, <2>3 DEF WireTypes
  <2>5. WireCounts'
    BY <1>1, <1>2, <1>5, <2>3 DEF WireCounts, WireTypes
  <2>6. Total(AboutTo', Files) = Total(AboutTo, Files) + (bytes' - reported)
    <3>1. /\ \A g \in Files : AboutTo[g] \in Nat /\ AboutTo'[g] \in Nat
          /\ \A g \in Files \ {f} : AboutTo'[g] = AboutTo[g]
          /\ AboutTo[f] = 0 /\ AboutTo'[f] = bytes' - reported
      <4>1. AboutTo[f] = 0
        BY <1>1, WireSums DEF WireCounts
      <4>2. AboutTo'[f] = bytes' - reported
        BY <2>2, <2>3 DEF AboutTo, WireTypes
      <4>3. \A g \in Files \ {f} : AboutTo'[g] = AboutTo[g]
        BY <2>3 DEF AboutTo, WireTypes
      <4>. QED  BY <2>1, <4>1, <4>2, <4>3, WireSums
    <3>2. Total(AboutTo', Files) + AboutTo[f] = Total(AboutTo, Files) + AboutTo'[f]
      BY <3>1, WireSets, TotalChange
    <3>3. Total(AboutTo', Files) \in Nat
      BY <3>1, WireSets, TotalFacts
    <3>. QED  BY <2>1, <3>1, <3>2, <3>3, WireSums
  <2>7. WireSent'
    BY <1>1, <1>5, <2>1, <2>6, WireSums DEF WireSent
  <2>. QED  BY <2>4, <2>5, <2>7
<1>. QED  BY <1>4, <1>5 DEF Wire!Count

LEMMA WireEmit ==
  ASSUME WireInv, NEW f \in Files, Wire!Emit(f)
  PROVE  WireInv'
<1>. USE DEF WireInv
<1>1. /\ job[f] = "emit" /\ job' = [job EXCEPT ![f] = "done"]
      /\ held' = [held EXCEPT ![f] = Wire!NoEvent] /\ events' = Append(events, held[f])
      /\ UNCHANGED <<holding, recorded, bytes, files, reported, main, batch, flush>>
  BY DEF Wire!Emit, Wire!wire
<1>2. Wire!NoEvent \in WireEvents /\ Wire!NoEvent.delta = 0
  BY DEF Wire!NoEvent, WireEvents
<1>3. held[f] \in WireEvents /\ held[f].delta \in Nat
  BY DEF WireTypes, WireEvents
<1>4. events' \in Seq(WireEvents) /\ Sent(events') = Sent(events) + held[f].delta
  BY <1>1, <1>3, SentAppend DEF WireTypes
<1>5. WireTypes'
  BY <1>1, <1>2, <1>4 DEF WireTypes
<1>6. WireCounts'
  <2>1. Counted' = Counted
    BY <1>1 DEF Counted, WireTypes
  <2>. QED  BY <1>1, <1>2, <2>1 DEF WireCounts, WireTypes
<1>7. Total(AboutTo', Files) + held[f].delta = Total(AboutTo, Files) /\ Total(AboutTo', Files) \in Nat
  <2>1. AboutTo'[f] = 0 /\ \A g \in Files \ {f} : AboutTo'[g] = AboutTo[g]
    BY <1>1, <1>2 DEF AboutTo, WireTypes
  <2>2. \A g \in Files : AboutTo[g] \in Nat /\ AboutTo'[g] \in Nat
    BY <2>1, WireSums
  <2>3. Total(AboutTo', Files) + AboutTo[f] = Total(AboutTo, Files) + AboutTo'[f]
    BY <2>1, <2>2, WireSets, TotalChange
  <2>4. Total(AboutTo', Files) \in Nat
    BY <2>2, WireSets, TotalFacts
  <2>. QED  BY <2>1, <2>3, <2>4, WireSums
<1>8. WireSent'
  BY <1>1, <1>3, <1>4, <1>7, WireSums DEF WireSent
<1>. QED  BY <1>5, <1>6, <1>8

\* A step of the committing thread.
LEMMA WireMain ==
  ASSUME WireInv, Wire!Flush \/ Wire!EmitFlush \/ Wire!ReportBatch \/ Wire!Finish
  PROVE  WireInv'
<1>. USE DEF WireInv
<1>0. /\ UNCHANGED <<holding, job, held, recorded, bytes, files>>
      /\ Counted' = Counted /\ AboutTo' = AboutTo
  BY DEF Wire!Flush, Wire!EmitFlush, Wire!ReportBatch, Wire!Finish, Wire!wire, Counted, AboutTo
<1>1. Wire!NoEvent \in WireEvents /\ Wire!NoEvent.delta = 0
  BY DEF Wire!NoEvent, WireEvents
<1>2. CASE Wire!Flush
  <2>1. CASE /\ bytes > reported /\ flush' = Wire!Progress(bytes, files, bytes - reported)
             /\ reported' = bytes /\ main' = "flush"
    <3>1. bytes - reported \in Nat /\ bytes \in Nat /\ files \in Nat /\ reported \in Nat
      BY <2>1 DEF WireTypes
    <3>2. flush' \in WireEvents /\ flush'.delta = bytes - reported
      BY <2>1, <3>1 DEF WireEvents, Wire!Progress
    <3>3. WireTypes'
      BY <1>0, <1>2, <2>1, <3>1, <3>2 DEF WireTypes, Wire!Flush
    <3>4. WireCounts' /\ flush.delta = 0
      BY <1>0, <1>2, <2>1 DEF WireCounts, Wire!Flush
    <3>5. WireSent'
      BY <1>0, <1>2, <2>1, <3>1, <3>2, <3>4, WireSums DEF WireSent, Wire!Flush
    <3>. QED  BY <3>3, <3>4, <3>5
  <2>2. CASE UNCHANGED <<flush, reported>> /\ main' = "commit"
    BY <1>0, <1>2, <2>2 DEF WireTypes, WireCounts, WireSent, Wire!Flush
  <2>. QED  BY <1>2, <2>1, <2>2 DEF Wire!Flush
<1>3. CASE Wire!EmitFlush
  <2>1. /\ main = "flush" /\ main' = "commit" /\ flush' = Wire!NoEvent
        /\ events' = Append(events, flush) /\ UNCHANGED <<reported, batch>>
    BY <1>3 DEF Wire!EmitFlush, Wire!wire
  <2>2. events' \in Seq(WireEvents) /\ Sent(events') = Sent(events) + flush.delta
    BY <2>1, SentAppend DEF WireTypes
  <2>3. WireTypes'
    BY <1>0, <1>1, <2>1, <2>2 DEF WireTypes
  <2>4. WireCounts'
    BY <1>0, <1>1, <2>1 DEF WireCounts
  <2>5. WireSent'
    BY <1>0, <1>1, <2>1, <2>2, WireSums DEF WireSent
  <2>. QED  BY <2>3, <2>4, <2>5
<1>4. CASE Wire!ReportBatch
  <2>. DEFINE e == Wire!Committed(bytes, files)
  <2>1. /\ main = "commit" /\ main' = "wait" /\ batch' = batch + 1
        /\ events' = Append(events, e) /\ UNCHANGED <<flush, reported>>
    BY <1>4 DEF Wire!ReportBatch, Wire!wire
  <2>2. e \in WireEvents /\ e.delta = 0
    BY DEF WireEvents, Wire!Committed, WireTypes
  <2>. HIDE DEF e
  <2>3. events' \in Seq(WireEvents) /\ Sent(events') = Sent(events)
    BY <2>1, <2>2, SentAppend, WireSums DEF WireTypes
  <2>4. WireTypes'
    BY <1>0, <2>1, <2>3 DEF WireTypes
  <2>5. WireCounts'
    BY <1>0, <2>1 DEF WireCounts
  <2>6. WireSent'
    BY <1>0, <2>1, <2>3 DEF WireSent
  <2>. QED  BY <2>4, <2>5, <2>6
<1>5. CASE Wire!Finish
  BY <1>0, <1>5 DEF Wire!Finish, Wire!wire, WireTypes, WireCounts, WireSent
<1>. QED  BY <1>2, <1>3, <1>4, <1>5

THEOREM WireKept == Wire!Spec => []WireInv
<1>1. WireInv /\ [Wire!Next]_Wire!vars => WireInv'
  <2>. SUFFICES ASSUME WireInv, [Wire!Next]_Wire!vars PROVE WireInv'
    OBVIOUS
  <2>1. CASE \E f \in Files : Wire!Worker(f)
    BY <2>1, WireRecord, WireCount, WireEmit DEF Wire!Worker
  <2>2. CASE UNCHANGED Wire!vars
    <3>1. Counted' = Counted /\ AboutTo' = AboutTo
      BY <2>2 DEF Wire!vars, Wire!wire, Counted, AboutTo
    <3>. QED  BY <2>2, <3>1 DEF Wire!vars, Wire!wire, WireInv, WireTypes, WireCounts, WireSent
  <2>. QED  BY <2>1, <2>2, WireMain DEF Wire!Next, Wire!Rest
<1>. QED  BY <1>1, WireInit, PTL DEF Wire!Spec

LEMMA WireAddsUp == WireInv => Wire!DeltasPartition /\ Wire!TotalAnnounced
<1>. SUFFICES ASSUME WireInv PROVE Wire!DeltasPartition /\ Wire!TotalAnnounced
  OBVIOUS
<1>1. Wire!Delivered = Sent(events)
  BY DeliveredIs DEF WireInv, WireTypes
<1>2. Wire!Sum([f \in Files |-> held[f].delta], Files) = Total(AboutTo, Files)
  BY SumIs DEF AboutTo
<1>3. bytes <= Wire!Sum(Moved, recorded)
  <2>1. Counted \in SUBSET recorded /\ recorded \in SUBSET Files
    BY DEF WireInv, WireTypes, WireCounts, Counted
  <2>2. Total(Moved, Counted) <= Total(Moved, recorded)
    BY <2>1, WireSets, TotalLess
  <2>. QED  BY <2>2, SumIs DEF WireInv, WireCounts
<1>4. Wire!DeltasPartition
  BY <1>1, <1>2, <1>3 DEF WireInv, WireSent, Wire!DeltasPartition
<1>5. ASSUME main = "done", ~holding PROVE Wire!Delivered = Wire!Sum(Moved, Files)
  <2>1. Counted = Files
    BY <1>5 DEF WireInv, WireCounts, Counted
  <2>2. Total(AboutTo, Files) = 0 /\ flush.delta = 0
    <3>1. \A f \in Files : AboutTo[f] = 0
      BY <1>5, WireSums DEF WireInv, WireCounts
    <3>2. flush.delta = 0
      BY <1>5 DEF WireInv, WireCounts
    <3>. QED  BY <3>1, <3>2, WireSets, TotalZero
  <2>3. Sent(events) = bytes
    BY <1>5, <2>2, WireSums DEF WireInv, WireSent
  <2>. QED  BY <1>1, <2>1, <2>3, SumIs DEF WireInv, WireCounts
<1>. QED  BY <1>4, <1>5 DEF Wire!TotalAnnounced

\* Progress events, for any files, batches, sizes and order of the workers: no byte is
\* announced twice, and the deltas add up to the total where nothing is held back.
THEOREM EventsAlwaysAddUp == PartsSpec => []EventsAddUp
<1>1. PartsInit => Wire!Init
  BY DEF PartsInit
<1>2. [PartsNext]_allVars => [Wire!Next]_Wire!vars
  BY DEF PartsNext, allVars, wireVars, Wire!vars, Wire!wire
<1>3. WireInv => EventsAddUp
  BY WireAddsUp DEF EventsAddUp
<1>4. PartsSpec => Wire!Spec
  BY <1>1, <1>2, PTL DEF PartsSpec, Wire!Spec
<1>. QED  BY <1>3, <1>4, WireKept, PTL

-----------------------------------------------------------------------------
(* The cut into commits                                                     *)

Ceil == Plan!AtLeastOne(plan_Ceiling)

\* The weight of the files after the a-th up to the b-th.
Span(w, a, b) == Total(w, (a + 1)..b)

\* What may be one commit, with a cap c and a budget u; CommitPlanner's Allowed.
Fit(w, c, u, a, b) == b - a <= c /\ (u = 0 \/ plan_Envelope + Span(w, a, b) <= u)
May(w, c, u, a, b) == b - a <= Ceil /\ (b = a + 1 \/ Fit(w, c, u, a, b))

\* Its reference: the fewest commits for the files after the a-th, for every a.
LeastOf(S) == CHOOSE x \in S : \A y \in S : x <= y
Ends(w, c, u, a) == {b \in (a + 1)..Len(w) : May(w, c, u, a, b)}
CountFrom(f, w, c, u, a) ==
  IF a = Len(w) THEN 0 ELSE 1 + LeastOf({f[b] : b \in Ends(w, c, u, a)})
IsCount(f, w, c, u) == f = [a \in 0..Len(w) |-> CountFrom(f, w, c, u, a)]
Count(w, c, u) == CHOOSE f : IsCount(f, w, c, u)

LEMMA PlanSets ==
  /\ Ceil \in Nat \ {0} /\ plan_MaxFiles \in Nat /\ plan_Envelope \in Nat
  /\ plan_Weights \subseteq Nat /\ plan_Budgets \subseteq Nat /\ plan_Settings \subseteq Nat
BY PlanOK DEF Plan!ConstantsOK, Ceil, Plan!AtLeastOne

LEMMA SpanTypes ==
  ASSUME NEW w \in Seq(Nat), NEW a \in 0..Len(w), NEW b \in 0..Len(w)
  PROVE  /\ Span(w, a, b) \in Nat /\ IsFiniteSet((a + 1)..b)
         /\ \A i \in (a + 1)..b : i \in 1..Len(w) /\ w[i] \in Nat
         /\ a = b => Span(w, a, b) = 0
<1>1. Len(w) \in Nat /\ \A i \in 1..Len(w) : w[i] \in Nat
  OBVIOUS
<1>2. a \in Int /\ b \in Int /\ a + 1 \in Int
  BY <1>1
<1>3. IsFiniteSet((a + 1)..b)
  BY <1>2, FS_Interval
<1>4. \A i \in (a + 1)..b : i \in 1..Len(w) /\ w[i] \in Nat
  BY <1>1
<1>5. a = b => (a + 1)..b = {}
  BY <1>2
<1>. QED  BY <1>3, <1>4, <1>5, TotalFacts DEF Span

\* One file more.
LEMMA SpanNext ==
  ASSUME NEW w \in Seq(Nat), NEW a \in 0..Len(w), NEW b \in 0..Len(w), a <= b, b < Len(w)
  PROVE  Span(w, a, b + 1) = Span(w, a, b) + w[b + 1] /\ w[b + 1] \in Nat
<1>1. Len(w) \in Nat /\ b + 1 \in 0..Len(w)
  OBVIOUS
<1>2. (a + 1)..(b + 1) = ((a + 1)..b) \cup {b + 1} /\ b + 1 \notin (a + 1)..b
  BY <1>1
<1>3. /\ \A i \in ((a + 1)..b) \cup {b + 1} : w[i] \in Nat
      /\ IsFiniteSet((a + 1)..b) /\ Span(w, a, b) \in Nat
  BY <1>1, <1>2, SpanTypes
<1>4. Total(w, ((a + 1)..b) \cup {b + 1}) = w[b + 1] + Total(w, (a + 1)..b)
  BY <1>2, <1>3, TotalAdd
<1>5. Span(w, a, b + 1) = Total(w, ((a + 1)..b) \cup {b + 1})
  BY <1>2 DEF Span
<1>6. Span(w, a, b + 1) = w[b + 1] + Span(w, a, b)
  BY <1>4, <1>5 DEF Span
<1>7. w[b + 1] \in Nat
  BY <1>3
<1>. QED  BY <1>3, <1>6, <1>7

\* A part of a span weighs no more.
LEMMA SpanLess ==
  ASSUME NEW w \in Seq(Nat), NEW a \in 0..Len(w), NEW b \in 0..Len(w),
         NEW c \in 0..Len(w), NEW d \in 0..Len(w), a <= c, d <= b
  PROVE  Span(w, c, d) <= Span(w, a, b)
<1>1. (c + 1)..d \in SUBSET ((a + 1)..b)
  OBVIOUS
<1>. QED  BY <1>1, SpanTypes, TotalLess DEF Span

\* A part of what may be one commit may be one, and a single file always may.
LEMMA MayPart ==
  ASSUME NEW w \in Seq(Nat), NEW c \in Nat, NEW u \in Nat, NEW a \in 0..Len(w), NEW b \in 0..Len(w),
         NEW x \in 0..Len(w), NEW y \in 0..Len(w), a <= x, x < y, y <= b, May(w, c, u, a, b)
  PROVE  May(w, c, u, x, y)
<1>1. y - x <= Ceil
  BY PlanSets DEF May
<1>2. CASE b = a + 1
  BY <1>1, <1>2 DEF May
<1>3. CASE Fit(w, c, u, a, b)
  <2>1. Span(w, x, y) <= Span(w, a, b) /\ Span(w, x, y) \in Nat /\ Span(w, a, b) \in Nat
    BY SpanLess, SpanTypes
  <2>2. Fit(w, c, u, x, y)
    BY <1>3, <2>1, PlanSets DEF Fit
  <2>. QED  BY <1>1, <2>2 DEF May
<1>. QED  BY <1>2, <1>3 DEF May

LEMMA MayOne ==
  ASSUME NEW w, NEW c, NEW u, NEW a \in Nat
  PROVE  May(w, c, u, a, a + 1)
BY PlanSets DEF May

LEMMA LeastIs ==
  ASSUME NEW S \in SUBSET Nat, S # {}
  PROVE  LeastOf(S) \in S /\ LeastOf(S) \in Nat /\ \A y \in S : LeastOf(S) <= y
<1>1. \E x \in S : \A y \in S : x <= y
  BY LeastNatural
<1>2. LeastOf(S) \in S /\ \A y \in S : LeastOf(S) <= y
  BY <1>1, Zenon DEF LeastOf
<1>. QED  BY <1>2

LEMMA EndsTypes ==
  ASSUME NEW w \in Seq(Nat), NEW c \in Nat, NEW u \in Nat, NEW a \in 0..Len(w)
  PROVE  /\ Ends(w, c, u, a) \subseteq 0..Len(w) /\ \A b \in Ends(w, c, u, a) : b > a
         /\ a # Len(w) => a + 1 \in Ends(w, c, u, a)
<1>1. Len(w) \in Nat
  OBVIOUS
<1>2. a # Len(w) => a + 1 \in (a + 1)..Len(w) /\ May(w, c, u, a, a + 1)
  BY <1>1, MayOne
<1>. QED  BY <1>1, <1>2 DEF Ends

\* The counts exist: those of the last n positions do, for every n.
LEMMA CountExists ==
  ASSUME NEW w \in Seq(Nat), NEW c \in Nat, NEW u \in Nat
  PROVE  \E f : IsCount(f, w, c, u) /\ \A a \in 0..Len(w) : f[a] \in Nat
<1>. DEFINE L == Len(w)
            Upto(n) == \E f \in [0..L -> Nat] : \A a \in 0..L : L - a <= n => f[a] = CountFrom(f, w, c, u, a)
            T == {n \in Nat : ~ Upto(n)}
<1>0. L \in Nat
  OBVIOUS
<1>. HIDE DEF L
<1>1. Upto(0)
  <2>. DEFINE f == [a \in 0..L |-> 0]
  <2>1. f \in [0..L -> Nat]
    OBVIOUS
  <2>2. ASSUME NEW a \in 0..L, L - a <= 0 PROVE f[a] = CountFrom(f, w, c, u, a)
    <3>1. a = L
      BY <1>0, <2>2
    <3>. QED  BY <3>1 DEF CountFrom, L
  <2>. HIDE DEF f
  <2>. QED  BY <2>1, <2>2
<1>2. ASSUME NEW n \in Nat, Upto(n) PROVE Upto(n + 1)
  <2>1. PICK f \in [0..L -> Nat] : \A a \in 0..L : L - a <= n => f[a] = CountFrom(f, w, c, u, a)
    BY <1>2
  <2>. DEFINE h == [a \in 0..L |-> IF L - a <= n THEN f[a] ELSE CountFrom(f, w, c, u, a)]
  <2>3. h \in [0..L -> Nat]
    <3>1. ASSUME NEW a \in 0..L PROVE CountFrom(f, w, c, u, a) \in Nat
      <4>1. CASE a = L
        BY <4>1 DEF CountFrom, L
      <4>2. CASE a # L
        <5>. DEFINE S == {f[b] : b \in Ends(w, c, u, a)}
        <5>1. a + 1 \in Ends(w, c, u, a) /\ Ends(w, c, u, a) \subseteq 0..L
          BY <4>2, EndsTypes DEF L
        <5>2. S \in SUBSET Nat /\ S # {}
          BY <5>1
        <5>. HIDE DEF S
        <5>3. LeastOf(S) \in Nat
          BY <5>2, LeastIs
        <5>4. CountFrom(f, w, c, u, a) = 1 + LeastOf(S)
          BY <4>2 DEF CountFrom, L, S
        <5>. QED  BY <5>3, <5>4
      <4>. QED  BY <4>1, <4>2
    <3>. QED  BY <3>1
  <2>4. ASSUME NEW a \in 0..L, L - a <= n + 1 PROVE h[a] = CountFrom(h, w, c, u, a)
    <3>1. h[a] = CountFrom(f, w, c, u, a)
      BY <2>1
    <3>2. \A b \in Ends(w, c, u, a) : h[b] = f[b]
      <4>1. \A b \in Ends(w, c, u, a) : b \in 0..L /\ b > a
        BY EndsTypes DEF L
      <4>. QED  BY <1>0, <2>4, <4>1
    <3>3. {h[b] : b \in Ends(w, c, u, a)} = {f[b] : b \in Ends(w, c, u, a)}
      BY <3>2, Zenon
    <3>. QED  BY <3>1, <3>3 DEF CountFrom
  <2>. HIDE DEF h
  <2>. QED  BY <2>3, <2>4
<1>. HIDE DEF Upto
<1>3. T = {}
  <2>1. SUFFICES ASSUME T # {} PROVE FALSE
    OBVIOUS
  <2>2. PICK n \in T : \A m \in T : n <= m
    BY <2>1, LeastNatural
  <2>3. n # 0
    BY <1>1, <2>2
  <2>4. n - 1 \in Nat /\ Upto(n - 1)
    BY <2>2, <2>3
  <2>. QED  BY <1>2, <2>2, <2>4
<1>4. PICK f \in [0..L -> Nat] : \A a \in 0..L : L - a <= L => f[a] = CountFrom(f, w, c, u, a)
  BY <1>0, <1>3 DEF Upto
<1>5. IsCount(f, w, c, u)
  BY <1>0, <1>4 DEF IsCount, L
<1>6. \A a \in 0..L : f[a] \in Nat
  OBVIOUS
<1>. QED  BY <1>5, <1>6 DEF L

\* What the counts are.
LEMMA CountIs ==
  ASSUME NEW w \in Seq(Nat), NEW c \in Nat, NEW u \in Nat
  PROVE  \A a \in 0..Len(w) :
           /\ Count(w, c, u)[a] \in Nat
           /\ a = Len(w) => Count(w, c, u)[a] = 0
           /\ a # Len(w) =>
                /\ \A b \in Ends(w, c, u, a) : Count(w, c, u)[a] <= 1 + Count(w, c, u)[b]
                /\ \E b \in Ends(w, c, u, a) : Count(w, c, u)[a] = 1 + Count(w, c, u)[b]
<1>. DEFINE f == Count(w, c, u)
<1>1. IsCount(f, w, c, u)
  BY CountExists, Zenon DEF Count
<1>2. \A a \in 0..Len(w) : f[a] = CountFrom(f, w, c, u, a)
  BY <1>1, Zenon DEF IsCount
<1>. HIDE DEF f
<1>5. ASSUME NEW a \in 0..Len(w), a = Len(w) PROVE f[a] = 0
  <2>1. CountFrom(f, w, c, u, a) = 0
    BY <1>5, Zenon DEF CountFrom
  <2>. QED  BY <1>2, <2>1
<1>6. ASSUME NEW a \in 0..Len(w), a # Len(w) PROVE f[a] = 1 + LeastOf({f[b] : b \in Ends(w, c, u, a)})
  <2>1. CountFrom(f, w, c, u, a) = 1 + LeastOf({f[b] : b \in Ends(w, c, u, a)})
    BY <1>6, Zenon DEF CountFrom
  <2>. QED  BY <1>2, <2>1, Zenon
<1>3. \A a \in 0..Len(w) : f[a] \in Nat
  <2>. DEFINE T == {n \in Nat : \E a \in 0..Len(w) : n = Len(w) - a /\ f[a] \notin Nat}
  <2>0. Len(w) \in Nat
    OBVIOUS
  <2>1. T = {}
    <3>1. SUFFICES ASSUME T # {} PROVE FALSE
      OBVIOUS
    <3>2. PICK n \in T : \A m \in T : n <= m
      BY <3>1, LeastNatural
    <3>3. PICK a \in 0..Len(w) : n = Len(w) - a /\ f[a] \notin Nat
      BY <3>2
    <3>4. a # Len(w)
      BY <1>5, <3>3
    <3>. DEFINE S == {f[b] : b \in Ends(w, c, u, a)}
    <3>5. \A b \in Ends(w, c, u, a) : b \in 0..Len(w) /\ b > a
      BY EndsTypes
    <3>6. \A b \in Ends(w, c, u, a) : f[b] \in Nat
      <4>1. SUFFICES ASSUME NEW b \in Ends(w, c, u, a), f[b] \notin Nat PROVE FALSE
        OBVIOUS
      <4>2. b \in 0..Len(w) /\ b > a
        BY <3>5
      <4>3. Len(w) - b \in Nat /\ Len(w) - b < Len(w) - a
        BY <2>0, <4>2
      <4>4. Len(w) - b \in T
        BY <4>1, <4>2, <4>3
      <4>5. n <= Len(w) - b
        BY <3>2, <4>4
      <4>. QED  BY <2>0, <3>3, <4>2, <4>3, <4>5
    <3>7. S \in SUBSET Nat /\ S # {}
      <4>1. a + 1 \in Ends(w, c, u, a)
        BY <3>4, EndsTypes
      <4>. QED  BY <3>6, <4>1
    <3>. HIDE DEF S
    <3>8. LeastOf(S) \in Nat
      BY <3>7, LeastIs
    <3>9. f[a] = 1 + LeastOf(S)
      BY <1>6, <3>4 DEF S
    <3>. QED  BY <3>3, <3>8, <3>9
  <2>2. \A a \in 0..Len(w) : Len(w) - a \in Nat
    BY <2>0
  <2>. QED  BY <2>1, <2>2
<1>4. ASSUME NEW a \in 0..Len(w), a # Len(w)
      PROVE  /\ \A b \in Ends(w, c, u, a) : f[a] <= 1 + f[b]
             /\ \E b \in Ends(w, c, u, a) : f[a] = 1 + f[b]
  <2>. DEFINE S == {f[b] : b \in Ends(w, c, u, a)}
  <2>1. \A b \in Ends(w, c, u, a) : f[b] \in Nat
    BY <1>3, EndsTypes
  <2>2. S \in SUBSET Nat /\ S # {} /\ \A b \in Ends(w, c, u, a) : f[b] \in S
    <3>1. a + 1 \in Ends(w, c, u, a)
      BY <1>4, EndsTypes
    <3>. QED  BY <2>1, <3>1
  <2>3. \A x \in S : \E b \in Ends(w, c, u, a) : x = f[b]
    OBVIOUS
  <2>4. f[a] = 1 + LeastOf(S)
    BY <1>4, <1>6
  <2>. HIDE DEF S
  <2>5. LeastOf(S) \in S /\ LeastOf(S) \in Nat /\ \A y \in S : LeastOf(S) <= y
    BY <2>2, LeastIs
  <2>6. \A b \in Ends(w, c, u, a) : LeastOf(S) <= f[b]
    BY <2>2, <2>5
  <2>7. \E b \in Ends(w, c, u, a) : LeastOf(S) = f[b]
    BY <2>3, <2>5
  <2>8. \A b \in Ends(w, c, u, a) : f[a] <= 1 + f[b]
    BY <2>1, <2>4, <2>5, <2>6
  <2>. QED  BY <2>4, <2>7, <2>8
<1>. QED  BY <1>3, <1>4, <1>5 DEF f

\* The fewer files are left, the fewer commits they need.
LEMMA CountFalls ==
  ASSUME NEW w \in Seq(Nat), NEW c \in Nat, NEW u \in Nat,
         NEW a \in 0..Len(w), NEW b \in 0..Len(w), a <= b
  PROVE  Count(w, c, u)[b] <= Count(w, c, u)[a]
<1>. DEFINE f == Count(w, c, u)
            L == Len(w)
            T == {n \in Nat : \E x \in 0..L : x + n \in 0..L /\ ~ (f[x + n] <= f[x])}
<1>0. L \in Nat /\ \A x \in 0..L : f[x] \in Nat
  BY CountIs
<1>1. ASSUME NEW x \in 0..L, x # L PROVE f[x + 1] <= f[x]
  <2>0. x + 1 \in 0..L
    BY <1>0, <1>1
  <2>1. PICK y \in Ends(w, c, u, x) : f[x] = 1 + f[y]
    BY <1>1, CountIs
  <2>2. y \in 0..L /\ y > x /\ May(w, c, u, x, y)
    BY <2>1, EndsTypes DEF Ends
  <2>3. CASE y = x + 1
    BY <1>0, <2>0, <2>1, <2>3
  <2>4. CASE y # x + 1
    <3>1. x + 1 < y
      BY <1>0, <2>2, <2>4
    <3>2. May(w, c, u, x + 1, y)
      <4>1. /\ x \in 0..Len(w) /\ y \in 0..Len(w) /\ x + 1 \in 0..Len(w)
            /\ x <= x + 1 /\ x + 1 < y /\ y <= y
        BY <1>0, <2>0, <2>2, <3>1
      <4>. QED  BY <2>2, <4>1, MayPart, Zenon
    <3>3. y \in Ends(w, c, u, x + 1)
      BY <1>0, <2>2, <3>1, <3>2 DEF Ends
    <3>4. x + 1 # L
      BY <2>2, <3>1
    <3>5. f[x + 1] <= 1 + f[y]
      BY <2>0, <3>3, <3>4, CountIs, Zenon
    <3>. QED  BY <2>1, <3>5, Zenon
  <2>. QED  BY <2>3, <2>4
<1>. HIDE DEF f, L
<1>2. T = {}
  <2>1. SUFFICES ASSUME T # {} PROVE FALSE
    OBVIOUS
  <2>2. PICK n \in T : \A m \in T : n <= m
    BY <2>1, LeastNatural
  <2>3. PICK x \in 0..L : x + n \in 0..L /\ ~ (f[x + n] <= f[x])
    BY <2>2
  <2>4. n # 0
    BY <1>0, <2>3
  <2>5. n - 1 \in Nat /\ n - 1 \notin T
    <3>1. n \in Nat /\ T \subseteq Nat
      BY <2>2
    <3>. HIDE DEF T
    <3>2. \A m \in T : m \in Nat /\ n <= m
      BY <2>2, <3>1
    <3>. QED  BY <2>4, <3>1, <3>2
  <2>6. x + (n - 1) \in 0..L /\ x + (n - 1) # L /\ (x + (n - 1)) + 1 = x + n
    BY <1>0, <2>2, <2>3, <2>5
  <2>7. f[x + (n - 1)] <= f[x]
    BY <2>5, <2>6
  <2>8. f[x + n] <= f[x + (n - 1)]
    BY <1>1, <2>6
  <2>. QED  BY <1>0, <2>3, <2>6, <2>7, <2>8
<1>3. b - a \in Nat /\ a + (b - a) = b
  BY <1>0 DEF L
<1>4. b - a \notin T
  BY <1>2
<1>5. f[a + (b - a)] <= f[a]
  BY <1>3, <1>4 DEF L
<1>. QED  BY <1>3, <1>5 DEF f

\* The commit that holds as many files as it may costs nothing.
LEMMA CountGreedy ==
  ASSUME NEW w \in Seq(Nat), NEW c \in Nat, NEW u \in Nat,
         NEW a \in 0..Len(w), NEW e \in 0..Len(w), a < e, May(w, c, u, a, e),
         e # Len(w) => ~ May(w, c, u, a, e + 1)
  PROVE  Count(w, c, u)[a] = 1 + Count(w, c, u)[e]
<1>. DEFINE f == Count(w, c, u)
<1>0. Len(w) \in Nat /\ \A x \in 0..Len(w) : f[x] \in Nat
  BY CountIs
<1>1. a # Len(w) /\ e \in Ends(w, c, u, a)
  BY <1>0 DEF Ends
<1>2. f[a] <= 1 + f[e]
  BY <1>1, CountIs
<1>3. PICK b \in Ends(w, c, u, a) : f[a] = 1 + f[b]
  BY <1>1, CountIs
<1>4. b \in 0..Len(w) /\ b > a /\ May(w, c, u, a, b)
  BY EndsTypes DEF Ends
<1>5. b <= e
  <2>1. SUFFICES ASSUME e < b PROVE FALSE
    BY <1>0, <1>4
  <2>2. e + 1 \in 0..Len(w) /\ a < e + 1 /\ e + 1 <= b /\ e # Len(w)
    BY <1>0, <1>4, <2>1
  <2>3. May(w, c, u, a, e + 1)
    BY <1>0, <1>4, <2>2, MayPart
  <2>. QED  BY <2>2, <2>3
<1>6. f[e] <= f[b]
  BY <1>4, <1>5, CountFalls
<1>. HIDE DEF f
<1>7. f[a] \in Nat /\ f[b] \in Nat /\ f[e] \in Nat
  BY <1>0, <1>4
<1>8. f[a] = 1 + f[e]
  BY <1>2, <1>3, <1>6, <1>7
<1>. QED  BY <1>8 DEF f

-----------------------------------------------------------------------------
\* The planner's own definitions.
LEMMA PlanSumIs == \A a, b : Plan!SumOf(a, b) = Span(plan_weights, a, b)
BY DEF Plan!SumOf, Plan!MapThenSumSet, Plan!MapThenFoldSet, Span, Total, IsFold, Pick

LEMMA PlanAllowedIs ==
  /\ \A a, b : Plan!Fits(a, b) <=> Fit(plan_weights, plan_cap, plan_budget, a, b)
  /\ \A a, b : Plan!Allowed(a, b) <=> May(plan_weights, plan_cap, plan_budget, a, b)
BY PlanSumIs DEF Plan!Allowed, Plan!Fits, Plan!Within, May, Fit, Ceil

LEMMA PlanFewestIs == Plan!Fewest = Count(plan_weights, plan_cap, plan_budget)[0]
<1>. DEFINE w == plan_weights
            E(a) == {c \in (a + 1)..Plan!Total : Plan!Allowed(a, c)}
            B(f, a) == IF a = Plan!Total THEN 0 ELSE 1 + Plan!Min({f[b] : b \in E(a)})
            C(f, a) == CountFrom(f, w, plan_cap, plan_budget, a)
<1>1. \A a : E(a) = Ends(w, plan_cap, plan_budget, a)
  BY PlanAllowedIs DEF Ends, Plan!Total
<1>2. \A S : Plan!Min(S) = LeastOf(S)
  BY DEF Plan!Min, LeastOf
<1>3. Plan!Total = Len(w)
  BY DEF Plan!Total
<1>4. Plan!Fewest = (CHOOSE f : f = [a \in 0..Plan!Total |-> B(f, a)])[0]
  BY DEF Plan!Fewest
<1>. HIDE DEF E
<1>5. ASSUME NEW f, NEW a PROVE B(f, a) = C(f, a)
  BY <1>1, <1>2, <1>3, Zenon DEF CountFrom
<1>. HIDE DEF B, C
<1>6. ASSUME NEW f PROVE [a \in 0..Plan!Total |-> B(f, a)] = [a \in 0..Plan!Total |-> C(f, a)]
  BY <1>5
<1>7. \A f : f = [a \in 0..Plan!Total |-> B(f, a)] <=> IsCount(f, w, plan_cap, plan_budget)
  BY <1>3, <1>6, Zenon DEF IsCount, C
<1>8. (CHOOSE f : f = [a \in 0..Plan!Total |-> B(f, a)]) = Count(w, plan_cap, plan_budget)
  BY <1>7 DEF Count
<1>. QED  BY <1>4, <1>8

-----------------------------------------------------------------------------
\* Where the k-th commit begins and the last one ends.
Start(e, k) == IF k = 1 THEN 0 ELSE e[k - 1]
Stop(e)     == IF e = <<>> THEN 0 ELSE e[Len(e)]

\* A cut into commits none of which is longer than the server takes, or than is allowed.
Short(e)        == \A k \in 1..Len(e) : Start(e, k) < e[k] /\ e[k] - Start(e, k) <= Ceil
Cut(w, c, u, e) == \A k \in 1..Len(e) : Start(e, k) < e[k] /\ May(w, c, u, Start(e, k), e[k])

\* A last commit that is tiny, and the halves it would share with the one before.
Tiny(e) ==
  LET k == Len(e) IN k >= 2 /\ (e[k] - Start(e, k)) * 4 < Start(e, k) - Start(e, k - 1)
Middle(e) == LET a == Start(e, Len(e) - 1) IN a + (Stop(e) - a + 1) \div 2
Halves(w, c, u, e) ==
  Fit(w, c, u, Start(e, Len(e) - 1), Middle(e)) /\ Fit(w, c, u, Middle(e), Stop(e))

LEMMA EndTypes ==
  ASSUME NEW n \in Nat, NEW e \in Seq(1..n)
  PROVE  /\ Len(e) \in Nat /\ DOMAIN e = 1..Len(e) /\ Stop(e) \in 0..n
         /\ \A k \in 1..Len(e) : e[k] \in 1..n /\ Start(e, k) \in 0..n
         /\ Len(e) = 0 => e = <<>> /\ Stop(e) = 0
         /\ Len(e) # 0 => Stop(e) = e[Len(e)]
<1>1. Len(e) \in Nat /\ DOMAIN e = 1..Len(e) /\ \A k \in 1..Len(e) : e[k] \in 1..n
  OBVIOUS
<1>2. Len(e) = 0 <=> e = <<>>
  OBVIOUS
<1>3. \A k \in 1..Len(e) : Start(e, k) \in 0..n
  <2>1. SUFFICES ASSUME NEW k \in 1..Len(e) PROVE Start(e, k) \in 0..n
    OBVIOUS
  <2>2. CASE k = 1
    BY <2>2 DEF Start
  <2>3. CASE k # 1
    <3>1. k - 1 \in 1..Len(e)
      BY <1>1, <2>3
    <3>. QED  BY <1>1, <2>3, <3>1 DEF Start
  <2>. QED  BY <2>2, <2>3
<1>4. Len(e) # 0 => Len(e) \in 1..Len(e)
  BY <1>1
<1>5. Stop(e) \in 0..n
  BY <1>1, <1>2, <1>4 DEF Stop
<1>. QED  BY <1>1, <1>2, <1>3, <1>5 DEF Stop

LEMMA OneMore ==
  ASSUME NEW n \in Nat, NEW e \in Seq(1..n), NEW x \in 1..n
  PROVE  /\ Append(e, x) \in Seq(1..n) /\ Len(Append(e, x)) = Len(e) + 1 /\ Stop(Append(e, x)) = x
         /\ Append(e, x)[Len(e) + 1] = x /\ Start(Append(e, x), Len(e) + 1) = Stop(e)
         /\ \A k \in 1..Len(e) : Append(e, x)[k] = e[k] /\ Start(Append(e, x), k) = Start(e, k)
<1>. DEFINE f == Append(e, x)
<1>0. Len(e) \in Nat
  OBVIOUS
<1>1. f \in Seq(1..n) /\ Len(f) = Len(e) + 1 /\ f[Len(e) + 1] = x
      /\ \A k \in 1..Len(e) : f[k] = e[k]
  OBVIOUS
<1>. HIDE DEF f
<1>2. f # <<>>
  BY <1>0, <1>1
<1>3. Stop(f) = x
  BY <1>1, <1>2 DEF Stop
<1>4. Start(f, Len(e) + 1) = Stop(e)
  <2>1. CASE Len(e) = 0
    <3>1. Stop(e) = 0
      BY <2>1, EndTypes
    <3>2. Len(e) + 1 = 1
      BY <2>1
    <3>. QED  BY <3>1, <3>2, Zenon DEF Start
  <2>2. CASE Len(e) # 0
    <3>1. Len(e) \in 1..Len(e) /\ Len(e) + 1 # 1 /\ (Len(e) + 1) - 1 = Len(e)
      BY <1>0, <2>2
    <3>. QED  BY <1>1, <2>2, <3>1, EndTypes DEF Start
  <2>. QED  BY <2>1, <2>2
<1>5. ASSUME NEW k \in 1..Len(e) PROVE Start(f, k) = Start(e, k)
  <2>1. k # 1 => k - 1 \in 1..Len(e)
    BY <1>0
  <2>. QED  BY <1>1, <2>1 DEF Start
<1>. QED  BY <1>1, <1>3, <1>4, <1>5 DEF f

LEMMA CutMore ==
  ASSUME NEW w, NEW c, NEW u, NEW n \in Nat, NEW e \in Seq(1..n), Cut(w, c, u, e),
         NEW x \in 1..n, Stop(e) < x, May(w, c, u, Stop(e), x)
  PROVE  Cut(w, c, u, Append(e, x))
<1>. DEFINE f == Append(e, x)
<1>1. SUFFICES ASSUME NEW k \in 1..Len(f) PROVE Start(f, k) < f[k] /\ May(w, c, u, Start(f, k), f[k])
  BY DEF Cut
<1>2. /\ Len(e) \in Nat /\ Len(f) = Len(e) + 1
      /\ f[Len(e) + 1] = x /\ Start(f, Len(e) + 1) = Stop(e)
      /\ \A i \in 1..Len(e) : f[i] = e[i] /\ Start(f, i) = Start(e, i)
  BY OneMore
<1>. HIDE DEF f
<1>3. CASE k = Len(e) + 1
  BY <1>2, <1>3
<1>4. CASE k # Len(e) + 1
  <2>1. k \in 1..Len(e)
    BY <1>1, <1>2, <1>4
  <2>2. f[k] = e[k] /\ Start(f, k) = Start(e, k)
    BY <1>2, <2>1
  <2>. QED  BY <2>1, <2>2 DEF Cut
<1>. QED  BY <1>3, <1>4

LEMMA ShortMore ==
  ASSUME NEW n \in Nat, NEW e \in Seq(1..n), Short(e),
         NEW x \in 1..n, Stop(e) < x, x - Stop(e) <= Ceil
  PROVE  Short(Append(e, x))
<1>. DEFINE f == Append(e, x)
<1>1. SUFFICES ASSUME NEW k \in 1..Len(f) PROVE Start(f, k) < f[k] /\ f[k] - Start(f, k) <= Ceil
  BY DEF Short
<1>2. /\ Len(e) \in Nat /\ Len(f) = Len(e) + 1
      /\ f[Len(e) + 1] = x /\ Start(f, Len(e) + 1) = Stop(e)
      /\ \A i \in 1..Len(e) : f[i] = e[i] /\ Start(f, i) = Start(e, i)
  BY OneMore
<1>. HIDE DEF f
<1>3. CASE k = Len(e) + 1
  BY <1>2, <1>3
<1>4. CASE k # Len(e) + 1
  <2>1. k \in 1..Len(e)
    BY <1>1, <1>2, <1>4
  <2>2. f[k] = e[k] /\ Start(f, k) = Start(e, k)
    BY <1>2, <2>1
  <2>. QED  BY <2>1, <2>2 DEF Short
<1>. QED  BY <1>3, <1>4

\* The last two commits of a cut share their files anew.
Share(e, m) == [e EXCEPT ![Len(e) - 1] = m]
MayShare(w, c, u, n, e, m) ==
  /\ n \in Nat /\ e \in Seq(1..n) /\ Cut(w, c, u, e) /\ Len(e) >= 2 /\ m \in 1..n
  /\ Start(e, Len(e) - 1) < m /\ m < Stop(e)
  /\ May(w, c, u, Start(e, Len(e) - 1), m) /\ May(w, c, u, m, Stop(e))
LEMMA SeqOf ==
  ASSUME NEW S, NEW z \in Nat, NEW f \in [1..z -> S]
  PROVE  f \in Seq(S) /\ Len(f) = z
OBVIOUS

LEMMA CutShared ==
  ASSUME NEW w, NEW c, NEW u, NEW n, NEW e, NEW m, MayShare(w, c, u, n, e, m)
  PROVE  /\ Share(e, m) \in Seq(1..n) /\ Len(Share(e, m)) = Len(e) /\ Stop(Share(e, m)) = Stop(e)
         /\ Cut(w, c, u, Share(e, m)) /\ Share(e, m)[Len(e)] = Stop(e) /\ Share(e, m)[Len(e) - 1] = m
         /\ Start(Share(e, m), Len(e) - 1) = Start(e, Len(e) - 1) /\ Start(Share(e, m), Len(e)) = m
<1>. USE DEF MayShare
<1>. DEFINE z == Len(e)
            f == Share(e, m)
<1>1. e \in [1..z -> 1..n]
  OBVIOUS
<1>11. z \in Nat /\ z >= 2
  OBVIOUS
<1>. HIDE DEF z, f
<1>0. z \in Nat /\ z - 1 \in 1..z /\ z \in 1..z /\ z # z - 1 /\ z - 1 # 0 /\ z # 1 /\ z # 0
  BY <1>11
<1>2. f = [e EXCEPT ![z - 1] = m]
  BY DEF z, f, Share
<1>3. f \in [1..z -> 1..n] /\ f[z - 1] = m /\ \A k \in 1..z : k # z - 1 => f[k] = e[k]
  BY <1>0, <1>1, <1>2
<1>4. f \in Seq(1..n) /\ Len(f) = z
  BY <1>0, <1>3, SeqOf, Zenon
<1>5. Stop(e) = e[z] /\ Stop(f) = f[z] /\ f[z] = e[z]
  BY <1>0, <1>3, <1>4, EndTypes DEF z
<1>6. Start(f, z) = m
  BY <1>0, <1>3 DEF Start
<1>7. ASSUME NEW k \in 1..z, k # z PROVE Start(f, k) = Start(e, k)
  <2>1. k # 1 => k - 1 \in 1..z /\ k - 1 # z - 1
    BY <1>0, <1>7
  <2>. QED  BY <1>3, <2>1 DEF Start
<1>8. ASSUME NEW k \in 1..z PROVE Start(f, k) < f[k] /\ May(w, c, u, Start(f, k), f[k])
  <2>1. CASE k = z
    BY <1>5, <1>6, <2>1
  <2>2. CASE k = z - 1
    <3>1. Start(f, k) = Start(e, z - 1) /\ f[k] = m
      BY <1>0, <1>3, <1>7, <2>2
    <3>. QED  BY <3>1 DEF z
  <2>3. CASE k # z /\ k # z - 1
    <3>1. Start(f, k) = Start(e, k) /\ f[k] = e[k]
      BY <1>3, <1>7, <2>3
    <3>2. Start(e, k) < e[k] /\ May(w, c, u, Start(e, k), e[k])
      BY DEF Cut, z
    <3>. QED  BY <3>1, <3>2
  <2>. QED  BY <2>1, <2>2, <2>3
<1>9. Cut(w, c, u, f)
  BY <1>4, <1>8 DEF Cut
<1>10. Start(f, z - 1) = Start(e, z - 1)
  BY <1>0, <1>7
<1>. QED  BY <1>3, <1>4, <1>5, <1>6, <1>9, <1>10 DEF z, f

-----------------------------------------------------------------------------
PlanTypes ==
  /\ plan_pc \in {"fill", "balance", "planned", "chunk", "delete", "raised", "returned"}
  /\ plan_weights \in Seq(Nat) /\ plan_budget \in plan_Budgets \cup {0}
  /\ plan_cap \in Nat \ {0} /\ plan_cap <= Ceil
  /\ plan_index \in 0..Len(plan_weights) /\ plan_bytes \in Nat
  /\ plan_ends \in Seq(1..Len(plan_weights))
  /\ plan_deleted \in 0..Len(plan_weights) /\ plan_gone \in 0..Len(plan_weights)

FewestFrom(a) == Count(plan_weights, plan_cap, plan_budget)[a]
MayBe(a, b)   == May(plan_weights, plan_cap, plan_budget, a, b)
IsCut         == Cut(plan_weights, plan_cap, plan_budget, plan_ends)

\* While the commits are filled, those that are closed are of a shortest plan: they and
\* the fewest the other files need are the fewest of all.
PlanFilling ==
  plan_pc = "fill" =>
    /\ IsCut /\ Stop(plan_ends) <= plan_index
    /\ plan_bytes = plan_Envelope + Span(plan_weights, Stop(plan_ends), plan_index)
    /\ Stop(plan_ends) < plan_index => MayBe(Stop(plan_ends), plan_index)
    /\ Len(plan_ends) + FewestFrom(Stop(plan_ends)) = FewestFrom(0)
PlanCut ==
  plan_pc \in {"balance", "planned"} =>
    IsCut /\ Stop(plan_ends) = Len(plan_weights) /\ Len(plan_ends) = FewestFrom(0)
PlanShared ==
  plan_pc = "planned" =>
    (Tiny(plan_ends) => ~ Halves(plan_weights, plan_cap, plan_budget, plan_ends))
PlanUpload == plan_pc \in {"fill", "balance", "planned"} => plan_deleted = 0 /\ plan_gone = 0

\* A deletion is one commit after the other.
PlanChunks ==
  plan_pc = "chunk" => Short(plan_ends) /\ Stop(plan_ends) = plan_index /\ plan_deleted = 0 /\ plan_gone = 0
PlanDeletes ==
  plan_pc = "delete" =>
    Short(plan_ends) /\ Stop(plan_ends) = Len(plan_weights) /\ plan_deleted = plan_gone
PlanRaised ==
  plan_pc = "raised" =>
    Short(plan_ends) /\ plan_deleted <= plan_gone /\ plan_gone - plan_deleted <= Ceil
PlanReturned ==
  plan_pc = "returned" => plan_deleted = Len(plan_weights) /\ plan_gone = Len(plan_weights)

PlanInv ==
  /\ PlanTypes /\ PlanFilling /\ PlanCut /\ PlanShared /\ PlanUpload
  /\ PlanChunks /\ PlanDeletes /\ PlanRaised /\ PlanReturned

LEMMA PlanTerms ==
  /\ Plan!Total = Len(plan_weights) /\ Plan!LastEnd = Stop(plan_ends)
  /\ \A k : Plan!Before(k) = Start(plan_ends, k)
  /\ Plan!Fewest = FewestFrom(0)
  /\ \A a, b : Plan!Allowed(a, b) <=> MayBe(a, b)
  /\ \A a, b : Plan!Fits(a, b) <=> Fit(plan_weights, plan_cap, plan_budget, a, b)
  /\ Plan!AtLeastOne(plan_Ceiling) = Ceil
  /\ Plan!TinyTail <=> Tiny(plan_ends)
  /\ Plan!Midpoint = Middle(plan_ends)
  /\ Plan!HalvesFit <=> Halves(plan_weights, plan_cap, plan_budget, plan_ends)
<1>1. /\ Plan!LastEnd = Stop(plan_ends)
      /\ \A k : Plan!Before(k) = Start(plan_ends, k)
  BY DEF Plan!LastEnd, Plan!Before, Stop, Start
<1>2. Plan!TinyTail <=> Tiny(plan_ends)
  BY <1>1 DEF Plan!TinyTail, Tiny
<1>3. Plan!Midpoint = Middle(plan_ends)
  BY <1>1 DEF Plan!Midpoint, Middle
<1>4. Plan!HalvesFit <=> Halves(plan_weights, plan_cap, plan_budget, plan_ends)
  BY <1>1, <1>3, PlanAllowedIs DEF Plan!HalvesFit, Halves
<1>. QED  BY <1>1, <1>2, <1>3, <1>4, PlanFewestIs, PlanAllowedIs
          DEF Plan!Total, FewestFrom, MayBe, Ceil

\* What the invariant says of what the run checks.
LEMMA PlanHolds == PlanInv => Plan!TypeOK /\ Plan!PlanIsBest /\ Plan!DeletedIsGone
<1>. SUFFICES ASSUME PlanInv PROVE Plan!TypeOK /\ Plan!PlanIsBest /\ Plan!DeletedIsGone
  OBVIOUS
<1>. USE DEF PlanInv
<1>0. Len(plan_weights) \in Nat /\ Ceil \in Nat \ {0}
  BY PlanSets DEF PlanTypes
<1>1. Plan!TypeOK
  BY PlanTerms DEF Plan!TypeOK, PlanTypes
<1>2. DOMAIN plan_ends = 1..Len(plan_ends)
      /\ \A k \in 1..Len(plan_ends) : plan_ends[k] \in Nat /\ Start(plan_ends, k) \in Nat
  BY <1>0, EndTypes DEF PlanTypes
<1>3. Plan!PlanIsBest
  BY <1>2, PlanTerms DEF Plan!PlanIsBest, PlanCut, PlanShared, IsCut, Cut, MayBe
<1>4. Plan!DeletedIsGone
  <2>1. Short(plan_ends) => \A k \in DOMAIN plan_ends : plan_ends[k] - Start(plan_ends, k) \in 1..Ceil
    BY <1>0, <1>2 DEF Short
  <2>2. plan_pc = "returned" => plan_gone = Len(plan_weights)
    BY DEF PlanReturned
  <2>3. plan_deleted <= plan_gone /\ plan_gone - plan_deleted <= Ceil
    BY <1>0 DEF PlanTypes, PlanUpload, PlanChunks, PlanDeletes, PlanRaised, PlanReturned
  <2>4. plan_pc \in {"delete", "raised"} => Short(plan_ends)
    BY DEF PlanDeletes, PlanRaised
  <2>. QED  BY <2>1, <2>2, <2>3, <2>4, PlanTerms DEF Plan!DeletedIsGone
<1>. QED  BY <1>1, <1>3, <1>4

LEMMA PlanInit == Plan!Init => PlanInv
<1>. SUFFICES ASSUME Plan!Init PROVE PlanInv
  OBVIOUS
<1>1. plan_weights \in Seq(Nat)
  <2>1. PICK n \in 0..plan_MaxFiles : plan_weights \in [1..n -> plan_Weights \cup {0}]
    BY DEF Plan!Init
  <2>2. n \in Nat /\ plan_Weights \cup {0} \subseteq Nat
    BY PlanSets
  <2>3. plan_weights \in Seq(plan_Weights \cup {0})
    BY <2>1, <2>2
  <2>. QED  BY <2>2, <2>3
<1>2. Len(plan_weights) \in Nat /\ plan_ends = <<>> /\ plan_index = 0 /\ plan_bytes = plan_Envelope
      /\ plan_deleted = 0 /\ plan_gone = 0
  BY <1>1 DEF Plan!Init
<1>3. plan_pc \in {"fill", "chunk"} /\ plan_cap \in Nat \ {0} /\ plan_cap <= Ceil
      /\ plan_budget \in plan_Budgets \cup {0}
  <2>0. Plan!Total \in Nat
    BY <1>2 DEF Plan!Total
  <2>1. CASE Plan!InitUpload
    <3>1. PICK setting \in plan_Settings, adaptive \in BOOLEAN :
            plan_cap = Plan!CapFor(Plan!Total, Plan!Target(Plan!Total, setting, adaptive))
      BY <2>1 DEF Plan!InitUpload
    <3>. DEFINE t == Plan!Target(Plan!Total, setting, adaptive)
    <3>2. setting \in Nat /\ plan_Ceiling \in Nat
      BY PlanOK DEF Plan!ConstantsOK
    <3>3. t \in Nat
      BY <2>0, <3>2 DEF Plan!Target, Plan!AdaptiveSize, Plan!AtLeastOne, Plan!Lesser
    <3>. HIDE DEF t
    <3>4. Plan!CapFor(Plan!Total, t) \in Nat \ {0} /\ Plan!CapFor(Plan!Total, t) <= Ceil
      BY <2>0, <3>2, <3>3 DEF Plan!CapFor, Plan!AtLeastOne, Plan!Lesser, Ceil
    <3>5. plan_cap \in Nat \ {0} /\ plan_cap <= Ceil
      BY <3>1, <3>4 DEF t
    <3>. QED  BY <2>1, <3>5 DEF Plan!InitUpload
  <2>2. CASE Plan!InitDelete
    <3>1. plan_cap = Ceil
      BY <2>2 DEF Plan!InitDelete, Ceil
    <3>. QED  BY <2>2, <3>1, PlanSets DEF Plan!InitDelete
  <2>. QED  BY <2>1, <2>2 DEF Plan!Init
<1>4. PlanTypes
  BY <1>1, <1>2, <1>3, PlanSets DEF PlanTypes
<1>5. Stop(plan_ends) = 0 /\ Len(plan_ends) = 0
  BY <1>2 DEF Stop
<1>6. PlanFilling
  <2>1. Span(plan_weights, 0, 0) = 0
    BY <1>1, <1>2, SpanTypes
  <2>2. FewestFrom(0) \in Nat
    BY <1>1, <1>2, <1>4, CountIs, PlanSets DEF FewestFrom, PlanTypes
  <2>3. IsCut
    BY <1>5 DEF IsCut, Cut
  <2>. QED  BY <1>2, <1>5, <2>1, <2>2, <2>3, PlanSets DEF PlanFilling
<1>7. PlanChunks
  BY <1>2, <1>5 DEF PlanChunks, Short
<1>. QED  BY <1>2, <1>3, <1>4, <1>6, <1>7
          DEF PlanInv, PlanCut, PlanShared, PlanUpload, PlanDeletes, PlanRaised, PlanReturned

LEMMA PlanStays == ASSUME PlanInv, UNCHANGED Plan!vars PROVE PlanInv'
BY DEF Plan!vars, Plan!input, PlanInv, PlanTypes, PlanFilling, PlanCut, PlanShared, PlanUpload, PlanChunks,
   PlanDeletes, PlanRaised, PlanReturned, IsCut, MayBe, FewestFrom

\* What the planner's test of a full commit says of the files it would hold.
LEMMA FullIs ==
  ASSUME NEW w \in Seq(Nat), NEW c \in Nat \ {0}, c <= Ceil, NEW u \in Nat,
         NEW a \in 0..Len(w), NEW i \in 0..Len(w), a <= i, i < Len(w),
         NEW y, y = plan_Envelope + Span(w, a, i) + w[i + 1]
  PROVE  /\ a < i /\ (i - a >= c \/ ~ (u = 0 \/ y <= u)) => ~ May(w, c, u, a, i + 1)
         /\ a = i \/ (i - a < c /\ (u = 0 \/ y <= u)) => May(w, c, u, a, i + 1)
<1>1. /\ Span(w, a, i + 1) = Span(w, a, i) + w[i + 1]
      /\ Span(w, a, i) \in Nat /\ w[i + 1] \in Nat /\ Span(w, a, i + 1) \in Nat
  BY SpanNext, SpanTypes
<1>9. plan_Envelope \in Nat
  BY PlanSets
<1>2. y = plan_Envelope + Span(w, a, i + 1) /\ y \in Nat
  <2>. DEFINE p == Span(w, a, i)
              q == w[i + 1]
              r == Span(w, a, i + 1)
  <2>1. p \in Nat /\ q \in Nat /\ r = p + q /\ y = plan_Envelope + p + q
    BY <1>1
  <2>. HIDE DEF p, q, r
  <2>2. y = plan_Envelope + r /\ y \in Nat
    BY <1>9, <2>1
  <2>. QED  BY <2>2 DEF r
<1>3. a \in Nat /\ i \in Nat
  OBVIOUS
<1>. HIDE DEF Ceil
<1>4. Ceil \in Nat
  BY PlanSets
<1>5. ASSUME a < i, i - a >= c \/ ~ (u = 0 \/ y <= u) PROVE ~ May(w, c, u, a, i + 1)
  <2>1. i + 1 # a + 1
    BY <1>3, <1>5
  <2>2. ~ Fit(w, c, u, a, i + 1)
    BY <1>2, <1>3, <1>5 DEF Fit
  <2>. QED  BY <2>1, <2>2 DEF May
<1>6. ASSUME a = i PROVE May(w, c, u, a, i + 1)
  BY <1>3, <1>6, MayOne
<1>7. ASSUME i - a < c, u = 0 \/ y <= u PROVE May(w, c, u, a, i + 1)
  <2>1. (i + 1) - a <= c /\ (i + 1) - a <= Ceil
    BY <1>3, <1>4, <1>7
  <2>2. Fit(w, c, u, a, i + 1)
    BY <1>2, <1>7, <2>1 DEF Fit
  <2>. QED  BY <2>1, <2>2 DEF May
<1>. QED  BY <1>5, <1>6, <1>7

LEMMA Halved ==
  ASSUME NEW a \in Nat, NEW n \in Nat, a + 2 <= n, NEW m \in Int, m = a + (n - a + 1) \div 2
  PROVE  m \in Nat /\ a < m /\ m < n /\ ~ ((n - m) * 4 < m - a)
OBVIOUS

\* The types of what the filling of commits changes.
LEMMA PlanTypesKept ==
  ASSUME PlanTypes, plan_pc' = "fill", plan_index' \in 0..Len(plan_weights), plan_bytes' \in Nat,
         plan_ends' \in Seq(1..Len(plan_weights)),
         plan_weights' = plan_weights, plan_cap' = plan_cap, plan_budget' = plan_budget,
         plan_deleted' = plan_deleted, plan_gone' = plan_gone
  PROVE  PlanTypes'
<1>1. Len(plan_weights') = Len(plan_weights)
  OBVIOUS
<1>. QED  BY <1>1, Zenon DEF PlanTypes

LEMMA PlanNext ==
  ASSUME PlanInv, Plan!Next PROVE PlanInv'
<1>. DEFINE w == plan_weights
            c == plan_cap
            u == plan_budget
            e == plan_ends
            n == Len(plan_weights)
<1>. USE PlanSets
<1>0. /\ n \in Nat /\ w \in Seq(Nat) /\ c \in Nat /\ u \in Nat /\ e \in Seq(1..n)
      /\ Len(e) \in Nat /\ Stop(e) \in 0..n /\ c <= Ceil /\ plan_index \in 0..n /\ PlanTypes
  BY EndTypes DEF PlanInv, PlanTypes
<1>1. CASE Plan!Take
  <2>. DEFINE x == w[plan_index + 1]
  <2>0. /\ plan_pc = "fill" /\ plan_pc' = "fill" /\ plan_index < n /\ plan_index' = plan_index + 1
        /\ w' = w /\ c' = c /\ u' = u /\ n' = n
        /\ plan_deleted' = plan_deleted /\ plan_gone' = plan_gone
    BY <1>1 DEF Plan!Take, Plan!input, Plan!Total
  <2>9. c \in Nat \ {0} /\ c <= Ceil
    BY <1>0 DEF PlanTypes
  <2>1. /\ plan_index + 1 \in 0..n /\ plan_index \in 0..n /\ x \in Nat
        /\ Stop(e) <= plan_index
        /\ IsCut /\ plan_bytes = plan_Envelope + Span(w, Stop(e), plan_index)
        /\ Stop(e) < plan_index => May(w, c, u, Stop(e), plan_index)
        /\ Len(e) + FewestFrom(Stop(e)) = FewestFrom(0)
    BY <1>0, <2>0 DEF PlanInv, PlanFilling, MayBe
  <2>2. /\ Span(w, Stop(e), plan_index + 1) = Span(w, Stop(e), plan_index) + x
        /\ Span(w, Stop(e), plan_index) \in Nat
    BY <1>0, <2>0, <2>1, SpanNext, SpanTypes
  <2>3. CASE Plan!IsFull(x)
    <3>1. e' = Append(e, plan_index) /\ plan_bytes' = plan_Envelope + x
      BY <1>1, <2>3 DEF Plan!Take
    <3>2. /\ Stop(e) < plan_index
          /\ plan_index - Stop(e) >= c \/ ~ (u = 0 \/ plan_bytes + x <= u)
      BY <2>3 DEF Plan!IsFull, Plan!Within, Plan!LastEnd, Stop
    <3>3. plan_index \in 1..n /\ plan_index # n
      BY <1>0, <2>0, <2>1, <3>2
    <3>4. ~ May(w, c, u, Stop(e), plan_index + 1)
      BY <1>0, <2>0, <2>1, <2>9, <3>2, FullIs
    <3>5. FewestFrom(Stop(e)) = 1 + FewestFrom(plan_index)
      <4>1. /\ Stop(e) \in 0..n /\ plan_index \in 0..n /\ Stop(e) < plan_index
            /\ May(w, c, u, Stop(e), plan_index)
        BY <1>0, <2>1, <3>2
      <4>2. Count(w, c, u)[Stop(e)] = 1 + Count(w, c, u)[plan_index]
        <5>1. w \in Seq(Nat) /\ c \in Nat /\ u \in Nat
          BY <1>0
        <5>. QED  BY <3>4, <4>1, <5>1, CountGreedy
      <4>. QED  BY <4>2, Zenon DEF FewestFrom
    <3>6. e' \in Seq(1..n) /\ Len(e') = Len(e) + 1 /\ Stop(e') = plan_index
      BY <1>0, <3>1, <3>3, OneMore
    <3>7. Cut(w, c, u, e')
      BY <1>0, <2>1, <3>1, <3>2, <3>3, CutMore DEF IsCut
    <3>8. Span(w, plan_index, plan_index + 1) = x
      <4>1. Span(w, plan_index, plan_index) = 0
        BY <1>0, <2>1, SpanTypes
      <4>2. Span(w, plan_index, plan_index + 1) = Span(w, plan_index, plan_index) + x
        BY <1>0, <2>0, <2>1, SpanNext
      <4>. QED  BY <2>1, <4>1, <4>2
    <3>9. May(w, c, u, plan_index, plan_index + 1)
      BY <1>0, MayOne
    <3>10. FewestFrom(plan_index) \in Nat /\ FewestFrom(Stop(e)) \in Nat
      BY <1>0, CountIs DEF FewestFrom
    <3>11. PlanTypes'
      <4>1. /\ plan_index' \in 0..n /\ plan_bytes' \in Nat /\ e' \in Seq(1..n)
        BY <2>0, <2>1, <3>1, <3>6
      <4>2. /\ PlanTypes /\ plan_pc' = "fill"
            /\ w' = w /\ c' = c /\ u' = u /\ plan_deleted' = plan_deleted /\ plan_gone' = plan_gone
        BY <1>0, <2>0
      <4>. QED  BY <4>1, <4>2, PlanTypesKept
    <3>12. Len(e') + FewestFrom(plan_index) = FewestFrom(0)
      BY <1>0, <2>1, <3>5, <3>6, <3>10
    <3>13. PlanFilling'
      BY <1>0, <2>0, <2>1, <3>1, <3>6, <3>7, <3>8, <3>9, <3>12 DEF PlanFilling, MayBe, IsCut, FewestFrom
    <3>. QED  BY <2>0, <3>11, <3>13
              DEF PlanInv, PlanCut, PlanShared, PlanUpload, PlanChunks, PlanDeletes, PlanRaised, PlanReturned
  <2>4. CASE ~ Plan!IsFull(x)
    <3>1. e' = e /\ plan_bytes' = plan_bytes + x
      BY <1>1, <2>4 DEF Plan!Take
    <3>2. ~ (Stop(e) < plan_index) \/ (plan_index - Stop(e) < c /\ (u = 0 \/ plan_bytes + x <= u))
      BY <1>0, <2>4 DEF Plan!IsFull, Plan!Within, Plan!LastEnd, Stop
    <3>3. May(w, c, u, Stop(e), plan_index + 1)
      <4>1. Stop(e) = plan_index \/ (plan_index - Stop(e) < c /\ (u = 0 \/ plan_bytes + x <= u))
        BY <1>0, <2>1, <3>2
      <4>. QED  BY <1>0, <2>0, <2>1, <2>9, <4>1, FullIs
    <3>4. PlanTypes'
      <4>1. /\ plan_index' \in 0..n /\ plan_bytes' \in Nat /\ e' \in Seq(1..n)
        <5>1. plan_bytes \in Nat
          BY <1>0, Zenon DEF PlanTypes
        <5>. QED  BY <1>0, <2>0, <2>1, <3>1, <5>1
      <4>2. /\ PlanTypes /\ plan_pc' = "fill"
            /\ w' = w /\ c' = c /\ u' = u /\ plan_deleted' = plan_deleted /\ plan_gone' = plan_gone
        BY <1>0, <2>0
      <4>. QED  BY <4>1, <4>2, PlanTypesKept
    <3>5. plan_bytes' = plan_Envelope + Span(w, Stop(e), plan_index + 1)
      BY <2>1, <2>2, <3>1
    <3>6. PlanFilling'
      BY <1>0, <2>0, <2>1, <3>1, <3>3, <3>5 DEF PlanFilling, MayBe, IsCut, FewestFrom
    <3>. QED  BY <2>0, <3>4, <3>6
              DEF PlanInv, PlanCut, PlanShared, PlanUpload, PlanChunks, PlanDeletes, PlanRaised, PlanReturned
  <2>. QED  BY <2>3, <2>4
<1>2. CASE Plan!CloseLast
  <2>0. /\ plan_pc = "fill" /\ plan_pc' = "balance" /\ plan_index = n
        /\ e' = IF Stop(e) < n THEN Append(e, n) ELSE e
        /\ w' = w /\ c' = c /\ u' = u /\ n' = n /\ plan_index' = plan_index
        /\ plan_bytes' = plan_bytes /\ plan_deleted' = plan_deleted /\ plan_gone' = plan_gone
    BY <1>2 DEF Plan!CloseLast, Plan!input, Plan!Total, Plan!LastEnd, Stop
  <2>1. /\ IsCut /\ Stop(e) <= n
        /\ Stop(e) < n => May(w, c, u, Stop(e), n)
        /\ Len(e) + FewestFrom(Stop(e)) = FewestFrom(0)
    BY <2>0 DEF PlanInv, PlanFilling, MayBe
  <2>2. FewestFrom(n) = 0 /\ FewestFrom(Stop(e)) \in Nat /\ n \in 0..n
    BY <1>0, CountIs DEF FewestFrom
  <2>3. e' \in Seq(1..n) /\ Cut(w, c, u, e') /\ Stop(e') = n /\ Len(e') = FewestFrom(0)
    <3>1. CASE Stop(e) < n
      <4>1. e' = Append(e, n) /\ n \in 1..n
        BY <1>0, <2>0, <3>1
      <4>2. e' \in Seq(1..n) /\ Len(e') = Len(e) + 1 /\ Stop(e') = n
        BY <1>0, <4>1, OneMore
      <4>5. May(w, c, u, Stop(e), n) /\ Cut(w, c, u, e)
        BY <2>1, <3>1 DEF IsCut
      <4>3. Cut(w, c, u, e')
        BY <1>0, <3>1, <4>1, <4>5, CutMore
      <4>4. FewestFrom(Stop(e)) = 1 + FewestFrom(n)
        <5>1. Count(w, c, u)[Stop(e)] = 1 + Count(w, c, u)[Len(w)]
          <6>. DEFINE a == Stop(e)
          <6>1. /\ w \in Seq(Nat) /\ c \in Nat /\ u \in Nat /\ a \in 0..Len(w) /\ Len(w) \in 0..Len(w)
                /\ a < Len(w) /\ May(w, c, u, a, Len(w))
            BY <1>0, <2>2, <3>1, <4>5
          <6>. HIDE DEF a
          <6>2. Count(w, c, u)[a] = 1 + Count(w, c, u)[Len(w)]
            BY <6>1, CountGreedy
          <6>. QED  BY <6>2 DEF a
        <5>. QED  BY <5>1 DEF FewestFrom
      <4>. QED  BY <1>0, <2>1, <2>2, <4>2, <4>3, <4>4
    <3>2. CASE ~ (Stop(e) < n)
      <4>1. e' = e /\ Stop(e) = n
        BY <1>0, <2>0, <3>2
      <4>2. FewestFrom(Stop(e)) = 0
        BY <2>2, <4>1
      <4>3. Len(e) = FewestFrom(0)
        BY <1>0, <2>1, <4>2
      <4>4. e \in Seq(1..n) /\ Cut(w, c, u, e)
        BY <1>0, <2>1 DEF IsCut
      <4>. QED  BY <4>1, <4>3, <4>4
    <3>. QED  BY <3>1, <3>2
  <2>4. PlanTypes'
    BY <1>0, <2>0, <2>3 DEF PlanTypes
  <2>5. PlanCut'
    BY <2>0, <2>3 DEF PlanCut, IsCut, FewestFrom
  <2>6. PlanUpload'
    BY <2>0 DEF PlanInv, PlanUpload
  <2>. QED  BY <2>0, <2>4, <2>5, <2>6
            DEF PlanInv, PlanFilling, PlanShared, PlanChunks, PlanDeletes, PlanRaised, PlanReturned
<1>3. CASE Plan!Balance
  <2>0. /\ plan_pc = "balance" /\ plan_pc' = "planned"
        /\ e' = IF Tiny(e) /\ Halves(w, c, u, e) THEN [e EXCEPT ![Len(e) - 1] = Middle(e)] ELSE e
        /\ w' = w /\ c' = c /\ u' = u /\ n' = n /\ plan_index' = plan_index
        /\ plan_bytes' = plan_bytes /\ plan_deleted' = plan_deleted /\ plan_gone' = plan_gone
    BY <1>3, PlanTerms DEF Plan!Balance, Plan!input
  <2>1. Cut(w, c, u, e) /\ Stop(e) = n /\ Len(e) = FewestFrom(0)
    BY <2>0 DEF PlanInv, PlanCut, IsCut
  <2>2. /\ e' \in Seq(1..n) /\ Cut(w, c, u, e') /\ Stop(e') = n /\ Len(e') = FewestFrom(0)
        /\ Tiny(e') => ~ Halves(w, c, u, e')
    <3>1. CASE ~ (Tiny(e) /\ Halves(w, c, u, e))
      <4>1. e' = e /\ e \in Seq(1..n)
        BY <1>0, <2>0, <3>1
      <4>. QED  BY <2>1, <3>1, <4>1
    <3>2. CASE Tiny(e) /\ Halves(w, c, u, e)
      <4>. DEFINE z == Len(e)
                  a == Start(e, z - 1)
                  m == Middle(e)
      <4>1. z >= 2
        BY <3>2 DEF Tiny
      <4>2. m = a + (n - a + 1) \div 2
        BY <2>1 DEF Middle
      <4>3. Fit(w, c, u, a, m) /\ Fit(w, c, u, m, n)
        BY <2>1, <3>2 DEF Halves
      <4>4. z - 1 \in 1..z /\ z \in 1..z /\ z # 1
        <5>1. z \in Nat
          BY <1>0
        <5>. HIDE DEF z
        <5>. QED  BY <4>1, <5>1
      <4>5. a \in 0..n /\ e[z - 1] \in 1..n /\ e[z] = n
        <5>1. /\ \A k \in 1..Len(e) : e[k] \in 1..n /\ Start(e, k) \in 0..n
              /\ Len(e) # 0 => Stop(e) = e[Len(e)]
          BY <1>0, EndTypes
        <5>2. Len(e) # 0
          BY <4>1
        <5>. QED  BY <2>1, <4>4, <5>1, <5>2
      <4>6. a < e[z - 1] /\ Start(e, z) = e[z - 1] /\ Start(e, z) < e[z]
        BY <2>1, <4>4 DEF Cut, Start
      <4>7. a + 2 <= n /\ a \in Nat
        BY <1>0, <4>5, <4>6
      <4>15. m \in Int
        BY <1>0, <4>2, <4>7
      <4>. HIDE DEF a, m
      <4>8. m \in Nat /\ a < m /\ m < n /\ ~ ((n - m) * 4 < m - a)
        BY <1>0, <4>2, <4>7, <4>15, Halved
      <4>9. m \in 1..n /\ n - m <= c /\ m - a <= c
        BY <1>0, <4>3, <4>7, <4>8 DEF Fit
      <4>10. n - m <= Ceil /\ m - a <= Ceil
        BY <1>0, <4>7, <4>8, <4>9
      <4>11. May(w, c, u, a, m) /\ May(w, c, u, m, n)
        BY <4>3, <4>10 DEF May
      <4>12. e' = Share(e, m)
        BY <2>0, <3>2 DEF m, Share
      <4>13. /\ e' \in Seq(1..n) /\ Len(e') = Len(e) /\ Stop(e') = Stop(e) /\ Cut(w, c, u, e')
             /\ e'[z] = n /\ e'[z - 1] = m /\ Start(e', z - 1) = a /\ Start(e', z) = m
        <5>1. MayShare(w, c, u, n, e, m)
          BY <1>0, <2>1, <4>1, <4>8, <4>9, <4>11 DEF a, MayShare
        <5>2. /\ Share(e, m) \in Seq(1..n) /\ Len(Share(e, m)) = Len(e) /\ Stop(Share(e, m)) = Stop(e)
              /\ Cut(w, c, u, Share(e, m)) /\ Share(e, m)[Len(e)] = Stop(e) /\ Share(e, m)[Len(e) - 1] = m
              /\ Start(Share(e, m), Len(e) - 1) = Start(e, Len(e) - 1) /\ Start(Share(e, m), Len(e)) = m
          BY <5>1, CutShared
        <5>. QED  BY <2>1, <4>12, <5>2 DEF a
      <4>14. ~ Tiny(e')
        BY <4>8, <4>13 DEF Tiny
      <4>. QED  BY <2>1, <4>13, <4>14
    <3>. QED  BY <3>1, <3>2
  <2>3. PlanTypes'
    BY <1>0, <2>0, <2>2 DEF PlanTypes
  <2>4. PlanCut'
    BY <2>0, <2>2 DEF PlanCut, IsCut, FewestFrom
  <2>5. PlanUpload'
    BY <2>0 DEF PlanInv, PlanUpload
  <2>6. PlanShared'
    BY <2>0, <2>2 DEF PlanShared
  <2>. QED  BY <2>0, <2>3, <2>4, <2>5, <2>6
            DEF PlanInv, PlanFilling, PlanChunks, PlanDeletes, PlanRaised, PlanReturned
<1>4. CASE Plan!Chunk
  <2>. DEFINE j == Plan!Lesser(plan_index + c, n)
  <2>0. /\ plan_pc = "chunk" /\ plan_pc' = "chunk" /\ plan_index < n /\ plan_index' = j
        /\ e' = Append(e, j)
        /\ w' = w /\ c' = c /\ u' = u /\ n' = n
        /\ plan_bytes' = plan_bytes /\ plan_deleted' = plan_deleted /\ plan_gone' = plan_gone
    BY <1>4 DEF Plan!Chunk, Plan!input, Plan!Total
  <2>1. Short(e) /\ Stop(e) = plan_index /\ plan_deleted = 0 /\ plan_gone = 0
    BY <2>0 DEF PlanInv, PlanChunks
  <2>2. j \in 1..n /\ plan_index < j /\ j - plan_index <= Ceil
    BY <1>0, <2>0 DEF Plan!Lesser, PlanTypes
  <2>. HIDE DEF j
  <2>3. e' \in Seq(1..n) /\ Stop(e') = j
    BY <1>0, <2>0, <2>2, OneMore
  <2>4. Short(e')
    BY <1>0, <2>0, <2>1, <2>2, ShortMore
  <2>5. PlanTypes'
    BY <1>0, <2>0, <2>2, <2>3 DEF PlanTypes
  <2>6. PlanChunks'
    BY <2>0, <2>1, <2>3, <2>4 DEF PlanChunks
  <2>. QED  BY <2>0, <2>5, <2>6
            DEF PlanInv, PlanFilling, PlanCut, PlanShared, PlanUpload, PlanDeletes, PlanRaised, PlanReturned
<1>5. CASE Plan!BeginDelete
  <2>0. /\ plan_pc = "chunk" /\ plan_pc' = "delete" /\ plan_index = n
        /\ e' = e /\ w' = w /\ c' = c /\ u' = u /\ n' = n /\ plan_index' = plan_index
        /\ plan_bytes' = plan_bytes /\ plan_deleted' = plan_deleted /\ plan_gone' = plan_gone
    BY <1>5 DEF Plan!BeginDelete, Plan!input, Plan!Total
  <2>1. Short(e) /\ Stop(e) = plan_index /\ plan_deleted = 0 /\ plan_gone = 0
    BY <2>0 DEF PlanInv, PlanChunks
  <2>2. PlanTypes'
    BY <1>0, <2>0 DEF PlanTypes
  <2>3. PlanDeletes'
    BY <2>0, <2>1 DEF PlanDeletes
  <2>. QED  BY <2>0, <2>2, <2>3
            DEF PlanInv, PlanFilling, PlanCut, PlanShared, PlanUpload, PlanChunks, PlanRaised, PlanReturned
<1>6. ASSUME plan_pc = "delete", plan_deleted < n
      PROVE  Plan!NextEnd \in 0..n /\ plan_deleted < Plan!NextEnd /\ Plan!NextEnd - plan_deleted <= Ceil
  <2>. DEFINE S == {e[k] : k \in DOMAIN e}
              Good(x) == x > plan_deleted /\ \A k \in DOMAIN e : e[k] > plan_deleted => x <= e[k]
  <2>1. Short(e) /\ Stop(e) = n
    BY <1>6 DEF PlanInv, PlanDeletes
  <2>2. DOMAIN e = 1..Len(e) /\ \A k \in 1..Len(e) : e[k] \in 1..n /\ Start(e, k) \in 0..n
    BY <1>0, EndTypes
  <2>3. plan_deleted \in 0..n
    BY <1>0 DEF PlanTypes
  <2>4. Len(e) \in 1..Len(e) /\ e[Len(e)] = n
    BY <1>0, <1>6, <2>1, <2>3, EndTypes
  <2>5. \E x \in S : Good(x)
    <3>. DEFINE R == {x \in S : x > plan_deleted}
    <3>1. R \in SUBSET Nat /\ n \in R
      BY <1>6, <2>2, <2>4
    <3>2. PICK x \in R : \A y \in R : x <= y
      BY <3>1, LeastNatural
    <3>3. \A k \in DOMAIN e : e[k] > plan_deleted => e[k] \in R
      OBVIOUS
    <3>. QED  BY <3>2, <3>3
  <2>6. Plan!NextEnd \in S /\ Good(Plan!NextEnd)
    BY <2>5 DEF Plan!NextEnd
  <2>7. PICK k \in 1..Len(e) : Plan!NextEnd = e[k]
    BY <2>2, <2>6
  <2>8. Start(e, k) <= plan_deleted
    <3>1. CASE k = 1
      BY <2>3, <3>1 DEF Start
    <3>2. CASE k # 1
      <4>1. k - 1 \in 1..Len(e) /\ Start(e, k) = e[k - 1]
        BY <1>0, <3>2 DEF Start
      <4>2. e[k - 1] < e[k]
        BY <2>1, <4>1 DEF Short
      <4>3. ~ (e[k - 1] > plan_deleted)
        <5>1. e[k - 1] > plan_deleted => e[k] <= e[k - 1]
          BY <2>2, <2>6, <2>7, <4>1
        <5>. QED  BY <2>2, <4>1, <4>2, <5>1
      <4>. QED  BY <2>2, <2>3, <4>1, <4>3
    <3>. QED  BY <3>1, <3>2
  <2>9. e[k] - Start(e, k) <= Ceil
    BY <2>1 DEF Short
  <2>10. Plan!NextEnd \in 1..n /\ Start(e, k) \in 0..n /\ Plan!NextEnd - Start(e, k) <= Ceil
    BY <2>2, <2>7, <2>9
  <2>11. Plan!NextEnd > plan_deleted
    BY <2>6
  <2>. QED  BY <1>0, <2>3, <2>8, <2>10, <2>11
<1>7. CASE Plan!Delete
  <2>0. /\ plan_pc = "delete" /\ plan_pc' = "delete" /\ plan_deleted < n
        /\ plan_deleted' = Plan!NextEnd /\ plan_gone' = Plan!NextEnd
        /\ e' = e /\ w' = w /\ c' = c /\ u' = u /\ n' = n /\ plan_index' = plan_index
        /\ plan_bytes' = plan_bytes
    BY <1>7 DEF Plan!Delete, Plan!input, Plan!Total
  <2>1. PlanTypes'
    BY <1>0, <1>6, <2>0 DEF PlanTypes
  <2>2. PlanDeletes'
    BY <2>0 DEF PlanInv, PlanDeletes
  <2>. QED  BY <2>0, <2>1, <2>2
            DEF PlanInv, PlanFilling, PlanCut, PlanShared, PlanUpload, PlanChunks, PlanRaised, PlanReturned
<1>8. CASE Plan!DeleteFails
  <2>0. /\ plan_pc = "delete" /\ plan_pc' = "raised" /\ plan_deleted < n
        /\ plan_deleted' = plan_deleted /\ plan_gone' \in {plan_gone, Plan!NextEnd}
        /\ e' = e /\ w' = w /\ c' = c /\ u' = u /\ n' = n /\ plan_index' = plan_index
        /\ plan_bytes' = plan_bytes
    BY <1>8 DEF Plan!DeleteFails, Plan!input, Plan!Total
  <2>1. plan_deleted = plan_gone /\ Short(e) /\ plan_deleted \in 0..n /\ plan_gone \in 0..n
    BY <1>0, <2>0 DEF PlanInv, PlanDeletes, PlanTypes
  <2>2. plan_gone' \in 0..n /\ plan_deleted <= plan_gone' /\ plan_gone' - plan_deleted <= Ceil
    <3>1. CASE plan_gone' = plan_gone
      BY <1>0, <2>1, <3>1
    <3>2. CASE plan_gone' = Plan!NextEnd
      <4>1. Plan!NextEnd \in 0..n /\ plan_deleted < Plan!NextEnd /\ Plan!NextEnd - plan_deleted <= Ceil
        BY <1>6, <2>0
      <4>. QED  BY <1>0, <2>1, <3>2, <4>1
    <3>. QED  BY <2>0, <3>1, <3>2
  <2>3. PlanTypes'
    BY <1>0, <2>0, <2>2 DEF PlanTypes
  <2>4. PlanRaised'
    BY <2>0, <2>1, <2>2 DEF PlanRaised
  <2>. QED  BY <2>0, <2>3, <2>4
            DEF PlanInv, PlanFilling, PlanCut, PlanShared, PlanUpload, PlanChunks, PlanDeletes, PlanReturned
<1>9. CASE Plan!DeleteReturns
  <2>0. /\ plan_pc = "delete" /\ plan_pc' = "returned" /\ plan_deleted = n
        /\ plan_deleted' = plan_deleted /\ plan_gone' = plan_gone
        /\ e' = e /\ w' = w /\ c' = c /\ u' = u /\ n' = n /\ plan_index' = plan_index
        /\ plan_bytes' = plan_bytes
    BY <1>9 DEF Plan!DeleteReturns, Plan!input, Plan!Total
  <2>1. plan_deleted = plan_gone
    BY <2>0 DEF PlanInv, PlanDeletes
  <2>2. PlanTypes'
    BY <1>0, <2>0 DEF PlanTypes
  <2>3. PlanReturned'
    BY <2>0, <2>1 DEF PlanReturned
  <2>. QED  BY <2>0, <2>2, <2>3
            DEF PlanInv, PlanFilling, PlanCut, PlanShared, PlanUpload, PlanChunks, PlanDeletes, PlanRaised
<1>10. CASE Plan!Rest
  BY <1>10, PlanStays DEF Plan!Rest
<1>. QED  BY <1>1, <1>2, <1>3, <1>4, <1>5, <1>7, <1>8, <1>9, <1>10 DEF Plan!Next

\* A cut is a shortest one, and a deletion is never ahead of what is gone.
THEOREM PlanKept == Plan!Spec => []PlanInv
<1>1. ASSUME PlanInv, [Plan!Next]_(Plan!vars) PROVE PlanInv'
  BY <1>1, PlanNext, PlanStays
<1>. QED  BY PlanInit, <1>1, PTL DEF Plan!Spec

-----------------------------------------------------------------------------
(* A file that changes while it is uploaded                                 *)

USE ChangeOK

\* What the rest of the proof needs of the variables that TypeOK leaves out.
ChangeTypes ==
  /\ Change!TypeOK /\ change_size \in Nat /\ change_kind \in {"folder", "file"}
  /\ change_info = Change!NoInfo \/ change_info.hash \in Change!Hashes
  /\ change_pc \in {"scan", "cache", "stat", "size", "bytes"} => change_info = Change!NoInfo
  /\ change_pc = "idle" => change_info = Change!NoInfo /\ change_pre = "none" /\ change_kind = "folder"
  /\ change_pc # "idle" => change_outcome = Change!None
  /\ change_pc \in {"presign", "restat", "check", "late", "send", "sending", "uploaded", "build",
     "track"} =>
       change_info.hash \in Change!Hashes

\* A writing is newer than whatever is remembered of the file.
FreshKeys ==
  /\ change_made <= change_writes /\ change_st <= change_writes /\ change_key <= change_writes
  /\ \A k \in Change!Keys : k > change_writes =>
       \A e \in {change_entries[k], change_saved[k]} : e.hash = Change!None /\ e.status = "absent"

\* What is on disk is in memory.
KeptInv == \A k \in Change!Keys : change_saved[k].status # "absent" => change_entries[k].status # "absent"

\* The hash remembered for the file as it is, in memory and on disk.
RememberedFile == Change!Exists /\ change_made \notin change_afterward
HashInv ==
  RememberedFile =>
     \A e \in {change_entries[change_made], change_saved[change_made]} : e.hash # Change!None =>
        e.hash = change_holds

\* A writing during a read is newer than the key the hash will have.
ReadInv ==
  change_pc = "bytes" /\ Change!Exists /\ change_begun # change_made =>
    change_st # change_made /\ change_entries[change_made].status = "absent" /\ ~change_calm

\* The file has not been written since what the tracker or the call knows of it.
KnownFile == RememberedFile /\ (change_calm \/ change_entries[change_made].status # "absent")

\* The call works with the hash of the file it knows.
InfoInv == KnownFile /\ change_info # Change!NoInfo /\ change_pc \notin {"idle", "end"} =>
   change_info.hash = change_holds

\* The store has what a pointer names, and what is about to be committed.
StoreInv ==
  /\ change_Verifies => \A h \in Change!Hashes : change_stored[h] \in {Change!None, h}
  /\ change_tree.type = "lfs" => change_tree.of \in Change!Hashes /\
     change_stored[change_tree.of] # Change!None
  /\ change_pre = "stored" => change_info.hash \in Change!Hashes /\
     change_stored[change_info.hash] # Change!None
  /\ change_pc \in {"uploaded", "build"} /\ Change!IsLfs(change_info.size) =>
     change_stored[change_info.hash] # Change!None

\* The repository has the file as it is: once the commit has landed, and while the tracker
\* or the last call says so.
TreeInv ==
  change_Verifies =>
    /\ KnownFile /\ change_pc = "track" => change_tree.of = change_holds
    /\ RememberedFile /\ change_calm /\ change_outcome \in {"committed", "skipped"} =>
       change_tree.of = change_holds
    /\ RememberedFile /\ "committed" \in {change_entries[change_made].status,
       change_saved[change_made].status} => change_tree.of = change_holds

ChangeInv == ChangeTypes /\ FreshKeys /\ KeptInv /\ HashInv /\ ReadInv /\ InfoInv /\ StoreInv /\ TreeInv

-----------------------------------------------------------------------------
(* The entries of the tracker                                               *)

\* The sets of the keys and of what is remembered under them.
LEMMA ChangeSets ==
  ASSUME ChangeTypes
  PROVE  /\ change_entries \in [Change!Keys -> Change!Entry]
         /\ change_key \in Change!Keys /\ change_made \in Change!Keys /\ change_st \in Change!Keys
         /\ change_writes \in Change!Keys /\ Change!Keys \subseteq Nat /\ change_writes \in Nat
<1>1. Change!Keys \subseteq Nat
  BY DEF Change!Keys
<1>2. /\ change_entries \in [Change!Keys -> Change!Entry] /\ change_made \in Change!Keys
      /\ change_writes \in Change!Keys /\ {change_begun, change_st, change_key} \subseteq Change!Keys
  BY Zenon DEF ChangeTypes, Change!TypeOK
<1>. QED  BY <1>1, <1>2, Zenon

LEMMA MarkedEntries ==
  ASSUME change_entries \in [Change!Keys -> Change!Entry], NEW k \in Change!Keys,
         NEW s \in {"uploaded", "committed"}
  PROVE  /\ Change!Marked(k, s) \in [Change!Keys -> Change!Entry]
         /\ \A j \in Change!Keys : /\ Change!Marked(k, s)[j].hash = change_entries[j].hash
                                   /\ Change!Marked(k, s)[j].status = "absent" <=>
                                      change_entries[j].status = "absent"
                                   /\ Change!Marked(k, s)[j].status \in {change_entries[j].status, s}
                                   /\ j # k => Change!Marked(k, s)[j] = change_entries[j]
BY DEF Change!Marked, Change!Entry

LEMMA FailedEntries ==
  ASSUME change_entries \in [Change!Keys -> Change!Entry], NEW k \in Change!Keys
  PROVE  /\ Change!Failed(k) \in [Change!Keys -> Change!Entry]
         /\ \A j \in Change!Keys : /\ Change!Failed(k)[j].hash = change_entries[j].hash
                                   /\ j # k => Change!Failed(k)[j] = change_entries[j]
         /\ Change!Failed(k)[k].status = "failed"
BY DEF Change!Failed, Change!Entry

LEMMA AttemptedEntries ==
  ASSUME change_entries \in [Change!Keys -> Change!Entry], NEW k \in Change!Keys
  PROVE  /\ Change!Attempted(k) \in [Change!Keys -> Change!Entry]
         /\ \A j \in Change!Keys : /\ Change!Attempted(k)[j].hash = change_entries[j].hash
                                   /\ Change!Attempted(k)[j].status = "absent" <=>
                                      change_entries[j].status = "absent"
                                   /\ Change!Attempted(k)[j].status = "committed" <=>
                                      change_entries[j].status = "committed"
BY DEF Change!Attempted, Change!Entry

LEMMA PutEntries ==
  ASSUME change_entries \in [Change!Keys -> Change!Entry], NEW k \in Change!Keys,
         NEW h \in Change!Hashes, NEW n \in Nat
  PROVE  /\ Change!Put(k, h, n) \in [Change!Keys -> Change!Entry]
         /\ \A j \in Change!Keys : j # k => Change!Put(k, h, n)[j] = change_entries[j]
         /\ Change!Put(k, h, n)[k].hash = h /\ Change!Put(k, h, n)[k].status # "absent"
         /\ Change!Put(k, h, n)[k].status = "committed" <=> change_entries[k].status = "committed"
BY DEF Change!Put, Change!Entry

LEMMA NoneIsNoHash == Change!None \notin Change!Hashes /\ Change!NoInfo.hash \notin Change!Hashes
BY DEF Change!ConstantsOK, Change!Hashes, Change!None, Change!Torn, Change!NoInfo

LEMMA Lengths ==
  ASSUME NEW c
  PROVE  Change!Length(c) \in Nat
BY DEF Change!ConstantsOK, Change!Length

LEMMA ReadsHash ==
  ASSUME Change!TypeOK, Change!Exists, NEW w, NEW c \in Change!ReadSince(w)
  PROVE  c \in Change!Hashes /\ c # Change!None /\ (change_made = w => c = change_holds)
BY DEF Change!ConstantsOK, Change!TypeOK, Change!Exists, Change!ReadSince, Change!Hashes,
   Change!Torn, Change!None

-----------------------------------------------------------------------------
LEMMA InitChange == ASSUME Change!Init PROVE ChangeInv
<1>1. Change!NoEntry \in Change!Entry /\ Change!NoInfo \in [hash : Change!Hashes \cup {Change!None},
      size : Nat]
  BY DEF Change!NoEntry, Change!Entry, Change!NoInfo
<1>2. 0 \in Change!Keys /\ 1 \in Change!Keys
  BY DEF Change!ConstantsOK, Change!Keys
<1>3. Change!TypeOK
  BY <1>1, <1>2 DEF Change!ConstantsOK, Change!Init, Change!TypeOK, Change!Exists
<1>4. ChangeTypes
  BY <1>3 DEF Change!Init, ChangeTypes, Change!NoInfo
<1>5. FreshKeys /\ KeptInv /\ HashInv
  BY <1>2 DEF Change!Init, FreshKeys, KeptInv, HashInv, RememberedFile, Change!NoEntry
<1>6. ReadInv /\ InfoInv /\ StoreInv /\ TreeInv
  BY <1>2 DEF Change!Init, ReadInv, InfoInv, StoreInv, TreeInv, KnownFile, RememberedFile,
     Change!NoEntry, Change!Hashes, Change!None
<1>. QED  BY <1>4, <1>5, <1>6 DEF ChangeInv

-----------------------------------------------------------------------------
(* Types                                                                    *)

\* What the call keeps is gone with it.
LEMMA ReturnTypes ==
  ASSUME ChangeTypes, NEW o, Change!Return(o), UNCHANGED <<Change!file, change_calm, change_runs,
         change_afterward>>,
         change_saved' \in [Change!Keys -> Change!Entry],
            change_stored' \in [Change!Hashes -> Change!Hashes \cup {Change!None}],
         change_tree' \in [type : {"none", "lfs", "normal"}, of : Change!Hashes \cup {Change!None}]
  PROVE  ChangeTypes'
<1>1. 0 \in Change!Keys /\ Change!NoInfo \in [hash : Change!Hashes \cup {Change!None}, size : Nat]
  BY DEF Change!ConstantsOK, Change!Keys, Change!NoInfo
<1>2. /\ change_pc' = "idle" /\ change_entries' = change_saved' /\ change_kind' = "folder" /\
         change_size' = 0 /\ change_begun' = 0
      /\ change_st' = 0 /\ change_key' = 0 /\ change_info' = Change!NoInfo /\ change_pre' = "none" /\
         change_attempt' = 0 /\ change_round' = 0
      /\ UNCHANGED <<change_made, change_holds, change_writes, change_runs, change_afterward>>
  BY DEF Change!Return, Change!Go, Change!file
<1>3. Change!TypeOK'
  BY <1>1, <1>2 DEF ChangeTypes, Change!TypeOK, Change!Exists, Change!ConstantsOK
<1>. QED  BY <1>2, <1>3 DEF ChangeTypes

LEMMA NextTypes == ASSUME ChangeInv, [Change!Next]_(Change!vars) PROVE ChangeTypes'
<1>. USE DEF ChangeInv, ChangeTypes, Change!Go, Change!file, Change!server, Change!locals
<1>Write. CASE Change!Write
  <2>1. change_writes' \in Change!Keys /\ change_made' \in Change!Keys /\
        change_holds' \in change_Contents /\ change_made' # 0 /\ change_holds' # Change!None
    BY <1>Write DEF Change!Write, Change!TypeOK, Change!Keys, Change!ConstantsOK
  <2>. QED  BY <1>Write, <2>1 DEF Change!Write, Change!TypeOK, Change!Exists
<1>Remove. CASE Change!Remove
  <2>1. 0 \in Change!Keys
    BY DEF Change!ConstantsOK, Change!Keys
  <2>. QED  BY <1>Remove, <2>1 DEF Change!Remove, Change!TypeOK, Change!Exists
<1>Begin. ASSUME NEW k \in {"folder", "file"}, Change!Begin(k) PROVE ChangeTypes'
  <2>1. change_size' \in Nat
    BY <1>Begin, Lengths DEF Change!Begin
  <2>2. change_runs' \in 0..change_MaxRuns
    BY <1>Begin DEF Change!Begin, Change!TypeOK, Change!ConstantsOK
  <2>. QED  BY <1>Begin, <2>1, <2>2 DEF Change!Begin, Change!TypeOK, Change!Exists
<1>Scan. CASE Change!Scan
  <2>. DEFINE Skips == Change!Exists /\ change_entries[change_made].status = "committed"
  <2>1. CASE Skips
    <3>1. Change!Return("skipped") /\ UNCHANGED <<Change!file, change_saved, Change!server, change_calm,
          change_runs, change_afterward>>
      BY <1>Scan, <2>1 DEF Change!Scan
    <3>. QED  BY <3>1, ReturnTypes DEF Change!TypeOK
  <2>2. CASE ~Skips
    <3>1. change_entries' \in [Change!Keys -> Change!Entry]
      BY <1>Scan, <2>2, AttemptedEntries DEF Change!Scan, Change!TypeOK
    <3>. QED  BY <1>Scan, <2>2, <3>1 DEF Change!Scan, Change!TypeOK, Change!Exists, Change!Save
  <2>. QED  BY <2>1, <2>2
<1>LookUpAhead. CASE Change!LookUpAhead
  <2>1. change_info' = Change!InfoOf(change_made) /\ Change!Cached(change_made) =>
        change_info'.hash \in Change!Hashes /\ change_info' \in [hash : Change!Hashes \cup {Change!None},
           size : Nat]
    BY DEF Change!InfoOf, Change!Cached, Change!TypeOK, Change!Entry
  <2>. QED  BY <1>LookUpAhead, <2>1 DEF Change!LookUpAhead, Change!TypeOK, Change!Exists
<1>StatAhead. CASE Change!StatAhead
  BY <1>StatAhead DEF Change!StatAhead, Change!TypeOK, Change!Exists
<1>HashSize. CASE Change!HashSize
  BY <1>HashSize, Lengths DEF Change!HashSize, Change!TypeOK, Change!Exists
<1>HashBytes. CASE Change!HashBytes
  <2>1. PICK h \in Change!ReadSince(change_begun) : 
          /\ change_info' = [hash |-> h, size |-> change_size]
          /\ change_entries' = IF change_kind = "folder" /\
             Change!HashKey # 0 THEN Change!Put(Change!HashKey, h, change_size) ELSE change_entries
    BY <1>HashBytes DEF Change!HashBytes
  <2>2. h \in Change!Hashes
    BY <1>HashBytes, ReadsHash DEF Change!HashBytes
  <2>3. change_entries' \in [Change!Keys -> Change!Entry]
    BY <2>1, <2>2, PutEntries DEF Change!TypeOK, Change!HashKey
  <2>4. change_pc' \in {"send", "presign", "late", "restat"}
    BY <1>HashBytes DEF Change!HashBytes
  <2>. QED  BY <1>HashBytes, <2>1, <2>2, <2>3, <2>4 DEF Change!HashBytes, Change!TypeOK, Change!Exists
<1>HashMissing. CASE Change!HashMissing
  <2>1. 0 \in Change!Keys
    BY DEF Change!ConstantsOK, Change!Keys
  <2>. QED  BY <1>HashMissing, <2>1 DEF Change!HashMissing, Change!TypeOK, Change!Exists
<1>LateStat. CASE Change!LateStat
  <2>1. change_entries' \in [Change!Keys -> Change!Entry]
    BY <1>LateStat, PutEntries DEF Change!LateStat, Change!TypeOK
  <2>. QED  BY <1>LateStat, <2>1 DEF Change!LateStat, Change!TypeOK, Change!Exists
<1>Presign. CASE Change!Presign
  BY <1>Presign DEF Change!Presign, Change!TypeOK, Change!Exists
<1>Single. CASE Change!Single
  <2>1. change_info' = Change!InfoOf(change_made) /\ Change!Cached(change_made) =>
        change_info'.hash \in Change!Hashes /\ change_info' \in [hash : Change!Hashes \cup {Change!None},
           size : Nat]
    BY DEF Change!InfoOf, Change!Cached, Change!TypeOK, Change!Entry
  <2>2. 0 \in Change!Keys
    BY DEF Change!ConstantsOK, Change!Keys
  <2>. QED  BY <1>Single, <2>1, <2>2 DEF Change!Single, Change!TypeOK, Change!Exists
<1>Restat. CASE Change!Restat
  BY <1>Restat DEF Change!Restat, Change!TypeOK, Change!Exists
<1>CheckSize. CASE Change!CheckSize
  BY <1>CheckSize DEF Change!CheckSize, Change!TypeOK, Change!Exists
<1>Negotiate. CASE Change!Negotiate
  BY <1>Negotiate DEF Change!Negotiate, Change!TypeOK, Change!Exists
<1>fails. CASE Change!NegotiateFails \/ Change!SendFails
  <2>1. change_stored' \in [Change!Hashes -> Change!Hashes \cup {Change!None}]
    BY <1>fails, ReadsHash DEF Change!NegotiateFails, Change!SendFails, Change!TypeOK
  <2>2. change_attempt' \in 0..change_MaxAttempts /\ change_round' \in 0..change_MaxRounds
    BY <1>fails DEF Change!NegotiateFails, Change!SendFails, Change!Again, Change!GiveUp,
       Change!TypeOK, Change!ConstantsOK
  <2>3. /\ change_info' \in [hash : Change!Hashes \cup {Change!None}, size : Nat] /\
           (change_info' = Change!NoInfo \/ change_info'.hash \in Change!Hashes)
        /\ change_pc' \in {"check", "single", "failed"} /\ (change_pc' = "check" => UNCHANGED change_info)
        /\ change_pc \in {"send", "sending"}
        /\ UNCHANGED <<change_made, change_holds, change_writes, change_entries, change_saved,
           change_tree, change_begun, change_st, change_key, change_afterward,
                       change_runs, change_size, change_kind, change_outcome>>
    BY <1>fails DEF Change!NegotiateFails, Change!SendFails, Change!Again, Change!GiveUp,
       Change!TypeOK, Change!NoInfo
  <2>. QED  BY <2>1, <2>2, <2>3 DEF Change!TypeOK, Change!Exists
<1>Send. CASE Change!Send
  <2>1. change_stored' \in [Change!Hashes -> Change!Hashes \cup {Change!None}]
    BY <1>Send, ReadsHash DEF Change!Send, Change!TypeOK
  <2>. QED  BY <1>Send, <2>1 DEF Change!Send, Change!TypeOK, Change!Exists
<1>Uploaded. CASE Change!Uploaded
  <2>1. change_entries' \in [Change!Keys -> Change!Entry]
    BY <1>Uploaded, MarkedEntries DEF Change!Uploaded, Change!TypeOK
  <2>. QED  BY <1>Uploaded, <2>1 DEF Change!Uploaded, Change!TypeOK, Change!Exists, Change!Save
<1>Commit. CASE Change!Commit \/ Change!CommitFails
  <2>1. change_tree' \in [type : {"none", "lfs", "normal"}, of : Change!Hashes \cup {Change!None}]
    BY <1>Commit DEF Change!Commit, Change!CommitFails, Change!Operation, Change!TypeOK, Change!Hashes
  <2>2. CASE Change!Commit
    BY <2>1, <2>2, ReturnTypes DEF Change!Commit, Change!TypeOK, Change!Exists
  <2>3. CASE Change!CommitFails
    <3>1. change_entries' \in [Change!Keys -> Change!Entry]
      BY <2>3, FailedEntries DEF Change!CommitFails, Change!TypeOK
    <3>. QED  BY <2>1, <2>3, <3>1 DEF Change!CommitFails, Change!TypeOK, Change!Exists
  <2>. QED  BY <1>Commit, <2>2, <2>3
<1>BuildFails. CASE Change!BuildFails \/ Change!Fail
  <2>1. change_entries' \in [Change!Keys -> Change!Entry]
    BY <1>BuildFails, FailedEntries DEF Change!BuildFails, Change!Fail, Change!TypeOK
  <2>. QED  BY <1>BuildFails, <2>1 DEF Change!BuildFails, Change!Fail, Change!TypeOK, Change!Exists
<1>Return. CASE Change!Track \/ Change!End \/ Change!Crash
  <2>1. change_saved' \in [Change!Keys -> Change!Entry]
    BY <1>Return, MarkedEntries DEF Change!Track, Change!End, Change!Crash, Change!LastSave,
       Change!TypeOK
  <2>. QED  BY <1>Return, <2>1, ReturnTypes DEF Change!Track, Change!End, Change!Crash, Change!TypeOK
<1>same. CASE UNCHANGED Change!vars
  BY <1>same DEF Change!vars, Change!TypeOK, Change!Exists
<1>. QED
  BY <1>Write, <1>Remove, <1>Begin, <1>Scan, <1>LookUpAhead, <1>StatAhead, <1>HashSize, <1>HashBytes,
     <1>HashMissing, <1>LateStat, <1>Presign, <1>Single, <1>Restat, <1>CheckSize, <1>Negotiate,
     <1>fails, <1>Send, <1>Uploaded, <1>Commit, <1>BuildFails, <1>Return, <1>same DEF Change!Next,
     Change!Rest

-----------------------------------------------------------------------------
(* The invariant, action by action                                          *)

\* What the steps say of the file, the tracker and the servers, without Types.
ChangeFacts == FreshKeys /\ KeptInv /\ HashInv /\ ReadInv /\ InfoInv /\ StoreInv /\ TreeInv

\* A writing is new to everything, a removal leaves no file to speak of.
LEMMA WriteFacts == ASSUME ChangeInv, Change!Write \/ Change!Remove PROVE ChangeFacts'
<1>1. /\ UNCHANGED <<change_entries, change_saved, change_stored, change_tree, change_pc, change_kind,
         change_limit, change_st, change_key, change_begun, change_info, change_pre,
                     change_outcome, change_afterward>>
      /\ change_calm' = FALSE
  BY DEF Change!Write, Change!Remove, Change!server, Change!locals
<1>2. CASE Change!Write
  <2>1. change_made' = change_writes + 1 /\ change_writes' = change_writes + 1 /\
        change_writes \in Nat /\ change_made' \in Change!Keys
    BY <1>2 DEF Change!Write, ChangeInv, ChangeTypes, Change!TypeOK, Change!Keys, Change!ConstantsOK
  <2>2. \A e \in {change_entries[change_made'], change_saved[change_made']} : e.hash = Change!None /\
        e.status = "absent"
    BY <2>1 DEF ChangeInv, FreshKeys
  <2>3. {change_made, change_st, change_key} \subseteq Nat /\ Change!Keys \subseteq Nat
    BY ChangeSets, Zenon DEF ChangeInv
  <2>4. FreshKeys'
    BY <1>1, <2>1, <2>3 DEF ChangeInv, FreshKeys
  <2>5. KeptInv' /\ HashInv' /\ InfoInv' /\ StoreInv' /\ TreeInv'
    BY <1>1, <2>2 DEF ChangeInv, KeptInv, HashInv, InfoInv, StoreInv, TreeInv, KnownFile, Change!IsLfs
  <2>6. ReadInv'
    BY <1>1, <2>1, <2>2, <2>3 DEF ChangeInv, FreshKeys, ReadInv
  <2>. QED  BY <2>4, <2>5, <2>6 DEF ChangeFacts
<1>3. CASE Change!Remove
  <2>1. change_made' = 0 /\ UNCHANGED change_writes /\ change_writes \in Nat
    BY <1>3 DEF Change!Remove, ChangeInv, ChangeTypes, Change!TypeOK, Change!Keys
  <2>. QED  BY <1>1, <2>1 DEF ChangeInv, ChangeFacts, FreshKeys, KeptInv, HashInv, ReadInv, InfoInv,
               StoreInv, TreeInv, KnownFile, RememberedFile, Change!Exists, Change!IsLfs
<1>. QED  BY <1>2, <1>3

\* Steps that leave the file, the tracker and the servers alone.
QuietMove ==
  \/ (\E k \in {"folder", "file"} : Change!Begin(k))
  \/ Change!LookUpAhead \/ Change!StatAhead \/ Change!HashSize \/ Change!HashMissing \/ Change!Presign \/
     Change!Single \/ Change!Restat
  \/ Change!CheckSize \/ Change!Negotiate \/ Change!NegotiateFails

LEMMA QuietStep ==
  ASSUME QuietMove
  PROVE  /\ UNCHANGED <<change_made, change_holds, change_writes, change_entries, change_saved,
            change_stored, change_tree, change_afterward, change_limit>>
         /\ change_st' \in {change_st, change_made, 0} /\ change_key' \in {change_key, change_st,
            change_made}
         /\ change_pc' \notin {"idle", "track", "end", "build"} /\ change_pc \notin {"track", "end"}
BY DEF QuietMove, Change!Begin, Change!LookUpAhead, Change!StatAhead, Change!HashSize,
   Change!HashMissing, Change!Presign, Change!Single, Change!Restat, Change!CheckSize, Change!Negotiate,
   Change!NegotiateFails, Change!Again, Change!GiveUp, Change!Go, Change!file, Change!server,
   Change!locals

LEMMA QuietFacts == ASSUME ChangeInv, QuietMove, ChangeTypes' PROVE ChangeFacts'
<1>1. FreshKeys' /\ KeptInv' /\ HashInv'
  BY QuietStep DEF ChangeInv, FreshKeys, KeptInv, HashInv, RememberedFile, Change!Exists,
     ChangeTypes, Change!TypeOK, Change!Keys
<1>2. change_pc' = "bytes" => change_begun' = change_made
  BY DEF QuietMove, Change!Begin, Change!LookUpAhead, Change!StatAhead, Change!HashSize,
     Change!HashMissing, Change!Presign, Change!Single, Change!Restat, Change!CheckSize,
     Change!Negotiate, Change!NegotiateFails, Change!Again, Change!GiveUp, Change!Go
<1>3. ReadInv'
  BY <1>2, QuietStep DEF ReadInv
<1>4. \/ UNCHANGED <<change_info, change_calm>> /\ change_pc # "idle" /\
         (UNCHANGED change_pre \/ Change!Presign)
      \/ change_info' = Change!NoInfo /\ change_pre' # "stored"
      \/ change_info' = Change!InfoOf(change_made) /\ Change!Cached(change_made) /\
         UNCHANGED change_pre /\ change_info = Change!NoInfo
  <2>1. ASSUME NEW k \in {"folder", "file"}, Change!Begin(k)
               PROVE change_info' = Change!NoInfo /\ change_pre' # "stored"
    BY <2>1 DEF Change!Begin, ChangeInv, ChangeTypes
  <2>2. CASE Change!NegotiateFails
    BY <2>2 DEF Change!NegotiateFails, Change!Again, Change!GiveUp
  <2>3. CASE Change!LookUpAhead \/ Change!Single
    BY <2>3 DEF Change!LookUpAhead, Change!Single, ChangeInv, ChangeTypes
  <2>4. CASE \/ Change!StatAhead \/ Change!HashSize \/ Change!HashMissing \/ Change!Presign \/
                Change!Restat \/ Change!CheckSize
             \/ Change!Negotiate
    BY <2>4 DEF Change!StatAhead, Change!HashSize, Change!HashMissing, Change!Presign, Change!Restat,
       Change!CheckSize, Change!Negotiate, Change!locals
  <2>. QED  BY <2>1, <2>2, <2>3, <2>4 DEF QuietMove
<1>5. InfoInv'
  <2>1. CASE UNCHANGED <<change_info, change_calm>> /\ change_pc # "idle"
    BY <2>1, QuietStep DEF ChangeInv, InfoInv, KnownFile, RememberedFile, Change!Exists
  <2>2. CASE change_info' = Change!NoInfo
    BY <2>2 DEF InfoInv
  <2>3. CASE change_info' = Change!InfoOf(change_made) /\ Change!Cached(change_made)
    BY <2>3, QuietStep DEF ChangeInv, HashInv, InfoInv, KnownFile, RememberedFile, Change!Exists,
       Change!InfoOf, Change!Cached
  <2>. QED  BY <1>4, <2>1, <2>2, <2>3
<1>6. change_pre' = "stored" => change_info'.hash \in Change!Hashes /\
      change_stored[change_info'.hash] # Change!None
  <2>1. change_pre = "stored" => change_info # Change!NoInfo
    BY NoneIsNoHash DEF ChangeInv, StoreInv
  <2>2. CASE Change!Presign
    BY <2>2 DEF Change!Presign, ChangeInv, ChangeTypes
  <2>. QED  BY <1>4, <2>1, <2>2 DEF ChangeInv, StoreInv
<1>7. change_pc' = "uploaded" /\ Change!IsLfs(change_info'.size) =>
      change_stored[change_info'.hash] # Change!None
  <2>1. ASSUME change_pc' = "uploaded" PROVE Change!CheckSize \/ Change!Negotiate
    BY <2>1 DEF QuietMove, Change!Begin, Change!LookUpAhead, Change!StatAhead, Change!HashSize,
       Change!HashMissing, Change!Presign, Change!Single, Change!Restat, Change!NegotiateFails,
       Change!Again, Change!GiveUp, Change!Go
  <2>2. CASE Change!CheckSize
    BY <2>2 DEF Change!CheckSize, Change!Go, Change!locals
  <2>3. CASE Change!Negotiate
    BY <2>3 DEF Change!Negotiate, Change!Go, ChangeInv, StoreInv
  <2>. QED  BY <2>1, <2>2, <2>3
<1>8. StoreInv'
  BY <1>6, <1>7, QuietStep DEF ChangeInv, StoreInv, Change!IsLfs
<1>9. change_outcome' = Change!None
  BY DEF QuietMove, Change!Begin, Change!LookUpAhead, Change!StatAhead, Change!HashSize,
     Change!HashMissing, Change!Presign, Change!Single, Change!Restat, Change!CheckSize,
     Change!Negotiate, Change!NegotiateFails, Change!Again, Change!GiveUp, Change!Go, ChangeInv,
     ChangeTypes
<1>10. TreeInv'
  BY <1>9, QuietStep DEF ChangeInv, TreeInv, RememberedFile, Change!Exists, Change!None
<1>. QED  BY <1>1, <1>3, <1>5, <1>8, <1>10 DEF ChangeFacts

\* The hash that has been read goes to the writing it is of.
LEMMA HashBytesFacts == ASSUME ChangeInv, Change!HashBytes, ChangeTypes' PROVE ChangeFacts'
<1>1. PICK h \in Change!ReadSince(change_begun) :
        /\ change_info' = [hash |-> h, size |-> change_size]
        /\ change_entries' = IF change_kind = "folder" /\ change_st # 0 THEN Change!Put(change_st, h,
           change_size) ELSE change_entries
  BY DEF Change!HashBytes, Change!HashKey
<1>2. /\ Change!Exists /\ change_pc = "bytes" /\ change_pc' \notin {"idle", "end", "bytes", "track",
         "uploaded", "build"}
      /\ UNCHANGED <<change_made, change_holds, change_writes, change_saved, change_stored, change_tree,
         change_limit, change_st, change_key, change_pre, change_calm,
                     change_outcome, change_afterward>>
      /\ change_outcome = Change!None /\ change_pre # "stored"
  BY NoneIsNoHash DEF Change!HashBytes, Change!Go, Change!file, Change!server, ChangeInv,
     ChangeTypes, StoreInv
<1>3. h \in Change!Hashes /\ (change_made = change_begun => h = change_holds)
  BY <1>2, ReadsHash DEF ChangeInv, ChangeTypes
<1>4. /\ \A j \in Change!Keys : j # change_st => change_entries'[j] = change_entries[j]
      /\ \A j \in Change!Keys : \/ change_entries'[j] = change_entries[j]
                                \/ /\ j = change_st /\ change_entries'[j].hash = h /\
                                      change_entries'[j].status # "absent"
                                   /\ change_entries'[j].status = "committed" <=>
                                      change_entries[j].status = "committed"
  <2>1. /\ \A j \in Change!Keys : j # change_st =>
           Change!Put(change_st, h, change_size)[j] = change_entries[j]
        /\ Change!Put(change_st, h, change_size)[change_st].hash = h /\
           Change!Put(change_st, h, change_size)[change_st].status # "absent"
        /\ Change!Put(change_st, h, change_size)[change_st].status = "committed" <=>
           change_entries[change_st].status = "committed"
    <3>1. change_entries \in [Change!Keys -> Change!Entry] /\ change_st \in Change!Keys /\
          change_size \in Nat
      BY DEF ChangeInv, ChangeTypes, Change!TypeOK
    <3>. QED  BY <1>3, <3>1, PutEntries
  <2>2. change_entries' \in {change_entries, Change!Put(change_st, h, change_size)}
    BY <1>1
  <2>. QED  BY <2>1, <2>2
<1>5. change_made \in Change!Keys /\ change_st \in Change!Keys /\ Change!Keys \subseteq Nat /\
      change_writes \in Nat
  BY ChangeSets, Zenon DEF ChangeInv
<1>6. FreshKeys' /\ KeptInv'
  BY <1>2, <1>4, <1>5 DEF ChangeInv, FreshKeys, KeptInv
<1>7. change_begun # change_made => change_st # change_made /\
      change_entries'[change_made] = change_entries[change_made] /\
         change_entries[change_made].status = "absent" /\ ~change_calm
  BY <1>2, <1>4, <1>5 DEF ChangeInv, ReadInv
<1>8. HashInv'
  BY <1>2, <1>3, <1>4, <1>5, <1>7 DEF ChangeInv, HashInv, RememberedFile, Change!Exists
<1>9. ReadInv'
  BY <1>2 DEF ReadInv
<1>10. InfoInv'
  BY <1>1, <1>2, <1>3, <1>5, <1>7 DEF InfoInv, KnownFile
<1>11. StoreInv'
  BY <1>2 DEF ChangeInv, StoreInv
<1>12. TreeInv'
  BY <1>2, <1>4, <1>5 DEF ChangeInv, TreeInv, RememberedFile, Change!Exists, Change!None
<1>. QED  BY <1>6, <1>8, <1>9, <1>10, <1>11, <1>12 DEF ChangeFacts

\* A look after the read is set apart.
LEMMA LateStatFacts == ASSUME ChangeInv, Change!LateStat, ChangeTypes' PROVE ChangeFacts'
<1>1. /\ change_pc' = "restat" /\ change_outcome = Change!None
      /\ UNCHANGED <<change_made, change_holds, change_writes, change_saved, change_stored, change_tree,
         change_limit, change_key, change_pre, change_info, change_calm, change_outcome>>
      /\ change_info.hash \in Change!Hashes /\ change_info.size \in Nat /\ change_pc = "late"
  BY DEF Change!LateStat, Change!Go, Change!file, Change!server, ChangeInv, ChangeTypes, Change!TypeOK
<1>2. change_made \in Change!Keys /\ Change!Keys \subseteq Nat /\ change_writes \in Nat
  BY ChangeSets, Zenon DEF ChangeInv
<1>3. CASE Change!Exists
  <2>1. change_made \in change_afterward' /\ change_st' = change_made /\
        change_entries' = Change!Put(change_made, change_info.hash, change_info.size)
    BY <1>3 DEF Change!LateStat
  <2>2. \A j \in Change!Keys : j # change_made => change_entries'[j] = change_entries[j]
    BY <1>1, <1>2, <2>1, PutEntries DEF ChangeInv, ChangeTypes, Change!TypeOK
  <2>3. change_entries'[change_made].status # "absent"
    BY <1>1, <1>2, <2>1, PutEntries DEF ChangeInv, ChangeTypes, Change!TypeOK
  <2>4. FreshKeys' /\ KeptInv'
    <3>1. FreshKeys'
      <4>1. \A k \in Change!Keys : k > change_writes => k # change_made
        BY <1>2 DEF ChangeInv, FreshKeys
      <4>2. /\ change_made <= change_writes /\ change_st' <= change_writes
            /\ change_key <= change_writes
            /\ \A k \in Change!Keys : k > change_writes =>
                 \A e \in {change_entries[k], change_saved[k]} : e.hash = Change!None /\
                    e.status = "absent"
        BY <2>1 DEF ChangeInv, FreshKeys
      <4>3. \A k \in Change!Keys : k > change_writes => change_entries'[k] = change_entries[k]
        BY <2>2, <4>1
      <4>. QED  BY <1>1, <4>2, <4>3 DEF FreshKeys
    <3>2. KeptInv'
      BY <1>1, <1>2, <2>1, <2>2, <2>3 DEF ChangeInv, KeptInv
    <3>. QED  BY <3>1, <3>2
  <2>. QED  BY <1>1, <2>1, <2>4 DEF ChangeInv, ChangeFacts, HashInv, ReadInv, InfoInv, StoreInv,
               TreeInv, KnownFile, RememberedFile, Change!None, Change!IsLfs
<1>4. CASE ~Change!Exists
  <2>1. UNCHANGED <<change_st, change_entries, change_afterward>>
    BY <1>4 DEF Change!LateStat
  <2>. QED  BY <1>1, <1>4, <2>1 DEF ChangeInv, ChangeFacts, FreshKeys, KeptInv, HashInv, ReadInv,
               InfoInv, StoreInv, TreeInv, KnownFile, RememberedFile, Change!Exists, Change!None,
               Change!IsLfs
<1>. QED  BY <1>3, <1>4

\* What is sent is stored under the hash announced, and has it where the store looks.
LEMMA SendFacts == ASSUME ChangeInv, Change!Send \/ Change!SendFails, ChangeTypes' PROVE ChangeFacts'
<1>1. /\ change_pc = "sending" /\ change_info.hash \in Change!Hashes /\ change_outcome = Change!None
      /\ change_pc' \notin {"idle", "end", "bytes", "track", "build"}
      /\ UNCHANGED <<change_made, change_holds, change_writes, change_entries, change_saved, change_tree,
         change_limit, change_st, change_key, change_calm, change_outcome, change_afterward>>
      /\ \/ UNCHANGED <<change_info, change_pre>>
         \/ change_info' = Change!NoInfo /\ change_pre' = "none" /\ change_pc' # "uploaded"
  BY DEF Change!Send, Change!SendFails, Change!Again, Change!GiveUp, Change!Go, Change!file,
     Change!server, Change!locals, ChangeInv, ChangeTypes
<1>2. \/ UNCHANGED change_stored /\ change_pc' # "uploaded"
      \/ \E c \in Change!Hashes : /\ c # Change!None /\ (change_Verifies => c = change_info.hash)
                                  /\ change_stored' = [change_stored EXCEPT ![change_info.hash] = c]
  BY ReadsHash DEF Change!Send, Change!SendFails, Change!Sends, ChangeInv, ChangeTypes, Change!Again,
     Change!GiveUp, Change!Go
<1>3. /\ \A h \in Change!Hashes : change_stored[h] # Change!None => change_stored'[h] # Change!None
      /\ change_Verifies => \A h \in Change!Hashes : change_stored'[h] \in {Change!None, h}
      /\ change_pc' = "uploaded" => change_stored'[change_info.hash] # Change!None
  BY <1>1, <1>2 DEF ChangeInv, ChangeTypes, Change!TypeOK, StoreInv
<1>4. FreshKeys' /\ KeptInv' /\ HashInv' /\ ReadInv'
  BY <1>1 DEF ChangeInv, FreshKeys, KeptInv, HashInv, ReadInv, RememberedFile, Change!Exists
<1>5. InfoInv'
  BY <1>1 DEF ChangeInv, InfoInv, KnownFile, RememberedFile, Change!Exists
<1>6. StoreInv'
  BY <1>1, <1>3 DEF ChangeInv, StoreInv, Change!IsLfs
<1>7. TreeInv'
  BY <1>1 DEF ChangeInv, TreeInv, RememberedFile, Change!Exists, Change!None
<1>. QED  BY <1>4, <1>5, <1>6, <1>7 DEF ChangeFacts

\* Marks keep the hashes, and make no entry.
LEMMA MarksFacts == ASSUME ChangeInv, Change!Uploaded, ChangeTypes' PROVE ChangeFacts'
<1>1. /\ change_pc = "uploaded" /\ change_pc' = "build" /\ change_outcome = Change!None
      /\ UNCHANGED <<change_made, change_holds, change_writes, change_stored, change_tree, change_limit,
         change_st, change_key, change_info, change_pre, change_calm, change_outcome, change_afterward>>
      /\ \/ change_entries' = Change!Marked(change_key, "uploaded") /\ change_saved' = change_entries'
         \/ UNCHANGED <<change_entries, change_saved>>
  BY DEF Change!Uploaded, Change!Save, Change!Go, Change!file, Change!server, Change!locals,
     ChangeInv, ChangeTypes
<1>2. change_entries \in [Change!Keys -> Change!Entry] /\ change_key \in Change!Keys /\
      change_made \in Change!Keys
  BY DEF ChangeInv, ChangeTypes, Change!TypeOK
<1>3. \A j \in Change!Keys :
        /\ change_entries'[j].hash = change_entries[j].hash
        /\ change_entries'[j].status = "absent" <=> change_entries[j].status = "absent"
        /\ change_entries'[j].status = "committed" => change_entries[j].status = "committed"
  <2>1. CASE change_entries' = Change!Marked(change_key, "uploaded")
    BY <1>2, <2>1, MarkedEntries
  <2>. QED  BY <1>1, <2>1
<1>4. FreshKeys' /\ KeptInv' /\ HashInv' /\ ReadInv'
  BY <1>1, <1>2, <1>3 DEF ChangeInv, FreshKeys, KeptInv, HashInv, ReadInv, RememberedFile, Change!Exists
<1>5. InfoInv' /\ StoreInv'
  BY <1>1, <1>2, <1>3 DEF ChangeInv, InfoInv, StoreInv, KnownFile, RememberedFile, Change!Exists,
     Change!IsLfs
<1>6. TreeInv'
  BY <1>1, <1>2, <1>3 DEF ChangeInv, TreeInv, RememberedFile, Change!Exists, Change!None
<1>. QED  BY <1>4, <1>5, <1>6 DEF ChangeFacts

\* The end of a call that fails.
LEMMA FailsFacts == ASSUME ChangeInv, Change!BuildFails \/ Change!Fail, ChangeTypes' PROVE ChangeFacts'
<1>1. /\ change_pc' = "end" /\ change_outcome = Change!None
      /\ UNCHANGED <<change_made, change_holds, change_writes, change_saved, change_stored, change_tree,
         change_limit, change_st, change_key, change_info, change_pre, change_calm, change_outcome,
            change_afterward>>
      /\ change_entries' = change_entries \/
         \E k \in {change_key, change_made} : change_entries' = Change!Failed(k)
  BY DEF Change!BuildFails, Change!Fail, Change!Go, Change!file, Change!server, Change!locals,
     ChangeInv, ChangeTypes
<1>2. /\ change_entries \in [Change!Keys -> Change!Entry] /\ change_key \in Change!Keys /\
         change_made \in Change!Keys /\ Change!Keys \subseteq Nat
      /\ change_writes \in Nat
  BY ChangeSets, Zenon DEF ChangeInv
<1>3. \A j \in Change!Keys :
        /\ change_entries'[j].hash = change_entries[j].hash
        /\ change_entries'[j].status # "failed" => change_entries'[j].status = change_entries[j].status
        /\ j > change_writes => change_entries'[j] = change_entries[j]
  BY <1>1, <1>2, FailedEntries DEF ChangeInv, FreshKeys
<1>4. FreshKeys' /\ KeptInv' /\ HashInv' /\ ReadInv'
  BY <1>1, <1>2, <1>3 DEF ChangeInv, FreshKeys, KeptInv, HashInv, ReadInv, RememberedFile, Change!Exists
<1>5. InfoInv' /\ StoreInv'
  BY <1>1 DEF ChangeInv, InfoInv, StoreInv, Change!IsLfs
<1>6. TreeInv'
  BY <1>1, <1>2, <1>3 DEF ChangeInv, TreeInv, RememberedFile, Change!Exists, Change!None
<1>. QED  BY <1>4, <1>5, <1>6 DEF ChangeFacts

\* The commit names the hash of the file that is known, or holds what the file holds.
LEMMA LandedTree ==
  ASSUME ChangeInv, change_pc = "build", change_tree' = Change!Operation(change_holds)
  PROVE  /\ KnownFile => change_tree'.of = change_holds
         /\ change_tree'.type = "lfs" => change_tree'.of \in Change!Hashes /\
            change_stored[change_tree'.of] # Change!None
<1>1. change_info.hash \in Change!Hashes /\ change_info # Change!NoInfo
  BY NoneIsNoHash DEF ChangeInv, ChangeTypes
<1>2. CASE Change!IsLfs(change_info.size)
  BY <1>1, <1>2 DEF Change!Operation, ChangeInv, InfoInv, StoreInv
<1>3. CASE ~Change!IsLfs(change_info.size)
  BY <1>3 DEF Change!Operation
<1>. QED  BY <1>2, <1>3

\* Whatever the tracker says of the file, it knows it.
LEMMA SaidIsKnown ==
  ASSUME ChangeInv, RememberedFile, \/ change_entries[change_made].status # "absent"
                                    \/ change_saved[change_made].status # "absent"
  PROVE  KnownFile
BY DEF ChangeInv, KeptInv, KnownFile, ChangeTypes, Change!TypeOK

LEMMA CommitFailsFacts == ASSUME ChangeInv, Change!CommitFails, ChangeTypes' PROVE ChangeFacts'
<1>1. /\ change_pc = "build" /\ change_pc' \in {"build", "end"} /\ change_outcome = Change!None
      /\ UNCHANGED <<change_made, change_holds, change_writes, change_saved, change_stored, change_limit,
         change_st, change_key, change_info, change_pre, change_calm, change_outcome, change_afterward>>
      /\ change_entries' = change_entries \/ (change_entries' = Change!Failed(change_key) /\
         change_pc' = "end")
      /\ change_tree' \in {change_tree, Change!Operation(change_holds)}
  BY DEF Change!CommitFails, Change!Go, Change!file, Change!server, Change!locals, ChangeInv,
     ChangeTypes
<1>2. /\ change_entries \in [Change!Keys -> Change!Entry] /\ change_key \in Change!Keys /\
         change_made \in Change!Keys /\ Change!Keys \subseteq Nat
      /\ change_writes \in Nat
  BY ChangeSets, Zenon DEF ChangeInv
<1>3. \A j \in Change!Keys :
        /\ change_entries'[j].hash = change_entries[j].hash
        /\ change_entries'[j].status # "failed" => change_entries'[j].status = change_entries[j].status
        /\ j > change_writes => change_entries'[j] = change_entries[j]
  <2>1. CASE change_entries' = Change!Failed(change_key)
    <3>1. change_key <= change_writes
      BY DEF ChangeInv, FreshKeys
    <3>. QED  BY <1>2, <2>1, <3>1, FailedEntries
  <2>. QED  BY <1>1, <2>1
<1>4. FreshKeys' /\ KeptInv' /\ HashInv' /\ ReadInv'
  BY <1>1, <1>2, <1>3 DEF ChangeInv, FreshKeys, KeptInv, HashInv, ReadInv, RememberedFile, Change!Exists
<1>5. InfoInv'
  BY <1>1 DEF ChangeInv, InfoInv, KnownFile, RememberedFile, Change!Exists
<1>6. StoreInv'
  BY <1>1, LandedTree DEF ChangeInv, StoreInv, Change!IsLfs
<1>7. TreeInv'
  <2>1. RememberedFile' <=> RememberedFile
    BY <1>1 DEF RememberedFile, Change!Exists
  <2>2. ASSUME RememberedFile, "committed" \in {change_entries'[change_made].status,
               change_saved[change_made].status}
        PROVE  KnownFile /\ "committed" \in {change_entries[change_made].status,
               change_saved[change_made].status}
    <3>1. "committed" \in {change_entries[change_made].status, change_saved[change_made].status}
      BY <1>2, <1>3, <2>2
    <3>. QED  BY <2>2, <3>1, SaidIsKnown
  <2>. QED  BY <1>1, <2>1, <2>2, LandedTree DEF ChangeInv, TreeInv, Change!None
<1>. QED  BY <1>4, <1>5, <1>6, <1>7 DEF ChangeFacts

\* A file that is not recorded as committed is taken up.
LEMMA ScanFacts ==
  ASSUME ChangeInv, Change!Scan, ~(Change!Exists /\ change_entries[change_made].status = "committed"),
         ChangeTypes'
  PROVE  ChangeFacts'
<1>1. /\ change_pc = "scan" /\ change_pc' \in {"cache", "single"} /\ change_outcome = Change!None /\
         change_saved' = change_entries'
      /\ UNCHANGED <<change_made, change_holds, change_writes, change_stored, change_tree, change_limit,
         change_st, change_key, change_info, change_pre, change_calm, change_outcome, change_afterward>>
      /\ change_entries' = change_entries \/ change_entries' = Change!Attempted(change_made)
  BY DEF Change!Scan, Change!Save, Change!Go, Change!file, Change!server, Change!locals, ChangeInv,
     ChangeTypes
<1>2. change_entries \in [Change!Keys -> Change!Entry] /\ change_made \in Change!Keys
  BY DEF ChangeInv, ChangeTypes, Change!TypeOK
<1>3. \A j \in Change!Keys :
        /\ change_entries'[j].hash = change_entries[j].hash
        /\ change_entries'[j].status = "absent" <=> change_entries[j].status = "absent"
        /\ change_entries'[j].status = "committed" <=> change_entries[j].status = "committed"
  <2>1. CASE change_entries' = Change!Attempted(change_made)
    BY <1>2, <2>1, AttemptedEntries
  <2>. QED  BY <1>1, <2>1
<1>4. FreshKeys' /\ KeptInv' /\ HashInv' /\ ReadInv'
  BY <1>1, <1>2, <1>3 DEF ChangeInv, FreshKeys, KeptInv, HashInv, ReadInv, RememberedFile, Change!Exists
<1>5. InfoInv' /\ StoreInv'
  BY <1>1, <1>2, <1>3 DEF ChangeInv, InfoInv, StoreInv, KnownFile, RememberedFile, Change!Exists,
     Change!IsLfs
<1>6. TreeInv'
  BY <1>1, <1>2, <1>3 DEF ChangeInv, TreeInv, RememberedFile, Change!Exists, Change!None
<1>. QED  BY <1>4, <1>5, <1>6 DEF ChangeFacts

\* Once a call is over, the tracker is what was saved of it.
LEMMA ReturnFacts ==
  ASSUME ChangeInv, NEW o, Change!Return(o), UNCHANGED <<Change!file, change_calm, change_afterward>>,
         ChangeTypes',
         \A j \in Change!Keys : /\ change_saved'[j].hash \in {change_saved[j].hash,
                                   change_entries[j].hash}
                                /\ change_saved'[j].status # "absent" =>
                                   change_entries[j].status # "absent",
         StoreInv', TreeInv'
  PROVE  ChangeFacts'
<1>1. /\ change_pc' = "idle" /\ change_entries' = change_saved' /\ change_st' = 0 /\ change_key' = 0
      /\ UNCHANGED <<change_made, change_holds, change_writes, change_afterward>>
  BY DEF Change!Return, Change!Go, Change!file
<1>2. change_made \in Change!Keys /\ Change!Keys \subseteq Nat /\ change_writes \in Nat
  BY ChangeSets, Zenon DEF ChangeInv
<1>3. FreshKeys' /\ KeptInv' /\ HashInv'
  BY <1>1, <1>2 DEF ChangeInv, FreshKeys, KeptInv, HashInv, RememberedFile, Change!Exists
<1>4. ReadInv' /\ InfoInv'
  BY <1>1 DEF ReadInv, InfoInv
<1>. QED  BY <1>3, <1>4 DEF ChangeFacts

\* What a call that is over leaves of the store.
LEMMA ReturnStore ==
  ASSUME ChangeInv, NEW o, Change!Return(o), UNCHANGED change_stored,
         change_tree'.type = "lfs" => change_tree'.of \in Change!Hashes /\
            change_stored[change_tree'.of] # Change!None
  PROVE  StoreInv'
BY DEF ChangeInv, StoreInv, Change!Return, Change!Go

LEMMA SkipFacts ==
  ASSUME ChangeInv, Change!Scan, Change!Exists /\ change_entries[change_made].status = "committed",
         ChangeTypes'
  PROVE  ChangeFacts'
<1>1. /\ Change!Return("skipped") /\ change_outcome' = "skipped" /\ change_entries' = change_saved'
      /\ UNCHANGED <<Change!file, change_made, change_holds, change_calm, change_afterward, change_saved,
         change_stored, change_tree>>
  BY DEF Change!Scan, Change!Return, Change!file, Change!server
<1>2. StoreInv'
  BY <1>1, ReturnStore DEF ChangeInv, StoreInv
<1>3. TreeInv'
  BY <1>1 DEF ChangeInv, TreeInv, RememberedFile, Change!Exists, KnownFile, Change!Return, Change!Go
<1>4. \A j \in Change!Keys : /\ change_saved'[j].hash \in {change_saved[j].hash, change_entries[j].hash}
                             /\ change_saved'[j].status # "absent" => change_entries[j].status # "absent"
  BY <1>1 DEF ChangeInv, KeptInv
<1>. QED  BY <1>1, <1>2, <1>3, <1>4, ReturnFacts

\* The commit has landed: of a folder, it is still to be recorded.
LEMMA CommitFacts == ASSUME ChangeInv, Change!Commit, ChangeTypes' PROVE ChangeFacts'
<1>1. /\ change_pc = "build" /\ change_tree' = Change!Operation(change_holds)
      /\ UNCHANGED <<Change!file, change_made, change_holds, change_writes, change_saved, change_stored,
         change_limit, change_calm, change_afterward>>
  BY DEF Change!Commit, Change!Return, Change!file, Change!locals
<1>2. RememberedFile' <=> RememberedFile
  BY <1>1 DEF RememberedFile, Change!Exists
<1>3. ASSUME RememberedFile, "committed" \in {change_entries[change_made].status,
             change_saved[change_made].status} PROVE KnownFile
  BY <1>3, SaidIsKnown
<1>4. RememberedFile /\ change_calm => KnownFile
  BY DEF KnownFile
<1>5. CASE change_kind = "folder"
  <2>1. /\ change_pc' = "track" /\ change_outcome' = Change!None
        /\ UNCHANGED <<change_entries, change_st, change_key, change_info, change_pre, change_begun>>
    BY <1>5 DEF Change!Commit, Change!Go, Change!locals, ChangeInv, ChangeTypes
  <2>2. FreshKeys' /\ KeptInv' /\ HashInv' /\ ReadInv' /\ InfoInv'
    BY <1>1, <1>2, <2>1 DEF ChangeInv, FreshKeys, KeptInv, HashInv, ReadInv, InfoInv, KnownFile
  <2>3. StoreInv'
    BY <1>1, <2>1, LandedTree DEF ChangeInv, StoreInv
  <2>4. TreeInv'
    BY <1>1, <1>2, <1>3, <2>1, LandedTree DEF ChangeInv, TreeInv, KnownFile, Change!None
  <2>. QED  BY <2>2, <2>3, <2>4 DEF ChangeFacts
<1>6. CASE change_kind # "folder"
  <2>1. Change!Return("committed") /\ change_entries' = change_saved' /\ change_pc' = "idle"
    BY <1>6 DEF Change!Commit, Change!Return, Change!Go
  <2>2. StoreInv'
    BY <1>1, <2>1, LandedTree, ReturnStore
  <2>3. TreeInv'
    BY <1>1, <1>2, <1>3, <1>4, <2>1, LandedTree DEF TreeInv
  <2>4. \A j \in Change!Keys : /\ change_saved'[j].hash \in {change_saved[j].hash, change_entries[j].hash}
                               /\ change_saved'[j].status # "absent" =>
                                  change_entries[j].status # "absent"
    BY <1>1 DEF ChangeInv, KeptInv
  <2>. QED  BY <1>1, <2>1, <2>2, <2>3, <2>4, ReturnFacts
<1>. QED  BY <1>5, <1>6

\* What has landed is recorded, or the save fails.
LEMMA TrackFacts == ASSUME ChangeInv, Change!Track, ChangeTypes' PROVE ChangeFacts'
<1>1. /\ change_pc = "track" /\ change_pc' = "idle" /\ Change!Return("committed") /\
         change_entries' = change_saved'
      /\ UNCHANGED <<Change!file, change_made, change_holds, change_stored, change_tree, change_calm,
         change_afterward>>
      /\ change_saved' \in {change_saved, Change!Marked(change_key, "committed")}
  BY DEF Change!Track, Change!LastSave, Change!Return, Change!Go, Change!file, Change!server
<1>2. change_entries \in [Change!Keys -> Change!Entry] /\ change_key \in Change!Keys /\
      change_made \in Change!Keys
  BY DEF ChangeInv, ChangeTypes, Change!TypeOK
<1>3. \A j \in Change!Keys :
        \/ change_saved'[j] = change_saved[j]
        \/ /\ change_saved'[j].hash = change_entries[j].hash
           /\ change_saved'[j].status = "absent" <=> change_entries[j].status = "absent"
  <2>1. CASE change_saved' = Change!Marked(change_key, "committed")
    BY <1>2, <2>1, MarkedEntries
  <2>. QED  BY <1>1, <2>1
<1>4. \A j \in Change!Keys : /\ change_saved'[j].hash \in {change_saved[j].hash, change_entries[j].hash}
                             /\ change_saved'[j].status # "absent" => change_entries[j].status # "absent"
  BY <1>3 DEF ChangeInv, KeptInv
<1>5. StoreInv'
  BY <1>1, ReturnStore DEF ChangeInv, StoreInv
<1>6. TreeInv'
  <2>1. RememberedFile' <=> RememberedFile
    BY <1>1 DEF RememberedFile, Change!Exists
  <2>2. ASSUME RememberedFile, "committed" \in {change_entries'[change_made].status,
               change_saved'[change_made].status} PROVE KnownFile
    <3>1. change_saved'[change_made].status # "absent"
      BY <1>1, <2>2
    <3>. QED  BY <1>2, <1>4, <2>2, <3>1 DEF KnownFile
  <2>3. RememberedFile /\ change_calm => KnownFile
    BY DEF KnownFile
  <2>. QED  BY <1>1, <2>1, <2>2, <2>3 DEF ChangeInv, TreeInv
<1>. QED  BY <1>1, <1>4, <1>5, <1>6, ReturnFacts

\* A call that failed, or died, has said nothing of the repository.
LEMMA EndFacts == ASSUME ChangeInv, Change!End \/ Change!Crash, ChangeTypes' PROVE ChangeFacts'
<1>1. /\ change_pc' = "idle" /\ change_entries' = change_saved' /\
         change_outcome' \in {Change!None, "failed"}
      /\ UNCHANGED <<Change!file, change_made, change_holds, change_stored, change_tree, change_calm,
         change_afterward>>
      /\ change_saved' \in {change_saved, change_entries}
      /\ \E o : Change!Return(o)
  BY DEF Change!End, Change!Crash, Change!LastSave, Change!Return, Change!Go, Change!file, Change!server
<1>2. change_made \in Change!Keys
  BY DEF ChangeInv, ChangeTypes, Change!TypeOK
<1>3. \A j \in Change!Keys : /\ change_saved'[j].hash \in {change_saved[j].hash, change_entries[j].hash}
                             /\ change_saved'[j].status # "absent" => change_entries[j].status # "absent"
  BY <1>1 DEF ChangeInv, KeptInv
<1>4. StoreInv'
  BY <1>1, ReturnStore DEF ChangeInv, StoreInv
<1>5. TreeInv'
  BY <1>1, <1>2 DEF ChangeInv, TreeInv, RememberedFile, Change!Exists, Change!None
<1>. QED  BY <1>1, <1>3, <1>4, <1>5, ReturnFacts

-----------------------------------------------------------------------------
(* Theorems                                                                 *)

LEMMA SameFacts == ASSUME ChangeInv, UNCHANGED Change!vars PROVE ChangeFacts'
BY DEF Change!vars, Change!file, Change!server, Change!locals, ChangeInv, ChangeFacts, FreshKeys,
   KeptInv, HashInv, ReadInv, InfoInv, StoreInv, TreeInv, KnownFile, RememberedFile, Change!Exists,
   Change!IsLfs

LEMMA NextChange == ASSUME ChangeInv, [Change!Next]_(Change!vars) PROVE ChangeInv'
<1>1. ChangeTypes'
  BY NextTypes
<1>. SUFFICES ChangeFacts'
  BY <1>1 DEF ChangeInv, ChangeFacts
<1>2. CASE Change!Write \/ Change!Remove
  BY <1>2, WriteFacts
<1>3. CASE QuietMove
  BY <1>1, <1>3, QuietFacts
<1>4. CASE Change!Scan
  BY <1>1, <1>4, ScanFacts, SkipFacts
<1>5. CASE Change!HashBytes \/ Change!LateStat
  BY <1>1, <1>5, HashBytesFacts, LateStatFacts
<1>6. CASE Change!Send \/ Change!SendFails
  BY <1>1, <1>6, SendFacts
<1>7. CASE Change!Uploaded \/ Change!Commit \/ Change!CommitFails
  BY <1>1, <1>7, MarksFacts, CommitFacts, CommitFailsFacts
<1>8. CASE Change!BuildFails \/ Change!Fail
  BY <1>1, <1>8, FailsFacts
<1>9. CASE Change!Track \/ Change!End \/ Change!Crash
  BY <1>1, <1>9, TrackFacts, EndFacts
<1>10. CASE UNCHANGED Change!vars
  BY <1>10, SameFacts
<1>. QED
  BY <1>2, <1>3, <1>4, <1>5, <1>6, <1>7, <1>8, <1>9, <1>10 DEF Change!Next, QuietMove, Change!Rest

\* Where the store looks, what the repository has at the path is what its tree names.
LEMMA PublishedIs == ASSUME ChangeInv, change_Verifies PROVE Change!Published = change_tree.of
BY DEF ChangeInv, StoreInv, Change!Published

LEMMA ChangeHolds == ChangeInv => Change!TypeOK /\ Change!ChangesHold
<1>1. ASSUME ChangeInv PROVE Change!HashIsFiles
  BY <1>1 DEF ChangeInv, HashInv, RememberedFile, Change!HashIsFiles, Change!Cached
<1>2. ASSUME ChangeInv PROVE Change!SkippedIsPublished
  BY <1>2, PublishedIs DEF ChangeInv, TreeInv, RememberedFile, Change!SkippedIsPublished
<1>3. ASSUME ChangeInv PROVE Change!CalmIsPublished
  BY <1>3, PublishedIs DEF ChangeInv, TreeInv, RememberedFile, Change!CalmIsPublished
<1>. QED  BY <1>1, <1>2, <1>3 DEF ChangeInv, ChangeTypes, Change!ChangesHold

\* Whatever is written or removed while the file is hashed, sent and committed, whatever
\* fails, is retried or dies: a hash the tracker gives for the file as it is, is the file's;
\* and what a later run would skip, or a run without a writing has reported, is in the
\* repository as it is here.
THEOREM ChangesAlwaysHold == Change!Spec => [](Change!TypeOK /\ Change!ChangesHold)
<1>1. Change!Init => ChangeInv
  BY InitChange
<1>2. ChangeInv /\ [Change!Next]_(Change!vars) => ChangeInv'
  BY NextChange
<1>3. ChangeInv => Change!TypeOK /\ Change!ChangesHold
  BY ChangeHolds
<1>. QED  BY <1>1, <1>2, <1>3, PTL DEF Change!Spec

-----------------------------------------------------------------------------
\* Uploads, for any files, limits and writings: a call is cut into as few commits as there
\* can be, a deletion is never ahead of what is gone by more than a commit, and a file that
\* changes while it is uploaded is never taken for what it was.
THEOREM UploadsAlwaysHold == PartsSpec => []UploadsHold
<1>1. PartsInit => Plan!Init /\ Change!Init
  BY DEF PartsInit
<1>2. [PartsNext]_allVars => [Plan!Next]_(Plan!vars)
  BY DEF PartsNext, allVars, planVars, Plan!vars, Plan!input
<1>3. [PartsNext]_allVars => [Change!Next]_(Change!vars)
  BY DEF PartsNext, allVars, changeVars, Change!vars, Change!file, Change!server, Change!locals
<1>4. PlanInv /\ Change!TypeOK /\ Change!ChangesHold => UploadsHold
  BY PlanHolds DEF UploadsHold
<1>5. PartsSpec => Plan!Spec
  BY <1>1, <1>2, PTL DEF PartsSpec, Plan!Spec
<1>6. PartsSpec => Change!Spec
  BY <1>1, <1>3, PTL DEF PartsSpec, Change!Spec
<1>. QED  BY <1>4, <1>5, <1>6, PlanKept, ChangesAlwaysHold, PTL
=============================================================================

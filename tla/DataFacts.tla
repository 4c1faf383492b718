------------------------------ MODULE DataFacts ------------------------------
(***************************************************************************)
(* Facts about data that several proofs need: what Append, Tail and        *)
(* RemoveAt do to a queue in which nobody stands twice, what one element   *)
(* more or less does to a sum, and division with remainder.                *)
(***************************************************************************)
EXTENDS Integers, Sequences, SequencesExt, Functions, SequenceTheorems, FiniteSets,
        FiniteSetTheorems, WellFoundedInduction, TLAPS

(* Joining at the back adds exactly the newcomer to the members.           *)
LEMMA AppendFacts ==
    ASSUME NEW S, NEW s \in Seq(S), NEW e \in S
    PROVE  /\ Append(s, e) \in Seq(S)
           /\ Append(s, e) # <<>>
           /\ Len(Append(s, e)) = Len(s) + 1
           /\ Range(Append(s, e)) = Range(s) \cup {e}
           /\ IsInjective(s) /\ e \notin Range(s) => IsInjective(Append(s, e))
<1> DEFINE t == Append(s, e)
<1>1. /\ t \in Seq(S) /\ t # <<>> /\ Len(t) = Len(s) + 1
      /\ \A i \in 1 .. Len(s) : t[i] = s[i]
      /\ t[Len(s) + 1] = e
  BY AppendProperties
<1>2. /\ DOMAIN s = 1 .. Len(s) /\ Len(s) \in Nat
      /\ DOMAIN t = 1 .. Len(t) /\ Len(t) \in Nat
  BY <1>1, LenProperties
<1> HIDE DEF t
<1>3. Range(t) = Range(s) \cup {e}
  <2>1. \A x \in Range(t) : x \in Range(s) \cup {e}
    BY <1>1, <1>2 DEF Range
  <2>2. \A x \in Range(s) : x \in Range(t)
    BY <1>1, <1>2 DEF Range
  <2>3. e \in Range(t)
    BY <1>1, <1>2 DEF Range
  <2> QED BY <2>1, <2>2, <2>3
<1>4. ASSUME IsInjective(s), e \notin Range(s)
      PROVE  IsInjective(t)
  <2>1. \A i \in 1 .. Len(s) : s[i] # e
    BY <1>2, <1>4 DEF Range
  <2> QED BY <1>1, <1>2, <1>4, <2>1 DEF IsInjective
<1> QED BY <1>1, <1>3, <1>4 DEF t

(* Serving the head removes exactly the head from the members.             *)
LEMMA TailFacts ==
    ASSUME NEW S, NEW s \in Seq(S), s # <<>>, IsInjective(s)
    PROVE  /\ Tail(s) \in Seq(S)
           /\ Len(Tail(s)) = Len(s) - 1
           /\ Head(s) \in Range(s)
           /\ Range(Tail(s)) = Range(s) \ {Head(s)}
           /\ IsInjective(Tail(s))
<1> DEFINE t == Tail(s)
<1>1. /\ t \in Seq(S) /\ Len(t) = Len(s) - 1
      /\ \A i \in 1 .. Len(t) : t[i] = s[i + 1]
  BY HeadTailProperties
<1>2. /\ DOMAIN s = 1 .. Len(s) /\ Len(s) \in Nat \ {0}
      /\ DOMAIN t = 1 .. Len(t) /\ Len(t) \in Nat
  BY <1>1, LenProperties, EmptySeq
<1>3. Head(s) = s[1]
  OBVIOUS
<1> HIDE DEF t
<1>4. Range(t) = Range(s) \ {s[1]}
  <2>1. \A x \in Range(t) : x \in Range(s) /\ x # s[1]
    BY <1>1, <1>2 DEF Range, IsInjective
  <2>2. ASSUME NEW x \in Range(s), x # s[1]
        PROVE  x \in Range(t)
    <3>1. PICK i \in 1 .. Len(s) : s[i] = x
      BY <1>2 DEF Range
    <3>2. i - 1 \in 1 .. Len(t) /\ t[i - 1] = x
      BY <1>1, <1>2, <2>2, <3>1
    <3> QED BY <1>2, <3>2 DEF Range
  <2> QED BY <2>1, <2>2
<1>5. IsInjective(t)
  BY <1>1, <1>2 DEF IsInjective
<1>6. s[1] \in Range(s)
  BY <1>2 DEF Range
<1> QED BY <1>1, <1>3, <1>4, <1>5, <1>6 DEF t

(* Leaving from position i removes exactly the one who stood there.        *)
LEMMA RemoveAtFacts ==
    ASSUME NEW S, NEW s \in Seq(S), IsInjective(s), NEW i \in DOMAIN s
    PROVE  /\ RemoveAt(s, i) \in Seq(S)
           /\ Len(RemoveAt(s, i)) = Len(s) - 1
           /\ Range(RemoveAt(s, i)) = Range(s) \ {s[i]}
           /\ IsInjective(RemoveAt(s, i))
<1> DEFINE a == SubSeq(s, 1, i - 1)
           b == SubSeq(s, i + 1, Len(s))
           t == RemoveAt(s, i)
<1>1. DOMAIN s = 1 .. Len(s) /\ Len(s) \in Nat /\ i \in 1 .. Len(s)
  BY LenProperties
<1>2. \A k \in 1 .. Len(s) : s[k] \in S
  BY ElementOfSeq
<1>3. /\ a \in Seq(S) /\ Len(a) = i - 1
      /\ \A k \in 1 .. i - 1 : a[k] = s[k]
  <2>1. \A k \in 1 .. i - 1 : s[k] \in S
    BY <1>1, <1>2
  <2>2. /\ a \in Seq(S)
        /\ Len(a) = IF 1 <= i - 1 THEN i - 1 - 1 + 1 ELSE 0
        /\ \A k \in 1 .. i - 1 - 1 + 1 : a[k] = s[1 + k - 1]
    BY <1>1, <2>1, SubSeqProperties
  <2> HIDE DEF a
  <2> QED BY <1>1, <2>2
<1>4. /\ b \in Seq(S) /\ Len(b) = Len(s) - i
      /\ \A k \in 1 .. Len(s) - i : b[k] = s[i + k]
  <2>1. \A k \in i + 1 .. Len(s) : s[k] \in S
    BY <1>1, <1>2
  <2>2. /\ b \in Seq(S)
        /\ Len(b) = IF i + 1 <= Len(s) THEN Len(s) - (i + 1) + 1 ELSE 0
        /\ \A k \in 1 .. Len(s) - (i + 1) + 1 : b[k] = s[i + 1 + k - 1]
    BY <1>1, <2>1, SubSeqProperties
  <2> HIDE DEF b
  <2>3. Len(b) = Len(s) - i
    BY <1>1, <2>2
  <2>4. ASSUME NEW k \in 1 .. Len(s) - i
        PROVE  b[k] = s[i + k]
    <3>1. b[k] = s[i + 1 + k - 1]
      BY <1>1, <2>2
    <3>2. i + 1 + k - 1 = i + k
      BY <1>1
    <3> QED BY <3>1, <3>2
  <2> QED BY <2>2, <2>3, <2>4
<1>5. t = a \o b
  BY DEF RemoveAt
<1> HIDE DEF a, b, t
<1>6. /\ t \in Seq(S) /\ Len(t) = Len(s) - 1
      /\ \A k \in 1 .. Len(s) - 1 : t[k] = IF k < i THEN s[k] ELSE s[k + 1]
  <2>1. /\ t \in Seq(S) /\ Len(t) = Len(a) + Len(b)
        /\ \A k \in 1 .. Len(a) + Len(b) :
              t[k] = IF k <= Len(a) THEN a[k] ELSE b[k - Len(a)]
    BY <1>3, <1>4, <1>5, ConcatProperties
  <2>2. ASSUME NEW k \in 1 .. Len(s) - 1
        PROVE  t[k] = IF k < i THEN s[k] ELSE s[k + 1]
    <3>1. CASE k < i
      BY <1>1, <1>3, <1>4, <2>1, <3>1
    <3>2. CASE ~ (k < i)
      <4>1. k - (i - 1) \in 1 .. Len(s) - i
        BY <1>1, <3>2
      <4>2. b[k - (i - 1)] = s[i + (k - (i - 1))]
        BY <1>4, <4>1
      <4> QED BY <1>1, <1>3, <1>4, <2>1, <3>2, <4>2
    <3> QED BY <3>1, <3>2
  <2> QED BY <1>1, <1>3, <1>4, <2>1, <2>2
<1>7. DOMAIN t = 1 .. Len(s) - 1
  BY <1>6, LenProperties
<1>8. Range(t) = Range(s) \ {s[i]}
  <2>1. ASSUME NEW x \in Range(t)
        PROVE  x \in Range(s) /\ x # s[i]
    <3>1. PICK k \in 1 .. Len(s) - 1 : t[k] = x
      BY <1>7 DEF Range
    <3>2. CASE k < i
      BY <1>1, <1>6, <3>1, <3>2 DEF Range, IsInjective
    <3>3. CASE ~ (k < i)
      BY <1>1, <1>6, <3>1, <3>3 DEF Range, IsInjective
    <3> QED BY <3>2, <3>3
  <2>2. ASSUME NEW x \in Range(s), x # s[i]
        PROVE  x \in Range(t)
    <3>1. PICK k \in 1 .. Len(s) : s[k] = x
      BY <1>1 DEF Range
    <3>2. CASE k < i
      <4>1. k \in 1 .. Len(s) - 1 /\ t[k] = x
        BY <1>1, <1>6, <3>1, <3>2
      <4> QED BY <1>7, <4>1 DEF Range
    <3>3. CASE ~ (k < i)
      <4>1. k - 1 \in 1 .. Len(s) - 1 /\ t[k - 1] = x
        BY <1>1, <1>6, <2>2, <3>1, <3>3
      <4> QED BY <1>7, <4>1 DEF Range
    <3> QED BY <3>2, <3>3
  <2> QED BY <2>1, <2>2
<1>9. IsInjective(t)
  <2>1. SUFFICES ASSUME NEW j \in 1 .. Len(s) - 1, NEW k \in 1 .. Len(s) - 1,
                        t[j] = t[k]
                 PROVE  j = k
    BY <1>7 DEF IsInjective
  <2> DEFINE at(n) == IF n < i THEN n ELSE n + 1
  <2>2. at(j) \in 1 .. Len(s) /\ at(k) \in 1 .. Len(s)
    BY <1>1
  <2>3. t[j] = s[at(j)] /\ t[k] = s[at(k)]
    BY <1>1, <1>6
  <2>4. at(j) = at(k)
    <3> HIDE DEF at
    <3> QED BY <1>1, <2>1, <2>2, <2>3 DEF IsInjective
  <2> QED BY <1>1, <2>4
<1> QED BY <1>6, <1>8, <1>9 DEF t

-----------------------------------------------------------------------------
(* Sums over finite sets. *)

\* The element a sum takes next, and the recursion of a sum over the subsets of S.
Pick(T) == CHOOSE x \in T : TRUE

IsSum(f, g, S) ==
    g = [T \in SUBSET S |-> IF T = {} THEN 0 ELSE f[Pick(T)] + g[T \ {Pick(T)}]]

(* Of a family of subsets of a finite set, some member has no other one    *)
(* below it.  It stands in for induction over finite sets: a claim that     *)
(* fails, fails for a minimal set.                                          *)
LEMMA MinimalSet ==
    ASSUME NEW S, IsFiniteSet(S), NEW B \in SUBSET (SUBSET S), B # {}
    PROVE  \E T \in B : \A U \in B : U \subseteq T => U = T
<1>1. IsWellFoundedOn(StrictSubsetOrdering(S), SUBSET S)
  BY FS_StrictSubsetOrderingWellFounded, FS_FiniteSubsetsOfFinite
<1>2. PICK T \in B : \A U \in B : ~(<<U, T>> \in StrictSubsetOrdering(S))
  BY <1>1, WFMin
<1>3. \A U \in B : U \subseteq T => U = T
  BY <1>2, Zenon DEF StrictSubsetOrdering
<1> QED BY <1>3

(* A sum over a subset is zero, or one value and the sum over the rest.     *)
LEMMA SumStep ==
    ASSUME NEW f, NEW g, NEW S, IsSum(f, g, S), NEW T \in SUBSET S
    PROVE  /\ T = {} => g[T] = 0
           /\ T # {} => /\ Pick(T) \in T
                        /\ T \ {Pick(T)} \in SUBSET S
                        /\ g[T] = f[Pick(T)] + g[T \ {Pick(T)}]
<1>1. T # {} => Pick(T) \in T
  BY DEF Pick
<1>2. g[T] = IF T = {} THEN 0 ELSE f[Pick(T)] + g[T \ {Pick(T)}]
  BY DEF IsSum
<1> QED BY <1>1, <1>2

(* Two such recursions agree wherever both are defined.                     *)
LEMMA SumsAgree ==
    ASSUME NEW f, NEW S, IsFiniteSet(S), NEW R, S \subseteq R,
           NEW g, IsSum(f, g, S), NEW h, IsSum(f, h, R)
    PROVE  g[S] = h[S]
<1> DEFINE B == {T \in SUBSET S : g[T] # h[T]}
<1>1. SUFFICES ASSUME B # {} PROVE FALSE
  OBVIOUS
<1>2. PICK T \in B : \A U \in B : U \subseteq T => U = T
  <2>1. B \in SUBSET (SUBSET S)
    OBVIOUS
  <2> HIDE DEF B
  <2> QED BY <1>1, <2>1, MinimalSet
<1>3. T \in SUBSET S /\ T \in SUBSET R /\ g[T] # h[T]
  BY <1>2
<1>4. T # {} /\ Pick(T) \in T /\ T \ {Pick(T)} \in SUBSET S
      /\ g[T] = f[Pick(T)] + g[T \ {Pick(T)}]
      /\ h[T] = f[Pick(T)] + h[T \ {Pick(T)}]
  BY <1>3, SumStep
<1>5. g[T \ {Pick(T)}] = h[T \ {Pick(T)}]
  BY <1>2, <1>4
<1> QED BY <1>3, <1>4, <1>5

(* Over a finite set there is one.                                          *)
LEMMA SumExists ==
    ASSUME NEW f, NEW S, IsFiniteSet(S)
    PROVE  \E g : IsSum(f, g, S)
<1> DEFINE B == {T \in SUBSET S : ~ \E g : IsSum(f, g, T)}
<1>1. SUFFICES ASSUME B # {} PROVE FALSE
  OBVIOUS
<1>2. PICK N \in B : \A U \in B : U \subseteq N => U = N
  <2>1. B \in SUBSET (SUBSET S)
    OBVIOUS
  <2> HIDE DEF B
  <2> QED BY <1>1, <2>1, MinimalSet
<1>3. N \in SUBSET S /\ ~ \E g : IsSum(f, g, N)
  BY <1>2
<1>4. \A U \in SUBSET N : U # N => \E g : IsSum(f, g, U)
  BY <1>2, <1>3
<1> HIDE DEF B
<1> DEFINE of(T) == CHOOSE g : IsSum(f, g, T)
           G == [T \in SUBSET N |->
                    IF T = {} THEN 0 ELSE f[Pick(T)] + of(T \ {Pick(T)})[T \ {Pick(T)}]]
<1>5. \A U \in SUBSET N : U # N => IsSum(f, of(U), U)
  BY <1>4
<1>6. ASSUME NEW T \in SUBSET N, T # {}
      PROVE  G[T \ {Pick(T)}] = of(T \ {Pick(T)})[T \ {Pick(T)}]
  <2>1. PICK R : R = T \ {Pick(T)}
    OBVIOUS
  <2>2. Pick(T) \in T /\ R \in SUBSET N /\ R # N
    BY <1>6, <2>1 DEF Pick
  <2>3. IsSum(f, of(R), R)
    BY <1>5, <2>2
  <2>4. G[R] = IF R = {} THEN 0 ELSE f[Pick(R)] + of(R \ {Pick(R)})[R \ {Pick(R)}]
    BY <2>2
  <2>5. CASE R = {}
    <3>1. of(R)[R] = 0
      BY <2>3, <2>5, SumStep
    <3> QED BY <2>1, <2>4, <2>5, <3>1
  <2>6. CASE R # {}
    <3>1. PICK Q : Q = R \ {Pick(R)}
      OBVIOUS
    <3>2. of(R)[R] = f[Pick(R)] + of(R)[Q] /\ Pick(R) \in R
      BY <2>3, <2>6, <3>1, SumStep
    <3>3. Q \subseteq R /\ Q \in SUBSET N /\ Q # N /\ IsFiniteSet(Q)
      BY <1>3, <2>2, <3>1, <3>2, FS_Subset
    <3>4. IsSum(f, of(Q), Q)
      BY <1>5, <3>3
    <3> HIDE DEF of, G
    <3>5. of(Q)[Q] = of(R)[Q]
      BY <2>3, <3>3, <3>4, SumsAgree
    <3> QED BY <2>1, <2>4, <2>6, <3>1, <3>2, <3>5
  <2> QED BY <2>5, <2>6
<1>7. IsSum(f, G, N)
  <2>1. \A T \in SUBSET N :
          (IF T = {} THEN 0 ELSE f[Pick(T)] + of(T \ {Pick(T)})[T \ {Pick(T)}])
          = (IF T = {} THEN 0 ELSE f[Pick(T)] + G[T \ {Pick(T)}])
    <3> HIDE DEF of, G
    <3> QED BY <1>6
  <2>2. G = [T \in SUBSET N |->
                IF T = {} THEN 0 ELSE f[Pick(T)] + of(T \ {Pick(T)})[T \ {Pick(T)}]]
    OBVIOUS
  <2> HIDE DEF of, G
  <2> QED BY <2>1, <2>2 DEF IsSum
<1> QED BY <1>3, <1>7

(* SumFunctionOnSet is that recursion.                                     *)
LEMMA SumOperatorIsSum ==
    ASSUME NEW f, NEW S, IsFiniteSet(S)
    PROVE  \E g : IsSum(f, g, S) /\ SumFunctionOnSet(f, S) = g[S]
<1> DEFINE g == CHOOSE h : IsSum(f, h, S)
<1>1. IsSum(f, g, S)
  BY SumExists
<1>2. SumFunctionOnSet(f, S) = g[S]
  BY Zenon DEF SumFunctionOnSet, FoldFunctionOnSet, MapThenFoldSet, IsSum, Pick
<1> QED BY <1>1, <1>2

(* A sum is one value and the sum over the rest.                            *)
LEMMA SumUnfolds ==
    ASSUME NEW f, NEW S, IsFiniteSet(S)
    PROVE  /\ S = {} => SumFunctionOnSet(f, S) = 0
           /\ S # {} => /\ Pick(S) \in S
                        /\ SumFunctionOnSet(f, S)
                              = f[Pick(S)] + SumFunctionOnSet(f, S \ {Pick(S)})
<1>1. PICK g : IsSum(f, g, S) /\ SumFunctionOnSet(f, S) = g[S]
  BY SumOperatorIsSum
<1>2. CASE S = {}
  BY <1>1, <1>2, SumStep
<1>3. CASE S # {}
  <2>1. PICK R : R = S \ {Pick(S)}
    OBVIOUS
  <2>2. Pick(S) \in S /\ g[S] = f[Pick(S)] + g[R]
    BY <1>1, <1>3, <2>1, SumStep
  <2>3. IsFiniteSet(R) /\ R \subseteq S
    BY <2>1, FS_Subset
  <2>4. PICK h : IsSum(f, h, R) /\ SumFunctionOnSet(f, R) = h[R]
    BY <2>3, SumOperatorIsSum
  <2>5. h[R] = g[R]
    BY <1>1, <2>3, <2>4, SumsAgree
  <2> QED BY <1>1, <1>3, <2>1, <2>2, <2>4, <2>5
<1> QED BY <1>2, <1>3

(* Sums of integers are integers, sums of naturals naturals.                *)
LEMMA SumType ==
    ASSUME NEW f, NEW S, IsFiniteSet(S)
    PROVE  /\ (\A x \in S : f[x] \in Int) => SumFunctionOnSet(f, S) \in Int
           /\ (\A x \in S : f[x] \in Nat) => SumFunctionOnSet(f, S) \in Nat
<1> SUFFICES \A N \in {Int, Nat} :
                (\A x \in S : f[x] \in N) => SumFunctionOnSet(f, S) \in N
  OBVIOUS
<1> TAKE N \in {Int, Nat}
<1> HAVE \A x \in S : f[x] \in N
<1> DEFINE B == {T \in SUBSET S : SumFunctionOnSet(f, T) \notin N}
<1>1. SUFFICES ASSUME B # {} PROVE FALSE
  OBVIOUS
<1>2. PICK T \in B : \A U \in B : U \subseteq T => U = T
  <2>1. B \in SUBSET (SUBSET S)
    OBVIOUS
  <2> HIDE DEF B
  <2> QED BY <1>1, <2>1, MinimalSet
<1>3. T \in SUBSET S /\ SumFunctionOnSet(f, T) \notin N /\ IsFiniteSet(T) /\ 0 \in N
  BY <1>2, FS_Subset
<1>4. /\ T # {} /\ Pick(T) \in T
      /\ SumFunctionOnSet(f, T) = f[Pick(T)] + SumFunctionOnSet(f, T \ {Pick(T)})
  BY <1>3, SumUnfolds
<1>5. SumFunctionOnSet(f, T \ {Pick(T)}) \in N
  BY <1>2, <1>4
<1>6. f[Pick(T)] \in N
  BY <1>3, <1>4
<1>7. \A i, j \in N : i + j \in N
  OBVIOUS
<1> HIDE DEF B
<1> QED BY <1>3, <1>4, <1>5, <1>6, <1>7

(* A sum depends on the values over its set only.                           *)
LEMMA SumSame ==
    ASSUME NEW f, NEW h, NEW S, IsFiniteSet(S), \A x \in S : f[x] = h[x]
    PROVE  SumFunctionOnSet(f, S) = SumFunctionOnSet(h, S)
<1> DEFINE B == {T \in SUBSET S : SumFunctionOnSet(f, T) # SumFunctionOnSet(h, T)}
<1>1. SUFFICES ASSUME B # {} PROVE FALSE
  OBVIOUS
<1>2. PICK T \in B : \A U \in B : U \subseteq T => U = T
  <2>1. B \in SUBSET (SUBSET S)
    OBVIOUS
  <2> HIDE DEF B
  <2> QED BY <1>1, <2>1, MinimalSet
<1>3. T \in SUBSET S /\ SumFunctionOnSet(f, T) # SumFunctionOnSet(h, T) /\ IsFiniteSet(T)
  BY <1>2, FS_Subset
<1>4. /\ T # {} /\ Pick(T) \in T
      /\ SumFunctionOnSet(f, T) = f[Pick(T)] + SumFunctionOnSet(f, T \ {Pick(T)})
      /\ SumFunctionOnSet(h, T) = h[Pick(T)] + SumFunctionOnSet(h, T \ {Pick(T)})
  BY <1>3, SumUnfolds
<1>5. SumFunctionOnSet(f, T \ {Pick(T)}) = SumFunctionOnSet(h, T \ {Pick(T)})
  BY <1>2, <1>4
<1> QED BY <1>3, <1>4, <1>5

(* Any element may be taken out: its value is what the sum loses.           *)
LEMMA SumRemove ==
    ASSUME NEW f, NEW S, IsFiniteSet(S), \A y \in S : f[y] \in Int, NEW x \in S
    PROVE  SumFunctionOnSet(f, S) = f[x] + SumFunctionOnSet(f, S \ {x})
<1> DEFINE Good(T) ==
               \A y \in T : SumFunctionOnSet(f, T) = f[y] + SumFunctionOnSet(f, T \ {y})
           B == {T \in SUBSET S : ~Good(T)}
<1>1. SUFFICES ASSUME B # {} PROVE FALSE
  OBVIOUS
<1>2. PICK T \in B : \A U \in B : U \subseteq T => U = T
  <2>1. B \in SUBSET (SUBSET S)
    OBVIOUS
  <2> HIDE DEF B
  <2> QED BY <1>1, <2>1, MinimalSet
<1>3. T \in SUBSET S /\ ~Good(T) /\ IsFiniteSet(T)
  BY <1>2, FS_Subset
<1>4. \A z \in T : Good(T \ {z})
  BY <1>2, <1>3
<1>5. PICK x1 \in T : SumFunctionOnSet(f, T) # f[x1] + SumFunctionOnSet(f, T \ {x1})
  BY <1>3
<1>6. PICK p \in T : SumFunctionOnSet(f, T) = f[p] + SumFunctionOnSet(f, T \ {p})
  BY <1>3, SumUnfolds
<1>7. PICK R : R = (T \ {p}) \ {x1}
  OBVIOUS
<1>8. R = (T \ {x1}) \ {p} /\ R \subseteq S /\ IsFiniteSet(R) /\ p # x1
  BY <1>3, <1>5, <1>6, <1>7, FS_Subset
<1>9. SumFunctionOnSet(f, T \ {p}) = f[x1] + SumFunctionOnSet(f, R)
  BY <1>4, <1>5, <1>7, <1>8
<1>10. SumFunctionOnSet(f, T \ {x1}) = f[p] + SumFunctionOnSet(f, R)
  BY <1>4, <1>6, <1>8
<1>11. f[p] \in Int /\ f[x1] \in Int /\ SumFunctionOnSet(f, R) \in Int
  BY <1>3, <1>8, SumType
<1> HIDE DEF Good, B
<1> QED BY <1>5, <1>6, <1>9, <1>10, <1>11

(* A new element adds its value.                                            *)
LEMMA SumAdd ==
    ASSUME NEW f, NEW S, IsFiniteSet(S), NEW x, x \notin S,
           \A y \in S \cup {x} : f[y] \in Int
    PROVE  SumFunctionOnSet(f, S \cup {x}) = SumFunctionOnSet(f, S) + f[x]
<1>1. PICK R : R = S \cup {x}
  OBVIOUS
<1>2. IsFiniteSet(R) /\ x \in R /\ R \ {x} = S /\ \A y \in R : f[y] \in Int
  BY <1>1, FS_AddElement
<1>3. SumFunctionOnSet(f, R) = f[x] + SumFunctionOnSet(f, S)
  BY <1>2, SumRemove
<1>4. SumFunctionOnSet(f, S) \in Int /\ f[x] \in Int
  BY <1>1, SumType
<1> QED BY <1>1, <1>3, <1>4

(* A sum of naturals over a larger set is not smaller.                      *)
LEMMA SumGrows ==
    ASSUME NEW f, NEW T, IsFiniteSet(T), \A y \in T : f[y] \in Nat, NEW S \in SUBSET T
    PROVE  SumFunctionOnSet(f, S) <= SumFunctionOnSet(f, T)
<1> DEFINE B == {U \in SUBSET T : /\ S \subseteq U
                                /\ ~(SumFunctionOnSet(f, S) <= SumFunctionOnSet(f, U))}
<1>1. SUFFICES ASSUME B # {} PROVE FALSE
  OBVIOUS
<1>2. PICK U \in B : \A V \in B : V \subseteq U => V = U
  <2>1. B \in SUBSET (SUBSET T)
    OBVIOUS
  <2> HIDE DEF B
  <2> QED BY <1>1, <2>1, MinimalSet
<1>3. /\ U \in SUBSET T /\ S \subseteq U /\ IsFiniteSet(U) /\ IsFiniteSet(S)
      /\ ~(SumFunctionOnSet(f, S) <= SumFunctionOnSet(f, U))
  BY <1>2, FS_Subset
<1>4. SumFunctionOnSet(f, S) \in Nat
  BY <1>3, SumType
<1>5. PICK x \in U : x \notin S
  BY <1>3, <1>4
<1>6. SumFunctionOnSet(f, S) <= SumFunctionOnSet(f, U \ {x})
  BY <1>2, <1>3, <1>5
<1>7. PICK R : R = U \ {x}
  OBVIOUS
<1>8. R \subseteq T /\ IsFiniteSet(R)
  BY <1>3, <1>7, FS_Subset
<1>9. SumFunctionOnSet(f, R) \in Nat /\ f[x] \in Nat
  BY <1>3, <1>8, SumType
<1>10. \A y \in U : f[y] \in Int
  BY <1>3
<1>11. SumFunctionOnSet(f, U) = f[x] + SumFunctionOnSet(f, R)
  BY <1>3, <1>7, <1>10, SumRemove
<1> HIDE DEF B
<1> QED BY <1>3, <1>4, <1>6, <1>7, <1>9, <1>11

(* The same of SumFunction: its type, the empty sum, one argument more, and *)
(* a larger domain.                                                         *)
LEMMA SumFunctionFacts ==
    ASSUME NEW f, IsFiniteSet(DOMAIN f)
    PROVE  /\ (\A x \in DOMAIN f : f[x] \in Int) => SumFunction(f) \in Int
           /\ (\A x \in DOMAIN f : f[x] \in Nat) => SumFunction(f) \in Nat
           /\ DOMAIN f = {} => SumFunction(f) = 0
<1>1. PICK S : S = DOMAIN f
  OBVIOUS
<1>2. SumFunction(f) = SumFunctionOnSet(f, S)
  BY <1>1 DEF SumFunction
<1>3. /\ (\A x \in S : f[x] \in Int) => SumFunctionOnSet(f, S) \in Int
      /\ (\A x \in S : f[x] \in Nat) => SumFunctionOnSet(f, S) \in Nat
      /\ S = {} => SumFunctionOnSet(f, S) = 0
  BY <1>1, SumType, SumUnfolds
<1> QED BY <1>1, <1>2, <1>3

LEMMA SumFunctionAdd ==
    ASSUME NEW h, NEW f, NEW x, IsFiniteSet(DOMAIN h), x \notin DOMAIN h,
           DOMAIN f = DOMAIN h \cup {x}, \A y \in DOMAIN f : f[y] \in Int,
           \A y \in DOMAIN h : f[y] = h[y]
    PROVE  SumFunction(f) = SumFunction(h) + f[x]
<1>1. SumFunctionOnSet(f, DOMAIN h \cup {x}) = SumFunctionOnSet(f, DOMAIN h) + f[x]
  BY SumAdd
<1>2. SumFunctionOnSet(f, DOMAIN h) = SumFunctionOnSet(h, DOMAIN h)
  BY SumSame
<1>3. SumFunction(h) = SumFunctionOnSet(h, DOMAIN h)
  BY DEF SumFunction
<1>4. SumFunction(f) = SumFunctionOnSet(f, DOMAIN h \cup {x})
  BY DEF SumFunction
<1> QED BY <1>1, <1>2, <1>3, <1>4

LEMMA SumFunctionGrows ==
    ASSUME NEW h, NEW f, IsFiniteSet(DOMAIN f), DOMAIN h \subseteq DOMAIN f,
           \A y \in DOMAIN f : f[y] \in Nat, \A y \in DOMAIN h : f[y] = h[y]
    PROVE  SumFunction(h) <= SumFunction(f)
<1>1. IsFiniteSet(DOMAIN h)
  BY FS_Subset
<1>2. SumFunctionOnSet(f, DOMAIN h) = SumFunctionOnSet(h, DOMAIN h)
  BY <1>1, SumSame
<1>3. SumFunctionOnSet(f, DOMAIN h) <= SumFunctionOnSet(f, DOMAIN f)
  BY SumGrows
<1>4. SumFunction(h) = SumFunctionOnSet(h, DOMAIN h)
  BY DEF SumFunction
<1>5. SumFunction(f) = SumFunctionOnSet(f, DOMAIN f)
  BY DEF SumFunction
<1> QED BY <1>2, <1>3, <1>4, <1>5

(* Zeros add up to zero.                                                    *)
LEMMA SumZero ==
    ASSUME NEW f, IsFiniteSet(DOMAIN f), \A x \in DOMAIN f : f[x] = 0
    PROVE  SumFunction(f) = 0
<1>1. PICK S : S = DOMAIN f
  OBVIOUS
<1> DEFINE B == {T \in SUBSET S : SumFunctionOnSet(f, T) # 0}
<1>2. SUFFICES ASSUME B # {} PROVE FALSE
  BY <1>1 DEF SumFunction
<1>3. PICK T \in B : \A U \in B : U \subseteq T => U = T
  <2>1. B \in SUBSET (SUBSET S)
    OBVIOUS
  <2> HIDE DEF B
  <2> QED BY <1>1, <1>2, <2>1, MinimalSet
<1>4. T \in SUBSET S /\ SumFunctionOnSet(f, T) # 0 /\ IsFiniteSet(T)
  BY <1>1, <1>3, FS_Subset
<1>5. /\ T # {} /\ Pick(T) \in T
      /\ SumFunctionOnSet(f, T) = f[Pick(T)] + SumFunctionOnSet(f, T \ {Pick(T)})
  BY <1>4, SumUnfolds
<1>6. SumFunctionOnSet(f, T \ {Pick(T)}) = 0 /\ f[Pick(T)] = 0
  BY <1>1, <1>3, <1>4, <1>5
<1> HIDE DEF B
<1> QED BY <1>4, <1>5, <1>6

(* What a function takes a finite set to is finite.                         *)
LEMMA ImageFinite ==
    ASSUME NEW S, IsFiniteSet(S), NEW f
    PROVE  IsFiniteSet({f[x] : x \in S})
<1> DEFINE T == {f[x] : x \in S}
           g == [x \in S |-> f[x]]
<1>1. g \in Surjection(S, T)
  BY DEF Surjection
<1> HIDE DEF g, T
<1> QED BY <1>1, FS_Surjection DEF T

-----------------------------------------------------------------------------
(* Division with remainder. *)

(* A natural number is a multiple and a remainder below n.                 *)
LEMMA DivMod ==
    ASSUME NEW n \in Nat \ {0}, NEW p \in Nat
    PROVE  /\ p % n \in 0 .. n - 1
           /\ p \div n \in Nat
           /\ p = n * (p \div n) + (p % n)
OBVIOUS

(* The remainder is the only number below n that completes a multiple.     *)
LEMMA ModUnique ==
    ASSUME NEW n \in Nat \ {0}, NEW q \in Nat, NEW b \in 0 .. n - 1
    PROVE  (n * q + b) % n = b
<1> DEFINE m == n * q + b
<1>1. m \in Nat
  OBVIOUS
<1>2. PICK q2 \in Nat, b2 \in 0 .. n - 1 : m = n * q2 + b2 /\ b2 = m % n
  <2> HIDE DEF m
  <2> QED BY <1>1, DivMod
<1>3. CASE q2 > q
  <2>1. PICK d \in Nat : q2 = q + 1 + d
    <3>1. q2 - q - 1 \in Nat /\ q2 = q + 1 + (q2 - q - 1)
      BY <1>3
    <3> QED BY <3>1
  <2>2. n * q2 = n * q + n + n * d /\ n * d \in Nat
    BY <2>1
  <2> QED BY <1>2, <2>2
<1>4. CASE q2 < q
  <2>1. PICK d \in Nat : q = q2 + 1 + d
    <3>1. q - q2 - 1 \in Nat /\ q = q2 + 1 + (q - q2 - 1)
      BY <1>4
    <3> QED BY <3>1
  <2>2. n * q = n * q2 + n + n * d /\ n * d \in Nat
    BY <2>1
  <2> QED BY <1>2, <2>2
<1>5. CASE q2 = q
  BY <1>2, <1>5
<1> QED BY <1>3, <1>4, <1>5

(* What a counter taken modulo n shows after one more step.                *)
LEMMA ModStep ==
    ASSUME NEW n \in Nat \ {0}, NEW p \in Nat
    PROVE  (p + 1) % n = IF (p % n) + 1 = n THEN 0 ELSE (p % n) + 1
<1> DEFINE q == p \div n
           b == p % n
<1>1. q \in Nat /\ b \in 0 .. n - 1 /\ p = n * q + b
  BY DivMod
<1> HIDE DEF q, b
<1>2. CASE b + 1 = n
  <2>1. p + 1 = n * (q + 1) + 0
    BY <1>1, <1>2
  <2>2. (n * (q + 1) + 0) % n = 0
    BY <1>1, ModUnique
  <2> QED BY <1>2, <2>1, <2>2 DEF b
<1>3. CASE b + 1 # n
  <2>1. p + 1 = n * q + (b + 1) /\ b + 1 \in 0 .. n - 1
    BY <1>1, <1>3
  <2>2. (n * q + (b + 1)) % n = b + 1
    BY <1>1, <2>1, ModUnique
  <2> QED BY <1>3, <2>1, <2>2 DEF b
<1> QED BY <1>2, <1>3 DEF b

(* Numbers with the same quotient lie in the same stretch of n numbers.     *)
LEMMA SameQuotient ==
    ASSUME NEW n \in Nat \ {0}, NEW a \in Nat
    PROVE  /\ (a \div n) \in Nat
           /\ (a \div n) * n <= a
           /\ a <= (a \div n) * n + n - 1
<1>1. PICK q \in Nat, b \in 0 .. n - 1 : q = a \div n /\ a = n * q + b
  BY DivMod
<1>2. n * q = q * n /\ q * n \in Nat
  OBVIOUS
<1> QED BY <1>1, <1>2
==============================================================================
